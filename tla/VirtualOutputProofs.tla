------------------------ MODULE VirtualOutputProofs ------------------------
(***************************************************************************)
(* Theorems about VirtualOutput.tla, for any set of sessions and of the    *)
(* user's monitors, with and without failures of hyprctl.                  *)
(***************************************************************************)
EXTENDS VirtualOutput, TLAPS

----------------------------------------------------------------------------
(* The strengthening.  What a session saved of the user's monitors is a    *)
(* state they can be in.                                                   *)
SavedTypeOK ==
  \A s \in Sessions : \A p \in Physical : saved[s][p] \in {"user", "moved", "absent"}

(* An output that a session found when it saved is still there when it     *)
(* creates none for that reason.                                           *)
SavedOwn ==
  \A s \in Sessions : pc[s] = "saved" /\ Existing(saved[s][s]) => Existing(mode[s])

(* The user's monitors: every session that sets up has saved them as the   *)
(* user left them, and they are so while no output is being made.          *)
UsersSafe == mishaps \subseteq {"overlap"}

SavedUsers ==
  UsersSafe =>
    \A s \in Sessions : pc[s] \in SettingUp => \A p \in Physical : saved[s][p] = "user"

(* Without any mishap only one session sets up at a time; what it saved of *)
(* the others that have their output is the mode they asked for, and its   *)
(* own output keeps the mode it configured.                                *)
OneAtATime ==
  mishaps = {} =>
    \A s, t \in Sessions : pc[s] \in SettingUp /\ pc[t] \in SettingUp => s = t

SavedSessions ==
  mishaps = {} =>
    \A s \in Sessions : pc[s] \in SettingUp =>
      \A t \in Sessions \ refused : pc[t] = "ready" => saved[s][t] = "asked"

ConfiguredMode ==
  mishaps = {} => \A s \in Sessions \ refused : pc[s] = "configured" => mode[s] = "asked"

IInv ==
  /\ TypeOK
  /\ SavedTypeOK
  /\ OutputStays
  /\ SavedOwn
  /\ SavedUsers
  /\ OneAtATime
  /\ SavedSessions
  /\ ConfiguredMode
  /\ UsersLayoutKept
  /\ SessionsModeKept

----------------------------------------------------------------------------
(* What Hyprland may make of the other monitors.                           *)
LEMMA RearrangedKeeps ==
  ASSUME TypeOK, NEW s \in Sessions, NEW now \in {"asked", "default", "absent"},
         NEW after \in Rearranged(mode, s, now)
  PROVE  /\ after \in [Monitors -> Modes \cup {"absent"}]
         /\ after[s] = now
         /\ \A m \in Monitors \ {s} : Existing(mode[m]) => Existing(after[m])
         /\ \A p \in Physical : after[p] \in {"user", "moved"}
  BY DisjointAssumption DEF Rearranged, Existing, TypeOK, Monitors

(* What Restore makes of the monitors, if all of it is obeyed or not.      *)
LEMMA RestoredKeeps ==
  ASSUME TypeOK, SavedTypeOK, NEW s \in Sessions
  PROVE  /\ Restored(s) \in [Monitors -> Modes \cup {"absent"}]
         /\ Restored(s)[s] = mode[s]
         /\ \A m \in Monitors : Existing(mode[m]) => Existing(Restored(s)[m])
         /\ \A p \in Physical : Restored(s)[p] \in {"user", "moved"}
         /\ \A m \in Monitors \ {s} :
              Existing(mode[m]) /\ Existing(saved[s][m]) => Restored(s)[m] = saved[s][m]
<1>1. s \in Monitors
  BY DEF Monitors
<1>2. \A m \in Monitors : saved[s][m] \in Modes \cup {"absent"} /\ mode[m] \in Modes \cup {"absent"}
  BY DEF TypeOK
<1>3. \A p \in Physical : p \in Monitors /\ mode[p] \in {"user", "moved"}
  BY DEF TypeOK, Monitors
<1>4. QED
  BY <1>1, <1>2, <1>3 DEF Restored, Existing, SavedTypeOK

LEMMA RestoreKeeps ==
  ASSUME TypeOK, SavedTypeOK, NEW s \in Sessions, Restore(s)
  PROVE  /\ mode' \in [Monitors -> Modes \cup {"absent"}]
         /\ \A m \in Monitors : Existing(mode[m]) => Existing(mode'[m])
         /\ \A p \in Physical : mode'[p] \in {"user", "moved"}
         /\ mishaps' \subseteq Mishaps \ {"unrestored"} => mode' = Restored(s)
<1>1. mode' \in [Monitors -> Modes \cup {"absent"}]
      /\ \A m \in Monitors : mode'[m] \in {mode[m], Restored(s)[m]}
  <2>1. mode' = Restored(s) \/ mode' \in PartlyRestored(s)
    BY DEF Restore
  <2>2. QED  BY <2>1, RestoredKeeps DEF PartlyRestored
<1>2. \A p \in Physical : p \in Monitors /\ mode[p] \in {"user", "moved"}
  BY DEF TypeOK, Monitors
<1>3. mode' # Restored(s) => "unrestored" \in mishaps'
  BY DEF Restore, Mishap
<1>4. QED  BY <1>1, <1>2, <1>3, RestoredKeeps

(* Type correctness.                                                       *)
LEMMA TypeInit == Init => TypeOK /\ SavedTypeOK
<1> SUFFICES ASSUME Init PROVE TypeOK /\ SavedTypeOK
  OBVIOUS
<1>1. NothingSaved \in [Monitors -> Modes \cup {"absent"}]
  BY DEF NothingSaved
<1>2. mode \in [Monitors -> Modes \cup {"absent"}] /\ \A p \in Physical : mode[p] = "user"
  BY DEF Init, Modes
<1>3. SavedTypeOK
  BY DEF Init, NothingSaved, SavedTypeOK, Monitors
<1>4. QED
  BY <1>1, <1>2, <1>3 DEF Init, TypeOK

LEMMA TypeStep ==
  ASSUME TypeOK, SavedTypeOK, NEW s \in Sessions, SessionStep(s)
  PROVE  TypeOK' /\ SavedTypeOK'
<1>1. NothingSaved \in [Monitors -> Modes \cup {"absent"}]
  BY DEF NothingSaved
<1>2. pc' \in [Sessions -> {"idle", "ready"} \cup SettingUp]
  BY DEF TypeOK, SettingUp, SessionStep, Save, Create, Configure, Restore, CreateFails, Drop
<1>3. refused' \in SUBSET Sessions /\ mishaps' \in SUBSET Mishaps
  BY DEF TypeOK, SessionStep, Save, Create, Configure, Restore, CreateFails, Drop, Mishap, Mishaps
<1>4. saved' \in [Sessions -> [Monitors -> Modes \cup {"absent"}]]
  BY <1>1 DEF TypeOK, SessionStep, Save, Create, Configure, Restore, CreateFails, Drop
<1>5. SavedTypeOK'
  <2>1. \A p \in Physical : NothingSaved[p] = "absent"
    BY DEF NothingSaved, Monitors
  <2>2. \A t \in Sessions : saved'[t] = saved[t] \/ saved'[t] = mode \/ saved'[t] = NothingSaved
    BY DEF TypeOK, SessionStep, Save, Create, Configure, Restore, CreateFails, Drop
  <2>3. \A p \in Physical : mode[p] \in {"user", "moved", "absent"}
    BY DEF TypeOK
  <2>4. QED  BY <2>1, <2>2, <2>3 DEF SavedTypeOK
<1>6. /\ mode' \in [Monitors -> Modes \cup {"absent"}]
     /\ \A p \in Physical : mode'[p] \in {"user", "moved"}
  <2>1. CASE Create(s) \/ Configure(s) \/ Drop(s)
    BY <2>1, RearrangedKeeps DEF Create, Configure, Drop, TypeOK
  <2>2. CASE Restore(s)
    BY <2>2, RestoreKeeps
  <2>3. CASE Save(s) \/ CreateFails(s)
    BY <2>3 DEF Save, CreateFails, TypeOK
  <2>4. QED  BY <2>1, <2>2, <2>3 DEF SessionStep
<1>7. QED
  BY <1>2, <1>3, <1>4, <1>5, <1>6 DEF TypeOK

(* Nobody but its session removes an output.                               *)
LEMMA ExistingStays ==
  ASSUME TypeOK, SavedTypeOK, NEW s \in Sessions, SessionStep(s),
         NEW m \in Monitors, Existing(mode[m]), m # s \/ ~Drop(s)
  PROVE  Existing(mode'[m])
<1> USE DEF Existing
<1>1. CASE Create(s) \/ Configure(s)
  <2>1. \A now \in {"asked", "default"} : mode' \in Rearranged(mode, s, now) => mode'[m] # "absent"
    BY RearrangedKeeps
  <2>2. QED  BY <1>1, <2>1 DEF Create, Configure
<1>2. CASE Restore(s)
  BY <1>2, RestoreKeeps
<1>3. CASE Save(s) \/ CreateFails(s)
  BY <1>3 DEF Save, CreateFails
<1>4. CASE Drop(s)
  <2>1. m \in Monitors \ {s}
    BY <1>4
  <2>2. mode' \in Rearranged(mode, s, "absent") => mode'[m] # "absent"
    BY <2>1, RearrangedKeeps
  <2>3. QED  BY <1>4, <2>2 DEF Drop
<1>5. QED  BY <1>1, <1>2, <1>3, <1>4 DEF SessionStep

LEMMA OutputStaysStep ==
  ASSUME TypeOK, SavedTypeOK, OutputStays, SavedOwn, NEW s \in Sessions, SessionStep(s)
  PROVE  OutputStays' /\ SavedOwn'
<1> Sessions \subseteq Monitors
  BY DEF Monitors
<1>1. \A t \in Sessions : t # s => pc'[t] = pc[t] /\ saved'[t] = saved[t]
  BY DEF SessionStep, Save, Create, Configure, Restore, CreateFails, Drop, TypeOK
<1>2. ASSUME NEW t \in Sessions, t # s
      PROVE  /\ pc'[t] \in {"created", "configured", "ready"} => Existing(mode'[t])
             /\ pc'[t] = "saved" /\ Existing(saved'[t][t]) => Existing(mode'[t])
  BY <1>1, <1>2, ExistingStays DEF OutputStays, SavedOwn
<1>3. pc'[s] \in {"created", "configured", "ready"} => Existing(mode'[s])
  <2>1. CASE Create(s)
    <3>1. CASE Existing(saved[s][s])
      BY <2>1, <3>1 DEF Create, SavedOwn
    <3>2. CASE ~Existing(saved[s][s])
      <4>1. mode'[s] = "default"
        BY <2>1, <3>2, RearrangedKeeps DEF Create
      <4>2. QED  BY <4>1 DEF Existing
    <3>3. QED  BY <3>1, <3>2
  <2>2. CASE Configure(s) \/ Restore(s)
    <3>1. Existing(mode[s]) /\ ~Drop(s)
      BY <2>2 DEF Configure, Restore, Drop, OutputStays
    <3>2. QED  BY <3>1, ExistingStays
  <2>3. CASE Save(s) \/ CreateFails(s) \/ Drop(s)
    BY <2>3 DEF Save, CreateFails, Drop, TypeOK
  <2>4. QED  BY <2>1, <2>2, <2>3 DEF SessionStep
<1>4. pc'[s] = "saved" /\ Existing(saved'[s][s]) => Existing(mode'[s])
  <2>1. pc'[s] = "saved" => Save(s)
    BY DEF SessionStep, Create, Configure, Restore, CreateFails, Drop, TypeOK
  <2>2. Save(s) => saved'[s] = mode /\ mode' = mode
    BY DEF Save, TypeOK
  <2>3. QED  BY <2>1, <2>2
<1>5. QED  BY <1>2, <1>3, <1>4 DEF OutputStays, SavedOwn

----------------------------------------------------------------------------
(* What a step adds to the mishaps.                                        *)
LEMMA MishapsGrow ==
  ASSUME NEW s \in Sessions, SessionStep(s)
  PROVE  /\ mishaps \subseteq mishaps'
         /\ Save(s) => (Busy => "overlap" \in mishaps') /\ (Creating => "late save" \in mishaps')
         /\ CreateFails(s) => (pc[s] # "saved" => "failure" \in mishaps')
         /\ Drop(s) => ((\E m \in Monitors \ {s} : mode'[m] # mode[m]) => "removal" \in mishaps')
  BY DEF SessionStep, Save, Create, Configure, Restore, CreateFails, Drop, Mishap

(* The user's monitors.                                                    *)
LEMMA UsersStep ==
  ASSUME TypeOK, SavedTypeOK, SavedUsers, UsersLayoutKept, NEW s \in Sessions, SessionStep(s)
  PROVE  SavedUsers' /\ UsersLayoutKept'
<1> USE DEF UsersSafe
<1>1. CASE ~ mishaps' \subseteq {"overlap"}
  BY <1>1 DEF SavedUsers, UsersLayoutKept
<1>2. CASE mishaps' \subseteq {"overlap"}
  <2>1. mishaps \subseteq {"overlap"}
    BY <1>2, MishapsGrow
  <2>2. \A p \in Physical : p \in Monitors \ {s} /\ Existing(mode[p])
    BY DisjointAssumption DEF Monitors, TypeOK, Existing
  <2>3. SavedUsers'
    <3> SUFFICES ASSUME NEW t \in Sessions, pc'[t] \in SettingUp, NEW p \in Physical
                 PROVE  saved'[t][p] = "user"
      BY DEF SavedUsers, SettingUp
    <3>1. CASE t = s /\ Save(s)
      <4>1. ~Creating
        BY <1>2, <3>1, MishapsGrow
      <4>2. saved'[t] = mode
        BY <3>1 DEF Save, TypeOK
      <4>3. QED  BY <2>1, <4>1, <4>2 DEF UsersLayoutKept
    <3>2. CASE ~(t = s /\ Save(s))
      <4>1. pc[t] \in SettingUp /\ saved'[t] = saved[t]
        BY <3>2 DEF SettingUp, TypeOK, SessionStep, Save, Create, Configure, Restore, CreateFails,
                    Drop
      <4>2. QED  BY <2>1, <4>1 DEF SavedUsers
    <3>3. QED  BY <3>1, <3>2
  <2>4. UsersLayoutKept'
    <3> SUFFICES ASSUME ~Creating', NEW p \in Physical
                 PROVE  mode'[p] = "user"
      BY DEF UsersLayoutKept
    <3>1. ~(Create(s) \/ Configure(s))
      BY DEF Create, Configure, Creating, TypeOK
    <3>2. CASE Restore(s)
      <4>1. mode' = Restored(s)
        BY <1>2, <3>2, RestoreKeeps DEF Mishaps
      <4>2. saved[s][p] = "user"
        BY <2>1, <3>2 DEF Restore, SavedUsers, SettingUp
      <4>3. QED  BY <2>2, <4>1, <4>2, RestoredKeeps DEF Existing
    <3>3. CASE Save(s) \/ CreateFails(s) \/ Drop(s)
      <4>1. CreateFails(s) => pc[s] = "saved"
        BY <1>2, MishapsGrow
      <4>2. ~Creating
        BY <3>3, <4>1 DEF Creating, Save, CreateFails, Drop, TypeOK
      <4>3. mode'[p] = mode[p]
        <5>1. CASE Save(s) \/ CreateFails(s)
          BY <5>1 DEF Save, CreateFails
        <5>2. CASE Drop(s)
          BY <1>2, <2>2, <5>2, MishapsGrow
        <5>3. QED  BY <3>3, <5>1, <5>2
      <4>4. QED  BY <2>1, <4>2, <4>3 DEF UsersLayoutKept
    <3>4. QED  BY <3>1, <3>2, <3>3 DEF SessionStep
  <2>5. QED  BY <2>3, <2>4
<1>3. QED  BY <1>1, <1>2

----------------------------------------------------------------------------
(* Without a mishap the one session that moves is the one that sets up.    *)
LEMMA OneAtATimeStep ==
  ASSUME TypeOK, OneAtATime, NEW s \in Sessions, SessionStep(s)
  PROVE  OneAtATime'
<1> SUFFICES ASSUME mishaps' = {}, NEW t \in Sessions, NEW u \in Sessions,
                    pc'[t] \in SettingUp, pc'[u] \in SettingUp
             PROVE  t = u
  BY DEF OneAtATime, SettingUp
<1> USE DEF SettingUp, TypeOK
<1>1. mishaps = {}
  BY MishapsGrow
<1>2. \A v \in Sessions : v # s => pc'[v] = pc[v]
  BY DEF SessionStep, Save, Create, Configure, Restore, CreateFails, Drop
<1>3. CASE Save(s)
  <2>1. \A v \in Sessions : pc[v] \notin SettingUp
    BY <1>3, MishapsGrow DEF Busy
  <2>2. QED  BY <1>2, <2>1
<1>4. CASE ~Save(s)
  <2>1. pc'[s] \in SettingUp => pc[s] \in SettingUp
    BY <1>4 DEF SessionStep, Create, Configure, Restore, CreateFails, Drop
  <2>2. pc[t] \in SettingUp /\ pc[u] \in SettingUp
    BY <1>2, <2>1
  <2>3. QED  BY <1>1, <2>2 DEF OneAtATime
<1>5. QED  BY <1>3, <1>4

LEMMA SavedSessionsStep ==
  ASSUME IInv, NEW s \in Sessions, SessionStep(s)
  PROVE  SavedSessions'
<1> SUFFICES ASSUME mishaps' = {}, NEW t \in Sessions, pc'[t] \in SettingUp,
                    NEW u \in Sessions, u \notin refused', pc'[u] = "ready"
             PROVE  saved'[t][u] = "asked"
  BY DEF SavedSessions, SettingUp
<1> USE DEF SettingUp
<1>0. TypeOK /\ OneAtATime /\ SavedSessions /\ SessionsModeKept
  BY DEF IInv
<1>1. mishaps = {}
  BY MishapsGrow
<1>2. CASE Save(s)
  <2>1. \A v \in Sessions : pc[v] \notin SettingUp
    BY <1>2, MishapsGrow DEF Busy
  <2>2. t = s /\ saved'[t] = mode
    BY <1>0, <1>2, <2>1 DEF Save, TypeOK
  <2>3. pc[u] = "ready" /\ u \notin refused
    BY <1>0, <1>2 DEF Save, TypeOK
  <2>4. QED  BY <1>0, <1>1, <2>1, <2>2, <2>3 DEF SessionsModeKept, Creating
<1>3. CASE ~Save(s)
  <2>1. pc[t] \in SettingUp /\ saved'[t] = saved[t]
    BY <1>0, <1>3 DEF TypeOK, SessionStep, Create, Configure, Restore, CreateFails, Drop
  <2>2. pc[u] = "ready"
    <3>1. CASE Restore(s)
      BY <1>0, <1>1, <2>1, <3>1 DEF Restore, OneAtATime, TypeOK
    <3>2. CASE ~Restore(s)
      BY <1>0, <1>3, <3>2 DEF TypeOK, SessionStep, Create, Configure, CreateFails, Drop
    <3>3. QED  BY <3>1, <3>2
  <2>3. u \notin refused
    BY <1>3 DEF SessionStep, Create, Configure, Restore, CreateFails, Drop
  <2>4. QED  BY <1>0, <1>1, <2>1, <2>2, <2>3 DEF SavedSessions
<1>4. QED  BY <1>2, <1>3

LEMMA ConfiguredModeStep ==
  ASSUME IInv, NEW s \in Sessions, SessionStep(s)
  PROVE  ConfiguredMode'
<1> SUFFICES ASSUME mishaps' = {}, NEW t \in Sessions, t \notin refused', pc'[t] = "configured"
             PROVE  mode'[t] = "asked"
  BY DEF ConfiguredMode
<1>0. TypeOK /\ OneAtATime /\ ConfiguredMode
  BY DEF IInv
<1>1. mishaps = {}
  BY MishapsGrow
<1>2. CASE Configure(s)
  <2>1. t = s
    BY <1>0, <1>1, <1>2 DEF Configure, OneAtATime, SettingUp, TypeOK
  <2>2. mode' \in Rearranged(mode, s, "asked")
    BY <1>2, <2>1 DEF Configure
  <2>3. QED  BY <1>0, <2>1, <2>2, RearrangedKeeps
<1>3. CASE ~Configure(s)
  <2>1. pc[t] = "configured" /\ t # s
    BY <1>0, <1>3 DEF TypeOK, SessionStep, Save, Create, Restore, CreateFails, Drop
  <2>2. Save(s) \/ Drop(s) \/ CreateFails(s)
    BY <1>0, <1>1, <1>3, <2>1 DEF OneAtATime, SettingUp, SessionStep, Create, Restore
  <2>3. mode'[t] = mode[t]
    <3>1. t \in Monitors \ {s}
      BY <2>1 DEF Monitors
    <3>2. QED  BY <2>2, <3>1, MishapsGrow DEF Save, CreateFails
  <2>4. t \notin refused
    BY <2>1, <2>2 DEF Save, Drop, CreateFails
  <2>5. QED  BY <1>0, <1>1, <2>1, <2>3, <2>4 DEF ConfiguredMode
<1>4. QED  BY <1>2, <1>3

(* The sessions' modes: at risk from Create on, back at Restore.           *)
LEMMA SessionsModeStep ==
  ASSUME IInv, NEW s \in Sessions, SessionStep(s)
  PROVE  SessionsModeKept'
<1> SUFFICES ASSUME mishaps' = {}, ~Creating', NEW t \in Sessions, t \notin refused',
pc'[t] = "ready"
             PROVE  mode'[t] = "asked"
  BY DEF SessionsModeKept
<1>0. /\ TypeOK /\ SavedTypeOK /\ OutputStays /\ OneAtATime /\ SavedSessions
      /\ ConfiguredMode /\ SessionsModeKept
  BY DEF IInv
<1>1. mishaps = {}
  BY MishapsGrow
<1>2. CASE Restore(s)
  <2>1. pc[s] = "configured" /\ mode' = Restored(s) /\ refused' = refused
    BY <1>0, <1>2, RestoreKeeps DEF Restore, Mishaps
  <2>2. CASE t = s
    BY <1>0, <1>1, <2>1, <2>2, RestoredKeeps DEF ConfiguredMode
  <2>3. CASE t # s
    <3>1. pc[t] = "ready"
      BY <1>0, <1>2, <2>3 DEF Restore, TypeOK
    <3>2. t \in Monitors \ {s} /\ Existing(mode[t]) /\ saved[s][t] = "asked"
      BY <1>0, <1>1, <2>1, <2>3, <3>1 DEF Monitors, OutputStays, SavedSessions, SettingUp
    <3>3. QED  BY <1>0, <2>1, <3>2, RestoredKeeps DEF Existing
  <2>4. QED  BY <2>2, <2>3
<1>3. CASE Save(s) \/ CreateFails(s) \/ Drop(s)
  <2>1. CreateFails(s) => pc[s] = "saved"
    BY MishapsGrow
  <2>2. ~Creating
    BY <1>0, <1>3, <2>1 DEF Creating, Save, CreateFails, Drop, TypeOK
  <2>3. t # s /\ pc[t] = "ready" /\ t \notin refused
    BY <1>0, <1>3 DEF Save, CreateFails, Drop, TypeOK
  <2>4. mode'[t] = mode[t]
    <3>1. t \in Monitors \ {s}
      BY <2>3 DEF Monitors
    <3>2. QED  BY <1>3, <3>1, MishapsGrow DEF Save, CreateFails
  <2>5. QED  BY <1>0, <1>1, <2>2, <2>3, <2>4 DEF SessionsModeKept
<1>4. ~(Create(s) \/ Configure(s))
  BY <1>0 DEF Create, Configure, Creating, TypeOK
<1>5. QED  BY <1>2, <1>3, <1>4 DEF SessionStep

----------------------------------------------------------------------------
LEMMA InductiveInit == Init => IInv
<1> SUFFICES ASSUME Init PROVE IInv
  OBVIOUS
<1>1. \A p \in Physical : mode[p] = "user"
  BY DEF Init
<1>2. QED
  BY <1>1, TypeInit
     DEF Init, IInv, OutputStays, SavedOwn, SavedUsers, OneAtATime, SavedSessions,
         ConfiguredMode, UsersLayoutKept, SessionsModeKept, SettingUp

(* The inductive invariant.                                                *)
THEOREM Inductive == Spec => []IInv
<1>1. ASSUME IInv, Next PROVE IInv'
  <2>1. PICK s \in Sessions : SessionStep(s)
    BY <1>1 DEF Next
  <2>2. QED
    BY <1>1, <2>1, TypeStep, OutputStaysStep, UsersStep, OneAtATimeStep, SavedSessionsStep,
       ConfiguredModeStep, SessionsModeStep DEF IInv
<1>2. ASSUME IInv, UNCHANGED vars PROVE IInv'
  BY <1>2
     DEF vars, IInv, TypeOK, SavedTypeOK, OutputStays, SavedOwn, UsersSafe, SavedUsers,
         OneAtATime, SavedSessions, ConfiguredMode, UsersLayoutKept, SessionsModeKept, Creating
<1>3. QED  BY <1>1, <1>2, InductiveInit, PTL DEF Spec

(* The type invariant.                                                     *)
THEOREM TypeCorrect == Spec => []TypeOK
<1>1. IInv => TypeOK
  BY DEF IInv
<1>2. QED  BY <1>1, Inductive, PTL

(* Saving and restoring side by side, sessions never take an output from   *)
(* one another.                                                            *)
THEOREM OutputsStay == Spec => []OutputStays
<1>1. IInv => OutputStays
  BY DEF IInv
<1>2. QED  BY <1>1, Inductive, PTL

(* Any number of set-ups, overlapping or not, leave the user's monitors as *)
(* they were and, if they do not overlap, the sessions' outputs as asked   *)
(* for, as long as Hyprland does what every restore tells it and rearranges*)
(* nothing when an output goes, and no set-up fails or saves halfway       *)
(* through another.                                                        *)
THEOREM LayoutsKept == Spec => []LayoutKept
<1>1. IInv => LayoutKept
  BY DEF IInv, LayoutKept
<1>2. QED  BY <1>1, Inductive, PTL
============================================================================
