---------------------------- MODULE VirtualOutput --------------------------
(***************************************************************************)
(* VirtualOutput on Hyprland (crates/daemon/src/output.rs).  create() is a *)
(* sequence of hyprctl processes: it saves the state of all monitors,      *)
(* creates the output unless one of that name exists, configures it, and   *)
(* restores the other monitors, which Hyprland may have rearranged.  The   *)
(* session threads of several tablets run it side by side.                 *)
(*                                                                         *)
(* A monitor's mode, position, scale and transform are one value, told     *)
(* apart by where they come from.                                          *)
(***************************************************************************)
EXTENDS Naturals, FiniteSets

CONSTANTS
  Sessions,    \* one session at a time for each output name
  Physical,    \* the user's own monitors
  Leftovers,   \* sessions whose output may be there from the start
  MayFail      \* whether hyprctl may fail, or Hyprland ignore what it was told

ASSUME DisjointAssumption == Sessions \cap Physical = {}
ASSUME LeftoversAssumption == Leftovers \subseteq Sessions
ASSUME MayFailAssumption == MayFail \in BOOLEAN

VARIABLES
  pc,          \* where each session is in create(), or whether it has an output
  saved,       \* saved_states
  mode,        \* Hyprland's monitors (environment)
  refused,     \* history: sessions whose own rule Hyprland ignored
  mishaps      \* history: what has come between the layout and its restoring

vars == <<pc, saved, mode, refused, mishaps>>

Monitors == Sessions \cup Physical

(* As configured by the user, as asked for a tablet, as Hyprland creates   *)
(* an output, as Hyprland rearranges one.                                  *)
Modes == {"user", "asked", "default", "moved"}

Existing(m) == m # "absent"
NothingSaved == [m \in Monitors |-> "absent"]

SettingUp == {"saved", "created", "configured"}
Busy == \E s \in Sessions : pc[s] \in SettingUp

(* Between its create and its restore a session may have others moved.     *)
Creating == \E s \in Sessions : pc[s] \in {"created", "configured"}

(* Two set-ups at once; one that saved what another was about to restore;  *)
(* one that failed after its create; a restore that Hyprland ignored, for  *)
(* some monitor at least; a removal that made it rearrange the others.     *)
Mishaps == {"overlap", "late save", "failure", "unrestored", "removal"}
Mishap(what, happened) == mishaps' = mishaps \cup {w \in {what} : happened}

(* Hyprland may rearrange the other monitors when one appears, changes or  *)
(* goes.                                                                   *)
Rearranged(before, s, now) ==
  {after \in [Monitors -> Modes \cup {"absent"}] :
     /\ after[s] = now
     /\ \A m \in Monitors \ {s} :
          after[m] \in IF Existing(before[m]) THEN {before[m], "moved"} ELSE {"absent"}}

----------------------------------------------------------------------------
(* hyprctl monitors -j *)
Save(s) ==
  /\ pc[s] = "idle"
  /\ saved' = [saved EXCEPT ![s] = mode]
  /\ pc' = [pc EXCEPT ![s] = "saved"]
  /\ refused' = refused \ {s}
  /\ mishaps' = mishaps \cup {w \in {"overlap"} : Busy} \cup {w \in {"late save"} : Creating}
  /\ UNCHANGED mode

(* hyprctl output create headless, unless the name is taken; it is taken   *)
(* at its exit status.                                                     *)
Create(s) ==
  /\ pc[s] = "saved"
  /\ pc' = [pc EXCEPT ![s] = "created"]
  /\ IF Existing(saved[s][s]) THEN UNCHANGED mode ELSE mode' \in Rearranged(mode, s, "default")
  /\ UNCHANGED <<saved, refused, mishaps>>

(* hyprctl keyword monitor, or hyprctl eval where the reply says that the  *)
(* parser refuses that; hyprctl exits with 0 when the rule was refused, so *)
(* that it may be without an error to see.                                 *)
Configure(s) ==
  /\ pc[s] = "created"
  /\ pc' = [pc EXCEPT ![s] = "configured"]
  /\ \/ mode' \in Rearranged(mode, s, "asked") /\ UNCHANGED refused
     \/ MayFail /\ refused' = refused \cup {s} /\ UNCHANGED mode
  /\ UNCHANGED <<saved, mishaps>>

(* hyprctl eval with a rule for every saved monitor but the session's own. *)
RestoredWithOwn(s) ==   \* mutant: the session's own output is restored too
  [m \in Monitors |-> IF Existing(mode[m]) /\ Existing(saved[s][m]) THEN saved[s][m] ELSE mode[m]]

RestoredRemoving(s) ==   \* mutant: what was not there when saving is removed
  [m \in Monitors |-> IF m # s THEN saved[s][m] ELSE mode[m]]

RestoredFromOwn(s) ==   \* mutant: the others are given the saved state of the session's own output
  [m \in Monitors |->
     IF m # s /\ Existing(mode[m]) /\ Existing(saved[s][m]) THEN saved[s][s] ELSE mode[m]]

Restored(s) ==
  [m \in Monitors |->
     IF m # s /\ Existing(mode[m]) /\ Existing(saved[s][m]) THEN saved[s][m] ELSE mode[m]]

(* Nobody reads what that eval answers: it too may be refused without an   *)
(* error, or stop at one of its rules.                                     *)
PartlyRestored(s) ==
  {after \in [Monitors -> Modes \cup {"absent"}] :
     \A m \in Monitors : after[m] \in {mode[m], Restored(s)[m]}}

Restore(s) ==
  /\ pc[s] = "configured"
  /\ pc' = [pc EXCEPT ![s] = "ready"]
  /\ mode' \in IF MayFail THEN PartlyRestored(s) ELSE {Restored(s)}
  /\ saved' = [saved EXCEPT ![s] = NothingSaved]
  /\ Mishap("unrestored", mode' # Restored(s))
  /\ UNCHANGED refused

(* A hyprctl that fails ends create() with an error, and with no value of  *)
(* type VirtualOutput whose drop would remove anything.                    *)
CreateFails(s) ==
  /\ MayFail
  /\ pc[s] \in SettingUp
  /\ pc' = [pc EXCEPT ![s] = "idle"]
  /\ saved' = [saved EXCEPT ![s] = NothingSaved]
  /\ Mishap("failure", pc[s] # "saved")
  /\ UNCHANGED <<mode, refused>>

(* VirtualOutput::drop: hyprctl output remove, with a warning if it fails; *)
(* the other monitors are not restored after it.                           *)
Drop(s) ==
  /\ pc[s] = "ready"
  /\ pc' = [pc EXCEPT ![s] = "idle"]
  /\ \/ mode' \in Rearranged(mode, s, "absent")
     \/ MayFail /\ UNCHANGED mode
  /\ Mishap("removal", \E m \in Monitors \ {s} : mode'[m] # mode[m])
  /\ UNCHANGED <<saved, refused>>

----------------------------------------------------------------------------
(* An output of a session's name may be there from the start, made by hand *)
(* or left by an earlier run.                                              *)
Init ==
  /\ pc = [s \in Sessions |-> "idle"]
  /\ saved = [s \in Sessions |-> NothingSaved]
  /\ mode \in {before \in [Monitors -> {"user", "default", "absent"}] :
                 /\ \A p \in Physical : before[p] = "user"
                 /\ \A s \in Leftovers : before[s] \in {"default", "absent"}
                 /\ \A s \in Sessions \ Leftovers : before[s] = "absent"}
  /\ refused = {}
  /\ mishaps = {}

SessionStep(s) ==
  Save(s) \/ Create(s) \/ Configure(s) \/ Restore(s) \/ CreateFails(s) \/ Drop(s)

Next == \E s \in Sessions : SessionStep(s)

Spec == Init /\ [][Next]_vars

----------------------------------------------------------------------------
TypeOK ==
  /\ pc \in [Sessions -> {"idle", "ready"} \cup SettingUp]
  /\ saved \in [Sessions -> [Monitors -> Modes \cup {"absent"}]]
  /\ mode \in [Monitors -> Modes \cup {"absent"}]
  /\ \A p \in Physical : mode[p] \in {"user", "moved"}
  /\ refused \in SUBSET Sessions
  /\ mishaps \in SUBSET Mishaps

(* A session's output is there from its create, which may have found one   *)
(* and made none, until the session drops it, whatever the other sessions  *)
(* save and restore meanwhile.                                             *)
OutputStays ==
  \A s \in Sessions : pc[s] \in {"created", "configured", "ready"} => Existing(mode[s])

(* Whenever nobody is between its create and its restore, the user's       *)
(* monitors are as the user left them - also when set-ups overlapped, for  *)
(* the last restore has what all of them saved - until a session saves     *)
(* what another is about to restore, fails halfway, has its restore        *)
(* ignored, or the removal of an output rearranges them: then they stay    *)
(* moved, as every later set-up saves and restores what it finds.          *)
UsersLayoutKept ==
  (mishaps \subseteq {"overlap"} /\ ~Creating) => \A p \in Physical : mode[p] = "user"

(* A session whose own rule was not refused has the mode it asked for      *)
(* through the set-ups and the end of other sessions, as long as besides   *)
(* no two set-ups overlap at all: who saved before it has an output does   *)
(* not restore it.                                                         *)
SessionsModeKept ==
  (mishaps = {} /\ ~Creating) =>
    \A s \in Sessions \ refused : pc[s] = "ready" => mode[s] = "asked"

LayoutKept == UsersLayoutKept /\ SessionsModeKept

(* applied_mode(): "Whether the requested mode and position were actually  *)
(* applied" is true of every session on Hyprland (output.rs:446).          *)
AppliedMode == ~Busy => \A s \in Sessions : pc[s] = "ready" => mode[s] = "asked"
============================================================================
