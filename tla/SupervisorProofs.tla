-------------------------- MODULE SupervisorProofs --------------------------
(***************************************************************************)
(* Theorems about Supervisor.tla, for any set of devices, any serials and  *)
(* any bounds.                                                             *)
(***************************************************************************)
EXTENDS Supervisor, TLAPS

USE BoundsAssumption

----------------------------------------------------------------------------
(* The backoff arithmetic of bump_cooldown stays within its cap.           *)
LEMMA BumpedType ==
  ASSUME NEW n \in 0 .. FailureCap
  PROVE  Bumped(n) \in 0 .. FailureCap
  BY DEF Bumped, Min2

LEMMA BackoffType ==
  ASSUME NEW n \in Nat
  PROVE  BackoffOf(n) \in Nat
  BY DEF BackoffOf

LEMMA FailuresAfterType ==
  ASSUME TypeOK, NEW s \in Serials
  PROVE  FailuresAfter(s) \in 0 .. FailureCap
  BY BumpedType DEF FailuresAfter, TypeOK

----------------------------------------------------------------------------
(* The moves of a session thread, by what they do to its two resources.    *)
OutputBecomes(s, owners) == \E o \in owners : output' = [output EXCEPT ![name[s]] = o]
ForwardBecomes(s, owner) == forward' = [forward EXCEPT ![port[s]] = owner]

FailsAtSetup(s) ==
  /\ thread[s] = "starting" /\ thread'[s] = "err"
  /\ UNCHANGED forward
  /\ UNCHANGED output \/ OutputBecomes(s, {Orphan})
TakesOutput(s) ==
  /\ thread[s] = "starting" /\ thread'[s] = "output"
  /\ OutputBecomes(s, {s}) /\ UNCHANGED forward
GetsNoForward(s) ==
  /\ thread[s] = "output" /\ thread'[s] = "closing_err"
  /\ UNCHANGED <<forward, output>>
TakesForward(s) ==
  /\ thread[s] = "output" /\ thread'[s] \in Streaming
  /\ ForwardBecomes(s, s) /\ UNCHANGED output
StreamsOn(s) ==
  /\ thread[s] \in Streaming /\ thread'[s] \in Streaming
  /\ UNCHANGED <<forward, output>>
GivesForward(s) ==
  /\ \/ thread[s] \in Streaming /\ thread'[s] = "closing_ok" /\ flag[s]
     \/ thread[s] \in Streaming /\ thread'[s] = "closing_err"
     \/ thread[s] = "unplugging" /\ thread'[s] = "err"
  /\ ForwardBecomes(s, None) /\ UNCHANGED output
GivesOutput(s) ==
  /\ \/ thread[s] = "closing_ok" /\ thread'[s] = "ok"
     \/ thread[s] = "closing_err" /\ thread'[s] = "err"
     \/ thread[s] \in Streaming /\ thread'[s] = "unplugging"
  /\ OutputBecomes(s, {None, Orphan}) /\ UNCHANGED forward

LEMMA SessionMoves ==
  ASSUME TypeOK, NEW s \in Serials, SessionStep(s)
  PROVE  /\ UNCHANGED <<loopVars, deviceVars, coolVars, sessVars, flag, adbVars, steady>>
         /\ thread' = [thread EXCEPT ![s] = thread'[s]]
         /\ \/ FailsAtSetup(s) \/ TakesOutput(s) \/ GetsNoForward(s)
            \/ TakesForward(s) \/ StreamsOn(s) \/ GivesForward(s) \/ GivesOutput(s)
<1> USE DEF Step, TypeOK, ownVars, OutputBecomes, ForwardBecomes
<1>1. CASE SetupFails(s) \/ SetupAbandons(s)
  BY <1>1 DEF SetupFails, SetupAbandons, Orphaned, FailsAtSetup
<1>2. CASE CreateOutput(s)  BY <1>2 DEF CreateOutput, TakesOutput
<1>3. CASE ForwardFails(s)  BY <1>3 DEF ForwardFails, GetsNoForward
<1>4. CASE InstallForward(s)  BY <1>4 DEF InstallForward, TakesForward, Streaming
<1>5. CASE EndOnFlag(s) \/ EndOnError(s) \/ DropForwardLast(s)
  BY <1>5 DEF EndOnFlag, EndOnError, StreamingTo, Streaming, DropForwardLast, DropForward,
              GivesForward
<1>6. CASE DropOutput(s) \/ DropOutputFirst(s)
  BY <1>6 DEF DropOutput, DropOutputFirst, StreamingTo, Streaming, RemoveOutput, Orphaned,
              GivesOutput
<1>7. CASE NextFrame(s) \/ Repaint(s)
  BY <1>7 DEF NextFrame, Repaint, StreamsOn, Streaming
<1>8. QED
  BY <1>1, <1>2, <1>3, <1>4, <1>5, <1>6, <1>7 DEF SessionStep, SessionProceeds, SessionFails

----------------------------------------------------------------------------
(* Type correctness.                                                       *)
LEMMA TypeInit == Init => TypeOK
<1> SUFFICES ASSUME Init PROVE TypeOK
  OBVIOUS
<1>1. feed \in Seq(SUBSET Serials)
  BY DEF Init
<1>2. age \in [Serials -> 0 .. NotSeen] /\ steady \in [Serials -> 0 .. Debounce]
      /\ losses \in 0 .. MaxLosses /\ failures \in [Serials -> 0 .. FailureCap]
      /\ wait \in [Serials -> Nat]
  BY DEF Init, NotSeen
<1>3. port \in [Serials -> Ports \cup {NoPort}] /\ name \in [Serials -> Names \cup {None}]
      /\ forward \in [Ports -> Serials \cup {None}] /\ output \in [Names -> Serials \cup {None,
      Orphan}]
  BY DEF Init
<1>4. thread \in [Serials -> ThreadStates]
  BY DEF Init, ThreadStates
<1>5. QED  BY <1>1, <1>2, <1>3, <1>4 DEF Init, TypeOK

LEMMA ListingType ==
  ASSUME TypeOK, NEW list \in SUBSET Serials, Listing(list)
  PROVE  /\ devices' \in SUBSET Serials /\ steady' \in [Serials -> 0 .. Debounce]
         /\ pc' = "Reconcile"
  BY DEF Listing, TypeOK

(* What is left of adb's lists after a garbled read are lists still.       *)
LEMMA GarbledFeed ==
  ASSUME feed \in Seq(SUBSET Serials), PollGarbled
  PROVE  feed' \in Seq(SUBSET Serials)
<1>1. PICK n \in 0 .. Len(feed) : feed' = SubSeq(feed, n + 1, Len(feed))
  BY DEF PollGarbled
<1>2. QED  BY <1>1

LEMMA TypeMain == TypeOK /\ MainStep => TypeOK'
<1> SUFFICES ASSUME TypeOK, MainStep PROVE TypeOK'
  OBVIOUS
<1> USE DEF loopVars, deviceVars, coolVars, sessVars, adbVars, ownVars
<1>1. CASE Reap
  <2>1. failures' \in [Serials -> 0 .. FailureCap] /\ wait' \in [Serials -> Nat]
    <3>1. \A s \in Serials : FailuresAfter(s) \in 0 .. FailureCap
      BY FailuresAfterType
    <3>2. \A s \in Serials : BackoffOf(FailuresAfter(s)) \in Nat
      BY <3>1, BackoffType
    <3>3. QED  BY <1>1, <3>1, <3>2 DEF Reap, TypeOK
  <2>2. registry' \in SUBSET Serials /\ port' \in [Serials -> Ports \cup {NoPort}]
        /\ name' \in [Serials -> Names \cup {None}] /\ flag' \in [Serials -> BOOLEAN]
    BY <1>1 DEF Reap, Forget, TypeOK
  <2>3. thread' \in [Serials -> ThreadStates]
    BY <1>1 DEF Reap, TypeOK, ThreadStates
  <2>4. QED  BY <1>1, <2>1, <2>2, <2>3 DEF Reap, TypeOK
<1>2. CASE LeaveLoop  BY <1>2 DEF LeaveLoop, TypeOK
<1>3. CASE PollUpdate
  <2>1. Head(feed) \in SUBSET Serials /\ feed' \in Seq(SUBSET Serials)
    BY <1>3 DEF PollUpdate, TypeOK
  <2>2. devices' \in SUBSET Serials /\ steady' \in [Serials -> 0 .. Debounce]
        /\ pc' = "Reconcile"
    BY <1>3, <2>1, ListingType DEF PollUpdate
  <2>3. QED  BY <1>3, <2>1, <2>2 DEF PollUpdate, TypeOK
<1>4. CASE PollTimeout  BY <1>4 DEF PollTimeout, TypeOK
<1>5. CASE PollLost  BY <1>5 DEF PollLost, TypeOK
<1>6. CASE ReconnectOk
  <2>1. feed' \in Seq(SUBSET Serials)
    BY <1>6 DEF ReconnectOk, TypeOK
  <2>2. QED  BY <1>6, <2>1 DEF ReconnectOk, TypeOK
<1>7. CASE ReconnectFails  BY <1>7 DEF ReconnectFails, TypeOK
<1>8. CASE Reconcile
  <2>1. age' \in [Serials -> 0 .. NotSeen]
    BY <1>8 DEF Reconcile, AgeNow, TypeOK, NotSeen
  <2>2. candidates' \in SUBSET Serials
    BY <1>8 DEF Reconcile, Candidates, Debounced, TypeOK
  <2>3. once' \in {"off", "unarmed", "armed"}
    BY <1>8 DEF Reconcile, Arming, TypeOK
  <2>4. flag' \in [Serials -> BOOLEAN]
    BY <1>8 DEF Reconcile, TypeOK
  <2>5. QED  BY <1>8, <2>1, <2>2, <2>3, <2>4 DEF Reconcile, TypeOK
<1>9. ASSUME NEW s \in Serials, Spawn(s) PROVE TypeOK'
  BY <1>9 DEF Spawn, TypeOK, ThreadStates, Live
<1>10. ASSUME NEW s \in Serials, SpawnRefused(s) PROVE TypeOK'
  <2>1. Bumped(failures[s]) \in 0 .. FailureCap
    BY BumpedType DEF TypeOK
  <2>2. BackoffOf(Bumped(failures[s])) \in Nat
    BY <2>1, BackoffType
  <2>3. QED  BY <1>10, <2>1, <2>2 DEF SpawnRefused, TypeOK
<1>11. CASE EndIteration  BY <1>11 DEF EndIteration, TypeOK
<1>12. CASE StopAll  BY <1>12 DEF StopAll, TypeOK
<1>13. CASE JoinAll
  BY <1>13 DEF JoinAll, Forget, TypeOK, ThreadStates
<1>14. CASE PollTears
  <2>1. feed \in Seq(SUBSET Serials) /\ feed # << >> /\ feed' = Tail(feed)
    BY <1>14 DEF PollTears, TypeOK
  <2>2. feed' \in Seq(SUBSET Serials)
    BY <2>1
  <2>3. losses' \in 0 .. MaxLosses
    BY <1>14 DEF PollTears, TypeOK
  <2>4. QED  BY <1>14, <2>2, <2>3 DEF PollTears, TypeOK
<1>15. CASE PollGarbled
  <2>1. feed' \in Seq(SUBSET Serials)
    BY <1>15, GarbledFeed DEF TypeOK
  <2>2. devices' \in SUBSET Serials /\ steady' \in [Serials -> 0 .. Debounce]
        /\ pc' \in {"Reconcile", "Reconnect"}
    <3>1. CASE \E list \in SUBSET Serials : Listing(list)
      BY <3>1, ListingType
    <3>2. CASE UNCHANGED <<devices, steady>> /\ pc' \in {"Reconcile", "Reconnect"}
      BY <3>2 DEF TypeOK
    <3>3. QED  BY <1>15, <3>1, <3>2 DEF PollGarbled
  <2>3. QED  BY <1>15, <2>1, <2>2 DEF PollGarbled, TypeOK
<1>16. QED
  BY <1>1, <1>2, <1>3, <1>4, <1>5, <1>6, <1>7, <1>8, <1>9, <1>10, <1>11, <1>12, <1>13, <1>14,
     <1>15
     DEF MainStep

LEMMA TypeSession ==
  ASSUME TypeOK, NEW s \in Serials, SessionStep(s)
  PROVE  TypeOK'
<1> USE DEF loopVars, deviceVars, coolVars, sessVars, adbVars
<1>1. UNCHANGED <<loopVars, deviceVars, coolVars, sessVars, flag, adbVars, steady>>
  BY SessionMoves
<1>2. thread' \in [Serials -> ThreadStates]
  BY SessionMoves DEF FailsAtSetup, TakesOutput, GetsNoForward, TakesForward, StreamsOn,
                      GivesForward, GivesOutput, TypeOK, ThreadStates, Live, HoldsOutput,
                      HoldsForward, Streaming, Finished
<1>3. forward' \in [Ports -> Serials \cup {None}]
  <2>1. UNCHANGED forward \/ \E o \in Serials \cup {None} : ForwardBecomes(s, o)
    BY SessionMoves DEF FailsAtSetup, TakesOutput, GetsNoForward, TakesForward, StreamsOn,
                        GivesForward, GivesOutput
  <2>2. forward \in [Ports -> Serials \cup {None}]
    BY DEF TypeOK
  <2>3. QED  BY <2>1, <2>2 DEF ForwardBecomes
<1>4. output' \in [Names -> Serials \cup {None, Orphan}]
  <2>1. UNCHANGED output \/ OutputBecomes(s, Serials \cup {None, Orphan})
    BY SessionMoves DEF FailsAtSetup, TakesOutput, GetsNoForward, TakesForward, StreamsOn,
                        GivesForward, GivesOutput, OutputBecomes
  <2>2. output \in [Names -> Serials \cup {None, Orphan}]
    BY DEF TypeOK
  <2>3. QED  BY <2>1, <2>2 DEF OutputBecomes
<1>5. QED  BY <1>1, <1>2, <1>3, <1>4 DEF TypeOK

(* adb's lists are sets of devices, whatever it announces.                 *)
LEMMA TypeAnnounce ==
  ASSUME TypeOK, NEW now \in SUBSET Serials, Announce(now),
         forward' \in [Ports -> Serials \cup {None}]
  PROVE  TypeOK'
<1> USE DEF loopVars, deviceVars, coolVars, sessVars
<1>1. feed' \in Seq(SUBSET Serials)
  <2>1. feed \in Seq(SUBSET Serials)
    BY DEF TypeOK
  <2>2. CASE link  BY <2>1, <2>2 DEF Announce
  <2>3. CASE ~link  BY <2>1, <2>3 DEF Announce
  <2>4. QED  BY <2>2, <2>3
<1>2. QED  BY <1>1 DEF Announce, TypeOK

LEMMA TypeEnvironment == TypeOK /\ Environment => TypeOK'
<1> SUFFICES ASSUME TypeOK, Environment PROVE TypeOK'
  OBVIOUS
<1> USE DEF loopVars, deviceVars, coolVars, sessVars, adbVars, ownVars
<1>1. CASE Signal  BY <1>1 DEF Signal, TypeOK
<1>2. CASE Tick
  <2>1. age' \in [Serials -> 0 .. NotSeen] /\ steady' \in [Serials -> 0 .. Debounce]
    BY <1>2 DEF Tick, TypeOK, NotSeen
  <2>2. wait' \in [Serials -> Nat]
    BY <1>2 DEF Tick, TypeOK
  <2>3. QED  BY <1>2, <2>1, <2>2 DEF Tick, TypeOK
<1>3. CASE LoseTracker
  <2>1. feed' \in Seq(SUBSET Serials)
    <3>1. feed \in Seq(SUBSET Serials) /\ << >> \in Seq(SUBSET Serials)
      BY DEF TypeOK
    <3>2. QED  BY <1>3, <3>1 DEF LoseTracker
  <2>2. forward' \in [Ports -> Serials \cup {None}]
    BY <1>3 DEF LoseTracker
  <2>3. losses' \in 0 .. MaxLosses
    BY <1>3 DEF LoseTracker, TypeOK
  <2>4. QED  BY <1>3, <2>1, <2>2, <2>3 DEF LoseTracker, TypeOK
<1>4. ASSUME NEW s \in Serials, Plug(s) PROVE TypeOK'
  <2>1. attached \cup {s} \in SUBSET Serials /\ forward \in [Ports -> Serials \cup {None}]
    BY DEF TypeOK
  <2>2. QED  BY <1>4, <2>1, TypeAnnounce DEF Plug
<1>5. ASSUME NEW s \in Serials, Unplug(s) PROVE TypeOK'
  <2>1. attached \ {s} \in SUBSET Serials
    BY DEF TypeOK
  <2>2. forward' \in [Ports -> Serials \cup {None}]
    BY <1>5 DEF Unplug, TypeOK
  <2>3. QED  BY <1>5, <2>1, <2>2, TypeAnnounce DEF Unplug
<1>6. QED  BY <1>1, <1>2, <1>3, <1>4, <1>5 DEF Environment

----------------------------------------------------------------------------
(* Ownership.  The parts of IInv after TypeOK depend on the registry, the  *)
(* threads and the two resources only; a step that leaves those alone      *)
(* keeps them.                                                             *)
Owning ==
  /\ RegistryIsThreads
  /\ LeasesAllocated
  /\ LeasesDistinct
  /\ ExplicitVerbatim
  /\ ForwardNotStolen
  /\ ForwardNotLeaked
  /\ OutputsOwned

LEMMA OwningInit == Init => Owning
  BY SerialsAssumption
     DEF Init, Owning, RegistryIsThreads, LeasesAllocated, LeasesDistinct, ExplicitVerbatim,
         ForwardNotStolen, ForwardNotLeaked, OutputsOwned, HoldsOutput, HoldsForward, Streaming

LEMMA OwningUntouched ==
  Owning /\ UNCHANGED <<registry, port, name, thread, forward, output>> => Owning'
  BY DEF Owning, RegistryIsThreads, LeasesAllocated, LeasesDistinct, ExplicitVerbatim,
         ForwardNotStolen, ForwardNotLeaked, OutputsOwned

(* Taking sessions whose thread is over out of the registry.               *)
LEMMA OwningForget ==
  ASSUME TypeOK, Owning, NEW S \in SUBSET registry,
         \A s \in S : thread[s] \in Finished,
         Forget(S),
         thread' = [s \in Serials |-> IF s \in S THEN "none" ELSE thread[s]],
         UNCHANGED ownVars
  PROVE  Owning'
<1> USE DEF ownVars, Forget
<1>1. RegistryIsThreads'
  BY DEF Owning, RegistryIsThreads, TypeOK
<1>2. LeasesAllocated' /\ LeasesDistinct' /\ ExplicitVerbatim'
  BY DEF Owning, LeasesAllocated, LeasesDistinct, ExplicitVerbatim, TypeOK
<1>3. ForwardNotStolen' /\ ForwardNotLeaked'
  BY DEF Owning, ForwardNotStolen, ForwardNotLeaked, TypeOK, Finished, HoldsForward, Streaming
<1>4. ASSUME NEW s \in Serials, NEW n \in Names
      PROVE  output'[n] = s <=> thread'[s] \in HoldsOutput /\ name'[s] = n
  <2>1. s \in S => thread[s] \notin HoldsOutput /\ "none" \notin HoldsOutput
    BY DEF Finished, HoldsOutput, Streaming
  <2>2. s \notin S => thread'[s] = thread[s] /\ name'[s] = name[s]
    BY DEF TypeOK
  <2>3. s \in S => thread'[s] = "none"
    OBVIOUS
  <2>4. QED  BY <2>1, <2>2, <2>3 DEF Owning, OutputsOwned
<1>5. QED  BY <1>1, <1>2, <1>3, <1>4 DEF Owning, OutputsOwned

(* A new session's port and name are nobody's else.                        *)
LEMMA NameIsFree ==
  ASSUME NEW s \in Serials, NEW n, ResolvedName(s, n)
  PROVE  /\ \A t \in registry : name[t] # n
         /\ Explicit => n = Bare
  BY DEF ResolvedName, NameTaken, NameChoices

LEMMA OwningSpawn ==
  ASSUME TypeOK, Owning, NEW s \in Serials, Spawn(s)
  PROVE  Owning'
<1> USE DEF deviceVars, coolVars, adbVars, ownVars
<1>1. PICK p \in Ports, n \in Names :
        AllocatedPort(p) /\ ResolvedName(s, n)
        /\ port' = [port EXCEPT ![s] = p] /\ name' = [name EXCEPT ![s] = n]
  BY DEF Spawn
<1>2. \A t \in registry : port[t] # p
  BY <1>1 DEF AllocatedPort, FreePorts
<1>3. (\A t \in registry : name[t] # n) /\ (Explicit => n = Bare)
  BY <1>1, NameIsFree
<1>4. /\ s \notin registry /\ registry' = registry \cup {s}
      /\ thread' = [thread EXCEPT ![s] = "starting"]
      /\ UNCHANGED <<forward, output>>
  BY DEF Spawn
<1>5. thread[s] = "none"
  BY <1>4 DEF Owning, RegistryIsThreads
<1>6. RegistryIsThreads'
  BY <1>4 DEF Owning, RegistryIsThreads, TypeOK
<1>7. LeasesAllocated' /\ LeasesDistinct' /\ ExplicitVerbatim'
  BY <1>1, <1>2, <1>3, <1>4 DEF Owning, LeasesAllocated, LeasesDistinct, ExplicitVerbatim, TypeOK
<1>8. ForwardNotStolen' /\ ForwardNotLeaked'
  BY <1>1, <1>4, <1>5 DEF Owning, ForwardNotStolen, ForwardNotLeaked, TypeOK, HoldsForward,
                          Streaming
<1>9. OutputsOwned'
  BY <1>1, <1>4, <1>5 DEF Owning, OutputsOwned, TypeOK, HoldsOutput, Streaming
<1>10. QED  BY <1>6, <1>7, <1>8, <1>9 DEF Owning

(* A session thread touches the output of its own name and the forward of  *)
(* its own port only, and both are its alone.                              *)
LEMMA OwningSession ==
  ASSUME TypeOK, Owning, NEW s \in Serials, SessionStep(s)
  PROVE  Owning'
<1> USE DEF sessVars
<1>1. UNCHANGED sessVars /\ thread[s] # "none" /\ thread'[s] # "none"
      /\ \A t \in Serials : t # s => thread'[t] = thread[t]
  BY SessionMoves DEF FailsAtSetup, TakesOutput, GetsNoForward, TakesForward, StreamsOn,
                      GivesForward, GivesOutput, TypeOK, Streaming
<1>2. s \in registry /\ port[s] \in Ports /\ name[s] \in Names
  BY <1>1 DEF Owning, RegistryIsThreads, LeasesAllocated
<1>3. \A t \in Serials : (t # s /\ thread[t] # "none") => port[t] # port[s] /\ name[t] # name[s]
  BY <1>2 DEF Owning, RegistryIsThreads, LeasesDistinct
<1>4. RegistryIsThreads' /\ LeasesAllocated' /\ LeasesDistinct' /\ ExplicitVerbatim'
  BY <1>1 DEF Owning, RegistryIsThreads, LeasesAllocated, LeasesDistinct, ExplicitVerbatim
<1>5. CASE FailsAtSetup(s)
  <2>1. OutputsOwned'
    <3>1. CASE UNCHANGED output
      BY <1>5, <3>1, <1>1 DEF FailsAtSetup, Owning, OutputsOwned, HoldsOutput, Streaming
    <3>2. CASE output' = [output EXCEPT ![name[s]] = Orphan]
      BY <1>5, <3>2, <1>1, <1>2, <1>3, SerialsAssumption
         DEF FailsAtSetup, Owning, OutputsOwned, TypeOK, HoldsOutput, Streaming
    <3>3. QED  BY <1>5, <3>1, <3>2 DEF FailsAtSetup, OutputBecomes
  <2>2. ForwardNotStolen' /\ ForwardNotLeaked'
    BY <1>5, <1>1 DEF FailsAtSetup, Owning, ForwardNotStolen, ForwardNotLeaked, HoldsForward,
                      Streaming
  <2>3. QED  BY <2>1, <2>2, <1>4 DEF Owning
<1>6. CASE TakesOutput(s)
  <2>1. OutputsOwned'
    BY <1>6, <1>1, <1>2, <1>3
       DEF TakesOutput, OutputBecomes, Owning, OutputsOwned, TypeOK, HoldsOutput, Streaming
  <2>2. ForwardNotStolen' /\ ForwardNotLeaked'
    BY <1>6, <1>1 DEF TakesOutput, Owning, ForwardNotStolen, ForwardNotLeaked, HoldsForward,
                      Streaming
  <2>3. QED  BY <2>1, <2>2, <1>4 DEF Owning
<1>7. CASE GetsNoForward(s)
  <2>1. OutputsOwned'
    BY <1>7, <1>1 DEF GetsNoForward, Owning, OutputsOwned, HoldsOutput, Streaming
  <2>2. ForwardNotStolen' /\ ForwardNotLeaked'
    BY <1>7, <1>1 DEF GetsNoForward, Owning, ForwardNotStolen, ForwardNotLeaked, HoldsForward,
                      Streaming
  <2>3. QED  BY <2>1, <2>2, <1>4 DEF Owning
<1>8. CASE TakesForward(s)
  <2>1. OutputsOwned'
    BY <1>8, <1>1 DEF TakesForward, Owning, OutputsOwned, HoldsOutput, Streaming
  <2>2. forward'[port[s]] = s /\ \A q \in Ports : q # port[s] => forward'[q] = forward[q]
    BY <1>8, <1>2 DEF TakesForward, ForwardBecomes, TypeOK
  <2>3. ForwardNotStolen'
    BY <1>8, <2>2, <1>1, <1>2, <1>3
       DEF TakesForward, Owning, ForwardNotStolen, HoldsForward, Streaming, RegistryIsThreads,
           LeasesAllocated
  <2>4. ForwardNotLeaked'
    BY <1>8, <2>2, <1>1, <1>2, <1>3 DEF TakesForward, Owning, ForwardNotLeaked, HoldsForward,
                                        Streaming
  <2>5. QED  BY <2>1, <2>3, <2>4, <1>4 DEF Owning
<1>9. CASE GivesForward(s)
  <2>1. OutputsOwned'
    BY <1>9, <1>1 DEF GivesForward, Owning, OutputsOwned, HoldsOutput, Streaming
  <2>2. forward'[port[s]] = None /\ \A q \in Ports : q # port[s] => forward'[q] = forward[q]
    BY <1>9, <1>2 DEF GivesForward, ForwardBecomes, TypeOK
  <2>3. ForwardNotStolen'
    BY <1>9, <2>2, <1>1, <1>2, <1>3
       DEF GivesForward, Owning, ForwardNotStolen, HoldsForward, Streaming, RegistryIsThreads,
           LeasesAllocated
  <2>4. ForwardNotLeaked'
    BY <1>9, <2>2, <1>1, <1>2, <1>3, SerialsAssumption DEF GivesForward, Owning, ForwardNotLeaked,
                                                           HoldsForward, Streaming
  <2>5. QED  BY <2>1, <2>3, <2>4, <1>4 DEF Owning
<1>10. CASE GivesOutput(s)
  <2>1. PICK o \in {None, Orphan} : output' = [output EXCEPT ![name[s]] = o]
    BY <1>10 DEF GivesOutput, OutputBecomes
  <2>2. OutputsOwned'
    BY <1>10, <2>1, <1>1, <1>2, <1>3, SerialsAssumption
       DEF GivesOutput, Owning, OutputsOwned, TypeOK, HoldsOutput, Streaming
  <2>3. ForwardNotStolen' /\ ForwardNotLeaked'
    BY <1>10, <1>1 DEF GivesOutput, Owning, ForwardNotStolen, ForwardNotLeaked, HoldsForward,
                       Streaming
  <2>4. QED  BY <2>2, <2>3, <1>4 DEF Owning
<1>11. CASE StreamsOn(s)
  <2>1. OutputsOwned'
    BY <1>11, <1>1 DEF StreamsOn, Owning, OutputsOwned, HoldsOutput
  <2>2. ForwardNotStolen' /\ ForwardNotLeaked'
    BY <1>11, <1>1 DEF StreamsOn, Owning, ForwardNotStolen, ForwardNotLeaked, HoldsForward
  <2>3. QED  BY <2>1, <2>2, <1>4 DEF Owning
<1>12. QED
  BY <1>5, <1>6, <1>7, <1>8, <1>9, <1>10, <1>11, SessionMoves

LEMMA OwningMain == TypeOK /\ Owning /\ MainStep => Owning'
<1> SUFFICES ASSUME TypeOK, Owning, MainStep PROVE Owning'
  OBVIOUS
<1> USE DEF sessVars, ownVars
<1>1. CASE Reap
  <2>1. Reapable \in SUBSET registry /\ \A s \in Reapable : thread[s] \in Finished
    BY DEF Reapable
  <2>2. QED  BY <1>1, <2>1, OwningForget DEF Reap
<1>2. CASE JoinAll
  <2>1. registry \in SUBSET registry /\ \A s \in registry : thread[s] \in Finished
    BY <1>2 DEF JoinAll
  <2>2. thread' = [s \in Serials |-> IF s \in registry THEN "none" ELSE thread[s]]
    BY <1>2 DEF JoinAll, Owning, RegistryIsThreads
  <2>3. QED  BY <1>2, <2>1, <2>2, OwningForget DEF JoinAll
<1>3. ASSUME NEW s \in Serials, Spawn(s) PROVE Owning'
  BY <1>3, OwningSpawn
<1>4. CASE \/ LeaveLoop \/ PollUpdate \/ PollTimeout \/ PollTears \/ PollGarbled \/ PollLost
           \/ ReconnectOk \/ ReconnectFails
           \/ Reconcile \/ (\E s \in Serials : SpawnRefused(s)) \/ EndIteration \/ StopAll
  BY <1>4, OwningUntouched
     DEF LeaveLoop, PollUpdate, Listing, PollTimeout, PollTears, PollGarbled, PollLost,
         ReconnectOk, ReconnectFails, Reconcile, SpawnRefused, EndIteration, StopAll
<1>5. QED  BY <1>1, <1>2, <1>3, <1>4 DEF MainStep

(* adb takes forwards away, never gives one to a session.                  *)
LEMMA OwningEnvironment == TypeOK /\ Owning /\ Environment => Owning'
<1> SUFFICES ASSUME TypeOK, Owning, Environment PROVE Owning'
  OBVIOUS
<1> USE DEF sessVars, ownVars
<1>1. CASE Signal \/ Tick \/ \E s \in Serials : Plug(s)
  BY <1>1, OwningUntouched DEF Signal, Tick, Plug, Announce
<1>2. CASE LoseTracker \/ \E s \in Serials : Unplug(s)
  <2>1. UNCHANGED <<registry, port, name, thread, output>>
        /\ \A p \in Ports : forward'[p] \in {forward[p], None}
    BY <1>2 DEF LoseTracker, Unplug, Announce
  <2>2. RegistryIsThreads' /\ LeasesAllocated' /\ LeasesDistinct' /\ ExplicitVerbatim'
        /\ OutputsOwned'
    BY <2>1 DEF Owning, RegistryIsThreads, LeasesAllocated, LeasesDistinct, ExplicitVerbatim,
                OutputsOwned
  <2>3. \A s \in Serials : thread[s] \in HoldsForward => port[s] \in Ports
    BY DEF Owning, RegistryIsThreads, LeasesAllocated, HoldsForward, Streaming
  <2>4. ForwardNotStolen' /\ ForwardNotLeaked'
    BY <2>1, <2>3, SerialsAssumption DEF Owning, ForwardNotStolen, ForwardNotLeaked
  <2>5. QED  BY <2>2, <2>4 DEF Owning
<1>3. QED  BY <1>1, <1>2 DEF Environment

(* Nothing runs after main has returned.                                   *)
LEMMA ExitedStays ==
  ASSUME TypeOK, Owning, ExitedIsEmpty, Next
  PROVE  ExitedIsEmpty'
<1> USE DEF loopVars, deviceVars, coolVars, sessVars, adbVars, ownVars
<1>1. CASE MainStep
  <2>1. CASE Reap  BY <2>1 DEF Reap, ExitedIsEmpty
  <2>2. CASE JoinAll  BY <2>2 DEF JoinAll, Forget, ExitedIsEmpty
  <2>3. CASE pc' # "Exited"  BY <2>3 DEF ExitedIsEmpty
  <2>4. QED
    BY <1>1, <2>1, <2>2, <2>3
       DEF MainStep, LeaveLoop, PollUpdate, Listing, PollTimeout, PollTears, PollGarbled,
           PollLost, ReconnectOk, ReconnectFails, Reconcile, Spawn, SpawnRefused, EndIteration,
           StopAll
<1>2. CASE Environment
  BY <1>2 DEF Environment, Signal, Tick, LoseTracker, Plug, Unplug, Announce, ExitedIsEmpty
<1>3. ASSUME NEW s \in Serials, SessionStep(s) PROVE ExitedIsEmpty'
  BY <1>3, SessionMoves DEF ExitedIsEmpty
<1>4. QED  BY <1>1, <1>2, <1>3 DEF Next

----------------------------------------------------------------------------
LEMMA IInvIsOwning == IInv <=> TypeOK /\ Owning /\ ExitedIsEmpty
  BY DEF IInv, Owning

LEMMA IInvInit == Init => IInv
  BY TypeInit, OwningInit, IInvIsOwning DEF Init, ExitedIsEmpty

LEMMA IInvStep == IInv /\ [Next]_vars => IInv'
<1>1. ASSUME IInv, Next PROVE IInv'
  <2>1. TypeOK /\ Owning /\ ExitedIsEmpty
    BY <1>1, IInvIsOwning
  <2>2. ExitedIsEmpty'
    BY <1>1, <2>1, ExitedStays
  <2>3. TypeOK' /\ Owning'
    <3>1. CASE MainStep  BY <2>1, <3>1, TypeMain, OwningMain
    <3>2. CASE Environment  BY <2>1, <3>2, TypeEnvironment, OwningEnvironment
    <3>3. ASSUME NEW s \in Serials, SessionStep(s) PROVE TypeOK' /\ Owning'
      BY <2>1, <3>3, TypeSession, OwningSession DEF Owning
    <3>4. QED  BY <1>1, <3>1, <3>2, <3>3 DEF Next
  <2>4. QED  BY <2>2, <2>3 DEF IInv, Owning
<1>2. ASSUME IInv, UNCHANGED vars PROVE IInv'
  BY <1>2 DEF IInv, vars, loopVars, deviceVars, coolVars, sessVars, adbVars, ownVars, TypeOK,
              RegistryIsThreads, LeasesAllocated, LeasesDistinct, ExplicitVerbatim,
              ForwardNotStolen, ForwardNotLeaked, OutputsOwned, ExitedIsEmpty
<1>3. QED  BY <1>1, <1>2

(* The inductive invariant, from which the theorems below follow.          *)
THEOREM Inductive == Spec => []IInv
  BY IInvInit, IInvStep, PTL DEF Spec

(* Every variable keeps its type.                                          *)
THEOREM TypeCorrect == Spec => []TypeOK
  BY Inductive, PTL DEF IInv

(* No session thread is ever orphaned.                                     *)
THEOREM NoOrphans == Spec => []RegistryIsThreads
  BY Inductive, PTL DEF IInv

(* A streaming session's forward is its own or gone with its device.       *)
THEOREM ForwardsSafe == Spec => []ForwardsKept
  BY Inductive, PTL DEF IInv, ForwardsKept

(* Outputs belong to the sessions that created them, and to no one else.   *)
THEOREM OutputsSafe == Spec => []OutputsOwned
  BY Inductive, PTL DEF IInv

(* The daemon leaves no phantom monitor and no forward behind.             *)
THEOREM ExitsClean == Spec => []CleanExit
<1>1. IInv => CleanExit
  <2> SUFFICES ASSUME IInv, pc = "Exited"
               PROVE  /\ \A n \in Names : output[n] \in {None, Orphan}
                      /\ \A p \in Ports : forward[p] = None
    BY DEF CleanExit
  <2>1. \A s \in Serials : thread[s] = "none"
    BY DEF IInv, ExitedIsEmpty, RegistryIsThreads
  <2>2. \A n \in Names : output[n] \in {None, Orphan}
    <3>1. output \in [Names -> Serials \cup {None, Orphan}]
      BY DEF IInv, TypeOK
    <3>2. \A n \in Names, s \in Serials : output[n] # s
      BY <2>1 DEF IInv, OutputsOwned, HoldsOutput, Streaming
    <3>3. QED  BY <3>1, <3>2
  <2>3. \A p \in Ports : forward[p] = None
    <3>1. forward \in [Ports -> Serials \cup {None}]
      BY DEF IInv, TypeOK
    <3>2. \A p \in Ports, s \in Serials : forward[p] # s
      BY <2>1 DEF IInv, ForwardNotLeaked, HoldsForward, Streaming
    <3>3. QED  BY <3>1, <3>2
  <2>4. QED  BY <2>2, <2>3
<1>2. QED  BY <1>1, Inductive, PTL

(* An explicit --output-name admits one session at a time, unrenamed.      *)
THEOREM ExplicitExclusive == Spec => []ExplicitNameIsExclusive
<1>1. IInv => ExplicitNameIsExclusive
  BY DEF IInv, ExplicitVerbatim, LeasesDistinct, ExplicitNameIsExclusive
<1>2. QED  BY <1>1, Inductive, PTL

(* One tablet's failures never delay another.                              *)
LEMMA FailuresAreOwnStep ==
  ASSUME TypeOK, Next, NEW s \in Serials, failures'[s] > failures[s]
  PROVE  thread[s] = "err" \/ (s \in candidates /\ s \notin candidates')
<1> USE DEF coolVars
<1>1. failures[s] \in 0 .. FailureCap
  BY DEF TypeOK
<1>2. UNCHANGED failures => FALSE
  BY <1>1
<1>3. CASE Reap
  <2>1. failures'[s] = IF s \in Reapable THEN FailuresAfter(s) ELSE failures[s]
    BY <1>3 DEF Reap
  <2>2. QED  BY <1>1, <2>1 DEF FailuresAfter
<1>4. ASSUME NEW t \in Serials, SpawnRefused(t)
      PROVE  s \in candidates /\ s \notin candidates'
  <2>1. s = t
    BY <1>1, <1>4 DEF SpawnRefused, TypeOK
  <2>2. QED  BY <1>4, <2>1 DEF SpawnRefused
<1>5. ASSUME NEW t \in Serials, SessionStep(t) PROVE FALSE
  BY <1>2, <1>5, SessionMoves
<1>6. QED
  BY <1>2, <1>3, <1>4, <1>5
     DEF Next, MainStep, Environment, LeaveLoop, PollUpdate, Listing, PollTimeout, PollTears,
         PollGarbled, PollLost, ReconnectOk, ReconnectFails, Reconcile, Spawn, EndIteration,
         StopAll, JoinAll, Signal, Tick, LoseTracker, Plug, Unplug, Announce

THEOREM FailuresOwn == Spec => FailuresAreOwn
<1>1. TypeOK /\ [Next]_vars => [\A s \in Serials : failures'[s] > failures[s] =>
         thread[s] = "err" \/ (s \in candidates /\ s \notin candidates')]_vars
  BY FailuresAreOwnStep
<1>2. QED  BY <1>1, TypeCorrect, PTL DEF Spec, FailuresAreOwn

LEMMA OneSessionEachStep ==
  ASSUME TypeOK, Next, once = "armed"
  PROVE  /\ candidates' \subseteq candidates
         /\ \A s \in registry' \ registry : s \in candidates \ candidates'
<1>1. CASE Reconcile
  <2>1. candidates' = {}  BY <1>1 DEF Reconcile, Candidates, Arming
  <2>2. QED  BY <1>1, <2>1 DEF Reconcile, sessVars
<1>2. CASE Reap  BY <1>2 DEF Reap, Forget
<1>3. CASE JoinAll  BY <1>3 DEF JoinAll, Forget
<1>4. ASSUME NEW s \in Serials, Spawn(s) \/ SpawnRefused(s)
      PROVE  /\ candidates' \subseteq candidates
             /\ \A t \in registry' \ registry : t \in candidates \ candidates'
  BY <1>4 DEF Spawn, SpawnRefused, sessVars
<1>5. CASE \/ LeaveLoop \/ PollUpdate \/ PollTimeout \/ PollTears \/ PollGarbled \/ PollLost
           \/ ReconnectOk \/ ReconnectFails
           \/ EndIteration \/ StopAll
  BY <1>5 DEF LeaveLoop, PollUpdate, Listing, PollTimeout, PollTears, PollGarbled, PollLost,
              ReconnectOk, ReconnectFails, EndIteration, StopAll, sessVars
<1>6. CASE Environment \/ \E s \in Serials : SessionStep(s)
  <2>1. UNCHANGED <<candidates, registry>>
    BY <1>6, SessionMoves
       DEF Environment, Signal, Tick, LoseTracker, Plug, Unplug, Announce, loopVars, sessVars
  <2>2. QED  BY <2>1
<1>7. QED  BY <1>1, <1>2, <1>3, <1>4, <1>5, <1>6 DEF Next, MainStep

(* --once streams to each device once: it chooses them when it arms and    *)
(* starts a session only by using up a candidacy.                          *)
THEOREM OncePerDevice == Spec => OneSessionEach
<1>1. TypeOK /\ [Next]_vars
        => [once = "armed" =>
              /\ candidates' \subseteq candidates
              /\ \A s \in registry' \ registry : s \in candidates \ candidates']_vars
  BY OneSessionEachStep
<1>2. QED  BY <1>1, TypeCorrect, PTL DEF Spec, OneSessionEach

----------------------------------------------------------------------------
(* The supervisor implements LeasePool.  A lease is taken by Spawn and     *)
(* given back when the thread ends; every other step stutters.             *)
LEMMA PoolInit == Init => Pool!Init
  BY DEF Init, Pool!Init, leaseBar, Live, HoldsOutput, HoldsForward, Streaming

LEMMA PoolUntouched ==
  UNCHANGED <<port, name, thread>> => UNCHANGED leaseBar
  BY DEF leaseBar

LEMMA PoolForget ==
  ASSUME TypeOK, NEW S \in SUBSET registry, \A s \in S : thread[s] \in Finished,
         Forget(S), thread' = [s \in Serials |-> IF s \in S THEN "none" ELSE thread[s]]
  PROVE  UNCHANGED leaseBar
  BY DEF Forget, leaseBar, Live, HoldsOutput, HoldsForward, Streaming, Finished, TypeOK

LEMMA PoolAcquire ==
  ASSUME IInv, NEW s \in Serials, Spawn(s)
  PROVE  Pool!Acquire(s)
<1>1. PICK p \in Ports, n \in Names :
        AllocatedPort(p) /\ ResolvedName(s, n)
        /\ port' = [port EXCEPT ![s] = p] /\ name' = [name EXCEPT ![s] = n]
  BY DEF Spawn
<1>2. (\A t \in registry : port[t] # p) /\ \A t \in registry : name[t] # n
  BY <1>1, NameIsFree DEF AllocatedPort, FreePorts
<1>3. thread[s] = "none" /\ thread' = [thread EXCEPT ![s] = "starting"]
  BY DEF Spawn, IInv, RegistryIsThreads
<1>4. leaseBar[s] = NoLease
  BY <1>3 DEF leaseBar, Live, HoldsOutput, HoldsForward, Streaming
<1>5. Pool!Unshared(s, p, n)
  <2>1. SUFFICES ASSUME NEW t \in Serials \ {s}, leaseBar[t] # NoLease
                 PROVE  leaseBar[t].port # p /\ leaseBar[t].name # n
    BY DEF Pool!Unshared
  <2>2. thread[t] \in Live /\ leaseBar[t] = [port |-> port[t], name |-> name[t]]
    BY <2>1 DEF leaseBar
  <2>3. t \in registry
    BY <2>2 DEF IInv, RegistryIsThreads, Live, HoldsOutput, HoldsForward, Streaming
  <2>4. QED  BY <1>2, <2>2, <2>3
<1>6. leaseBar' = [leaseBar EXCEPT ![s] = [port |-> p, name |-> n]]
  BY <1>1, <1>3 DEF leaseBar, Live, IInv, TypeOK
<1>7. QED  BY <1>4, <1>5, <1>6 DEF Pool!Acquire

LEMMA PoolSession ==
  ASSUME IInv, NEW s \in Serials, SessionStep(s)
  PROVE  Pool!Release(s) \/ UNCHANGED leaseBar
<1> USE DEF sessVars
<1>1. UNCHANGED <<port, name>> /\ thread[s] \in Live
      /\ thread' = [thread EXCEPT ![s] = thread'[s]] /\ thread'[s] \in Live \cup Finished
  BY SessionMoves DEF FailsAtSetup, TakesOutput, GetsNoForward, TakesForward, StreamsOn,
                      GivesForward, GivesOutput, IInv, Live, HoldsOutput, HoldsForward, Streaming,
                      Finished
<1>2. CASE thread'[s] \in Live
  BY <1>1, <1>2 DEF leaseBar, IInv, TypeOK
<1>3. CASE thread'[s] \in Finished
  <2>1. thread'[s] \notin Live
    BY <1>3 DEF Live, HoldsOutput, HoldsForward, Streaming, Finished
  <2>2. leaseBar' = [leaseBar EXCEPT ![s] = NoLease]
    BY <1>1, <2>1 DEF leaseBar, IInv, TypeOK
  <2>3. port[s] \in Ports /\ leaseBar[s] = [port |-> port[s], name |-> name[s]]
    BY <1>1 DEF IInv, RegistryIsThreads, LeasesAllocated, leaseBar, Live, HoldsOutput,
                HoldsForward, Streaming
  <2>4. leaseBar[s] # NoLease
    BY <2>3 DEF NoLease, NoPort, Ports
  <2>5. QED  BY <2>2, <2>4 DEF Pool!Release
<1>4. QED  BY <1>1, <1>2, <1>3

LEMMA PoolStep == IInv /\ [Next]_vars => [Pool!Next]_leaseBar
<1> SUFFICES ASSUME IInv, Next PROVE Pool!Next \/ UNCHANGED leaseBar
  BY PoolUntouched DEF vars, sessVars
<1> USE DEF sessVars
<1>1. TypeOK
  BY DEF IInv
<1>2. CASE Reap
  <2>1. Reapable \in SUBSET registry /\ \A s \in Reapable : thread[s] \in Finished
    BY DEF Reapable
  <2>2. QED  BY <1>1, <1>2, <2>1, PoolForget DEF Reap
<1>3. CASE JoinAll
  <2>1. thread' = [s \in Serials |-> IF s \in registry THEN "none" ELSE thread[s]]
    BY <1>3 DEF JoinAll, IInv, RegistryIsThreads
  <2>2. QED  BY <1>1, <1>3, <2>1, PoolForget DEF JoinAll
<1>4. ASSUME NEW s \in Serials, Spawn(s) PROVE Pool!Next
  BY <1>4, PoolAcquire DEF Pool!Next
<1>5. ASSUME NEW s \in Serials, SessionStep(s) PROVE Pool!Next \/ UNCHANGED leaseBar
  BY <1>5, PoolSession DEF Pool!Next
<1>6. CASE \/ LeaveLoop \/ PollUpdate \/ PollTimeout \/ PollTears \/ PollGarbled \/ PollLost
           \/ ReconnectOk \/ ReconnectFails
           \/ Reconcile \/ (\E s \in Serials : SpawnRefused(s)) \/ EndIteration \/ StopAll
           \/ Environment
  BY <1>6, PoolUntouched
     DEF LeaveLoop, PollUpdate, Listing, PollTimeout, PollTears, PollGarbled, PollLost,
         ReconnectOk, ReconnectFails, Reconcile, SpawnRefused, EndIteration, StopAll, Environment,
         Signal, Tick, LoseTracker, Plug, Unplug, Announce
<1>7. QED  BY <1>2, <1>3, <1>4, <1>5, <1>6 DEF Next, MainStep

(* The refinement.                                                         *)
THEOREM SupervisorImplementsPool == Spec => PoolSpec
  BY PoolInit, PoolStep, Inductive, PTL DEF Spec, PoolSpec, Pool!Spec
----------------------------------------------------------------------------
(* Every session thread lives as SessionLife promises.                     *)
LEMMA LifeInit == ASSUME Init, NEW s \in Serials PROVE Life(s)!Init
  BY DEF Init, Life!Init, LifePhase, LifeHolds, HoldsOutput, HoldsForward, Streaming

LEMMA LifeUntouched ==
  ASSUME NEW s \in Serials, thread'[s] = thread[s], flag'[s] = flag[s]
  PROVE  UNCHANGED Life(s)!vars
  BY DEF Life!vars, LifePhase, LifeHolds

LEMMA LifeAsked ==
  ASSUME NEW s \in Serials, UNCHANGED thread, flag'[s] = TRUE
  PROVE  Life(s)!Next
  BY DEF Life!Next, Life!Ask, LifePhase, LifeHolds

(* Reaping a thread that is over, or leaving it alone.                     *)
LEMMA LifeForget ==
  ASSUME TypeOK, NEW S \in SUBSET registry, \A s \in S : thread[s] \in Finished,
         Forget(S), thread' = [s \in Serials |-> IF s \in S THEN "none" ELSE thread[s]],
         NEW s \in Serials
  PROVE  Life(s)!Next \/ UNCHANGED Life(s)!vars
<1>1. CASE s \in S
  <2>1. thread[s] \in Finished /\ thread'[s] = "none" /\ flag'[s] = FALSE
    BY <1>1 DEF Forget, TypeOK
  <2>2. Life(s)!Reaped
    BY <2>1 DEF Life!Reaped, Life!Decided, LifePhase, LifeHolds, HoldsOutput, HoldsForward,
                Streaming, Finished
  <2>3. QED  BY <2>2 DEF Life!Next
<1>2. CASE s \notin S
  <2>1. thread'[s] = thread[s] /\ flag'[s] = flag[s]
    BY <1>2 DEF Forget, TypeOK
  <2>2. QED  BY <2>1, LifeUntouched
<1>3. QED  BY <1>1, <1>2

LEMMA LifeSpawned ==
  ASSUME IInv, NEW s \in Serials, NEW t \in Serials, Spawn(t)
  PROVE  Life(s)!Next \/ UNCHANGED Life(s)!vars
<1>1. CASE s = t
  <2>1. thread[s] = "none" /\ thread'[s] = "starting" /\ flag'[s] = FALSE
    BY <1>1 DEF Spawn, IInv, RegistryIsThreads, TypeOK
  <2>2. Life(s)!Begin
    BY <2>1 DEF Life!Begin, LifePhase, LifeHolds, HoldsOutput, HoldsForward, Streaming
  <2>3. QED  BY <2>2 DEF Life!Next
<1>2. CASE s # t
  BY <1>2, LifeUntouched DEF Spawn, IInv, TypeOK
<1>3. QED  BY <1>1, <1>2

(* What a session thread does, one move at a time.                         *)
LEMMA LifeMoves ==
  ASSUME IInv, NEW s \in Serials, NEW t \in Serials, SessionStep(t)
  PROVE  Life(s)!Next \/ UNCHANGED Life(s)!vars
<1> USE DEF LifePhase, LifeHolds, HoldsOutput, HoldsForward, Streaming
<1>1. CASE s # t
  BY <1>1, SessionMoves, LifeUntouched DEF IInv, TypeOK
<1>2. CASE s = t
  <2>1. flag'[s] = flag[s]
    BY SessionMoves DEF IInv
  <2>2. CASE FailsAtSetup(s) \/ GetsNoForward(s)
    BY <2>1, <2>2 DEF FailsAtSetup, GetsNoForward, Life!Next, Life!Decide
  <2>3. CASE TakesOutput(s) \/ TakesForward(s)
    BY <2>1, <2>3 DEF TakesOutput, TakesForward, Life!Next, Life!Take, Life!Resources
  <2>4. CASE GivesForward(s)
    <3>1. CASE thread[s] \in Streaming
      BY <2>1, <2>4, <3>1 DEF GivesForward, Life!Next, Life!Decide, Life!Resources
    <3>2. CASE thread[s] = "unplugging"
      BY <2>1, <2>4, <3>2 DEF GivesForward, Life!Next, Life!Give, Life!Decided
    <3>3. QED  BY <2>4, <3>1, <3>2 DEF GivesForward
  <2>5. CASE GivesOutput(s)
    <3>1. CASE thread[s] \in Streaming
      BY <2>1, <2>5, <3>1 DEF GivesOutput, Life!Next, Life!Decide
    <3>2. CASE thread[s] \notin Streaming
      BY <2>1, <2>5, <3>2 DEF GivesOutput, Life!Next, Life!Give, Life!Decided
    <3>3. QED  BY <3>1, <3>2
  <2>6. CASE StreamsOn(s)
    BY <2>1, <2>6 DEF StreamsOn, Life!vars
  <2>7. QED  BY <1>2, <2>2, <2>3, <2>4, <2>5, <2>6, SessionMoves DEF IInv
<1>3. QED  BY <1>1, <1>2

LEMMA LifeStep ==
  ASSUME IInv, Next, NEW s \in Serials
  PROVE  Life(s)!Next \/ UNCHANGED Life(s)!vars
<1>1. TypeOK
  BY DEF IInv
<1>2. CASE Reap
  <2>1. Reapable \in SUBSET registry /\ \A t \in Reapable : thread[t] \in Finished
    BY DEF Reapable
  <2>2. QED  BY <1>1, <1>2, <2>1, LifeForget DEF Reap
<1>3. CASE JoinAll
  <2>1. thread' = [t \in Serials |-> IF t \in registry THEN "none" ELSE thread[t]]
    BY <1>3 DEF JoinAll, IInv, RegistryIsThreads
  <2>2. QED  BY <1>1, <1>3, <2>1, LifeForget DEF JoinAll
<1>4. CASE Reconcile \/ StopAll
  <2>1. UNCHANGED thread /\ flag'[s] \in {flag[s], TRUE}
    BY <1>1, <1>4 DEF Reconcile, StopAll, TypeOK
  <2>2. QED  BY <2>1, LifeUntouched, LifeAsked
<1>5. ASSUME NEW t \in Serials, Spawn(t) PROVE Life(s)!Next \/ UNCHANGED Life(s)!vars
  BY <1>5, LifeSpawned
<1>6. ASSUME NEW t \in Serials, SessionStep(t) PROVE Life(s)!Next \/ UNCHANGED Life(s)!vars
  BY <1>6, LifeMoves
<1>7. CASE \/ LeaveLoop \/ PollUpdate \/ PollTimeout \/ PollTears \/ PollGarbled \/ PollLost
           \/ ReconnectOk \/ ReconnectFails
           \/ (\E t \in Serials : SpawnRefused(t)) \/ EndIteration \/ Environment
  BY <1>7, LifeUntouched
     DEF LeaveLoop, PollUpdate, Listing, PollTimeout, PollTears, PollGarbled, PollLost,
         ReconnectOk, ReconnectFails, SpawnRefused, EndIteration, Environment, Signal, Tick,
         LoseTracker, Plug, Unplug, Announce
<1>8. QED  BY <1>2, <1>3, <1>4, <1>5, <1>6, <1>7 DEF Next, MainStep

(* The other refinement: sessions as the supervisor drives them.           *)
THEOREM SessionsLiveAsPromised == Spec => LivesAsPromised
<1>1. Init => \A s \in Serials : Life(s)!Init
  BY LifeInit
<1>2. IInv /\ [Next]_vars => [\A s \in Serials : [Life(s)!Next]_(Life(s)!vars)]_vars
  BY LifeStep
<1>3. QED  BY <1>1, <1>2, Inductive, PTL DEF Spec, LivesAsPromised

----------------------------------------------------------------------------
(* The debounce.  A device's age counts no more ticks than the device has  *)
(* been in every list; what has left the list loses its age before the     *)
(* next list is read; and candidates are chosen and used up between two.   *)
AgesAreSteady ==
  /\ \A s \in devices : age[s] # NotSeen => age[s] <= steady[s]
  /\ pc # "Reconcile" => \A s \in Serials \ devices : age[s] = NotSeen

SteadyEnough(s) ==
  IF once # "off" THEN \E t \in devices : steady[t] >= Debounce ELSE steady[s] >= Debounce

CandidatesAreSteady ==
  /\ candidates \subseteq devices
  /\ pc # "Spawn" => candidates = {}
  /\ \A s \in candidates : SteadyEnough(s)

Choosing == AgesAreSteady /\ CandidatesAreSteady

LEMMA ChoosingInit == Init => Choosing
  BY DEF Init, Choosing, AgesAreSteady, CandidatesAreSteady

LEMMA AgesUntouched ==
  ASSUME AgesAreSteady, UNCHANGED <<devices, age, steady>>,
         pc' = pc \/ (pc # "Reconcile" /\ pc' # "Reconcile") \/ pc = "Poll"
  PROVE  AgesAreSteady'
  BY DEF AgesAreSteady

LEMMA ReconcileChooses ==
  ASSUME TypeOK, Choosing, Reconcile
  PROVE  Choosing'
<1>1. /\ age' = [s \in Serials |-> AgeNow(s)] /\ candidates' = Candidates
      /\ once' = IF Arming THEN "armed" ELSE once
      /\ pc = "Reconcile" /\ pc' = "Spawn" /\ UNCHANGED <<devices, steady>>
  BY DEF Reconcile
<1>2. devices \in SUBSET Serials /\ \A s \in Serials : steady[s] \in Nat /\ age[s] \in Nat
  BY DEF TypeOK, NotSeen
<1>3. ASSUME NEW s \in devices, AgeNow(s) # NotSeen  PROVE AgeNow(s) <= steady[s]
  BY <1>2, <1>3 DEF AgeNow, Choosing, AgesAreSteady
<1>4. AgesAreSteady'
  <2>1. \A s \in Serials \ devices : AgeNow(s) = NotSeen  BY DEF AgeNow
  <2> QED  BY <1>1, <1>2, <1>3, <2>1 DEF AgesAreSteady, NotSeen
<1>5. \A s \in Debounced : s \in devices /\ steady[s] >= Debounce
  <2> SUFFICES ASSUME NEW s \in Debounced  PROVE s \in devices /\ steady[s] >= Debounce
    OBVIOUS
  <2>1. s \in devices /\ AgeNow(s) # NotSeen /\ AgeNow(s) >= Debounce  BY DEF Debounced
  <2>2. AgeNow(s) \in Nat  BY <1>2, <2>1 DEF AgeNow
  <2> QED  BY <1>2, <1>3, <2>1, <2>2
<1>6. CandidatesAreSteady'
  <2>1. CASE once # "off"
    <3>1. once' # "off"  BY <1>1, <2>1
    <3>2. candidates' = IF Arming THEN devices ELSE {}  BY <1>1, <2>1 DEF Candidates
    <3>3. Arming => \E t \in devices : steady[t] >= Debounce  BY <1>5 DEF Arming
    <3> QED  BY <1>1, <3>1, <3>2, <3>3 DEF CandidatesAreSteady, SteadyEnough
  <2>2. CASE once = "off"
    <3>1. once' = "off"  BY <1>1, <2>2 DEF Arming
    <3>2. candidates' \subseteq Debounced  BY <1>1, <2>2 DEF Candidates
    <3> QED  BY <1>1, <1>5, <3>1, <3>2 DEF CandidatesAreSteady, SteadyEnough
  <2> QED  BY <2>1, <2>2
<1> QED  BY <1>4, <1>6 DEF Choosing

LEMMA TickChooses ==
  ASSUME TypeOK, Choosing, Tick
  PROVE  Choosing'
<1>1. /\ age' = [s \in Serials |-> IF age[s] < Debounce THEN age[s] + 1 ELSE age[s]]
      /\ steady' = [s \in Serials |->
                      IF s \in devices /\ steady[s] < Debounce THEN steady[s] + 1 ELSE steady[s]]
      /\ UNCHANGED <<pc, once, candidates, devices>>
  BY DEF Tick, loopVars
<1>2. devices \in SUBSET Serials /\ \A s \in Serials : steady[s] \in Nat /\ age[s] \in Nat
  BY DEF TypeOK, NotSeen
<1>3. /\ \A s \in Serials : age'[s] = IF age[s] < Debounce THEN age[s] + 1 ELSE age[s]
      /\ \A s \in devices : steady'[s] = IF steady[s] < Debounce THEN steady[s] + 1 ELSE steady[s]
  BY <1>1, <1>2
<1>4. AgesAreSteady'
  <2>1. ASSUME NEW s \in devices, age'[s] # NotSeen  PROVE age'[s] <= steady'[s]
    <3>1. age[s] # NotSeen /\ age[s] <= steady[s]
      BY <1>2, <1>3, <2>1 DEF Choosing, AgesAreSteady, NotSeen
    <3>2. age[s] \in Nat /\ steady[s] \in Nat  BY <1>2
    <3> DEFINE a == age[s]
               b == steady[s]
    <3>3. a \in Nat /\ b \in Nat /\ a <= b  BY <3>1, <3>2
    <3>4. steady'[s] = IF b < Debounce THEN b + 1 ELSE b  BY <1>3
    <3>5. age'[s] = IF a < Debounce THEN a + 1 ELSE a  BY <1>2, <1>3
    <3> HIDE DEF a, b
    <3> QED  BY ONLY <3>3, <3>4, <3>5, BoundsAssumption
  <2>2. ASSUME NEW s \in Serials \ devices, age[s] = NotSeen  PROVE age'[s] = NotSeen
    BY <1>3, <2>2 DEF NotSeen
  <2> QED  BY <1>1, <2>1, <2>2 DEF Choosing, AgesAreSteady
<1>5. \A s \in devices : steady[s] >= Debounce => steady'[s] >= Debounce
  BY <1>2, <1>3
<1>6. CandidatesAreSteady'
  BY <1>1, <1>5 DEF Choosing, CandidatesAreSteady, SteadyEnough
<1> QED  BY <1>4, <1>6 DEF Choosing

(* A new list, whoever it came from: what was not in the last one has no   *)
(* age any more.                                                           *)
LEMMA ListingChooses ==
  ASSUME TypeOK, Choosing, pc = "Poll", NEW list \in SUBSET Serials, Listing(list),
         UNCHANGED <<candidates, age>>
  PROVE  Choosing'
<1>1. /\ pc' = "Reconcile" /\ devices' = list
      /\ steady' = [s \in Serials |-> IF s \in list THEN steady[s] ELSE 0]
  BY DEF Listing
<1>2. candidates = {}  BY DEF Choosing, CandidatesAreSteady
<1>3. CandidatesAreSteady'  BY <1>1, <1>2 DEF CandidatesAreSteady
<1>4. ASSUME NEW s \in devices', age'[s] # NotSeen  PROVE age'[s] <= steady'[s]
  <2>1. s \in Serials /\ steady'[s] = steady[s] /\ age'[s] = age[s]  BY <1>1
  <2>2. s \in devices  BY <1>4, <2>1 DEF Choosing, AgesAreSteady
  <2> QED  BY <1>4, <2>1, <2>2 DEF Choosing, AgesAreSteady
<1>5. AgesAreSteady'  BY <1>1, <1>4 DEF AgesAreSteady
<1> QED  BY <1>3, <1>5 DEF Choosing

LEMMA ChoosingStep == TypeOK /\ Choosing /\ [Next]_vars => Choosing'
<1> SUFFICES ASSUME TypeOK, Choosing, [Next]_vars  PROVE Choosing'
  OBVIOUS
<1> USE DEF loopVars, deviceVars
<1>1. CASE Reconcile  BY <1>1, ReconcileChooses
<1>2. CASE Tick  BY <1>2, TickChooses
<1>3. CASE PollUpdate
  <2>1. pc = "Poll" /\ Listing(Head(feed)) /\ UNCHANGED <<candidates, age>>
    BY <1>3 DEF PollUpdate
  <2>2. Head(feed) \in SUBSET Serials  BY <1>3 DEF PollUpdate, TypeOK
  <2> QED  BY <2>1, <2>2, ListingChooses
<1>4. ASSUME NEW s \in Serials, Spawn(s) \/ SpawnRefused(s)  PROVE Choosing'
  <2>1. /\ candidates' = candidates \ {s} /\ UNCHANGED <<pc, once, devices, age, steady>>
    BY <1>4 DEF Spawn, SpawnRefused
  <2>2. AgesAreSteady'  BY <2>1, AgesUntouched DEF Choosing
  <2>3. CandidatesAreSteady'  BY <2>1 DEF Choosing, CandidatesAreSteady, SteadyEnough
  <2> QED  BY <2>2, <2>3 DEF Choosing
<1>5. CASE PollGarbled
  <2>1. pc = "Poll" /\ UNCHANGED <<once, candidates, age>>
    BY <1>5 DEF PollGarbled
  <2>2. CASE \E list \in SUBSET Serials : Listing(list)
    BY <2>1, <2>2, ListingChooses
  <2>3. CASE UNCHANGED <<devices, steady>> /\ pc' \in {"Reconcile", "Reconnect"}
    <3>1. AgesAreSteady'  BY <2>1, <2>3, AgesUntouched DEF Choosing
    <3>2. CandidatesAreSteady'  BY <2>1, <2>3 DEF Choosing, CandidatesAreSteady
    <3> QED  BY <3>1, <3>2 DEF Choosing
  <2> QED  BY <1>5, <2>2, <2>3 DEF PollGarbled
<1>6. CASE \/ Reap \/ LeaveLoop \/ PollTimeout \/ PollTears \/ PollLost \/ ReconnectOk
           \/ ReconnectFails \/ EndIteration \/ StopAll \/ JoinAll
  <2>1. /\ pc # "Reconcile" /\ (pc' # "Reconcile" \/ pc = "Poll") /\ pc' # "Spawn"
        /\ UNCHANGED <<once, candidates, devices, age, steady>>
        /\ pc = "Spawn" => candidates = {}
    BY <1>6 DEF Reap, LeaveLoop, PollTimeout, PollTears, PollLost, ReconnectOk,
                ReconnectFails, EndIteration, StopAll, JoinAll
  <2>2. AgesAreSteady'  BY <2>1, AgesUntouched DEF Choosing
  <2>3. candidates = {}  BY <2>1 DEF Choosing, CandidatesAreSteady
  <2>4. CandidatesAreSteady'  BY <2>1, <2>3 DEF CandidatesAreSteady
  <2> QED  BY <2>2, <2>4 DEF Choosing
<1>7. CASE \/ Signal \/ LoseTracker \/ (\E s \in Serials : Plug(s) \/ Unplug(s))
           \/ (\E s \in Serials : SessionStep(s)) \/ UNCHANGED vars
  <2>1. UNCHANGED <<pc, once, candidates, devices, age, steady>>
    BY <1>7, SessionMoves DEF Signal, LoseTracker, Plug, Unplug, Announce, vars
  <2>2. AgesAreSteady'  BY <2>1, AgesUntouched DEF Choosing
  <2>3. CandidatesAreSteady'  BY <2>1 DEF Choosing, CandidatesAreSteady, SteadyEnough
  <2> QED  BY <2>2, <2>3 DEF Choosing
<1> QED  BY <1>1, <1>2, <1>3, <1>4, <1>5, <1>6, <1>7 DEF Next, MainStep, Environment

LEMMA ChoosingHolds == Spec => []Choosing
  BY ChoosingInit, ChoosingStep, TypeCorrect, PTL DEF Spec

(* Only Spawn adds to the registry, and what it takes from the candidates. *)
LEMMA NewFromCandidates ==
  ASSUME TypeOK, Next, NEW s \in Serials, s \notin registry, s \in registry'
  PROVE  s \in candidates
<1>1. ASSUME NEW t \in Serials, Spawn(t)  PROVE s \in candidates
  BY <1>1 DEF Spawn
<1>2. ASSUME NEW t \in Serials, SessionStep(t)  PROVE FALSE
  BY <1>2, SessionMoves DEF sessVars
<1> QED
  BY <1>1, <1>2
     DEF Next, MainStep, Environment, Reap, Forget, LeaveLoop, PollUpdate, Listing, PollTimeout,
         PollTears, PollGarbled, PollLost, ReconnectOk, ReconnectFails, Reconcile, SpawnRefused,
         EndIteration, StopAll, JoinAll, Signal, Tick, LoseTracker, Plug, Unplug, Announce, sessVars

(* A session is started only for a device that was in every list read for  *)
(* a full SPAWN_DEBOUNCE: seen_ready_at is purged before it can be read    *)
(* stale, however the lists flicker (with --once: of the device it armed   *)
(* by).                                                                    *)
THEOREM SpawnsAreDebounced == Spec => SpawnOnlyWhenSteady
<1>1. ASSUME TypeOK, Choosing, [Next]_vars
      PROVE  [\A s \in Serials : (s \notin registry /\ s \in registry') =>
                (IF once # "off" THEN \E t \in devices : steady[t] >= Debounce
                 ELSE steady[s] >= Debounce)]_vars
  <2>1. CASE UNCHANGED vars  BY <2>1
  <2>2. CASE Next
    <3> SUFFICES ASSUME NEW s \in Serials, s \notin registry, s \in registry'
                 PROVE  SteadyEnough(s)
      BY DEF SteadyEnough
    <3> QED  BY <1>1, <2>2, NewFromCandidates DEF Choosing, CandidatesAreSteady
  <2> QED  BY <1>1, <2>1, <2>2
<1>2. QED  BY <1>1, TypeCorrect, ChoosingHolds, PTL DEF Spec, SpawnOnlyWhenSteady

----------------------------------------------------------------------------
(* A tablet that stays plugged in.  adb's lists all have it, so, while no  *)
(* list is torn, the last one read has it from before its session starts,  *)
(* and only the end of the main loop raises the session's flag.            *)
Listed(s) ==
  /\ \A i \in 1 .. Len(feed) : s \in feed[i]
  /\ s \in registry => s \in devices
  /\ flag[s] => pc \in {"Join", "Exited"}

LEMMA ListedStep ==
  ASSUME TypeOK, Choosing, Next, NEW s \in Serials, Listed(s), s \in attached, s \in attached',
         ~torn, ~torn'
  PROVE  Listed(s)'
<1> USE DEF loopVars, deviceVars, sessVars, adbVars
<1>1. feed \in Seq(SUBSET Serials) /\ Len(feed) \in Nat  BY DEF TypeOK
<1>2. CASE Reap \/ JoinAll
  <2>1. /\ UNCHANGED <<feed, devices>> /\ registry' \subseteq registry
        /\ flag'[s] => flag[s]
        /\ pc = "Top" \/ pc' = "Exited"
    BY <1>2 DEF Reap, JoinAll, Forget
  <2> QED  BY <2>1 DEF Listed
<1>3. CASE PollUpdate
  <2>1. /\ feed # << >> /\ devices' = Head(feed) /\ feed' = Tail(feed) /\ pc = "Poll"
        /\ UNCHANGED <<registry, flag>>
    BY <1>3 DEF PollUpdate, Listing
  <2>2. /\ Len(feed) >= 1 /\ Head(feed) = feed[1] /\ Len(feed') = Len(feed) - 1
        /\ \A i \in 1 .. Len(feed) - 1 : feed'[i] = feed[i + 1]
    BY <1>1, <2>1
  <2>3. s \in devices'
    <3>1. 1 \in 1 .. Len(feed)  BY <1>1, <2>2
    <3> QED  BY <2>1, <2>2, <3>1 DEF Listed
  <2>4. ASSUME NEW i \in 1 .. Len(feed')  PROVE s \in feed'[i]
    <3>1. i \in 1 .. Len(feed) - 1 /\ i + 1 \in 1 .. Len(feed)  BY <1>1, <2>2
    <3> QED  BY <2>2, <3>1 DEF Listed
  <2> QED  BY <2>1, <2>3, <2>4 DEF Listed
<1>4. CASE ReconnectOk
  <2>1. /\ feed' = <<attached>> /\ pc = "Reconnect" /\ UNCHANGED <<registry, devices, flag>>
    BY <1>4 DEF ReconnectOk
  <2>2. Len(feed') = 1 /\ feed'[1] = attached  BY <2>1
  <2> QED  BY <2>1, <2>2 DEF Listed
<1>5. CASE Reconcile
  <2>1. /\ flag' = [t \in Serials |-> flag[t] \/ t \in Vanished] /\ pc = "Reconcile"
        /\ UNCHANGED <<feed, registry, devices>>
    BY <1>5 DEF Reconcile
  <2>2. s \notin Vanished  BY DEF Listed, Vanished
  <2>3. ~flag[s]  BY <2>1 DEF Listed
  <2>4. ~flag'[s]  BY <2>1, <2>2, <2>3
  <2> QED  BY <2>1, <2>4 DEF Listed
<1>6. ASSUME NEW t \in Serials, Spawn(t)  PROVE Listed(s)'
  <2>1. /\ t \in candidates /\ registry' = registry \cup {t} /\ flag' = [flag EXCEPT ![t] = FALSE]
        /\ UNCHANGED <<feed, devices, pc>>
    BY <1>6 DEF Spawn
  <2>2. t \in devices  BY <2>1 DEF Choosing, CandidatesAreSteady
  <2>3. flag'[s] => flag[s]  BY <2>1 DEF TypeOK
  <2> QED  BY <2>1, <2>2, <2>3 DEF Listed
<1>7. CASE StopAll
  <2>1. pc' = "Join" /\ UNCHANGED <<feed, registry, devices>>  BY <1>7 DEF StopAll
  <2> QED  BY <2>1 DEF Listed
<1>8. CASE \/ LeaveLoop \/ PollTimeout \/ PollLost \/ ReconnectFails
           \/ (\E t \in Serials : SpawnRefused(t)) \/ EndIteration
  <2>1. UNCHANGED <<feed, registry, devices, flag>> /\ pc \notin {"Join", "Exited"}
    BY <1>8 DEF LeaveLoop, PollTimeout, PollLost, ReconnectFails, SpawnRefused, EndIteration
  <2> QED  BY <2>1 DEF Listed
<1>9. CASE Signal \/ Tick \/ (\E t \in Serials : SessionStep(t))
  <2>1. UNCHANGED <<feed, registry, devices, flag, pc>>
    BY <1>9, SessionMoves DEF Signal, Tick
  <2> QED  BY <2>1 DEF Listed
<1>10. CASE LoseTracker
  <2>1. feed' \in {feed, << >>} /\ UNCHANGED <<registry, devices, flag, pc>>
    BY <1>10 DEF LoseTracker
  <2>2. CASE feed' = feed  BY <2>1, <2>2 DEF Listed
  <2>3. CASE feed' = << >>
    <3>1. Len(feed') = 0  BY <2>3
    <3> QED  BY <2>1, <3>1 DEF Listed
  <2> QED  BY <2>1, <2>2, <2>3
<1>11. ASSUME NEW t \in Serials, Plug(t) \/ Unplug(t)  PROVE Listed(s)'
  <2>1. /\ feed' = Append(feed, attached') \/ feed' = feed
        /\ UNCHANGED <<registry, devices, flag, pc>>
    BY <1>11 DEF Plug, Unplug, Announce
  <2>2. CASE feed' = feed  BY <2>1, <2>2 DEF Listed
  <2>3. CASE feed' = Append(feed, attached')
    <3> DEFINE now == attached'
    <3>1. s \in now /\ feed' = Append(feed, now)  BY <2>3
    <3> HIDE DEF now
    <3>2. /\ Len(feed') = Len(feed) + 1 /\ feed'[Len(feed) + 1] = now
          /\ \A i \in 1 .. Len(feed) : feed'[i] = feed[i]
      BY <1>1, <3>1
    <3>3. ASSUME NEW i \in 1 .. Len(feed')  PROVE s \in feed'[i]
      <4>1. i \in 1 .. Len(feed) \/ i = Len(feed) + 1  BY <1>1, <3>2
      <4> QED  BY <3>1, <3>2, <4>1 DEF Listed
    <3> QED  BY <2>1, <3>3 DEF Listed
  <2> QED  BY <2>1, <2>2, <2>3
<1>12. ~PollTears /\ ~PollGarbled
  BY DEF PollTears, PollGarbled
<1> QED
  BY <1>2, <1>3, <1>4, <1>5, <1>6, <1>7, <1>8, <1>9, <1>10, <1>11, <1>12
  DEF Next, MainStep, Environment

(* No session of a tablet that stays plugged in is told to stop but by the *)
(* daemon's own end: neither a tracker that is lost and replaced nor lists *)
(* read late nor the sessions of other tablets do it; a torn list can.     *)
THEOREM PluggedInRunsOn == Spec => PluggedInIsNotStopped
<1>1. ASSUME NEW s \in Serials
      PROVE  Spec => ([](s \in attached /\ ~torn) => [](flag[s] => pc \in {"Join", "Exited"}))
  <2>1. Init /\ s \in attached => Listed(s)
    <3> SUFFICES ASSUME Init, s \in attached  PROVE Listed(s)
      OBVIOUS
    <3>1. feed = <<attached>> /\ registry = {} /\ ~flag[s]  BY DEF Init
    <3>2. Len(feed) = 1 /\ feed[1] = attached  BY <3>1
    <3> QED  BY <3>1, <3>2 DEF Listed
  <2>2. /\ TypeOK /\ Choosing /\ Listed(s) /\ [Next]_vars
        /\ (s \in attached /\ ~torn) /\ (s \in attached /\ ~torn)'
        => Listed(s)'
    <3> SUFFICES ASSUME TypeOK, Choosing, Listed(s), [Next]_vars,
                        s \in attached, ~torn, s \in attached', ~torn'
                 PROVE  Listed(s)'
      OBVIOUS
    <3>1. CASE Next  BY <3>1, ListedStep
    <3>2. CASE UNCHANGED vars
      BY <3>2 DEF Listed, vars, loopVars, deviceVars, sessVars, adbVars
    <3> QED  BY <3>1, <3>2
  <2>3. Listed(s) => (flag[s] => pc \in {"Join", "Exited"})  BY DEF Listed
  <2> QED  BY <2>1, <2>2, <2>3, TypeCorrect, ChoosingHolds, PTL DEF Spec
<1> QED  BY <1>1 DEF PluggedInIsNotStopped
============================================================================
