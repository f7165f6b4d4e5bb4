---------------------------- MODULE SessionProofs ---------------------------
(***************************************************************************)
(* Theorems about Session.tla, for any of the compositors and any depth of *)
(* the encoder's queue.                                                    *)
(***************************************************************************)
EXTENDS Session, TLAPS

(* The step proofs below go by conjunct, not by action, so that every leaf *)
(* looks at all of the actions.                                            *)
USE DEF threads, world, Begin, Fail, Proceed, Drop, SetupStep,
        OutputCreated, ForwardInstalled, AppLaunched, SourceOpened, FormatKnown, EncoderBuilt,
        TouchReady, Connected, ControlsSent, ThreadsStarted, Unwind, Returned,
        SetupFails, PreconditionFails, OutputFails, LaunchFails, SourceFails, LateStageFails,
        LoopStep, Check, NextFrame, PushFrame, FormatFails, LoopFails,
        TeardownStep, StopThreads, JoinDrain, JoinAck, CloseApp, Release,
        DrainStep, ThreadFails, AckEnds, WorkerEnds, Concurrently, DrainMoves, Look, Pull,
        PullTimesOut, Send, SendBreaks, EncoderBreaks, SendTimesOut,
        Ask, Repaint, AppGoes, DeviceGoes

----------------------------------------------------------------------------
(* The strengthening: what the position in run() says of its locals, of    *)
(* the two threads and of the result.  Guarded needs none of it.           *)
Whole == {"output", "forward", "source", "sender"}

(* The session thread's locals, stage by stage; only touch is optional.    *)
HeldByStage ==
  /\ pc = "output" => held = {}
  /\ pc = "forward" => held = {"output"}
  /\ pc \in {"launch", "source"} => held = {"output", "forward"}
  /\ pc \in {"format", "encoder", "touch"} => held = {"output", "forward", "source"}
  /\ pc = "connect" => held \ {"tx"} = {"output", "forward", "source"}
  /\ pc \in {"controls", "threads"} \cup Streaming \cup (Teardown \ {"release"})
       => held \ {"tx"} = Whole
  /\ pc = "ended" => held = {}

(* The threads do not run before the last stage of the setup, nor after    *)
(* they are joined.                                                        *)
ThreadsByStage ==
  /\ pc \in Setup \cup {"unwind"} => drain = "none" /\ ack = "none"
  /\ pc \in {"joinAck", "closeApp", "release", "ended"} => drain \in {"none", "ended"}
  /\ pc \in {"closeApp", "release", "ended"} => ack \in {"none", "ended"}

ResultByStage ==
  /\ pc \in Setup \cup Streaming <=> result = "none"
  /\ result = "ok" => shutdown

IInv == TypeOK /\ Guarded /\ HeldByStage /\ ThreadsByStage /\ ResultByStage

----------------------------------------------------------------------------
(* The stages of the setup, as a set, and the positions in run().          *)
LEMMA SetupStages ==
  Setup = {"output", "forward", "launch", "source", "format", "encoder", "touch", "connect",
           "controls", "threads"}
<1>1. DOMAIN Stages = 1 .. 10
  BY DEF Stages
<1>2. \A i \in 1 .. 10 : i \in {1, 2, 3, 4, 5, 6, 7, 8, 9, 10}
  OBVIOUS
<1>3. Setup = {Stages[i] : i \in {1, 2, 3, 4, 5, 6, 7, 8, 9, 10}}
  BY <1>1, <1>2 DEF Setup
<1>4. QED  BY <1>3 DEF Stages

LEMMA PositionNames ==
  /\ "output" \in Positions /\ "forward" \in Positions /\ "launch" \in Positions
  /\ "source" \in Positions /\ "format" \in Positions /\ "encoder" \in Positions
  /\ "touch" \in Positions /\ "connect" \in Positions /\ "controls" \in Positions
  /\ "threads" \in Positions /\ "check" \in Positions /\ "next" \in Positions
  /\ "push" \in Positions /\ "stop" \in Positions /\ "joinDrain" \in Positions
  /\ "joinAck" \in Positions /\ "closeApp" \in Positions /\ "release" \in Positions
  /\ "unwind" \in Positions /\ "ended" \in Positions
  BY SetupStages DEF Positions, Streaming, Teardown

(* A removal leaves no output of the session's own.                        *)
LEMMA Removed ==
  ASSUME TypeOK, NEW m \in AfterRemoval
  PROVE  m \in {"absent", "foreign", "orphan"}
<1>1. CASE monitor # "own"
  BY <1>1, Zenon DEF AfterRemoval, TypeOK
<1>2. CASE monitor = "own" /\ backend = "hyprland"
  BY <1>2, Zenon DEF AfterRemoval
<1>3. CASE monitor = "own" /\ backend # "hyprland"
  BY <1>3, Zenon DEF AfterRemoval
<1>4. QED  BY <1>1, <1>2, <1>3

(* Type correctness.                                                       *)
LEMMA TypeInit == Init => TypeOK
<1>1. Init => packets \in 0 .. PacketCap
  BY PacketCapAssumption DEF Init
<1>2. QED  BY <1>1, PositionNames DEF Init, TypeOK

(* Only push_frame and pull touch the encoder's queue.                     *)
LEMMA PacketsMove ==
  ASSUME [Next]_vars
  PROVE  UNCHANGED packets \/ PushFrame \/ Pull
  BY DEF vars, Next, SessionThread

LEMMA PacketsBounded ==
  ASSUME TypeOK, [Next]_vars
  PROVE  packets' \in 0 .. PacketCap
<1>1. packets \in 0 .. PacketCap
  BY DEF TypeOK
<1>2. CASE UNCHANGED packets
  BY ONLY <1>1, <1>2
<1>3. CASE PushFrame
  BY ONLY <1>1, <1>3, PacketCapAssumption DEF PushFrame
<1>4. CASE Pull
  BY ONLY <1>1, <1>4, PacketCapAssumption DEF Pull
<1>5. QED  BY ONLY PacketsMove, <1>2, <1>3, <1>4, [Next]_vars

(* One step per conjunct: what each variable becomes, whoever moves.       *)
LEMMA TypeStep == TypeOK /\ [Next]_vars => TypeOK'
<1> SUFFICES ASSUME TypeOK, [Next]_vars PROVE TypeOK'
  OBVIOUS
<1>0. packets' \in 0 .. PacketCap
  BY PacketsBounded
<1> USE PositionNames, Removed DEF TypeOK, Guards, vars, Next, SessionThread
<1>1. backend' \in Backends /\ shutdown' \in BOOLEAN /\ running' \in BOOLEAN
  OBVIOUS
<1>2. pc' \in Positions
  OBVIOUS
<1>3. result' \in {"none", "ok", "err"}
  OBVIOUS
<1>4. held' \in SUBSET Guards
  OBVIOUS
<1>5. drain' \in {"none", "look", "pull", "send", "ended"}
  OBVIOUS
<1>6. ack' \in {"none", "read", "ended"}
  OBVIOUS
<1>7. worker' \in {"none", "alive", "gone"}
  OBVIOUS
<1>8. damage' \in BOOLEAN /\ rule' \in BOOLEAN /\ app' \in BOOLEAN
  OBVIOUS
<1>9. monitor' \in {"absent", "foreign", "own", "orphan"}
  OBVIOUS
<1>10. link' \in {"none", "open", "broken", "closed"}
  OBVIOUS
<1>11. QED
  BY ONLY <1>0, <1>1, <1>2, <1>3, <1>4, <1>5, <1>6, <1>7, <1>8, <1>9, <1>10 DEF TypeOK

(* The session's type invariant.                                           *)
THEOREM TypeCorrect == Spec => []TypeOK
  BY TypeInit, TypeStep, PTL DEF Spec
----------------------------------------------------------------------------
(* Guarded is inductive by itself.                                         *)
LEMMA GuardedStep == TypeOK /\ Guarded /\ [Next]_vars => Guarded'
<1> SUFFICES ASSUME TypeOK, Guarded, [Next]_vars PROVE Guarded'
  OBVIOUS
<1> USE Removed DEF Guarded, MonitorGuard, TypeOK, vars, Next, SessionThread
<1>1. monitor' = "own" => MonitorGuard' \in held'
  OBVIOUS
<1>2. rule' => "forward" \in held'
  OBVIOUS
<1>3. link' = "open" => "sender" \in held'
  OBVIOUS
<1>4. QED
  BY ONLY <1>1, <1>2, <1>3 DEF Guarded

LEMMA HeldStep == TypeOK /\ HeldByStage /\ [Next]_vars => HeldByStage'
<1> SUFFICES ASSUME TypeOK, HeldByStage, [Next]_vars PROVE HeldByStage'
  OBVIOUS
<1> USE DEF HeldByStage, Streaming, Teardown, Whole, vars, Next, SessionThread
<1>1. pc' = "output" => held' = {}
  OBVIOUS
<1>2. pc' = "forward" => held' = {"output"}
  OBVIOUS
<1>3. pc' \in {"launch", "source"} => held' = {"output", "forward"}
  OBVIOUS
<1>4. pc' \in {"format", "encoder", "touch"} => held' = {"output", "forward", "source"}
  OBVIOUS
<1>5. pc' = "connect" => held' \ {"tx"} = {"output", "forward", "source"}
  OBVIOUS
<1>6. pc' \in {"controls", "threads"} \cup Streaming \cup (Teardown \ {"release"})
        => held' \ {"tx"} = Whole
  OBVIOUS
<1>7. pc' = "ended" => held' = {}
  OBVIOUS
<1>8. QED
  BY ONLY <1>1, <1>2, <1>3, <1>4, <1>5, <1>6, <1>7 DEF HeldByStage

LEMMA ThreadsStep == TypeOK /\ ThreadsByStage /\ [Next]_vars => ThreadsByStage'
<1> SUFFICES ASSUME TypeOK, ThreadsByStage, [Next]_vars PROVE ThreadsByStage'
  OBVIOUS
<1> USE SetupStages DEF ThreadsByStage, vars, Next, SessionThread
<1>1. pc' \in Setup \cup {"unwind"} => drain' = "none" /\ ack' = "none"
  OBVIOUS
<1>2. pc' \in {"joinAck", "closeApp", "release", "ended"} => drain' \in {"none", "ended"}
  OBVIOUS
<1>3. pc' \in {"closeApp", "release", "ended"} => ack' \in {"none", "ended"}
  OBVIOUS
<1>4. QED
  BY ONLY <1>1, <1>2, <1>3 DEF ThreadsByStage

LEMMA ResultStep == TypeOK /\ ResultByStage /\ [Next]_vars => ResultByStage'
<1> SUFFICES ASSUME TypeOK, ResultByStage, [Next]_vars PROVE ResultByStage'
  OBVIOUS
<1> USE SetupStages DEF ResultByStage, Streaming, vars, Next, SessionThread
<1>1. pc' \in Setup \cup Streaming <=> result' = "none"
  OBVIOUS
<1>2. result' = "ok" => shutdown'
  OBVIOUS
<1>3. QED
  BY ONLY <1>1, <1>2 DEF ResultByStage

LEMMA InductiveInit == Init => IInv
  BY TypeInit, SetupStages
     DEF Init, IInv, Guarded, HeldByStage, ThreadsByStage, ResultByStage, Streaming, Teardown

(* The inductive invariant.                                                *)
THEOREM Inductive == Spec => []IInv
<1>1. IInv /\ [Next]_vars => IInv'
  BY ONLY TypeStep, GuardedStep, HeldStep, ThreadsStep, ResultStep DEF IInv
<1>2. QED  BY <1>1, InductiveInit, PTL DEF Spec

(* Whatever a session made outside the process is removed by a guard it    *)
(* holds.                                                                  *)
THEOREM NothingUnguarded == Spec => []Guarded
<1>1. IInv => Guarded
  BY DEF IInv
<1>2. QED  BY <1>1, Inductive, PTL

(* The session's threads never outlive the guards they use.                *)
THEOREM ThreadsAreScoped == Spec => []ThreadsWithinSession
<1>1. IInv => ThreadsWithinSession
  BY SetupStages
     DEF IInv, TypeOK, HeldByStage, ThreadsByStage, ThreadsWithinSession, Positions, Streaming,
         Teardown, Whole
<1>2. QED  BY <1>1, Inductive, PTL

(* A session that has returned, after whatever failure, has left no output *)
(* of its own, no forward and no connection behind; a monitor that         *)
(* hyprctl refused to remove is an "orphan" and not its own.               *)
THEOREM NothingLeft == Spec => [](pc = "ended" => monitor # "own" /\ ~rule /\ link # "open")
<1>1. IInv => (pc = "ended" => monitor # "own" /\ ~rule /\ link # "open")
  BY DEF IInv, Guarded, HeldByStage
<1>2. QED  BY <1>1, Inductive, PTL
----------------------------------------------------------------------------
(* The refinement of SessionLife, by what a step does to the outcome, to   *)
(* the flag and to the two resources.                                      *)
LEMMA LifeInit == Init => Life!Init
  BY DEF Init, Life!Init, holdsBar

LEMMA BackendStays == [Next]_vars => UNCHANGED backend
  BY DEF vars, Next, SessionThread

LEMMA LifeDecides ==
  ASSUME IInv, Next, result' # result
  PROVE  Life!Decide
<1>1. result = "none" /\ UNCHANGED <<held, shutdown, backend>>
  BY SetupStages DEF Next, SessionThread, IInv, ResultByStage, Streaming
<1>2. result' = "err" \/ (result' = "ok" /\ shutdown /\ pc = "check")
  BY DEF Next, SessionThread
<1>3. UNCHANGED holdsBar
  BY ONLY <1>1 DEF holdsBar
<1>4. pc = "check" => holdsBar = {"output", "forward"}
  BY DEF IInv, HeldByStage, holdsBar, Streaming, Whole
<1>5. QED
  BY ONLY <1>1, <1>2, <1>3, <1>4 DEF Life!Decide, Life!Resources

LEMMA LifeTakes ==
  ASSUME IInv, OutputCreated \/ ForwardInstalled
  PROVE  Life!Take
<1>1. result = "none" /\ result' = "none" /\ shutdown' = shutdown
  BY SetupStages DEF IInv, ResultByStage
<1>2. \/ holdsBar = {} /\ holdsBar' = {"output"}
      \/ holdsBar = {"output"} /\ holdsBar' = {"output", "forward"}
  BY DEF IInv, HeldByStage, holdsBar
<1>3. QED
  BY ONLY <1>1, <1>2 DEF Life!Take, Life!Resources

LEMMA LifeGives ==
  ASSUME IInv, Unwind \/ Release
  PROVE  Life!Give
<1>1. result \in {"ok", "err"} /\ UNCHANGED <<result, shutdown, backend>>
  BY DEF IInv, TypeOK, ResultByStage, Streaming, Setup, Stages
<1>2. held' \subseteq held
  OBVIOUS
<1>3. holdsBar' \subseteq holdsBar
  BY ONLY <1>1, <1>2 DEF holdsBar
<1>4. QED
  BY ONLY <1>1, <1>3 DEF Life!Give, Life!Decided

(* Opening the source on KWin only moves the output from one guard to the  *)
(* other.                                                                  *)
LEMMA LifeMovesOutput ==
  ASSUME IInv, SourceOpened
  PROVE  UNCHANGED <<result, shutdown, holdsBar>>
  BY DEF IInv, HeldByStage, holdsBar

LEMMA LifeStep == IInv /\ [Next]_vars => [Life!Next]_(Life!vars)
<1> SUFFICES ASSUME IInv, [Next]_vars PROVE Life!Next \/ UNCHANGED Life!vars
  OBVIOUS
<1>1. CASE Next /\ result' # result
  BY <1>1, LifeDecides DEF Life!Next
<1>2. CASE OutputCreated \/ ForwardInstalled
  BY ONLY <1>2, IInv, LifeTakes DEF Life!Next
<1>3. CASE Unwind \/ Release
  BY ONLY <1>3, IInv, LifeGives DEF Life!Next
<1>4. CASE SourceOpened
  BY ONLY <1>4, IInv, LifeMovesOutput DEF Life!vars
<1>5. CASE Ask
  <2>1. UNCHANGED <<result, holdsBar>> /\ shutdown' = TRUE
    BY <1>5 DEF holdsBar
  <2>2. QED  BY ONLY <2>1 DEF Life!Next, Life!Ask
<1>6. CASE \/ UNCHANGED vars
           \/ /\ Next /\ result' = result
              /\ ~(OutputCreated \/ ForwardInstalled \/ Unwind \/ Release \/ SourceOpened \/ Ask)
  <2>1. /\ UNCHANGED <<result, shutdown, backend>>
        /\ \A g \in {"output", "forward", "source"} : g \in held' <=> g \in held
    BY <1>6, BackendStays DEF vars, Next, SessionThread
  <2>2. QED  BY ONLY <2>1 DEF holdsBar, Life!vars
<1>7. QED
  BY ONLY <1>1, <1>2, <1>3, <1>4, <1>5, <1>6, [Next]_vars

(* session::run lives as SessionLife promises: output before forward, ok   *)
(* only when asked and with both in hand, nothing given up before that.    *)
THEOREM SessionImplementsLife == Spec => LivesAsPromised
  BY LifeInit, LifeStep, Inductive, PTL DEF Spec, LivesAsPromised, Life!Spec
============================================================================
