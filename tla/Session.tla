------------------------------- MODULE Session ------------------------------
(***************************************************************************)
(* One streaming session: session::run (crates/daemon/src/session.rs) on   *)
(* its thread, the drain and ack threads it starts, the detached touch     *)
(* worker, and what they own outside the process.                          *)
(*                                                                         *)
(* The session thread sets up in stages.  A stage that fails returns early *)
(* and the guards held so far are dropped in reverse order; a session that *)
(* streams tears down in the order the end of run() spells out.            *)
(*                                                                         *)
(* The environment may do the following at any time: the supervisor raises *)
(* the flag, the app or the device goes, the compositor repaints or not,   *)
(* and any call may fail.                                                  *)
(***************************************************************************)
EXTENDS Naturals, Sequences

CONSTANTS
  Backends,     \* compositors to run on, of AllBackends
  PacketCap     \* access units the encoder's queues hold

AllBackends == {"hyprland", "labwc", "kwin"}

ASSUME BackendsAssumption == Backends \subseteq AllBackends
ASSUME PacketCapAssumption == PacketCap \in Nat \ {0}

VARIABLES
  backend,    \* Compositor::detect()
  pc,         \* the session thread
  result,     \* what run() is going to return
  shutdown,   \* the session's flag, raised by the supervisor
  held,       \* guards among the session thread's locals
  running,    \* the flag shared with the ack and drain threads
  drain,      \* the drain thread
  ack,        \* the ack thread
  worker,     \* the touch worker, which owns the uinput device
  packets,    \* access units encoded and not pulled
  damage,     \* a frame of the output is waiting (environment)
  monitor,    \* the output of the session's name (environment)
  rule,       \* adb has the session's forward (environment)
  app,        \* the app runs on the tablet (environment)
  link        \* the connection through the forward (environment)

threads == <<drain, ack, worker, packets>>
world   == <<damage, monitor, rule, app, link>>
vars == <<backend, pc, result, shutdown, held, running, threads, world>>

Guards == {"output", "forward", "source", "tx", "sender"}

Stages == <<"output", "forward", "launch", "source", "format", "encoder", "touch", "connect",
            "controls", "threads">>
Setup     == {Stages[i] : i \in DOMAIN Stages}
Streaming == {"check", "next", "push"}
Teardown  == {"stop", "joinDrain", "joinAck", "closeApp", "release"}
Positions == Setup \cup Streaming \cup Teardown \cup {"unwind", "ended"}

----------------------------------------------------------------------------
(* Dropping a guard.  On Hyprland and labwc the output's guard is the      *)
(* VirtualOutput, which removes a monitor on Hyprland only, and only warns *)
(* when that is refused; on KWin it is the PlasmaVirtualOutput inside it,  *)
(* which the capture source takes over.                                    *)
MonitorGuardLate ==   \* mutant: on KWin only the capture source ever closes the stream
  IF backend = "kwin" THEN "source" ELSE "output"

MonitorGuard == IF backend = "kwin" /\ "source" \in held THEN "source" ELSE "output"

AfterRemoval ==
  CASE monitor # "own" -> {monitor}
    [] backend = "hyprland" -> {"absent", "orphan"}
    [] OTHER -> {"absent"}

Drop(g) ==
  /\ held' = held \ {g}
  /\ IF g = MonitorGuard THEN monitor' \in AfterRemoval ELSE UNCHANGED monitor
  /\ rule' = (rule /\ g # "forward")
  /\ link' = IF g = "sender" /\ link = "open" THEN "closed" ELSE link
  /\ UNCHANGED <<damage, app>>

(* The order in which an early return drops run()'s locals, and the order  *)
(* of its last lines.                                                      *)
EarlyOrder == <<"sender", "tx", "source", "forward", "output">>
FinalOrder == <<"forward", "output", "sender", "tx", "source">>

FirstHeld(order) ==
  order[CHOOSE i \in DOMAIN order :
          order[i] \in held /\ \A j \in 1 .. i - 1 : order[j] \notin held]

----------------------------------------------------------------------------
(* Setting up.                                                             *)
Begin(at, to) ==
  /\ pc = at
  /\ pc' = to
  /\ UNCHANGED <<backend, result, shutdown, running>>

Fail(at) ==
  /\ pc = at
  /\ pc' = "unwind"
  /\ result' = "err"
  /\ UNCHANGED <<backend, shutdown, running>>

(* The app is not installed, the rotation or the display size is unusable. *)
PreconditionFails == Fail("output") /\ UNCHANGED <<held, threads, world>>

(* VirtualOutput::create.  An existing monitor is adopted on Hyprland,     *)
(* required on labwc; a Hyprland monitor whose configuration fails is left *)
(* without a guard (VirtualOutput.tla has the steps).                      *)
OutputCreated ==
  /\ Begin("output", "forward")
  /\ backend = "labwc" => monitor = "foreign"
  /\ monitor' = IF backend = "labwc" THEN "foreign" ELSE "own"
  /\ held' = held \cup {"output"}
  /\ UNCHANGED <<threads, damage, rule, app, link>>

OutputFails ==
  /\ Fail("output")
  /\ monitor' \in IF backend = "hyprland" /\ monitor = "absent" THEN {"absent", "orphan"}
                  ELSE {monitor}
  /\ UNCHANGED <<held, threads, damage, rule, app, link>>

ForwardInstalled ==
  /\ Begin("forward", "launch")
  /\ rule' = TRUE
  /\ held' = held \cup {"forward"}
  /\ UNCHANGED <<threads, damage, monitor, app, link>>

(* am force-stop, whose result is ignored, and am start, whose is not.     *)
AppLaunched ==
  /\ Begin("launch", "source")
  /\ app' = TRUE
  /\ UNCHANGED <<held, threads, damage, monitor, rule, link>>

LaunchFails ==
  /\ Fail("launch")
  /\ app' \in {app, FALSE}
  /\ UNCHANGED <<held, threads, damage, monitor, rule, link>>

(* The capture source; on KWin it takes the output along, and the format   *)
(* may be unknown until the compositor repaints: no flag ends that wait.   *)
SourceOpened ==
  /\ \/ Begin("source", "encoder")
     \/ backend = "kwin" /\ Begin("source", "format")
  /\ held' = held \cup {"source"}
  /\ UNCHANGED <<threads, world>>

FormatKnown ==
  /\ Begin("format", "encoder")
  /\ damage
  /\ damage' = FALSE
  /\ UNCHANGED <<held, threads, monitor, rule, app, link>>

SourceFails ==
  /\ Fail("source")
  /\ monitor' \in IF backend = "kwin" THEN AfterRemoval ELSE {monitor}
  /\ UNCHANGED <<held, threads, damage, rule, app, link>>

EncoderBuilt == Begin("encoder", "touch") /\ UNCHANGED <<held, threads, world>>

(* --no-touch or no /dev/uinput: the session goes on without a worker.     *)
TouchReady ==
  /\ Begin("touch", "connect")
  /\ \/ held' = held \cup {"tx"} /\ worker' = "alive"
     \/ UNCHANGED <<held, worker>>
  /\ UNCHANGED <<drain, ack, packets, world>>

(* adb accepts on behalf of an app that may not be listening.              *)
Connected ==
  /\ Begin("connect", "controls")
  /\ rule
  /\ link' \in {"broken"} \cup {l \in {"open"} : app}
  /\ held' = held \cup {"sender"}
  /\ UNCHANGED <<threads, damage, monitor, rule, app>>

ControlsSent == Begin("controls", "threads") /\ UNCHANGED <<held, threads, world>>

ThreadsStarted ==
  /\ Begin("threads", "check")
  /\ drain' = "look"
  /\ ack' = "read"
  /\ UNCHANGED <<held, worker, packets, world>>

(* PipeWire reports that its stream failed or ended.                       *)
FormatFails == Fail("format") /\ UNCHANGED <<held, threads, world>>

LateStageFails ==
  /\ \E at \in {"forward", "encoder", "touch", "connect", "controls", "threads"} : Fail(at)
  /\ UNCHANGED <<held, threads, world>>

(* The early return drops what is held, innermost first.                   *)
Unwind ==
  /\ pc = "unwind"
  /\ held # {}
  /\ Drop(FirstHeld(EarlyOrder))
  /\ UNCHANGED <<backend, pc, result, shutdown, running, threads>>

Returned ==
  /\ pc \in {"unwind", "release"}
  /\ held = {}
  /\ pc' = "ended"
  /\ UNCHANGED <<backend, result, shutdown, held, running, threads, world>>

SetupStep ==
  \/ OutputCreated \/ ForwardInstalled \/ AppLaunched \/ SourceOpened \/ FormatKnown
  \/ EncoderBuilt \/ TouchReady \/ Connected \/ ControlsSent \/ ThreadsStarted \/ Unwind \/ Returned

SetupFails == PreconditionFails \/ OutputFails \/ LaunchFails \/ SourceFails \/ LateStageFails

----------------------------------------------------------------------------
(* The capture loop looks at the flag between frames.                      *)
CheckAlsoDrain ==   \* mutant: a lost connection is taken for a request to stop
  /\ pc = "check"
  /\ IF shutdown \/ drain = "ended"
     THEN pc' = "stop" /\ result' = "ok" ELSE pc' = "next" /\ UNCHANGED result
  /\ UNCHANGED <<backend, shutdown, held, running, threads, world>>

Check ==
  /\ pc = "check"
  /\ IF shutdown THEN pc' = "stop" /\ result' = "ok" ELSE pc' = "next" /\ UNCHANGED result
  /\ UNCHANGED <<backend, shutdown, held, running, threads, world>>

(* next_frame waits for the compositor, however long it does not repaint.  *)
NextFrame ==
  /\ pc = "next"
  /\ damage
  /\ damage' = FALSE
  /\ pc' = "push"
  /\ UNCHANGED <<backend, result, shutdown, held, running, threads, monitor, rule, app, link>>

(* push_frame never blocks: a full pipeline drops the frame.               *)
PushFrameUnbounded ==   \* mutant: a pipeline that queues every frame
  /\ pc = "push"
  /\ packets' = packets + 1
  /\ pc' = "check"
  /\ UNCHANGED <<backend, result, shutdown, held, running, drain, ack, worker, world>>

PushFrame ==
  /\ pc = "push"
  /\ packets' = IF packets < PacketCap THEN packets + 1 ELSE packets
  /\ pc' = "check"
  /\ UNCHANGED <<backend, result, shutdown, held, running, drain, ack, worker, world>>

LoopFails ==
  /\ pc \in {"next", "push"}
  /\ pc' = "stop"
  /\ result' = "err"
  /\ UNCHANGED <<backend, shutdown, held, running, threads, world>>

----------------------------------------------------------------------------
(* Tearing down, in the order of the last lines of run().                  *)
Proceed(at, to) ==
  /\ pc = at
  /\ pc' = to
  /\ UNCHANGED <<backend, result, shutdown, held, threads>>

StopThreads == Proceed("stop", "joinDrain") /\ running' = FALSE /\ UNCHANGED world

JoinDrainDetached ==   \* mutant: the drain thread is not waited for
  /\ Proceed("joinDrain", "joinAck")
  /\ UNCHANGED <<running, world>>

JoinDrain ==
  /\ drain = "ended"
  /\ Proceed("joinDrain", "joinAck")
  /\ UNCHANGED <<running, world>>

JoinAck ==
  /\ ack = "ended"
  /\ Proceed("joinAck", "closeApp")
  /\ UNCHANGED <<running, world>>

CloseApp ==
  /\ Proceed("closeApp", "release")
  /\ app' \in {app, FALSE}
  /\ link' = IF link = "open" /\ ~app' THEN "broken" ELSE link
  /\ UNCHANGED <<running, damage, monitor, rule>>

Release ==
  /\ pc = "release"
  /\ held # {}
  /\ Drop(FirstHeld(FinalOrder))
  /\ UNCHANGED <<backend, pc, result, shutdown, running, threads>>

LoopStep == Check \/ NextFrame \/ PushFrame
TeardownStep == StopThreads \/ JoinDrain \/ JoinAck \/ CloseApp \/ Release

----------------------------------------------------------------------------
(* The other threads.                                                      *)
Concurrently == UNCHANGED <<backend, pc, result, shutdown, held, running, world>>

(* The drain thread looks at running, pulls with a timeout of 100 ms and   *)
(* sends under the sender's lock; an error of either ends it, and only it. *)
DrainMoves(from, to) ==
  /\ drain = from
  /\ drain' = to
  /\ Concurrently
  /\ UNCHANGED <<ack, worker>>

Look == DrainMoves("look", IF running THEN "pull" ELSE "ended") /\ UNCHANGED packets

PullBetweenFrames ==   \* mutant: packets are sent by the capture loop
  /\ DrainMoves("pull", "send")
  /\ packets > 0
  /\ pc = "check"
  /\ packets' = packets - 1

Pull ==
  /\ DrainMoves("pull", "send")
  /\ packets > 0
  /\ packets' = packets - 1

PullTimesOut == packets = 0 /\ DrainMoves("pull", "look") /\ UNCHANGED packets

EncoderBreaks == DrainMoves("pull", "ended") /\ UNCHANGED packets

Send == link = "open" /\ DrainMoves("send", "look") /\ UNCHANGED packets

(* A connection that is gone refuses the frame; one that is open may do so *)
(* too, after the write timeout.                                           *)
SendBreaks == link # "open" /\ DrainMoves("send", "ended") /\ UNCHANGED packets

SendTimesOut == link = "open" /\ DrainMoves("send", "ended") /\ UNCHANGED packets

(* The ack thread reads with a timeout of 500 ms, so that it sees running  *)
(* go; the end of the stream or an error ends it too.                      *)
AckEndsOnError ==   \* mutant: a read without a timeout never sees running
  /\ ack = "read"
  /\ link # "open"
  /\ ack' = "ended"
  /\ Concurrently
  /\ UNCHANGED <<drain, worker, packets>>

AckEnds ==
  /\ ack = "read"
  /\ ~running \/ link # "open"
  /\ ack' = "ended"
  /\ Concurrently
  /\ UNCHANGED <<drain, worker, packets>>

(* The worker lives until every sender of its channel is gone: the session *)
(* thread's and the clone in the ack thread.                               *)
WorkerEndsAfterAck ==   \* mutant: the worker waits for an ack thread that may never have started
  /\ worker = "alive"
  /\ "tx" \notin held
  /\ ack = "ended"
  /\ worker' = "gone"
  /\ Concurrently
  /\ UNCHANGED <<drain, ack, packets>>

WorkerEnds ==
  /\ worker = "alive"
  /\ "tx" \notin held
  /\ ack # "read"
  /\ worker' = "gone"
  /\ Concurrently
  /\ UNCHANGED <<drain, ack, packets>>

DrainStep == Look \/ Pull \/ PullTimesOut \/ Send \/ SendBreaks
ThreadFails == EncoderBreaks \/ SendTimesOut

----------------------------------------------------------------------------
(* The environment.                                                        *)
Ask ==
  /\ ~shutdown
  /\ shutdown' = TRUE
  /\ UNCHANGED <<backend, pc, result, held, running, threads, world>>

Repaint ==
  /\ ~damage
  /\ monitor # "absent"
  /\ damage' = TRUE
  /\ UNCHANGED <<backend, pc, result, shutdown, held, running, threads, monitor, rule, app, link>>

(* The app is closed or crashes.                                           *)
AppGoes ==
  /\ app
  /\ app' = FALSE
  /\ link' = IF link = "open" THEN "broken" ELSE link
  /\ UNCHANGED <<backend, pc, result, shutdown, held, running, threads, damage, monitor, rule>>

(* The device or the adb server goes, and its forwards with it.            *)
DeviceGoes ==
  /\ rule
  /\ rule' = FALSE
  /\ link' = IF link = "open" THEN "broken" ELSE link
  /\ UNCHANGED <<backend, pc, result, shutdown, held, running, threads, damage, monitor, app>>

----------------------------------------------------------------------------
Init ==
  /\ backend \in Backends
  /\ pc = "output" /\ result = "none" /\ shutdown = FALSE /\ held = {} /\ running = TRUE
  /\ drain = "none" /\ ack = "none" /\ worker = "none" /\ packets = 0
  /\ damage = FALSE /\ rule = FALSE /\ link = "none"
  /\ monitor \in IF backend = "kwin" THEN {"absent"} ELSE {"absent", "foreign"}
  /\ app \in BOOLEAN

SessionThread == SetupStep \/ SetupFails \/ LoopStep \/ TeardownStep

Next ==
  \/ SessionThread \/ FormatFails \/ LoopFails
  \/ DrainStep \/ ThreadFails \/ AckEnds \/ WorkerEnds
  \/ Ask \/ Repaint \/ AppGoes \/ DeviceGoes

Spec == Init /\ [][Next]_vars

(* Every thread runs, and every call returns, well or with an error, but   *)
(* for the two that wait for a repaint.  Nothing is assumed of the         *)
(* compositor, the app, the device or the supervisor.                      *)
FairSpec ==
  /\ Spec
  /\ WF_vars(SessionThread) /\ WF_vars(DrainStep) /\ WF_vars(AckEnds) /\ WF_vars(WorkerEnds)

----------------------------------------------------------------------------
TypeOK ==
  /\ backend \in Backends
  /\ pc \in Positions
  /\ result \in {"none", "ok", "err"}
  /\ shutdown \in BOOLEAN
  /\ held \in SUBSET Guards
  /\ running \in BOOLEAN
  /\ drain \in {"none", "look", "pull", "send", "ended"}
  /\ ack \in {"none", "read", "ended"}
  /\ worker \in {"none", "alive", "gone"}
  /\ packets \in 0 .. PacketCap
  /\ damage \in BOOLEAN
  /\ monitor \in {"absent", "foreign", "own", "orphan"}
  /\ rule \in BOOLEAN
  /\ app \in BOOLEAN
  /\ link \in {"none", "open", "broken", "closed"}

(* Whatever the session made outside the process has a guard among the     *)
(* session thread's locals that removes it, at every early return, on      *)
(* every compositor: an output of its own, its forward, its connection.    *)
Guarded ==
  /\ monitor = "own" => MonitorGuard \in held
  /\ rule => "forward" \in held
  /\ link = "open" => "sender" \in held

(* The threads never outlive what they use: the session gives nothing up   *)
(* before both are joined.                                                 *)
ThreadsWithinSession ==
  (drain \in {"look", "pull", "send"} \/ ack = "read") => {"output", "forward", "source", "sender"} \subseteq held

(* The session is a SessionLife: outcome ok only when asked, output before *)
(* forward, nothing held when it returns.                                  *)
holdsBar ==
  {r \in {"output"} : "output" \in held \/ (backend = "kwin" /\ "source" \in held)}
    \cup {r \in {"forward"} : "forward" \in held}

Life == INSTANCE SessionLife WITH
          phase <- IF result = "none" THEN "running" ELSE result,
          holds <- holdsBar, asked <- shutdown
LivesAsPromised == Life!Spec

(* "each session notices the shutdown flag between frames" (moreland.      *)
(* service): a session told to stop returns, wherever it is, if the        *)
(* compositor keeps repainting - on an idle output nothing wakes           *)
(* next_frame - and after every session, also one that never got to start  *)
(* its threads, the detached touch worker ends and the uinput device goes. *)
StopsWhenAsked ==
  /\ []<>damage => (shutdown ~> pc = "ended")
  /\ pc = "ended" ~> worker # "alive"

(* "Decoupling the two is what makes the idle case work at all": when the  *)
(* output goes idle, what was encoded still leaves for the tablet, unless  *)
(* the connection or the encoder is lost.                                  *)
IdleOutputDrains == <>[](pc = "next") => <>[](packets = 0 \/ drain = "ended")

(* "Stream until `shutdown` is set, the device vanishes, or the app        *)
(* disconnects" (session.rs:87): with the device in place and a            *)
(* compositor that repaints, a lost connection ends the session.           *)
DisconnectEnds == ([]<>damage /\ <>[]rule) => (link = "broken" ~> pc = "ended")
============================================================================
