----------------------------- MODULE Supervisor ----------------------------
(***************************************************************************)
(* The main thread of the moreland daemon (crates/daemon/src/main.rs): a   *)
(* reconciler that polls adb's device tracker, compares the ready devices  *)
(* with the registry of running sessions, and starts or stops sessions to  *)
(* close the gap.                                                          *)
(*                                                                         *)
(* The main loop is cut where other threads, adb, the clock or a signal    *)
(* can interleave with it: reap, poll, reconcile, one step per spawn.      *)
(* Session threads appear with the two resources they own, the virtual     *)
(* output and the adb forward, and the order in which session::run takes   *)
(* and drops them (Session.tla models that thread in full).                *)
(*                                                                         *)
(* Time is a Tick of SPAWN_DEBOUNCE / Debounce; an Instant is modelled by  *)
(* the ticks since it (age) or until it (wait), capped where the code no   *)
(* longer tells later values apart.                                        *)
(***************************************************************************)
EXTENDS Naturals, Sequences, FiniteSets

CONSTANTS
  Serials,      \* devices that may be plugged in
  Suffix,       \* serial -> its last four alphanumerics, lowercased
  Bare,         \* the base output name, with nothing appended
  None,         \* no owner
  Orphan,       \* owner of an output that no session will remove
  PortRange,    \* protocol::PORT_RANGE
  Debounce,     \* ticks in SPAWN_DEBOUNCE
  BackoffUnit,  \* ticks of backoff per consecutive failure
  FailureCap,   \* failures beyond which the backoff stops growing
  FeedCap,      \* bound: device lists adb may have sent and main not read
  MaxLosses,    \* bound: times the tracker connection breaks or a list is torn
  MaxOrphans,   \* bound: outputs left behind at any time
  Explicit      \* --output-name was given

ASSUME SerialsAssumption == None \notin Serials /\ Orphan \notin Serials /\ None # Orphan
ASSUME NamesAssumption ==
  /\ Suffix \in [Serials -> {Suffix[s] : s \in Serials}]
  /\ Bare \notin Serials
  /\ Bare \notin {Suffix[s] : s \in Serials}
ASSUME BoundsAssumption ==
  /\ PortRange \in Nat
  /\ Debounce \in Nat
  /\ BackoffUnit \in Nat
  /\ FailureCap \in Nat
  /\ FeedCap \in Nat
  /\ MaxLosses \in Nat
  /\ MaxOrphans \in Nat
  /\ Explicit \in BOOLEAN

VARIABLES
  pc,          \* where the main loop is
  shutdown,    \* the global flag a signal or --seconds raises
  once,        \* --once: "off", or once_armed: "unarmed", "armed"
  candidates,  \* devices this iteration still has to spawn for
  devices,     \* ready devices of the last list the tracker sent
  age,         \* seen_ready_at, as ticks since
  failures,    \* cooldowns[s].failures, 0 for no entry
  wait,        \* cooldowns[s].next_attempt, as ticks until
  registry,    \* serials with a Session entry
  port,        \* Session.port
  name,        \* Session.output_name, as what is appended to the base name
  flag,        \* Session.shutdown
  thread,      \* how far the session thread is
  attached,    \* devices adb sees as ready (environment)
  feed,        \* lists adb sent and main has not read (environment)
  link,        \* the tracker connection stands (environment)
  torn,        \* the rest of a list main gave up on is still in the stream
  losses,      \* how often it broke or a list was torn (bounds both)
  forward,     \* adb's forwards: port -> device (environment)
  output,      \* compositor outputs: name -> session (environment)
  steady       \* history: ticks since a device has been in every list read

loopVars   == <<pc, shutdown, once, candidates>>
deviceVars == <<devices, age>>
coolVars   == <<failures, wait>>
sessVars   == <<registry, port, name>>
adbVars    == <<attached, feed, link, torn, losses>>
ownVars    == <<forward, output>>
vars == <<loopVars, deviceVars, coolVars, sessVars, flag, thread, adbVars, ownVars, steady>>

NotSeen == Debounce + 1     \* no entry in seen_ready_at
NoPort  == PortRange
Ports   == 0 .. PortRange - 1
Names   == {Bare} \cup Serials \cup {Suffix[s] : s \in Serials}

(* A session with all it needs waits for the compositor - for its format,  *)
(* for the next frame - or is about to look at its flag, once per frame.   *)
Streaming     == {"waiting", "looking"}
Finished      == {"ok", "err"}
HoldsForward  == Streaming \cup {"unplugging"}
HoldsOutput   == Streaming \cup {"output", "closing_ok", "closing_err"}
Live          == {"starting"} \cup HoldsOutput \cup HoldsForward
ThreadStates  == {"none"} \cup Live \cup Finished

Min2(a, b) == IF a <= b THEN a ELSE b

----------------------------------------------------------------------------
(* A clean end forgets the device's failures; an error or a panic adds one *)
(* and backs off for 2 * min(failures, 8) seconds (bump_cooldown).         *)
BumpedForever(n) == n + 1   \* mutant: the backoff grows without bound

Bumped(n) == Min2(n + 1, FailureCap)
BackoffOf(n) == BackoffUnit * n

FailuresAfter(s) == IF thread[s] = "err" THEN Bumped(failures[s]) ELSE 0

(* The sessions that reap_finished takes out of the registry. *)
ReapableClean ==   \* mutant: a session that failed or panicked is never reaped
  {s \in registry : thread[s] = "ok"}

ReapableClosing ==   \* mutant: reaps a session once it has left its capture loop
  {s \in registry : thread[s] \in Finished \cup {"closing_ok", "closing_err"}}

Reapable == {s \in registry : thread[s] \in Finished}

Forget(S) ==
  /\ registry' = registry \ S
  /\ port' = [s \in Serials |-> IF s \in S THEN NoPort ELSE port[s]]
  /\ name' = [s \in Serials |-> IF s \in S THEN None ELSE name[s]]
  /\ flag' = [s \in Serials |-> flag[s] /\ s \notin S]

(* --once has nothing left to run.                                         *)
OnceDoneUnplugged ==   \* mutant: also waits for the devices to be gone
  once = "armed" /\ registry' = {} /\ devices = {}

OnceDone == once = "armed" /\ registry' = {}

(* Top of the loop: reap, then leave if --once has nothing left to run.    *)
Reap ==
  /\ pc = "Top"
  /\ ~shutdown
  /\ Forget(Reapable)
  /\ thread' = [s \in Serials |-> IF s \in Reapable THEN "none" ELSE thread[s]]
  /\ failures' = [s \in Serials |-> IF s \in Reapable THEN FailuresAfter(s) ELSE failures[s]]
  /\ wait' = [s \in Serials |->
                IF s \in Reapable THEN BackoffOf(FailuresAfter(s)) ELSE wait[s]]
  /\ pc' = IF OnceDone THEN "Stop" ELSE "Poll"
  /\ UNCHANGED <<shutdown, once, candidates, deviceVars, adbVars, ownVars, steady>>

(* while !shutdown *)
LeaveLoopAtOnce ==   \* mutant: returns from main without stopping the sessions
  /\ pc = "Top"
  /\ shutdown
  /\ pc' = "Exited"
  /\ UNCHANGED <<shutdown, once, candidates, deviceVars, coolVars, sessVars, flag,
                 thread, adbVars, ownVars, steady>>

LeaveLoop ==
  /\ pc = "Top"
  /\ shutdown
  /\ pc' = "Stop"
  /\ UNCHANGED <<shutdown, once, candidates, deviceVars, coolVars, sessVars, flag,
                 thread, adbVars, ownVars, steady>>

----------------------------------------------------------------------------
(* tracker.next_update(): a list, a timeout (also when a list is still on  *)
(* its way), or a broken connection.  A list that answers replaces the one *)
(* that stood.                                                             *)
Listing(list) ==
  /\ devices' = list
  /\ steady' = [s \in Serials |-> IF s \in list THEN steady[s] ELSE 0]
  /\ pc' = "Reconcile"

PollUpdate ==
  /\ pc = "Poll"
  /\ feed # << >>
  /\ Listing(Head(feed))
  /\ feed' = Tail(feed)
  /\ torn' = FALSE
  /\ UNCHANGED <<shutdown, once, candidates, age, coolVars, sessVars, flag, thread,
                 attached, link, losses, ownVars>>

(* The timeout falls inside a list: read_payload drops what it had read of *)
(* it, and the next read takes the rest for the start of a list.           *)
PollTears ==
  /\ pc = "Poll"
  /\ link
  /\ feed # << >>
  /\ losses < MaxLosses
  /\ losses' = losses + 1
  /\ feed' = Tail(feed)
  /\ torn' = TRUE
  /\ pc' = "Reconcile"
  /\ UNCHANGED <<shutdown, once, candidates, deviceVars, coolVars, sessVars, flag,
                 thread, attached, link, ownVars, steady>>

(* Out of step with adb, a read swallows any lists there are and may time  *)
(* out again, find no length, or answer with a list that nobody sent; only *)
(* a timeout between two lists (PollUpdate) or a new connection helps.     *)
PollGarbled ==
  /\ pc = "Poll"
  /\ torn
  /\ \E n \in 0 .. Len(feed) : feed' = SubSeq(feed, n + 1, Len(feed))
  /\ \/ link /\ pc' = "Reconcile" /\ UNCHANGED <<devices, steady>>
     \/ pc' = "Reconnect" /\ UNCHANGED <<devices, steady>>
     \/ \E list \in SUBSET Serials : Listing(list)
  /\ UNCHANGED <<shutdown, once, candidates, age, coolVars, sessVars, flag, thread,
                 attached, link, torn, losses, ownVars>>

PollTimeout ==
  /\ pc = "Poll"
  /\ link
  /\ pc' = "Reconcile"
  /\ UNCHANGED <<shutdown, once, candidates, deviceVars, coolVars, sessVars, flag,
                 thread, adbVars, ownVars, steady>>

(* The last known list stands while the tracker is replaced.               *)
PollLostClearing ==   \* mutant: losing the tracker is losing every device
  /\ pc = "Poll"
  /\ feed = << >>
  /\ ~link
  /\ devices' = {}
  /\ pc' = "Reconnect"
  /\ UNCHANGED <<shutdown, once, candidates, age, coolVars, sessVars, flag,
                 thread, adbVars, ownVars, steady>>

PollLost ==
  /\ pc = "Poll"
  /\ feed = << >>
  /\ ~link
  /\ pc' = "Reconnect"
  /\ UNCHANGED <<shutdown, once, candidates, deviceVars, coolVars, sessVars, flag,
                 thread, adbVars, ownVars, steady>>

(* Two seconds later: a new connection starts with a full list; whether it *)
(* succeeds or not the loop goes round, reaping but reconciling nothing.   *)
ReconnectOk ==
  /\ pc = "Reconnect"
  /\ link' = TRUE
  /\ feed' = <<attached>>
  /\ torn' = FALSE
  /\ pc' = "Top"
  /\ UNCHANGED <<shutdown, once, candidates, deviceVars, coolVars, sessVars, flag,
                 thread, attached, losses, ownVars, steady>>

ReconnectFails ==
  /\ pc = "Reconnect"
  /\ pc' = "Top"
  /\ UNCHANGED <<shutdown, once, candidates, deviceVars, coolVars, sessVars, flag,
                 thread, adbVars, ownVars, steady>>

----------------------------------------------------------------------------
(* How long each device has been continuously ready.                       *)
AgeKept(s) ==   \* mutant: seen_ready_at without the retain
  IF s \in devices /\ age[s] = NotSeen THEN 0 ELSE age[s]

AgeNow(s) ==
  IF s \notin devices THEN NotSeen ELSE IF age[s] = NotSeen THEN 0 ELSE age[s]

Debounced == {s \in devices : AgeNow(s) # NotSeen /\ AgeNow(s) >= Debounce}

(* --once arms when any ready device is debounced, and then takes every    *)
(* ready device; otherwise each device waits for its own debounce and      *)
(* cooldown.                                                               *)
Arming == once = "unarmed" /\ Debounced # {}

CandidatesOnceRearmed ==   \* mutant: --once keeps taking new devices
  IF once # "off" THEN IF Debounced # {} THEN devices \ registry ELSE {}
  ELSE {s \in Debounced \ registry : wait[s] = 0}

Candidates ==
  IF once # "off" THEN IF Arming THEN devices ELSE {}
  ELSE {s \in Debounced \ registry : wait[s] = 0}

(* Only the sessions whose device is gone from the list are told to stop.  *)
VanishedUnlessEmpty ==   \* mutant: an empty list is taken for a lost tracker
  IF devices = {} THEN {} ELSE registry \ devices

Vanished == registry \ devices

Reconcile ==
  /\ pc = "Reconcile"
  /\ age' = [s \in Serials |-> AgeNow(s)]
  /\ flag' = [s \in Serials |-> flag[s] \/ s \in Vanished]
  /\ candidates' = Candidates
  /\ once' = IF Arming THEN "armed" ELSE once
  /\ pc' = "Spawn"
  /\ UNCHANGED <<shutdown, devices, coolVars, sessVars, thread, adbVars, ownVars, steady>>

----------------------------------------------------------------------------
(* The allocators look at the registry as it is when the session is        *)
(* spawned.                                                                *)
FreePortsIgnoringStopping ==   \* mutant: a session told to stop frees its port at once
  {p \in Ports : \A s \in registry : flag[s] \/ port[s] # p}

FreePorts == {p \in Ports : \A s \in registry : port[s] # p}

(* allocate_port: the lowest free one.                                     *)
AllocatedPortByCount(p) ==   \* mutant: numbers the sessions instead of searching
  p \in Ports /\ p = Cardinality(registry)

AllocatedPort(p) == p \in FreePorts /\ \A q \in FreePorts : p <= q

NameTakenIgnoringStopping(n) ==   \* mutant: a session told to stop frees its name at once
  \E s \in registry : ~flag[s] /\ name[s] = n

NameTaken(n) == \E s \in registry : name[s] = n

(* resolve_output_name: an explicit name verbatim or not at all; else the  *)
(* base name, then the serial's suffix, then the whole serial.             *)
NameChoices(s) == IF Explicit THEN <<Bare>> ELSE <<Bare, Suffix[s], s>>

ResolvedName(s, n) ==
  \E i \in DOMAIN NameChoices(s) :
    /\ n = NameChoices(s)[i]
    /\ ~NameTaken(n)
    /\ \A j \in 1 .. i - 1 : NameTaken(NameChoices(s)[j])

(* spawn_session succeeded: the thread exists and the registry knows it.   *)
Spawn(s) ==
  /\ pc = "Spawn"
  /\ s \in candidates
  /\ s \notin registry
  /\ candidates' = candidates \ {s}
  /\ \E p \in Ports, n \in Names :
       /\ AllocatedPort(p)
       /\ ResolvedName(s, n)
       /\ port' = [port EXCEPT ![s] = p]
       /\ name' = [name EXCEPT ![s] = n]
  /\ registry' = registry \cup {s}
  /\ flag' = [flag EXCEPT ![s] = FALSE]
  /\ thread' = [thread EXCEPT ![s] = "starting"]
  /\ UNCHANGED <<pc, shutdown, once, deviceVars, coolVars, adbVars, ownVars, steady>>

(* No port, no name, or no thread: only this device backs off.             *)
SpawnRefused(s) ==
  /\ pc = "Spawn"
  /\ s \in candidates
  /\ s \notin registry
  /\ candidates' = candidates \ {s}
  /\ failures' = [failures EXCEPT ![s] = Bumped(@)]
  /\ wait' = [wait EXCEPT ![s] = BackoffOf(Bumped(failures[s]))]
  /\ UNCHANGED <<pc, shutdown, once, deviceVars, sessVars, flag, thread, adbVars,
                 ownVars, steady>>

EndIteration ==
  /\ pc = "Spawn"
  /\ candidates = {}
  /\ pc' = "Top"
  /\ UNCHANGED <<shutdown, once, candidates, deviceVars, coolVars, sessVars, flag,
                 thread, adbVars, ownVars, steady>>

----------------------------------------------------------------------------
(* After the loop: flag every session, then join them all.                 *)
StopAllUnflagged ==   \* mutant: joins sessions that nobody told to stop
  /\ pc = "Stop"
  /\ pc' = "Join"
  /\ UNCHANGED <<shutdown, once, candidates, deviceVars, coolVars, sessVars, flag,
                 thread, adbVars, ownVars, steady>>

StopAll ==
  /\ pc = "Stop"
  /\ flag' = [s \in Serials |-> flag[s] \/ s \in registry]
  /\ pc' = "Join"
  /\ UNCHANGED <<shutdown, once, candidates, deviceVars, coolVars, sessVars, thread,
                 adbVars, ownVars, steady>>

JoinAllDetaching ==   \* mutant: exits without waiting for the threads
  /\ pc = "Join"
  /\ Forget(registry)
  /\ pc' = "Exited"
  /\ UNCHANGED <<shutdown, once, candidates, deviceVars, coolVars, thread, adbVars, ownVars,
                 steady>>

JoinAll ==
  /\ pc = "Join"
  /\ \A s \in registry : thread[s] \in Finished
  /\ Forget(registry)
  /\ thread' = [s \in Serials |-> "none"]
  /\ pc' = "Exited"
  /\ UNCHANGED <<shutdown, once, candidates, deviceVars, coolVars, adbVars, ownVars,
                 steady>>

----------------------------------------------------------------------------
(* Session threads, by the resources they take and drop (session::run).    *)
Step(s, from, to) ==
  /\ thread[s] = from
  /\ thread' = [thread EXCEPT ![s] = to]
  /\ UNCHANGED <<loopVars, deviceVars, coolVars, sessVars, flag, adbVars, steady>>

(* No app, no display size, or the compositor refuses the output.          *)
SetupFails(s) == Step(s, "starting", "err") /\ UNCHANGED ownVars

(* What becomes of an output nobody will remove.                           *)
Orphaned(n) ==
  /\ Cardinality({m \in Names : output[m] = Orphan}) < MaxOrphans
  /\ output' = [output EXCEPT ![n] = Orphan]

(* Hyprland created the output, but configuring it or restoring the other  *)
(* monitors failed: VirtualOutput::create returns before it has built the  *)
(* guard (VirtualOutput.tla).                                              *)
SetupAbandons(s) ==
  /\ Step(s, "starting", "err")
  /\ Orphaned(name[s])
  /\ UNCHANGED forward

CreateOutput(s) ==
  /\ Step(s, "starting", "output")
  /\ output' = [output EXCEPT ![name[s]] = s]
  /\ UNCHANGED forward

(* Forward::new removes whatever forward the port had and installs its own.*)
(* On KWin the session then waits for the compositor to tell its format.   *)
InstallForward(s) ==
  /\ Step(s, "output", "waiting") \/ Step(s, "output", "looking")
  /\ forward' = [forward EXCEPT ![port[s]] = s]
  /\ UNCHANGED output

ForwardFails(s) == Step(s, "output", "closing_err") /\ UNCHANGED ownVars

(* The capture loop looks at its flag and, while it is down, waits for the *)
(* next frame, which comes when the compositor repaints: on an idle output *)
(* it may not for as long as nothing changes, and nothing else ends the    *)
(* wait.                                                                   *)
NextFrame(s) == ~flag[s] /\ Step(s, "looking", "waiting") /\ UNCHANGED ownVars
Repaint(s) == Step(s, "waiting", "looking") /\ UNCHANGED ownVars

StreamingTo(s, to) == \E from \in Streaming : Step(s, from, to)

(* The capture loop ends on the flag, with an error, or in a panic; the    *)
(* forward goes first, the output after it.                                *)
DropForwardForgotten(s) ==   \* mutant: the forward has no guard that removes it
  s \in Serials /\ UNCHANGED ownVars

DropForward(s) ==
  /\ forward' = [forward EXCEPT ![port[s]] = None]
  /\ UNCHANGED output

EndOnFlag(s) == flag[s] /\ Step(s, "looking", "closing_ok") /\ DropForward(s)
EndOnError(s) == StreamingTo(s, "closing_err") /\ DropForward(s)

(* VirtualOutput::drop; when the compositor refuses it only warns.         *)
RemoveOutput(s) ==
  /\ \/ output' = [output EXCEPT ![name[s]] = None]
     \/ Orphaned(name[s])
  /\ UNCHANGED forward

DropOutput(s) ==
  /\ \/ Step(s, "closing_ok", "ok")
     \/ Step(s, "closing_err", "err")
  /\ RemoveOutput(s)

(* On KWin the output belongs to the capture source, a later local than    *)
(* the forward: a set-up that fails after the source drops it first.       *)
DropOutputFirst(s) == StreamingTo(s, "unplugging") /\ RemoveOutput(s)
DropForwardLast(s) == Step(s, "unplugging", "err") /\ DropForward(s)

(* What a live thread does of itself and without an error.                 *)
SessionProceeds(s) ==
  \/ CreateOutput(s) \/ InstallForward(s)
  \/ NextFrame(s) \/ EndOnFlag(s)
  \/ DropOutput(s) \/ DropForwardLast(s)

SessionFails(s) ==
  SetupFails(s) \/ SetupAbandons(s) \/ ForwardFails(s) \/ EndOnError(s) \/ DropOutputFirst(s)

SessionStep(s) == SessionProceeds(s) \/ Repaint(s) \/ SessionFails(s)

----------------------------------------------------------------------------
(* The environment: SIGINT, SIGTERM or --seconds; the clock; adb.          *)
Signal ==
  /\ pc # "Exited"
  /\ ~shutdown
  /\ shutdown' = TRUE
  /\ UNCHANGED <<pc, once, candidates, deviceVars, coolVars, sessVars, flag, thread,
                 adbVars, ownVars, steady>>

Tick ==
  /\ pc # "Exited"
  /\ age' = [s \in Serials |-> IF age[s] < Debounce THEN age[s] + 1 ELSE age[s]]
  /\ wait' = [s \in Serials |-> IF wait[s] > 0 THEN wait[s] - 1 ELSE 0]
  /\ steady' = [s \in Serials |->
                  IF s \in devices /\ steady[s] < Debounce THEN steady[s] + 1 ELSE steady[s]]
  /\ UNCHANGED <<loopVars, devices, failures, sessVars, flag, thread, adbVars, ownVars>>

(* adb sends a list whenever one changes.                                  *)
Announce(now) ==
  /\ pc # "Exited"
  /\ attached' = now
  /\ IF link THEN Len(feed) < FeedCap /\ feed' = Append(feed, now) ELSE UNCHANGED feed
  /\ UNCHANGED <<loopVars, deviceVars, coolVars, sessVars, flag, thread, link, torn, losses,
                 output, steady>>

Plug(s) ==
  /\ s \notin attached
  /\ Announce(attached \cup {s})
  /\ UNCHANGED forward

(* A forward does not survive its device.                                  *)
Unplug(s) ==
  /\ s \in attached
  /\ Announce(attached \ {s})
  /\ forward' = [p \in Ports |-> IF forward[p] = s THEN None ELSE forward[p]]

(* The adb server dies or is restarted, with every forward it had.         *)
LoseTracker ==
  /\ pc # "Exited"
  /\ link
  /\ losses < MaxLosses
  /\ losses' = losses + 1
  /\ link' = FALSE
  /\ feed' \in {feed, << >>}
  /\ forward' = [p \in Ports |-> None]
  /\ UNCHANGED <<loopVars, deviceVars, coolVars, sessVars, flag, thread, attached, torn,
                 output, steady>>

----------------------------------------------------------------------------
Init ==
  /\ pc = "Top" /\ shutdown = FALSE /\ once \in {"off", "unarmed"} /\ candidates = {}
  /\ devices = {}
  /\ age = [s \in Serials |-> NotSeen]
  /\ failures = [s \in Serials |-> 0]
  /\ wait = [s \in Serials |-> 0]
  /\ registry = {}
  /\ port = [s \in Serials |-> NoPort]
  /\ name = [s \in Serials |-> None]
  /\ flag = [s \in Serials |-> FALSE]
  /\ thread = [s \in Serials |-> "none"]
  /\ attached \in SUBSET Serials
  /\ feed = <<attached>>
  /\ link = TRUE
  /\ torn = FALSE
  /\ losses = 0
  /\ forward = [p \in Ports |-> None]
  /\ output = [n \in Names |-> None]
  /\ steady = [s \in Serials |-> 0]

MainStep ==
  \/ Reap \/ LeaveLoop
  \/ PollUpdate \/ PollTimeout \/ PollTears \/ PollGarbled \/ PollLost
  \/ ReconnectOk \/ ReconnectFails
  \/ Reconcile
  \/ \E s \in Serials : Spawn(s) \/ SpawnRefused(s)
  \/ EndIteration \/ StopAll \/ JoinAll

Environment ==
  \/ Signal \/ Tick \/ LoseTracker
  \/ \E s \in Serials : Plug(s) \/ Unplug(s)

Next == MainStep \/ Environment \/ \E s \in Serials : SessionStep(s)

Spec == Init /\ [][Next]_vars

(* The main thread and the clock run, and a live session thread takes its  *)
(* own steps, the commands it runs returning; what adb sent arrives, adb   *)
(* comes back and the OS does not refuse threads for ever.  A session may  *)
(* still fail at any point.  Nothing obliges the compositor to repaint,    *)
(* nor the tracker to be in step with adb: the properties that need either *)
(* say so.                                                                 *)
Fairness ==
  /\ WF_vars(MainStep)
  /\ WF_vars(Tick)
  /\ SF_vars(~torn /\ PollUpdate)
  /\ SF_vars(ReconnectOk)
  /\ \A s \in Serials : WF_vars(SessionProceeds(s)) /\ SF_vars(Spawn(s))

FairSpec == Spec /\ Fairness

(* No wait of this session for the compositor lasts for ever; from some    *)
(* point on no list is torn.                                               *)
Repaints(s) == []<>(thread[s] # "waiting")
InStep == <>[]~torn

----------------------------------------------------------------------------
TypeOK ==
  /\ pc \in {"Top", "Poll", "Reconnect", "Reconcile", "Spawn", "Stop", "Join", "Exited"}
  /\ shutdown \in BOOLEAN
  /\ once \in {"off", "unarmed", "armed"}
  /\ candidates \in SUBSET Serials
  /\ devices \in SUBSET Serials
  /\ age \in [Serials -> 0 .. NotSeen]
  /\ failures \in [Serials -> 0 .. FailureCap]
  /\ wait \in [Serials -> Nat]
  /\ registry \in SUBSET Serials
  /\ port \in [Serials -> Ports \cup {NoPort}]
  /\ name \in [Serials -> Names \cup {None}]
  /\ flag \in [Serials -> BOOLEAN]
  /\ thread \in [Serials -> ThreadStates]
  /\ attached \in SUBSET Serials
  /\ feed \in Seq(SUBSET Serials)
  /\ link \in BOOLEAN
  /\ torn \in BOOLEAN
  /\ losses \in 0 .. MaxLosses
  /\ forward \in [Ports -> Serials \cup {None}]
  /\ output \in [Names -> Serials \cup {None, Orphan}]
  /\ steady \in [Serials -> 0 .. Debounce]

(* A session thread exists exactly for the devices in the registry: none   *)
(* is ever orphaned by reaping, respawning or shutting down.               *)
RegistryIsThreads == \A s \in Serials : thread[s] # "none" <=> s \in registry

(* A session's port is never taken over by another one while it streams,   *)
(* although Forward::new replaces whatever forward it finds.               *)
ForwardNotStolen ==
  \A s \in Serials : thread[s] \in HoldsForward => forward[port[s]] \in {s, None}

(* adb has a forward only for a session that streams through it: nothing   *)
(* is left behind by a session that ended.                                 *)
ForwardNotLeaked ==
  \A p \in Ports, s \in Serials : forward[p] = s => thread[s] \in HoldsForward /\ port[s] = p

(* Every output belongs to the session it was created for until that       *)
(* session removes it, and no output outlives its session.                 *)
OutputsOwned ==
  \A n \in Names, s \in Serials :
    output[n] = s <=> (thread[s] \in HoldsOutput /\ name[s] = n)

(* "every virtual output must come down cleanly or the compositor is left  *)
(* with a phantom monitor per session" (main.rs:293): when the daemon      *)
(* exits, by a signal or by --once, it leaves no forward and no output but *)
(* those the compositor would not remove or finish creating.               *)
CleanExit ==
  pc = "Exited" => /\ \A n \in Names : output[n] \in {None, Orphan}
                   /\ \A p \in Ports : forward[p] = None

(* With --output-name, which is never rewritten, one session at most runs. *)
ExplicitNameIsExclusive ==
  Explicit => \A s, t \in registry : s = t /\ name[s] = Bare

ForwardsKept == ForwardNotStolen /\ ForwardNotLeaked

(* What makes the ownership invariants inductive: the registry's ports and *)
(* names are allocated and pairwise distinct, and an explicit name is      *)
(* never anything but itself.                                              *)
LeasesAllocated == \A s \in registry : port[s] \in Ports /\ name[s] \in Names

LeasesDistinct ==
  \A s, t \in registry : s # t => port[s] # port[t] /\ name[s] # name[t]

ExplicitVerbatim == Explicit => \A s \in registry : name[s] = Bare

ExitedIsEmpty == pc = "Exited" => registry = {}

IInv ==
  /\ TypeOK
  /\ RegistryIsThreads
  /\ LeasesAllocated
  /\ LeasesDistinct
  /\ ExplicitVerbatim
  /\ ForwardNotStolen
  /\ ForwardNotLeaked
  /\ OutputsOwned
  /\ ExitedIsEmpty

(* A device is spawned for only after it was in every list read for a full *)
(* SPAWN_DEBOUNCE, whatever flickered in between (--once: after arming).   *)
SpawnOnlyWhenSteady ==
  [][\A s \in Serials : (s \notin registry /\ s \in registry') =>
       (IF once # "off" THEN \E t \in devices : steady[t] >= Debounce ELSE steady[s] >= Debounce)]_vars

(* A tablet that stays plugged in is told to stop by a shutdown only,      *)
(* however often the tracker's connection breaks, whatever lists are late  *)
(* or never read and whatever becomes of the other sessions - as long as   *)
(* no list is torn, for what is read after that may say anything.          *)
PluggedInIsNotStopped ==
  \A s \in Serials :
    [](s \in attached /\ ~torn) => [](flag[s] => pc \in {"Join", "Exited"})

(* A device's backoff grows by its own failures only: the session of       *)
(* another tablet that ends with an error or a panic never delays it.      *)
FailuresAreOwn ==
  [][\A s \in Serials : failures'[s] > failures[s] =>
       thread[s] = "err" \/ (s \in candidates /\ s \notin candidates')]_vars

(* Sessions run on exclusive leases: see LeasePool.tla.                    *)
NoLease == [port |-> NoPort, name |-> None]

leaseBar ==
  [s \in Serials |->
     IF thread[s] \in Live THEN [port |-> port[s], name |-> name[s]] ELSE NoLease]

Pool == INSTANCE LeasePool WITH lease <- leaseBar
PoolSpec == Pool!Spec

(* To the supervisor, and to the compositor and adb, a session thread is   *)
(* what SessionLife.tla promises; Session.tla promises the same in detail. *)
LifePhase(s) ==
  CASE thread[s] = "none" -> "idle"
    [] thread[s] \in {"starting", "output"} \cup Streaming -> "running"
    [] thread[s] \in {"closing_ok", "ok"} -> "ok"
    [] OTHER -> "err"

LifeHolds(s) ==
  {r \in {"output"} : thread[s] \in HoldsOutput} \cup {r \in {"forward"} : thread[s] \in HoldsForward}

Life(s) == INSTANCE SessionLife WITH phase <- LifePhase(s), holds <- LifeHolds(s), asked <- flag[s]
LivesAsPromised ==
  /\ \A s \in Serials : Life(s)!Init
  /\ [][\A s \in Serials : [Life(s)!Next]_(Life(s)!vars)]_vars

(* Unplug a tablet for good and its session ends and is reaped, if the     *)
(* compositor lets the session look at its flag and lists are read whole   *)
(* in the end.                                                             *)
UnplugTakesDown ==
  \A s \in Serials :
    Repaints(s) /\ InStep /\ <>[](s \notin attached) => <>[](s \notin registry)

(* A tablet that stays plugged in has a session again and again that       *)
(* nobody has told to stop, however often its sessions fail, the tracker's *)
(* connection breaks or a garbled list had its session stopped, under the  *)
(* same two conditions.                                                    *)
PluggedInIsServed ==
  \A s \in Serials :
    Repaints(s) /\ InStep /\ <>[](s \in attached)
      => []<>((thread[s] \in Live /\ ~flag[s]) \/ shutdown \/ once # "off")

(* A signal gets the daemon to its exit at any point of its loop, whatever *)
(* the tracker does, if no session waits for ever for its compositor to    *)
(* repaint: the join has no timeout of its own (main.rs:502-504 leaves     *)
(* that to systemd's TimeoutStopSec).                                      *)
ShutdownCompletes == (\A s \in Serials : Repaints(s)) => (shutdown ~> pc = "Exited")

(* --once takes the devices that are ready when it arms, and each of them  *)
(* once: afterwards none becomes a candidate again, whatever is plugged in *)
(* or ends, and every session it starts uses its device's candidacy up.    *)
OneSessionEach ==
  [][once = "armed" =>
       /\ candidates' \subseteq candidates
       /\ \A s \in registry' \ registry : s \in candidates \ candidates']_vars

(* --once: the daemon exits once every session it armed for has ended,     *)
(* also when none could be started, and whatever is plugged in meanwhile.  *)
OnceExits ==
  (once = "armed" /\ candidates = {} /\ \A s \in registry : thread[s] \in Finished)
    ~> (pc = "Exited")
============================================================================
