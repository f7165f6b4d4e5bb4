# Moreland, formally

A TLA+ development of Moreland: a host daemon (Rust, `crates/`) that turns every
Android tablet plugged in into a second monitor, and the tablet's app (Kotlin,
`android/`). The modules follow the source; comments name the function they
translate, and `PROJECT.json` maps every definition to its lines.

Check a run with `tlc -config <run>.cfg <Module>.tla`, the proofs of a component
with `tlapm <Component>Proofs.tla`; there are eight such modules.

## 1. The system

```
        adb server                       compositor (Hyprland, KWin, labwc)
            |  device lists                 ^ outputs        | frames
            v                               |                v
  main thread: supervisor --spawn/flag--> session thread: session::run
   registry, cooldowns     <--is_finished--  |  drain thread --> socket --+
                                             |  ack thread   <-- socket   |
                                             |  touch worker --> uinput   |
                                             v                            v
                                          adb forward ---------> app: accept loop, session,
                                                                 decoder, UI thread, writer
```

| component | state it keeps | operations | how it interacts |
|---|---|---|---|
| supervisor `daemon/src/main.rs` | registry of sessions (port, name, flag, thread), cooldowns, ready times, last device list | reap, poll, reconcile, spawn, stop, join | reads the tracker, spawns threads, raises flags, polls `is_finished` |
| device tracker `daemon/src/tracker.rs` | a TCP connection to adb | connect, next_update | answers the supervisor with a list, a timeout or an error |
| session `daemon/src/session.rs` | guards as locals, `running`, `sent_at` | set up in stages, stream, tear down | owns everything below for one tablet |
| virtual output `daemon/src/output.rs` | a name, on KWin a stream | detect, create, drop | runs `hyprctl` processes; on KWin a Wayland connection |
| adb `transport/src/adb.rs` | a forward rule | new, drop, shell, display size | adb processes; the port is the supervisor's choice |
| sender `transport/src/lib.rs` | the socket | connect, send_frame, send_control | written by the drain thread, read by the ack thread |
| capture `capture/src/session.rs`, `capture/src/plasma/` | Wayland or PipeWire session, pool, constraint generation | new, next_frame, renegotiate | blocks the session thread until the compositor repaints |
| encoder `encoder/src/lib.rs` | a GStreamer pipeline | push_frame, pull_packet | fed by the session thread, pulled by the drain thread |
| touch input `daemon/src/input.rs` | contact, or pointer gesture state | send, long_press, cancel | driven by the touch worker from the ack thread's channel |
| wire protocol `protocol/src/lib.rs`, `Protocol.kt` | none | encode, decode | both ends |
| app stream `VideoStream.kt` | `running`, surface, codec, queue `pendingOutbound`, slot `pendingMove`, writer | accept, session, sendTouch, writer | four threads share the queue and the slot without a lock |
| app activity `DisplayActivity.kt` | the stream | lifecycle, touch events | calls `sendTouch`, `setSurface`, `start`, `stop` |

**What is hard.** Sessions end at any point while the supervisor is elsewhere in
its loop, and what they owned (port, output name) may be wanted again before
their guards have dropped. Devices flicker, and the tracker itself is lost.
A set-up has some fifteen early returns on compositors where different values
own the monitor. Set-ups of several tablets run `hyprctl` side by side. The
capture loop blocks for as long as the compositor does not repaint. The app's
threads share a queue and a slot, with no lock over the two. `PROJECT.json`
lists every such hazard at its line.

**What makes each part correct.**

- supervisor: ports, names, forwards and outputs are exclusive for as long as
  their session lives; a session exists exactly for the devices in the registry;
  it starts only after the debounce, stops only for its own device or a
  shutdown, comes back after every failure; a signal leads to a clean exit,
  as soon as no session waits for its compositor.
- session: whatever it took has a guard; its threads end before what they use;
  it returns when asked; encoded frames leave on an idle output.
- virtual output: a session's output stays and keeps its mode; the user's
  monitors are as the user left them, as far as Hyprland does as it is told.
- app uplink: acks and touches arrive once, in order and in their own session;
  no MOVE is left in its slot; the host's contact follows the finger.
- video downlink: a round trip is the time of the frame that was acked; the
  decoder's inputs neither leak nor belong to an earlier decoder; the app keeps
  reading whatever the decoder does.
- capture, either backend: what the session is told of the frames is negotiated,
  and the same for all who ask; frames are of that geometry; a change is absorbed
  however its events are cut and ordered; a buffer is never written by one side
  while the other uses it; no wait hangs.
- pointer gestures: no button stays pressed, a gesture means one thing, the
  cursor goes as far as the finger.
- wire formats: a reader makes of the bytes what was written, however they are
  cut; the app is told the size of what is captured, which has the shape of the
  panel, turned as the app is told, if the source took what it was asked for.

## 2. The modules

| module | models | EXTENDS / uses |
|---|---|---|
| `LeasePool` | abstract: exclusive leases of a port and a name | |
| `SessionLife` | abstract: what a session thread promises | |
| `Supervisor` | `main.rs`: the main loop, with session threads by their resources | `LeasePool`, `SessionLife` (refinement) |
| `MCSupervisor` | instances for TLC | `Supervisor` |
| `SupervisorProofs` | theorems and proofs | `Supervisor` |
| `Session` | `session.rs`: `run` and its threads in full | `SessionLife` (refinement) |
| `SessionProofs` | theorems and proofs | `Session` |
| `VirtualOutput`, `MCVirtualOutput` | `output.rs`: Hyprland's create and drop | |
| `VirtualOutputProofs` | theorems and proofs | `VirtualOutput` |
| `FrameSource` | abstract: what a session may rely on in a capture backend | |
| `CaptureSession`, `MCCaptureSession` | `capture/src/session.rs`: constraints, pool, frames, renegotiation | `FrameSource` (refinement) |
| `PlasmaCapture` | `capture/src/plasma/`: settling a KWin output, the PipeWire callbacks, the wait for the format | `FrameSource` (refinement) |
| `MCSources` | the two backends for TLC | `MCCaptureSession`, `PlasmaCapture` |
| `SourcesProofs` | theorems and proofs about both backends | `MCSources` |
| `PointerGestures` | `input.rs`: pointer mode and the touch worker | |
| `PointerGesturesProofs` | theorems and proofs | `PointerGestures` |
| `TouchUplink` | `VideoStream.kt`: UI thread, queue, slot, writer; `input.rs`: the contact | |
| `VideoDownlink` | encoder queues, drain and ack threads, the app's session thread and decoder | |
| `MCVideoStream` | the two directions for TLC | `TouchUplink`, `VideoDownlink` |
| `VideoDownlinkProofs` | theorems and proofs about the way to the tablet | `VideoDownlink` |
| `VideoStreamProofs` | theorems and proofs about the way back, and of both | `MCVideoStream`, `VideoDownlinkProofs` |
| `Wire` | the formats of all streams, the size of the stream: pure | |
| `Framing`, `MCFraming` | the ends of each byte stream: partial writes, timeouts, breaks | `Wire` |
| `WireProofs` | theorems and proofs about the streams, the messages, the size and place of what they carry | `Framing` |

`SessionLife` is where supervisor and session meet: `Supervisor` keeps of a
session only when it takes and drops the output and the forward, and implements
`SessionLife` for every serial (`LivesAsPromised`, checked and proved); `Session`
has every stage, thread and compositor, and implements the same specification.
What the supervisor relies on (output before forward, a good outcome only when
asked, nothing held when reaped) is therefore stated once and shown on both
sides.

### Supervisor

`pc` is where the main loop is. An iteration is `Reap`, a `Poll...` answer,
`Reconcile`, one `Spawn` or `SpawnRefused` for each candidate, `EndIteration`:
the points between which a session thread, adb, the clock or a signal can make
a difference. `registry`, `port`, `name`, `flag` are the fields of `Session` in
the `HashMap`; `failures` and `wait` are `cooldowns`; `age` is `seen_ready_at`,
as ticks since. `thread` is what `is_finished` and `join` see. Session threads
step between the states in which they hold nothing, the output, and the output
and the forward; on KWin a set-up that fails late drops the output first
(`DropOutputFirst`). An output the compositor refuses to remove or to finish
creating becomes an `Orphan`'s, after which nobody removes it.
`ReconnectOk` starts from a full list, as adb does; a list may be unread
(`feed`) while the device has gone again.

A session that has all it needs is `looking` at its flag or `waiting` for the
compositor, once per frame (`NextFrame`, `Repaint`); on KWin it waits for the
format first. It sees its flag only when it looks, and nothing but a repaint or
an error ends the wait: on an idle output a session that was told to stop stays,
and so does the `join` at the end of `main`, for which main.rs:502-504 relies on
systemd.

The tracker's read timeout may fall inside a list (`PollTears`): what was read of
it is lost, and what comes next is taken for something else (`torn`). From there
on `PollGarbled` may swallow lists, time out, fail, which replaces the tracker, or
answer with a list that nobody sent, which may have sessions stopped or started
for devices that are not there; it ends with a new connection, or when a timeout
falls between two lists. `Framing` has the bytes of this. What a session that is
stopped or started this way leaves behind is covered by every safety property;
that one is not stopped (`PluggedInIsNotStopped`) is claimed as long as no list is
torn, and the two liveness properties about plugging in if that ends (`InStep`).

Abstractions: an output name is what is appended to the base name, so that a
suffix shared by two serials is one constant; time is a tick of
`SPAWN_DEBOUNCE / Debounce`, capped where the code no longer tells values
apart. A panic is an error (`reap_finished` treats both alike).

### Session

`pc` walks the stages of `run`; `held` is the set of guards among its locals,
and `EarlyOrder` and `FinalOrder` are the two orders in which they are dropped:
Rust's reverse order of declaration on an early return, the explicit `drop`s at
the end. `MonitorGuard` says which of them removes the monitor. `drain`, `ack`
and `worker` are the threads; `monitor`, `rule`, `app` and `link` are what is
left outside the process.

Not in the model: panics (a panic in `run` unwinds like an early return), a
refusal of `thread::spawn` (which panics), `adb forward --remove` failing while
the device is there.

### VirtualOutput

One step for each `hyprctl` process, as other sessions' processes run between
them. A monitor's state is where it comes from: the user, the request for the
tablet, the compositor's default, or a move by the compositor. Hyprland may
rearrange the other monitors when one appears, changes or goes (`Rearranged`);
the user does not touch them.

`hyprctl` can fail, and it can refuse with exit status 0 and an explanation that
the code looks at once only, after `keyword monitor`, for one wording. So
`Configure` may leave the output as it was, and `Restore` may do all, some or none
of what it says (`PartlyRestored`), with nothing to see of either. `create` itself
is taken at its exit status: a refusal there would leave the session without an
output, which capturing then finds out.

A `?` between `output create` and the construction of the value that has the
`Drop` (output.rs:373-427) leaves the output behind: `CreateFails` keeps the
monitor, and the next set-up of the same name adopts it. `OutputStays` and
`LayoutKept` are checked with such monitors around.

A layout that is lost stays lost: nothing is restored after a removal, and each
set-up saves what it finds. `mishaps` records how: two set-ups overlap, one saves
between another's create and its restore, one fails after its create, a restore is
ignored, a removal rearranges. Of these the user's monitors survive only the first
(`UsersLayoutKept`): whoever restores last had saved before anything was moved. The
modes of other sessions do not survive that one either (`SessionsModeKept`), which
is what `output_race` shows. `refused` are the sessions whose own rule was ignored.

### TouchUplink

The UI thread is cut at every operation on the slot or the queue, the writer at
every poll and at the slot's read. A message carries its gesture instead of a
position, the epoch it was handed over in, and its number in the queue; all
three are history, no step depends on them. UP stands for UP and CANCEL, which
take the same path at both ends. The host appears with its contact.
`Join` closes the socket in the same step. A writer that is stuck in a write
outlives the code's join of one second, but it has been interrupted: it takes
nothing more from the queue once the write is over.

### VideoDownlink

A frame's way: `PushFrame` into an appsrc that keeps one, `Encode` while the
appsink has room, the drain thread's `Pull`, `Stamp`, `Send`, the app's
`ReadFrame`, an input of the decoder (`QueueInput`) or none within two seconds
(`Starved`), `Decode`, and `OnOutputBufferAvailable`, which acks what it renders;
`ReadAck` then pops `sent_at`. `codec` is the generation of the decoder, carried
by the inputs in `freeInputs`. The surface comes and goes, the activity stops and
starts the stream, either side ends the session at any point, and the decoder may
be stuck, which is why nothing of it is fair.

`lost` records that the app took a frame it will not ack: `AcksMatch` holds up to
there, and the model shows that it does not afterwards, as nothing ever takes a
time out of `sent_at` but an ack. Abstractions: an ack goes onto the socket without
passing the writer thread (that is `TouchUplink`); no callback of a codec runs
once the codec is released; `LocalServerSocket.close` wakes the accept.

### CaptureSession

The compositor and the client with the event queue between them. `state` is the
client's `State`, changed one event at a time by `Dispatch`, which can happen
only where the code dispatches, `pc` being the loop it waits in; a loop may look
at its condition after any number of events, as a `blocking_dispatch` handles
whatever has been read. `pool` stands for all buffers, which are alike, `given` is
history. The compositor (constraint batches in either order, `Repaint`,
`RefuseFrame`, `StopSession`) is external: it accepts a buffer if its size and
layout are among those it offers at the time of the repaint. GBM picks any of
the modifiers it may, or fails.

`Source` maps it to `FrameSource`: the geometry is told when `Negotiated`, each
frame that is handed to the encoder is of the size of the pool it is from, and
giving up is the end. A layout that changes under the encoder is not part of that
promise; it is the subject of `capture_layout`.

Left out: the shm mode, which only probes use; the DRM device, which is in every
batch as the size is; binding globals.

### PlasmaCapture

The session's thread (`step`) binds KWin's manager, asks for the output,
dispatches until the answer is conclusive (`Settled`), connects the PipeWire
stream and waits for the format; then the encoder, the touchscreen and the header
each read the slot (`ReadSize`), and frames follow. The pump thread's callbacks
(`ParamChanged`, `Process`, `StateError`) interleave with all of it through the
slot, the channel and the error cell. KWin's answer comes in any pieces and
versions of the protocol; formats come late, change, or cannot be parsed; the
output is removed.

It implements `FrameSource`, which KWin may void: a second size leaves the
encoder with the first one, the accessors with the second, and frames whose
stride belongs to another size; no code notices. Waiting for a frame ends, except
when the stream pauses without an error or its format cannot be parsed: then
nothing ends it (`NeverStuck` names both). Abstractions: modifiers, which the
negotiation's pods carry, are left out; KWin always answers; a stride is stood for
by the size it was computed from.

`MCSources` runs either backend: `backend` selects one in the first state, the
variables of the other stay at their initial values, and each has the fairness of
its own module only. `MCVideoStream` does the same for the two directions.

### Wire and Framing

`Wire` has each codec as the end that uses it has it: Rust encodes what Kotlin
reads and the other way round, so that the two are checked against each other.
Bytes are numbers; a timestamp is its eight bytes. A length of 2^31 or more, which
the app refuses as negative, is not written by anyone.

`Framing` is one of three streams, chosen by `side`. `Write` takes any part of the
slices at hand, `AdvanceSlices` is `write_all_vectored`; `Break` can come after any
byte. The app blocks until it has all it asked for, so that its reads are atomic;
the ack thread reads what there is up to nine bytes and keeps it over its timeout;
the tracker's timeout throws away what it has read (`TrackerTimesOut`, `torn`).
What a message means to its reader (`Means`, `Unknown`, `Ends`) is said without
bytes, and `Heard` are the places in the script of what it is to hear. The sets
`Headers`, `Videos`, `Controls`, `Acks`, `Touches`, `Others`, `Listings` are all that
the far end of a stream may write, of any length; TLC takes scripts of a few.

`Preamble` is what `run()` sends before any frame: the width and height of the
capture source (`Geometry`), then the brightness and the rotation. The source was
asked for the pair of `--width` and `--height` as it is, or else for what `wm size`
says, scaled and rounded, either of them turned (`Asked`, `StreamSize`). It need not
have taken that: labwc's output is one that exists and keeps its mode, KWin's stream
has the format it negotiates, Hyprland may ignore the rule. Then the header, the
encoder and the decoder still agree with what is captured (`Agrees`), and about the
panel nothing is claimed. Nobody rounds an odd explicit pair; whether an encoder
takes it is not modelled.

What follows a torn message of the tracker is in the model and shows why nothing
is promised then: the list is lost, its rest may be taken for a length, and the
tracker answers with timeouts, an error (for which the supervisor reconnects) or a
list that nobody sent, until a timeout falls between two messages.

### PointerGestures

The worker of `run_touch_worker` with a `PointerInput`: `Receive` is one message
through `on_touch`, `TimesOut` and `OnLongPress` the timer (two steps, as a message
may come in between), `Cancel` the end. Every handler that emits does so event
by event, and any of them may fail, which ends the handler where the code's `?`
does: `Emit` says how far it got, and what the handler assigns afterwards depends
on it. `device` is the kernel's view. The finger is external: DOWN, any MOVEs,
UP or CANCEL, as the app sends them; a MOVE of the next gesture that overtakes
(`uplink_overtake`) is not among its inputs.

`meaning` records what a gesture was taken for. Motion is any position the handlers
are told of beyond the slop of a tap, whether or not the code's `moved` latch
remembers it (`Strays`); within the slop the cursor moves with any touch, and that is
no meaning of its own. So `OneMeaning` also says that a finger which strayed and came
back neither clicks nor holds for a right click. In a drag the step that commits it is
not emitted (input.rs:490-498); `CursorFollowsFinger` is about a touch.

Worth knowing: a CANCEL is handled as an UP, so a touch that Android takes back
before it has moved is a click. A failed release is not tried again by `cancel`,
as the state is idle by then; `HeldOnlyInDrag` excepts exactly those (`lost`).

## 3. The runs

| run | shows | states |
|---|---|---|
| `sup_safety` | two tablets, two ports, a shared suffix, with and without `--once`; failures anywhere, one orphan, a signal at any time: ownership, clean exit, one session each under `--once`, both refinements | 457 000 |
| `sup_live` | one tablet, debounce of two, growing backoff, a tracker that breaks or a list that is torn: debounce, no stop without cause, taken down when unplugged, served again, exit, also of `--once` | 107 000 |
| `session` | one session on each of the three compositors: guards, threads, refinement, return when asked with the touch worker gone, idle output | 24 000 |
| `session_disconnect` | **violated**: an app that disconnects does not end the session | |
| `output` | two sessions and a monitor of the user's, any `hyprctl` failing or ignored, in part too, outputs left from before | 370 000 |
| `output_race` | **violated**: a concurrent set-up puts a finished session's mode back | |
| `sources` | either backend against `FrameSource`: sizes and formats changing twice, batches in either order and cut anywhere, frames refused; KWin's answers in pieces, two formats, errors and removal at any time | 570 000 |
| `capture_layout` | **violated**: frames in a layout the encoder was not told | |
| `pointer` | three gestures, one failing emit, two unread messages, the session ending at any time | 1 385 000 |
| `video_stream` | back: four touch events, one frame, two sessions, batches of two; forth: three frames, two sessions, two decoder inputs, a socket of two | 213 000 |
| `wire` | three streams cut anywhere, up to two frames, three replies or two lists, five panels, explicit pairs, a source with its own mode, four rotations | 421 000 |
| `uplink_overtake` | **violated**: a MOVE overtakes the UP and DOWN before it | |

Each property of a passing run has a mutant of the modelled code that breaks it
(an operator marked `mutant` just before the definition it replaces).

### What the violations say

- `session_disconnect`: the comment on `run` promises the end when the app
  disconnects. The drain thread's error is dropped with `let _ =` at its join,
  which is reached only after the capture loop, which looks at `shutdown` alone.
  With the tablet still plugged in nothing raises that.
- `output_race`: `a` creates its output; `b` saves all monitors, `a`'s with its
  default mode among them; `a` configures and is done; `b` restores `a`'s to the
  default. `applied_mode()` still says yes.
- `capture_layout`: `renegotiate` compares the geometry only. A compositor that
  stops offering a modifier makes the pool change to the next one the encoder
  can import, or to AR24, and the encoder's caps go on naming the first.
- `uplink_overtake`: the writer finds the queue empty, and before it reads the
  slot the UI thread queues UP and DOWN and puts the next gesture's MOVE into
  it. The host moves the old contact to the new place before lifting it. The
  position of the release is right all the same, since UP carries its own.

## 4. Bounds, and why they are enough

- Two tablets and two ports: every ownership property is about two sessions; a
  third adds no new kind of interference, and the proofs are for any number of
  either. A spawn may be refused at any time, so running out of ports needs no
  instance of its own.
- `Debounce`, `BackoffUnit`, `FailureCap` are small but, in `sup_live`, large
  enough that flicker restarts the debounce and the backoff grows. `FeedCap`
  lists unread: two already show a stale one followed by a newer one.
- `MaxLosses = 0` in `sup_safety`, 1 in `sup_live`: losing the tracker's connection
  or a list multiplies the states of two tablets beyond the time allowed; the
  theorems cover any number of either. After one torn list any number of garbled
  answers may follow, so that one is enough for what can be read.
- `MaxOrphans = 1` in `sup_safety`: orphans do not act; one shows that its name stays
  usable. 0 in `sup_live`, whose properties say nothing of outputs.
- `PacketCap = 2`: empty, some, full. Real: 4 access units and one frame.
- `BatchMax = 2` (3 in `uplink_overtake`): a batch must be fillable by the
  events there are; the code's 128 never would be. `MaxEvents = 4` is a gesture
  and the start of the next, `MaxSessions = 2` one reconnect.
- `MaxChanges = 2` in `sources`: the second may come before the first has been
  used. `AbsorbsOneChange` is about the ones that do not (`crowded` is false); the
  others are explored too, and there the pool may be built from a merged batch,
  or `allocate_pool` fails on half of one. `PoolSize = 3` is the daemon's.
  The format lists cover preference among allowed modifiers, the fallback to
  AR24 and nothing usable.

- `MaxFormats = 2`, `MaxQueued = 2`: a format, another one; a frame that is waited
  for and one behind it. The real channel is unbounded, but each frame is alike.
- `video_stream`, down: `NetMax = 2` holds the header and the control that come
  first and is full with two frames, `SinkMax = 1` (4 in the code) holds one back,
  two inputs are enough to reuse one while the other is decoded, three frames make
  one wait at every place, and two connections show what is left over.
- `wire`: `MaxFrameBytes = 3` stands for 8 MiB and is exceeded by a frame of four
  bytes; `SurfaceUnits = 4` makes positions that are rounded twice on their way, and
  there is one beyond each edge. The explicit pair is odd and needs no panel; the source with
  a mode of its own has neither that pair nor the panel's size. The panels are wider and narrower than `MaxWidth`,
  upright, overridden, odd, very flat, and unusable. Every cut of every script is explored.

- `pointer`: three gestures are a tap, one that may clear it, and one that must
  not become a drag. Positions 0 to 3 with a slop of 1; 3/5 pixels for a unit
  make remainders of every size and both signs. Timer and window of two ticks: before,
  at and after. `MaxFailures = 1`, as failed emits are independent.

## 5. Fairness, and why the code justifies it

- `Supervisor`: weak fairness of the main thread and the clock, and of what a live
  session thread does of itself (`SessionProceeds`): the operating system's scheduler
  runs it, and the commands and calls it makes return, well or not - all but the
  wait for the compositor. A `Repaint` is never obliged to come. The properties
  that need one say so: `Repaints(s)`, that no wait of this session lasts for ever, is
  the hypothesis of `UnplugTakesDown` and `PluggedInIsServed`, and `ShutdownCompletes`
  has it of every session. It is a hypothesis about the environment that an idle
  output refutes, so that `ShutdownCompletes` does not say that a signal always
  ends the daemon.
- Strong fairness, in `Supervisor`, of `PollUpdate` while the stream is whole (a timeout
  may come first, but a list that was sent is read in the end), of `ReconnectOk`
  (adb comes back) and of `Spawn` (the system does not refuse threads for ever).
  A stream that is torn owes nothing: `UnplugTakesDown` and `PluggedInIsServed` assume
  `InStep`, that from some point on no list is. Sessions may fail for ever.
- `Session`: weak fairness of the four threads. A call returns, well or not,
  except the two that wait for a repaint: `NextFrame` and, on KWin,
  `FormatKnown`. Nothing obliges the compositor to repaint, so `StopsWhenAsked`
  and `DisconnectEnds` assume `[]<>damage` in so many words. This is the wait
  the service unit's comment describes and gives 30 s (docs/05-daemon.md still
  says 15).
- `CaptureSession`: weak fairness of the client and of repainting: without a
  repaint a frame is waited for as long as it takes, by design. A deadline that
  passes, a failing frame or a stopped session is never obliged to happen.
- `PlasmaCapture`: weak fairness of the session's thread; KWin announces a format
  that can be read and repaints. Errors, removal and timeouts are never obliged.
- `VideoDownlink`: weak fairness of the app's session thread alone. Neither the
  decoder nor the host has to move: the socket is read regardless.
- `TouchUplink`: weak fairness of the writer and of the UI thread within an
  event. The user, the decoder and the session may stop at any time.

`CHECK_DEADLOCK FALSE` where the system really ends: the daemon has exited, the
session has returned, the user has lifted the finger and the bounds are used up.

## 6. What is proved

Every safety invariant, step property and refinement that a passing run checks is
a theorem, for every value of the constants its module allows: any number of
tablets, ports, sessions, monitors, frames, inputs, sizes, formats, touches and
gestures, any script of messages, any bound. The assumptions are the named `ASSUME`s of the modules, which
TLC evaluates on every run, and those stated in a theorem itself. Every action of a
module is in its theorems, failures and external steps included. Where a property
needs a strengthening to be inductive, it is the `IInv` of the proof module; the
runs check the properties, the theorems the same definitions.

| module | theorem | property |
|---|---|---|
| `SupervisorProofs` | `TypeCorrect` | `TypeOK` |
| | `NoOrphans` | `RegistryIsThreads` |
| | `ForwardsSafe` | `ForwardsKept` |
| | `OutputsSafe` | `OutputsOwned` |
| | `ExitsClean` | `CleanExit` |
| | `OncePerDevice` | `OneSessionEach` |
| | `SpawnsAreDebounced` | `SpawnOnlyWhenSteady` |
| | `PluggedInRunsOn` | `PluggedInIsNotStopped` |
| | `ExplicitExclusive`, `FailuresOwn` | `ExplicitNameIsExclusive`, `FailuresAreOwn` (no run) |
| | `SupervisorImplementsPool` | `PoolSpec`, a refinement |
| | `SessionsLiveAsPromised` | `LivesAsPromised`, a refinement |
| `SessionProofs` | `TypeCorrect` | `TypeOK` |
| | `NothingUnguarded` | `Guarded` |
| | `ThreadsAreScoped` | `ThreadsWithinSession` |
| | `NothingLeft` | what `Guarded` means at the end |
| | `SessionImplementsLife` | `LivesAsPromised`, a refinement |
| `VirtualOutputProofs` | `TypeCorrect` | `TypeOK` |
| | `OutputsStay` | `OutputStays` |
| | `LayoutsKept` | `LayoutKept` |
| `VideoDownlinkProofs` | `TypeCorrect`, `AcksAreMatched`, `InputsAreConserved` | as of the module alone |
| `VideoStreamProofs` | `StreamTypeCorrect` | `StreamTypeOK` |
| | `QueueStaysInOrder` | `QueueKept` |
| | `ContactIsKept` | `ContactFollowsFinger` |
| | `StreamAcksMatch` | `AcksMatch` |
| | `StreamInputsConserved` | `InputsConserved` |
| `SourcesProofs` | `SourcesTypeCorrect` | `SourcesTypeOK` |
| | `BuffersAreExclusive` | `BuffersExclusive` |
| | `OneChangeIsAbsorbed` | `AbsorbsOneChange` |
| | `SourcesKeepPromise` | `SourcesPromise`, two refinements |
| `PointerGesturesProofs` | `TypeCorrect` | `TypeOK` |
| | `ButtonsAreReleased` | `HeldOnlyInDrag` |
| | `GesturesMeanOneThing` | `OneMeaning` |
| | `FractionsAccumulate` | `CursorFollowsFinger` |
| `WireProofs` | `ReadAsWrittenHolds` | `ReadAsWritten` |
| | `ScreenFitsHolds` | `ScreenFits` |
| | `StreamKept` | `FramingInv`, what the two rest on |
| | `StreamHeaderRead`, `FrameHeaderRead`, `ListingParsed` | that what is encoded is decoded |
| | `StreamFits`, `AnnouncedFits`, `TouchLands` | the arithmetic of `ScreenFits` and `LandsAt` |

### The arguments

**Supervisor.** None of the ownership invariants is inductive alone: that a
forward is not stolen by `InstallForward` needs that no two sessions have the
same port (`LeasesDistinct`), which `Spawn` keeps because `allocate_port` looks
at the registry, which is sound because reaping takes out finished sessions only
(`RegistryIsThreads`) and those hold nothing. `IInv` is the conjunction of all
of these with `LeasesAllocated`, `ExplicitVerbatim` (an explicit name is never
rewritten) and `ExitedIsEmpty` (what `CleanExit` needs). `Inductive` is proved
by one lemma per group of actions (`Owning...`): reaping and joining, spawning,
session steps, the environment. The refinements are step simulations from `IInv`:
`Spawn` is `Acquire` and `Begin`, the last step of a thread is `Release`,
`Reap` and `JoinAll` are `Reaped`.

`OncePerDevice` is a step property: under `--once`, once armed, `Candidates` is only
ever taken from and `Spawn` takes what it starts from it. `SpawnsAreDebounced` rests
on `Choosing`: the age the loop keeps of a listed device never runs ahead of the time
it has really been there, and whatever waits in `candidates` passed the debounce in
this very iteration. `PluggedInRunsOn` rests on `Listed`: as long as a tablet is
plugged in it is in every unread list and, once it has a session, in the last list,
so that neither a lost tracker nor a late list makes it vanish. It needs that no list is
torn; the other theorems hold whatever is read.

**Session.** `Guarded` is inductive with the types alone, step by step: each stage
takes its guard with what it makes, each drop undoes both. `ThreadsWithinSession` and
the refinement need to know where in `run` each local exists: `HeldByStage`,
`ThreadsByStage` and `ResultByStage` say it for every position, early return and
teardown. The refinement mapping reads the output off its guard, which on KWin is the
source. These proofs go by conjunct rather than by action: a conjunct looks at all actions.

**VirtualOutput.** That an output stays through other sessions' restores is inductive
with the types and `SavedOwn`: an output that a session found is still there when the
session creates none for that reason. `LayoutKept` is about the moments when no output is
being made; in between, `SavedUsers` says that every session that sets up has saved the
user's monitors as they were, which is what survives overlaps, and for the outputs of
others `OneAtATime`, `SavedSessions` and `ConfiguredMode` that nobody disturbs a set-up
that has saved the modes to go back to. All are claimed as long as `mishaps` allows;
`MishapsGrow` says that it never takes one back.

**VideoDownlink.** `sent_at` is, at every moment, the acks on the socket, then what is
decoded, being decoded, read, on the socket and being sent, in that order
(`Unacked`), and beyond that only what a dead connection left (`FIFO`). So the head
popped for an ack is the frame that was acked. This holds until the app takes a frame
it will not ack, and again from the next accept on. `InputsApart` says without counting
that an input is in one place; `Conserved` turns it into the cardinalities of
`InputsConserved`. The hypothesis `Bounds` is what `MCVideoStream` assumes.

**TouchUplink.** `Ordered`: the numbers on the wire, in the batch and in the queue are
rising, one after the other, and together are exactly those not yet seen. `Follows`: the
last DOWN or UP among wire, batch and queue leaves the contact `Expected` of the finger,
and if there is none the contact is that already; `Doing` knows which part of a `sendTouch` is
still to come. `Fresh` keeps the sessions apart. `MCVideoStream` runs both directions;
its steps are steps of one and stutters of the other.

**Capture.** `TakeTurns` counts back from the buffer in turn through `given`. `Absorbed`
is the heart: while changes do not crowd, the client's constraints are either what the
compositor offers, or what has arrived of it followed by the rest on the wire, and then
no `constraints` event is ahead of the batch it is about. `Rounds` bounds the allocations by the
changes, which the type invariant needs. For KWin, `Known` (nothing is told or handed on
before a format has come) and `OneSize` (one size as long as KWin keeps to one) give the
refinement of `FrameSource`.

**PointerGestures.** Properties of the state alone are not inductive, as the next message
could be anything: `InTurn` says that the channel continues the gesture the worker is in.
`Timed` says that a timer that is due finds an unmoved touch, `Meant` what the worker's
state knows of the gesture before.

**Framing.** `FramingInv` looks at all bytes the reader has not taken at once: its
buffer, then the wire, then the slices at hand, then the text of what is not begun
(`Ahead`). Between two messages they are the text of the last n messages of the script
(`Rest`); after a header they are its payload and the text of the last n - 1 (`Synced`).
`Begin` and `Write` move bytes along without changing `Ahead`, wherever they cut, and
after a `Break` the rest of it merely stays unwritten; a reader takes one message off
its front or moves bytes into its buffer. `Told` relates n to what has been made of the
messages before: as many as there are places of `Heard` up to there, each of which means
what was written. A message that ends the connection leaves `Over`. For the tracker all
this is claimed up to the first torn message. There is one lemma for each action
(`...Keeps`).

What a reader makes of one message is a lemma of each kind, for every value of its
fields: the stream header with its five numbers, a frame with a payload of any length or
one that is too long, a control, an ack, a touch, an unknown message of nine bytes, and
a list of any number of devices, whose serials may be of any length. The last one and
`Rest` are recursive functions over a list. No theorem of the library with an operator
parameter is needed: `SetInduction`, that a set of naturals with 0 and closed under + 1
holds all of them, follows from the least element principle, and each induction is over
the set of numbers for which the claim holds.

`ReadAsWritten` follows by `CountAll`: when nothing is left to read, n is 0 or the
reader is over. TLC finds no state of `wire` outside `FramingInv` either. `ScreenFits`
needs besides what `Preamble` puts first (`Started`): the first message has the size
computed from the session's configuration, and a rotation that is heard is the
configuration's.

**Wire.** `AnnouncedFits` carries `StreamFits` through the reported and overridden sizes,
the turn of rotation and the sixteen bits of the header, for streams narrower than
65536 (`as u16` truncates beyond). `TouchLands` bounds the two roundings of a
position exactly: at most a quarter of a unit beyond the finger, less than a unit and
a quarter short of it. A plain "within a unit" is false: at position 2 of a surface of
13 units the contact lands further off.

The assumptions of `Wire` and `Framing` are what the code and its peers give.
`LimitAssumption`: a control, of two bytes, is no frame that is too big.
`ScriptAssumption`: the host's frames are shorter than 2^32; it sends a brightness of at
most a hundred (`ControlMessage::brightness` clamps it), and after the preamble no
rotation the app knows; adb's lists have a length of four hexadecimal digits, and its
serials hold neither a tab nor a line's end. `ConfigAssumption`: `--max-width` or the
panel's long side is below 65536, and `--rotation` is one of four.

### Only model-checked

- All liveness: `UnplugTakesDown`, `PluggedInIsServed`, `ShutdownCompletes`, `OnceExits`,
  `StopsWhenAsked`, `IdleOutputDrains`, `NothingBlocks`, `NextFrameReturns`. Fairness
  is `ENABLED`, which the prover does not handle.
- The four properties of the `violation` runs, of which TLC shows that they fail.

## 7. The plan

Done: the models of the supervisor, the session, the virtual output, both capture
backends behind `FrameSource`, both directions of the stream, pointer gestures, the wire
formats and their framing; and the proofs of every safety property, step property and
refinement that a run checks. What could follow: an abstract channel that one side of
`Framing` refines, and that takes the place of the socket in `VideoDownlink` and
`TouchUplink`.

**Not modelled.** Probes and test vector generators, the decoders that only they
and the tests use, scripts and the service unit: not part of the running system.
Building the GStreamer pipeline, the uinput devices, the PipeWire pods and the
Wayland and GBM objects: lists of calls into libraries without a decision that
outlives them. `kwin_associate_touchscreen` edits a file of KWin's and asks it to
reconfigure, once. Output discovery keeps no state. Argument parsing, logging,
statistics, immersive mode and the status view touch nothing that is modelled.
