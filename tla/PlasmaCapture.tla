---------------------------- MODULE PlasmaCapture ----------------------------
(***************************************************************************)
(* Capturing a KWin virtual output (crates/capture/src/plasma): KWin is    *)
(* asked for the output over Wayland and answers with what names its       *)
(* PipeWire node; a stream connected to that node calls back on a thread   *)
(* of its own with formats and buffers, which reach the session's thread   *)
(* through a locked slot, a channel and an error cell.                     *)
(*                                                                         *)
(* KWin's answer may be cut between any two events.  A format is stood for *)
(* by its size, width and height; a stride by the size it was computed     *)
(* from; Unset is the zero of the slot.                                    *)
(***************************************************************************)
EXTENDS Naturals, Sequences

CONSTANTS
  Geometry,      \* sizes the output may have
  Unset,         \* zero, before the first format
  MaxFormats,    \* bound: formats that KWin announces
  MaxQueued      \* bound: frames in the channel

VARIABLES
  answers,    \* KWin's events, not dispatched yet
  known,      \* State: what of them the client has seen
  step,       \* where the session's thread is
  node,       \* PipeWire's end: "idle", "linked", "failed", "silent"
  painted,    \* the size of KWin's buffers
  formats,    \* how many it has announced (bounds ParamChanged)
  slot,       \* NegotiatedFormat
  frames,     \* the channel
  error,      \* the error cell is set
  told,       \* the sizes that the encoder, the touchscreen and the app got
  handed,     \* the frame handed to the encoder last
  resized     \* history: the size has changed since the first format

clientVars == <<known, step, told, handed>>
loopVars   == <<node, painted, formats, slot, error, resized>>
vars == <<answers, clientVars, loopVars, frames>>

NoSlot == [size |-> Unset, stride |-> Unset]

----------------------------------------------------------------------------
(* PlasmaVirtualOutput::create: bind KWin's manager and ask for the output *)
(* (KWin always answers), then dispatch until it has said something        *)
(* conclusive; on version 6 the node id may be all of it that has come.    *)
SettledBySerial ==   \* mutant: only the stable identifier counts as an answer
  {"serial", "failed", "closed"} \cap known # {}

Settled == known # {}

Goto(next) == step' = next /\ UNCHANGED <<known, told, handed>>
Fail == Goto("over") /\ UNCHANGED <<answers, loopVars, frames>>

BindFails == step = "bind" /\ Fail

Request ==
  /\ step = "bind"
  /\ Goto("settle")
  /\ answers' \in {<<"created", "serial">>, <<"serial">>, <<"created">>, <<"failed">>, <<"closed">>}
  /\ UNCHANGED <<loopVars, frames>>

Dispatch ==
  /\ step = "settle"
  /\ ~Settled
  /\ \E n \in 1 .. Len(answers) :
       /\ known' = known \cup {answers[i] : i \in 1 .. n}
       /\ answers' = SubSeq(answers, n + 1, Len(answers))
  /\ UNCHANGED <<step, told, handed, loopVars, frames>>

(* The deadline is looked at between two dispatches.                       *)
SettleTimesOut == step = "settle" /\ ~Settled /\ Fail

Refused == step = "settle" /\ {"failed", "closed"} \cap known # {} /\ Fail

Created ==
  /\ step = "settle"
  /\ Settled
  /\ {"failed", "closed"} \cap known = {}
  /\ Goto("connect")
  /\ UNCHANGED <<answers, loopVars, frames>>

(* PlasmaCapture::new: the target is the serial or else the node id, which *)
(* is another namespace; whether the session manager links the stream to   *)
(* it is seen later, from the pump thread.                                 *)
Target == IF "serial" \in known THEN "serial" ELSE "node"

Connect ==
  /\ step = "connect"
  /\ Goto("format")
  /\ node' \in IF Target = "serial" THEN {"linked"} ELSE {"linked", "failed"}
  /\ error' = (node' = "failed")
  /\ UNCHANGED <<answers, painted, formats, slot, resized, frames>>

ConnectFails == step = "connect" /\ Fail

----------------------------------------------------------------------------
(* The pump thread's callbacks.  A format that cannot be parsed leaves the *)
(* slot as it is; the stride is computed once.                             *)
Announced(size) ==
  /\ node = "linked"
  /\ formats < MaxFormats
  /\ formats' = formats + 1
  /\ painted' = size
  /\ resized' = (resized \/ (painted # Unset /\ painted # size))
  /\ UNCHANGED <<answers, clientVars, node, frames, error>>

ParamChanged(size) ==
  /\ Announced(size)
  /\ slot' = [size |-> size, stride |-> IF slot.stride = Unset THEN size ELSE slot.stride]

ParamUnreadable(size) == Announced(size) /\ UNCHANGED slot

(* process: a frame before the format is dropped.                          *)
NegotiatedAssumed ==   \* mutant: frames are sent on before the format is known
  TRUE

Negotiated == slot.size # Unset

Process ==
  /\ node = "linked"
  /\ painted # Unset
  /\ Len(frames) < MaxQueued
  /\ frames' = IF Negotiated
                 THEN Append(frames, [size |-> painted, stride |-> slot.stride])
                 ELSE frames
  /\ UNCHANGED <<answers, clientVars, loopVars>>

(* A buffer without an fd, or whose fd cannot be duplicated.               *)
ProcessFails ==
  /\ node = "linked"
  /\ painted # Unset
  /\ error' = TRUE
  /\ UNCHANGED <<answers, clientVars, node, painted, formats, slot, resized, frames>>

StateError ==
  /\ node = "linked"
  /\ node' = "failed"
  /\ error' = TRUE
  /\ UNCHANGED <<answers, clientVars, painted, formats, slot, resized, frames>>

(* The output is removed in KWin: "closed" is sent, but only poll would    *)
(* look at it, which no session calls; PipeWire reports an error (above)   *)
(* or only pauses the stream.                                              *)
OutputRemoved ==
  /\ node = "linked"
  /\ node' = "silent"
  /\ answers' = Append(answers, "closed")
  /\ UNCHANGED <<clientVars, painted, formats, slot, error, resized, frames>>

----------------------------------------------------------------------------
(* The session's thread.  wait_for_format looks at the slot, and if it is  *)
(* not filled yet waits for a frame, which it throws away.                 *)
FormatKnownSkipped ==   \* mutant: the trait's default, which does not wait
  TRUE

FormatKnown == slot.size # Unset

WaitForFormat ==
  /\ step = "format"
  /\ Goto(IF FormatKnown THEN "encoder" ELSE "first")
  /\ UNCHANGED <<answers, loopVars, frames>>

(* next_frame: the next of the channel, or, after half a second without    *)
(* one, the error if there is any.                                         *)
InNextFrame == step \in {"first", "next"}

ReceiveFrame ==
  /\ InNextFrame
  /\ frames # <<>>
  /\ frames' = Tail(frames)
  /\ step' = IF step = "first" THEN "encoder" ELSE "push"
  /\ handed' = IF step = "first" THEN handed ELSE Head(frames)
  /\ UNCHANGED <<answers, known, told, loopVars>>

SilenceEndsNothing ==   \* mutant: a dead stream only goes quiet
  FALSE

SilenceEnds == frames = <<>> /\ error

ReceiveFails == InNextFrame /\ SilenceEnds /\ Fail

(* The encoder, the touchscreen and the header of the stream are built one *)
(* after another, each from a read of the slot of its own.                 *)
After == [encoder |-> "touchscreen", touchscreen |-> "header", header |-> "next"]

ReadSize ==
  /\ step \in DOMAIN After
  /\ step' = After[step]
  /\ told' = told \cup {slot.size}
  /\ UNCHANGED <<answers, known, handed, loopVars, frames>>

(* The frame is pushed, and the loop looks at its flag.                    *)
Pushed == step = "push" /\ Goto("next") /\ UNCHANGED <<answers, loopVars, frames>>

(* The flag, or an error of the encoder or the connection; dropping the    *)
(* source stops the pump thread and removes the output.                    *)
EndSession == step \in {"touchscreen", "header", "push"} /\ Fail

Thread ==
  \/ Request \/ Dispatch \/ Refused \/ Created \/ Connect \/ WaitForFormat \/ ReceiveFrame \/ ReceiveFails
  \/ ReadSize \/ Pushed

PipeWire ==
  \/ \E size \in Geometry : ParamChanged(size) \/ ParamUnreadable(size)
  \/ Process \/ ProcessFails \/ StateError

----------------------------------------------------------------------------
Init ==
  /\ answers = <<>> /\ known = {} /\ step = "bind"
  /\ node = "idle" /\ painted = Unset /\ formats = 0 /\ slot = NoSlot
  /\ frames = <<>> /\ error = FALSE
  /\ told = {} /\ handed = NoSlot
  /\ resized = FALSE

(* After the drop the pump thread is stopped.                              *)
Next ==
  \/ Thread \/ BindFails \/ SettleTimesOut \/ ConnectFails \/ EndSession
  \/ step # "over" /\ (PipeWire \/ OutputRemoved)

Spec == Init /\ [][Next]_vars

(* The thread runs, KWin announces a format and repaints the output.       *)
Announcing == step # "over" /\ \E size \in Geometry : ParamChanged(size)
Painting == step # "over" /\ Process
FairSpec == Spec /\ WF_vars(Thread) /\ WF_vars(Announcing) /\ WF_vars(Painting)

----------------------------------------------------------------------------
TypeOK ==
  /\ known \subseteq {"created", "serial", "failed", "closed"}
  /\ step \in {"bind", "settle", "connect", "format", "first", "next", "push", "over"} \cup DOMAIN After
  /\ node \in {"idle", "linked", "failed", "silent"}
  /\ formats \in 0 .. MaxFormats
  /\ slot.size \in Geometry \cup {Unset} /\ slot.stride \in Geometry \cup {Unset}
  /\ Len(frames) <= MaxQueued
  /\ told \subseteq Geometry \cup {Unset}
  /\ error \in BOOLEAN /\ resized \in BOOLEAN

(* What the session relies on: see FrameSource.tla.  KWin voids it by      *)
(* giving the output another size; nothing in the code notices that.       *)
sourcePhase ==
  IF step = "over" THEN "over" ELSE IF resized THEN "void"
  ELSE IF told = {} THEN "opening" ELSE "open"

sourceFrame ==
  IF handed = NoSlot THEN {} ELSE {handed.size, handed.stride}

Source == INSTANCE FrameSource
  WITH Geometries <- Geometry, phase <- sourcePhase, told <- told, frame <- sourceFrame
SourceSpec == Source!Spec

(* A stream that fails says so: as long as KWin repaints, every wait for a *)
(* frame ends with one or with the error, whenever the callbacks come.     *)
(* Not so when the stream pauses without an error, or its format cannot be *)
(* read.                                                                   *)
NeverStuck == []<>(step \in {"push", "over"} \/ node = "silent" \/ (painted # Unset /\ ~Negotiated))
============================================================================
