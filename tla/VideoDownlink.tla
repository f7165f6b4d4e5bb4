---------------------------- MODULE VideoDownlink ----------------------------
(***************************************************************************)
(* The way of a frame from the capture loop to the tablet's glass and of   *)
(* its acknowledgement back: the encoder's queues (crates/encoder), the    *)
(* drain and ack threads of a session (crates/daemon/src/session.rs), the  *)
(* socket, and the app's session thread and decoder callbacks              *)
(* (android/.../VideoStream.kt).                                           *)
(*                                                                         *)
(* A frame is its number.  The writer thread that carries acks to the      *)
(* socket is in TouchUplink.tla; here an ack goes straight onto it.  No    *)
(* callback of a codec runs once the codec is released.                    *)
(***************************************************************************)
EXTENDS Naturals, Sequences, FiniteSets, SequencesExt

CONSTANTS
  Inputs,        \* the decoder's input buffers
  SinkMax,       \* max-buffers of the encoder's appsink
  NetMax,        \* messages that fit into the socket
  MaxFrames,     \* bound: frames captured
  MaxConnects    \* bound: sessions of the host

VARIABLES
  host,        \* a session of the host streams: "off", "up"
  connects,    \* bounds Connect
  made,        \* frames pushed into the encoder
  src,         \* its appsrc, which keeps one frame
  sink,        \* its appsink
  drain,       \* the drain thread
  inHand,      \* the packet it has pulled
  sentAt,      \* sent_at, each entry as the frame it was made for
  matched,     \* history: the frame last acked and the one it was timed by
  net,         \* on the socket to the app
  acked,       \* on the socket from the app
  open,        \* the app has not closed its end
  app,         \* the app's session thread
  held,        \* the frame it has read
  surface,     \* the surface is valid
  codec,       \* generation of this.codec, 0 for null
  created,     \* generations so far
  freeInputs,  \* freeInputs, as <<generation, index>>
  idle,        \* inputs that the codec has not announced
  decoding,    \* inputs queued to the codec, with their frame
  outputs,     \* decoded frames that it has not announced
  lost         \* history: the app has taken a frame it will not ack

encoderVars == <<made, src, sink>>
drainVars   == <<drain, inHand>>
timeVars    == <<sentAt, matched>>
codecVars   == <<codec, created, freeInputs, idle, decoding, outputs>>
appVars     == <<app, held, surface, lost, codecVars>>
hostVars    == <<host, connects, encoderVars, drainVars, timeVars>>
wireVars    == <<net, acked, open>>
vars == <<hostVars, wireVars, appVars>>

NoFrame == 0
NoMatch == [sent |-> NoFrame, acked |-> NoFrame]

Header   == [kind |-> "header", frame |-> NoFrame]
Control  == [kind |-> "control", frame |-> NoFrame]
Video(f) == [kind |-> "video", frame |-> f]

----------------------------------------------------------------------------
(* The host.  A session connects while the app listens; the header and the *)
(* two controls go ahead of any frame, and only frames are timed.          *)
TimesControls ==   \* mutant: controls are timed like frames
  <<NoFrame>>

TimesAtConnect == <<>>

Connect ==
  /\ host = "off" /\ app = "accept" /\ ~open
  /\ connects < MaxConnects
  /\ host' = "up" /\ connects' = connects + 1
  /\ src' = NoFrame /\ sink' = <<>>
  /\ drain' = "pull" /\ inHand' = NoFrame
  /\ sentAt' = TimesAtConnect /\ matched' = NoMatch
  /\ net' = <<Header, Control>> /\ acked' = <<>> /\ open' = TRUE
  /\ UNCHANGED <<made, appVars>>

(* push_frame: appsrc keeps the latest and drops the one before.           *)
PushFrame ==
  /\ host = "up"
  /\ made < MaxFrames
  /\ made' = made + 1
  /\ src' = made + 1
  /\ UNCHANGED <<host, connects, sink, drainVars, timeVars, wireVars, appVars>>

(* The pipeline, which waits while the appsink is full.                    *)
Encode ==
  /\ src # NoFrame
  /\ Len(sink) < SinkMax
  /\ sink' = Append(sink, src) /\ src' = NoFrame
  /\ UNCHANGED <<host, connects, made, drainVars, timeVars, wireVars, appVars>>

(* The drain thread: pull, time, send.                                     *)
AfterUntimed ==   \* mutant: a frame is timed after it was sent
  [pull |-> "send", send |-> "stamp", stamp |-> "pull"]

After == [pull |-> "stamp", stamp |-> "send", send |-> "pull"]

Pull ==
  /\ drain = "pull"
  /\ sink # <<>>
  /\ inHand' = Head(sink) /\ sink' = Tail(sink)
  /\ drain' = After["pull"]
  /\ UNCHANGED <<host, connects, made, src, timeVars, wireVars, appVars>>

Stamp ==
  /\ drain = "stamp"
  /\ drain' = After["stamp"]
  /\ sentAt' = Append(sentAt, inHand)
  /\ UNCHANGED <<host, connects, encoderVars, inHand, matched, wireVars, appVars>>

Send ==
  /\ drain = "send"
  /\ open /\ Len(net) < NetMax
  /\ drain' = After["send"]
  /\ net' = Append(net, Video(inHand))
  /\ UNCHANGED <<host, connects, encoderVars, inHand, timeVars, acked, open, appVars>>

(* A broken connection, or five seconds without room for a byte; the       *)
(* pipeline's error, which pull_packet finds when there is no packet.      *)
DrainEnds ==
  /\ \/ drain = "send" /\ (~open \/ Len(net) = NetMax)
     \/ drain = "pull" /\ sink = <<>>
  /\ drain' = "dead"
  /\ UNCHANGED <<host, connects, encoderVars, inHand, timeVars, wireVars, appVars>>

(* The ack thread: the oldest time goes with the next ack.                 *)
ReadAck ==
  /\ host = "up"
  /\ acked # <<>>
  /\ acked' = Tail(acked)
  /\ IF sentAt = <<>> THEN UNCHANGED timeVars
     ELSE sentAt' = Tail(sentAt) /\ matched' = [sent |-> Head(sentAt), acked |-> Head(acked)]
  /\ UNCHANGED <<host, connects, encoderVars, drainVars, net, open, appVars>>

(* The session ends; what it sent can still be read, then comes the end.   *)
HostEnds ==
  /\ host = "up"
  /\ host' = "off"
  /\ drain' = "dead" /\ src' = NoFrame /\ sink' = <<>>
  /\ UNCHANGED <<connects, made, inHand, timeVars, wireVars, appVars>>

----------------------------------------------------------------------------
(* The app's thread: acceptLoop and session.                               *)
OtherThanApp == UNCHANGED <<hostVars, acked>>

(* A socket name that is still taken is tried again every half second.     *)
Listen ==
  /\ app = "bind"
  /\ app' = "accept"
  /\ UNCHANGED <<net, open, held, surface, lost, codecVars>>
  /\ OtherThanApp

Accept ==
  /\ app = "accept"
  /\ open
  /\ app' = "header" /\ lost' = FALSE
  /\ UNCHANGED <<net, open, held, surface, codecVars>>
  /\ OtherThanApp

ReadHeader ==
  /\ app = "header"
  /\ net # <<>>
  /\ net' = Tail(net)
  /\ app' = "surface"
  /\ UNCHANGED <<open, held, surface, lost, codecVars>>
  /\ OtherThanApp

(* awaitSurface; a new decoder, all of whose inputs are its own, while the *)
(* indices of the one before it are forgotten.                             *)
KeepsInputs == freeInputs   \* mutant: freeInputs is not cleared

KeptInputs == <<>>

StartCodec ==
  /\ app = "surface"
  /\ surface
  /\ freeInputs' = KeptInputs
  /\ created' = created + 1 /\ codec' = created + 1
  /\ idle' = Inputs /\ decoding' = <<>> /\ outputs' = <<>>
  /\ app' = "read"
  /\ UNCHANGED <<net, open, held, surface, lost>>
  /\ OtherThanApp

(* Frames are read in turn; a control is applied and never decoded.        *)
ReadControl ==
  /\ app = "read"
  /\ net # <<>> /\ Head(net).kind = "control"
  /\ net' = Tail(net)
  /\ UNCHANGED <<app, open, held, surface, lost, codecVars>>
  /\ OtherThanApp

ReadFrame ==
  /\ app = "read"
  /\ net # <<>> /\ Head(net).kind = "video"
  /\ held' = Head(net).frame /\ net' = Tail(net)
  /\ app' = "input"
  /\ UNCHANGED <<open, surface, lost, codecVars>>
  /\ OtherThanApp

(* freeInputs.poll(2 s), then queueInputBuffer.                            *)
QueueInput ==
  /\ app = "input"
  /\ freeInputs # <<>>
  /\ decoding' = Append(decoding, [input |-> Head(freeInputs)[2], frame |-> held])
  /\ freeInputs' = Tail(freeInputs)
  /\ app' = "read" /\ held' = NoFrame
  /\ UNCHANGED <<net, open, surface, lost, codec, created, idle, outputs>>
  /\ OtherThanApp

StarvedNever == FALSE   \* mutant: waits for the decoder for as long as it takes

StarvedNow == freeInputs = <<>>

Starved ==
  /\ app = "input"
  /\ StarvedNow
  /\ app' = "read" /\ held' = NoFrame
  /\ lost' = TRUE
  /\ UNCHANGED <<net, open, surface, codecVars>>
  /\ OtherThanApp

(* The connection ends, a header is refused, there is no surface for five  *)
(* seconds, or the codec throws: the codec is released, the socket closed. *)
Close(next) ==
  /\ app' = next /\ held' = NoFrame
  /\ codec' = 0 /\ idle' = {} /\ decoding' = <<>> /\ outputs' = <<>>
  /\ net' = <<>> /\ open' = FALSE
  /\ UNCHANGED <<surface, lost, created, freeInputs>>
  /\ OtherThanApp

Streaming == app \in {"read", "input"}

EndOfStream == app \in {"header", "read"} /\ host = "off" /\ net = <<>> /\ Close("accept")
NoSurface == app = "surface" /\ ~surface /\ Close("accept")
SessionFails == (Streaming \/ app \in {"header", "surface"}) /\ Close("accept")

SessionThread ==
  \/ Listen \/ Accept \/ ReadHeader \/ StartCodec \/ ReadControl \/ ReadFrame \/ QueueInput
  \/ Starved \/ EndOfStream \/ NoSurface

(* stop, when the activity is destroyed, and start of the next one.        *)
Stop ==
  /\ app # "stopped"
  /\ Close("stopped")

Start ==
  /\ app = "stopped"
  /\ app' = "bind"
  /\ freeInputs' = <<>>
  /\ UNCHANGED <<net, open, held, surface, lost, codec, created, idle, decoding, outputs>>
  /\ OtherThanApp

----------------------------------------------------------------------------
(* The decoder's callbacks, on the UI thread, and the decoder.             *)
OnInputBufferAvailable ==
  /\ \E i \in idle : freeInputs' = Append(freeInputs, <<codec, i>>) /\ idle' = idle \ {i}
  /\ UNCHANGED <<hostVars, wireVars, app, held, surface, lost, codec, created, decoding, outputs>>

Decode ==
  /\ decoding # <<>>
  /\ outputs' = Append(outputs, Head(decoding).frame)
  /\ idle' = idle \cup {Head(decoding).input}
  /\ decoding' = Tail(decoding)
  /\ UNCHANGED <<hostVars, wireVars, app, held, surface, lost, codec, created, freeInputs>>

(* An ack for a frame that is rendered, none for one that cannot be.       *)
OnOutputBufferAvailable ==
  /\ outputs # <<>>
  /\ outputs' = Tail(outputs)
  /\ acked' = IF surface THEN Append(acked, Head(outputs)) ELSE acked
  /\ lost' = (lost \/ ~surface)
  /\ UNCHANGED <<hostVars, net, open, app, held, surface, codec, created, freeInputs, idle, decoding>>

(* surfaceCreated and surfaceDestroyed.                                    *)
SetSurface ==
  /\ surface' = ~surface
  /\ UNCHANGED <<hostVars, wireVars, app, held, lost, codecVars>>

----------------------------------------------------------------------------
Init ==
  /\ host = "off" /\ connects = 0 /\ made = 0 /\ src = NoFrame /\ sink = <<>>
  /\ drain = "dead" /\ inHand = NoFrame /\ sentAt = <<>> /\ matched = NoMatch
  /\ net = <<>> /\ acked = <<>> /\ open = FALSE
  /\ app = "bind" /\ held = NoFrame /\ surface = FALSE /\ lost = FALSE
  /\ codec = 0 /\ created = 0 /\ freeInputs = <<>> /\ idle = {}
  /\ decoding = <<>> /\ outputs = <<>>

Next ==
  \/ Connect \/ PushFrame \/ Encode \/ Pull \/ Stamp \/ Send \/ DrainEnds \/ ReadAck \/ HostEnds
  \/ SessionThread \/ SessionFails \/ Stop \/ Start
  \/ OnInputBufferAvailable \/ Decode \/ OnOutputBufferAvailable \/ SetSurface

Spec == Init /\ [][Next]_vars

(* The app's thread runs; the decoder may be stuck.                        *)
FairSpec == Spec /\ WF_vars(SessionThread)

----------------------------------------------------------------------------
Frames == 1 .. MaxFrames

TypeOK ==
  /\ host \in {"off", "up"} /\ connects \in 0 .. MaxConnects /\ made \in 0 .. MaxFrames
  /\ src \in 0 .. made /\ Len(sink) <= SinkMax
  /\ drain \in {"pull", "stamp", "send", "dead"}
  /\ Range(net) \subseteq {Header, Control} \cup {Video(f) : f \in Frames}
  /\ app \in {"bind", "accept", "header", "surface", "read", "input", "stopped"}
  /\ held \in 0 .. made /\ codec \in 0 .. created /\ created \in 0 .. MaxConnects
  /\ idle \subseteq Inputs

(* A round trip is the time of the frame that was acked: matching acks     *)
(* with sent times in order is exact ("FIFO matching is exact",            *)
(* session.rs:365), as long as the app has acked every frame it took.      *)
AcksMatch == lost \/ matched.sent = matched.acked

(* Each input of the decoder is with the decoder, free, or carries a       *)
(* frame, and only one of these: none leaks, which would starve the        *)
(* decoder in the end, and the session never uses one that belongs to the  *)
(* decoder of an earlier session.                                          *)
InputsConserved ==
  codec # 0 =>
    /\ \A k \in DOMAIN freeInputs : freeInputs[k][1] = codec
    /\ \A i \in Inputs :
         Cardinality({k \in DOMAIN freeInputs : freeInputs[k][2] = i})
           + Cardinality({k \in DOMAIN decoding : decoding[k].input = i})
           + (IF i \in idle THEN 1 ELSE 0) = 1

(* What the host sends is read off the socket, whatever the decoder does:  *)
(* a decoder that is stuck costs frames, not the connection.               *)
FrameIsRead ==
  \A f \in Frames :
    (Streaming /\ Video(f) \in Range(net)) ~> ~(Streaming /\ Video(f) \in Range(net))
============================================================================
