---------------------------- MODULE MCVideoStream ----------------------------
(***************************************************************************)
(* The two directions of a session's socket for TLC, each on its own: they *)
(* share the connection and the app's session thread, but no queue.        *)
(***************************************************************************)
EXTENDS TouchUplink

CONSTANTS Inputs, SinkMax, NetMax, MaxFrames, MaxConnects

ASSUME DownlinkBounds ==
  /\ Inputs # {}
  /\ SinkMax \in Nat \ {0} /\ NetMax \in Nat /\ NetMax >= 2
  /\ MaxFrames \in Nat /\ MaxConnects \in Nat

VARIABLES
  direction,   \* the one that is looked at
  host, connects, made, src, sink, drain, inHand, sentAt, matched, net, acked, open, app, held,
  surface, codec, created, freeInputs, idle, decoding, outputs, lost

downVars ==
  <<host, connects, made, src, sink, drain, inHand, sentAt, matched, net, acked, open, app, held,
    surface, codec, created, freeInputs, idle, decoding, outputs, lost>>
allVars == <<direction, vars, downVars>>

Downlink == INSTANCE VideoDownlink

StreamInit == direction \in {"up", "down"} /\ Init /\ Downlink!Init

UpStep == direction = "up" /\ Next /\ UNCHANGED <<direction, downVars>>
DownStep == direction = "down" /\ Downlink!Next /\ UNCHANGED <<direction, vars>>

StreamNext == UpStep \/ DownStep

(* Each direction runs under the fairness of its own module.               *)
StreamSpec ==
  /\ StreamInit /\ [][StreamNext]_allVars
  /\ WF_vars(direction = "up" /\ OfferNext)
  /\ WF_vars(direction = "up" /\ WriterThread)
  /\ WF_downVars(direction = "down" /\ Downlink!SessionThread)

StreamTypeOK == TypeOK /\ Downlink!TypeOK

(* What goes back to the host is in order and of this session.             *)
QueueKept == InOrder /\ NothingStale

(* Round trips are those of the frames acked.                              *)
AcksMatch == Downlink!AcksMatch

(* No input of the decoder is lost or used twice.                          *)
InputsConserved == Downlink!InputsConserved

(* Neither direction waits for ever: a MOVE in the slot is taken, and what *)
(* arrived on the socket is read however slow the decoder is.              *)
NothingBlocks == MoveIsTaken /\ Downlink!FrameIsRead
============================================================================
