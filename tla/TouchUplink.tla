----------------------------- MODULE TouchUplink ----------------------------
(***************************************************************************)
(* The tablet's way back to the host: touches and acknowledgements of one  *)
(* VideoStream (android/.../VideoStream.kt), through its queue, its slot   *)
(* for the latest MOVE and its writer thread, to the contact of the host's *)
(* virtual touchscreen (crates/daemon/src/input.rs, Touchscreen).          *)
(*                                                                         *)
(* The UI thread, the writer thread, the session thread and the decoder's  *)
(* callback share pendingOutbound and pendingMove without a lock, so every *)
(* operation on either is a step of its own.  A position is represented by *)
(* the gesture it belongs to; UP stands for UP and CANCEL, which take the  *)
(* same path at both ends.                                                 *)
(***************************************************************************)
EXTENDS Naturals, Sequences, SequencesExt

CONSTANTS
  BatchMax,      \* BATCH_MAX_MESSAGES
  MaxEvents,     \* bound: touch events of the UI
  MaxAcks,       \* bound: frames rendered
  MaxSessions    \* bound: sessions accepted

ASSUME UplinkBounds ==
  /\ BatchMax \in Nat \ {0}
  /\ MaxEvents \in Nat
  /\ MaxAcks \in Nat
  /\ MaxSessions \in Nat

VARIABLES
  session,          \* the app's session thread
  epoch,            \* sessions that have cleared the queue
  pendingOutbound,  \* the queue
  pendingMove,      \* the slot, NoMove for null
  offered,          \* messages queued since the queue was cleared
  ui,               \* what is left of the sendTouch the UI thread is in
  finger,           \* the gesture of the finger on the glass, 0 for none
  fingerEpoch,      \* the epoch its DOWN was queued in
  gestures,         \* gestures so far
  events,           \* bounds the UI thread
  acks,             \* bounds the decoder
  writer,           \* the writer thread
  interrupted,      \* its interrupt flag
  batch,            \* what it is about to write
  wire,             \* written and not handled by the host
  seen,             \* queued messages the host has handled in this session
  contact           \* the gesture the host's contact was opened by, 0 for none

uiVars      == <<ui, finger, fingerEpoch, gestures, events>>
sharedVars  == <<pendingOutbound, pendingMove, offered>>
writerVars  == <<writer, interrupted, batch>>
hostVars    == <<wire, seen, contact>>
vars == <<session, epoch, sharedVars, uiVars, acks, writerVars, hostVars>>

NoMove == [kind |-> "none", g |-> 0, e |-> 0, n |-> 0]

(* A message carries its gesture, the epoch it was handed over in and its  *)
(* number in the queue (0 for what never was in it).                       *)
Touch(kind, g, n) == [kind |-> kind, g |-> g, e |-> epoch, n |-> n]
Wake == [kind |-> "WAKE", g |-> 0, e |-> 0, n |-> 0]

Offer(kind, g) ==
  /\ pendingOutbound' = Append(pendingOutbound, Touch(kind, g, offered + 1))
  /\ offered' = offered + 1

----------------------------------------------------------------------------
(* sendTouch, on the UI thread.  Only `running` guards it, so touches are  *)
(* also queued while there is no session.                                  *)
OtherThanUI == UNCHANGED <<session, epoch, acks, writerVars, hostVars>>

StartEvent(next) ==
  /\ ui = <<>>
  /\ events < MaxEvents
  /\ events' = events + 1
  /\ ui' = next
  /\ OtherThanUI

(* MOVE: replace the slot; nudge the writer if the slot was empty.         *)
MoveNoNudge ==   \* mutant: relies on the writer's poll timeout
  /\ finger # 0
  /\ StartEvent(<<>>)
  /\ pendingMove' = Touch("MOVE", finger, 0)
  /\ UNCHANGED <<pendingOutbound, offered, finger, fingerEpoch, gestures>>

Move ==
  /\ finger # 0
  /\ StartEvent(IF pendingMove = NoMove THEN <<"WAKE">> ELSE <<>>)
  /\ pendingMove' = Touch("MOVE", finger, 0)
  /\ UNCHANGED <<pendingOutbound, offered, finger, fingerEpoch, gestures>>

(* DOWN: drop the slot, then queue.                                        *)
Down ==
  /\ finger = 0
  /\ StartEvent(<<"DOWN">>)
  /\ pendingMove' = NoMove
  /\ gestures' = gestures + 1
  /\ finger' = gestures + 1
  /\ UNCHANGED <<pendingOutbound, offered, fingerEpoch>>

(* UP: take the slot, queue what was in it, then queue the UP.             *)
Up ==
  /\ finger # 0
  /\ StartEvent(IF pendingMove = NoMove THEN <<"UP">> ELSE <<"MOVE", "UP">>)
  /\ pendingMove' = NoMove
  /\ UNCHANGED <<pendingOutbound, offered, finger, fingerEpoch, gestures>>

OfferNext ==
  /\ ui # <<>>
  /\ ui' = Tail(ui)
  /\ IF Head(ui) = "WAKE"
     THEN pendingOutbound' = Append(pendingOutbound, Wake) /\ UNCHANGED offered
     ELSE Offer(Head(ui), finger)
  /\ fingerEpoch' = IF Head(ui) = "DOWN" THEN epoch ELSE fingerEpoch
  /\ finger' = IF Head(ui) = "UP" THEN 0 ELSE finger
  /\ UNCHANGED <<pendingMove, gestures, events>>
  /\ OtherThanUI

UIThread == Move \/ Down \/ Up \/ OfferNext

(* onOutputBufferAvailable: an ack for every frame rendered.               *)
Ack ==
  /\ session = "up"
  /\ acks < MaxAcks
  /\ acks' = acks + 1
  /\ Offer("ACK", 0)
  /\ UNCHANGED <<session, epoch, pendingMove, uiVars, writerVars, hostVars>>

----------------------------------------------------------------------------
(* The writer thread.                                                      *)
OtherThanWriter == UNCHANGED <<session, epoch, offered, uiVars, acks, seen, contact>>

AppendOrSkip(buf, m) == IF m.kind = "WAKE" THEN buf ELSE Append(buf, m)

(* poll(500 ms), which throws when interrupted.                            *)
PollFirst ==
  /\ writer = "poll"
  /\ ~interrupted
  /\ pendingOutbound # <<>>
  /\ batch' = AppendOrSkip(<<>>, Head(pendingOutbound))
  /\ pendingOutbound' = Tail(pendingOutbound)
  /\ writer' = "drain"
  /\ UNCHANGED <<pendingMove, interrupted, wire>>
  /\ OtherThanWriter

DrainNextUnbounded ==   \* mutant: polls first, then finds there is no room
  /\ writer = "drain"
  /\ pendingOutbound # <<>>
  /\ batch' = IF Len(batch) < BatchMax THEN AppendOrSkip(batch, Head(pendingOutbound)) ELSE batch
  /\ pendingOutbound' = Tail(pendingOutbound)
  /\ UNCHANGED <<pendingMove, writer, interrupted, wire>>
  /\ OtherThanWriter

DrainNext ==
  /\ writer = "drain"
  /\ Len(batch) < BatchMax
  /\ pendingOutbound # <<>>
  /\ batch' = AppendOrSkip(batch, Head(pendingOutbound))
  /\ pendingOutbound' = Tail(pendingOutbound)
  /\ UNCHANGED <<pendingMove, writer, interrupted, wire>>
  /\ OtherThanWriter

Drained ==
  /\ writer = "drain"
  /\ Len(batch) = BatchMax \/ pendingOutbound = <<>>
  /\ writer' = "slot"
  /\ UNCHANGED <<pendingOutbound, pendingMove, interrupted, batch, wire>>
  /\ OtherThanWriter

TakeMoveUnchecked ==   \* mutant: the MOVE goes into a full batch as well
  /\ writer = "slot"
  /\ pendingMove' = NoMove
  /\ batch' = IF pendingMove # NoMove THEN Append(batch, pendingMove) ELSE batch
  /\ writer' = "write"
  /\ UNCHANGED <<pendingOutbound, interrupted, wire>>
  /\ OtherThanWriter

(* The slot is emptied even when the batch has no room for the MOVE.       *)
TakeMove ==
  /\ writer = "slot"
  /\ pendingMove' = NoMove
  /\ batch' = IF pendingMove # NoMove /\ Len(batch) < BatchMax
              THEN Append(batch, pendingMove) ELSE batch
  /\ writer' = "write"
  /\ UNCHANGED <<pendingOutbound, interrupted, wire>>
  /\ OtherThanWriter

Write ==
  /\ writer = "write"
  /\ wire' = wire \o batch
  /\ batch' = <<>>
  /\ writer' = "poll"
  /\ UNCHANGED <<pendingOutbound, pendingMove, interrupted>>
  /\ OtherThanWriter

(* A broken connection takes any number of whole messages of the batch;    *)
(* the exception ends the thread, and only the thread.                     *)
WriteFails ==
  /\ writer = "write"
  /\ \E k \in 0 .. Len(batch) : wire' = wire \o SubSeq(batch, 1, k)
  /\ batch' = <<>>
  /\ writer' = "dead"
  /\ UNCHANGED <<pendingOutbound, pendingMove, interrupted>>
  /\ OtherThanWriter

Interrupted ==
  /\ writer = "poll"
  /\ interrupted
  /\ writer' = "dead"
  /\ UNCHANGED <<pendingOutbound, pendingMove, interrupted, batch, wire>>
  /\ OtherThanWriter

WriterThread ==
  PollFirst \/ DrainNext \/ Drained \/ TakeMove \/ Write \/ Interrupted

----------------------------------------------------------------------------
(* The session thread.                                                     *)
OtherThanSession == UNCHANGED <<uiVars, acks>>

(* A new connection is a new session of the host, with a new touchscreen.  *)
AcceptKeepingContact ==   \* mutant: the host's contact outlives its session
  /\ session = "idle"
  /\ epoch < MaxSessions
  /\ session' = "accepted"
  /\ wire' = <<>> /\ seen' = 0 /\ UNCHANGED contact
  /\ UNCHANGED <<epoch, sharedVars, writerVars>>
  /\ OtherThanSession

Accept ==
  /\ session = "idle"
  /\ epoch < MaxSessions
  /\ session' = "accepted"
  /\ wire' = <<>> /\ seen' = 0 /\ contact' = 0
  /\ UNCHANGED <<epoch, sharedVars, writerVars>>
  /\ OtherThanSession

(* pendingOutbound.clear(), then pendingMove.set(null).                    *)
ClearQueue ==
  /\ session = "accepted"
  /\ session' = "cleared"
  /\ epoch' = epoch + 1
  /\ pendingOutbound' = <<>>
  /\ offered' = 0
  /\ UNCHANGED <<pendingMove, writerVars, hostVars>>
  /\ OtherThanSession

ClearMoveForgotten ==   \* mutant: a MOVE left in the slot survives into the next session
  /\ session = "cleared"
  /\ session' = "ready"
  /\ UNCHANGED <<epoch, sharedVars, writerVars, hostVars>>
  /\ OtherThanSession

ClearMove ==
  /\ session = "cleared"
  /\ session' = "ready"
  /\ pendingMove' = NoMove
  /\ UNCHANGED <<epoch, pendingOutbound, offered, writerVars, hostVars>>
  /\ OtherThanSession

StartWriter ==
  /\ session = "ready"
  /\ session' = "up"
  /\ writer' = "poll" /\ interrupted' = FALSE
  /\ UNCHANGED <<epoch, sharedVars, batch, hostVars>>
  /\ OtherThanSession

(* No valid surface, or the codec refuses its configuration.               *)
SetupFails ==
  /\ session \in {"accepted", "ready"}
  /\ session' = "idle"
  /\ UNCHANGED <<epoch, sharedVars, writerVars, hostVars>>
  /\ OtherThanSession

(* The host closes the connection, or a malformed frame ends the session.  *)
End ==
  /\ session = "up"
  /\ session' = "closing"
  /\ interrupted' = TRUE
  /\ UNCHANGED <<epoch, sharedVars, writer, batch, hostVars>>
  /\ OtherThanSession

(* join(1000): the writer is over, or stuck in a write to a socket that is *)
(* closed next, which ends it without another look at the queue.           *)
Join ==
  /\ session = "closing"
  /\ writer \in {"dead", "write"}
  /\ session' = "idle"
  /\ writer' = "dead" /\ batch' = <<>>
  /\ UNCHANGED <<epoch, sharedVars, interrupted, hostVars>>
  /\ OtherThanSession

SessionThread == Accept \/ ClearQueue \/ ClearMove \/ StartWriter \/ SetupFails \/ End \/ Join

----------------------------------------------------------------------------
(* The host: the ack thread, and Touchscreen::send on the touch worker.    *)
Handle(m) ==
  CASE m.kind = "DOWN" -> m.g
    [] m.kind = "UP" -> 0
    [] OTHER -> contact

HostRead ==
  /\ wire # <<>>
  /\ wire' = Tail(wire)
  /\ contact' = Handle(Head(wire))
  /\ seen' = IF Head(wire).n = 0 THEN seen ELSE Head(wire).n
  /\ UNCHANGED <<session, epoch, sharedVars, uiVars, acks, writerVars>>

----------------------------------------------------------------------------
Init ==
  /\ session = "idle" /\ epoch = 0
  /\ pendingOutbound = <<>> /\ pendingMove = NoMove /\ offered = 0
  /\ ui = <<>> /\ finger = 0 /\ fingerEpoch = 0 /\ gestures = 0 /\ events = 0 /\ acks = 0
  /\ writer = "dead" /\ interrupted = FALSE /\ batch = <<>>
  /\ wire = <<>> /\ seen = 0 /\ contact = 0

Next == UIThread \/ Ack \/ WriterThread \/ WriteFails \/ SessionThread \/ HostRead

Spec == Init /\ [][Next]_vars

(* The UI thread finishes the event it is in, and the writer runs.         *)
FairSpec == Spec /\ WF_vars(OfferNext) /\ WF_vars(WriterThread)

----------------------------------------------------------------------------
Messages ==
  [kind : {"none", "WAKE", "ACK", "DOWN", "MOVE", "UP"}, g : Nat, e : Nat, n : Nat]

TypeOK ==
  /\ session \in {"idle", "accepted", "cleared", "ready", "up", "closing"}
  /\ epoch \in 0 .. MaxSessions
  /\ pendingOutbound \in Seq(Messages)
  /\ pendingMove \in Messages
  /\ offered \in Nat
  /\ ui \in Seq({"WAKE", "DOWN", "MOVE", "UP"})
  /\ finger \in 0 .. gestures
  /\ fingerEpoch \in 0 .. epoch
  /\ gestures \in 0 .. events
  /\ events \in 0 .. MaxEvents
  /\ acks \in 0 .. MaxAcks
  /\ writer \in {"poll", "drain", "slot", "write", "dead"}
  /\ interrupted \in BOOLEAN
  /\ batch \in Seq(Messages) /\ Len(batch) <= BatchMax
  /\ wire \in Seq(Messages)
  /\ seen \in 0 .. offered
  /\ contact \in 0 .. gestures

(* A MOVE left in the slot is taken, unless the connection goes: it has a   *)
(* nudge on its way to the writer, or the writer on its way to the slot,   *)
(* whose poll timeout does not look there.                                 *)
MoveIsTaken ==
  (session = "up" /\ pendingMove # NoMove)
    ~> (pendingMove = NoMove \/ session # "up" \/ writer = "dead")

(* DOWN, UP and acks reach the host in the order they were queued, each    *)
(* exactly once, whatever the batches ("their order relative to each other *)
(* is the whole gesture").                                                 *)
InOrder ==
  (session = "up" /\ writer # "dead") =>
    LET ahead == wire \o batch \o pendingOutbound
    IN  /\ \A i, j \in DOMAIN ahead :
             i < j /\ ahead[i].n > 0 /\ ahead[j].n > 0 => ahead[i].n < ahead[j].n
        /\ {ahead[i].n : i \in DOMAIN ahead} \ {0} = (seen + 1) .. offered

(* Nothing handed over before a session cleared the queue and the slot is  *)
(* ever written to its connection.                                         *)
NothingStale == \A m \in Range(wire) \cup Range(batch) : session = "up" => m.e = epoch

(* When all is handled the host has a contact exactly if the finger whose  *)
(* DOWN belongs to this session is still on the glass.                     *)
ContactFollowsFinger ==
  (session = "up" /\ writer = "poll" /\ ui = <<>> /\ pendingOutbound = <<>> /\ wire = <<>>) =>
    contact = IF finger # 0 /\ fingerEpoch = epoch THEN finger ELSE 0

(* "This is safe to do *after* the queue drain because `sendTouch` clears  *)
(* this slot before enqueuing a DOWN/UP/CANCEL, so anything left here      *)
(* logically follows everything the queue just produced"                   *)
(* (VideoStream.kt:417): the host never applies a MOVE to the contact of   *)
(* another gesture.                                                        *)
MoveInOwnGesture ==
  \A i \in DOMAIN wire :
    (i = 1 /\ wire[i].kind = "MOVE" /\ contact # 0) => wire[i].g = contact
============================================================================
