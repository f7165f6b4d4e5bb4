--------------------------- MODULE CaptureSession ---------------------------
(***************************************************************************)
(* Capturing an output through ext-image-copy-capture (crates/capture/src/ *)
(* session.rs).  The compositor advertises the buffers it can write to,    *)
(* a size and the formats with their modifiers, as a batch of events that  *)
(* ends with "done", and again whenever that changes.  Capture allocates a *)
(* pool from them, asks for one frame at a time, and when the compositor   *)
(* refuses a buffer allocates a new pool and tries once more.              *)
(*                                                                         *)
(* Events reach the client's State only while it dispatches, which it does *)
(* only while it waits; a batch may be cut anywhere between two of these.  *)
(* The DRM device is taken to travel with the size, as every batch has     *)
(* exactly one of each.                                                    *)
(***************************************************************************)
EXTENDS Naturals, Sequences, SequencesExt

CONSTANTS
  Sizes,        \* sizes an output may have
  Offers,       \* format lists a compositor may send: sequences of entries
  Allowed,      \* allowed_modifiers, in order of preference
  PoolSize,     \* buffers in the pool
  MaxChanges,   \* bound: changes of the constraints
  None          \* no value yet

ASSUME PoolSizeAssumption == PoolSize \in Nat \ {0}
ASSUME MaxChangesAssumption == MaxChanges \in Nat
ASSUME OffersAssumption == \A o \in Offers : o \in Seq(Range(o))

VARIABLES
  offered,     \* the compositor's constraints
  request,     \* the frame it has been asked for, None for none
  alive,       \* it has not stopped the session
  changes,     \* bounds Change
  wire,        \* its events, not dispatched yet
  state,       \* the client's State
  pc,          \* where the client is
  retried,     \* this is capture_frame's second attempt
  pool,        \* what the buffers are and how often they were allocated
  nextBuffer,  \* next_buffer
  index,       \* the buffer of the frame captured last
  encoder,     \* what the encoder was built for
  given,       \* history: the frames handed to the encoder, latest PoolSize
  reason,      \* why capturing ended
  crowded      \* history: constraints changed before the last change was used

compositorVars == <<offered, request, alive, changes>>
poolVars == <<pool, nextBuffer, index, encoder>>
vars == <<compositorVars, wire, state, pc, retried, poolVars, given, reason, crowded>>

----------------------------------------------------------------------------
(* pick_dmabuf_format: XR24, or else AR24, if the first entry for it in    *)
(* the list has a modifier allowed; of these the most preferred, or the    *)
(* one GBM chooses if there is no preference.                              *)
OfferedFor(fourcc, offers) ==
  UNION {offers[i].mods : i \in {i \in DOMAIN offers :
           offers[i].fourcc = fourcc /\ \A j \in 1 .. i - 1 : offers[j].fourcc # fourcc}}

Acceptable(mods) ==
  IF Allowed = <<>> THEN mods
  ELSE {Allowed[i] : i \in {i \in DOMAIN Allowed :
          Allowed[i] \in mods /\ \A j \in 1 .. i - 1 : Allowed[j] \notin mods}}

Layouts(offers) ==
  {l \in [fourcc : {"XR24", "AR24"}, mod : UNION {e.mods : e \in Range(offers)}] :
     /\ l.mod \in Acceptable(OfferedFor(l.fourcc, offers))
     /\ l.fourcc # "XR24" => Acceptable(OfferedFor("XR24", offers)) = {}}

(* The compositor can write to such a buffer.                              *)
Fits(buffer, constraints) ==
  /\ buffer.size = constraints.size
  /\ \E e \in Range(constraints.formats) :
       e.fourcc = buffer.layout.fourcc /\ buffer.layout.mod \in e.mods

----------------------------------------------------------------------------
(* The client's State and the events that change it.                       *)
NoCaps == [size |-> None, formats |-> <<>>]

Fresh ==
  [caps |-> NoCaps, done |-> FALSE, consumed |-> FALSE, stopped |-> FALSE, frame |-> "none"]

(* The first constraint event after a pool was built begins a generation.  *)
BeginGeneration(st) ==
  IF st.consumed THEN [st EXCEPT !.caps = NoCaps, !.consumed = FALSE, !.done = FALSE] ELSE st

ApplyKeyedOnSize(st, e) ==   \* mutant: only buffer_size begins a generation
  CASE e.kind = "size" -> [BeginGeneration(st) EXCEPT !.caps.size = e.size]
    [] e.kind = "format" -> [st EXCEPT !.caps.formats = Append(@, e.entry)]
    [] e.kind = "done" -> [st EXCEPT !.done = TRUE]
    [] e.kind = "stopped" -> [st EXCEPT !.stopped = TRUE]
    [] OTHER -> [st EXCEPT !.frame = e.kind]

Apply(st, e) ==
  CASE e.kind = "size" -> [BeginGeneration(st) EXCEPT !.caps.size = e.size]
    [] e.kind = "format" -> [BeginGeneration(st) EXCEPT !.caps.formats = Append(@, e.entry)]
    [] e.kind = "done" -> [st EXCEPT !.done = TRUE]
    [] e.kind = "stopped" -> [st EXCEPT !.stopped = TRUE]
    [] OTHER -> [st EXCEPT !.frame = e.kind]

(* Events of the compositor; the order within a batch is its own.          *)
SizeEvent(size) == [kind |-> "size", size |-> size]
FormatEvents(formats) == [i \in DOMAIN formats |-> [kind |-> "format", entry |-> formats[i]]]
Event(kind) == [kind |-> kind]

Batches(c) ==
  {<<SizeEvent(c.size)>> \o FormatEvents(c.formats) \o <<Event("done")>>,
   FormatEvents(c.formats) \o <<SizeEvent(c.size), Event("done")>>}

IsConstraint(e) == e.kind \in {"size", "format", "done"}

----------------------------------------------------------------------------
(* The compositor.                                                         *)
OtherThanCompositor == UNCHANGED <<state, pc, retried, poolVars, given, reason>>

(* An earlier change is still on its way, or kept in State unused, or the  *)
(* client is just reallocating because of one.                             *)
Unabsorbed ==
  \/ \E e \in Range(wire) : IsConstraint(e)
  \/ ~state.consumed
  \/ retried
  \/ pc \in {"negotiate", "renegotiate", "allocate"}
  \/ state.frame = "constraints"
  \/ \E e \in Range(wire) : e.kind = "constraints"

Change ==
  /\ alive /\ pc # "ended"
  /\ changes < MaxChanges
  /\ changes' = changes + 1
  /\ \E size \in Sizes, formats \in Offers :
       /\ offered' = [size |-> size, formats |-> formats]
       /\ offered' # offered
       /\ \E batch \in Batches(offered') : wire' = wire \o batch
  /\ crowded' = (crowded \/ Unabsorbed)
  /\ UNCHANGED <<request, alive>>
  /\ OtherThanCompositor

(* The output is repainted: the frame asked for is written, or refused.    *)
Repaint ==
  /\ request # None
  /\ request' = None
  /\ wire' = Append(wire, Event(IF ~alive THEN "ended"
                                ELSE IF Fits(request, offered) THEN "ready" ELSE "constraints"))
  /\ UNCHANGED <<offered, alive, changes, crowded>>
  /\ OtherThanCompositor

(* Another failure of the frame.                                           *)
RefuseFrame ==
  /\ request # None
  /\ request' = None
  /\ wire' = Append(wire, Event("ended"))
  /\ UNCHANGED <<offered, alive, changes, crowded>>
  /\ OtherThanCompositor

StopSession ==
  /\ alive
  /\ alive' = FALSE
  /\ wire' = Append(wire, Event("stopped"))
  /\ UNCHANGED <<offered, request, changes, crowded>>
  /\ OtherThanCompositor

----------------------------------------------------------------------------
(* The client: Capture::new, then next_frame again and again.              *)
Waiting == {"negotiate", "wait", "renegotiate"}

Dispatch ==
  /\ pc \in Waiting
  /\ wire # <<>>
  /\ state' = Apply(state, Head(wire))
  /\ wire' = Tail(wire)
  /\ UNCHANGED <<compositorVars, pc, retried, poolVars, given, reason, crowded>>

Goto(next) ==
  /\ pc' = next
  /\ UNCHANGED <<compositorVars, wire, reason, crowded>>

Fail(why) ==
  /\ pc' = "ended"
  /\ reason' = why
  /\ UNCHANGED <<compositorVars, wire, state, retried, poolVars, given, crowded>>

Negotiated ==
  /\ pc = "negotiate"
  /\ state.done \/ state.stopped
  /\ IF state.stopped THEN Fail("stopped")
     ELSE Goto("allocate") /\ UNCHANGED <<state, retried, poolVars, given>>

(* allocate_pool; Capture::new's is the one the encoder is built for, and  *)
(* renegotiate's fails if the geometry is another one.                     *)
Allocate ==
  /\ pc = "allocate"
  /\ state.caps.size # None
  /\ \E layout \in Layouts(state.caps.formats) :
       pool' = [size |-> state.caps.size, layout |-> layout, round |-> pool.round + 1]
  /\ nextBuffer' = 0 /\ UNCHANGED index
  /\ state' = [state EXCEPT !.consumed = TRUE]
  /\ encoder' = IF encoder = None THEN [size |-> pool'.size, layout |-> pool'.layout] ELSE encoder
  /\ pc' = "check"
  /\ UNCHANGED <<compositorVars, wire, retried, given, reason, crowded>>

(* A batch cut in two has no size or no format; GBM itself may fail.       *)
AllocateFails ==
  /\ pc = "allocate"
  /\ Fail(IF state.caps.size = None THEN "torn"
          ELSE IF Layouts(state.caps.formats) = {} THEN "formats" ELSE "gbm")

CheckGeometryLayout ==   \* mutant: compares what it should absorb
  /\ pc = "check"
  /\ IF pool.layout = encoder.layout THEN Goto("capture") /\ UNCHANGED <<state, retried, poolVars, given>>
     ELSE Fail("geometry")

CheckGeometry ==
  /\ pc = "check"
  /\ IF pool.size = encoder.size THEN Goto("capture") /\ UNCHANGED <<state, retried, poolVars, given>>
     ELSE Fail("geometry")

(* try_capture_frame: what is left of the previous frame is forgotten, the *)
(* buffers take turns.                                                     *)
NextBufferStuck(i) == i   \* mutant: the buffers do not take turns

NextBufferUnbounded(i) == i + 1   \* mutant: runs past the end of the pool

NextBuffer(i) == (i + 1) % PoolSize

TryCapture ==
  /\ pc = "capture"
  /\ ~state.stopped
  /\ request' = [size |-> pool.size, layout |-> pool.layout, round |-> pool.round, index |-> nextBuffer]
  /\ index' = nextBuffer /\ nextBuffer' = NextBuffer(nextBuffer)
  /\ state' = [state EXCEPT !.frame = "none"]
  /\ pc' = "wait"
  /\ UNCHANGED <<offered, alive, changes, wire, retried, pool, encoder, given, reason, crowded>>

CaptureStopped == pc = "capture" /\ state.stopped /\ Fail("stopped")

FrameReady ==
  /\ pc = "wait"
  /\ state.frame = "ready"
  /\ Goto("capture")
  /\ retried' = FALSE
  /\ LET frame == [size |-> pool.size, layout |-> pool.layout, round |-> pool.round, index |-> index]
         all == Append(given, frame)
     IN  given' = IF Len(all) > PoolSize THEN Tail(all) ELSE all
  /\ UNCHANGED <<state, poolVars>>

FrameFailedAwaitingDone ==   \* mutant: waits for a batch that has already come
  /\ pc = "wait"
  /\ \/ state.frame = "ended" /\ Fail("frame")
     \/ state.frame = "constraints" /\ retried /\ Fail("constraints")
     \/ /\ state.frame = "constraints" /\ ~retried
        /\ Goto("renegotiate")
        /\ state' = [state EXCEPT !.done = FALSE]
        /\ retried' = TRUE
        /\ UNCHANGED <<poolVars, given>>

FrameFailed ==
  /\ pc = "wait"
  /\ \/ state.frame = "ended" /\ Fail("frame")
     \/ state.frame = "constraints" /\ retried /\ Fail("constraints")
     \/ /\ state.frame = "constraints" /\ ~retried
        /\ Goto(IF state.done THEN "allocate" ELSE "renegotiate")
        /\ retried' = TRUE
        /\ UNCHANGED <<state, poolVars, given>>

Renegotiated ==
  /\ pc = "renegotiate"
  /\ \/ state.done /\ Goto("allocate") /\ UNCHANGED <<state, retried, poolVars, given>>
     \/ ~state.done /\ state.stopped /\ Fail("stopped")

(* The deadline is looked at between two dispatches, so it ends a wait     *)
(* only when something arrives late, not when nothing does.                *)
RenegotiationTimesOut ==
  /\ pc = "renegotiate"
  /\ wire # <<>>
  /\ LET after == Apply(state, Head(wire)) IN ~after.done /\ ~after.stopped
  /\ Fail("deadline")

Client ==
  \/ Dispatch \/ Negotiated \/ Allocate \/ AllocateFails \/ CheckGeometry \/ TryCapture
  \/ CaptureStopped \/ FrameReady \/ FrameFailed \/ Renegotiated

----------------------------------------------------------------------------
Init ==
  /\ offered \in [size : Sizes, formats : Offers]
  /\ wire \in Batches(offered)
  /\ request = None /\ alive = TRUE /\ changes = 0
  /\ state = Fresh /\ pc = "negotiate" /\ retried = FALSE
  /\ pool = [size |-> None, layout |-> None, round |-> 0]
  /\ nextBuffer = 0 /\ index = 0 /\ encoder = None /\ given = <<>>
  /\ reason = "none" /\ crowded = FALSE

Next == Client \/ RenegotiationTimesOut \/ Change \/ Repaint \/ RefuseFrame \/ StopSession

Spec == Init /\ [][Next]_vars

(* The client runs and the output is repainted.                            *)
FairSpec == Spec /\ WF_vars(Client) /\ WF_vars(Repaint)

----------------------------------------------------------------------------
Modifiers == UNION {e.mods : e \in UNION {Range(o) : o \in Offers}}

Buffers == [size : Sizes, layout : [fourcc : {"XR24", "AR24"}, mod : Modifiers]]

Requests ==
  [size : Sizes, layout : [fourcc : {"XR24", "AR24"}, mod : Modifiers], round : Nat, index : Nat]

ASSUME NoneAssumption == None \notin Sizes /\ None \notin Buffers /\ None \notin Requests

TypeOK ==
  /\ offered \in [size : Sizes, formats : Offers]
  /\ alive \in BOOLEAN /\ retried \in BOOLEAN /\ crowded \in BOOLEAN
  /\ changes \in 0 .. MaxChanges
  /\ pc \in Waiting \cup {"allocate", "check", "capture", "ended"}
  /\ nextBuffer \in 0 .. PoolSize - 1 /\ index \in 0 .. PoolSize - 1
  /\ state.caps.size \in Sizes \cup {None}
  /\ state.frame \in {"none", "ready", "constraints", "ended"}
  /\ pool.round \in 0 .. 2 * MaxChanges + 1
  /\ encoder \in Buffers \cup {None}
  /\ Len(given) <= PoolSize
  /\ reason \in {"none", "stopped", "torn", "formats", "gbm", "geometry", "constraints",
                "frame", "deadline"}

(* What the session relies on, see FrameSource.tla: every frame the        *)
(* encoder gets has the size it was built for, whatever the compositor     *)
(* announces meanwhile ("A *geometry* change cannot be" absorbed).         *)
sourcePhase == IF pc = "ended" THEN "over" ELSE IF encoder = None THEN "opening" ELSE "open"
sourceTold  == IF encoder = None THEN {} ELSE {encoder.size}
sourceFrame == IF given = <<>> THEN {} ELSE {Last(given).size}

Source == INSTANCE FrameSource
  WITH Geometries <- Sizes, phase <- sourcePhase, told <- sourceTold, frame <- sourceFrame
SourceSpec == Source!Spec

(* One frame at a time, in a buffer nobody else has: nothing is            *)
(* outstanding while the client is anywhere but waiting for it, so no      *)
(* buffer is destroyed under the compositor's hands; and as the encoder    *)
(* may still read the latest frames, one is not written again before       *)
(* PoolSize - 1 others were handed over.                                   *)
BuffersExclusive ==
  /\ request # None => pc = "wait" /\ request.round = pool.round /\ state.frame = "none"
  /\ (\E e \in Range(wire) : e.kind \in {"ready", "constraints", "ended"}) => pc = "wait"
  /\ request # None =>
       \A i \in DOMAIN given :
         (i > Len(given) - (PoolSize - 1) /\ given[i].round = request.round) =>
           given[i].index # request.index

(* A change of constraints that finds the one before it absorbed never     *)
(* ends capturing, in whichever order its events come and wherever they    *)
(* are cut, unless nothing in it can be used or the geometry changed       *)
(* ("that is not an error path").                                          *)
AbsorbsOneChange ==
  ~crowded =>
    /\ reason \notin {"torn", "constraints"}
    /\ reason = "formats" => Layouts(offered.formats) = {}
    /\ reason = "geometry" => offered.size # encoder.size

(* As long as the output is repainted, capturing goes on or ends with an   *)
(* error: no wait for constraints or for a frame hangs.                    *)
NeverStuck == []<>(pc \in {"capture", "ended"})

(* "A format or modifier change is absorbed here" (session.rs:550): the    *)
(* frames the encoder gets are always in the layout it was told.           *)
LayoutAgrees == \A i \in DOMAIN given : given[i].layout = encoder.layout
============================================================================
