--------------------------- MODULE PointerGestures --------------------------
(***************************************************************************)
(* Pointer mode (crates/daemon/src/input.rs, PointerInput and             *)
(* run_touch_worker): one finger's DOWN, MOVE and UP become the motion and *)
(* the buttons of a touchpad.  A touch that stays where it is is a click,  *)
(* or a right click once it has been held long enough; one that follows a  *)
(* click closely and then moves is a drag; any other moves the cursor.     *)
(* The worker takes messages from a channel and is its own timer, and      *)
(* every event it emits to the uinput device may fail.                     *)
(*                                                                         *)
(* The two axes are alike and independent up to the tap test, so there is  *)
(* one.  Cursor motion is counted in pixels, the residual in fractions of  *)
(* one, exactly where the code rounds a float.  Time passes in ticks.      *)
(***************************************************************************)
EXTENDS Integers, Sequences

CONSTANTS
  MaxPosition,      \* positions are 0 .. MaxPosition
  TapMaxMove,       \* TAP_MAX_MOVE
  LongPress,        \* LONG_PRESS, in ticks
  DoubleTapWindow,  \* DOUBLE_TAP_WINDOW, in ticks
  Gain, Scale,      \* sensitivity: Gain / Scale pixels for a unit
  MaxGestures,      \* bound: gestures of the finger
  MaxFailures,      \* bound: handlers that fail to emit
  QueueCap,         \* bound: messages not received yet
  None              \* no tap to remember

ASSUME PositionsAssumption == MaxPosition \in Nat /\ TapMaxMove \in Nat
ASSUME TimesAssumption == LongPress \in Nat \ {0} /\ DoubleTapWindow \in Nat \ {0}
ASSUME SensitivityAssumption == Gain \in Nat \ {0} /\ Scale \in Nat \ {0}
ASSUME BoundsAssumption == MaxGestures \in Nat /\ MaxFailures \in Nat /\ QueueCap \in Nat \ {0}
ASSUME NoneAssumption == None \notin Nat

VARIABLES
  finger,     \* where the finger is, None if it is up
  gestures,   \* how often it went down
  queue,      \* the channel
  closed,     \* its sender is dropped
  pc,         \* the worker: receives, has its timer due, has ended
  state,      \* PointerState
  sinceTap,   \* age of last_tap_end
  residual,   \* in 1 / Scale pixels
  device,     \* the kernel's view: buttons, and how far this gesture moved the cursor
  failures,   \* bounds Emit
  lost,       \* history: buttons whose latest release could not be emitted
  meaning,    \* history: what this gesture has been taken for
  flawed,     \* history: an emit has failed in it
  previous    \* history: what the one before was taken for

channelVars == <<finger, gestures, queue, closed>>
pointerVars == <<state, sinceTap, residual>>
history == <<meaning, flawed, previous>>
deviceVars == <<device, failures, lost>>
vars == <<channelVars, pc, pointerVars, deviceVars, history>>

Positions == 0 .. MaxPosition
Distance(p, q) == IF p < q THEN q - p ELSE p - q

Idle == [mode |-> "idle"]
Consumed == [mode |-> "consumed"]
Dragging(p) == [mode |-> "dragging", last |-> p]

----------------------------------------------------------------------------
(* Events to the device, of which the first `done` succeed; the code gives *)
(* up a handler at the first that fails.                                   *)
Press(button) == [what |-> button, value |-> 1]
ReleaseOf(button) == [what |-> button, value |-> 0]
Click(button) == <<Press(button), ReleaseOf(button)>>

AfterEmit(d, e) ==
  IF e.what = "cursor" THEN [d EXCEPT !.cursor = @ + e.value] ELSE [d EXCEPT ![e.what] = e.value]

(* A handler emits two events at the most.                                 *)
AfterAll(d, events) ==
  IF events = <<>> THEN d
  ELSE IF Len(events) = 1 THEN AfterEmit(d, events[1])
  ELSE AfterEmit(AfterEmit(d, events[1]), events[2])

Emit(events, done) ==
  /\ failures' = IF done < Len(events) THEN failures + 1 ELSE failures
  /\ failures' <= MaxFailures
  /\ device' = AfterAll(device, SubSeq(events, 1, done))
  /\ lost' = {b \in {"left", "right"} :
                /\ device'[b] = 1
                /\ b \in lost \/ \E i \in done + 1 .. Len(events) : events[i] = ReleaseOf(b)}
  /\ flawed' = (flawed \/ done < Len(events))

NoEmit == UNCHANGED <<deviceVars, flawed>>

(* For the record: a gesture should be taken for one thing only, and any   *)
(* that a position beyond the slop of a tap was told of is motion, unless  *)
(* that very position makes it a drag.                                     *)
Strays(p) == state.mode = "touched" /\ Distance(state.down, p) > TapMaxMove

Takes(what) ==
  /\ meaning' = IF meaning = "none" THEN what ELSE "several"
  /\ UNCHANGED previous

TakesMotion(p) ==
  /\ meaning' = IF ~Strays(p) THEN meaning
                ELSE IF meaning \in {"none", "motion"} THEN "motion" ELSE "several"
  /\ UNCHANGED previous

----------------------------------------------------------------------------
(* relative_delta: whole pixels, rounded towards zero; what is left counts *)
(* for the next sample.                                                    *)
Whole(n) == IF n >= 0 THEN n \div Scale ELSE -((-n) \div Scale)

Owed(from, to) == (to - from) * Gain + residual

KeptAll(from, to) == Owed(from, to)   \* mutant: what was emitted is owed still

KeptForgotten(from, to) == 0   \* mutant: the fraction is forgotten

Kept(from, to) == Owed(from, to) - Whole(Owed(from, to)) * Scale

Motion(from, to) ==
  LET pixels == Whole(Owed(from, to))
  IN  IF pixels = 0 THEN <<>> ELSE <<[what |-> "cursor", value |-> pixels]>>

----------------------------------------------------------------------------
(* The handlers.                                                           *)
OnDown(p) ==
  /\ residual' = 0
  /\ state' = [mode |-> "touched", held |-> 0, down |-> p, last |-> p, moved |-> FALSE,
               pendingDrag |-> sinceTap # None /\ sinceTap < DoubleTapWindow]
  /\ device' = [device EXCEPT !.cursor = 0]
  /\ meaning' = "none" /\ flawed' = FALSE
  /\ previous' = IF flawed THEN "flawed" ELSE meaning
  /\ UNCHANGED <<sinceTap, failures, lost>>

NowMovedForgetting(p) == Distance(state.down, p) > TapMaxMove   \* mutant: the latch is lost

NowMoved(p) == state.moved \/ Distance(state.down, p) > TapMaxMove

CommitDrag(p) ==
  /\ state.mode = "touched" /\ state.pendingDrag /\ NowMoved(p)
  /\ \E done \in 0 .. 1 :
       /\ Emit(<<Press("left")>>, done)
       /\ IF done = 1 THEN state' = Dragging(p) /\ Takes("drag")
          ELSE UNCHANGED <<state, meaning, previous>>
  /\ UNCHANGED <<sinceTap, residual>>

(* A motion that cannot be emitted leaves the position as it was, but not  *)
(* the residual.                                                           *)
MoveCursor(p) ==
  /\ \/ state.mode = "touched" /\ ~(state.pendingDrag /\ NowMoved(p))
     \/ state.mode = "dragging"
  /\ residual' = Kept(state.last, p)
  /\ \E done \in 0 .. Len(Motion(state.last, p)) :
       /\ Emit(Motion(state.last, p), done)
       /\ state' = IF done < Len(Motion(state.last, p)) THEN state
                   ELSE IF state.mode = "dragging" THEN Dragging(p)
                   ELSE [state EXCEPT !.last = p, !.moved = NowMoved(p)]
  /\ TakesMotion(p)
  /\ UNCHANGED sinceTap

IgnoreMove ==
  /\ state.mode \in {"idle", "consumed"}
  /\ NoEmit
  /\ UNCHANGED <<pointerVars, meaning, previous>>

OnMove(p) == CommitDrag(p) \/ MoveCursor(p) \/ IgnoreMove

(* on_up: the state is idle whatever happens, the tap is remembered only   *)
(* when both events of the click have been emitted.                        *)
Tap(p) ==
  /\ state.mode = "touched" /\ ~NowMoved(p)
  /\ \E done \in 0 .. 2 :
       /\ Emit(Click("left"), done)
       /\ sinceTap' = IF done = 2 THEN 0 ELSE sinceTap
       /\ IF done > 0 THEN Takes("click") ELSE UNCHANGED <<meaning, previous>>

EndMotionRemembering(p) ==   \* mutant: an older tap is still remembered
  /\ state.mode = "touched" /\ NowMoved(p)
  /\ NoEmit
  /\ TakesMotion(p)
  /\ UNCHANGED sinceTap

EndMotion(p) ==
  /\ state.mode = "touched" /\ NowMoved(p)
  /\ sinceTap' = None
  /\ NoEmit
  /\ TakesMotion(p)

EndDrag ==
  /\ state.mode = "dragging"
  /\ \E done \in 0 .. 1 :
       /\ Emit(<<ReleaseOf("left")>>, done)
       /\ sinceTap' = IF done = 1 THEN None ELSE sinceTap
  /\ UNCHANGED <<meaning, previous>>

EndOther ==
  /\ state.mode \in {"consumed", "idle"}
  /\ sinceTap' = None
  /\ NoEmit
  /\ UNCHANGED <<meaning, previous>>

OnUp(p) ==
  /\ state' = Idle
  /\ Tap(p) \/ EndMotion(p) \/ EndDrag \/ EndOther
  /\ UNCHANGED residual

OnTouch(m) ==
  \/ m.action = "DOWN" /\ OnDown(m.at)
  \/ m.action = "MOVE" /\ OnMove(m.at)
  \/ m.action \in {"UP", "CANCEL"} /\ OnUp(m.at)

----------------------------------------------------------------------------
(* run_touch_worker.  Messages come first, also those still in the channel *)
(* when its sender is gone.                                                *)
Receive ==
  /\ pc = "receive"
  /\ queue # <<>>
  /\ OnTouch(Head(queue))
  /\ queue' = Tail(queue)
  /\ UNCHANGED <<finger, gestures, closed, pc>>

TimesOut ==
  /\ pc = "receive"
  /\ queue = <<>> /\ ~closed
  /\ state.mode = "touched" /\ ~state.moved /\ state.held = LongPress
  /\ pc' = "due"
  /\ UNCHANGED <<channelVars, pointerVars, deviceVars, history>>

(* The press is done with only when the whole click has been emitted.      *)
AfterLongPressTouched == state   \* mutant: the touch goes on

AfterLongPress == Consumed

OnLongPress ==
  /\ pc = "due"
  /\ \E done \in 0 .. 2 :
       /\ Emit(Click("right"), done)
       /\ IF done = 2 THEN state' = AfterLongPress /\ sinceTap' = None
          ELSE UNCHANGED <<state, sinceTap>>
       /\ IF done > 0 THEN Takes("menu") ELSE UNCHANGED <<meaning, previous>>
  /\ pc' = "receive"
  /\ UNCHANGED <<channelVars, residual>>

CancelUnreleased ==   \* mutant: leaves the button of a drag held
  /\ pc = "receive"
  /\ queue = <<>> /\ closed
  /\ state' = Idle /\ sinceTap' = None /\ residual' = 0
  /\ NoEmit
  /\ pc' = "ended"
  /\ UNCHANGED <<channelVars, meaning, previous>>

(* cancel, at the end.                                                     *)
Cancel ==
  /\ pc = "receive"
  /\ queue = <<>> /\ closed
  /\ LET events == IF state.mode = "dragging" THEN <<ReleaseOf("left")>> ELSE <<>>
     IN  \E done \in 0 .. Len(events) :
           /\ Emit(events, done)
           /\ IF done = Len(events) THEN state' = Idle /\ sinceTap' = None /\ residual' = 0
              ELSE UNCHANGED pointerVars
  /\ pc' = "ended"
  /\ UNCHANGED <<channelVars, meaning, previous>>

----------------------------------------------------------------------------
(* The finger and the session, and time.                                   *)
Send(action, p) ==
  /\ ~closed
  /\ Len(queue) < QueueCap
  /\ queue' = Append(queue, [action |-> action, at |-> p])
  /\ UNCHANGED <<closed, pc, pointerVars, deviceVars, history>>

FingerDown ==
  /\ finger = None
  /\ gestures < MaxGestures
  /\ gestures' = gestures + 1
  /\ finger' \in Positions
  /\ Send("DOWN", finger')

FingerMoves ==
  /\ finger # None
  /\ finger' \in Positions \ {finger}
  /\ Send("MOVE", finger')
  /\ UNCHANGED gestures

(* Its last position may be one no MOVE has told.                          *)
FingerUp ==
  /\ finger # None
  /\ finger' = None
  /\ \E action \in {"UP", "CANCEL"}, p \in Positions : Send(action, p)
  /\ UNCHANGED gestures

SessionEnds ==
  /\ ~closed
  /\ closed' = TRUE
  /\ UNCHANGED <<finger, gestures, queue, pc, pointerVars, deviceVars, history>>

Tick ==
  /\ pc # "ended"
  /\ state' = IF state.mode = "touched" /\ state.held < LongPress
              THEN [state EXCEPT !.held = @ + 1] ELSE state
  /\ sinceTap' = IF sinceTap # None /\ sinceTap < DoubleTapWindow THEN sinceTap + 1 ELSE sinceTap
  /\ UNCHANGED <<channelVars, pc, residual, deviceVars, history>>

----------------------------------------------------------------------------
Init ==
  /\ finger = None /\ gestures = 0 /\ queue = <<>> /\ closed = FALSE
  /\ pc = "receive"
  /\ state = Idle /\ sinceTap = None /\ residual = 0
  /\ device = [left |-> 0, right |-> 0, cursor |-> 0]
  /\ failures = 0 /\ lost = {} /\ meaning = "none" /\ flawed = FALSE /\ previous = "none"

Next ==
  \/ Receive \/ TimesOut \/ OnLongPress \/ Cancel
  \/ FingerDown \/ FingerMoves \/ FingerUp \/ SessionEnds \/ Tick

Spec == Init /\ [][Next]_vars

----------------------------------------------------------------------------
Touches ==
  [mode : {"touched"}, held : 0 .. LongPress, down : Positions, last : Positions,
   moved : BOOLEAN, pendingDrag : BOOLEAN]

TypeOK ==
  /\ finger \in Positions \cup {None} /\ gestures \in 0 .. MaxGestures
  /\ queue \in Seq([action : {"DOWN", "MOVE", "UP", "CANCEL"}, at : Positions])
  /\ Len(queue) <= QueueCap
  /\ closed \in BOOLEAN /\ pc \in {"receive", "due", "ended"}
  /\ state \in {Idle, Consumed} \cup {Dragging(p) : p \in Positions} \cup Touches
  /\ sinceTap \in 0 .. DoubleTapWindow \cup {None}
  /\ residual \in 1 - Scale .. Scale - 1
  /\ device \in [left : {0, 1}, right : {0, 1}, cursor : Int]
  /\ failures \in 0 .. MaxFailures /\ lost \in SUBSET {"left", "right"}
  /\ meaning \in {"none", "motion", "click", "menu", "drag", "several"}
  /\ flawed \in BOOLEAN
  /\ previous \in {"none", "motion", "click", "menu", "drag", "several", "flawed"}

(* "Release any held button": a button is held for as long as a drag goes  *)
(* on and at no other time, also after the worker has ended, unless the    *)
(* very event that would release it could not be emitted.                  *)
HeldOnlyInDrag ==
  /\ state.mode = "dragging" => device.left = 1
  /\ device.left = 1 => state.mode = "dragging" \/ "left" \in lost
  /\ device.right = 1 => "right" \in lost

(* A gesture is motion beyond the slop of a tap, a click, a right click or *)
(* a drag, never two of these - one that strayed and came back is neither  *)
(* a tap nor held for a right click - and a drag only right after a click, *)
(* whatever order timer, messages and time come in.  A gesture that could  *)
(* not be emitted may count twice.  (Within the slop the cursor moves for  *)
(* any touch; that is not a meaning of its own.)                           *)
OneMeaning ==
  /\ meaning = "several" => flawed
  /\ (meaning = "drag" /\ ~flawed) => previous \in {"click", "flawed"}

(* "Carrying the sub-pixel remainder forward so slow drags accumulate": by *)
(* whatever steps the finger got where it is, back and forth, the cursor   *)
(* has come as far as the sensitivity says, to less than a pixel.  This is *)
(* of a touch: when it becomes a drag the step that makes it one is not    *)
(* emitted (input.rs:490-498).                                             *)
CursorFollowsFinger ==
  (state.mode = "touched" /\ ~flawed) =>
    device.cursor * Scale + residual = (state.last - state.down) * Gain
============================================================================
