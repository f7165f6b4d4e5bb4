----------------------- MODULE PointerGesturesProofs -----------------------
(***************************************************************************)
(* Theorems about PointerGestures.tla: for any size of the surface and any *)
(* sensitivity, thresholds and length of the channel, however many         *)
(* gestures are made and wherever the device fails.                        *)
(***************************************************************************)
EXTENDS PointerGestures, SequenceTheorems, TLAPS

----------------------------------------------------------------------------
(* The strengthening.  What is in the channel follows on from what the     *)
(* worker is at: a gesture goes on until it is lifted, and only then the   *)
(* next begins.                                                            *)
Actions == {"DOWN", "MOVE", "UP", "CANCEL"}

Lifts == {"UP", "CANCEL"}

Messages == [action : Actions, at : Positions]

InTurn ==
  pc # "ended" =>
    /\ queue = <<>> => (state.mode = "idle" <=> finger = None)
    /\ queue # <<>> =>
         /\ queue[1].action = "DOWN" <=> state.mode = "idle"
         /\ queue[Len(queue)].action \in Lifts <=> finger = None
    /\ \A i \in 1 .. Len(queue) - 1 :
         queue[i + 1].action = "DOWN" <=> queue[i].action \in Lifts

(* The timer is due only for a touch, which nothing else ends meanwhile.   *)
Timed == pc = "due" => state.mode = "touched" /\ ~state.moved

(* What is known of a gesture that is not flawed: that a touch has moved   *)
(* says that it was taken for motion, and a tap is remembered only if the  *)
(* gesture before was one.                                                 *)
Meant ==
  ~flawed =>
    /\ state.mode = "touched" => meaning = IF state.moved THEN "motion" ELSE "none"
    /\ state.mode = "touched" /\ state.pendingDrag =>
         ~state.moved /\ previous \in {"click", "flawed"}
    /\ state.mode = "idle" /\ sinceTap # None => meaning = "click"

IInv ==
  TypeOK /\ InTurn /\ Timed /\ HeldOnlyInDrag /\ Meant /\ OneMeaning /\ CursorFollowsFinger

----------------------------------------------------------------------------
(* What emitting does to the device.                                       *)
Buttons == {"left", "right"}

Devices == [left : {0, 1}, right : {0, 1}, cursor : Int]

Moves == [what : {"cursor"}, value : Int]

LEMMA Pressed ==
  ASSUME NEW d \in Devices, NEW b \in Buttons, NEW v \in {0, 1}
  PROVE  /\ AfterEmit(d, [what |-> b, value |-> v]) \in Devices
         /\ AfterEmit(d, [what |-> b, value |-> v]).cursor = d.cursor
         /\ AfterEmit(d, [what |-> b, value |-> v])[b] = v
         /\ \A c \in Buttons \ {b} : AfterEmit(d, [what |-> b, value |-> v])[c] = d[c]
<1>1. AfterEmit(d, [what |-> b, value |-> v]) = [d EXCEPT ![b] = v]
  BY DEF AfterEmit, Buttons
<1>2. CASE b = "left"  BY <1>1, <1>2 DEF Devices, Buttons
<1>3. CASE b = "right"  BY <1>1, <1>3 DEF Devices, Buttons
<1> QED  BY <1>2, <1>3 DEF Buttons

LEMMA Moved ==
  ASSUME NEW d \in Devices, NEW e \in Moves
  PROVE  /\ AfterEmit(d, e) \in Devices /\ AfterEmit(d, e).cursor = d.cursor + e.value
         /\ \A c \in Buttons : AfterEmit(d, e)[c] = d[c]
<1>1. AfterEmit(d, e) = [d EXCEPT !.cursor = @ + e.value]
  BY DEF AfterEmit, Moves
<1> QED  BY <1>1 DEF Devices, Buttons, Moves

LEMMA Firsts ==
  ASSUME NEW e, NEW f
  PROVE  /\ SubSeq(<<e>>, 1, 1) = <<e>>
         /\ SubSeq(<<e, f>>, 1, 1) = <<e>> /\ SubSeq(<<e, f>>, 1, 2) = <<e, f>>
<1> DEFINE S == {e, f}
           r == <<e>>
           s == <<e, f>>
<1>1. /\ r \in Seq(S) /\ Len(r) = 1 /\ r[1] = e
      /\ s \in Seq(S) /\ Len(s) = 2 /\ s[1] = e /\ s[2] = f
  OBVIOUS
<1> HIDE DEF S, r, s
<1>2. SubSeq(r, 1, Len(r)) = r /\ SubSeq(s, 1, Len(s)) = s  BY <1>1, SubSeqFull
<1>3. SubSeq(s, 1, 1) = r
  <2>1. \A i \in 1 .. 1 : s[i] \in S  BY <1>1, ElementOfSeq
  <2>2. SubSeq(s, 1, 1) \in Seq(S) /\ Len(SubSeq(s, 1, 1)) = 1 /\ SubSeq(s, 1, 1)[1] = s[1]
    BY <1>1, <2>1, SubSeqProperties
  <2>3. \A i \in 1 .. 1 : SubSeq(s, 1, 1)[i] = r[i]  BY <1>1, <2>2
  <2> QED  BY <1>1, <2>2, <2>3, SeqEqual
<1> QED  BY <1>1, <1>2, <1>3 DEF r, s

(* What has been sent of a list of one event, of two, or of none.          *)
LEMMA EmitsOne ==
  ASSUME NEW e, NEW done \in 0 .. 1, Emit(<<e>>, done)
  PROVE  /\ failures' = (IF done < 1 THEN failures + 1 ELSE failures) /\ failures' <= MaxFailures
         /\ device' = IF done = 0 THEN device ELSE AfterEmit(device, e)
         /\ flawed' = (flawed \/ done < 1)
         /\ lost' = {b \in Buttons : device'[b] = 1 /\ (b \in lost \/ (done = 0 /\ e = ReleaseOf(b)))}
<1> DEFINE s == <<e>>
<1>1. Len(s) = 1 /\ s[1] = e  OBVIOUS
<1>2. /\ failures' = IF done < Len(s) THEN failures + 1 ELSE failures
      /\ failures' <= MaxFailures
      /\ device' = AfterAll(device, SubSeq(s, 1, done))
      /\ lost' = {b \in {"left", "right"} :
                    /\ device'[b] = 1
                    /\ b \in lost \/ \E i \in done + 1 .. Len(s) : s[i] = ReleaseOf(b)}
      /\ flawed' = (flawed \/ done < Len(s))
  BY Zenon DEF Emit
<1>3. AfterAll(device, SubSeq(s, 1, done)) = IF done = 0 THEN device ELSE AfterEmit(device, e)
  <2>1. CASE done = 0
    <3>1. SubSeq(s, 1, done) = <<>>  BY <2>1, <1>1
    <3> QED  BY <2>1, <3>1 DEF AfterAll
  <2>2. CASE done = 1
    <3> DEFINE r == <<e>>
    <3>1. SubSeq(s, 1, done) = r  BY <2>2, Firsts
    <3>2. r # <<>> /\ Len(r) = 1 /\ r[1] = e  OBVIOUS
    <3> HIDE DEF r, s
    <3>3. AfterAll(device, r) = AfterEmit(device, e)  BY <3>2, Zenon DEF AfterAll
    <3>4. AfterAll(device, SubSeq(s, 1, done)) = AfterEmit(device, e)  BY ONLY <3>1, <3>3, Zenon
    <3> QED  BY ONLY <2>2, <3>4
  <2> QED  BY <2>1, <2>2
<1> HIDE DEF s
<1>4. \A b : (\E i \in done + 1 .. 1 : s[i] = ReleaseOf(b)) <=> (done = 0 /\ e = ReleaseOf(b))
  <2>1. CASE done = 0  BY <2>1, <1>1
  <2>2. CASE done = 1
    <3>1. done + 1 .. 1 = {}  BY <2>2
    <3> QED  BY <2>2, <3>1
  <2> QED  BY <2>1, <2>2
<1> QED  BY <1>1, <1>2, <1>3, <1>4 DEF Buttons

LEMMA EmitsTwo ==
  ASSUME NEW e, NEW f, NEW done \in 0 .. 2, Emit(<<e, f>>, done)
  PROVE  /\ failures' = (IF done < 2 THEN failures + 1 ELSE failures) /\ failures' <= MaxFailures
         /\ device' = IF done = 0 THEN device
                      ELSE IF done = 1 THEN AfterEmit(device, e)
                      ELSE AfterEmit(AfterEmit(device, e), f)
         /\ flawed' = (flawed \/ done < 2)
         /\ lost' = {b \in Buttons : /\ device'[b] = 1
                                     /\ \/ b \in lost \/ (done = 0 /\ e = ReleaseOf(b))
                                        \/ done < 2 /\ f = ReleaseOf(b)}
<1> DEFINE s == <<e, f>>
<1>1. Len(s) = 2 /\ s[1] = e /\ s[2] = f  OBVIOUS
<1>2. /\ failures' = IF done < Len(s) THEN failures + 1 ELSE failures
      /\ failures' <= MaxFailures
      /\ device' = AfterAll(device, SubSeq(s, 1, done))
      /\ lost' = {b \in {"left", "right"} :
                    /\ device'[b] = 1
                    /\ b \in lost \/ \E i \in done + 1 .. Len(s) : s[i] = ReleaseOf(b)}
      /\ flawed' = (flawed \/ done < Len(s))
  BY Zenon DEF Emit
<1>3. AfterAll(device, SubSeq(s, 1, done)) =
        IF done = 0 THEN device
        ELSE IF done = 1 THEN AfterEmit(device, e) ELSE AfterEmit(AfterEmit(device, e), f)
  <2>1. CASE done = 0
    <3>1. SubSeq(s, 1, done) = <<>>  BY <2>1, <1>1
    <3> QED  BY <2>1, <3>1 DEF AfterAll
  <2>2. CASE done = 1
    <3> DEFINE r == <<e>>
    <3>1. SubSeq(s, 1, done) = r  BY <2>2, Firsts
    <3>2. r # <<>> /\ Len(r) = 1 /\ r[1] = e  OBVIOUS
    <3> HIDE DEF r, s
    <3>3. AfterAll(device, r) = AfterEmit(device, e)  BY <3>2, Zenon DEF AfterAll
    <3>4. AfterAll(device, SubSeq(s, 1, done)) = AfterEmit(device, e)  BY ONLY <3>1, <3>3, Zenon
    <3> QED  BY ONLY <2>2, <3>4
  <2>3. CASE done = 2
    <3>1. SubSeq(s, 1, done) = s  BY <2>3, Firsts
    <3>2. s # <<>> /\ Len(s) # 1  BY <1>1
    <3> HIDE DEF s
    <3>3. AfterAll(device, s) = AfterEmit(AfterEmit(device, s[1]), s[2])
      BY <3>2, Zenon DEF AfterAll
    <3>4. s[1] = e /\ s[2] = f  BY <1>1
    <3>5. AfterAll(device, s) = AfterEmit(AfterEmit(device, e), f)  BY <3>3, <3>4, Zenon
    <3>6. AfterAll(device, SubSeq(s, 1, done)) = AfterEmit(AfterEmit(device, e), f)
      BY ONLY <3>1, <3>5, Zenon
    <3> QED  BY ONLY <2>3, <3>6
  <2> QED  BY <2>1, <2>2, <2>3
<1> HIDE DEF s
<1>4. \A b : (\E i \in done + 1 .. 2 : s[i] = ReleaseOf(b))
               <=> ((done = 0 /\ e = ReleaseOf(b)) \/ (done < 2 /\ f = ReleaseOf(b)))
  <2>1. CASE done = 0
    <3>1. done + 1 .. 2 = {1, 2}  BY <2>1
    <3> QED  BY <2>1, <3>1, <1>1
  <2>2. CASE done = 1
    <3>1. done + 1 .. 2 = {2}  BY <2>2
    <3> QED  BY <2>2, <3>1, <1>1
  <2>3. CASE done = 2
    <3>1. done + 1 .. 2 = {}  BY <2>3
    <3> QED  BY <2>3, <3>1
  <2> QED  BY <2>1, <2>2, <2>3
<1> QED  BY <1>1, <1>2, <1>3, <1>4 DEF Buttons

LEMMA EmitsNothing ==
  ASSUME NEW done \in 0 .. 0, Emit(<<>>, done)
  PROVE  /\ failures' = failures /\ device' = device /\ flawed' = (flawed \/ FALSE)
         /\ lost' = {b \in Buttons : device'[b] = 1 /\ b \in lost}
<1> DEFINE s == <<>>
<1>1. done = 0 /\ Len(s) = 0 /\ SubSeq(s, 1, done) = s /\ done + 1 .. Len(s) = {} /\ ~(done < Len(s))
  <2>1. done = 0 /\ Len(s) = 0 /\ s \in Seq({})  OBVIOUS
  <2>2. SubSeq(s, 1, Len(s)) = s  BY <2>1, SubSeqFull
  <2>3. done + 1 .. Len(s) = {} /\ ~(done < Len(s))  BY <2>1
  <2> QED  BY <2>1, <2>2, <2>3
<1>2. AfterAll(device, s) = device  BY Zenon DEF AfterAll
<1>3. /\ failures' = IF done < Len(s) THEN failures + 1 ELSE failures
      /\ device' = AfterAll(device, SubSeq(s, 1, done))
      /\ lost' = {b \in {"left", "right"} :
                    /\ device'[b] = 1
                    /\ b \in lost \/ \E i \in done + 1 .. Len(s) : s[i] = ReleaseOf(b)}
      /\ flawed' = (flawed \/ done < Len(s))
  BY Zenon DEF Emit
<1> HIDE DEF s
<1>4. failures' = failures /\ device' = device  BY ONLY <1>1, <1>2, <1>3
<1>5. flawed' = (flawed \/ FALSE)  BY ONLY <1>1, <1>3, Zenon
<1>6. lost' = {b \in Buttons : device'[b] = 1 /\ b \in lost}  BY ONLY <1>1, <1>3 DEF Buttons
<1> QED  BY <1>4, <1>5, <1>6

----------------------------------------------------------------------------
(* Rounding towards zero leaves less than a pixel.                         *)
LEMMA Rounding ==
  ASSUME NEW n \in Int
  PROVE  Whole(n) \in Int /\ n - Whole(n) * Scale \in 1 - Scale .. Scale - 1
<1>1. Scale \in Nat /\ Scale >= 1  BY SensitivityAssumption
<1>2. ASSUME NEW k \in Nat
      PROVE  /\ k \div Scale \in Nat
             /\ k - (k \div Scale) * Scale >= 0 /\ k - (k \div Scale) * Scale <= Scale - 1
  BY <1>1
<1>3. CASE n >= 0
  <2>1. n \in Nat  BY <1>3
  <2> DEFINE q == n \div Scale
  <2>2. q \in Nat /\ n - q * Scale >= 0 /\ n - q * Scale <= Scale - 1  BY <1>2, <2>1
  <2>3. Whole(n) = q  BY <1>3 DEF Whole
  <2> HIDE DEF q
  <2>4. q * Scale \in Int  BY <2>2, <1>1
  <2> QED  BY <2>2, <2>3, <2>4, <1>1
<1>4. CASE ~(n >= 0)
  <2>1. -n \in Nat  BY <1>4
  <2> DEFINE q == (-n) \div Scale
  <2>2. q \in Nat /\ -n - q * Scale >= 0 /\ -n - q * Scale <= Scale - 1  BY <1>2, <2>1
  <2>3. Whole(n) = -q  BY <1>4 DEF Whole
  <2> HIDE DEF q
  <2> DEFINE p == q * Scale
  <2>4. p \in Int /\ (-q) * Scale = -p  BY <2>2, <1>1
  <2>5. -n - p >= 0 /\ -n - p <= Scale - 1  BY <2>2
  <2>6. n - Whole(n) * Scale = n + p
    <3>1. Whole(n) * Scale = -p  BY <2>3, <2>4
    <3> HIDE DEF p
    <3> QED  BY <3>1, <2>4
  <2> HIDE DEF p
  <2> QED  BY <2>2, <2>3, <2>4, <2>5, <2>6, <1>1
<1> QED  BY <1>3, <1>4

LEMMA Modes ==
  ASSUME TypeOK
  PROVE  /\ state.mode \in {"idle", "consumed", "dragging", "touched"}
         /\ state.mode = "touched" => state \in Touches
         /\ state.mode = "dragging" => state.last \in Positions /\ state = Dragging(state.last)
         /\ state.mode = "idle" => state = Idle
         /\ state.mode = "consumed" => state = Consumed
<1>1. state \in {Idle, Consumed} \cup {Dragging(p) : p \in Positions} \cup Touches
  BY DEF TypeOK
<1>2. CASE state = Idle \/ state = Consumed  BY <1>2 DEF Idle, Consumed
<1>3. CASE state \in {Dragging(p) : p \in Positions}
  <2>1. PICK p \in Positions : state = Dragging(p)  BY <1>3
  <2>2. state.mode = "dragging" /\ state.last = p  BY <2>1 DEF Dragging
  <2> QED  BY <2>1, <2>2
<1>4. CASE state \in Touches  BY <1>4 DEF Touches
<1> QED  BY <1>1, <1>2, <1>3, <1>4

LEMMA Owing ==
  ASSUME TypeOK, NEW p \in Positions, NEW q \in Positions
  PROVE  /\ Owed(p, q) \in Int
         /\ Kept(p, q) \in 1 - Scale .. Scale - 1
         /\ Whole(Owed(p, q)) \in Int
         /\ Distance(p, q) \in Nat
<1>1. p \in Int /\ q \in Int /\ Gain \in Int /\ residual \in Int /\ p \in Nat /\ q \in Nat
  BY SensitivityAssumption, PositionsAssumption DEF TypeOK, Positions
<1>2. Owed(p, q) \in Int  BY <1>1 DEF Owed
<1>3. Distance(p, q) \in Nat  BY <1>1 DEF Distance
<1> QED  BY <1>2, <1>3, Rounding DEF Kept

(* A message is handled in one of three ways.                              *)
LEMMA Handled ==
  ASSUME TypeOK, Receive
  PROVE  \E m \in Messages :
           /\ queue # <<>> /\ Len(queue) \in Nat /\ Len(queue) >= 1 /\ m = queue[1]
           /\ Len(queue') = Len(queue) - 1 /\ DOMAIN queue = 1 .. Len(queue)
           /\ queue' \in Seq(Messages)
           /\ \A i \in 1 .. Len(queue) - 1 : queue'[i] = queue[i + 1]
           /\ OnTouch(m) /\ pc = "receive" /\ pc' = "receive"
           /\ UNCHANGED <<finger, gestures, closed>>
<1>1. queue \in Seq(Messages) /\ queue # <<>> /\ queue' = Tail(queue)
  BY DEF TypeOK, Messages, Actions, Receive
<1> DEFINE m == Head(queue)
<1>2. /\ m \in Messages /\ m = queue[1] /\ Len(queue) \in Nat /\ Len(queue) >= 1
      /\ queue' \in Seq(Messages) /\ Len(queue') = Len(queue) - 1
      /\ DOMAIN queue = 1 .. Len(queue)
      /\ \A i \in 1 .. Len(queue) - 1 : queue'[i] = queue[i + 1]
  BY <1>1
<1>3. OnTouch(m) /\ pc = "receive" /\ pc' = "receive" /\ UNCHANGED <<finger, gestures, closed>>
  BY Zenon DEF Receive
<1> QED  BY <1>1, <1>2, <1>3

LEMMA Enqueued ==
  ASSUME TypeOK, NEW action \in Actions, NEW p \in Positions, Send(action, p)
  PROVE  /\ queue \in Seq(Messages) /\ Len(queue) \in Nat /\ DOMAIN queue = 1 .. Len(queue)
         /\ queue' \in Seq(Messages) /\ Len(queue') = Len(queue) + 1 /\ Len(queue') <= QueueCap
         /\ queue' # <<>> /\ DOMAIN queue' = 1 .. Len(queue) + 1
         /\ queue'[Len(queue) + 1] = [action |-> action, at |-> p]
         /\ \A i \in 1 .. Len(queue) : queue'[i] = queue[i]
         /\ UNCHANGED <<closed, pc, pointerVars, deviceVars, history>>
<1>1. queue \in Seq(Messages)  BY DEF TypeOK, Messages, Actions
<1>2. [action |-> action, at |-> p] \in Messages  BY DEF Messages
<1>3. /\ queue' = Append(queue, [action |-> action, at |-> p]) /\ Len(queue) < QueueCap
      /\ UNCHANGED <<closed, pc, pointerVars, deviceVars, history>>
  BY DEF Send
<1> DEFINE x == [action |-> action, at |-> p]
<1> HIDE DEF x
<1>4. x \in Messages /\ queue' = Append(queue, x)  BY <1>2, <1>3 DEF x
<1>5. QueueCap \in Nat  BY BoundsAssumption
<1>6. /\ Len(queue) \in Nat /\ DOMAIN queue = 1 .. Len(queue) /\ queue' \in Seq(Messages)
      /\ Len(queue') = Len(queue) + 1 /\ DOMAIN queue' = 1 .. Len(queue) + 1
      /\ queue'[Len(queue) + 1] = x /\ \A i \in 1 .. Len(queue) : queue'[i] = queue[i]
  BY <1>1, <1>4, AppendProperties
<1>7. Len(queue') <= QueueCap /\ queue' # <<>>  BY <1>3, <1>5, <1>6
<1> QED  BY <1>1, <1>3, <1>6, <1>7 DEF x

----------------------------------------------------------------------------
(* The pointer, apart from the channel and the timer.                      *)
Pointer ==
  /\ state \in {Idle, Consumed} \cup {Dragging(p) : p \in Positions} \cup Touches
  /\ sinceTap \in 0 .. DoubleTapWindow \cup {None}
  /\ residual \in 1 - Scale .. Scale - 1
  /\ device \in Devices
  /\ failures \in 0 .. MaxFailures /\ lost \in SUBSET Buttons
  /\ meaning \in {"none", "motion", "click", "menu", "drag", "several"}
  /\ flawed \in BOOLEAN
  /\ previous \in {"none", "motion", "click", "menu", "drag", "several", "flawed"}

Consistent == Pointer /\ HeldOnlyInDrag /\ Meant /\ OneMeaning /\ CursorFollowsFinger

Safe == TypeOK /\ Consistent

LEMMA Typing == TypeOK => Pointer
  BY DEF TypeOK, Pointer, Devices, Buttons

LEMMA ZeroResidual == 0 \in 1 - Scale .. Scale - 1 /\ Scale \in Nat /\ Gain \in Nat
  BY SensitivityAssumption

LEMMA DownSafe ==
  ASSUME Safe, state.mode = "idle", NEW p \in Positions, OnDown(p)
  PROVE  Consistent' /\ state'.mode = "touched" /\ ~state'.moved
<1> DEFINE touch == [mode |-> "touched", held |-> 0, down |-> p, last |-> p, moved |-> FALSE,
                     pendingDrag |-> sinceTap # None /\ sinceTap < DoubleTapWindow]
<1>1. /\ residual' = 0 /\ state' = touch /\ device' = [device EXCEPT !.cursor = 0]
      /\ meaning' = "none" /\ flawed' = FALSE
      /\ previous' = IF flawed THEN "flawed" ELSE meaning
      /\ UNCHANGED <<sinceTap, failures, lost>>
  BY DEF OnDown
<1>2. (sinceTap # None /\ sinceTap < DoubleTapWindow) \in BOOLEAN  OBVIOUS
<1>3. 0 \in 0 .. LongPress  BY TimesAssumption
<1>4. touch \in Touches  BY <1>2, <1>3 DEF Touches
<1>5. /\ touch.mode = "touched" /\ touch.last = p /\ touch.down = p /\ touch.moved = FALSE
      /\ touch.pendingDrag => sinceTap # None
  OBVIOUS
<1> HIDE DEF touch
<1>6. Pointer /\ HeldOnlyInDrag /\ Meant  BY DEF Safe, Consistent
<1>7. /\ device' \in Devices /\ device'.left = device.left /\ device'.right = device.right
      /\ device'.cursor = 0
  BY <1>1, <1>6 DEF Pointer, Devices
<1>8. previous' \in {"none", "motion", "click", "menu", "drag", "several", "flawed"}
  BY <1>1, <1>6 DEF Pointer
<1>9. Pointer'  BY <1>1, <1>4, <1>6, <1>7, <1>8, ZeroResidual DEF Pointer
<1>10. HeldOnlyInDrag'  BY <1>1, <1>5, <1>6, <1>7 DEF HeldOnlyInDrag
<1>11. touch.pendingDrag => previous' \in {"click", "flawed"}
  BY <1>1, <1>5, <1>6 DEF Meant
<1>12. Meant' /\ OneMeaning'  BY <1>1, <1>5, <1>11 DEF Meant, OneMeaning
<1>13. CursorFollowsFinger'
  <2>1. p \in Int  BY PositionsAssumption DEF Positions
  <2>2. 0 * Scale + 0 = (p - p) * Gain  BY <2>1, ZeroResidual
  <2> QED  BY <1>1, <1>5, <1>7, <2>2 DEF CursorFollowsFinger
<1> QED  BY <1>1, <1>5, <1>9, <1>10, <1>12, <1>13 DEF Consistent

LEMMA CommitSafe ==
  ASSUME Safe, NEW p \in Positions, CommitDrag(p)
  PROVE  Consistent' /\ state'.mode # "idle"
<1>1. PICK done \in 0 .. 1 :
        /\ Emit(<<Press("left")>>, done)
        /\ IF done = 1 THEN state' = Dragging(p) /\ Takes("drag")
           ELSE UNCHANGED <<state, meaning, previous>>
  BY DEF CommitDrag
<1>2. /\ state.mode = "touched" /\ state.pendingDrag
      /\ UNCHANGED <<sinceTap, residual>>
  BY DEF CommitDrag
<1>3. Pointer /\ HeldOnlyInDrag /\ Meant /\ OneMeaning /\ CursorFollowsFinger  BY DEF Safe, Consistent
<1>4. /\ failures' = (IF done < 1 THEN failures + 1 ELSE failures) /\ failures' <= MaxFailures
      /\ device' = IF done = 0 THEN device ELSE AfterEmit(device, Press("left"))
      /\ flawed' = (flawed \/ done < 1)
      /\ lost' = {b \in Buttons : /\ device'[b] = 1
                                  /\ b \in lost \/ (done = 0 /\ Press("left") = ReleaseOf(b))}
  BY <1>1, EmitsOne
<1>5. /\ AfterEmit(device, Press("left")) \in Devices
      /\ AfterEmit(device, Press("left")).cursor = device.cursor
      /\ AfterEmit(device, Press("left"))["left"] = 1
      /\ \A c \in Buttons \ {"left"} : AfterEmit(device, Press("left"))[c] = device[c]
  BY <1>3, Pressed DEF Pointer, Press, Buttons
<1>6. \A b : Press("left") # ReleaseOf(b)
  <2>1. Press("left").value = 1  BY DEF Press
  <2>2. \A b : ReleaseOf(b).value = 0  BY DEF ReleaseOf
  <2> QED  BY <2>1, <2>2
<1>7. device' \in Devices /\ device'["right"] = device["right"]
  BY <1>3, <1>4, <1>5 DEF Pointer, Buttons
<1>8. lost' = {b \in Buttons : device'[b] = 1 /\ b \in lost}
  BY <1>4, <1>6
<1>9. failures' \in 0 .. MaxFailures
  BY <1>3, <1>4, BoundsAssumption DEF Pointer
<1>10. flawed' \in BOOLEAN  BY <1>4, Zenon
<1>11. /\ (device.left = 1 => device["left"] = 1) /\ (device.right = 1 <=> device["right"] = 1)
       /\ (device'.right = 1 <=> device'["right"] = 1)
       /\ (device'.left = 1 <=> device'["left"] = 1)
  OBVIOUS
<1>12. CASE done = 1
  <2>1. /\ state' = Dragging(p) /\ previous' = previous
        /\ meaning' = IF meaning = "none" THEN "drag" ELSE "several"
        /\ flawed' = (flawed \/ FALSE)
    <3>1. (done < 1) = FALSE  BY <1>12
    <3>2. flawed' = (flawed \/ FALSE)  BY ONLY <1>4, <3>1, Zenon
    <3>3. done = 1 => state' = Dragging(p) /\ Takes("drag")  BY ONLY <1>1, Zenon
    <3> QED  BY <1>12, <3>2, <3>3 DEF Takes
  <2>2. state'.mode = "dragging" /\ device'["left"] = 1
    BY <1>4, <1>5, <1>12, <2>1 DEF Dragging
  <2>3. Pointer'
    BY <1>2, <1>3, <1>7, <1>8, <1>9, <1>10, <2>1 DEF Pointer
  <2>4. HeldOnlyInDrag'
    BY <1>3, <1>7, <1>8, <1>11, <2>2 DEF HeldOnlyInDrag, Buttons
  <2>5. ~flawed' => ~flawed  BY <2>1, Zenon
  <2>6. Meant' /\ OneMeaning'
    BY <1>2, <1>3, <2>1, <2>2, <2>5 DEF Meant, OneMeaning
  <2>7. CursorFollowsFinger'  BY <2>2 DEF CursorFollowsFinger
  <2> QED  BY <2>2, <2>3, <2>4, <2>6, <2>7 DEF Consistent
<1>13. CASE done = 0
  <2>1. UNCHANGED <<state, meaning, previous, device>>
    <3>1. done # 1 => UNCHANGED <<state, meaning, previous>>  BY ONLY <1>1, Zenon
    <3> QED  BY <1>4, <1>13, <3>1
  <2>2. flawed'
    <3>1. (done < 1) = TRUE  BY <1>13
    <3> QED  BY ONLY <1>4, <3>1, Zenon
  <2>3. Pointer'
    BY <1>2, <1>3, <1>7, <1>8, <1>9, <1>10, <2>1 DEF Pointer
  <2>4. HeldOnlyInDrag'
    BY <1>3, <1>8, <1>11, <2>1 DEF HeldOnlyInDrag, Buttons
  <2>5. Meant' /\ OneMeaning' /\ CursorFollowsFinger'
    BY <2>2 DEF Meant, OneMeaning, CursorFollowsFinger
  <2> QED  BY <1>2, <2>1, <2>3, <2>4, <2>5 DEF Consistent
<1> QED  BY <1>12, <1>13

(* A click that was begun leaves its button held only if the release was   *)
(* lost; so does the release at the end of a drag.                         *)
LEMMA ClickEmitted ==
  ASSUME Pointer, NEW b \in Buttons, NEW done \in 0 .. 2, Emit(Click(b), done)
  PROVE  /\ failures' \in 0 .. MaxFailures /\ device' \in Devices /\ lost' \in SUBSET Buttons
         /\ device'.cursor = device.cursor
         /\ flawed' = (flawed \/ done < 2) /\ flawed' \in BOOLEAN
         /\ device'[b] = 1 => b \in lost'
         /\ \A c \in Buttons \ {b} :
              device'[c] = device[c] /\ (device[c] = 1 /\ c \in lost => c \in lost')
<1> DEFINE d1 == AfterEmit(device, Press(b))
           d2 == AfterEmit(d1, ReleaseOf(b))
<1>1. Emit(<<Press(b), ReleaseOf(b)>>, done)  BY DEF Click
<1>2. /\ failures' = (IF done < 2 THEN failures + 1 ELSE failures) /\ failures' <= MaxFailures
      /\ device' = IF done = 0 THEN device ELSE IF done = 1 THEN d1 ELSE d2
      /\ flawed' = (flawed \/ done < 2)
      /\ lost' = {c \in Buttons : /\ device'[c] = 1
                                  /\ \/ c \in lost \/ (done = 0 /\ Press(b) = ReleaseOf(c))
                                     \/ done < 2 /\ ReleaseOf(b) = ReleaseOf(c)}
  BY <1>1, EmitsTwo
<1>3. device \in Devices  BY DEF Pointer
<1>4. d1 \in Devices /\ d1.cursor = device.cursor /\ \A c \in Buttons \ {b} : d1[c] = device[c]
  BY <1>3, Pressed DEF Press
<1> HIDE DEF d1
<1>5. /\ d2 \in Devices /\ d2.cursor = d1.cursor /\ d2[b] = 0
      /\ \A c \in Buttons \ {b} : d2[c] = d1[c]
  BY <1>4, Pressed DEF ReleaseOf
<1> HIDE DEF d2
<1>6. /\ device' \in Devices /\ device'.cursor = device.cursor
      /\ \A c \in Buttons \ {b} : device'[c] = device[c]
  BY <1>2, <1>3, <1>4, <1>5
<1>7. device'[b] = 1 => done < 2
  BY <1>2, <1>5
<1>8. failures' \in 0 .. MaxFailures  BY <1>2, BoundsAssumption DEF Pointer
<1>9. flawed' \in BOOLEAN  BY <1>2, Zenon
<1> QED  BY <1>2, <1>6, <1>7, <1>8, <1>9

LEMMA ReleaseEmitted ==
  ASSUME Pointer, NEW b \in Buttons, NEW done \in 0 .. 1, Emit(<<ReleaseOf(b)>>, done)
  PROVE  /\ failures' \in 0 .. MaxFailures /\ device' \in Devices /\ lost' \in SUBSET Buttons
         /\ device'.cursor = device.cursor
         /\ flawed' = (flawed \/ done < 1) /\ flawed' \in BOOLEAN
         /\ device'[b] = 1 => b \in lost'
         /\ \A c \in Buttons \ {b} :
              device'[c] = device[c] /\ (device[c] = 1 /\ c \in lost => c \in lost')
<1> DEFINE d1 == AfterEmit(device, ReleaseOf(b))
<1>1. /\ failures' = (IF done < 1 THEN failures + 1 ELSE failures) /\ failures' <= MaxFailures
      /\ device' = IF done = 0 THEN device ELSE d1
      /\ flawed' = (flawed \/ done < 1)
      /\ lost' = {c \in Buttons :
                    device'[c] = 1 /\ (c \in lost \/ (done = 0 /\ ReleaseOf(b) = ReleaseOf(c)))}
  BY EmitsOne
<1>2. device \in Devices  BY DEF Pointer
<1>3. /\ d1 \in Devices /\ d1.cursor = device.cursor /\ d1[b] = 0
      /\ \A c \in Buttons \ {b} : d1[c] = device[c]
  BY <1>2, Pressed DEF ReleaseOf
<1> HIDE DEF d1
<1>4. /\ device' \in Devices /\ device'.cursor = device.cursor
      /\ \A c \in Buttons \ {b} : device'[c] = device[c]
  BY <1>1, <1>2, <1>3
<1>5. device'[b] = 1 => done = 0
  BY <1>1, <1>3
<1>6. failures' \in 0 .. MaxFailures  BY <1>1, BoundsAssumption DEF Pointer
<1>7. flawed' \in BOOLEAN  BY <1>1, Zenon
<1> QED  BY <1>1, <1>4, <1>5, <1>6, <1>7

(* A handler that ends the touch or the drag with such an event.           *)
LEMMA ReleasedSafe ==
  ASSUME Consistent, state' \in {Idle, Consumed},
         sinceTap' \in 0 .. DoubleTapWindow \cup {None}, residual' \in 1 - Scale .. Scale - 1,
         failures' \in 0 .. MaxFailures, device' \in Devices, lost' \in SUBSET Buttons,
         flawed' \in BOOLEAN,
         \A b \in Buttons : device'[b] = 1 => b \in lost',
         meaning' \in {"none", "motion", "click", "menu", "drag", "several"},
         previous' = previous,
         ~flawed' => /\ ~flawed
                     /\ \/ meaning' = meaning
                        \/ meaning = "none" /\ meaning' \in {"motion", "click", "menu"}
                     /\ state'.mode = "idle" /\ sinceTap' # None => meaning' = "click"
  PROVE  Consistent'
<1>1. state'.mode \in {"idle", "consumed"}  BY DEF Idle, Consumed
<1>2. Pointer'  BY DEF Pointer, Consistent
<1>3. HeldOnlyInDrag'
  <2>1. (device'.left = 1 <=> device'["left"] = 1) /\ (device'.right = 1 <=> device'["right"] = 1)
    OBVIOUS
  <2> QED  BY <1>1, <2>1 DEF HeldOnlyInDrag, Buttons
<1>4. Meant' /\ CursorFollowsFinger'  BY <1>1 DEF Meant, CursorFollowsFinger
<1>5. OneMeaning'  BY <1>1 DEF OneMeaning, Consistent
<1> QED  BY <1>2, <1>3, <1>4, <1>5 DEF Consistent

(* With no drag on, a button is held only if its release was lost.         *)
LEMMA NoneHeld ==
  ASSUME Consistent, state.mode # "dragging"
  PROVE  \A b \in Buttons : device[b] = 1 => b \in lost
<1>1. (device.left = 1 <=> device["left"] = 1) /\ (device.right = 1 <=> device["right"] = 1)
  OBVIOUS
<1> QED  BY <1>1 DEF Consistent, HeldOnlyInDrag, Buttons

LEMMA TapSafe ==
  ASSUME Safe, NEW p \in Positions, Tap(p), state' = Idle, residual' = residual
  PROVE  Consistent'
<1>1. PICK done \in 0 .. 2 :
        /\ Emit(Click("left"), done)
        /\ sinceTap' = IF done = 2 THEN 0 ELSE sinceTap
        /\ IF done > 0 THEN Takes("click") ELSE UNCHANGED <<meaning, previous>>
  BY DEF Tap
<1>2. state.mode = "touched" /\ ~state.moved  BY DEF Tap, NowMoved
<1>3. Consistent  BY DEF Safe
<1>4. Pointer /\ Meant /\ OneMeaning  BY <1>3 DEF Consistent
<1>5. /\ failures' \in 0 .. MaxFailures /\ device' \in Devices /\ lost' \in SUBSET Buttons
      /\ flawed' = (flawed \/ done < 2) /\ flawed' \in BOOLEAN
      /\ device'["left"] = 1 => "left" \in lost'
      /\ \A c \in Buttons \ {"left"} :
           device'[c] = device[c] /\ (device[c] = 1 /\ c \in lost => c \in lost')
  BY <1>1, <1>4, ClickEmitted DEF Buttons
<1>6. \A b \in Buttons : device'[b] = 1 => b \in lost'
  BY <1>2, <1>3, <1>5, NoneHeld
<1>7. sinceTap' \in 0 .. DoubleTapWindow \cup {None} /\ residual' \in 1 - Scale .. Scale - 1
  BY <1>1, <1>4, TimesAssumption DEF Pointer
<1>8. /\ meaning' \in {meaning, "several", "click"} /\ previous' = previous
      /\ meaning = "none" /\ done > 0 => meaning' = "click"
  BY <1>1 DEF Takes
<1>9. meaning' \in {"none", "motion", "click", "menu", "drag", "several"}
  BY <1>4, <1>8 DEF Pointer
<1>10. ~flawed' => ~flawed /\ done = 2
  <2>1. done # 2 => done < 2  OBVIOUS
  <2> QED  BY <1>5, <2>1, Zenon
<1>11. ~flawed' => ~flawed /\ meaning = "none" /\ meaning' = "click"
  BY <1>2, <1>4, <1>8, <1>10 DEF Meant
<1> QED  BY <1>3, <1>5, <1>6, <1>7, <1>8, <1>9, <1>11, ReleasedSafe

LEMMA EndDragSafe ==
  ASSUME Safe, EndDrag, state' = Idle, residual' = residual
  PROVE  Consistent'
<1>1. PICK done \in 0 .. 1 :
        /\ Emit(<<ReleaseOf("left")>>, done)
        /\ sinceTap' = IF done = 1 THEN None ELSE sinceTap
  BY DEF EndDrag
<1>2. state.mode = "dragging" /\ UNCHANGED <<meaning, previous>>  BY DEF EndDrag
<1>3. Consistent  BY DEF Safe
<1>4. Pointer /\ HeldOnlyInDrag  BY <1>3 DEF Consistent
<1>5. /\ failures' \in 0 .. MaxFailures /\ device' \in Devices /\ lost' \in SUBSET Buttons
      /\ flawed' = (flawed \/ done < 1) /\ flawed' \in BOOLEAN
      /\ device'["left"] = 1 => "left" \in lost'
      /\ \A c \in Buttons \ {"left"} :
           device'[c] = device[c] /\ (device[c] = 1 /\ c \in lost => c \in lost')
  BY <1>1, <1>4, ReleaseEmitted DEF Buttons
<1>6. \A b \in Buttons : device'[b] = 1 => b \in lost'
  <2>1. device["right"] = 1 => "right" \in lost  BY <1>4 DEF HeldOnlyInDrag
  <2> QED  BY <1>5, <2>1 DEF Buttons
<1>7. sinceTap' \in 0 .. DoubleTapWindow \cup {None} /\ residual' \in 1 - Scale .. Scale - 1
  BY <1>1, <1>4 DEF Pointer
<1>8. meaning' \in {"none", "motion", "click", "menu", "drag", "several"}
  BY <1>2, <1>4 DEF Pointer
<1>9. ~flawed' => ~flawed /\ sinceTap' = None
  <2>1. done # 1 => done < 1  OBVIOUS
  <2>2. ~flawed' => ~flawed /\ done = 1  BY <1>5, <2>1, Zenon
  <2> QED  BY <1>1, <2>2
<1> QED  BY <1>2, <1>3, <1>5, <1>6, <1>7, <1>8, <1>9, ReleasedSafe

LEMMA ForgetSafe ==
  ASSUME Safe, state.mode # "dragging", state' = Idle, sinceTap' = None, residual' = residual,
         NoEmit, previous' = previous,
         meaning' \in {"none", "motion", "click", "menu", "drag", "several"},
         ~flawed => meaning' = meaning \/ (meaning = "none" /\ meaning' = "motion")
  PROVE  Consistent'
<1>1. Consistent  BY DEF Safe
<1>2. Pointer  BY <1>1 DEF Consistent
<1>3. UNCHANGED <<device, failures, lost, flawed>>  BY DEF NoEmit, deviceVars
<1>4. \A b \in Buttons : device'[b] = 1 => b \in lost'  BY <1>1, <1>3, NoneHeld
<1>5. /\ failures' \in 0 .. MaxFailures /\ device' \in Devices /\ lost' \in SUBSET Buttons
      /\ flawed' \in BOOLEAN /\ residual' \in 1 - Scale .. Scale - 1
  BY <1>2, <1>3 DEF Pointer
<1> QED  BY <1>1, <1>3, <1>4, <1>5, ReleasedSafe

(* Motion is taken for nothing else, if it has not been.                   *)
LEMMA MotionTaken ==
  ASSUME Pointer, Meant, NEW p \in Positions, TakesMotion(p)
  PROVE  /\ meaning' \in {"none", "motion", "click", "menu", "drag", "several"}
         /\ previous' = previous
         /\ state.mode # "touched" => meaning' = meaning
         /\ state.mode = "touched" /\ ~flawed => meaning' = IF NowMoved(p) THEN "motion" ELSE "none"
<1>1. /\ meaning' = IF ~Strays(p) THEN meaning
                    ELSE IF meaning \in {"none", "motion"} THEN "motion" ELSE "several"
      /\ previous' = previous
  BY DEF TakesMotion
<1>2. state.mode # "touched" => ~Strays(p)  BY DEF Strays
<1>3. state.mode = "touched" => (NowMoved(p) <=> state.moved \/ Strays(p))  BY DEF NowMoved, Strays
<1>4. meaning \in {"none", "motion", "click", "menu", "drag", "several"}  BY DEF Pointer
<1>5. state.mode = "touched" /\ ~flawed => meaning = IF state.moved THEN "motion" ELSE "none"
  BY DEF Meant
<1> HIDE DEF Pointer, Meant
<1> QED  BY <1>1, <1>2, <1>3, <1>4, <1>5

LEMMA UpSafe ==
  ASSUME Safe, NEW p \in Positions, OnUp(p)
  PROVE  Consistent' /\ state' = Idle
<1>1. state' = Idle /\ residual' = residual  BY DEF OnUp
<1>2. Tap(p) \/ EndMotion(p) \/ EndDrag \/ EndOther  BY DEF OnUp
<1>3. CASE Tap(p)  BY <1>1, <1>3, TapSafe
<1>4. CASE EndMotion(p)
  <2>1. /\ state.mode = "touched" /\ NowMoved(p) /\ sinceTap' = None /\ NoEmit /\ TakesMotion(p)
    BY <1>4 DEF EndMotion
  <2>2. Pointer /\ Meant  BY DEF Safe, Consistent
  <2>3. /\ meaning' \in {"none", "motion", "click", "menu", "drag", "several"}
        /\ previous' = previous /\ (~flawed => meaning' = "motion")
    BY <2>1, <2>2, MotionTaken
  <2>4. ~flawed => meaning \in {"none", "motion"}  BY <2>1, <2>2 DEF Meant
  <2> QED  BY <1>1, <2>1, <2>3, <2>4, ForgetSafe
<1>5. CASE EndDrag  BY <1>1, <1>5, EndDragSafe
<1>6. CASE EndOther
  <2>1. /\ state.mode # "dragging" /\ sinceTap' = None /\ NoEmit /\ UNCHANGED <<meaning, previous>>
    BY <1>6 DEF EndOther
  <2>2. meaning \in {"none", "motion", "click", "menu", "drag", "several"}
    BY DEF Safe, Consistent, Pointer
  <2> QED  BY <1>1, <2>1, <2>2, ForgetSafe
<1> QED  BY <1>1, <1>2, <1>3, <1>4, <1>5, <1>6

(* The timer's click, of a touch that has not moved.                       *)
LEMMA LongPressSafe ==
  ASSUME Safe, Timed, OnLongPress
  PROVE  Consistent' /\ (state' = state \/ state' = Consumed)
<1>1. PICK done \in 0 .. 2 :
        /\ Emit(Click("right"), done)
        /\ IF done = 2 THEN state' = AfterLongPress /\ sinceTap' = None
           ELSE UNCHANGED <<state, sinceTap>>
        /\ IF done > 0 THEN Takes("menu") ELSE UNCHANGED <<meaning, previous>>
  BY DEF OnLongPress
<1>2. state.mode = "touched" /\ ~state.moved /\ residual' = residual  BY DEF OnLongPress, Timed
<1>3. Consistent  BY DEF Safe
<1>4. Pointer /\ Meant /\ HeldOnlyInDrag  BY <1>3 DEF Consistent
<1>5. /\ failures' \in 0 .. MaxFailures /\ device' \in Devices /\ lost' \in SUBSET Buttons
      /\ flawed' = (flawed \/ done < 2) /\ flawed' \in BOOLEAN
      /\ device'["right"] = 1 => "right" \in lost'
      /\ \A c \in Buttons \ {"right"} :
           device'[c] = device[c] /\ (device[c] = 1 /\ c \in lost => c \in lost')
  BY <1>1, <1>4, ClickEmitted DEF Buttons
<1>6. \A b \in Buttons : device'[b] = 1 => b \in lost'
  BY <1>2, <1>3, <1>5, NoneHeld
<1>7. sinceTap' \in 0 .. DoubleTapWindow \cup {None} /\ residual' \in 1 - Scale .. Scale - 1
  BY <1>1, <1>2, <1>4 DEF Pointer
<1>8. /\ meaning' \in {meaning, "several", "menu"} /\ previous' = previous
      /\ meaning = "none" /\ done > 0 => meaning' = "menu"
  BY <1>1 DEF Takes
<1>9. meaning' \in {"none", "motion", "click", "menu", "drag", "several"}
  BY <1>4, <1>8 DEF Pointer
<1>10. CASE done = 2
  <2>1. state' = Consumed /\ sinceTap' = None  BY <1>1, <1>10 DEF AfterLongPress
  <2>2. ~flawed' => ~flawed  BY <1>5, Zenon
  <2>3. ~flawed' => ~flawed /\ meaning = "none" /\ meaning' = "menu"
    BY <1>2, <1>4, <1>8, <1>10, <2>2 DEF Meant
  <2> QED  BY <1>3, <1>5, <1>6, <1>7, <1>8, <1>9, <2>1, <2>3, ReleasedSafe
<1>11. CASE done # 2
  <2>1. state' = state  BY <1>1, <1>11
  <2>2. flawed'
    <3>1. (done < 2) = TRUE  BY <1>11
    <3> QED  BY ONLY <1>5, <3>1, Zenon
  <2>3. Pointer'  BY <1>4, <1>5, <1>7, <1>8, <1>9, <2>1 DEF Pointer
  <2>4. HeldOnlyInDrag'
    <3>1. /\ (device'.left = 1 <=> device'["left"] = 1)
          /\ (device'.right = 1 <=> device'["right"] = 1)
      OBVIOUS
    <3> QED  BY <1>2, <1>6, <2>1, <3>1 DEF HeldOnlyInDrag, Buttons
  <2>5. Meant' /\ OneMeaning' /\ CursorFollowsFinger'
    BY <2>2 DEF Meant, OneMeaning, CursorFollowsFinger
  <2> QED  BY <2>1, <2>3, <2>4, <2>5 DEF Consistent
<1> QED  BY <1>10, <1>11

(* The end of the worker.                                                  *)
LEMMA CancelSafe ==
  ASSUME Safe, Cancel
  PROVE  Consistent'
<1> DEFINE events == IF state.mode = "dragging" THEN <<ReleaseOf("left")>> ELSE <<>>
<1>1. PICK done \in 0 .. Len(events) :
        /\ Emit(events, done)
        /\ IF done = Len(events) THEN state' = Idle /\ sinceTap' = None /\ residual' = 0
           ELSE UNCHANGED pointerVars
  BY DEF Cancel
<1>2. UNCHANGED <<meaning, previous>>  BY DEF Cancel
<1>3. Consistent  BY DEF Safe
<1>4. Pointer /\ HeldOnlyInDrag /\ Meant  BY <1>3 DEF Consistent
<1>5. meaning' \in {"none", "motion", "click", "menu", "drag", "several"}
  BY <1>2, <1>4 DEF Pointer
<1>6. CASE state.mode = "dragging"
  <2>1. events = <<ReleaseOf("left")>>  BY <1>6
  <2>2. Len(events) = 1  BY <2>1
  <2> HIDE DEF events
  <2>3. done \in 0 .. 1 /\ Emit(<<ReleaseOf("left")>>, done)  BY ONLY <1>1, <2>1, <2>2
  <2>4. /\ failures' \in 0 .. MaxFailures /\ device' \in Devices /\ lost' \in SUBSET Buttons
        /\ flawed' = (flawed \/ done < 1) /\ flawed' \in BOOLEAN
        /\ device'["left"] = 1 => "left" \in lost'
        /\ \A c \in Buttons \ {"left"} :
             device'[c] = device[c] /\ (device[c] = 1 /\ c \in lost => c \in lost')
    BY <1>4, <2>3, ReleaseEmitted DEF Buttons
  <2>5. \A b \in Buttons : device'[b] = 1 => b \in lost'
    <3>1. device["right"] = 1 => "right" \in lost  BY <1>4 DEF HeldOnlyInDrag
    <3> QED  BY <2>4, <3>1 DEF Buttons
  <2>6. CASE done = 1
    <3>1. state' = Idle /\ sinceTap' = None /\ residual' = 0
      BY ONLY <1>1, <2>2, <2>6, Zenon
    <3>2. ~flawed' => ~flawed  BY <2>4, Zenon
    <3> QED  BY <1>2, <1>3, <1>5, <2>4, <2>5, <3>1, <3>2, ZeroResidual, ReleasedSafe
  <2>7. CASE done = 0
    <3>1. UNCHANGED pointerVars
      <4>1. done # Len(events)  BY <2>2, <2>7
      <4> QED  BY ONLY <1>1, <4>1, Zenon
    <3>2. UNCHANGED <<state, sinceTap, residual>>  BY <3>1 DEF pointerVars
    <3>3. flawed'
      <4>1. (done < 1) = TRUE  BY <2>7
      <4> QED  BY ONLY <2>4, <4>1, Zenon
    <3>4. Pointer'  BY <1>2, <1>4, <1>5, <2>4, <3>2 DEF Pointer
    <3>5. HeldOnlyInDrag'
      <4>1. device' = device
        <5>1. device' = IF done = 0 THEN device ELSE AfterEmit(device, ReleaseOf("left"))
          BY <2>3, EmitsOne
        <5> QED  BY <2>7, <5>1
      <4>2. (device'.right = 1 <=> device'["right"] = 1) /\ (device.left = 1 <=> device'.left = 1)
        BY <4>1
      <4> QED  BY <1>4, <1>6, <2>5, <3>2, <4>2 DEF HeldOnlyInDrag, Buttons
    <3>6. Meant' /\ OneMeaning' /\ CursorFollowsFinger'
      BY <3>3 DEF Meant, OneMeaning, CursorFollowsFinger
    <3> QED  BY <3>4, <3>5, <3>6 DEF Consistent
  <2> QED  BY <2>3, <2>6, <2>7
<1>7. CASE state.mode # "dragging"
  <2>1. events = <<>>  BY <1>7
  <2>2. Len(events) = 0  BY <2>1
  <2> HIDE DEF events
  <2>3. done \in 0 .. 0 /\ done = Len(events)  BY <1>1, <2>2
  <2>4. Emit(<<>>, done)  BY ONLY <1>1, <2>1
  <2>5. state' = Idle /\ sinceTap' = None /\ residual' = 0  BY ONLY <1>1, <2>3, Zenon
  <2>6. /\ failures' = failures /\ device' = device /\ flawed' = (flawed \/ FALSE)
        /\ lost' = {b \in Buttons : device'[b] = 1 /\ b \in lost}
    BY <2>3, <2>4, EmitsNothing
  <2>7. flawed' = flawed  BY <1>4, <2>6 DEF Pointer
  <2>8. /\ failures' \in 0 .. MaxFailures /\ device' \in Devices /\ lost' \in SUBSET Buttons
        /\ flawed' \in BOOLEAN
    BY <1>4, <2>6, <2>7 DEF Pointer
  <2>9. \A b \in Buttons : device'[b] = 1 => b \in lost'
    BY <1>3, <1>7, <2>6, NoneHeld
  <2> QED  BY <1>2, <1>3, <1>5, <2>5, <2>7, <2>8, <2>9, ZeroResidual, ReleasedSafe
<1> QED  BY <1>6, <1>7

(* A motion, of no pixels or of some, emitted or not.                      *)
LEMMA MotionEmitted ==
  ASSUME TypeOK, NEW p \in Positions, NEW q \in Positions,
         NEW done \in 0 .. Len(Motion(p, q)), Emit(Motion(p, q), done)
  PROVE  /\ failures' \in 0 .. MaxFailures /\ device' \in Devices
         /\ \A b \in Buttons : device'[b] = device[b]
         /\ lost' = {b \in Buttons : device'[b] = 1 /\ b \in lost}
         /\ flawed' \in BOOLEAN /\ (flawed => flawed')
         /\ done < Len(Motion(p, q)) => flawed'
         /\ ~(done < Len(Motion(p, q))) =>
              device'.cursor = device.cursor + Whole(Owed(p, q))
<1> DEFINE pixels == Whole(Owed(p, q))
           e == [what |-> "cursor", value |-> pixels]
<1>1. pixels \in Int  BY Owing
<1>2. Motion(p, q) = IF pixels = 0 THEN <<>> ELSE <<e>>  BY DEF Motion
<1>3. Pointer  BY Typing
<1>4. done \in 0 .. Len(Motion(p, q)) /\ Emit(Motion(p, q), done)  OBVIOUS
<1> HIDE DEF pixels
<1>5. e \in Moves /\ e.value = pixels /\ e.what = "cursor"  BY <1>1 DEF Moves
<1>6. \A b \in Buttons : e # ReleaseOf(b)
  <2>1. ASSUME NEW b \in Buttons  PROVE ReleaseOf(b).what # "cursor"  BY DEF ReleaseOf, Buttons
  <2> HIDE DEF e
  <2> QED  BY <1>5, <2>1
<1> HIDE DEF e
<1>7. CASE pixels = 0
  <2>1. Motion(p, q) = <<>>  BY <1>2, <1>7
  <2>2. Len(Motion(p, q)) = 0  BY <2>1
  <2>3. done \in 0 .. 0 /\ Emit(<<>>, done)  BY ONLY <1>4, <2>1, <2>2
  <2>4. /\ failures' = failures /\ device' = device /\ flawed' = (flawed \/ FALSE)
        /\ lost' = {b \in Buttons : device'[b] = 1 /\ b \in lost}
    BY <2>3, EmitsNothing
  <2>5. flawed' = flawed  BY <1>3, <2>4 DEF Pointer
  <2>6. ~(done < Len(Motion(p, q)))  BY <2>2, <2>3
  <2>7. device.cursor \in Int  BY <1>3 DEF Pointer, Devices
  <2>8. device.cursor + pixels = device.cursor  BY <1>7, <2>7
  <2> QED  BY <1>3, <2>4, <2>5, <2>6, <2>8 DEF Pointer, pixels
<1>8. CASE pixels # 0
  <2>1. Motion(p, q) = <<e>>  BY <1>2, <1>8
  <2>2. Len(Motion(p, q)) = 1  BY <2>1
  <2>3. done \in 0 .. 1 /\ Emit(<<e>>, done)  BY ONLY <1>4, <2>1, <2>2
  <2>4. /\ failures' = (IF done < 1 THEN failures + 1 ELSE failures) /\ failures' <= MaxFailures
        /\ device' = IF done = 0 THEN device ELSE AfterEmit(device, e)
        /\ flawed' = (flawed \/ done < 1)
        /\ lost' = {b \in Buttons : /\ device'[b] = 1
                                    /\ b \in lost \/ (done = 0 /\ e = ReleaseOf(b))}
    BY <2>3, EmitsOne
  <2>5. lost' = {b \in Buttons : device'[b] = 1 /\ b \in lost}  BY <1>6, <2>4
  <2>6. device \in Devices  BY <1>3 DEF Pointer
  <2>7. /\ AfterEmit(device, e) \in Devices
        /\ AfterEmit(device, e).cursor = device.cursor + pixels
        /\ \A c \in Buttons : AfterEmit(device, e)[c] = device[c]
    BY <1>5, <2>6, Moved
  <2>8. failures' \in 0 .. MaxFailures  BY <1>3, <2>3, <2>4, BoundsAssumption DEF Pointer
  <2>9. flawed' \in BOOLEAN /\ (flawed => flawed')  BY ONLY <2>4, Zenon
  <2>10. done < Len(Motion(p, q)) => flawed'
    <3>1. (done < Len(Motion(p, q))) = (done < 1)  BY <2>2
    <3> QED  BY ONLY <2>4, <3>1, Zenon
  <2>11. ~(done < Len(Motion(p, q))) => done = 1  BY <2>2, <2>3
  <2>12. ~(done < Len(Motion(p, q))) => device'.cursor = device.cursor + pixels
    BY <2>4, <2>7, <2>11
  <2>13. device' \in Devices /\ \A b \in Buttons : device'[b] = device[b]
    BY <2>4, <2>6, <2>7
  <2> QED  BY <2>5, <2>8, <2>9, <2>10, <2>12, <2>13 DEF pixels
<1> QED  BY <1>7, <1>8

LEMMA MoveSafe ==
  ASSUME Safe, NEW p \in Positions, MoveCursor(p)
  PROVE  Consistent' /\ state'.mode # "idle"
<1> DEFINE q == state.last
           n == Len(Motion(q, p))
<1>1. PICK done \in 0 .. n :
        /\ Emit(Motion(q, p), done)
        /\ state' = IF done < n THEN state
                    ELSE IF state.mode = "dragging" THEN Dragging(p)
                    ELSE [state EXCEPT !.last = p, !.moved = NowMoved(p)]
  BY DEF MoveCursor
<1>2. /\ residual' = Kept(q, p) /\ sinceTap' = sinceTap /\ TakesMotion(p)
      /\ \/ state.mode = "touched" /\ ~(state.pendingDrag /\ NowMoved(p))
         \/ state.mode = "dragging"
  BY DEF MoveCursor
<1>3. TypeOK /\ Consistent  BY DEF Safe
<1>4. Pointer /\ HeldOnlyInDrag /\ Meant /\ OneMeaning /\ CursorFollowsFinger
  BY <1>3 DEF Consistent
<1>5. /\ state.mode = "touched" => state \in Touches
      /\ state.mode = "dragging" => state.last \in Positions
  BY <1>3, Modes
<1>5a. /\ meaning' \in {"none", "motion", "click", "menu", "drag", "several"}
       /\ previous' = previous
       /\ state.mode # "touched" => meaning' = meaning
       /\ state.mode = "touched" /\ ~flawed => meaning' = IF NowMoved(p) THEN "motion" ELSE "none"
  BY <1>2, <1>4, MotionTaken
<1>6. q \in Positions  BY <1>2, <1>5 DEF Touches
<1> HIDE DEF q
<1>7. Kept(q, p) \in 1 - Scale .. Scale - 1 /\ Owed(q, p) \in Int /\ Whole(Owed(q, p)) \in Int
  BY <1>3, <1>6, Owing
<1>8. /\ failures' \in 0 .. MaxFailures /\ device' \in Devices
      /\ \A b \in Buttons : device'[b] = device[b]
      /\ lost' = {b \in Buttons : device'[b] = 1 /\ b \in lost}
      /\ flawed' \in BOOLEAN /\ (flawed => flawed')
      /\ done < n => flawed'
      /\ ~(done < n) => device'.cursor = device.cursor + Whole(Owed(q, p))
  BY <1>1, <1>3, <1>6, MotionEmitted
<1> HIDE DEF n
<1>9. NowMoved(p) \in BOOLEAN  BY DEF NowMoved
<1>10. /\ state' \in {Idle, Consumed} \cup {Dragging(r) : r \in Positions} \cup Touches
       /\ state'.mode = state.mode
       /\ state.mode = "touched" =>
            state'.pendingDrag = state.pendingDrag /\ state'.down = state.down
       /\ state.mode = "touched" /\ ~(done < n) => state'.last = p /\ state'.moved = NowMoved(p)
  <2>1. CASE done < n
    <3>1. state' = state  BY <1>1, <2>1
    <3> QED  BY <1>4, <2>1, <3>1 DEF Pointer
  <2>2. CASE ~(done < n) /\ state.mode = "dragging"
    <3>1. state' = Dragging(p)  BY <1>1, <2>2
    <3>2. Dragging(p).mode = "dragging"  BY DEF Dragging
    <3> QED  BY <2>2, <3>1, <3>2
  <2>3. CASE ~(done < n) /\ state.mode = "touched"
    <3>1. state' = [state EXCEPT !.last = p, !.moved = NowMoved(p)]  BY <1>1, <2>3
    <3>2. state \in Touches  BY <1>5, <2>3
    <3> DEFINE m == NowMoved(p)
    <3>3. m \in BOOLEAN /\ state' = [state EXCEPT !.last = p, !.moved = m]  BY <1>9, <3>1
    <3> HIDE DEF m
    <3>4. /\ state' \in Touches /\ state'.mode = state.mode /\ state'.last = p /\ state'.moved = m
          /\ state'.pendingDrag = state.pendingDrag /\ state'.down = state.down
      BY <3>2, <3>3 DEF Touches
    <3> QED  BY <3>4 DEF m
  <2> QED  BY <1>2, <2>1, <2>2, <2>3
<1>11. Pointer'  BY <1>2, <1>4, <1>7, <1>8, <1>10, <1>5a DEF Pointer
<1>12. HeldOnlyInDrag'
  <2>1. /\ (device.left = 1 <=> device["left"] = 1) /\ (device.right = 1 <=> device["right"] = 1)
        /\ (device'.left = 1 <=> device'["left"] = 1)
        /\ (device'.right = 1 <=> device'["right"] = 1)
    OBVIOUS
  <2> QED  BY <1>4, <1>8, <1>10, <2>1 DEF HeldOnlyInDrag, Buttons
<1>13. Meant' /\ OneMeaning'
  <2>1. CASE flawed'  BY <2>1 DEF Meant, OneMeaning
  <2>2. CASE ~flawed' /\ state.mode = "touched"
    <3>1. /\ ~flawed /\ state'.mode = "touched" /\ state'.moved = NowMoved(p)
          /\ state'.pendingDrag = state.pendingDrag
          /\ meaning' = (IF NowMoved(p) THEN "motion" ELSE "none") /\ previous' = previous
          /\ ~(state.pendingDrag /\ NowMoved(p))
      BY <1>2, <1>8, <1>10, <1>5a, <2>2
    <3>2. state.pendingDrag => previous \in {"click", "flawed"}  BY <1>4, <2>2, <3>1 DEF Meant
    <3> QED  BY <3>1, <3>2 DEF Meant, OneMeaning
  <2>3. CASE ~flawed' /\ state.mode = "dragging"
    <3>1. ~flawed /\ state'.mode = "dragging" /\ meaning' = meaning /\ previous' = previous
      BY <1>8, <1>10, <1>5a, <2>3
    <3> QED  BY <1>4, <3>1 DEF Meant, OneMeaning
  <2> QED  BY <1>2, <2>1, <2>2, <2>3
<1>14. CursorFollowsFinger'
  <2> SUFFICES ASSUME state'.mode = "touched", ~flawed'
               PROVE  device'.cursor * Scale + residual' = (state'.last - state'.down) * Gain
    BY DEF CursorFollowsFinger
  <2>1. ~flawed /\ ~(done < n) /\ state.mode = "touched"  BY <1>8, <1>10
  <2>2. /\ device.cursor * Scale + residual = (q - state.down) * Gain
    BY <1>4, <2>1 DEF CursorFollowsFinger, q
  <2>3. /\ state'.last = p /\ state'.down = state.down
        /\ device'.cursor = device.cursor + Whole(Owed(q, p))
        /\ residual' = Owed(q, p) - Whole(Owed(q, p)) * Scale
    BY <1>2, <1>8, <1>10, <2>1 DEF Kept
  <2>4. /\ device.cursor \in Int /\ residual \in Int /\ p \in Int /\ q \in Int
        /\ state.down \in Int
    BY <1>4, <1>5, <1>6, <2>1, SensitivityAssumption, PositionsAssumption
    DEF Pointer, Devices, Touches, Positions
  <2>5. Owed(q, p) = (p - q) * Gain + residual  BY DEF Owed
  <2> DEFINE pixels == Whole(Owed(q, p))
             owed == Owed(q, p)
  <2>6. pixels \in Int /\ owed \in Int  BY <1>7
  <2>7. owed = (p - q) * Gain + residual  BY <2>5
  <2> HIDE DEF pixels, owed
  <2>8. (device.cursor + pixels) * Scale + (owed - pixels * Scale) = (p - state.down) * Gain
    <3> DEFINE cursor == device.cursor
               rest == residual
               down == state.down
    <3>1. /\ cursor \in Int /\ rest \in Int /\ p \in Int /\ q \in Int /\ down \in Int
          /\ cursor * Scale + rest = (q - down) * Gain /\ owed = (p - q) * Gain + rest
      BY <2>2, <2>4, <2>7
    <3> HIDE DEF cursor, rest, down
    <3>2. (cursor + pixels) * Scale + (owed - pixels * Scale) = (p - down) * Gain
      <4>1. Scale \in Int /\ Gain \in Int  BY SensitivityAssumption
      <4>2. /\ (cursor + pixels) * Scale = cursor * Scale + pixels * Scale
            /\ (p - down) * Gain = (p - q) * Gain + (q - down) * Gain
        BY ONLY <2>6, <3>1, <4>1
      <4> DEFINE a == cursor * Scale
                 b == pixels * Scale
                 c == (p - q) * Gain
                 d == (q - down) * Gain
      <4>3. a \in Int /\ b \in Int /\ c \in Int /\ d \in Int  BY ONLY <2>6, <3>1, <4>1
      <4>4. /\ a + rest = d /\ owed = c + rest
            /\ (cursor + pixels) * Scale = a + b /\ (p - down) * Gain = c + d
        BY ONLY <3>1, <4>2
      <4> HIDE DEF a, b, c, d
      <4>5. (a + b) + (owed - b) = c + d  BY ONLY <2>6, <3>1, <4>3, <4>4
      <4> QED  BY ONLY <4>4, <4>5 DEF b
    <3> QED  BY <3>2 DEF cursor, down
  <2> QED  BY <2>3, <2>8 DEF pixels, owed
<1> QED  BY <1>2, <1>10, <1>11, <1>12, <1>13, <1>14 DEF Consistent

(* Nothing that the pointer's invariants speak of.                         *)
LEMMA UnchangedSafe ==
  ASSUME Consistent, UNCHANGED <<pointerVars, deviceVars, history>>
  PROVE  Consistent'
<1> USE DEF pointerVars, deviceVars, history
<1>1. Pointer'  BY DEF Consistent, Pointer
<1>2. HeldOnlyInDrag'  BY DEF Consistent, HeldOnlyInDrag
<1>3. Meant'  BY DEF Consistent, Meant
<1>4. OneMeaning'  BY DEF Consistent, OneMeaning
<1>5. CursorFollowsFinger'  BY DEF Consistent, CursorFollowsFinger
<1> QED  BY <1>1, <1>2, <1>3, <1>4, <1>5 DEF Consistent

LEMMA TickSafe ==
  ASSUME Safe, Tick
  PROVE  Consistent' /\ state'.mode = state.mode /\ (state.mode = "touched" => state'.moved = state.moved)
<1>1. /\ state' = IF state.mode = "touched" /\ state.held < LongPress
                  THEN [state EXCEPT !.held = @ + 1] ELSE state
      /\ sinceTap' = IF sinceTap # None /\ sinceTap < DoubleTapWindow THEN sinceTap + 1 ELSE sinceTap
      /\ UNCHANGED <<residual, device, failures, lost, meaning, flawed, previous>>
  BY DEF Tick, deviceVars, history
<1>2. TypeOK /\ Consistent  BY DEF Safe
<1>3. Pointer /\ HeldOnlyInDrag /\ Meant /\ OneMeaning /\ CursorFollowsFinger
  BY <1>2 DEF Consistent
<1>4. state.mode = "touched" => state \in Touches  BY <1>2, Modes
<1>5. /\ state' \in {Idle, Consumed} \cup {Dragging(r) : r \in Positions} \cup Touches
      /\ state'.mode = state.mode
      /\ state.mode = "touched" =>
           /\ state'.pendingDrag = state.pendingDrag /\ state'.down = state.down
           /\ state'.last = state.last /\ state'.moved = state.moved
  <2>1. CASE state.mode = "touched" /\ state.held < LongPress
    <3>1. state' = [state EXCEPT !.held = @ + 1] /\ state \in Touches  BY <1>1, <1>4, <2>1
    <3>2. state.held + 1 \in 0 .. LongPress  BY <2>1, <3>1, TimesAssumption DEF Touches
    <3>3. /\ state' \in Touches /\ state'.mode = state.mode /\ state'.last = state.last
          /\ state'.pendingDrag = state.pendingDrag /\ state'.down = state.down
          /\ state'.moved = state.moved
      BY <3>1, <3>2 DEF Touches
    <3> QED  BY <3>3
  <2>2. CASE ~(state.mode = "touched" /\ state.held < LongPress)
    <3>1. state' = state  BY <1>1, <2>2
    <3> QED  BY <1>3, <3>1 DEF Pointer
  <2> QED  BY <2>1, <2>2
<1>6. sinceTap' \in 0 .. DoubleTapWindow \cup {None} /\ (sinceTap' # None => sinceTap # None)
  BY <1>1, <1>3, TimesAssumption, NoneAssumption DEF Pointer
<1>7. Pointer'  BY <1>1, <1>3, <1>5, <1>6 DEF Pointer
<1>8. HeldOnlyInDrag'  BY <1>1, <1>3, <1>5 DEF HeldOnlyInDrag
<1>9. Meant'  BY <1>1, <1>3, <1>5, <1>6 DEF Meant
<1>10. OneMeaning'  BY <1>1, <1>3 DEF OneMeaning
<1>11. CursorFollowsFinger'  BY <1>1, <1>3, <1>5 DEF CursorFollowsFinger
<1> QED  BY <1>5, <1>7, <1>8, <1>9, <1>10, <1>11 DEF Consistent

----------------------------------------------------------------------------
(* The channel.                                                            *)
Channel ==
  /\ finger \in Positions \cup {None} /\ gestures \in 0 .. MaxGestures
  /\ queue \in Seq(Messages) /\ Len(queue) <= QueueCap
  /\ closed \in BOOLEAN /\ pc \in {"receive", "due", "ended"}

LEMMA Parts == TypeOK <=> Channel /\ Pointer
  BY DEF TypeOK, Channel, Pointer, Messages, Actions, Devices, Buttons

LEMMA PartsNext == (Channel /\ Pointer)' => TypeOK'
<1>1. Channel /\ Pointer => TypeOK  BY Parts
<1> QED  BY <1>1, PTL

(* A handler leaves the pointer idle exactly when the finger was lifted.   *)
LEMMA TouchSafe ==
  ASSUME Safe, NEW m \in Messages, OnTouch(m), m.action = "DOWN" <=> state.mode = "idle"
  PROVE  Consistent' /\ (state'.mode = "idle" <=> m.action \in Lifts)
<1>1. m.at \in Positions /\ m.action \in Actions  BY DEF Messages
<1>2. CASE m.action = "DOWN" /\ OnDown(m.at)
  BY <1>1, <1>2, DownSafe DEF Lifts
<1>3. CASE m.action = "MOVE" /\ OnMove(m.at)
  <2>1. CASE CommitDrag(m.at)  BY <1>1, <1>3, <2>1, CommitSafe DEF Lifts
  <2>2. CASE MoveCursor(m.at)  BY <1>1, <1>3, <2>2, MoveSafe DEF Lifts
  <2>3. CASE IgnoreMove
    <3>1. UNCHANGED <<pointerVars, deviceVars, history>>
      BY <2>3 DEF IgnoreMove, NoEmit, history
    <3>2. Consistent'  BY <3>1, UnchangedSafe DEF Safe
    <3>3. state' = state  BY <3>1 DEF pointerVars
    <3> QED  BY <1>3, <3>2, <3>3 DEF Lifts
  <2> QED  BY <1>3, <2>1, <2>2, <2>3 DEF OnMove
<1>4. CASE m.action \in {"UP", "CANCEL"} /\ OnUp(m.at)
  <2>1. Consistent' /\ state' = Idle  BY <1>1, <1>4, UpSafe
  <2> QED  BY <1>4, <2>1 DEF Lifts, Idle
<1> QED  BY <1>2, <1>3, <1>4 DEF OnTouch

LEMMA ReceiveSafe ==
  ASSUME Safe, InTurn, Receive
  PROVE  Channel' /\ Consistent' /\ InTurn' /\ Timed'
<1>1. TypeOK  BY DEF Safe
<1>2. PICK m \in Messages :
           /\ queue # <<>> /\ Len(queue) \in Nat /\ Len(queue) >= 1 /\ m = queue[1]
           /\ Len(queue') = Len(queue) - 1 /\ DOMAIN queue = 1 .. Len(queue)
           /\ queue' \in Seq(Messages)
           /\ \A i \in 1 .. Len(queue) - 1 : queue'[i] = queue[i + 1]
           /\ OnTouch(m) /\ pc = "receive" /\ pc' = "receive"
           /\ UNCHANGED <<finger, gestures, closed>>
  BY <1>1, Handled
<1>3. /\ m.action = "DOWN" <=> state.mode = "idle"
      /\ queue[Len(queue)].action \in Lifts <=> finger = None
      /\ \A i \in 1 .. Len(queue) - 1 :
           queue[i + 1].action = "DOWN" <=> queue[i].action \in Lifts
  BY <1>2 DEF InTurn
<1>4. Consistent' /\ (state'.mode = "idle" <=> m.action \in Lifts)
  BY <1>2, <1>3, TouchSafe
<1>5. Channel'
  <2>1. Channel  BY <1>1, Parts
  <2>2. QueueCap \in Nat  BY BoundsAssumption
  <2>3. Len(queue') <= QueueCap  BY <1>2, <2>1, <2>2 DEF Channel
  <2> QED  BY <1>2, <2>1, <2>3 DEF Channel
<1>6. Timed'  BY <1>2 DEF Timed
<1>7. queue' = <<>> => (state'.mode = "idle" <=> finger' = None)
  <2>1. queue' = <<>> => Len(queue') = 0  OBVIOUS
  <2>2. queue' = <<>> => Len(queue) = 1  BY <1>2, <2>1
  <2> QED  BY <1>2, <1>3, <1>4, <2>2
<1>8. queue' # <<>> =>
        /\ queue'[1].action = "DOWN" <=> state'.mode = "idle"
        /\ queue'[Len(queue')].action \in Lifts <=> finger' = None
  <2> SUFFICES ASSUME queue' # <<>>
               PROVE  /\ queue'[1].action = "DOWN" <=> state'.mode = "idle"
                      /\ queue'[Len(queue')].action \in Lifts <=> finger' = None
    OBVIOUS
  <2>1. Len(queue') >= 1  BY <1>2
  <2>2. /\ 1 \in 1 .. Len(queue) - 1 /\ Len(queue') \in 1 .. Len(queue) - 1
        /\ Len(queue') + 1 = Len(queue) /\ 1 + 1 = 2
    BY <1>2, <2>1
  <2>3. queue'[1] = queue[2] /\ queue'[Len(queue')] = queue[Len(queue)]
    <3>1. queue'[1] = queue[1 + 1] /\ queue'[Len(queue')] = queue[Len(queue') + 1]
      BY ONLY <1>2, <2>2, Zenon
    <3> QED  BY ONLY <2>2, <3>1
  <2>4. queue[2].action = "DOWN" <=> queue[1].action \in Lifts
    <3>1. queue[1 + 1].action = "DOWN" <=> queue[1].action \in Lifts
      BY ONLY <1>3, <2>2, Zenon
    <3> QED  BY ONLY <2>2, <3>1
  <2> QED  BY <1>2, <1>3, <1>4, <2>3, <2>4
<1>9. \A i \in 1 .. Len(queue') - 1 :
        queue'[i + 1].action = "DOWN" <=> queue'[i].action \in Lifts
  <2> SUFFICES ASSUME NEW i \in 1 .. Len(queue') - 1
               PROVE  queue'[i + 1].action = "DOWN" <=> queue'[i].action \in Lifts
    OBVIOUS
  <2>1. i \in 1 .. Len(queue) - 1 /\ i + 1 \in 1 .. Len(queue) - 1  BY <1>2
  <2>2. queue'[i] = queue[i + 1] /\ queue'[i + 1] = queue[i + 1 + 1]  BY <1>2, <2>1
  <2>3. queue[i + 1 + 1].action = "DOWN" <=> queue[i + 1].action \in Lifts
    BY ONLY <1>3, <2>1, Zenon
  <2> QED  BY <2>2, <2>3
<1>10. InTurn'  BY <1>7, <1>8, <1>9 DEF InTurn
<1> QED  BY <1>4, <1>5, <1>6, <1>10

LEMMA SendSafe ==
  ASSUME Safe, InTurn, Timed, NEW action \in Actions, NEW p \in Positions, Send(action, p),
         finger' \in Positions \cup {None}, gestures' \in 0 .. MaxGestures,
         action = "DOWN" <=> finger = None, action \in Lifts <=> finger' = None
  PROVE  Channel' /\ Consistent' /\ InTurn' /\ Timed'
<1>1. TypeOK  BY DEF Safe
<1> DEFINE x == [action |-> action, at |-> p]
           n == Len(queue)
<1>2. /\ queue \in Seq(Messages) /\ n \in Nat
      /\ queue' \in Seq(Messages) /\ Len(queue') = n + 1 /\ Len(queue') <= QueueCap
      /\ queue' # <<>> /\ queue'[n + 1] = x
      /\ \A i \in 1 .. n : queue'[i] = queue[i]
      /\ UNCHANGED <<closed, pc, pointerVars, deviceVars, history>>
  BY <1>1, Enqueued
<1>3. x.action = action  OBVIOUS
<1> HIDE DEF x
<1>4. Consistent' /\ state' = state
  BY <1>2, UnchangedSafe DEF Safe, pointerVars
<1>5. Channel'
  <2>1. Channel  BY <1>1, Parts
  <2> QED  BY <1>2, <2>1 DEF Channel
<1>6. Timed'  BY <1>2, <1>4 DEF Timed
<1>7. ASSUME pc' # "ended"
      PROVE  /\ queue'[1].action = "DOWN" <=> state'.mode = "idle"
             /\ queue'[Len(queue')].action \in Lifts <=> finger' = None
             /\ \A i \in 1 .. Len(queue') - 1 :
                  queue'[i + 1].action = "DOWN" <=> queue'[i].action \in Lifts
  <2>1. pc # "ended"  BY <1>2, <1>7
  <2>2. queue'[Len(queue')].action \in Lifts <=> finger' = None  BY <1>2, <1>3
  <2>3. CASE queue = <<>>
    <3>1. n = 0  BY <2>3
    <3>2. state.mode = "idle" <=> finger = None  BY <2>1, <2>3 DEF InTurn
    <3>3. n + 1 = 1 /\ queue'[1] = x  BY <1>2, <3>1
    <3>4. 1 .. Len(queue') - 1 = {}
      <4>1. Len(queue') = 1  BY ONLY <1>2, <3>3
      <4> HIDE DEF n
      <4> QED  BY ONLY <4>1
    <3>5. queue'[1].action = "DOWN" <=> state'.mode = "idle"
      BY <1>3, <1>4, <3>2, <3>3
    <3> QED  BY ONLY <2>2, <3>4, <3>5
  <2>4. CASE queue # <<>>
    <3>1. n >= 1  BY <1>2, <2>4
    <3>2. /\ queue[1].action = "DOWN" <=> state.mode = "idle"
          /\ queue[n].action \in Lifts <=> finger = None
          /\ \A i \in 1 .. n - 1 : queue[i + 1].action = "DOWN" <=> queue[i].action \in Lifts
      BY <2>1, <2>4 DEF InTurn
    <3>3. queue'[1] = queue[1]  BY <1>2, <3>1
    <3>4. ASSUME NEW i \in 1 .. Len(queue') - 1
          PROVE  queue'[i + 1].action = "DOWN" <=> queue'[i].action \in Lifts
      <4>1. i \in 1 .. n /\ queue'[i] = queue[i]  BY <1>2
      <4>2. CASE i = n
        <5>1. queue'[i + 1] = x  BY <1>2, <4>2
        <5> QED  BY <1>3, <3>2, <4>1, <4>2, <5>1
      <4>3. CASE i # n
        <5>1. i \in 1 .. n - 1 /\ i + 1 \in 1 .. n  BY <1>2, <4>1, <4>3
        <5>2. queue'[i + 1] = queue[i + 1]  BY <1>2, <5>1
        <5>3. queue[i + 1].action = "DOWN" <=> queue[i].action \in Lifts
          BY ONLY <3>2, <5>1, Zenon
        <5> QED  BY <4>1, <5>2, <5>3
      <4> QED  BY <4>2, <4>3
    <3> QED  BY <1>4, <2>2, <3>2, <3>3, <3>4
  <2> QED  BY <2>3, <2>4
<1>8. InTurn'  BY <1>2, <1>7 DEF InTurn
<1> QED  BY <1>4, <1>5, <1>6, <1>8

----------------------------------------------------------------------------
LEMMA Initially == Init => IInv
<1> SUFFICES ASSUME Init  PROVE IInv
  OBVIOUS
<1> USE DEF Init
<1>1. state.mode = "idle"  BY DEF Idle
<1>2. /\ queue \in Seq(Messages) /\ Len(queue) = 0 /\ QueueCap >= 0 /\ 0 \in 0 .. MaxGestures
      /\ 0 \in 0 .. MaxFailures
  BY BoundsAssumption
<1>3. Channel  BY <1>2 DEF Channel
<1>4. Pointer
  <2>1. device \in Devices  BY DEF Devices
  <2>2. residual \in 1 - Scale .. Scale - 1  BY ZeroResidual
  <2>3. failures \in 0 .. MaxFailures  BY <1>2
  <2>4. flawed \in BOOLEAN  BY Zenon
  <2>5. lost \in SUBSET Buttons  OBVIOUS
  <2> HIDE DEF Init
  <2> QED  BY <2>1, <2>2, <2>3, <2>4, <2>5, Init DEF Pointer, Init
<1>5. TypeOK  BY <1>3, <1>4, Parts
<1>6. InTurn  BY <1>1, <1>2 DEF InTurn
<1>7. Timed /\ HeldOnlyInDrag /\ Meant  BY <1>1 DEF Timed, HeldOnlyInDrag, Meant
<1>8. OneMeaning /\ CursorFollowsFinger  BY <1>1 DEF OneMeaning, CursorFollowsFinger
<1> QED  BY <1>5, <1>6, <1>7, <1>8 DEF IInv

LEMMA Preserved == IInv /\ [Next]_vars => IInv'
<1> SUFFICES ASSUME IInv, [Next]_vars  PROVE IInv'
  OBVIOUS
<1>1. TypeOK /\ InTurn /\ Timed  BY DEF IInv
<1>2. Channel /\ Pointer  BY <1>1, Parts
<1>3. Consistent /\ Safe  BY <1>2 DEF IInv, Safe, Consistent
<1>4. SUFFICES Channel' /\ Consistent' /\ InTurn' /\ Timed'
  <2>1. Pointer'  BY <1>4 DEF Consistent
  <2>2. TypeOK'  BY <1>4, <2>1, PartsNext
  <2> QED  BY <1>4, <2>2 DEF IInv, Consistent
<1>5. CASE Receive  BY <1>1, <1>3, <1>5, ReceiveSafe
<1>6. CASE TimesOut
  <2>1. /\ state.mode = "touched" /\ ~state.moved /\ pc = "receive" /\ pc' = "due"
        /\ UNCHANGED <<channelVars, pointerVars, deviceVars, history>>
    BY <1>6 DEF TimesOut
  <2>2. Consistent'  BY <1>3, <2>1, UnchangedSafe
  <2>3. UNCHANGED <<finger, gestures, queue, closed, state>>  BY <2>1 DEF channelVars, pointerVars
  <2>4. Channel'  BY <1>2, <2>1, <2>3 DEF Channel
  <2>5. InTurn'  BY <1>1, <2>1, <2>3 DEF InTurn
  <2>6. Timed'  BY <2>1, <2>3 DEF Timed
  <2> QED  BY <2>2, <2>4, <2>5, <2>6
<1>7. CASE OnLongPress
  <2>1. pc = "due" /\ pc' = "receive" /\ UNCHANGED <<finger, gestures, queue, closed>>
    BY <1>7 DEF OnLongPress, channelVars
  <2>2. Consistent' /\ (state' = state \/ state' = Consumed)
    BY <1>1, <1>3, <1>7, LongPressSafe
  <2>3. state.mode # "idle" /\ state'.mode # "idle"
    BY <1>1, <2>1, <2>2 DEF Timed, Consumed
  <2>4. Channel'  BY <1>2, <2>1 DEF Channel
  <2>5. InTurn'  BY <1>1, <2>1, <2>3 DEF InTurn
  <2>6. Timed'  BY <2>1 DEF Timed
  <2> QED  BY <2>2, <2>4, <2>5, <2>6
<1>8. CASE Cancel
  <2>1. pc' = "ended" /\ UNCHANGED <<finger, gestures, queue, closed>>
    BY <1>8 DEF Cancel, channelVars
  <2>2. Consistent'  BY <1>3, <1>8, CancelSafe
  <2>3. Channel'  BY <1>2, <2>1 DEF Channel
  <2> QED  BY <2>1, <2>2, <2>3 DEF InTurn, Timed
<1>9. CASE FingerDown
  <2>1. /\ finger = None /\ gestures < MaxGestures /\ gestures' = gestures + 1
        /\ finger' \in Positions /\ Send("DOWN", finger')
    BY <1>9 DEF FingerDown
  <2>2. gestures' \in 0 .. MaxGestures  BY <1>2, <2>1, BoundsAssumption DEF Channel
  <2>3. finger' # None  BY <2>1, NoneAssumption, PositionsAssumption DEF Positions
  <2> DEFINE action == "DOWN"
  <2>4. /\ action \in Actions /\ (action = "DOWN" <=> finger = None)
        /\ (action \in Lifts <=> finger' = None)
    BY <2>1, <2>3 DEF Actions, Lifts
  <2>5. Send(action, finger')  BY <2>1
  <2> HIDE DEF action
  <2> QED  BY <1>1, <1>3, <2>1, <2>2, <2>4, <2>5, SendSafe
<1>10. CASE FingerMoves
  <2>1. /\ finger # None /\ gestures' = gestures
        /\ finger' \in Positions /\ Send("MOVE", finger')
    BY <1>10 DEF FingerMoves
  <2>2. gestures' \in 0 .. MaxGestures  BY <1>2, <2>1 DEF Channel
  <2>3. finger' # None  BY <2>1, NoneAssumption, PositionsAssumption DEF Positions
  <2> DEFINE action == "MOVE"
  <2>4. /\ action \in Actions /\ (action = "DOWN" <=> finger = None)
        /\ (action \in Lifts <=> finger' = None)
    BY <2>1, <2>3 DEF Actions, Lifts
  <2>5. Send(action, finger')  BY <2>1
  <2> HIDE DEF action
  <2> QED  BY <1>1, <1>3, <2>1, <2>2, <2>4, <2>5, SendSafe
<1>11. CASE FingerUp
  <2>1. PICK action \in {"UP", "CANCEL"}, p \in Positions : Send(action, p)
    BY <1>11 DEF FingerUp
  <2>2. finger # None /\ finger' = None /\ gestures' = gestures
    BY <1>11 DEF FingerUp
  <2>3. gestures' \in 0 .. MaxGestures  BY <1>2, <2>2 DEF Channel
  <2>4. /\ action \in Actions /\ (action = "DOWN" <=> finger = None)
        /\ (action \in Lifts <=> finger' = None)
    BY <2>2 DEF Actions, Lifts
  <2> QED  BY <1>1, <1>3, <2>1, <2>2, <2>3, <2>4, SendSafe
<1>12. CASE SessionEnds
  <2>1. /\ closed' = TRUE
        /\ UNCHANGED <<finger, gestures, queue, pc, pointerVars, deviceVars, history>>
    BY <1>12 DEF SessionEnds
  <2>2. Consistent' /\ state' = state  BY <1>3, <2>1, UnchangedSafe DEF pointerVars
  <2>3. Channel'  BY <1>2, <2>1 DEF Channel
  <2>4. InTurn'  BY <1>1, <2>1, <2>2 DEF InTurn
  <2>5. Timed'  BY <1>1, <2>1, <2>2 DEF Timed
  <2> QED  BY <2>2, <2>3, <2>4, <2>5
<1>13. CASE Tick
  <2>1. UNCHANGED <<finger, gestures, queue, closed, pc>>  BY <1>13 DEF Tick, channelVars
  <2>2. /\ Consistent' /\ state'.mode = state.mode
        /\ state.mode = "touched" => state'.moved = state.moved
    BY <1>3, <1>13, TickSafe
  <2>3. Channel'  BY <1>2, <2>1 DEF Channel
  <2>4. InTurn'  BY <1>1, <2>1, <2>2 DEF InTurn
  <2>5. Timed'  BY <1>1, <2>1, <2>2 DEF Timed
  <2> QED  BY <2>2, <2>3, <2>4, <2>5
<1>14. CASE UNCHANGED vars
  <2>1. /\ UNCHANGED <<finger, gestures, queue, closed, pc, state>>
        /\ UNCHANGED <<pointerVars, deviceVars, history>>
    BY <1>14 DEF vars, channelVars, pointerVars
  <2>2. Consistent'  BY <1>3, <2>1, UnchangedSafe
  <2>3. Channel'  BY <1>2, <2>1 DEF Channel
  <2>4. InTurn'  BY <1>1, <2>1 DEF InTurn
  <2>5. Timed'  BY <1>1, <2>1 DEF Timed
  <2> QED  BY <2>2, <2>3, <2>4, <2>5
<1> QED
  BY <1>5, <1>6, <1>7, <1>8, <1>9, <1>10, <1>11, <1>12, <1>13, <1>14 DEF Next

----------------------------------------------------------------------------
(* What the theorems below are read off: the strengthening holds always.   *)
THEOREM Inductive == Spec => []IInv
  BY Initially, Preserved, PTL DEF Spec

(* Every variable of the worker has its type: the residual stays less than *)
(* a pixel, the channel within its bound, the state one of the four.       *)
THEOREM TypeCorrect == Spec => []TypeOK
<1>1. IInv => TypeOK  BY DEF IInv
<1> QED  BY <1>1, Inductive, PTL

(* on_touch, on_long_press and cancel leave a button held for as long as a *)
(* drag goes on and at no other time, unless its release could not be      *)
(* emitted, wherever else an emit fails.                                   *)
THEOREM ButtonsAreReleased == Spec => []HeldOnlyInDrag
<1>1. IInv => HeldOnlyInDrag  BY DEF IInv
<1> QED  BY <1>1, Inductive, PTL

(* The handlers take a gesture for one thing only - motion beyond the slop *)
(* of a tap, wherever the finger is by the end, is neither a tap nor held  *)
(* for a right click - and for a drag only right after a click, whatever   *)
(* order timer, messages and time come in.                                 *)
THEOREM GesturesMeanOneThing == Spec => []OneMeaning
<1>1. IInv => OneMeaning  BY DEF IInv
<1> QED  BY <1>1, Inductive, PTL

(* relative_delta carries what it rounds off to the next sample: the       *)
(* cursor is as far as the finger times the sensitivity, to less than a    *)
(* pixel (the residual's type), for any sensitivity and any path of a      *)
(* touch (a drag swallows the step that makes it one).                     *)
THEOREM FractionsAccumulate == Spec => []CursorFollowsFinger
<1>1. IInv => CursorFollowsFinger  BY DEF IInv
<1> QED  BY <1>1, Inductive, PTL
============================================================================
