--------------------------- MODULE SourcesProofs ---------------------------
(***************************************************************************)
(* Theorems about CaptureSession.tla and PlasmaCapture.tla, for any sizes  *)
(* and format lists, any pool and any number of changes, and about the two *)
(* together as the sources of MCSources.tla.                               *)
(***************************************************************************)
EXTENDS MCSources, SequenceTheorems, TLAPS

----------------------------------------------------------------------------
(* The strengthening for the ext backend: what the variables hold.         *)
Entries == UNION {Range(o) : o \in Offers}

FrameKinds == {"ready", "constraints", "ended"}

Events ==
  [kind : {"size"}, size : Sizes] \cup [kind : {"format"}, entry : Entries]
    \cup [kind : {"done", "stopped"} \cup FrameKinds]

Shapes == [fourcc : {"XR24", "AR24"}, mod : Modifiers]

States ==
  [caps : [size : Sizes \cup {None}, formats : Seq(Entries)], done : BOOLEAN,
   consumed : BOOLEAN, stopped : BOOLEAN, frame : {"none"} \cup FrameKinds]

Pools == [size : Sizes \cup {None}, layout : Shapes \cup {None}, round : Nat]

Frames == [size : Sizes, layout : Shapes, round : Nat, index : 0 .. PoolSize - 1]

Typed ==
  /\ offered \in [size : Sizes, formats : Offers]
  /\ wire \in Seq(Events) /\ state \in States
  /\ request \in Frames \cup {None}
  /\ pool \in Pools
  /\ encoder \in Buffers \cup {None}
  /\ given \in Seq(Frames) /\ Len(given) <= PoolSize
  /\ nextBuffer \in 0 .. PoolSize - 1 /\ index \in 0 .. PoolSize - 1
  /\ alive \in BOOLEAN /\ retried \in BOOLEAN /\ crowded \in BOOLEAN
  /\ changes \in 0 .. MaxChanges
  /\ pc \in Waiting \cup {"allocate", "check", "capture", "ended"}
  /\ reason \in {"none", "stopped", "torn", "formats", "gbm", "geometry", "constraints",
                 "frame", "deadline"}

(* One pool is in use once capturing begins, in the encoder's geometry.    *)
Phases ==
  /\ pc = "negotiate" => encoder = None /\ ~state.consumed /\ ~retried /\ state.frame = "none"
  /\ pc \in {"check", "capture", "wait", "renegotiate"} =>
       encoder # None /\ pool.size \in Sizes /\ pool.layout \in Shapes
  /\ pc \in {"capture", "wait", "renegotiate"} => pool.size = encoder.size
  /\ pc = "check" /\ ~retried => pool.size = encoder.size
  /\ pc = "renegotiate" => retried
  /\ pc = "allocate" => (retried <=> encoder # None)
  /\ pool.round = 0 <=> encoder = None
  /\ reason # "none" => pc = "ended"
  /\ \A i \in DOMAIN given : given[i].round <= pool.round

(* Asked for, on its way or arrived: a frame is in one place only.         *)
FrameAt == {i \in DOMAIN wire : wire[i].kind \in FrameKinds}

OneFrame ==
  /\ FrameAt # {} => pc = "wait" /\ request = None /\ state.frame = "none"
  /\ \A i, j \in FrameAt : i = j
  /\ request # None =>
       /\ pc = "wait" /\ state.frame = "none"
       /\ request.round = pool.round /\ request.index = index
       /\ request.size = pool.size /\ request.layout = pool.layout

(* The buffers of the pool take turns: the one d turns before b.           *)
Back(b, d) == IF d <= b THEN b - d ELSE b - d + PoolSize

Turn == IF pc = "wait" THEN index ELSE nextBuffer

TakeTurns ==
  /\ pc \in {"check", "capture", "wait"} =>
       \A i \in DOMAIN given :
         given[i].round = pool.round => given[i].index = Back(Turn, Len(given) + 1 - i)
  /\ pc = "wait" => nextBuffer = NextBuffer(index)

----------------------------------------------------------------------------
(* The constraints: a batch of them is used, or has arrived, or is on its  *)
(* way, after what of it has arrived.                                      *)
Settled ==
  /\ \A i \in DOMAIN wire : ~IsConstraint(wire[i])
  /\ state.caps = offered /\ state.done

Arrived == BeginGeneration(state)

ArrivingAt(a, d) ==
  /\ wire[d].kind = "done"
  /\ \A i \in DOMAIN wire : IsConstraint(wire[i]) => i <= d
  /\ \A i \in DOMAIN wire : wire[i].kind = "done" => i = d
  /\ LET m == Len(Arrived.caps.formats)
         n == Len(offered.formats)
     IN  /\ m <= n
         /\ \A i \in 1 .. m : Arrived.caps.formats[i] = offered.formats[i]
         /\ \A i \in DOMAIN wire :
              wire[i].kind = "format" <=> i > a /\ i <= a + (n - m)
         /\ \A i \in DOMAIN wire :
              wire[i].kind = "format" => wire[i].entry = offered.formats[m + (i - a)]
         /\ a + (n - m) < d

SizeArriving(s) ==
  \/ /\ Arrived.caps.size = offered.size
     /\ \A i \in DOMAIN wire : wire[i].kind # "size"
  \/ /\ Arrived.caps.size = None
     /\ s \in DOMAIN wire
     /\ \A i \in DOMAIN wire : wire[i].kind = "size" <=> i = s
     /\ wire[s].size = offered.size

Arriving ==
  /\ ~Arrived.done
  /\ \E a \in 0 .. Len(wire), d \in DOMAIN wire : ArrivingAt(a, d)
  /\ \E s \in 0 .. Len(wire) : SizeArriving(s)

Absorbed ==
  /\ Settled \/ Arriving
  /\ pc = "allocate" \/ retried \/ state.frame = "constraints" => Settled
  /\ retried /\ pc \in {"check", "capture", "wait"} => state.consumed
  /\ Settled /\ state.consumed => Fits(pool, offered)
  /\ \A i \in DOMAIN wire : wire[i].kind = "constraints" =>
       ~retried /\ \A j \in DOMAIN wire : IsConstraint(wire[j]) => j < i
  /\ pc = "wait" /\ retried => state.frame # "constraints"
  /\ pc # "renegotiate"

Absorbing == ~crowded => Absorbed

(* A pool is refused only if a change came after it was last accepted.     *)
Rounds ==
  /\ changes = 0 => ~crowded
  /\ pool.round <= 1 + changes
  /\ pc \in {"check", "capture", "wait"} /\ ~retried /\ ~Fits(pool, offered) => pool.round <= changes
  /\ (state.frame = "ready" \/ \E i \in DOMAIN wire : wire[i].kind = "ready")
       /\ pc = "wait" /\ ~Fits(pool, offered) => pool.round <= changes
  /\ (state.frame = "constraints" \/ \E i \in DOMAIN wire : wire[i].kind = "constraints")
       /\ pc = "wait" /\ ~retried => pool.round <= changes
  /\ retried /\ pc \in {"allocate", "renegotiate"} => pool.round <= changes

IInv ==
  Typed /\ Phases /\ OneFrame /\ TakeTurns /\ Absorbing /\ AbsorbsOneChange /\ Rounds

----------------------------------------------------------------------------
(* What an event does to the client's State.                               *)
LEMMA Begun ==
  ASSUME NEW st \in States
  PROVE  /\ BeginGeneration(st) \in States
         /\ BeginGeneration(st).stopped = st.stopped /\ BeginGeneration(st).frame = st.frame
         /\ BeginGeneration(st).consumed = FALSE
         /\ st.consumed => BeginGeneration(st).caps = NoCaps /\ BeginGeneration(st).done = FALSE
         /\ ~st.consumed => BeginGeneration(st) = st
<1>1. NoCaps \in [size : Sizes \cup {None}, formats : Seq(Entries)]
  BY DEF NoCaps
<1>2. CASE st.consumed
  <2>1. BeginGeneration(st) = [st EXCEPT !.caps = NoCaps, !.consumed = FALSE, !.done = FALSE]
    BY <1>2 DEF BeginGeneration
  <2> HIDE DEF NoCaps
  <2> QED  BY <1>1, <1>2, <2>1 DEF States
<1>3. CASE ~st.consumed
  <2>1. BeginGeneration(st) = st  BY <1>3 DEF BeginGeneration
  <2>2. st.consumed = FALSE  BY <1>3 DEF States
  <2> QED  BY <1>3, <2>1, <2>2
<1> QED  BY <1>2, <1>3

LEMMA Kinds ==
  ASSUME NEW e \in Events
  PROVE  /\ e.kind = "size" => e.size \in Sizes
         /\ e.kind = "format" => e.entry \in Entries
         /\ e.kind \in {"size", "format", "done", "stopped"} \cup FrameKinds
<1>1. CASE e \in [kind : {"size"}, size : Sizes]  BY <1>1
<1>2. CASE e \in [kind : {"format"}, entry : Entries]  BY <1>2
<1>3. CASE e \in [kind : {"done", "stopped"} \cup FrameKinds]  BY <1>3 DEF FrameKinds
<1> QED  BY <1>1, <1>2, <1>3 DEF Events

LEMMA Applied ==
  ASSUME NEW st \in States, NEW e \in Events
  PROVE  /\ Apply(st, e) \in States
         /\ e.kind = "size" =>
              Apply(st, e) = [BeginGeneration(st) EXCEPT !.caps.size = e.size]
         /\ e.kind = "format" =>
              Apply(st, e) = [BeginGeneration(st) EXCEPT !.caps.formats = Append(@, e.entry)]
         /\ e.kind = "done" => Apply(st, e) = [st EXCEPT !.done = TRUE]
         /\ e.kind = "stopped" => Apply(st, e) = [st EXCEPT !.stopped = TRUE]
         /\ e.kind \in FrameKinds => Apply(st, e) = [st EXCEPT !.frame = e.kind]
<1> DEFINE b == BeginGeneration(st)
<1>1. b \in States  BY Begun
<1> HIDE DEF b
<1>2. CASE e.kind = "size"
  <2>1. Apply(st, e) = [b EXCEPT !.caps.size = e.size]  BY <1>2, Zenon DEF Apply, b
  <2>2. e.size \in Sizes  BY <1>2, Kinds
  <2>3. [b EXCEPT !.caps.size = e.size] \in States  BY <1>1, <2>2 DEF States
  <2> QED  BY <1>2, <2>1, <2>3 DEF b, FrameKinds
<1>3. CASE e.kind = "format"
  <2>1. Apply(st, e) = [b EXCEPT !.caps.formats = Append(@, e.entry)]
    <3>1. e.kind # "size"  BY <1>3
    <3> QED  BY <1>3, <3>1, Zenon DEF Apply, b
  <2>2. e.entry \in Entries  BY <1>3, Kinds
  <2>3. Append(b.caps.formats, e.entry) \in Seq(Entries)
    <3>1. b.caps.formats \in Seq(Entries)  BY <1>1 DEF States
    <3> QED  BY <3>1, <2>2, AppendProperties
  <2>4. [b EXCEPT !.caps.formats = Append(@, e.entry)] \in States  BY <1>1, <2>3 DEF States
  <2> QED  BY <1>3, <2>1, <2>4 DEF b, FrameKinds
<1>4. CASE e.kind = "done"
  <2>1. Apply(st, e) = [st EXCEPT !.done = TRUE]
    <3>1. e.kind # "size" /\ e.kind # "format"  BY <1>4
    <3> QED  BY <1>4, <3>1, Zenon DEF Apply
  <2>2. [st EXCEPT !.done = TRUE] \in States  BY DEF States
  <2> QED  BY <1>4, <2>1, <2>2 DEF FrameKinds
<1>5. CASE e.kind = "stopped"
  <2>1. Apply(st, e) = [st EXCEPT !.stopped = TRUE]
    <3>1. e.kind # "size" /\ e.kind # "format" /\ e.kind # "done"  BY <1>5
    <3> QED  BY <1>5, <3>1, Zenon DEF Apply
  <2>2. [st EXCEPT !.stopped = TRUE] \in States  BY DEF States
  <2> QED  BY <1>5, <2>1, <2>2 DEF FrameKinds
<1>6. CASE e.kind \in FrameKinds
  <2>1. e.kind # "size" /\ e.kind # "format" /\ e.kind # "done" /\ e.kind # "stopped"
    BY <1>6 DEF FrameKinds
  <2>2. Apply(st, e) = [st EXCEPT !.frame = e.kind]
    BY <2>1, Zenon DEF Apply
  <2>3. [st EXCEPT !.frame = e.kind] \in States  BY <1>6 DEF States
  <2> QED  BY <2>1, <1>6, <2>2, <2>3
<1> QED  BY <1>2, <1>3, <1>4, <1>5, <1>6, Kinds

----------------------------------------------------------------------------
(* The queue of events, in the three ways it changes.                      *)
LEMMA Taken ==
  ASSUME NEW S, NEW s \in Seq(S), s # <<>>
  PROVE  /\ Len(s) \in Nat /\ Len(s) >= 1 /\ DOMAIN s = 1 .. Len(s) /\ Head(s) = s[1]
         /\ Head(s) \in S /\ Tail(s) \in Seq(S) /\ Len(Tail(s)) = Len(s) - 1
         /\ DOMAIN Tail(s) = 1 .. Len(s) - 1
         /\ \A i \in 1 .. Len(s) - 1 : Tail(s)[i] = s[i + 1]
  OBVIOUS

LEMMA Added ==
  ASSUME NEW S, NEW s \in Seq(S), NEW x \in S
  PROVE  /\ Len(s) \in Nat /\ DOMAIN s = 1 .. Len(s) /\ Append(s, x) \in Seq(S)
         /\ Len(Append(s, x)) = Len(s) + 1 /\ DOMAIN Append(s, x) = 1 .. Len(s) + 1
         /\ Append(s, x)[Len(s) + 1] = x
         /\ \A i \in 1 .. Len(s) : Append(s, x)[i] = s[i]
  OBVIOUS

LEMMA Joined ==
  ASSUME NEW S, NEW s \in Seq(S), NEW t \in Seq(S)
  PROVE  /\ Len(s) \in Nat /\ Len(t) \in Nat /\ DOMAIN s = 1 .. Len(s) /\ DOMAIN t = 1 .. Len(t)
         /\ s \o t \in Seq(S) /\ Len(s \o t) = Len(s) + Len(t)
         /\ DOMAIN (s \o t) = 1 .. Len(s) + Len(t)
         /\ \A i \in 1 .. Len(s) : (s \o t)[i] = s[i]
         /\ \A i \in 1 .. Len(t) : (s \o t)[Len(s) + i] = t[i]
  BY ConcatProperties

(* A batch has the size, the formats in turn, and "done" at its end.       *)
LEMMA Batch ==
  ASSUME NEW c \in [size : Sizes, formats : Offers], NEW b \in Batches(c)
  PROVE  /\ b \in Seq(Events) /\ c.formats \in Seq(Entries)
         /\ Len(c.formats) \in Nat /\ Len(b) = Len(c.formats) + 2
         /\ \A i \in 1 .. Len(b) : IsConstraint(b[i])
         /\ b[Len(b)] = [kind |-> "done"]
         /\ \E a \in {0, 1}, s \in {1, Len(c.formats) + 1} :
              /\ b[s] = [kind |-> "size", size |-> c.size]
              /\ \A i \in 1 .. Len(b) : i = s \/ i = Len(b) \/ (i > a /\ i <= a + Len(c.formats))
              /\ \A i \in 1 .. Len(b) : i > a /\ i <= a + Len(c.formats) =>
                   b[i] = [kind |-> "format", entry |-> c.formats[i - a]]
              /\ s < Len(b) /\ ~(s > a /\ s <= a + Len(c.formats))
<1> DEFINE f == FormatEvents(c.formats)
           n == Len(c.formats)
           z == SizeEvent(c.size)
           o == Event("done")
<1>1. c.formats \in Seq(Entries) /\ c.size \in Sizes
  <2>1. c.formats \in Offers  OBVIOUS
  <2>2. Range(c.formats) \subseteq Entries  BY <2>1 DEF Entries
  <2>3. c.formats \in Seq(Range(c.formats))  BY <2>1, OffersAssumption
  <2> QED  BY <2>2, <2>3, SeqMonotonic
<1>2. n \in Nat /\ DOMAIN c.formats = 1 .. n  BY <1>1
<1>3. f \in Seq(Events) /\ Len(f) = n
      /\ \A i \in 1 .. n : f[i] = [kind |-> "format", entry |-> c.formats[i]]
  <2>1. f = [i \in 1 .. n |-> [kind |-> "format", entry |-> c.formats[i]]]
    BY <1>2 DEF FormatEvents
  <2>2. \A i \in 1 .. n : c.formats[i] \in Entries  BY <1>1, ElementOfSeq
  <2>3. \A i \in 1 .. n : [kind |-> "format", entry |-> c.formats[i]] \in Events
    BY <2>2 DEF Events
  <2> HIDE DEF f, n
  <2> QED  BY <2>1, <2>3, <1>2
<1>4. z \in Events /\ o \in Events  BY <1>1 DEF SizeEvent, Event, Events
<1>5. z = [kind |-> "size", size |-> c.size] /\ o = [kind |-> "done"]
  BY DEF SizeEvent, Event
<1> HIDE DEF f, n, z, o
<1>6. CASE b = <<z>> \o f \o <<o>>
  <2>1. /\ b \in Seq(Events) /\ Len(b) = n + 2 /\ b[1] = z /\ b[n + 2] = o
        /\ \A i \in 1 .. n : b[1 + i] = f[i]
    <3>1. <<z>> \in Seq(Events) /\ Len(<<z>>) = 1 /\ <<z>>[1] = z  BY <1>4
    <3>2. <<o>> \in Seq(Events) /\ Len(<<o>>) = 1 /\ <<o>>[1] = o  BY <1>4
    <3> DEFINE zz == <<z>>
               oo == <<o>>
               zf == zz \o f
    <3> HIDE DEF zz, oo
    <3>3. /\ zf \in Seq(Events) /\ Len(zf) = 1 + n
          /\ \A i \in 1 .. 1 : zf[i] = zz[i]
          /\ \A i \in 1 .. n : zf[1 + i] = f[i]
      BY ONLY <3>1, <1>3, Joined DEF zz
    <3> HIDE DEF zf
    <3>4. /\ zf \o oo \in Seq(Events) /\ Len(zf \o oo) = (1 + n) + 1
          /\ \A i \in 1 .. 1 + n : (zf \o oo)[i] = zf[i]
          /\ \A i \in 1 .. 1 : (zf \o oo)[(1 + n) + i] = oo[i]
      BY ONLY <3>2, <3>3, Joined DEF oo
    <3>5. b = zf \o oo  BY <1>6 DEF zf, zz, oo
    <3>6. zz[1] = z /\ oo[1] = o  BY <3>1, <3>2 DEF zz, oo
    <3> QED  BY <3>3, <3>4, <3>5, <3>6, <1>2
  <2>2. \A i \in 1 .. n + 2 : i = 1 \/ i = n + 2 \/ (i > 1 /\ i <= 1 + n)  BY <1>2
  <2>3. \A i \in 1 .. n + 2 : i > 1 /\ i <= 1 + n => b[i] = [kind |-> "format", entry |-> c.formats[i - 1]]
    <3> SUFFICES ASSUME NEW i \in 1 .. n + 2, i > 1, i <= 1 + n
                 PROVE  b[i] = [kind |-> "format", entry |-> c.formats[i - 1]]
      OBVIOUS
    <3>1. i - 1 \in 1 .. n /\ 1 + (i - 1) = i  BY <1>2
    <3> QED  BY <3>1, <2>1, <1>3
  <2>4. \A i \in 1 .. n + 2 : IsConstraint(b[i])
    BY <2>1, <2>2, <2>3, <1>5 DEF IsConstraint
  <2>5. /\ b[1] = [kind |-> "size", size |-> c.size] /\ b[n + 2] = [kind |-> "done"]
        /\ 1 < n + 2 /\ ~(1 > 1 /\ 1 <= 1 + n)
    BY <2>1, <1>5, <1>2
  <2> QED  BY <1>1, <1>2, <2>1, <2>2, <2>3, <2>4, <2>5 DEF n
<1>7. CASE b = f \o <<z, o>>
  <2>1. /\ b \in Seq(Events) /\ Len(b) = n + 2 /\ b[n + 1] = z /\ b[n + 2] = o
        /\ \A i \in 1 .. n : b[i] = f[i]
    <3>1. <<z, o>> \in Seq(Events) /\ Len(<<z, o>>) = 2 /\ <<z, o>>[1] = z /\ <<z, o>>[2] = o
      BY <1>4
    <3> DEFINE zo == <<z, o>>
    <3> HIDE DEF zo
    <3>2. /\ f \o zo \in Seq(Events) /\ Len(f \o zo) = n + 2
          /\ \A i \in 1 .. n : (f \o zo)[i] = f[i]
          /\ \A i \in 1 .. 2 : (f \o zo)[n + i] = zo[i]
      BY ONLY <3>1, <1>3, Joined DEF zo
    <3>3. b = f \o zo  BY <1>7 DEF zo
    <3>4. zo[1] = z /\ zo[2] = o  BY <3>1 DEF zo
    <3>5. 1 \in 1 .. 2 /\ 2 \in 1 .. 2  OBVIOUS
    <3>6. (f \o zo)[n + 1] = z /\ (f \o zo)[n + 2] = o  BY ONLY <3>2, <3>4, <3>5
    <3> QED  BY ONLY <3>2, <3>3, <3>6
  <2>2. \A i \in 1 .. n + 2 : i = n + 1 \/ i = n + 2 \/ (i > 0 /\ i <= 0 + n)  BY <1>2
  <2>3. \A i \in 1 .. n + 2 : i > 0 /\ i <= 0 + n => b[i] = [kind |-> "format", entry |-> c.formats[i - 0]]
    BY <2>1, <1>2, <1>3
  <2>4. \A i \in 1 .. n + 2 : IsConstraint(b[i])
    <3>1. /\ \A i \in 1 .. n : b[i].kind = "format"
          /\ b[n + 1].kind = "size" /\ b[n + 2].kind = "done"
      BY <2>1, <1>3, <1>5
    <3>2. \A i \in 1 .. n + 2 : i \in 1 .. n \/ i = n + 1 \/ i = n + 2  BY <1>2
    <3> QED  BY <3>1, <3>2 DEF IsConstraint
  <2>5. /\ b[n + 1] = [kind |-> "size", size |-> c.size] /\ b[n + 2] = [kind |-> "done"]
        /\ n + 1 < n + 2 /\ ~(n + 1 > 0 /\ n + 1 <= 0 + n)
    BY <2>1, <1>5, <1>2
  <2> QED  BY <1>1, <1>2, <2>1, <2>2, <2>3, <2>4, <2>5 DEF n
<1> QED  BY <1>6, <1>7 DEF Batches, f, z, o

----------------------------------------------------------------------------
LEMMA Turning ==
  ASSUME NEW i \in 0 .. PoolSize - 1
  PROVE  NextBuffer(i) = IF i = PoolSize - 1 THEN 0 ELSE i + 1
<1>1. PoolSize \in Nat /\ PoolSize >= 1  BY PoolSizeAssumption
<1>2. CASE i = PoolSize - 1
  <2>1. NextBuffer(i) = PoolSize % PoolSize  BY <1>1, <1>2 DEF NextBuffer
  <2>2. PoolSize % PoolSize = 0  BY <1>1
  <2> QED  BY <1>2, <2>1, <2>2
<1>3. CASE i # PoolSize - 1
  <2>1. i + 1 \in 0 .. PoolSize - 1  BY <1>1, <1>3
  <2>2. (i + 1) % PoolSize = i + 1  BY <1>1, <2>1
  <2> QED  BY <1>3, <2>2 DEF NextBuffer
<1> QED  BY <1>2, <1>3

LEMMA LayoutsFit ==
  ASSUME NEW f \in Seq(Entries), NEW l \in Layouts(f)
  PROVE  /\ l \in Shapes
         /\ \E e \in Range(f) : e.fourcc = l.fourcc /\ l.mod \in e.mods
<1>1. /\ l \in [fourcc : {"XR24", "AR24"}, mod : UNION {e.mods : e \in Range(f)}]
      /\ l.mod \in Acceptable(OfferedFor(l.fourcc, f))
  BY DEF Layouts
<1>2. Range(f) \subseteq Entries  BY RangeOfSeq DEF Range
<1>3. UNION {e.mods : e \in Range(f)} \subseteq Modifiers  BY <1>2 DEF Modifiers, Entries
<1>4. l.mod \in OfferedFor(l.fourcc, f)  BY <1>1 DEF Acceptable
<1>5. PICK i \in DOMAIN f : f[i].fourcc = l.fourcc /\ l.mod \in f[i].mods
  BY <1>4 DEF OfferedFor
<1>6. f[i] \in Range(f)  BY <1>5 DEF Range
<1>7. l \in Shapes  BY <1>1, <1>3 DEF Shapes
<1> QED  BY <1>5, <1>6, <1>7

LEMMA NotNone ==
  /\ \A x \in Sizes : x # None
  /\ \A x \in Buffers : x # None
  /\ \A x \in Frames : x # None
<1>1. 0 .. PoolSize - 1 \subseteq Nat  OBVIOUS
<1>2. Frames \subseteq Requests  BY <1>1 DEF Frames, Requests, Shapes
<1> QED  BY <1>2, NoneAssumption

LEMMA TypedStep ==
  ASSUME Typed, Phases, Next
  PROVE  Typed'
<1> USE DEF compositorVars, poolVars, OtherThanCompositor, Goto, Fail, Waiting
<1>0. Typed  OBVIOUS
<1>1. CASE Dispatch
  <2>1. wire # <<>> /\ state' = Apply(state, Head(wire)) /\ wire' = Tail(wire)  BY <1>1 DEF Dispatch
  <2>2. wire \in Seq(Events) /\ state \in States  BY DEF Typed
  <2>3. Head(wire) \in Events /\ wire' \in Seq(Events)  BY <2>1, <2>2, Taken
  <2>4. state' \in States  BY <2>1, <2>2, <2>3, Applied
  <2> QED  BY <2>3, <2>4, <1>1 DEF Dispatch, Typed
<1>2. CASE Negotiated  BY <1>2 DEF Negotiated, Typed
<1>3. CASE Allocate
  <2>1. state.caps.size \in Sizes /\ state.caps.formats \in Seq(Entries) /\ pool.round \in Nat
    BY <1>3 DEF Allocate, Typed, States, Pools
  <2>2. PICK l \in Layouts(state.caps.formats) :
          pool' = [size |-> state.caps.size, layout |-> l, round |-> pool.round + 1]
    BY <1>3 DEF Allocate
  <2>3. l \in Shapes  BY <2>1, LayoutsFit
  <2>4. pool' \in Pools /\ [size |-> pool'.size, layout |-> pool'.layout] \in Buffers
    BY <2>1, <2>2, <2>3 DEF Pools, Buffers, Shapes
  <2>5. [state EXCEPT !.consumed = TRUE] \in States  BY DEF Typed, States
  <2>6. 0 \in 0 .. PoolSize - 1  BY PoolSizeAssumption
  <2>7. encoder' \in Buffers \cup {None}  BY <2>4, <1>3 DEF Allocate, Typed
  <2> QED  BY <2>4, <2>5, <2>6, <2>7, <1>3 DEF Allocate, Typed
<1>4. CASE AllocateFails
  <2>1. reason' \in {"torn", "formats", "gbm"}  BY <1>4 DEF AllocateFails
  <2> QED  BY <2>1, <1>4 DEF AllocateFails, Typed
<1>5. CASE CheckGeometry  BY <1>5 DEF CheckGeometry, Typed
<1>6. CASE TryCapture
  <2>1. /\ pool.size \in Sizes /\ pool.layout \in Shapes
        /\ pool.round \in Nat /\ nextBuffer \in 0 .. PoolSize - 1
    BY <1>6 DEF TryCapture, Phases, Typed, Pools
  <2>2. request' \in Frames  BY <2>1, <1>6 DEF TryCapture, Frames
  <2>3. NextBuffer(nextBuffer) \in 0 .. PoolSize - 1
    BY <2>1, Turning, PoolSizeAssumption
  <2>4. [state EXCEPT !.frame = "none"] \in States  BY DEF Typed, States
  <2> QED  BY <2>1, <2>2, <2>3, <2>4, <1>6 DEF TryCapture, Typed
<1>7. CASE CaptureStopped  BY <1>7 DEF CaptureStopped, Typed
<1>8. CASE FrameReady
  <2> DEFINE x == [size |-> pool.size, layout |-> pool.layout, round |-> pool.round, index |-> index]
  <2>1. x \in Frames  BY <1>8 DEF FrameReady, Phases, Typed, Pools, Frames
  <2>2. given' = IF Len(Append(given, x)) > PoolSize THEN Tail(Append(given, x)) ELSE Append(given, x)
    BY <1>8 DEF FrameReady
  <2> HIDE DEF x
  <2>3. given \in Seq(Frames) /\ Len(given) <= PoolSize /\ PoolSize \in Nat /\ PoolSize >= 1
    BY PoolSizeAssumption DEF Typed
  <2>4. Append(given, x) \in Seq(Frames) /\ Len(Append(given, x)) = Len(given) + 1 /\ Len(given) \in Nat
    BY ONLY <2>1, <2>3, Added
  <2>5. Append(given, x) # <<>>  BY ONLY <2>4
  <2>6. Tail(Append(given, x)) \in Seq(Frames) /\ Len(Tail(Append(given, x))) = Len(Append(given, x)) - 1
    BY ONLY <2>4, <2>5, Taken
  <2>7. given' \in Seq(Frames) /\ Len(given') <= PoolSize
    BY ONLY <2>2, <2>3, <2>4, <2>6
  <2> QED  BY <2>7, <1>8 DEF FrameReady, Typed
<1>9. CASE FrameFailed  BY <1>9 DEF FrameFailed, Typed
<1>10. CASE Renegotiated  BY <1>10 DEF Renegotiated, Typed
<1>11. CASE RenegotiationTimesOut  BY <1>11 DEF RenegotiationTimesOut, Typed
<1>12. CASE Change
  <2>1. PICK size \in Sizes, list \in Offers :
          /\ offered' = [size |-> size, formats |-> list]
          /\ \E b \in Batches(offered') : wire' = wire \o b
    BY <1>12 DEF Change
  <2>2. offered' \in [size : Sizes, formats : Offers]  BY <2>1
  <2>3. PICK b \in Batches(offered') : wire' = wire \o b  BY <2>1
  <2>4. b \in Seq(Events)  BY <2>2, Batch
  <2>5. wire' \in Seq(Events)  BY <2>3, <2>4, ConcatProperties DEF Typed
  <2>6. changes' \in 0 .. MaxChanges  BY <1>12, MaxChangesAssumption DEF Change, Typed
  <2>7. crowded' \in BOOLEAN  BY <1>12, Zenon DEF Change, Typed
  <2> QED  BY <2>2, <2>5, <2>6, <2>7, <1>12 DEF Change, Typed
<1>13. CASE Repaint \/ RefuseFrame \/ StopSession
  <2>1. PICK k \in {"stopped"} \cup FrameKinds : wire' = Append(wire, Event(k))
    BY <1>13 DEF Repaint, RefuseFrame, StopSession, FrameKinds
  <2>2. Event(k) \in Events  BY DEF Event, Events
  <2>3. wire' \in Seq(Events)  BY <2>1, <2>2, AppendProperties DEF Typed
  <2>4. CASE Repaint  BY <2>3, <2>4 DEF Repaint, Typed
  <2>5. CASE RefuseFrame  BY <2>3, <2>5 DEF RefuseFrame, Typed
  <2>6. CASE StopSession  BY <2>3, <2>6 DEF StopSession, Typed
  <2> QED  BY <1>13, <2>4, <2>5, <2>6
<1> QED
  BY <1>1, <1>2, <1>3, <1>4, <1>5, <1>6, <1>7, <1>8, <1>9, <1>10, <1>11, <1>12, <1>13
     DEF Next, Client

LEMMA PhasesStep ==
  ASSUME Typed, Typed', Phases, OneFrame, Next
  PROVE  Phases'
<1> USE DEF compositorVars, poolVars, OtherThanCompositor, Goto, Fail, Waiting
<1>1. CASE Dispatch
  <2>1. /\ wire # <<>> /\ state' = Apply(state, Head(wire)) /\ wire \in Seq(Events)
        /\ state \in States
        /\ UNCHANGED <<compositorVars, pc, retried, poolVars, given, reason, crowded>>
    BY <1>1 DEF Dispatch, Typed
  <2>2. ASSUME pc = "negotiate"  PROVE ~state'.consumed /\ state'.frame = "none"
    <3>1. Head(wire) \in Events /\ Head(wire) = wire[1] /\ 1 \in DOMAIN wire  BY <2>1, Taken
    <3>2. Head(wire).kind \notin FrameKinds  BY <3>1, <2>2 DEF OneFrame, FrameAt
    <3>3. state.consumed = FALSE /\ state.frame = "none"  BY <2>2 DEF Phases, Typed, States
    <3>4. BeginGeneration(state) = state  BY <2>1, <3>3, Begun
    <3>5. Head(wire).kind \in {"size", "format", "done", "stopped"}  BY <3>1, <3>2, Kinds
    <3>6. \/ state' = [state EXCEPT !.caps.size = Head(wire).size]
          \/ state' = [state EXCEPT !.caps.formats = Append(@, Head(wire).entry)]
          \/ state' = [state EXCEPT !.done = TRUE]
          \/ state' = [state EXCEPT !.stopped = TRUE]
      BY ONLY <2>1, <3>1, <3>4, <3>5, Applied, SMTT(40)
    <3> QED  BY <2>1, <3>3, <3>6 DEF States
  <2> QED  BY <2>1, <2>2 DEF Phases
<1>2. CASE Negotiated  BY <1>2 DEF Negotiated, Phases
<1>3. CASE Allocate
  <2>1. state.caps.size \in Sizes /\ state.caps.formats \in Seq(Entries) /\ pool.round \in Nat
    BY <1>3 DEF Allocate, Typed, States, Pools
  <2>2. PICK l \in Layouts(state.caps.formats) :
          pool' = [size |-> state.caps.size, layout |-> l, round |-> pool.round + 1]
    BY <1>3 DEF Allocate
  <2>3. l \in Shapes  BY <2>1, LayoutsFit
  <2>4. /\ pool'.size \in Sizes /\ pool'.layout \in Shapes /\ pool'.round = pool.round + 1
        /\ pool'.round # 0
    BY <2>1, <2>2, <2>3
  <2>5. [size |-> pool'.size, layout |-> pool'.layout] \in Buffers
    BY <2>4 DEF Buffers, Shapes
  <2>6. encoder' # None /\ (encoder = None => encoder'.size = pool'.size)
    BY <2>5, <1>3, NotNone DEF Allocate
  <2>7. \A i \in DOMAIN given : given[i].round <= pool'.round
    <3> SUFFICES ASSUME NEW i \in DOMAIN given  PROVE given[i].round <= pool'.round
      OBVIOUS
    <3>1. given[i] \in Frames  BY ElementOfSeq DEF Typed
    <3>2. given[i].round \in Nat  BY <3>1 DEF Frames
    <3>3. given[i].round <= pool.round  BY DEF Phases
    <3> QED  BY <3>2, <3>3, <2>1, <2>4
  <2>8. pc' = "check" /\ retried' = retried /\ given' = given /\ (~retried => encoder = None)
    BY <1>3 DEF Allocate, Phases
  <2>9. reason' = reason /\ (reason # "none" => pc = "ended") /\ pc = "allocate"
    BY <1>3 DEF Allocate, Phases
  <2> QED  BY <2>4, <2>6, <2>7, <2>8, <2>9 DEF Phases
<1>4. CASE AllocateFails  BY <1>4 DEF AllocateFails, Phases
<1>5. CASE CheckGeometry  BY <1>5 DEF CheckGeometry, Phases
<1>6. CASE TryCapture  BY <1>6 DEF TryCapture, Phases
<1>7. CASE CaptureStopped  BY <1>7 DEF CaptureStopped, Phases
<1>8. CASE FrameReady
  <2> DEFINE x == [size |-> pool.size, layout |-> pool.layout, round |-> pool.round, index |-> index]
             all == Append(given, x)
  <2>1. /\ x \in Frames /\ x.round = pool.round
        /\ \A i \in DOMAIN given : given[i].round <= pool.round
        /\ given \in Seq(Frames) /\ pool.round \in Nat
    BY <1>8 DEF FrameReady, Phases, Typed, Pools, Frames
  <2>2. given' = IF Len(all) > PoolSize THEN Tail(all) ELSE all
    BY <1>8 DEF FrameReady
  <2> HIDE DEF x
  <2>3. /\ Len(given) \in Nat /\ DOMAIN given = 1 .. Len(given)
        /\ all \in Seq(Frames) /\ DOMAIN all = 1 .. Len(given) + 1 /\ Len(all) = Len(given) + 1
        /\ all[Len(given) + 1] = x
        /\ \A i \in 1 .. Len(given) : all[i] = given[i]
    BY ONLY <2>1, Added
  <2>4. \A i \in DOMAIN all : all[i].round <= pool.round
    <3> SUFFICES ASSUME NEW i \in 1 .. Len(given) + 1  PROVE all[i].round <= pool.round
      BY <2>3
    <3>1. CASE i = Len(given) + 1  BY <3>1, <2>1, <2>3
    <3>2. CASE i # Len(given) + 1
      <4>1. i \in 1 .. Len(given)  BY <3>2, <2>3
      <4> QED  BY <4>1, <2>1, <2>3
    <3> QED  BY <3>1, <3>2
  <2> HIDE DEF all
  <2>5. all # <<>>  BY ONLY <2>3
  <2>6. /\ DOMAIN Tail(all) = 1 .. Len(all) - 1 /\ DOMAIN all = 1 .. Len(all) /\ Len(all) \in Nat
        /\ \A i \in 1 .. Len(all) - 1 : Tail(all)[i] = all[i + 1]
    BY ONLY <2>3, <2>5, Taken
  <2>7. \A i \in 1 .. Len(all) - 1 : i + 1 \in 1 .. Len(all)  BY ONLY <2>6
  <2>8. \A i \in DOMAIN given' : given'[i].round <= pool.round
    BY <2>2, <2>4, <2>6, <2>7
  <2> QED  BY <2>8, <1>8 DEF FrameReady, Phases
<1>9. CASE FrameFailed  BY <1>9 DEF FrameFailed, Phases
<1>10. CASE Renegotiated  BY <1>10 DEF Renegotiated, Phases
<1>11. CASE RenegotiationTimesOut  BY <1>11 DEF RenegotiationTimesOut, Phases
<1>12. CASE Change  BY <1>12 DEF Change, Phases
<1>13. CASE Repaint \/ RefuseFrame \/ StopSession
  BY <1>13 DEF Repaint, RefuseFrame, StopSession, Phases
<1> QED
  BY <1>1, <1>2, <1>3, <1>4, <1>5, <1>6, <1>7, <1>8, <1>9, <1>10, <1>11, <1>12, <1>13
     DEF Next, Client

----------------------------------------------------------------------------
(* How the queue changes, and what an event does to the frame's fate.      *)
LEMMA Dispatched ==
  ASSUME Typed, Dispatch
  PROVE  /\ wire \in Seq(Events) /\ wire # <<>> /\ state \in States
         /\ Len(wire) \in Nat /\ Len(wire) >= 1 /\ DOMAIN wire = 1 .. Len(wire)
         /\ wire[1] \in Events /\ state' = Apply(state, wire[1])
         /\ Len(wire') = Len(wire) - 1 /\ DOMAIN wire' = 1 .. Len(wire) - 1
         /\ \A i \in 1 .. Len(wire) - 1 : wire'[i] = wire[i + 1] /\ i + 1 \in 1 .. Len(wire)
         /\ UNCHANGED <<compositorVars, pc, retried, poolVars, given, reason, crowded>>
<1>1. /\ wire # <<>> /\ wire \in Seq(Events) /\ state \in States /\ wire' = Tail(wire)
      /\ state' = Apply(state, Head(wire))
      /\ UNCHANGED <<compositorVars, pc, retried, poolVars, given, reason, crowded>>
  BY DEF Dispatch, Typed
<1>2. /\ Len(wire) \in Nat /\ Len(wire) >= 1 /\ DOMAIN wire = 1 .. Len(wire)
      /\ Head(wire) = wire[1] /\ Head(wire) \in Events /\ Len(Tail(wire)) = Len(wire) - 1
      /\ DOMAIN Tail(wire) = 1 .. Len(wire) - 1
      /\ \A i \in 1 .. Len(wire) - 1 : Tail(wire)[i] = wire[i + 1]
  BY ONLY <1>1, Taken
<1>3. \A i \in 1 .. Len(wire) - 1 : i + 1 \in 1 .. Len(wire)  BY ONLY <1>2
<1>4. wire[1] \in Events /\ state' = Apply(state, wire[1])  BY ONLY <1>1, <1>2, Zenon
<1> QED  BY <1>1, <1>2, <1>3, <1>4

LEMMA Appended ==
  ASSUME Typed, NEW e \in Events, wire' = Append(wire, e)
  PROVE  /\ Len(wire) \in Nat /\ DOMAIN wire = 1 .. Len(wire)
         /\ Len(wire') = Len(wire) + 1 /\ DOMAIN wire' = 1 .. Len(wire) + 1
         /\ wire'[Len(wire) + 1] = e
         /\ \A i \in 1 .. Len(wire) : wire'[i] = wire[i]
         /\ \A i \in 1 .. Len(wire) + 1 : i \in 1 .. Len(wire) \/ i = Len(wire) + 1
<1>1. wire \in Seq(Events)  BY DEF Typed
<1> QED  BY <1>1, Added

LEMMA Applies ==
  ASSUME NEW st \in States, NEW e \in Events
  PROVE  /\ e.kind \notin FrameKinds => Apply(st, e).frame = st.frame
         /\ e.kind \in FrameKinds => Apply(st, e).frame = e.kind
         /\ e.kind \notin {"size", "format"} =>
              Apply(st, e).caps = st.caps /\ Apply(st, e).consumed = st.consumed
         /\ e.kind \notin {"size", "format", "done"} => Apply(st, e).done = st.done
<1> DEFINE b == BeginGeneration(st)
<1>1. b \in States /\ b.frame = st.frame  BY Begun
<1> HIDE DEF b
<1>2. CASE e.kind = "size"
  <2>1. Apply(st, e) = [b EXCEPT !.caps.size = e.size]  BY <1>2, Applied DEF b
  <2> QED  BY <1>1, <1>2, <2>1 DEF States, FrameKinds
<1>3. CASE e.kind = "format"
  <2>1. Apply(st, e) = [b EXCEPT !.caps.formats = Append(@, e.entry)]  BY <1>3, Applied DEF b
  <2> QED  BY <1>1, <1>3, <2>1 DEF States, FrameKinds
<1>4. CASE e.kind = "done"
  <2>1. Apply(st, e) = [st EXCEPT !.done = TRUE]  BY <1>4, Applied
  <2> QED  BY <1>4, <2>1 DEF States, FrameKinds
<1>5. CASE e.kind = "stopped"
  <2>1. Apply(st, e) = [st EXCEPT !.stopped = TRUE]  BY <1>5, Applied
  <2> QED  BY <1>5, <2>1 DEF States, FrameKinds
<1>6. CASE e.kind \in FrameKinds
  <2>1. Apply(st, e) = [st EXCEPT !.frame = e.kind]  BY <1>6, Applied
  <2> QED  BY <1>6, <2>1 DEF States, FrameKinds
<1> QED  BY <1>2, <1>3, <1>4, <1>5, <1>6, Kinds

(* The compositor's answers are the only frame events.                     *)
LEMMA Announced ==
  ASSUME Typed, Change
  PROVE  /\ Len(wire) \in Nat /\ DOMAIN wire = 1 .. Len(wire)
         /\ offered' \in [size : Sizes, formats : Offers]
         /\ \E b \in Batches(offered') :
              /\ wire' = wire \o b /\ b \in Seq(Events) /\ Len(b) \in Nat /\ Len(b) >= 2
              /\ Len(wire') = Len(wire) + Len(b) /\ DOMAIN wire' = 1 .. Len(wire) + Len(b)
              /\ \A i \in 1 .. Len(wire) : wire'[i] = wire[i]
              /\ \A i \in 1 .. Len(b) : wire'[Len(wire) + i] = b[i] /\ IsConstraint(b[i])
         /\ \A i \in DOMAIN wire' : i \in DOMAIN wire \/ IsConstraint(wire'[i])
<1>0. PICK size \in Sizes, list \in Offers :
        /\ offered' = [size |-> size, formats |-> list]
        /\ \E b \in Batches(offered') : wire' = wire \o b
  BY DEF Change
<1>1. offered' \in [size : Sizes, formats : Offers]  BY <1>0
<1>2. PICK b \in Batches(offered') : wire' = wire \o b  BY <1>0
<1>3. /\ b \in Seq(Events) /\ Len(offered'.formats) \in Nat
      /\ Len(b) = Len(offered'.formats) + 2 /\ \A i \in 1 .. Len(b) : IsConstraint(b[i])
  BY <1>1, Batch
<1>4. wire \in Seq(Events)  BY DEF Typed
<1>5. /\ Len(wire) \in Nat /\ Len(b) \in Nat /\ DOMAIN wire = 1 .. Len(wire)
      /\ Len(wire \o b) = Len(wire) + Len(b) /\ DOMAIN (wire \o b) = 1 .. Len(wire) + Len(b)
      /\ \A i \in 1 .. Len(wire) : (wire \o b)[i] = wire[i]
      /\ \A i \in 1 .. Len(b) : (wire \o b)[Len(wire) + i] = b[i]
  <2>1. b \in Seq(Events)  BY ONLY <1>3
  <2> QED  BY ONLY <2>1, <1>4, Joined
<1>6. /\ Len(wire') = Len(wire) + Len(b) /\ DOMAIN wire' = 1 .. Len(wire) + Len(b)
      /\ \A i \in 1 .. Len(wire) : wire'[i] = wire[i]
      /\ \A i \in 1 .. Len(b) : wire'[Len(wire) + i] = b[i]
  BY ONLY <1>2, <1>5, Zenon
<1>7. ASSUME NEW i \in DOMAIN wire', i \notin DOMAIN wire  PROVE IsConstraint(wire'[i])
  <2>1. i - Len(wire) \in 1 .. Len(b) /\ i = Len(wire) + (i - Len(wire))
    BY <1>5, <1>6, <1>7
  <2> QED  BY <2>1, <1>3, <1>6
<1>8. Len(b) >= 2  BY ONLY <1>3
<1>9. /\ wire' = wire \o b /\ b \in Seq(Events) /\ Len(b) \in Nat /\ Len(b) >= 2
      /\ Len(wire') = Len(wire) + Len(b) /\ DOMAIN wire' = 1 .. Len(wire) + Len(b)
      /\ \A i \in 1 .. Len(wire) : wire'[i] = wire[i]
      /\ \A i \in 1 .. Len(b) : wire'[Len(wire) + i] = b[i] /\ IsConstraint(b[i])
  BY ONLY <1>2, <1>3, <1>5, <1>6, <1>8, Zenon
<1>10. \A i \in DOMAIN wire' : i \in DOMAIN wire \/ IsConstraint(wire'[i])  BY ONLY <1>7, Zenon
<1> QED  BY ONLY <1>1, <1>2, <1>5, <1>9, <1>10, Zenon

LEMMA OneFrameStep ==
  ASSUME Typed, Phases, OneFrame, Next
  PROVE  OneFrame'
<1> USE DEF compositorVars, poolVars, OtherThanCompositor, Goto, Fail, Waiting
<1>1. CASE Dispatch
  <2>0. /\ DOMAIN wire = 1 .. Len(wire) /\ Len(wire) \in Nat /\ Len(wire) >= 1
        /\ wire[1] \in Events /\ state \in States /\ state' = Apply(state, wire[1])
        /\ DOMAIN wire' = 1 .. Len(wire) - 1
        /\ \A i \in 1 .. Len(wire) - 1 : wire'[i] = wire[i + 1] /\ i + 1 \in 1 .. Len(wire)
        /\ UNCHANGED <<compositorVars, pc, retried, poolVars, given, reason, crowded>>
    BY <1>1, Dispatched
  <2>1. \A i \in FrameAt' : i \in Nat /\ i >= 1 /\ i + 1 \in FrameAt
    BY <2>0 DEF FrameAt
  <2>2. \A i, j \in FrameAt' : i = j
    BY <2>0, <2>1 DEF OneFrame, FrameAt
  <2>3. CASE wire[1].kind \in FrameKinds
    <3>1. 1 \in FrameAt  BY <2>0, <2>3 DEF FrameAt
    <3>2. FrameAt' = {}
      <4> SUFFICES ASSUME NEW i \in FrameAt'  PROVE FALSE
        OBVIOUS
      <4>1. i + 1 \in FrameAt /\ i \in Nat /\ i >= 1  BY <2>1
      <4>2. i + 1 = 1  BY <3>1, <4>1 DEF OneFrame
      <4> QED  BY <4>1, <4>2
    <3>3. request' = None  BY <3>1, <2>0 DEF OneFrame
    <3> QED  BY <2>2, <3>2, <3>3 DEF OneFrame
  <2>4. CASE wire[1].kind \notin FrameKinds
    <3>1. state'.frame = state.frame  BY <2>0, <2>4, Applies
    <3> QED  BY <2>0, <2>1, <2>2, <3>1 DEF OneFrame
  <2> QED  BY <2>3, <2>4
<1>2. CASE Negotiated  BY <1>2 DEF Negotiated, OneFrame, FrameAt
<1>3. CASE Allocate  BY <1>3 DEF Allocate, OneFrame, FrameAt
<1>4. CASE AllocateFails  BY <1>4 DEF AllocateFails, OneFrame, FrameAt
<1>5. CASE CheckGeometry  BY <1>5 DEF CheckGeometry, OneFrame, FrameAt
<1>6. CASE TryCapture
  <2>1. FrameAt = {} /\ pc' = "wait" /\ wire' = wire /\ index' = nextBuffer /\ pool' = pool
    BY <1>6 DEF TryCapture, OneFrame
  <2>2. state'.frame = "none"  BY <1>6 DEF TryCapture, Typed, States
  <2>3. FrameAt' = {}  BY <2>1 DEF FrameAt
  <2>4. /\ request'.round = pool.round /\ request'.index = nextBuffer
        /\ request'.size = pool.size /\ request'.layout = pool.layout
    BY <1>6 DEF TryCapture
  <2> QED  BY <2>1, <2>2, <2>3, <2>4 DEF OneFrame
<1>7. CASE CaptureStopped  BY <1>7 DEF CaptureStopped, OneFrame, FrameAt
<1>8. CASE FrameReady
  <2>1. FrameAt = {} /\ request = None /\ wire' = wire /\ request' = request
    BY <1>8 DEF FrameReady, OneFrame
  <2> QED  BY <2>1 DEF OneFrame, FrameAt
<1>9. CASE FrameFailed
  <2>1. FrameAt = {} /\ request = None /\ wire' = wire /\ request' = request
    BY <1>9 DEF FrameFailed, OneFrame
  <2> QED  BY <2>1 DEF OneFrame, FrameAt
<1>10. CASE Renegotiated  BY <1>10 DEF Renegotiated, OneFrame, FrameAt
<1>11. CASE RenegotiationTimesOut  BY <1>11 DEF RenegotiationTimesOut, OneFrame, FrameAt
<1>12. CASE Change
  <2>1. /\ \A i \in DOMAIN wire' : i \in DOMAIN wire \/ IsConstraint(wire'[i])
        /\ \A i \in DOMAIN wire : wire'[i] = wire[i]
    BY <1>12, Announced
  <2>2. FrameAt' \subseteq FrameAt
    BY <2>1 DEF FrameAt, IsConstraint, FrameKinds
  <2> QED  BY <2>2, <1>12 DEF Change, OneFrame
<1>13. CASE Repaint \/ RefuseFrame
  <2>1. PICK k \in FrameKinds : wire' = Append(wire, Event(k))
    BY <1>13 DEF Repaint, RefuseFrame, FrameKinds
  <2>2. Event(k) \in Events  BY DEF Event, Events
  <2>3. /\ request # None /\ request' = None /\ pc' = pc /\ state' = state
        /\ FrameAt = {} /\ pc = "wait" /\ state.frame = "none"
    BY <1>13 DEF Repaint, RefuseFrame, OneFrame
  <2>4. FrameAt' \subseteq {Len(wire) + 1}
    <3>1. /\ DOMAIN wire = 1 .. Len(wire)
          /\ \A i \in DOMAIN wire' : i \in DOMAIN wire \/ i = Len(wire) + 1
          /\ \A i \in DOMAIN wire : wire'[i] = wire[i]
      BY <2>1, <2>2, Appended
    <3> QED  BY <3>1, <2>3 DEF FrameAt
  <2> QED  BY <2>3, <2>4 DEF OneFrame
<1>14. CASE StopSession
  <2>1. wire' = Append(wire, Event("stopped")) /\ Event("stopped") \in Events
    BY <1>14 DEF StopSession, Event, Events
  <2>2. /\ DOMAIN wire = 1 .. Len(wire) /\ wire'[Len(wire) + 1] = Event("stopped")
        /\ \A i \in DOMAIN wire' : i \in DOMAIN wire \/ i = Len(wire) + 1
        /\ \A i \in DOMAIN wire : wire'[i] = wire[i]
    BY <2>1, Appended
  <2>3. FrameAt' \subseteq FrameAt  BY <2>2 DEF FrameAt, FrameKinds, Event
  <2> QED  BY <2>3, <1>14 DEF StopSession, OneFrame
<1> QED
  BY <1>1, <1>2, <1>3, <1>4, <1>5, <1>6, <1>7, <1>8, <1>9, <1>10, <1>11, <1>12, <1>13, <1>14
     DEF Next, Client

LEMMA BackTurns ==
  ASSUME NEW i \in 0 .. PoolSize - 1, NEW d \in 0 .. PoolSize - 1
  PROVE  Back(NextBuffer(i), d + 1) = Back(i, d)
<1>1. PoolSize \in Nat /\ PoolSize >= 1  BY PoolSizeAssumption
<1>2. NextBuffer(i) = IF i = PoolSize - 1 THEN 0 ELSE i + 1  BY Turning
<1>3. CASE i = PoolSize - 1  BY <1>1, <1>2, <1>3 DEF Back
<1>4. CASE i # PoolSize - 1  BY <1>1, <1>2, <1>4 DEF Back
<1> QED  BY <1>3, <1>4

LEMMA TurnsStep ==
  ASSUME Typed, Phases, TakeTurns, Next
  PROVE  TakeTurns'
<1> USE DEF compositorVars, poolVars, OtherThanCompositor, Goto, Fail, Waiting
<1>1. CASE Dispatch  BY <1>1 DEF Dispatch, TakeTurns, Turn
<1>2. CASE Negotiated  BY <1>2 DEF Negotiated, TakeTurns, Turn
<1>3. CASE Allocate
  <2>1. pool'.round = pool.round + 1 /\ pool.round \in Nat /\ given' = given /\ pc' = "check"
    BY <1>3 DEF Allocate, Typed, Pools
  <2>2. ASSUME NEW i \in DOMAIN given  PROVE given[i].round # pool'.round
    <3>1. given[i] \in Frames  BY ElementOfSeq DEF Typed
    <3>2. given[i].round \in Nat  BY <3>1 DEF Frames
    <3>3. given[i].round <= pool.round  BY DEF Phases
    <3> QED  BY <3>2, <3>3, <2>1
  <2> QED  BY <2>1, <2>2 DEF TakeTurns
<1>4. CASE AllocateFails  BY <1>4 DEF AllocateFails, TakeTurns, Turn
<1>5. CASE CheckGeometry  BY <1>5 DEF CheckGeometry, TakeTurns, Turn
<1>6. CASE TryCapture  BY <1>6 DEF TryCapture, TakeTurns, Turn
<1>7. CASE CaptureStopped  BY <1>7 DEF CaptureStopped, TakeTurns, Turn
<1>8. CASE FrameReady
  <2> DEFINE x == [size |-> pool.size, layout |-> pool.layout, round |-> pool.round, index |-> index]
             all == Append(given, x)
             n == Len(given)
  <2>1. /\ x \in Frames /\ x.index = index
        /\ given \in Seq(Frames) /\ n <= PoolSize /\ index \in 0 .. PoolSize - 1
    BY <1>8 DEF FrameReady, Phases, Typed, Pools, Frames
  <2>2. /\ given' = IF Len(all) > PoolSize THEN Tail(all) ELSE all
        /\ pool' = pool /\ pc' = "capture" /\ nextBuffer' = nextBuffer /\ pc = "wait"
    BY <1>8 DEF FrameReady
  <2>3. nextBuffer = NextBuffer(index) /\ Turn' = NextBuffer(index) /\ Turn = index
    BY <2>2 DEF TakeTurns, Turn
  <2>4. \A i \in DOMAIN given :
          given[i].round = pool.round => given[i].index = Back(index, (n + 1) - i)
    BY <2>2, <2>3 DEF TakeTurns
  <2> HIDE DEF x
  <2>5. /\ n \in Nat /\ DOMAIN given = 1 .. n
        /\ all \in Seq(Frames) /\ DOMAIN all = 1 .. n + 1 /\ Len(all) = n + 1
        /\ all[n + 1] = x
        /\ \A i \in 1 .. n : all[i] = given[i]
    BY ONLY <2>1, Added
  <2>6. PoolSize \in Nat /\ PoolSize >= 1  BY PoolSizeAssumption
  <2> HIDE DEF all, n
  <2>7. ASSUME NEW i \in 1 .. n + 1, n - i <= PoolSize - 2, all[i].round = pool.round
        PROVE  all[i].index = Back(NextBuffer(index), (n + 2) - i)
    <3>1. CASE i = n + 1
      <4>1. (n + 2) - i = 0 + 1 /\ 0 \in 0 .. PoolSize - 1  BY <3>1, <2>5, <2>6
      <4>2. Back(NextBuffer(index), 0 + 1) = Back(index, 0)  BY <4>1, <2>1, BackTurns
      <4>3. Back(index, 0) = index  BY <2>1 DEF Back
      <4> QED  BY <3>1, <4>1, <4>2, <4>3, <2>1, <2>5
    <3>2. CASE i # n + 1
      <4>1. i \in 1 .. n /\ (n + 1) - i \in 0 .. PoolSize - 1 /\ (n + 2) - i = ((n + 1) - i) + 1
        BY <3>2, <2>5, <2>6, <2>7
      <4>2. Back(NextBuffer(index), ((n + 1) - i) + 1) = Back(index, (n + 1) - i)
        BY <4>1, <2>1, BackTurns
      <4>3. all[i] = given[i] /\ i \in DOMAIN given  BY <4>1, <2>5
      <4>4. given[i].index = Back(index, (n + 1) - i)  BY <4>3, <2>4, <2>7
      <4> QED  BY <4>1, <4>2, <4>3, <4>4
    <3> QED  BY <3>1, <3>2
  <2>8. all # <<>>  BY ONLY <2>5
  <2>9. /\ DOMAIN Tail(all) = 1 .. n /\ Len(Tail(all)) = n
        /\ \A i \in 1 .. n : Tail(all)[i] = all[i + 1] /\ i + 1 \in 1 .. n + 1
    <3>1. /\ DOMAIN Tail(all) = 1 .. Len(all) - 1 /\ Len(Tail(all)) = Len(all) - 1
          /\ \A i \in 1 .. Len(all) - 1 : Tail(all)[i] = all[i + 1]
      BY ONLY <2>5, <2>8, Taken
    <3> QED  BY ONLY <3>1, <2>5
  <2>10. \A i \in DOMAIN given' : given'[i].round = pool.round =>
           given'[i].index = Back(NextBuffer(index), (Len(given') + 1) - i)
    <3>1. CASE Len(all) > PoolSize
      <4>1. given' = Tail(all) /\ n = PoolSize  BY <3>1, <2>1, <2>2, <2>5, <2>6 DEF n
      <4> SUFFICES ASSUME NEW i \in 1 .. n, Tail(all)[i].round = pool.round
                   PROVE  Tail(all)[i].index = Back(NextBuffer(index), (n + 1) - i)
        BY <4>1, <2>9
      <4>2. /\ Tail(all)[i] = all[i + 1] /\ i + 1 \in 1 .. n + 1
            /\ n - (i + 1) <= PoolSize - 2 /\ (n + 2) - (i + 1) = (n + 1) - i
        BY <4>1, <2>5, <2>6, <2>9
      <4> QED  BY <4>2, <2>7
    <3>2. CASE ~(Len(all) > PoolSize)
      <4>1. given' = all /\ n <= PoolSize - 1  BY <3>2, <2>2, <2>5, <2>6
      <4> SUFFICES ASSUME NEW i \in 1 .. n + 1, all[i].round = pool.round
                   PROVE  all[i].index = Back(NextBuffer(index), (n + 2) - i)
        BY <4>1, <2>5
      <4>2. n - i <= PoolSize - 2  BY <4>1, <2>5, <2>6
      <4> QED  BY <4>2, <2>7
    <3> QED  BY <3>1, <3>2
  <2>11. pc' # "wait"  BY <2>2
  <2> QED  BY <2>2, <2>3, <2>10, <2>11 DEF TakeTurns
<1>9. CASE FrameFailed  BY <1>9 DEF FrameFailed, TakeTurns, Turn
<1>10. CASE Renegotiated  BY <1>10 DEF Renegotiated, TakeTurns, Turn
<1>11. CASE RenegotiationTimesOut  BY <1>11 DEF RenegotiationTimesOut, TakeTurns, Turn
<1>12. CASE Change  BY <1>12 DEF Change, TakeTurns, Turn
<1>13. CASE Repaint \/ RefuseFrame \/ StopSession
  BY <1>13 DEF Repaint, RefuseFrame, StopSession, TakeTurns, Turn
<1> QED
  BY <1>1, <1>2, <1>3, <1>4, <1>5, <1>6, <1>7, <1>8, <1>9, <1>10, <1>11, <1>12, <1>13
     DEF Next, Client

----------------------------------------------------------------------------
(* How the generation that arrives grows with an event.                    *)
LEMMA Generation ==
  ASSUME Typed, Dispatch
  PROVE  /\ Arrived \in States /\ Arrived' \in States /\ state' \in States
         /\ wire[1].kind = "size" =>
              /\ Arrived'.caps.size = wire[1].size
              /\ Arrived'.caps.formats = Arrived.caps.formats
              /\ Arrived'.done = Arrived.done /\ ~state'.consumed
         /\ wire[1].kind = "format" =>
              /\ Arrived'.caps.size = Arrived.caps.size
              /\ Arrived'.caps.formats = Append(Arrived.caps.formats, wire[1].entry)
              /\ Arrived'.done = Arrived.done /\ ~state'.consumed
         /\ wire[1].kind = "done" =>
              state'.caps = state.caps /\ state'.consumed = state.consumed /\ state'.done
         /\ wire[1].kind \notin {"size", "format", "done"} =>
              /\ Arrived'.caps = Arrived.caps /\ Arrived'.done = Arrived.done
              /\ state'.caps = state.caps /\ state'.done = state.done
              /\ state'.consumed = state.consumed
<1>1. wire[1] \in Events /\ state' = Apply(state, wire[1]) /\ state \in States
  BY Dispatched
<1> DEFINE b == BeginGeneration(state)
           c == BeginGeneration(state')
<1>2. state' \in States  BY <1>1, Applied
<1>3. b \in States /\ b.consumed = FALSE /\ (~state.consumed => b = state)
      /\ (state.consumed => b.caps = NoCaps /\ b.done = FALSE)
  BY <1>1, Begun
<1>4. c \in States /\ (~state'.consumed => c = state')
      /\ (state'.consumed => c.caps = NoCaps /\ c.done = FALSE)
  BY <1>2, Begun
<1>5. Arrived = b /\ Arrived' = c  BY DEF Arrived
<1>6. wire[1].kind = "size" => state' = [b EXCEPT !.caps.size = wire[1].size]
  BY <1>1, Applied
<1>7. wire[1].kind = "format" => state' = [b EXCEPT !.caps.formats = Append(@, wire[1].entry)]
  BY <1>1, Applied
<1>8. wire[1].kind = "done" => state' = [state EXCEPT !.done = TRUE]
  BY <1>1, Applied
<1>9. wire[1].kind \notin {"size", "format", "done"} =>
        /\ state'.caps = state.caps /\ state'.done = state.done
        /\ state'.consumed = state.consumed
  BY <1>1, Applies
<1> HIDE DEF b, c
<1>10. ASSUME wire[1].kind = "size"
       PROVE  /\ c.caps.size = wire[1].size /\ c.caps.formats = b.caps.formats
              /\ c.done = b.done /\ ~state'.consumed
  BY <1>3, <1>4, <1>6, <1>10 DEF States
<1>11. ASSUME wire[1].kind = "format"
       PROVE  /\ c.caps.size = b.caps.size
              /\ c.caps.formats = Append(b.caps.formats, wire[1].entry)
              /\ c.done = b.done /\ ~state'.consumed
  BY <1>3, <1>4, <1>7, <1>11 DEF States
<1>12. ASSUME wire[1].kind = "done"
       PROVE  state'.caps = state.caps /\ state'.consumed = state.consumed /\ state'.done
  BY <1>1, <1>8, <1>12 DEF States
<1>13. ASSUME wire[1].kind \notin {"size", "format", "done"}
       PROVE  c.caps = b.caps /\ c.done = b.done
  BY <1>1, <1>2, <1>3, <1>4, <1>9, <1>13 DEF States
<1> QED  BY ONLY <1>2, <1>3, <1>4, <1>5, <1>9, <1>10, <1>11, <1>12, <1>13

LEMMA SettledStays ==
  ASSUME Typed, Settled, Dispatch
  PROVE  /\ Settled' /\ ~IsConstraint(wire[1])
         /\ state'.consumed = state.consumed
<1>1. /\ DOMAIN wire = 1 .. Len(wire) /\ Len(wire) \in Nat /\ Len(wire) >= 1
      /\ DOMAIN wire' = 1 .. Len(wire) - 1 /\ offered' = offered
      /\ \A i \in 1 .. Len(wire) - 1 : wire'[i] = wire[i + 1] /\ i + 1 \in 1 .. Len(wire)
  BY Dispatched DEF compositorVars
<1>2. ~IsConstraint(wire[1])  BY <1>1 DEF Settled
<1>3. state'.caps = state.caps /\ state'.done = state.done /\ state'.consumed = state.consumed
  BY <1>2, Generation DEF IsConstraint
<1> QED  BY <1>1, <1>2, <1>3 DEF Settled, IsConstraint

LEMMA ShiftedSize ==
  ASSUME Typed, Dispatch, wire[1].kind # "size", Arrived'.caps.size = Arrived.caps.size,
         NEW s \in 0 .. Len(wire), SizeArriving(s)
  PROVE  \E t \in 0 .. Len(wire') : SizeArriving(t)'
<1>1. /\ DOMAIN wire = 1 .. Len(wire) /\ Len(wire) \in Nat /\ Len(wire) >= 1
      /\ DOMAIN wire' = 1 .. Len(wire) - 1 /\ offered' = offered
      /\ Len(wire') = Len(wire) - 1
      /\ \A i \in 1 .. Len(wire) - 1 : wire'[i] = wire[i + 1] /\ i + 1 \in 1 .. Len(wire)
  BY Dispatched, Zenon DEF compositorVars
<1>2. CASE Arrived.caps.size = offered.size /\ \A i \in DOMAIN wire : wire[i].kind # "size"
  <2>1. /\ Arrived'.caps.size = offered'.size
        /\ \A i \in DOMAIN wire' : wire'[i].kind # "size"
    BY <1>1, <1>2
  <2>2. SizeArriving(0)'  BY <2>1 DEF SizeArriving
  <2>3. 0 \in 0 .. Len(wire')  BY <1>1
  <2> QED  BY <2>2, <2>3
<1>3. CASE /\ Arrived.caps.size = None
           /\ s \in DOMAIN wire
           /\ \A i \in DOMAIN wire : wire[i].kind = "size" <=> i = s
           /\ wire[s].size = offered.size
  <2>1. s \in 1 .. Len(wire) /\ s # 1  BY <1>1, <1>3
  <2> DEFINE t == s - 1
  <2>2. t \in 1 .. Len(wire) - 1 /\ t + 1 = s  BY <1>1, <2>1
  <2>3. \A i \in 1 .. Len(wire) - 1 : i + 1 = s <=> i = t  BY <1>1, <2>1
  <2> HIDE DEF t
  <2>4. /\ Arrived'.caps.size = None /\ t \in DOMAIN wire'
        /\ \A i \in DOMAIN wire' : wire'[i].kind = "size" <=> i = t
        /\ wire'[t].size = offered'.size
    BY <1>1, <1>3, <2>2, <2>3
  <2>5. SizeArriving(t)'  BY <2>4 DEF SizeArriving
  <2>6. t \in 0 .. Len(wire')  BY <2>2, <1>1
  <2> QED  BY <2>5, <2>6
<1> QED  BY <1>2, <1>3, Zenon DEF SizeArriving

LEMMA ShiftedFormats ==
  ASSUME Typed, Dispatch, wire[1].kind \notin {"format", "done"},
         Arrived'.caps.formats = Arrived.caps.formats,
         NEW a \in 0 .. Len(wire), NEW d \in DOMAIN wire, ArrivingAt(a, d)
  PROVE  \E b \in 0 .. Len(wire'), e \in DOMAIN wire' : ArrivingAt(b, e)'
<1> DEFINE L == Len(wire)
           m == Len(Arrived.caps.formats)
           n == Len(offered.formats)
           b == IF a = 0 THEN 0 ELSE a - 1
           e == d - 1
<1>1. /\ DOMAIN wire = 1 .. L /\ L \in Nat /\ L >= 1 /\ Len(wire') = L - 1
      /\ DOMAIN wire' = 1 .. L - 1 /\ offered' = offered
      /\ \A i \in 1 .. L - 1 : wire'[i] = wire[i + 1] /\ i + 1 \in 1 .. L
  BY Dispatched, Zenon DEF compositorVars
<1>2. m \in Nat /\ n \in Nat
  <2>1. Arrived \in States  BY Generation
  <2>2. Arrived.caps.formats \in Seq(Entries)  BY <2>1 DEF States
  <2>3. offered.formats \in Seq(Range(offered.formats))  BY OffersAssumption DEF Typed
  <2> QED  BY <2>2, <2>3
<1>3. /\ wire[d].kind = "done"
      /\ \A i \in DOMAIN wire : IsConstraint(wire[i]) => i <= d
      /\ \A i \in DOMAIN wire : wire[i].kind = "done" => i = d
      /\ m <= n
      /\ \A i \in 1 .. m : Arrived.caps.formats[i] = offered.formats[i]
      /\ \A i \in DOMAIN wire : wire[i].kind = "format" <=> i > a /\ i <= a + (n - m)
      /\ \A i \in DOMAIN wire :
           wire[i].kind = "format" => wire[i].entry = offered.formats[m + (i - a)]
      /\ a + (n - m) < d
  BY DEF ArrivingAt
<1>4. m = Len(Arrived.caps.formats)' /\ n = Len(offered.formats)'  BY <1>1
<1> HIDE DEF L, m, n
<1>5. d \in 1 .. L /\ d # 1 /\ 1 \in 1 .. L /\ a \in 0 .. L  BY <1>1, <1>3 DEF L
<1>6. a = 0 => n = m
  <2> SUFFICES ASSUME a = 0, n # m  PROVE FALSE
    OBVIOUS
  <2>1. 1 > a /\ 1 <= a + (n - m)  BY ONLY <1>2, <1>3, a = 0, n # m
  <2>2. wire[1].kind = "format"  BY ONLY <2>1, <1>1, <1>3, <1>5
  <2> QED  BY <2>2
<1>7. b \in 0 .. L - 1 /\ e \in 1 .. L - 1 /\ e + 1 = d  BY <1>1, <1>5
<1>8. \A i \in 1 .. L - 1 : (i + 1 > a /\ i + 1 <= a + (n - m)) <=> (i > b /\ i <= b + (n - m))
  BY <1>1, <1>2, <1>5, <1>6
<1>9. \A i \in 1 .. L - 1 : i > b /\ i <= b + (n - m) => m + ((i + 1) - a) = m + (i - b)
  BY <1>1, <1>2, <1>5, <1>6
<1>10. b + (n - m) < e  BY <1>1, <1>2, <1>3, <1>5, <1>6
<1>11. \A i \in 1 .. L - 1 : (i + 1 <= d <=> i <= e) /\ (i + 1 = d <=> i = e)  BY <1>1, <1>5
<1> HIDE DEF b, e
<1>12. /\ wire'[e].kind = "done"
       /\ \A i \in DOMAIN wire' : IsConstraint(wire'[i]) => i <= e
       /\ \A i \in DOMAIN wire' : wire'[i].kind = "done" => i = e
  <2>1. wire'[e] = wire[d]  BY ONLY <1>1, <1>7
  <2>2. ASSUME NEW i \in 1 .. L - 1
        PROVE  /\ IsConstraint(wire'[i]) => i <= e
               /\ wire'[i].kind = "done" => i = e
    <3>1. wire'[i] = wire[i + 1] /\ i + 1 \in DOMAIN wire  BY ONLY <1>1, <2>2
    <3>2. IsConstraint(wire[i + 1]) => i + 1 <= d  BY ONLY <3>1, <1>3
    <3>3. wire[i + 1].kind = "done" => i + 1 = d  BY ONLY <3>1, <1>3
    <3> QED  BY ONLY <3>1, <3>2, <3>3, <1>11, <2>2
  <2> QED  BY ONLY <2>1, <2>2, <1>1, <1>3
<1>13. \A i \in DOMAIN wire' : wire'[i].kind = "format" <=> i > b /\ i <= b + (n - m)
  <2> SUFFICES ASSUME NEW i \in 1 .. L - 1
               PROVE  wire'[i].kind = "format" <=> i > b /\ i <= b + (n - m)
    BY <1>1
  <2>1. wire'[i] = wire[i + 1] /\ i + 1 \in DOMAIN wire  BY ONLY <1>1, i \in 1 .. L - 1
  <2>2. wire[i + 1].kind = "format" <=> i + 1 > a /\ i + 1 <= a + (n - m)
    BY ONLY <2>1, <1>3
  <2> QED  BY ONLY <2>1, <2>2, <1>8, i \in 1 .. L - 1
<1>14. \A i \in DOMAIN wire' :
         wire'[i].kind = "format" => wire'[i].entry = offered.formats[m + (i - b)]
  <2> SUFFICES ASSUME NEW i \in 1 .. L - 1, wire'[i].kind = "format"
               PROVE  wire'[i].entry = offered.formats[m + (i - b)]
    BY <1>1
  <2>1. wire'[i] = wire[i + 1] /\ i + 1 \in 1 .. L  BY <1>1
  <2>2. wire[i + 1].entry = offered.formats[m + ((i + 1) - a)]  BY <2>1, <1>1, <1>3
  <2>3. m + ((i + 1) - a) = m + (i - b)  BY <1>1, <1>9, <1>13
  <2> QED  BY <2>1, <2>2, <2>3
<1>15. \A i \in 1 .. m : Arrived'.caps.formats[i] = offered'.formats[i]  BY <1>1, <1>3
<1>16. ArrivingAt(b, e)'
  BY <1>1, <1>3, <1>4, <1>10, <1>12, <1>13, <1>14, <1>15, Zenon DEF ArrivingAt
<1>17. b \in 0 .. Len(wire') /\ e \in DOMAIN wire'  BY <1>1, <1>7
<1> QED  BY <1>16, <1>17

(* A format goes from the head of the queue to the end of those arrived.   *)
LEMMA FormatArrives ==
  ASSUME Typed, Dispatch, wire[1].kind = "format",
         NEW a \in 0 .. Len(wire), NEW d \in DOMAIN wire, ArrivingAt(a, d)
  PROVE  \E b \in 0 .. Len(wire'), e \in DOMAIN wire' : ArrivingAt(b, e)'
<1> DEFINE L == Len(wire)
           F == Arrived.caps.formats
           G == Arrived'.caps.formats
           m == Len(F)
           n == Len(offered.formats)
           e == d - 1
<1>1. /\ DOMAIN wire = 1 .. L /\ L \in Nat /\ L >= 1 /\ Len(wire') = L - 1
      /\ DOMAIN wire' = 1 .. L - 1 /\ offered' = offered
      /\ \A i \in 1 .. L - 1 : wire'[i] = wire[i + 1] /\ i + 1 \in 1 .. L
      /\ wire[1] \in Events
  BY Dispatched, Zenon DEF compositorVars
<1>2. F \in Seq(Entries) /\ m \in Nat /\ n \in Nat
  <2>1. Arrived \in States  BY Generation
  <2>2. F \in Seq(Entries)  BY <2>1 DEF States
  <2>3. offered.formats \in Seq(Range(offered.formats))  BY OffersAssumption DEF Typed
  <2> QED  BY <2>2, <2>3
<1>3. /\ wire[d].kind = "done"
      /\ \A i \in DOMAIN wire : IsConstraint(wire[i]) => i <= d
      /\ \A i \in DOMAIN wire : wire[i].kind = "done" => i = d
      /\ m <= n
      /\ \A i \in 1 .. m : F[i] = offered.formats[i]
      /\ \A i \in DOMAIN wire : wire[i].kind = "format" <=> i > a /\ i <= a + (n - m)
      /\ \A i \in DOMAIN wire :
           wire[i].kind = "format" => wire[i].entry = offered.formats[m + (i - a)]
      /\ a + (n - m) < d
  BY DEF ArrivingAt
<1>4. G = Append(F, wire[1].entry) /\ wire[1].entry \in Entries
  <2>1. G = Append(F, wire[1].entry)  BY Generation
  <2>2. wire[1].entry \in Entries  BY <1>1, Kinds
  <2> QED  BY <2>1, <2>2
<1>5. n = Len(offered.formats)' /\ G = Arrived'.caps.formats  BY <1>1
<1> HIDE DEF L, F, G, n
<1>6. Len(G) = m + 1 /\ G[m + 1] = wire[1].entry /\ \A i \in 1 .. m : G[i] = F[i]
  BY ONLY <1>2, <1>4, Added
<1> HIDE DEF m
<1>7. 1 \in DOMAIN wire /\ d \in 1 .. L /\ d # 1 /\ a \in 0 .. L  BY <1>1, <1>3 DEF L
<1>8. a = 0 /\ 1 <= n - m /\ wire[1].entry = offered.formats[m + 1]
  <2>1. 1 > a /\ 1 <= a + (n - m) /\ wire[1].entry = offered.formats[m + (1 - a)]
    BY <1>3, <1>7
  <2> QED  BY <2>1, <1>2, <1>7
<1>9. e \in 1 .. L - 1 /\ e + 1 = d /\ 0 + (n - (m + 1)) < e
  BY <1>1, <1>2, <1>3, <1>7, <1>8
<1> HIDE DEF e
<1>10. ASSUME NEW i \in 1 .. L - 1
       PROVE  /\ IsConstraint(wire'[i]) => i <= e
              /\ wire'[i].kind = "done" => i = e
              /\ wire'[i].kind = "format" <=> i > 0 /\ i <= 0 + (n - (m + 1))
              /\ wire'[i].kind = "format" => wire'[i].entry = offered.formats[(m + 1) + (i - 0)]
  <2>1. wire'[i] = wire[i + 1] /\ i + 1 \in DOMAIN wire  BY ONLY <1>1, <1>10
  <2>2. /\ IsConstraint(wire[i + 1]) => i + 1 <= d
        /\ wire[i + 1].kind = "done" => i + 1 = d
        /\ wire[i + 1].kind = "format" <=> i + 1 > 0 /\ i + 1 <= 0 + (n - m)
        /\ wire[i + 1].kind = "format" =>
             wire[i + 1].entry = offered.formats[m + ((i + 1) - 0)]
    BY ONLY <2>1, <1>3, <1>8
  <2>3. m + ((i + 1) - 0) = (m + 1) + (i - 0)  BY <1>2, <1>1, <1>10
  <2>4. i + 1 <= d <=> i <= e  BY <1>1, <1>9, <1>10
  <2>5. i + 1 = d <=> i = e  BY <1>1, <1>9, <1>10
  <2>6. (i + 1 > 0 /\ i + 1 <= 0 + (n - m)) <=> (i > 0 /\ i <= 0 + (n - (m + 1)))
    BY <1>1, <1>2, <1>10
  <2> QED  BY ONLY <2>1, <2>2, <2>3, <2>4, <2>5, <2>6
<1>11. \A i \in 1 .. m + 1 : G[i] = offered.formats[i]
  <2> SUFFICES ASSUME NEW i \in 1 .. m + 1  PROVE G[i] = offered.formats[i]
    OBVIOUS
  <2>1. CASE i = m + 1  BY <2>1, <1>6, <1>8
  <2>2. CASE i # m + 1
    <3>1. i \in 1 .. m  BY <2>2, <1>2
    <3> QED  BY <3>1, <1>3, <1>6
  <2> QED  BY <2>1, <2>2
<1>12. wire'[e].kind = "done"  BY <1>1, <1>3, <1>9
<1>13. m + 1 <= n  BY <1>2, <1>8
<1>14. ArrivingAt(0, e)'
  BY ONLY <1>1, <1>5, <1>6, <1>9, <1>10, <1>11, <1>12, <1>13 DEF ArrivingAt
<1>15. 0 \in 0 .. Len(wire') /\ e \in DOMAIN wire'  BY <1>1, <1>9
<1> QED  BY <1>14, <1>15

(* "done" comes when all of the batch has, and settles it.                 *)
LEMMA DoneSettles ==
  ASSUME Typed, Dispatch, wire[1].kind = "done", Arriving
  PROVE  Settled' /\ ~state'.consumed
<1>1. /\ DOMAIN wire = 1 .. Len(wire) /\ Len(wire) \in Nat /\ Len(wire) >= 1
      /\ DOMAIN wire' = 1 .. Len(wire) - 1 /\ offered' = offered
      /\ \A i \in 1 .. Len(wire) - 1 : wire'[i] = wire[i + 1] /\ i + 1 \in 1 .. Len(wire)
      /\ state \in States
  BY Dispatched DEF compositorVars
<1>2. PICK a \in 0 .. Len(wire), d \in DOMAIN wire : ArrivingAt(a, d)  BY DEF Arriving
<1>3. PICK s \in 0 .. Len(wire) : SizeArriving(s)  BY DEF Arriving
<1> DEFINE F == Arrived.caps.formats
           m == Len(F)
           n == Len(offered.formats)
<1>4. /\ \A i \in DOMAIN wire : IsConstraint(wire[i]) => i <= d
      /\ \A i \in DOMAIN wire : wire[i].kind = "done" => i = d
      /\ m <= n
      /\ \A i \in 1 .. m : F[i] = offered.formats[i]
      /\ a + (n - m) < d
  BY <1>2 DEF ArrivingAt
<1>5. offered.formats \in Seq(Entries) /\ offered.size \in Sizes
  <2>1. offered.formats \in Offers /\ offered.size \in Sizes  BY DEF Typed
  <2>2. Range(offered.formats) \subseteq Entries  BY <2>1 DEF Entries
  <2>3. offered.formats \in Seq(Range(offered.formats))  BY <2>1, OffersAssumption
  <2> QED  BY <2>1, <2>2, <2>3, SeqMonotonic
<1>6. F \in Seq(Entries) /\ Arrived \in States
  <2>1. Arrived \in States  BY Generation
  <2> QED  BY <2>1 DEF States
<1> HIDE DEF F
<1>7. m \in Nat /\ n \in Nat  BY <1>5, <1>6
<1>8. 1 \in DOMAIN wire /\ d = 1  BY <1>1, <1>4
<1>9. m = n  BY <1>4, <1>7, <1>8
<1>10. F = offered.formats  BY ONLY <1>4, <1>5, <1>6, <1>9, SeqEqual
<1>11. Arrived.caps.size = offered.size
  <2> SUFFICES ASSUME /\ s \in DOMAIN wire
                      /\ \A i \in DOMAIN wire : wire[i].kind = "size" <=> i = s
               PROVE  FALSE
    BY <1>3 DEF SizeArriving
  <2>1. wire[s].kind = "size"  OBVIOUS
  <2>2. s <= 1  BY <2>1, <1>4, <1>8 DEF IsConstraint
  <2>3. s = 1  BY <2>2, <1>1
  <2> QED  BY <2>1, <2>3
<1>12. ~state.consumed
  <2> SUFFICES ASSUME state.consumed  PROVE FALSE
    OBVIOUS
  <2>1. Arrived.caps = NoCaps  BY <1>1, Begun DEF Arrived
  <2>2. Arrived.caps.size = None  BY <2>1 DEF NoCaps
  <2> QED  BY <2>2, <1>5, <1>11, NotNone
<1>13. Arrived = state  BY <1>1, <1>12, Begun DEF Arrived
<1>14. state'.caps = state.caps /\ state'.consumed = state.consumed /\ state'.done
  BY Generation
<1>15. state.caps = offered
  <2>1. /\ state.caps \in [size : Sizes \cup {None}, formats : Seq(Entries)]
        /\ offered \in [size : Sizes, formats : Offers]
    BY <1>1 DEF States, Typed
  <2>2. state.caps.size = offered.size /\ state.caps.formats = offered.formats
    BY <1>10, <1>11, <1>13 DEF F
  <2> QED  BY ONLY <2>1, <2>2
<1>16. \A i \in DOMAIN wire' : ~IsConstraint(wire'[i])
  <2> SUFFICES ASSUME NEW i \in 1 .. Len(wire) - 1, IsConstraint(wire'[i])  PROVE FALSE
    BY <1>1
  <2>1. IsConstraint(wire[i + 1]) /\ i + 1 \in DOMAIN wire  BY <1>1
  <2>2. i + 1 <= 1  BY <2>1, <1>4, <1>8
  <2> QED  BY <2>2, <1>1
<1> QED  BY <1>1, <1>12, <1>14, <1>15, <1>16 DEF Settled

LEMMA ArrivingGoesOn ==
  ASSUME Typed, Dispatch, Arriving, wire[1].kind # "done"
  PROVE  Arriving'
<1>1. PICK a \in 0 .. Len(wire), d \in DOMAIN wire : ArrivingAt(a, d)  BY DEF Arriving
<1>2. PICK s \in 0 .. Len(wire) : SizeArriving(s)  BY DEF Arriving
<1>3. ~Arrived'.done
  <2>1. Arrived'.done = Arrived.done  BY Generation
  <2> QED  BY <2>1 DEF Arriving
<1>4. CASE wire[1].kind = "size"
  <2>1. Arrived'.caps.size = wire[1].size /\ Arrived'.caps.formats = Arrived.caps.formats
    BY <1>4, Generation
  <2>2. \E b \in 0 .. Len(wire'), e \in DOMAIN wire' : ArrivingAt(b, e)'
    BY <1>1, <1>4, <2>1, ShiftedFormats
  <2>3. SizeArriving(0)' /\ 0 \in 0 .. Len(wire')
    <3>1. /\ DOMAIN wire = 1 .. Len(wire) /\ Len(wire) \in Nat /\ Len(wire) >= 1
          /\ DOMAIN wire' = 1 .. Len(wire) - 1 /\ offered' = offered
          /\ Len(wire') = Len(wire) - 1
          /\ \A i \in 1 .. Len(wire) - 1 : wire'[i] = wire[i + 1] /\ i + 1 \in 1 .. Len(wire)
      BY Dispatched, Zenon DEF compositorVars
    <3>2. 1 \in DOMAIN wire  BY <3>1
    <3>3. /\ \A i \in DOMAIN wire : wire[i].kind = "size" <=> i = s
          /\ wire[s].size = offered.size
      BY <1>2, <1>4, <3>2 DEF SizeArriving
    <3>4. s = 1  BY <1>4, <3>2, <3>3
    <3>5. \A i \in DOMAIN wire' : wire'[i].kind # "size"
      <4> SUFFICES ASSUME NEW i \in 1 .. Len(wire) - 1  PROVE wire'[i].kind # "size"
        BY <3>1
      <4>1. wire'[i] = wire[i + 1] /\ i + 1 \in DOMAIN wire /\ i + 1 # 1  BY <3>1
      <4> QED  BY <4>1, <3>3, <3>4
    <3>6. Arrived'.caps.size = offered'.size  BY <2>1, <3>1, <3>3, <3>4
    <3>7. SizeArriving(0)'  BY <3>5, <3>6 DEF SizeArriving
    <3>8. 0 \in 0 .. Len(wire')  BY <3>1
    <3> QED  BY <3>7, <3>8, Zenon
  <2> QED  BY <1>3, <2>2, <2>3 DEF Arriving
<1>5. CASE wire[1].kind = "format"
  <2>1. Arrived'.caps.size = Arrived.caps.size  BY <1>5, Generation
  <2>2. \E b \in 0 .. Len(wire'), e \in DOMAIN wire' : ArrivingAt(b, e)'
    BY <1>1, <1>5, FormatArrives
  <2>3. \E t \in 0 .. Len(wire') : SizeArriving(t)'
    BY <1>2, <1>5, <2>1, ShiftedSize
  <2> QED  BY <1>3, <2>2, <2>3 DEF Arriving
<1>6. CASE wire[1].kind \notin {"size", "format"}
  <2>1. Arrived'.caps = Arrived.caps  BY <1>6, Generation
  <2>2. \E b \in 0 .. Len(wire'), e \in DOMAIN wire' : ArrivingAt(b, e)'
    BY <1>1, <1>6, <2>1, ShiftedFormats
  <2>3. \E t \in 0 .. Len(wire') : SizeArriving(t)'
    BY <1>2, <1>6, <2>1, ShiftedSize
  <2> QED  BY <1>3, <2>2, <2>3 DEF Arriving
<1> QED  BY <1>4, <1>5, <1>6

(* A new event that is no constraint changes nothing of this.              *)
LEMMA AppendKeeps ==
  ASSUME Typed, NEW e \in Events, ~IsConstraint(e), wire' = Append(wire, e),
         UNCHANGED <<state, offered>>
  PROVE  (Settled' <=> Settled) /\ (Arriving => Arriving')
<1> DEFINE L == Len(wire)
<1>1. /\ L \in Nat /\ DOMAIN wire = 1 .. L /\ Len(wire') = L + 1 /\ DOMAIN wire' = 1 .. L + 1
      /\ wire'[L + 1] = e
      /\ \A i \in 1 .. L : wire'[i] = wire[i]
      /\ \A i \in 1 .. L + 1 : i \in 1 .. L \/ i = L + 1
  BY Appended
<1>2. Arrived' = Arrived /\ offered' = offered /\ state' = state  BY DEF Arrived
<1> HIDE DEF L
<1>3. \A i \in 1 .. L : i \in 1 .. L + 1  BY <1>1
<1>4. Settled' <=> Settled
  <2>1. (\A i \in DOMAIN wire' : ~IsConstraint(wire'[i]))
          <=> \A i \in DOMAIN wire : ~IsConstraint(wire[i])
    BY <1>1, <1>3
  <2> QED  BY <1>2, <2>1 DEF Settled
<1>5. ASSUME Arriving  PROVE Arriving'
  <2>1. PICK a \in 0 .. L, d \in 1 .. L : ArrivingAt(a, d)  BY <1>1, <1>5 DEF Arriving, L
  <2>2. PICK s \in 0 .. L : SizeArriving(s)  BY <1>5 DEF Arriving, L
  <2> DEFINE m == Len(Arrived.caps.formats)
             n == Len(offered.formats)
  <2>3. m \in Nat /\ n \in Nat
    <3>1. state \in States  BY DEF Typed
    <3>2. Arrived \in States  BY <3>1, Begun DEF Arrived
    <3>3. Arrived.caps.formats \in Seq(Entries)  BY <3>2 DEF States
    <3>4. offered.formats \in Seq(Range(offered.formats))  BY OffersAssumption DEF Typed
    <3> QED  BY <3>3, <3>4
  <2>4. m = Len(Arrived'.caps.formats) /\ n = Len(offered'.formats)  BY <1>2
  <2>5. /\ wire[d].kind = "done"
        /\ \A i \in DOMAIN wire : IsConstraint(wire[i]) => i <= d
        /\ \A i \in DOMAIN wire : wire[i].kind = "done" => i = d
        /\ m <= n
        /\ \A i \in 1 .. m : Arrived.caps.formats[i] = offered.formats[i]
        /\ \A i \in DOMAIN wire : wire[i].kind = "format" <=> i > a /\ i <= a + (n - m)
        /\ \A i \in DOMAIN wire :
             wire[i].kind = "format" => wire[i].entry = offered.formats[m + (i - a)]
        /\ a + (n - m) < d
    BY <2>1 DEF ArrivingAt
  <2> HIDE DEF m, n
  <2>6. ~(L + 1 <= a + (n - m))  BY <1>1, <2>1, <2>3, <2>5
  <2>7. e.kind # "done" /\ e.kind # "format" /\ e.kind # "size"  BY DEF IsConstraint
  <2>8. ASSUME NEW i \in 1 .. L + 1
        PROVE  /\ IsConstraint(wire'[i]) => i <= d
               /\ wire'[i].kind = "done" => i = d
               /\ wire'[i].kind = "format" <=> i > a /\ i <= a + (n - m)
               /\ wire'[i].kind = "format" => wire'[i].entry = offered.formats[m + (i - a)]
    <3>1. CASE i \in 1 .. L
      <4>1. wire'[i] = wire[i] /\ i \in DOMAIN wire  BY ONLY <3>1, <1>1
      <4> QED  BY ONLY <4>1, <2>5
    <3>2. CASE i = L + 1
      <4>1. wire'[i] = e  BY ONLY <3>2, <1>1
      <4>2. ~IsConstraint(e)  OBVIOUS
      <4> QED  BY ONLY <3>2, <4>1, <4>2, <2>6, <2>7
    <3> QED  BY ONLY <3>1, <3>2, <1>1, <2>8
  <2>9. ArrivingAt(a, d)'
    <3>1. wire'[d].kind = "done"  BY <1>1, <2>1, <2>5
    <3> QED  BY ONLY <3>1, <1>1, <1>2, <2>4, <2>5, <2>8 DEF ArrivingAt
  <2>10. \E t \in 0 .. Len(wire') : SizeArriving(t)'
    <3>1. CASE Arrived.caps.size = offered.size /\ \A i \in DOMAIN wire : wire[i].kind # "size"
      <4>1. \A i \in DOMAIN wire' : wire'[i].kind # "size"  BY <3>1, <1>1, <2>7
      <4>2. SizeArriving(0)' /\ 0 \in 0 .. Len(wire')  BY <3>1, <4>1, <1>1, <1>2 DEF SizeArriving
      <4> QED  BY <4>2
    <3>2. CASE /\ Arrived.caps.size = None
               /\ s \in DOMAIN wire
               /\ \A i \in DOMAIN wire : wire[i].kind = "size" <=> i = s
               /\ wire[s].size = offered.size
      <4>1. s \in DOMAIN wire' /\ wire'[s].size = offered.size /\ s # L + 1
        BY <3>2, <1>1
      <4>2. \A i \in DOMAIN wire' : wire'[i].kind = "size" <=> i = s
        BY <3>2, <4>1, <1>1, <2>7
      <4>3. SizeArriving(s)'  BY <3>2, <4>1, <4>2, <1>2 DEF SizeArriving
      <4>4. s \in 0 .. Len(wire')  BY <4>1, <1>1
      <4> QED  BY <4>3, <4>4
    <3> QED  BY <3>1, <3>2, <2>2 DEF SizeArriving
  <2>11. a \in 0 .. Len(wire') /\ d \in DOMAIN wire'  BY <1>1, <2>1
  <2>12. ~Arrived'.done  BY <1>2, <1>5 DEF Arriving
  <2> QED  BY <2>9, <2>10, <2>11, <2>12 DEF Arriving
<1> QED  BY <1>4, <1>5

(* A batch at the end of the queue, of which nothing has arrived yet.      *)
BatchAhead ==
  /\ Arrived.caps = NoCaps /\ ~Arrived.done
  /\ offered \in [size : Sizes, formats : Offers]
  /\ \E k \in Nat : \E b \in Batches(offered) :
       /\ Len(wire) = k + Len(b) /\ DOMAIN wire = 1 .. k + Len(b)
       /\ \A i \in 1 .. k : ~IsConstraint(wire[i])
       /\ \A i \in 1 .. Len(b) : wire[k + i] = b[i]

LEMMA BatchArrives == BatchAhead => Arriving
<1> SUFFICES ASSUME BatchAhead  PROVE Arriving
  OBVIOUS
<1>1. PICK k \in Nat, b \in Batches(offered) :
        /\ Len(wire) = k + Len(b) /\ DOMAIN wire = 1 .. k + Len(b)
        /\ \A i \in 1 .. k : ~IsConstraint(wire[i])
        /\ \A i \in 1 .. Len(b) : wire[k + i] = b[i]
  BY DEF BatchAhead
<1> DEFINE n == Len(offered.formats)
<1>2. offered \in [size : Sizes, formats : Offers] /\ Arrived.caps = NoCaps /\ ~Arrived.done
  BY DEF BatchAhead
<1>3. /\ n \in Nat /\ Len(b) = n + 2
      /\ b[Len(b)] = [kind |-> "done"]
      /\ \E a \in {0, 1}, s \in {1, n + 1} :
           /\ b[s] = [kind |-> "size", size |-> offered.size]
           /\ \A i \in 1 .. Len(b) : i = s \/ i = Len(b) \/ (i > a /\ i <= a + n)
           /\ \A i \in 1 .. Len(b) : i > a /\ i <= a + n =>
                b[i] = [kind |-> "format", entry |-> offered.formats[i - a]]
           /\ s < Len(b) /\ ~(s > a /\ s <= a + n)
  BY <1>2, Batch
<1>4. PICK a \in {0, 1}, s \in {1, n + 1} :
           /\ b[s] = [kind |-> "size", size |-> offered.size]
           /\ \A i \in 1 .. Len(b) : i = s \/ i = Len(b) \/ (i > a /\ i <= a + n)
           /\ \A i \in 1 .. Len(b) : i > a /\ i <= a + n =>
                b[i] = [kind |-> "format", entry |-> offered.formats[i - a]]
           /\ s < Len(b) /\ ~(s > a /\ s <= a + n)
  BY <1>3
<1> HIDE DEF n
<1>5. Arrived.caps.size = None /\ Arrived.caps.formats = <<>>  BY <1>2 DEF NoCaps
<1>6. Len(Arrived.caps.formats) = 0  BY <1>5
<1>7. /\ Len(wire) = k + n + 2 /\ DOMAIN wire = 1 .. k + n + 2
      /\ b[n + 2] = [kind |-> "done"]
      /\ \A i \in 1 .. n + 2 : wire[k + i] = b[i]
      /\ \A i \in 1 .. n + 2 : i = s \/ i = n + 2 \/ (i > a /\ i <= a + n)
      /\ \A i \in 1 .. n + 2 : i > a /\ i <= a + n =>
           b[i] = [kind |-> "format", entry |-> offered.formats[i - a]]
      /\ s \in 1 .. n + 1 /\ a \in 0 .. 1
  BY <1>1, <1>3, <1>4
<1> DEFINE d == k + n + 2
           t == k + s
           c == k + a
<1>8. d \in 1 .. k + n + 2 /\ t \in 1 .. k + n + 2 /\ c \in 0 .. k + n + 2 /\ t # d
  BY <1>3, <1>7
<1>9. ASSUME NEW i \in 1 .. k + n + 2
      PROVE  \/ i <= k /\ ~IsConstraint(wire[i])
             \/ i = t /\ wire[i] = [kind |-> "size", size |-> offered.size]
             \/ i = d /\ wire[i] = [kind |-> "done"]
             \/ /\ i > c /\ i <= c + n /\ i # t /\ i # d
                /\ wire[i] = [kind |-> "format", entry |-> offered.formats[i - c]]
  <2>1. CASE i <= k
    <3>1. i \in 1 .. k  BY <2>1
    <3> QED  BY <3>1, <2>1, <1>1
  <2>2. CASE i > k
    <3> DEFINE j == i - k
    <3>1. j \in 1 .. n + 2 /\ i = k + j  BY <2>2, <1>3
    <3> HIDE DEF j
    <3>2. wire[i] = b[j]  BY <3>1, <1>7
    <3>3. CASE j = s  BY <3>1, <3>2, <3>3, <1>4
    <3>4. CASE j = n + 2
      <4>1. i = d  BY <3>1, <3>4, <1>3
      <4>2. wire[i] = [kind |-> "done"]  BY ONLY <3>2, <3>4, <1>7
      <4> QED  BY <4>1, <4>2
    <3>5. CASE j > a /\ j <= a + n /\ j # s /\ j # n + 2
      <4>1. wire[i] = [kind |-> "format", entry |-> offered.formats[j - a]]
        BY <3>1, <3>2, <3>5, <1>7
      <4>2. j - a = i - c /\ i > c /\ i <= c + n /\ i # t /\ i # d
        BY <3>1, <3>5, <1>3, <1>7
      <4> QED  BY <4>1, <4>2
    <3> QED  BY <3>1, <3>3, <3>4, <3>5, <1>7
  <2> QED  BY <2>1, <2>2
<1>10. ~(t > c /\ t <= c + n) /\ ~(d <= c + n)
  BY <1>3, <1>4, <1>7
<1>11. c >= k /\ t > k /\ d > k /\ \A i \in 1 .. k + n + 2 : i <= d  BY <1>3, <1>7
<1>12. k \in Nat /\ n \in Nat  BY <1>3
<1> HIDE DEF d, t, c
<1>13. ASSUME NEW i \in 1 .. k + n + 2
       PROVE  /\ wire[i].kind = "done" <=> i = d
              /\ wire[i].kind = "size" <=> i = t
              /\ wire[i].kind = "format" <=> i > c /\ i <= c + n
              /\ wire[i].kind = "format" => wire[i].entry = offered.formats[i - c]
  <2>1. CASE i <= k /\ ~IsConstraint(wire[i])
    <3>1. i # d /\ i # t /\ ~(i > c)  BY <2>1, <1>8, <1>11, <1>12, <1>13
    <3> QED  BY <3>1, <2>1 DEF IsConstraint
  <2>2. CASE i = t /\ wire[i] = [kind |-> "size", size |-> offered.size]
    BY <2>2, <1>8, <1>10
  <2>3. CASE i = d /\ wire[i] = [kind |-> "done"]  BY <2>3, <1>8, <1>10
  <2>4. CASE /\ i > c /\ i <= c + n /\ i # t /\ i # d
             /\ wire[i] = [kind |-> "format", entry |-> offered.formats[i - c]]
    BY <2>4
  <2> QED  BY <1>9, <2>1, <2>2, <2>3, <2>4
<1>14. wire[t].size = offered.size
  <2>1. ~(t <= k)  BY <1>8, <1>11, <1>12
  <2>2. ~(t > c /\ t <= c + n) /\ t # d  BY <1>8, <1>10
  <2>3. \/ t <= k /\ ~IsConstraint(wire[t])
        \/ t = t /\ wire[t] = [kind |-> "size", size |-> offered.size]
        \/ t = d /\ wire[t] = [kind |-> "done"]
        \/ /\ t > c /\ t <= c + n /\ t # t /\ t # d
           /\ wire[t] = [kind |-> "format", entry |-> offered.formats[t - c]]
    BY <1>8, <1>9
  <2> QED  BY ONLY <2>1, <2>2, <2>3
<1>15. ArrivingAt(c, d)
  <2>1. /\ n - 0 = n /\ 0 <= n /\ c + n < d
        /\ \A i \in 1 .. k + n + 2 : 0 + (i - c) = i - c
    BY <1>8, <1>10, <1>12
  <2>2. /\ wire[d].kind = "done"
        /\ \A i \in 1 .. k + n + 2 : IsConstraint(wire[i]) => i <= d
        /\ \A i \in 1 .. k + n + 2 : wire[i].kind = "done" => i = d
    BY <1>8, <1>11, <1>13
  <2>3. \A i \in 1 .. k + n + 2 : wire[i].kind = "format" <=> i > c /\ i <= c + n  BY <1>13
  <2>4. \A i \in 1 .. k + n + 2 : wire[i].kind = "format" => wire[i].entry = offered.formats[i - c]
    BY <1>13
  <2>5. \A i \in 1 .. 0 : Arrived.caps.formats[i] = offered.formats[i]  OBVIOUS
  <2> QED  BY ONLY <2>1, <2>2, <2>3, <2>4, <2>5, <1>6, <1>7 DEF ArrivingAt, n
<1>16. SizeArriving(t)
  BY <1>5, <1>7, <1>8, <1>13, <1>14 DEF SizeArriving
<1>17. c \in 0 .. Len(wire) /\ d \in DOMAIN wire /\ t \in 0 .. Len(wire)
  BY <1>7, <1>8
<1> QED  BY <1>2, <1>15, <1>16, <1>17 DEF Arriving

LEMMA BatchArrivesNext == BatchAhead' => Arriving'
<1>1. BatchAhead => Arriving  BY BatchArrives
<1> QED  BY <1>1, PTL

LEMMA AbsorbingStep ==
  ASSUME Typed, Typed', Phases, OneFrame, Absorbing, Next
  PROVE  Absorbing'
<1> SUFFICES ASSUME ~crowded'  PROVE Absorbed'
  BY DEF Absorbing
<1> USE DEF compositorVars, poolVars, OtherThanCompositor, Goto, Fail, Waiting
<1>0. ~crowded /\ Absorbed
  <2>1. crowded' = crowded \/ Change
    BY DEF Next, Client, Dispatch, Negotiated, Allocate, AllocateFails, CheckGeometry, TryCapture,
           CaptureStopped, FrameReady, FrameFailed, Renegotiated, RenegotiationTimesOut,
           Repaint, RefuseFrame, StopSession
  <2>2. Change => (crowded => crowded')  BY DEF Change
  <2>3. ~crowded  BY <2>1, <2>2
  <2> QED  BY <2>3 DEF Absorbing
<1>1. CASE Dispatch
  <2>0. /\ DOMAIN wire = 1 .. Len(wire) /\ Len(wire) \in Nat /\ Len(wire) >= 1
        /\ wire[1] \in Events /\ state \in States /\ state' = Apply(state, wire[1])
        /\ DOMAIN wire' = 1 .. Len(wire) - 1
        /\ \A i \in 1 .. Len(wire) - 1 : wire'[i] = wire[i + 1] /\ i + 1 \in 1 .. Len(wire)
        /\ UNCHANGED <<compositorVars, pc, retried, poolVars, given, reason, crowded>>
    BY <1>1, Dispatched
  <2>1. Settled \/ Arriving  BY <1>0 DEF Absorbed
  <2>2. Settled' \/ Arriving'
    BY <1>1, <2>1, SettledStays, DoneSettles, ArrivingGoesOn
  <2>3. wire[1].kind = "constraints" => Settled /\ ~retried
    <3> SUFFICES ASSUME wire[1].kind = "constraints"  PROVE Settled /\ ~retried
      OBVIOUS
    <3>1. 1 \in DOMAIN wire  BY <2>0
    <3>2. ~retried /\ \A j \in DOMAIN wire : IsConstraint(wire[j]) => j < 1
      BY <1>0, <3>1 DEF Absorbed
    <3>3. \A j \in DOMAIN wire : ~IsConstraint(wire[j])  BY <3>2, <2>0
    <3>4. ~Arriving  BY <3>3 DEF Arriving, ArrivingAt, IsConstraint
    <3> QED  BY <3>2, <3>4, <2>1
  <2>4. state'.frame = "constraints" => state.frame = "constraints" \/ wire[1].kind = "constraints"
    BY <2>0, Applies
  <2>5. Settled => Settled' /\ state'.consumed = state.consumed  BY <1>1, SettledStays
  <2>6. pc = "allocate" \/ retried \/ state'.frame = "constraints" => Settled'
    BY <1>0, <2>3, <2>4, <2>5 DEF Absorbed
  <2>7. retried /\ pc \in {"check", "capture", "wait"} => state'.consumed
    BY <1>0, <2>5 DEF Absorbed
  <2>8. Settled' /\ state'.consumed => Fits(pool, offered)
    <3> SUFFICES ASSUME Settled', state'.consumed, ~Settled  PROVE FALSE
      BY <1>0, <2>5 DEF Absorbed
    <3>1. Arriving  BY <2>1
    <3>2. wire[1].kind # "done"  BY <1>1, <3>1, DoneSettles
    <3>3. Arriving'  BY <1>1, <3>1, <3>2, ArrivingGoesOn
    <3> QED  BY <3>3 DEF Arriving, ArrivingAt, Settled, IsConstraint
  <2>9. ASSUME NEW i \in DOMAIN wire', wire'[i].kind = "constraints"
        PROVE  ~retried /\ \A j \in DOMAIN wire' : IsConstraint(wire'[j]) => j < i
    <3>1. wire'[i] = wire[i + 1] /\ i + 1 \in DOMAIN wire  BY <2>0
    <3>2. ~retried /\ \A j \in DOMAIN wire : IsConstraint(wire[j]) => j < i + 1
      BY <1>0, <2>9, <3>1 DEF Absorbed
    <3>3. ASSUME NEW j \in DOMAIN wire', IsConstraint(wire'[j])  PROVE j < i
      <4>1. wire'[j] = wire[j + 1] /\ j + 1 \in DOMAIN wire  BY <2>0
      <4>2. j + 1 < i + 1  BY <3>2, <3>3, <4>1
      <4> QED  BY <4>2, <2>0
    <3> QED  BY <3>2, <3>3
  <2>10. pc = "wait" /\ retried => state'.frame # "constraints"
    BY <1>0, <2>3, <2>4 DEF Absorbed
  <2>11. pc # "renegotiate"  BY <1>0 DEF Absorbed
  <2> QED  BY ONLY <2>0, <2>2, <2>6, <2>7, <2>8, <2>9, <2>10, <2>11 DEF Absorbed, Fits, poolVars, compositorVars
<1>2. CASE Negotiated
  <2>1. /\ Settled' <=> Settled
        /\ Arriving' <=> Arriving
        /\ UNCHANGED <<wire, state, offered, pool, retried>>
    <3>1. UNCHANGED <<wire, state, offered, pool, retried>>  BY <1>2 DEF Negotiated
    <3> QED  BY <3>1 DEF Settled, Arriving, ArrivingAt, SizeArriving, Arrived
  <2>2. state \in States /\ ~state.consumed /\ ~retried /\ state.frame = "none"
    BY <1>2 DEF Negotiated, Phases, Typed
  <2>3. Arrived = state  BY <2>2, Begun DEF Arrived
  <2>4. pc' = "allocate" => Settled
    <3> SUFFICES ASSUME pc' = "allocate"  PROVE Settled
      OBVIOUS
    <3>1. state.done  BY <1>2 DEF Negotiated
    <3>2. ~Arriving  BY <3>1, <2>3 DEF Arriving
    <3> QED  BY <1>0, <3>2 DEF Absorbed
  <2>5. pc' \in {"allocate", "ended"}  BY <1>2 DEF Negotiated
  <2> QED  BY <1>0, <2>1, <2>2, <2>4, <2>5 DEF Absorbed
<1>3. CASE Allocate
  <2>1. Settled  BY <1>0, <1>3 DEF Absorbed, Allocate
  <2>2. state' = [state EXCEPT !.consumed = TRUE] /\ state \in States
    BY <1>3 DEF Allocate, Typed
  <2>3. /\ state'.caps = state.caps /\ state'.done = state.done /\ state'.consumed
        /\ state'.frame = state.frame
    BY <2>2 DEF States
  <2>4. UNCHANGED <<wire, offered, retried>> /\ pc' = "check"  BY <1>3 DEF Allocate
  <2>5. Settled'  BY <2>1, <2>3, <2>4 DEF Settled
  <2>6. Fits(pool', offered)
    <3>1. state.caps = offered /\ state.caps.formats \in Seq(Entries)
      BY <2>1, <2>2 DEF Settled, States
    <3>2. PICK l \in Layouts(state.caps.formats) :
            pool' = [size |-> state.caps.size, layout |-> l, round |-> pool.round + 1]
      BY <1>3 DEF Allocate
    <3>3. \E e \in Range(state.caps.formats) : e.fourcc = l.fourcc /\ l.mod \in e.mods
      BY <3>1, LayoutsFit
    <3> QED  BY <3>1, <3>2, <3>3 DEF Fits
  <2>7. Fits(pool, offered)'  BY <2>4, <2>6
  <2>8. \A i \in DOMAIN wire' : wire'[i].kind = "constraints" =>
          ~retried' /\ \A j \in DOMAIN wire' : IsConstraint(wire'[j]) => j < i
    BY <1>0, <2>4 DEF Absorbed
  <2> QED  BY ONLY <2>3, <2>4, <2>5, <2>7, <2>8 DEF Absorbed
<1>4. CASE AllocateFails
  BY <1>0, <1>4 DEF AllocateFails, Absorbed, Settled, Arriving, ArrivingAt, SizeArriving, Arrived
<1>5. CASE CheckGeometry
  <2>1. /\ UNCHANGED <<wire, offered, state, pool, retried>>
        /\ pc = "check" /\ pc' \in {"capture", "ended"}
    BY <1>5 DEF CheckGeometry
  <2>2. (Settled' <=> Settled) /\ (Arriving' <=> Arriving)
    BY <2>1 DEF Settled, Arriving, ArrivingAt, SizeArriving, Arrived
  <2> QED  BY <1>0, <2>1, <2>2 DEF Absorbed
<1>6. CASE TryCapture
  <2>1. state' = [state EXCEPT !.frame = "none"] /\ state \in States
    BY <1>6 DEF TryCapture, Typed
  <2>2. /\ state'.caps = state.caps /\ state'.done = state.done
        /\ state'.consumed = state.consumed /\ state'.frame = "none"
    BY <2>1 DEF States
  <2>3. /\ UNCHANGED <<wire, offered, retried, pool>> /\ pc = "capture" /\ pc' = "wait"
    BY <1>6 DEF TryCapture
  <2>4. Arrived'.caps = Arrived.caps /\ Arrived'.done = Arrived.done
    <3>1. state' \in States  BY DEF Typed
    <3> DEFINE b == BeginGeneration(state)
               c == BeginGeneration(state')
    <3>2. /\ ~state.consumed => b = state
          /\ state.consumed => b.caps = NoCaps /\ b.done = FALSE
      BY <2>1, Begun
    <3>3. /\ ~state'.consumed => c = state'
          /\ state'.consumed => c.caps = NoCaps /\ c.done = FALSE
      BY <3>1, Begun
    <3>4. Arrived = b /\ Arrived' = c  BY DEF Arrived
    <3> HIDE DEF b, c
    <3> QED  BY ONLY <2>2, <3>2, <3>3, <3>4
  <2>5. Settled' <=> Settled  BY <2>2, <2>3 DEF Settled
  <2>6. Arriving' <=> Arriving  BY <2>3, <2>4 DEF Arriving, ArrivingAt, SizeArriving
  <2>7. Fits(pool', offered') <=> Fits(pool, offered)  BY <2>3
  <2> QED  BY <1>0, <2>2, <2>3, <2>5, <2>6, <2>7 DEF Absorbed
<1>7. CASE CaptureStopped
  <2>1. UNCHANGED <<wire, offered, state, pool, retried>> /\ pc' = "ended"
    BY <1>7 DEF CaptureStopped
  <2>2. (Settled' <=> Settled) /\ (Arriving' <=> Arriving)
    BY <2>1 DEF Settled, Arriving, ArrivingAt, SizeArriving, Arrived
  <2> QED  BY <1>0, <2>1, <2>2 DEF Absorbed
<1>8. CASE FrameReady
  <2>1. /\ UNCHANGED <<wire, offered, state, pool>> /\ pc' = "capture" /\ retried' = FALSE
    BY <1>8 DEF FrameReady
  <2>2. (Settled' <=> Settled) /\ (Arriving' <=> Arriving)
    BY <2>1 DEF Settled, Arriving, ArrivingAt, SizeArriving, Arrived
  <2> QED  BY <1>0, <2>1, <2>2 DEF Absorbed
<1>9. CASE FrameFailed
  <2>1. UNCHANGED <<wire, offered, state, pool>> /\ state.frame # "none"
    BY <1>9 DEF FrameFailed
  <2>2. (Settled' <=> Settled) /\ (Arriving' <=> Arriving)
    BY <2>1 DEF Settled, Arriving, ArrivingAt, SizeArriving, Arrived
  <2>3. \A i \in DOMAIN wire' : wire'[i].kind # "constraints"
    <3>1. FrameAt = {}  BY <2>1 DEF OneFrame
    <3> QED  BY <3>1, <2>1 DEF FrameAt, FrameKinds
  <2>4. \/ pc' = "ended" /\ retried' = retried
        \/ pc' = "allocate" /\ state.frame = "constraints"
    <3>1. state.frame = "constraints" => state.done  BY <1>0 DEF Absorbed, Settled
    <3> QED  BY <3>1, <1>9 DEF FrameFailed
  <2> QED  BY <1>0, <2>1, <2>2, <2>3, <2>4 DEF Absorbed
<1>10. CASE Renegotiated  BY <1>0, <1>10 DEF Renegotiated, Absorbed
<1>11. CASE RenegotiationTimesOut  BY <1>0, <1>11 DEF RenegotiationTimesOut, Absorbed
<1>12. CASE Change
  <2>1. UNCHANGED <<state, pc, retried, pool>> /\ ~Unabsorbed  BY <1>12 DEF Change
  <2>2. /\ Len(wire) \in Nat /\ DOMAIN wire = 1 .. Len(wire)
        /\ offered' \in [size : Sizes, formats : Offers]
        /\ \A i \in DOMAIN wire' : i \in DOMAIN wire \/ IsConstraint(wire'[i])
    BY <1>12, Announced
  <2>3. PICK b \in Batches(offered') :
          /\ Len(b) \in Nat /\ Len(b) >= 2
          /\ Len(wire') = Len(wire) + Len(b) /\ DOMAIN wire' = 1 .. Len(wire) + Len(b)
          /\ \A i \in 1 .. Len(wire) : wire'[i] = wire[i]
          /\ \A i \in 1 .. Len(b) : wire'[Len(wire) + i] = b[i] /\ IsConstraint(b[i])
    BY <1>12, Announced
  <2>4. \A i \in DOMAIN wire : ~IsConstraint(wire[i]) /\ wire[i].kind # "constraints"
    BY <2>1 DEF Unabsorbed, Range
  <2>5. state.consumed /\ ~retried /\ pc \notin {"allocate", "renegotiate"}
        /\ state.frame # "constraints"
    BY <2>1 DEF Unabsorbed
  <2>6. Arrived' = Arrived /\ Arrived.caps = NoCaps /\ ~Arrived.done
    <3>1. state \in States  BY DEF Typed
    <3> QED  BY <2>1, <2>5, <3>1, Begun DEF Arrived
  <2>7. BatchAhead'
    <3>1. /\ Len(wire') = Len(wire) + Len(b) /\ DOMAIN wire' = 1 .. Len(wire) + Len(b)
          /\ \A i \in 1 .. Len(wire) : ~IsConstraint(wire'[i])
          /\ \A i \in 1 .. Len(b) : wire'[Len(wire) + i] = b[i]
      BY <2>2, <2>3, <2>4
    <3>2. \E k \in Nat : \E bb \in Batches(offered') :
            /\ Len(wire') = k + Len(bb) /\ DOMAIN wire' = 1 .. k + Len(bb)
            /\ \A i \in 1 .. k : ~IsConstraint(wire'[i])
            /\ \A i \in 1 .. Len(bb) : wire'[k + i] = bb[i]
      BY <3>1, <2>2
    <3> QED  BY <3>2, <2>2, <2>6 DEF BatchAhead
  <2>8. Arriving'  BY <2>7, BatchArrivesNext
  <2>9. ~Settled'
    BY <2>8 DEF Settled, Arriving, ArrivingAt, IsConstraint
  <2>10. \A i \in DOMAIN wire' : wire'[i].kind # "constraints"
    BY <2>2, <2>3, <2>4 DEF IsConstraint
  <2> QED  BY <2>1, <2>5, <2>8, <2>9, <2>10 DEF Absorbed
<1>13. CASE Repaint \/ RefuseFrame \/ StopSession
  <2>1. PICK k \in {"stopped"} \cup FrameKinds :
          /\ wire' = Append(wire, Event(k))
          /\ k = "constraints" => request # None /\ ~Fits(request, offered)
    BY <1>13 DEF Repaint, RefuseFrame, StopSession, FrameKinds
  <2>2. Event(k) \in Events /\ Event(k).kind = k /\ ~IsConstraint(Event(k))
    BY DEF Event, Events, IsConstraint, FrameKinds
  <2>3. UNCHANGED <<state, pc, retried, pool, offered>>
    BY <1>13 DEF Repaint, RefuseFrame, StopSession
  <2>4. (Settled' <=> Settled) /\ (Arriving => Arriving')
    BY <2>1, <2>2, <2>3, AppendKeeps
  <2>5. /\ Len(wire) \in Nat /\ DOMAIN wire = 1 .. Len(wire)
        /\ wire'[Len(wire) + 1] = Event(k)
        /\ \A i \in DOMAIN wire' : i \in DOMAIN wire \/ i = Len(wire) + 1
        /\ \A i \in DOMAIN wire : wire'[i] = wire[i]
    BY <2>1, <2>2, Appended
  <2>6. k = "constraints" => ~retried
    <3> SUFFICES ASSUME k = "constraints", retried  PROVE FALSE
      OBVIOUS
    <3>1. /\ pc = "wait" /\ request.size = pool.size /\ request.layout = pool.layout
          /\ ~Fits(request, offered)
      BY <2>1 DEF OneFrame
    <3>2. Fits(pool, offered)  BY <1>0, <3>1 DEF Absorbed
    <3> QED  BY <3>1, <3>2 DEF Fits
  <2>7. ASSUME NEW i \in DOMAIN wire', wire'[i].kind = "constraints"
        PROVE  ~retried /\ \A j \in DOMAIN wire' : IsConstraint(wire'[j]) => j < i
    <3>1. \A j \in DOMAIN wire' : IsConstraint(wire'[j]) => j \in DOMAIN wire /\ IsConstraint(wire[j])
      BY <2>2, <2>5
    <3>2. CASE i = Len(wire) + 1
      <4>1. ~retried  BY <3>2, <2>2, <2>5, <2>6, <2>7
      <4>2. \A j \in DOMAIN wire : j < i  BY <3>2, <2>5
      <4> QED  BY <3>1, <4>1, <4>2
    <3>3. CASE i \in DOMAIN wire
      <4>1. wire[i].kind = "constraints"  BY <3>3, <2>5, <2>7
      <4> QED  BY <1>0, <3>1, <3>3, <4>1 DEF Absorbed
    <3> QED  BY <3>2, <3>3, <2>5
  <2>8. Fits(pool', offered') <=> Fits(pool, offered)  BY <2>3
  <2> QED  BY <1>0, <2>3, <2>4, <2>7, <2>8 DEF Absorbed
<1> QED
  BY <1>1, <1>2, <1>3, <1>4, <1>5, <1>6, <1>7, <1>8, <1>9, <1>10, <1>11, <1>12, <1>13
     DEF Next, Client

LEMMA Crowding ==
  ASSUME Next
  PROVE  /\ Change \/ (crowded' = crowded /\ changes' = changes /\ offered' = offered)
         /\ Change => (crowded => crowded') /\ changes' = changes + 1 /\ pc # "ended"
<1> USE DEF compositorVars, poolVars, OtherThanCompositor, Goto, Fail, Waiting
<1>1. Change => (crowded => crowded') /\ changes' = changes + 1 /\ pc # "ended"
  BY DEF Change
<1> QED
  BY <1>1 DEF Next, Client, Dispatch, Negotiated, Allocate, AllocateFails, CheckGeometry,
     TryCapture, CaptureStopped, FrameReady, FrameFailed, Renegotiated, RenegotiationTimesOut,
     Repaint, RefuseFrame, StopSession

LEMMA AbsorbsStep ==
  ASSUME Typed, Phases, Absorbing, AbsorbsOneChange, Next
  PROVE  AbsorbsOneChange'
<1> SUFFICES ASSUME ~crowded'
             PROVE  /\ reason' \notin {"torn", "constraints"}
                    /\ reason' = "formats" => Layouts(offered'.formats) = {}
                    /\ reason' = "geometry" => offered'.size # encoder'.size
  BY DEF AbsorbsOneChange
<1> USE DEF compositorVars, poolVars, OtherThanCompositor, Goto, Fail, Waiting
<1>0. ~crowded /\ Absorbed  BY Crowding DEF Absorbing
<1>1. /\ reason \notin {"torn", "constraints"}
      /\ reason = "formats" => Layouts(offered.formats) = {}
      /\ reason = "geometry" => offered.size # encoder.size
  BY <1>0 DEF AbsorbsOneChange
<1>2. pc # "ended" => reason = "none"  BY DEF Phases
<1>3. CASE AllocateFails
  <2>1. Settled /\ UNCHANGED offered  BY <1>0, <1>3 DEF AllocateFails, Absorbed
  <2>2. state.caps = offered /\ offered.size \in Sizes  BY <2>1 DEF Settled, Typed
  <2>3. state.caps.size # None  BY <2>2, NotNone
  <2>4. reason' = IF Layouts(state.caps.formats) = {} THEN "formats" ELSE "gbm"
    BY <1>3, <2>3 DEF AllocateFails
  <2> QED  BY ONLY <2>1, <2>2, <2>4
<1>4. CASE CheckGeometry
  <2>1. pc = "check" /\ UNCHANGED <<offered, encoder>>  BY <1>4 DEF CheckGeometry
  <2>2. reason' = "none" \/ (reason' = "geometry" /\ pool.size # encoder.size)
    BY <1>2, <1>4 DEF CheckGeometry
  <2>3. pool.size # encoder.size => offered.size # encoder.size
    <3> SUFFICES ASSUME pool.size # encoder.size  PROVE offered.size # encoder.size
      OBVIOUS
    <3>1. retried  BY <2>1 DEF Phases
    <3>2. Settled /\ state.consumed  BY <1>0, <2>1, <3>1 DEF Absorbed
    <3>3. Fits(pool, offered)  BY <1>0, <3>2 DEF Absorbed
    <3> QED  BY <3>3 DEF Fits
  <2> QED  BY <2>1, <2>2, <2>3
<1>5. CASE FrameFailed
  <2>1. reason' \in {"none", "frame"}  BY <1>0, <1>2, <1>5 DEF FrameFailed, Absorbed
  <2> QED  BY <2>1
<1>6. CASE Negotiated \/ CaptureStopped
  <2>1. reason' \in {"none", "stopped"}  BY <1>2, <1>6 DEF Negotiated, CaptureStopped
  <2> QED  BY <2>1
<1>7. CASE Renegotiated \/ RenegotiationTimesOut
  BY <1>0, <1>7 DEF Renegotiated, RenegotiationTimesOut, Absorbed
<1>8. CASE Allocate
  <2>1. pc = "allocate" /\ reason' = reason  BY <1>8 DEF Allocate
  <2>2. reason' = "none"  BY <1>2, <2>1
  <2> QED  BY <2>2
<1>9. CASE Dispatch \/ TryCapture \/ FrameReady
  BY <1>1, <1>9 DEF Dispatch, TryCapture, FrameReady
<1>10. CASE Change
  <2>1. pc # "ended" /\ reason' = reason  BY <1>10 DEF Change
  <2>2. reason' = "none"  BY <1>2, <2>1
  <2> QED  BY <2>2
<1>11. CASE Repaint \/ RefuseFrame \/ StopSession
  BY <1>1, <1>11 DEF Repaint, RefuseFrame, StopSession
<1> QED
  BY <1>3, <1>4, <1>5, <1>6, <1>7, <1>8, <1>9, <1>10, <1>11 DEF Next, Client

LEMMA RoundsStep ==
  ASSUME Typed, Phases, OneFrame, Absorbing, Rounds, Next
  PROVE  Rounds'
<1> USE DEF compositorVars, poolVars, OtherThanCompositor, Goto, Fail, Waiting
<1>0. pool.round \in Nat /\ changes \in Nat  BY DEF Typed, Pools
<1>1. CASE Dispatch
  <2>0. /\ DOMAIN wire = 1 .. Len(wire) /\ Len(wire) \in Nat /\ Len(wire) >= 1
        /\ wire[1] \in Events /\ state \in States /\ state' = Apply(state, wire[1])
        /\ DOMAIN wire' = 1 .. Len(wire) - 1
        /\ \A i \in 1 .. Len(wire) - 1 : wire'[i] = wire[i + 1] /\ i + 1 \in 1 .. Len(wire)
        /\ UNCHANGED <<compositorVars, pc, retried, poolVars, given, reason, crowded>>
    BY <1>1, Dispatched
  <2>1. \A k \in {"ready", "constraints"} :
          (state'.frame = k \/ \E i \in DOMAIN wire' : wire'[i].kind = k)
            => (state.frame = k \/ \E i \in DOMAIN wire : wire[i].kind = k)
    <3> SUFFICES ASSUME NEW k \in {"ready", "constraints"},
                        state'.frame = k \/ \E i \in DOMAIN wire' : wire'[i].kind = k
                 PROVE  state.frame = k \/ \E i \in DOMAIN wire : wire[i].kind = k
      OBVIOUS
    <3>1. CASE state'.frame = k
      <4>1. state.frame = k \/ wire[1].kind = k  BY <2>0, <3>1, Applies
      <4> QED  BY <4>1, <2>0
    <3>2. CASE \E i \in DOMAIN wire' : wire'[i].kind = k  BY <3>2, <2>0
    <3> QED  BY <3>1, <3>2
  <2>2. Fits(pool', offered') <=> Fits(pool, offered)  BY <2>0
  <2> QED  BY <2>0, <2>1, <2>2 DEF Rounds
<1>2. CASE Negotiated
  <2>1. pc = "negotiate" /\ ~retried /\ pc' \in {"allocate", "ended"}
        /\ UNCHANGED <<wire, state, pool, offered, changes, crowded, retried>>
    BY <1>2 DEF Negotiated, Phases
  <2> QED  BY <2>1 DEF Rounds
<1>3. CASE Allocate
  <2>1. /\ pool'.round = pool.round + 1 /\ pc = "allocate" /\ pc' = "check"
        /\ UNCHANGED <<wire, offered, changes, crowded, retried>>
    BY <1>3 DEF Allocate
  <2>2. ~retried => pool'.round = 1  BY <2>1 DEF Phases
  <2>3. retried => pool.round <= changes  BY <2>1 DEF Rounds
  <2>4. pool'.round <= 1 + changes  BY <1>0, <2>1, <2>2, <2>3
  <2>5. ~retried /\ ~Fits(pool', offered) => changes >= 1
    <3> SUFFICES ASSUME changes = 0, ~Fits(pool', offered)  PROVE FALSE
      BY <1>0
    <3>1. Absorbed'
      <4>1. ~crowded'  BY <2>1 DEF Rounds
      <4>2. Absorbing'  BY <1>3, AbsorbingStep, TypedStep DEF Next, Client
      <4> QED  BY <4>1, <4>2 DEF Absorbing
    <3>2. Settled
      <4>1. Absorbed  BY <2>1 DEF Rounds, Absorbing
      <4> QED  BY <2>1, <4>1 DEF Absorbed
    <3>3. state'.caps = state.caps /\ state'.done = state.done /\ state'.consumed
      BY <1>3 DEF Allocate, Typed, States
    <3>4. Settled'  BY <2>1, <3>2, <3>3 DEF Settled
    <3>5. Fits(pool', offered')  BY <3>1, <3>3, <3>4 DEF Absorbed
    <3> QED  BY <3>5, <2>1
  <2> QED  BY <1>0, <2>1, <2>2, <2>4, <2>5 DEF Rounds
<1>4. CASE AllocateFails  BY <1>4 DEF AllocateFails, Rounds
<1>5. CASE CheckGeometry  BY <1>5 DEF CheckGeometry, Rounds
<1>6. CASE TryCapture
  <2>1. /\ FrameAt = {} /\ UNCHANGED <<wire, pool, offered, changes, crowded, retried>>
        /\ pc = "capture" /\ pc' = "wait"
    BY <1>6 DEF TryCapture, OneFrame
  <2>2. state'.frame = "none"  BY <1>6 DEF TryCapture, Typed, States
  <2>3. \A i \in DOMAIN wire' : wire'[i].kind \notin {"ready", "constraints"}
    BY <2>1 DEF FrameAt, FrameKinds
  <2> QED  BY <2>1, <2>2, <2>3 DEF Rounds
<1>7. CASE CaptureStopped  BY <1>7 DEF CaptureStopped, Rounds
<1>8. CASE FrameReady
  <2>1. /\ UNCHANGED <<wire, pool, offered, changes, crowded, state>>
        /\ pc = "wait" /\ pc' = "capture" /\ state.frame = "ready"
    BY <1>8 DEF FrameReady
  <2> QED  BY <2>1 DEF Rounds
<1>9. CASE FrameFailed
  <2>1. /\ UNCHANGED <<wire, pool, offered, changes, crowded, state>> /\ pc = "wait"
        /\ \/ pc' = "ended"
           \/ /\ pc' \in {"allocate", "renegotiate"}
              /\ state.frame = "constraints" /\ ~retried
    BY <1>9 DEF FrameFailed
  <2>2. pc' # "ended" => pool.round <= changes  BY <2>1 DEF Rounds
  <2> QED  BY <2>1, <2>2 DEF Rounds
<1>10. CASE Renegotiated  BY <1>10 DEF Renegotiated, Rounds
<1>11. CASE RenegotiationTimesOut  BY <1>11 DEF RenegotiationTimesOut, Rounds
<1>12. CASE Change
  <2>1. UNCHANGED <<pool, pc, retried>> /\ changes' = changes + 1
    BY <1>12 DEF Change
  <2>2. pool.round <= changes'  BY <1>0, <2>1 DEF Rounds
  <2> QED  BY <1>0, <2>1, <2>2 DEF Rounds
<1>13. CASE Repaint \/ RefuseFrame \/ StopSession
  <2>1. PICK k \in {"stopped"} \cup FrameKinds :
          /\ wire' = Append(wire, Event(k))
          /\ k = "constraints" => request # None /\ ~Fits(request, offered)
          /\ k = "ready" => request # None /\ Fits(request, offered)
    BY <1>13 DEF Repaint, RefuseFrame, StopSession, FrameKinds
  <2>2. Event(k) \in Events /\ Event(k).kind = k  BY DEF Event, Events
  <2>3. UNCHANGED <<state, pc, retried, pool, offered, changes, crowded>>
    BY <1>13 DEF Repaint, RefuseFrame, StopSession
  <2>4. /\ wire'[Len(wire) + 1] = Event(k)
        /\ \A i \in DOMAIN wire' : i \in DOMAIN wire \/ i = Len(wire) + 1
        /\ \A i \in DOMAIN wire : wire'[i] = wire[i]
    BY <2>1, <2>2, Appended
  <2>5. \A x \in {"ready", "constraints"} :
          (\E i \in DOMAIN wire' : wire'[i].kind = x)
            => k = x \/ \E i \in DOMAIN wire : wire[i].kind = x
    BY <2>2, <2>4
  <2>6. request # None => (Fits(request, offered) <=> Fits(pool, offered)) /\ pc = "wait"
    BY DEF OneFrame, Fits
  <2>7. k = "constraints" /\ ~retried => pool.round <= changes
    BY <2>1, <2>6 DEF Rounds
  <2>8. k = "ready" => Fits(pool, offered)  BY <2>1, <2>6
  <2>9. Fits(pool', offered') <=> Fits(pool, offered)  BY <2>3
  <2> QED  BY <2>3, <2>5, <2>7, <2>8, <2>9 DEF Rounds
<1> QED
  BY <1>1, <1>2, <1>3, <1>4, <1>5, <1>6, <1>7, <1>8, <1>9, <1>10, <1>11, <1>12, <1>13
     DEF Next, Client

----------------------------------------------------------------------------
LEMMA ExtInit == Init => IInv
<1> SUFFICES ASSUME Init  PROVE IInv
  OBVIOUS
<1>1. /\ offered \in [size : Sizes, formats : Offers] /\ wire \in Batches(offered)
      /\ request = None /\ alive = TRUE /\ changes = 0
      /\ state = Fresh /\ pc = "negotiate" /\ retried = FALSE
      /\ pool = [size |-> None, layout |-> None, round |-> 0]
      /\ nextBuffer = 0 /\ index = 0 /\ encoder = None /\ given = <<>>
      /\ reason = "none" /\ crowded = FALSE
  BY DEF Init
<1>2. /\ wire \in Seq(Events) /\ \A i \in 1 .. Len(wire) : IsConstraint(wire[i])
  BY <1>1, Batch
<1>3. DOMAIN wire = 1 .. Len(wire)  BY <1>2
<1>4. Fresh \in States /\ Fresh.caps = NoCaps /\ ~Fresh.consumed /\ ~Fresh.done /\ Fresh.frame = "none"
  <2>1. NoCaps \in [size : Sizes \cup {None}, formats : Seq(Entries)]  BY DEF NoCaps
  <2> HIDE DEF NoCaps
  <2> QED  BY <2>1 DEF Fresh, States
<1>5. Typed
  <2>1. 0 \in 0 .. PoolSize - 1 /\ PoolSize \in Nat  BY PoolSizeAssumption
  <2>2. 0 \in 0 .. MaxChanges  BY MaxChangesAssumption
  <2>3. given \in Seq(Frames) /\ Len(given) = 0  BY <1>1
  <2>4. pool \in Pools  BY <1>1 DEF Pools
  <2>5. state \in States /\ request \in Frames \cup {None} /\ encoder \in Buffers \cup {None}
    BY <1>1, <1>4, Zenon
  <2>6. Len(given) <= PoolSize  BY <2>1, <2>3
  <2>7. nextBuffer \in 0 .. PoolSize - 1 /\ index \in 0 .. PoolSize - 1 /\ changes \in 0 .. MaxChanges
    BY ONLY <1>1, <2>1, <2>2
  <2>8. pc \in Waiting /\ alive \in BOOLEAN /\ retried \in BOOLEAN /\ crowded \in BOOLEAN
    BY ONLY <1>1 DEF Waiting
  <2>9. reason \in {"none", "stopped", "torn", "formats", "gbm", "geometry", "constraints",
                    "frame", "deadline"}
    BY ONLY <1>1
  <2>10. offered \in [size : Sizes, formats : Offers]  BY ONLY <1>1
  <2>11. pc \in Waiting \cup {"allocate", "check", "capture", "ended"}  BY ONLY <2>8
  <2> QED
    BY ONLY <1>2, <2>3, <2>4, <2>5, <2>6, <2>7, <2>8, <2>9, <2>10, <2>11, Zenon DEF Typed
<1>6. Phases  BY <1>1, <1>4 DEF Phases
<1>7. \A i \in DOMAIN wire : wire[i].kind \notin FrameKinds
  BY <1>2, <1>3 DEF IsConstraint, FrameKinds
<1>8. OneFrame  BY <1>1, <1>7 DEF OneFrame, FrameAt
<1>9. TakeTurns  BY <1>1 DEF TakeTurns
<1>10. Absorbed
  <2>1. Arrived = Fresh  BY <1>1, <1>4, Begun DEF Arrived
  <2>2. BatchAhead
    <3>1. /\ Len(wire) = 0 + Len(wire) /\ DOMAIN wire = 1 .. 0 + Len(wire)
          /\ \A i \in 1 .. 0 : ~IsConstraint(wire[i])
          /\ \A i \in 1 .. Len(wire) : wire[0 + i] = wire[i]
      BY <1>2, <1>3
    <3>2. 0 \in Nat  OBVIOUS
    <3>3. \E k \in Nat : \E b \in Batches(offered) :
            /\ Len(wire) = k + Len(b) /\ DOMAIN wire = 1 .. k + Len(b)
            /\ \A i \in 1 .. k : ~IsConstraint(wire[i])
            /\ \A i \in 1 .. Len(b) : wire[k + i] = b[i]
      BY ONLY <3>1, <3>2, <1>1, Zenon
    <3> QED  BY <1>1, <1>4, <2>1, <3>3 DEF BatchAhead
  <2>3. Arriving  BY <2>2, BatchArrives
  <2> QED  BY <1>1, <1>4, <1>7, <2>3 DEF Absorbed, FrameKinds
<1>11. AbsorbsOneChange  BY <1>1 DEF AbsorbsOneChange
<1>12. Rounds  BY <1>1, <1>4 DEF Rounds
<1> QED  BY <1>5, <1>6, <1>8, <1>9, <1>10, <1>11, <1>12 DEF IInv, Absorbing

LEMMA ExtStutter == IInv /\ UNCHANGED vars => IInv'
<1> SUFFICES ASSUME IInv, UNCHANGED vars  PROVE IInv'
  OBVIOUS
<1> USE DEF vars, compositorVars, poolVars
<1>1. Typed'  BY DEF IInv, Typed
<1>2. Phases'  BY DEF IInv, Phases
<1>3. OneFrame'  BY DEF IInv, OneFrame, FrameAt
<1>4. TakeTurns'  BY DEF IInv, TakeTurns, Turn
<1>5. (Settled' <=> Settled) /\ (Arriving' <=> Arriving)
  BY DEF Settled, Arriving, ArrivingAt, SizeArriving, Arrived
<1>6. Absorbing'  BY <1>5 DEF IInv, Absorbing, Absorbed
<1>7. AbsorbsOneChange'  BY DEF IInv, AbsorbsOneChange
<1>8. Rounds'  BY DEF IInv, Rounds
<1> QED  BY <1>1, <1>2, <1>3, <1>4, <1>6, <1>7, <1>8 DEF IInv

LEMMA ExtInductive == IInv /\ [Next]_vars => IInv'
<1>1. IInv /\ Next => IInv'
  <2> SUFFICES ASSUME IInv, Next  PROVE IInv'
    OBVIOUS
  <2>1. Typed /\ Phases /\ OneFrame /\ TakeTurns /\ Absorbing /\ AbsorbsOneChange /\ Rounds
    BY DEF IInv
  <2>2. Typed'  BY <2>1, TypedStep
  <2> QED
    BY <2>1, <2>2, PhasesStep, OneFrameStep, TurnsStep, AbsorbingStep, AbsorbsStep, RoundsStep
       DEF IInv
<1> QED  BY <1>1, ExtStutter

----------------------------------------------------------------------------
(* What follows from it.                                                   *)
LEMMA ExtTypes == IInv => TypeOK
<1> SUFFICES ASSUME IInv  PROVE TypeOK
  OBVIOUS
<1>1. Typed /\ Rounds  BY DEF IInv
<1>2. pool.round \in Nat /\ changes \in 0 .. MaxChanges /\ MaxChanges \in Nat
  BY <1>1, MaxChangesAssumption DEF Typed, Pools
<1>3. pool.round \in 0 .. 2 * MaxChanges + 1
  <2>1. pool.round <= 1 + changes  BY <1>1 DEF Rounds
  <2> QED  BY <2>1, <1>2
<1>4. /\ state.caps.size \in Sizes \cup {None}
      /\ state.frame \in {"none", "ready", "constraints", "ended"}
  BY <1>1 DEF Typed, States, FrameKinds
<1> QED  BY <1>1, <1>3, <1>4 DEF Typed, TypeOK

LEMMA ExtExclusive == IInv => BuffersExclusive
<1> SUFFICES ASSUME IInv  PROVE BuffersExclusive
  OBVIOUS
<1>1. Typed /\ OneFrame /\ TakeTurns  BY DEF IInv
<1>2. request # None => /\ pc = "wait" /\ request.round = pool.round
                        /\ state.frame = "none" /\ request.index = index
  BY <1>1 DEF OneFrame
<1>3. (\E e \in Range(wire) : e.kind \in {"ready", "constraints", "ended"}) => pc = "wait"
  BY <1>1 DEF OneFrame, FrameAt, FrameKinds, Range
<1>4. ASSUME request # None, NEW i \in DOMAIN given,
             i > Len(given) - (PoolSize - 1), given[i].round = request.round
      PROVE  given[i].index # request.index
  <2>1. pc = "wait" /\ Turn = index  BY <1>2, <1>4 DEF Turn
  <2>2. given[i].index = Back(index, (Len(given) + 1) - i)
    BY <1>1, <1>2, <1>4, <2>1 DEF TakeTurns
  <2>3. /\ index \in 0 .. PoolSize - 1 /\ PoolSize \in Nat
        /\ Len(given) \in Nat /\ i \in 1 .. Len(given)
    BY <1>1, PoolSizeAssumption DEF Typed
  <2> DEFINE d == (Len(given) + 1) - i
  <2>4. d \in 1 .. PoolSize - 1  BY <2>3, <1>4
  <2> HIDE DEF d
  <2>5. Back(index, d) # index  BY <2>3, <2>4 DEF Back
  <2> QED  BY <2>2, <2>5, <1>2, <1>4 DEF d
<1> QED  BY <1>2, <1>3, <1>4 DEF BuffersExclusive

----------------------------------------------------------------------------
(* Every step of the ext backend is one that FrameSource allows.           *)
LEMMA ExtPromiseInit == Init => Source!Init
  BY DEF Init, Source!Init, sourcePhase, sourceTold, sourceFrame

LEMMA ExtPromiseStep == IInv /\ [Next]_vars => [Source!Next]_(Source!vars)
<1> SUFFICES ASSUME IInv, [Next]_vars  PROVE Source!Next \/ UNCHANGED Source!vars
  OBVIOUS
<1> USE DEF compositorVars, poolVars, OtherThanCompositor, Goto, Fail, Waiting
<1>0. Typed /\ Phases  BY DEF IInv
<1>1. ASSUME UNCHANGED <<encoder, given>>, pc = "ended" <=> pc' = "ended"
      PROVE  UNCHANGED Source!vars
  BY <1>1 DEF Source!vars, sourcePhase, sourceTold, sourceFrame
<1>2. ASSUME UNCHANGED <<encoder, given>>, pc' = "ended"  PROVE Source!Next
  BY <1>2 DEF Source!Next, Source!End, sourcePhase, sourceTold, sourceFrame
<1>3. CASE Allocate
  <2>1. CASE encoder # None
    <3>1. UNCHANGED <<encoder, given>> /\ pc # "ended" /\ pc' # "ended"
      BY <1>3, <2>1 DEF Allocate
    <3> QED  BY <3>1, <1>1
  <2>2. CASE encoder = None
    <3>1. /\ state.caps.size \in Sizes /\ state.caps.formats \in Seq(Entries)
      BY <1>0, <1>3 DEF Allocate, Typed, States
    <3>2. PICK l \in Layouts(state.caps.formats) :
            pool' = [size |-> state.caps.size, layout |-> l, round |-> pool.round + 1]
      BY <1>3 DEF Allocate
    <3>3. encoder' = [size |-> pool'.size, layout |-> pool'.layout]  BY <1>3, <2>2 DEF Allocate
    <3>4. pool'.size \in Sizes /\ pool'.layout \in Shapes  BY <3>1, <3>2, LayoutsFit
    <3>5. encoder' \in Buffers  BY <3>3, <3>4 DEF Buffers, Shapes
    <3>6. encoder' # None /\ encoder'.size \in Sizes  BY <3>3, <3>4, <3>5, NotNone
    <3>7. pc # "ended" /\ pc' # "ended" /\ given' = given  BY <1>3 DEF Allocate
    <3>8. /\ sourcePhase = "opening" /\ sourcePhase' = "open" /\ sourceFrame' = sourceFrame
          /\ sourceTold = {} /\ sourceTold' = {encoder'.size}
      BY <2>2, <3>6, <3>7 DEF sourcePhase, sourceTold, sourceFrame
    <3> QED  BY <3>6, <3>8 DEF Source!Next, Source!Tell
  <2> QED  BY <2>1, <2>2
<1>4. CASE FrameReady
  <2> DEFINE x == [size |-> pool.size, layout |-> pool.layout, round |-> pool.round, index |-> index]
             all == Append(given, x)
  <2>1. /\ x \in Frames /\ x.size = encoder.size /\ encoder # None
        /\ given \in Seq(Frames) /\ Len(given) <= PoolSize
    BY <1>0, <1>4 DEF FrameReady, Phases, Typed, Pools, Frames
  <2>2. /\ given' = IF Len(all) > PoolSize THEN Tail(all) ELSE all
        /\ encoder' = encoder /\ pc' = "capture" /\ pc = "wait"
    BY <1>4 DEF FrameReady
  <2> HIDE DEF x
  <2>3. /\ Len(given) \in Nat /\ all \in Seq(Frames) /\ Len(all) = Len(given) + 1
        /\ all[Len(given) + 1] = x
    BY ONLY <2>1, Added
  <2> HIDE DEF all
  <2>4. Len(given') >= 1 /\ given'[Len(given')] = x
    <3>1. CASE Len(all) > PoolSize
      <4>1. given' = Tail(all) /\ all # <<>> /\ PoolSize >= 1 /\ PoolSize \in Nat
        BY <3>1, <2>2, <2>3, PoolSizeAssumption
      <4>2. /\ Len(Tail(all)) = Len(all) - 1
            /\ \A i \in 1 .. Len(all) - 1 : Tail(all)[i] = all[i + 1]
        BY ONLY <2>3, <4>1, Taken
      <4>3. Len(all) - 1 \in 1 .. Len(all) - 1  BY <3>1, <2>3, <4>1
      <4>4. Tail(all)[Len(all) - 1] = all[(Len(all) - 1) + 1]  BY <4>2, <4>3
      <4> QED  BY <4>1, <4>2, <4>3, <4>4, <2>3
    <3>2. CASE ~(Len(all) > PoolSize)  BY <3>2, <2>2, <2>3
    <3> QED  BY <3>1, <3>2
  <2>5. given' # <<>>  BY <2>4
  <2>6. Last(given') = x  BY <2>4 DEF Last
  <2>7. /\ sourcePhase = "open" /\ sourcePhase' = sourcePhase /\ sourceTold' = sourceTold
        /\ sourceTold = {encoder.size} /\ sourceFrame' = {x.size}
    BY <2>1, <2>2, <2>5, <2>6 DEF sourcePhase, sourceTold, sourceFrame
  <2> QED  BY <2>1, <2>7 DEF Source!Next, Source!Deliver
<1>5. CASE Dispatch \/ TryCapture
  BY <1>1, <1>5 DEF Dispatch, TryCapture
<1>6. CASE Negotiated \/ AllocateFails \/ CheckGeometry \/ CaptureStopped
  BY <1>1, <1>2, <1>6 DEF Negotiated, AllocateFails, CheckGeometry, CaptureStopped
<1>7. CASE FrameFailed \/ Renegotiated \/ RenegotiationTimesOut
  BY <1>1, <1>2, <1>7 DEF FrameFailed, Renegotiated, RenegotiationTimesOut
<1>8. CASE Change \/ Repaint \/ RefuseFrame \/ StopSession
  BY <1>1, <1>8 DEF Change, Repaint, RefuseFrame, StopSession
<1>9. CASE UNCHANGED vars  BY <1>1, <1>9 DEF vars
<1> QED
  BY <1>3, <1>4, <1>5, <1>6, <1>7, <1>8, <1>9 DEF Next, Client

----------------------------------------------------------------------------
(* The strengthening for the KWin backend: what the slot holds, and that   *)
(* nothing was told or handed over before it held something.               *)
Answers == {"created", "serial", "failed", "closed"}

Slots == [size : Sizes \cup {Unset}, stride : Sizes \cup {Unset}]

PTyped ==
  /\ Plasma!TypeOK
  /\ answers \in Seq(Answers)
  /\ painted \in Sizes \cup {Unset}
  /\ slot \in Slots /\ handed \in Slots
  /\ frames \in Seq([size : Sizes, stride : Sizes])

Known ==
  /\ slot.size = Unset <=> slot.stride = Unset
  /\ slot.size # Unset => painted # Unset
  /\ frames # <<>> => slot.size # Unset
  /\ step \in {"encoder", "touchscreen", "header", "next", "push"} => slot.size # Unset
  /\ step \in {"touchscreen", "header", "next", "push"} => told # {}
  /\ told # {} => slot.size # Unset

OneSize ==
  ~resized =>
    /\ slot.size \in {Unset, painted} /\ slot.stride \in {Unset, painted}
    /\ \A i \in DOMAIN frames : frames[i] = [size |-> painted, stride |-> painted]
    /\ told \subseteq {painted}

PInv == PTyped /\ Known /\ OneSize

LEMMA PInit == Plasma!Init => PInv
<1> SUFFICES ASSUME Plasma!Init  PROVE PInv
  OBVIOUS
<1> USE DEF Plasma!Init, Plasma!NoSlot
<1>1. MaxFormats \in Nat /\ MaxQueued \in Nat  BY PlasmaBoundsAssumption
<1>2. answers \in Seq(Answers) /\ frames \in Seq([size : Sizes, stride : Sizes]) /\ Len(frames) = 0
  OBVIOUS
<1>3. PTyped
  <2>1. formats \in 0 .. MaxFormats /\ Len(frames) <= MaxQueued  BY <1>1, <1>2
  <2>2. slot \in Slots /\ handed \in Slots  BY DEF Slots
  <2>3. /\ known \subseteq {"created", "serial", "failed", "closed"}
        /\ step \in {"bind", "settle", "connect", "format", "first", "next", "push", "over"}
        /\ node \in {"idle", "linked", "failed", "silent"}
        /\ told \subseteq Sizes \cup {Unset}
        /\ error \in BOOLEAN /\ resized \in BOOLEAN
    OBVIOUS
  <2>4. slot.size \in Sizes \cup {Unset} /\ slot.stride \in Sizes \cup {Unset}  OBVIOUS
  <2>5. Plasma!TypeOK  BY ONLY <2>1, <2>3, <2>4 DEF Plasma!TypeOK
  <2>6. painted \in Sizes \cup {Unset}  OBVIOUS
  <2> QED  BY ONLY <1>2, <2>2, <2>5, <2>6 DEF PTyped
<1>4. Known  BY DEF Known
<1>5. OneSize  BY DEF OneSize
<1> QED  BY <1>3, <1>4, <1>5 DEF PInv

LEMMA PStutter == PInv /\ UNCHANGED Plasma!vars => PInv'
  BY DEF Plasma!vars, Plasma!clientVars, Plasma!loopVars, PInv, PTyped, Known, OneSize,
         Plasma!TypeOK, Plasma!After

LEMMA FrameTaken ==
  ASSUME PInv, frames # <<>>, frames' = Tail(frames)
  PROVE  /\ Head(frames) \in [size : Sizes, stride : Sizes]
         /\ Head(frames) = frames[1] /\ 1 \in DOMAIN frames
         /\ frames' \in Seq([size : Sizes, stride : Sizes]) /\ Len(frames') <= Len(frames)
         /\ \A i \in DOMAIN frames' : \E j \in DOMAIN frames : frames'[i] = frames[j]
<1>1. frames \in Seq([size : Sizes, stride : Sizes])  BY DEF PInv, PTyped
<1>2. /\ Len(frames) \in Nat /\ Len(frames) >= 1 /\ DOMAIN frames = 1 .. Len(frames)
      /\ Head(frames) = frames[1]
      /\ Head(frames) \in [size : Sizes, stride : Sizes]
      /\ Tail(frames) \in Seq([size : Sizes, stride : Sizes])
      /\ Len(Tail(frames)) = Len(frames) - 1
      /\ DOMAIN Tail(frames) = 1 .. Len(frames) - 1
      /\ \A i \in 1 .. Len(frames) - 1 : Tail(frames)[i] = frames[i + 1]
  BY <1>1, Taken
<1>3. \A i \in 1 .. Len(frames) - 1 : i + 1 \in 1 .. Len(frames)  BY <1>2
<1> QED  BY <1>2, <1>3

LEMMA PTypedStep ==
  ASSUME PInv, Plasma!Next
  PROVE  PTyped'
<1> USE DEF Plasma!clientVars, Plasma!loopVars, Plasma!Goto, Plasma!Fail
<1>0. PTyped /\ Plasma!TypeOK  BY DEF PInv, PTyped
<1>1. CASE Plasma!Request
  <2>1. answers' \in {<<"created", "serial">>, <<"serial">>, <<"created">>, <<"failed">>, <<"closed">>}
    BY <1>1 DEF Plasma!Request
  <2>2. /\ <<"created", "serial">> \in Seq(Answers) /\ <<"serial">> \in Seq(Answers)
        /\ <<"created">> \in Seq(Answers) /\ <<"failed">> \in Seq(Answers)
        /\ <<"closed">> \in Seq(Answers)
    BY DEF Answers
  <2>3. answers' \in Seq(Answers)  BY ONLY <2>1, <2>2
  <2> QED  BY <1>0, <1>1, <2>3 DEF Plasma!Request, PTyped, Plasma!TypeOK
<1>2. CASE Plasma!Dispatch
  <2>1. PICK n \in 1 .. Len(answers) :
          /\ known' = known \cup {answers[i] : i \in 1 .. n}
          /\ answers' = SubSeq(answers, n + 1, Len(answers))
    BY <1>2 DEF Plasma!Dispatch
  <2>2. answers \in Seq(Answers) /\ Len(answers) \in Nat  BY <1>0 DEF PTyped
  <2>3. \A i \in 1 .. n : answers[i] \in Answers
    <3>1. \A i \in 1 .. n : i \in 1 .. Len(answers)  BY <2>1, <2>2
    <3> QED  BY <3>1, <2>2, ElementOfSeq
  <2>4. \A i \in n + 1 .. Len(answers) : i \in 1 .. Len(answers)  BY <2>1, <2>2
  <2>5. answers' \in Seq(Answers)
    <3>1. \A i \in n + 1 .. Len(answers) : answers[i] \in Answers  BY <2>2, <2>4, ElementOfSeq
    <3> QED  BY <2>1, <2>2, <3>1, SubSeqProperties
  <2>6. known' \subseteq Answers  BY <1>0, <2>1, <2>3 DEF Plasma!TypeOK, Answers
  <2> QED  BY <1>0, <1>2, <2>5, <2>6 DEF Plasma!Dispatch, PTyped, Plasma!TypeOK, Answers
<1>3. CASE Plasma!Refused \/ Plasma!Created \/ Plasma!BindFails \/ Plasma!SettleTimesOut
  BY <1>0, <1>3 DEF Plasma!Refused, Plasma!Created, Plasma!BindFails, Plasma!SettleTimesOut,
     PTyped, Plasma!TypeOK
<1>4. CASE Plasma!Connect \/ Plasma!ConnectFails \/ Plasma!WaitForFormat \/ Plasma!EndSession
  BY <1>0, <1>4 DEF Plasma!Connect, Plasma!ConnectFails, Plasma!WaitForFormat, Plasma!EndSession,
     PTyped, Plasma!TypeOK, Plasma!After
<1>5. CASE Plasma!ReceiveFrame
  <2>1. /\ frames # <<>> /\ frames' = Tail(frames)
        /\ step' \in {"encoder", "push"} /\ handed' \in {handed, Head(frames)}
        /\ UNCHANGED <<answers, known, told, Plasma!loopVars>>
    BY <1>5 DEF Plasma!ReceiveFrame
  <2>2. /\ Head(frames) \in [size : Sizes, stride : Sizes]
        /\ frames' \in Seq([size : Sizes, stride : Sizes]) /\ Len(frames') <= Len(frames)
    BY <2>1, FrameTaken
  <2>3. Head(frames) \in Slots  BY <2>2 DEF Slots
  <2>4. Len(frames') <= MaxQueued
    <3>1. Len(frames) \in Nat /\ Len(frames') \in Nat /\ Len(frames) <= MaxQueued
      BY <1>0, <2>2 DEF PTyped, Plasma!TypeOK
    <3> QED  BY <3>1, <2>2, PlasmaBoundsAssumption
  <2> QED  BY <1>0, <2>1, <2>2, <2>3, <2>4 DEF PTyped, Plasma!TypeOK, Plasma!After
<1>6. CASE Plasma!ReceiveFails \/ Plasma!Pushed
  BY <1>0, <1>6 DEF Plasma!ReceiveFails, Plasma!Pushed, PTyped, Plasma!TypeOK
<1>7. CASE Plasma!ReadSize
  <2>1. step' \in {"touchscreen", "header", "next"}  BY <1>7 DEF Plasma!ReadSize, Plasma!After
  <2>2. told' \subseteq Sizes \cup {Unset}  BY <1>0, <1>7 DEF Plasma!ReadSize, Plasma!TypeOK
  <2> QED  BY <1>0, <1>7, <2>1, <2>2 DEF Plasma!ReadSize, PTyped, Plasma!TypeOK, Plasma!After
<1>8. CASE \E size \in Sizes : Plasma!ParamChanged(size) \/ Plasma!ParamUnreadable(size)
  <2>1. PICK size \in Sizes : Plasma!ParamChanged(size) \/ Plasma!ParamUnreadable(size)
    BY <1>8
  <2>2. slot' \in Slots
    BY <1>0, <2>1 DEF Plasma!ParamChanged, Plasma!ParamUnreadable, PTyped, Slots
  <2>3. formats' \in 0 .. MaxFormats /\ painted' = size
    BY <1>0, <2>1, PlasmaBoundsAssumption
       DEF Plasma!ParamChanged, Plasma!ParamUnreadable, Plasma!Announced, Plasma!TypeOK
  <2>4. resized' \in BOOLEAN /\ UNCHANGED <<answers, Plasma!clientVars, node, frames, error>>
    BY <2>1, Zenon DEF Plasma!ParamChanged, Plasma!ParamUnreadable, Plasma!Announced
  <2> QED  BY <1>0, <2>2, <2>3, <2>4 DEF PTyped, Plasma!TypeOK, Slots
<1>9. CASE Plasma!Process
  <2>1. /\ Len(frames) < MaxQueued /\ painted # Unset
        /\ frames' = IF Plasma!Negotiated
                       THEN Append(frames, [size |-> painted, stride |-> slot.stride])
                       ELSE frames
        /\ UNCHANGED <<answers, Plasma!clientVars, Plasma!loopVars>>
    BY <1>9 DEF Plasma!Process
  <2>2. Plasma!Negotiated => [size |-> painted, stride |-> slot.stride] \in [size : Sizes, stride : Sizes]
    BY <1>0, <2>1 DEF Plasma!Negotiated, PTyped, Slots, PInv, Known
  <2>3. /\ frames' \in Seq([size : Sizes, stride : Sizes])
        /\ Len(frames') <= MaxQueued
    <3>1. frames \in Seq([size : Sizes, stride : Sizes])  BY <1>0 DEF PTyped
    <3>2. MaxQueued \in Nat  BY PlasmaBoundsAssumption
    <3> DEFINE x == [size |-> painted, stride |-> slot.stride]
    <3>3. Plasma!Negotiated => x \in [size : Sizes, stride : Sizes]  BY <2>2
    <3>4. frames' = IF Plasma!Negotiated THEN Append(frames, x) ELSE frames  BY <2>1
    <3> HIDE DEF x
    <3>5. CASE Plasma!Negotiated  BY <3>1, <3>2, <3>3, <3>4, <3>5, <2>1
    <3>6. CASE ~Plasma!Negotiated  BY <3>1, <3>2, <3>4, <3>6, <2>1
    <3> QED  BY <3>5, <3>6
  <2> QED  BY <1>0, <2>1, <2>3 DEF PTyped, Plasma!TypeOK
<1>10. CASE Plasma!ProcessFails \/ Plasma!StateError
  BY <1>0, <1>10 DEF Plasma!ProcessFails, Plasma!StateError, PTyped, Plasma!TypeOK
<1>11. CASE Plasma!OutputRemoved
  <2>1. answers' \in Seq(Answers)
    BY <1>0, <1>11, AppendProperties DEF Plasma!OutputRemoved, PTyped, Answers
  <2> QED  BY <1>0, <1>11, <2>1 DEF Plasma!OutputRemoved, PTyped, Plasma!TypeOK
<1> QED
  BY <1>1, <1>2, <1>3, <1>4, <1>5, <1>6, <1>7, <1>8, <1>9, <1>10, <1>11
     DEF Plasma!Next, Plasma!Thread, Plasma!PipeWire

LEMMA KnownStep ==
  ASSUME PInv, Plasma!Next
  PROVE  Known' /\ OneSize'
<1> USE DEF Plasma!clientVars, Plasma!loopVars, Plasma!Goto, Plasma!Fail
<1>0. PTyped /\ Known /\ OneSize  BY DEF PInv
<1>1. CASE Plasma!Request \/ Plasma!Dispatch \/ Plasma!Refused \/ Plasma!Created
           \/ Plasma!BindFails \/ Plasma!SettleTimesOut
  <2>1. /\ step' \in {"settle", "over", "connect"} /\ told' = told
        /\ UNCHANGED <<slot, painted, frames, resized>>
    BY <1>1 DEF Plasma!Request, Plasma!Dispatch, Plasma!Refused, Plasma!Created,
       Plasma!BindFails, Plasma!SettleTimesOut
  <2> QED  BY <1>0, <2>1 DEF Known, OneSize
<1>2. CASE Plasma!Connect \/ Plasma!ConnectFails \/ Plasma!EndSession \/ Plasma!ReceiveFails
  <2>1. /\ step' \in {"format", "over"} /\ told' = told
        /\ UNCHANGED <<slot, painted, frames, resized>>
    BY <1>2 DEF Plasma!Connect, Plasma!ConnectFails, Plasma!EndSession, Plasma!ReceiveFails
  <2> QED  BY <1>0, <2>1 DEF Known, OneSize
<1>3. CASE Plasma!WaitForFormat
  BY <1>0, <1>3 DEF Plasma!WaitForFormat, Plasma!FormatKnown, Known, OneSize
<1>4. CASE Plasma!Pushed
  BY <1>0, <1>4 DEF Plasma!Pushed, Known, OneSize
<1>5. CASE Plasma!ReceiveFrame
  <2>1. /\ frames # <<>> /\ frames' = Tail(frames) /\ step \in {"first", "next"}
        /\ step' = IF step = "first" THEN "encoder" ELSE "push"
        /\ UNCHANGED <<told, slot, painted, resized>>
    BY <1>5 DEF Plasma!ReceiveFrame, Plasma!InNextFrame
  <2>2. \A i \in DOMAIN frames' : \E j \in DOMAIN frames : frames'[i] = frames[j]
    BY <2>1, FrameTaken
  <2> QED  BY <1>0, <2>1, <2>2 DEF Known, OneSize
<1>6. CASE Plasma!ReadSize
  <2>1. /\ step \in {"encoder", "touchscreen", "header"}
        /\ step' \in {"touchscreen", "header", "next"}
        /\ told' = told \cup {slot.size}
        /\ UNCHANGED <<slot, painted, frames, resized>>
    BY <1>6 DEF Plasma!ReadSize, Plasma!After
  <2>2. slot.size # Unset  BY <1>0, <2>1 DEF Known
  <2> QED  BY <1>0, <2>1, <2>2 DEF Known, OneSize
<1>7. CASE \E size \in Sizes : Plasma!ParamChanged(size) \/ Plasma!ParamUnreadable(size)
  <2>1. PICK size \in Sizes : Plasma!ParamChanged(size) \/ Plasma!ParamUnreadable(size)
    BY <1>7
  <2>2. /\ painted' = size /\ size # Unset
        /\ resized' = (resized \/ (painted # Unset /\ painted # size))
        /\ UNCHANGED <<told, step, frames>>
    BY <2>1, UnsetAssumption DEF Plasma!ParamChanged, Plasma!ParamUnreadable, Plasma!Announced
  <2>3. \/ slot' = slot
        \/ slot' = [size |-> size, stride |-> IF slot.stride = Unset THEN size ELSE slot.stride]
    BY <2>1 DEF Plasma!ParamChanged, Plasma!ParamUnreadable
  <2>4. slot' \in Slots /\ slot \in Slots
    BY <1>0, PTypedStep DEF PTyped
  <2>5. /\ slot'.size = Unset <=> slot'.stride = Unset
        /\ slot.size # Unset => slot'.size # Unset
    BY <1>0, <2>2, <2>3 DEF Known
  <2>6. Known'  BY <1>0, <2>2, <2>5 DEF Known
  <2>7. ASSUME ~resized'
        PROVE  /\ slot'.size \in {Unset, painted'} /\ slot'.stride \in {Unset, painted'}
               /\ \A i \in DOMAIN frames' : frames'[i] = [size |-> painted', stride |-> painted']
               /\ told' \subseteq {painted'}
    <3>1. ~resized /\ (painted = Unset \/ painted = size)  BY <2>2, <2>7
    <3>2. CASE painted = size
      <4>1. painted' = painted  BY <2>2, <3>2
      <4> QED  BY <1>0, <2>2, <2>3, <3>1, <4>1 DEF OneSize
    <3>3. CASE painted = Unset
      <4>1. slot.size = Unset /\ slot.stride = Unset /\ frames = <<>> /\ told = {}
        BY <1>0, <3>3 DEF Known
      <4>2. DOMAIN frames = {}  BY <4>1
      <4> QED  BY <2>2, <2>3, <4>1, <4>2
    <3> QED  BY <3>1, <3>2, <3>3
  <2> QED  BY <2>6, <2>7 DEF OneSize
<1>8. CASE Plasma!Process
  <2> DEFINE x == [size |-> painted, stride |-> slot.stride]
  <2>1. /\ frames' = IF Plasma!Negotiated THEN Append(frames, x) ELSE frames
        /\ UNCHANGED <<told, step, slot, painted, resized>>
    BY <1>8 DEF Plasma!Process
  <2>2. Known'  BY <1>0, <2>1 DEF Known, Plasma!Negotiated
  <2>3. OneSize'
    <3>1. CASE ~Plasma!Negotiated
      <4>1. frames' = frames  BY <2>1, <3>1
      <4> QED  BY <1>0, <2>1, <4>1 DEF OneSize
    <3>2. CASE Plasma!Negotiated
      <4>1. frames' = Append(frames, x)  BY <2>1, <3>2
      <4>2. ~resized => x = [size |-> painted, stride |-> painted]
        BY <1>0, <3>2 DEF OneSize, Known, Plasma!Negotiated
      <4>3. frames \in Seq([size : Sizes, stride : Sizes])  BY <1>0 DEF PTyped
      <4> HIDE DEF x
      <4>4. \A i \in DOMAIN frames' : frames'[i] = x \/ (i \in DOMAIN frames /\ frames'[i] = frames[i])
        <5>1. DOMAIN frames' = 1 .. Len(frames) + 1 /\ DOMAIN frames = 1 .. Len(frames)
              /\ Len(frames) \in Nat
          BY <4>1, <4>3
        <5> QED  BY <4>1, <4>3, <5>1
      <4> QED  BY <1>0, <2>1, <4>2, <4>4 DEF OneSize
    <3> QED  BY <3>1, <3>2
  <2> QED  BY <2>2, <2>3
<1>9. CASE Plasma!ProcessFails \/ Plasma!StateError \/ Plasma!OutputRemoved
  BY <1>0, <1>9 DEF Plasma!ProcessFails, Plasma!StateError, Plasma!OutputRemoved, Known, OneSize
<1> QED
  BY <1>1, <1>2, <1>3, <1>4, <1>5, <1>6, <1>7, <1>8, <1>9
     DEF Plasma!Next, Plasma!Thread, Plasma!PipeWire

(* Every step of the KWin backend is one that FrameSource allows.          *)
LEMMA PPromiseInit == Plasma!Init => Plasma!Source!Init
  BY DEF Plasma!Init, Plasma!Source!Init, Plasma!sourcePhase, Plasma!sourceFrame, Plasma!NoSlot

LEMMA PPromiseStep == PInv /\ [Plasma!Next]_(Plasma!vars) => [Plasma!Source!Next]_(Plasma!Source!vars)
<1> SUFFICES ASSUME PInv, [Plasma!Next]_(Plasma!vars)
             PROVE  Plasma!Source!Next \/ UNCHANGED Plasma!Source!vars
  OBVIOUS
<1> USE DEF Plasma!clientVars, Plasma!loopVars, Plasma!Goto, Plasma!Fail
<1>0. PTyped /\ Known /\ OneSize /\ Plasma!TypeOK  BY DEF PInv, PTyped
<1>1. ASSUME UNCHANGED <<told, handed, resized>>, step = "over" <=> step' = "over"
      PROVE  UNCHANGED Plasma!Source!vars
  BY <1>1 DEF Plasma!Source!vars, Plasma!sourcePhase, Plasma!sourceFrame
<1>2. ASSUME UNCHANGED <<told, handed>>, step' = "over"  PROVE Plasma!Source!Next
  BY <1>2 DEF Plasma!Source!Next, Plasma!Source!End, Plasma!sourcePhase, Plasma!sourceFrame
<1>3. ASSUME step # "over", step' # "over", resized'  PROVE Plasma!Source!Next
  BY <1>3 DEF Plasma!Source!Next, Plasma!Source!Void, Plasma!sourcePhase
<1>4. CASE Plasma!ReadSize
  <2>1. /\ step \in {"encoder", "touchscreen", "header"}
        /\ step' \in {"touchscreen", "header", "next"}
        /\ told' = told \cup {slot.size}
        /\ UNCHANGED <<handed, resized>>
    BY <1>4 DEF Plasma!ReadSize, Plasma!After
  <2>2. CASE resized  BY <1>3, <2>1, <2>2
  <2>3. CASE ~resized
    <3>1. slot.size # Unset  BY <1>0, <2>1 DEF Known
    <3>2. slot.size = painted /\ painted \in Sizes /\ told \subseteq {painted}
      BY <1>0, <2>3, <3>1 DEF OneSize, Known, PTyped, Slots
    <3>3. told' = {painted}  BY <2>1, <3>2
    <3>4. /\ Plasma!sourcePhase \in {"opening", "open"} /\ Plasma!sourcePhase' = "open"
          /\ Plasma!sourceFrame' = Plasma!sourceFrame
      BY <2>1, <2>3, <3>3 DEF Plasma!sourcePhase, Plasma!sourceFrame
    <3> QED  BY <3>2, <3>3, <3>4 DEF Plasma!Source!Next, Plasma!Source!Tell
  <2> QED  BY <2>2, <2>3
<1>5. CASE Plasma!ReceiveFrame
  <2>1. /\ frames # <<>> /\ frames' = Tail(frames) /\ step \in {"first", "next"}
        /\ step' = IF step = "first" THEN "encoder" ELSE "push"
        /\ handed' = IF step = "first" THEN handed ELSE Head(frames)
        /\ UNCHANGED <<told, resized>>
    BY <1>5 DEF Plasma!ReceiveFrame, Plasma!InNextFrame
  <2>2. CASE step = "first"
    <3>1. handed' = handed /\ step' # "over" /\ step # "over"  BY <2>1, <2>2
    <3> QED  BY <1>1, <2>1, <3>1
  <2>3. CASE step = "next" /\ resized  BY <1>3, <2>1, <2>3
  <2>4. CASE step = "next" /\ ~resized
    <3>1. handed' = Head(frames) /\ step' = "push"  BY <2>1, <2>4
    <3>2. Head(frames) = frames[1] /\ 1 \in DOMAIN frames  BY <2>1, FrameTaken
    <3>3. handed' = [size |-> painted, stride |-> painted]
      BY <1>0, <2>4, <3>1, <3>2 DEF OneSize
    <3>4. painted # Unset /\ told = {painted}  BY <1>0, <2>4 DEF Known, OneSize
    <3>5. Plasma!sourceFrame' = told
      <4>1. handed' # Plasma!NoSlot
        <5>1. handed'.size = painted  BY <3>3
        <5>2. Plasma!NoSlot.size = Unset  BY DEF Plasma!NoSlot
        <5> QED  BY <3>4, <5>1, <5>2
      <4>2. {handed'.size, handed'.stride} = {painted}  BY <3>3
      <4> QED  BY <3>4, <4>1, <4>2 DEF Plasma!sourceFrame
    <3>6. Plasma!sourcePhase = "open" /\ Plasma!sourcePhase' = "open"
      BY <2>1, <2>4, <3>1, <3>4 DEF Plasma!sourcePhase
    <3> QED  BY <2>1, <3>5, <3>6 DEF Plasma!Source!Next, Plasma!Source!Deliver
  <2> QED  BY <2>1, <2>2, <2>3, <2>4
<1>6. CASE step # "over" /\ \E size \in Sizes : Plasma!ParamChanged(size) \/ Plasma!ParamUnreadable(size)
  <2>1. UNCHANGED <<told, handed, step>> /\ (resized => resized') /\ resized' \in BOOLEAN
    BY <1>6, Zenon DEF Plasma!ParamChanged, Plasma!ParamUnreadable, Plasma!Announced
  <2>2. CASE ~resized'
    <3>1. resized = FALSE /\ resized' = FALSE  BY <1>0, <2>1, <2>2 DEF Plasma!TypeOK
    <3> QED  BY <1>1, <2>1, <3>1
  <2>3. CASE resized'  BY <1>3, <1>6, <2>1, <2>3
  <2> QED  BY <2>2, <2>3
<1>7. CASE Plasma!Process \/ Plasma!ProcessFails \/ Plasma!StateError \/ Plasma!OutputRemoved
  BY <1>1, <1>7 DEF Plasma!Process, Plasma!ProcessFails, Plasma!StateError, Plasma!OutputRemoved
<1>8. CASE Plasma!Request \/ Plasma!Dispatch \/ Plasma!Created \/ Plasma!Connect
           \/ Plasma!WaitForFormat \/ Plasma!Pushed
  BY <1>1, <1>8 DEF Plasma!Request, Plasma!Dispatch, Plasma!Created, Plasma!Connect,
     Plasma!WaitForFormat, Plasma!Pushed
<1>9. CASE Plasma!Refused \/ Plasma!ReceiveFails \/ Plasma!BindFails \/ Plasma!SettleTimesOut
           \/ Plasma!ConnectFails \/ Plasma!EndSession
  BY <1>2, <1>9 DEF Plasma!Refused, Plasma!ReceiveFails, Plasma!BindFails,
     Plasma!SettleTimesOut, Plasma!ConnectFails, Plasma!EndSession
<1>10. CASE UNCHANGED Plasma!vars  BY <1>1, <1>10 DEF Plasma!vars
<1> QED
  BY <1>4, <1>5, <1>6, <1>7, <1>8, <1>9, <1>10
     DEF Plasma!Next, Plasma!Thread, Plasma!PipeWire

----------------------------------------------------------------------------
(* A session has one backend, and the other one stays as it is.            *)
LEMMA SourcesStart == SourcesInit => IInv /\ PInv /\ Init /\ Plasma!Init
  BY ExtInit, PInit DEF SourcesInit

LEMMA SourcesStep == [SourcesNext]_allVars => [Next]_vars /\ [Plasma!Next]_(Plasma!vars)
<1>1. UNCHANGED plasmaVars => UNCHANGED Plasma!vars
  BY DEF plasmaVars, Plasma!vars, Plasma!clientVars, Plasma!loopVars
<1> QED  BY <1>1 DEF SourcesNext, ExtStep, PlasmaStep, allVars

LEMMA PStep == PInv /\ [Plasma!Next]_(Plasma!vars) => PInv'
<1> SUFFICES ASSUME PInv, [Plasma!Next]_(Plasma!vars)  PROVE PInv'
  OBVIOUS
<1>1. CASE Plasma!Next  BY <1>1, PTypedStep, KnownStep DEF PInv
<1>2. CASE UNCHANGED Plasma!vars  BY <1>2, PStutter
<1> QED  BY <1>1, <1>2

(* The two invariants are inductive, whichever backend a session has.      *)
THEOREM SourcesInductive == SourcesSpec => [](IInv /\ PInv)
<1>1. IInv /\ PInv /\ [SourcesNext]_allVars => (IInv /\ PInv)'
  BY SourcesStep, ExtInductive, PStep
<1> QED  BY <1>1, SourcesStart, PTL DEF SourcesSpec

(* The variables of both backends, and the rounds of allocation, which     *)
(* the changes of the constraints bound (allocate_pool is called once at   *)
(* the start and again only when a change has made a frame fail).          *)
THEOREM SourcesTypeCorrect == SourcesSpec => []SourcesTypeOK
<1>1. IInv /\ PInv => SourcesTypeOK
  BY ExtTypes DEF PInv, PTyped, SourcesTypeOK
<1> QED  BY <1>1, SourcesInductive, PTL

(* No buffer is written while it is in flight, or again before PoolSize    *)
(* - 1 others were handed to the encoder, and nothing is outstanding while *)
(* the client does anything but wait for it (capture_frame), for a pool    *)
(* of any size.                                                            *)
THEOREM BuffersAreExclusive == SourcesSpec => []BuffersExclusive
<1> QED  BY SourcesInductive, ExtExclusive, PTL

(* A change of format or modifiers is absorbed, in whichever order the     *)
(* events of its batch come and wherever they are cut (begin_generation    *)
(* and renegotiate), for any number of formats, modifiers and changes.     *)
THEOREM OneChangeIsAbsorbed == SourcesSpec => []AbsorbsOneChange
<1>1. IInv => AbsorbsOneChange  BY DEF IInv
<1> QED  BY <1>1, SourcesInductive, PTL

(* Both backends keep what the FrameSource trait promises the session:     *)
(* one geometry, told only once it is known, and every frame of it.        *)
THEOREM SourcesKeepPromise == SourcesSpec => SourcesPromise
<1>1. SourcesSpec => SourceSpec
  <2>1. SourcesInit => Source!Init  BY SourcesStart, ExtPromiseInit
  <2>2. IInv /\ [SourcesNext]_allVars => [Source!Next]_(Source!vars)
    BY SourcesStep, ExtPromiseStep
  <2> QED  BY <2>1, <2>2, SourcesInductive, PTL DEF SourcesSpec, SourceSpec, Source!Spec
<1>2. SourcesSpec => Plasma!SourceSpec
  <2>1. SourcesInit => Plasma!Source!Init  BY SourcesStart, PPromiseInit
  <2>2. PInv /\ [SourcesNext]_allVars => [Plasma!Source!Next]_(Plasma!Source!vars)
    BY SourcesStep, PPromiseStep
  <2> QED
    BY <2>1, <2>2, SourcesInductive, PTL
       DEF SourcesSpec, Plasma!SourceSpec, Plasma!Source!Spec
<1> QED  BY <1>1, <1>2 DEF SourcesPromise
============================================================================
