-------------------------- MODULE VideoStreamProofs --------------------------
(***************************************************************************)
(* Theorems about TouchUplink.tla, for any batch, any number of touches,   *)
(* acks and sessions, and about both directions of MCVideoStream.tla.      *)
(***************************************************************************)
EXTENDS MCVideoStream, SequenceTheorems, TLAPS

----------------------------------------------------------------------------
(* What is said of a queue: the numbers in it and their order, whether a   *)
(* DOWN or UP is in it, and the contact that the last of them leaves.      *)
Numbers(s) == {s[i].n : i \in DOMAIN s} \ {0}

Rising(s) ==
  \A i, j \in DOMAIN s : i < j /\ s[i].n > 0 /\ s[j].n > 0 => s[i].n < s[j].n

Below(A, B) == \A a \in A, b \in B : a < b

Turns(m)  == m.kind \in {"DOWN", "UP"}
Result(m) == IF m.kind = "DOWN" THEN m.g ELSE 0
Quiet(s)  == \A i \in DOMAIN s : ~Turns(s[i])

Leaves(s, c) ==
  \A i \in DOMAIN s :
    Turns(s[i]) /\ (\A j \in DOMAIN s : j > i => ~Turns(s[j])) => c = Result(s[i])

(* The strengthening.                                                      *)
Sent ==
  [kind : {"none", "WAKE", "ACK", "DOWN", "MOVE", "UP"}, g : 0 .. gestures, e : 0 .. epoch,
   n : 0 .. offered]

Typed ==
  /\ pendingOutbound \in Seq(Sent) /\ batch \in Seq(Sent) /\ wire \in Seq(Sent)
  /\ pendingMove \in Sent /\ pendingMove.n = 0 /\ pendingMove.kind \in {"none", "MOVE"}
  /\ offered \in Nat
  /\ \A m \in Range(pendingOutbound) : m.kind = "WAKE" => m.n = 0

(* What sendTouch has left to do.                                          *)
Doing ==
  /\ ui \in {<<>>, <<"WAKE">>, <<"DOWN">>, <<"UP">>, <<"MOVE", "UP">>}
  /\ ui \in {<<"DOWN">>, <<"UP">>, <<"MOVE", "UP">>} => finger # 0

(* The writer runs while the session does, and has a batch while it polls  *)
(* no more; a session begins with an empty connection.                     *)
Phases ==
  /\ session \in {"idle", "accepted", "cleared", "ready"} => writer = "dead"
  /\ writer \in {"poll", "dead"} => batch = <<>>
  /\ session \in {"accepted", "cleared", "ready"} => wire = <<>> /\ seen = 0 /\ contact = 0
  /\ session = "accepted" => epoch < MaxSessions

(* The queue has been cleared for this session, and is written.            *)
Kept == session \in {"cleared", "ready"} \/ (session = "up" /\ writer # "dead")

Ordered ==
  Kept =>
    /\ Rising(wire) /\ Rising(batch) /\ Rising(pendingOutbound)
    /\ Below(Numbers(wire), Numbers(batch))
    /\ Below(Numbers(wire), Numbers(pendingOutbound))
    /\ Below(Numbers(batch), Numbers(pendingOutbound))
    /\ Numbers(wire) \cup Numbers(batch) \cup Numbers(pendingOutbound) = (seen + 1) .. offered

Fresh ==
  /\ session \in {"cleared", "ready", "up"} =>
       \A m \in Range(pendingOutbound) : m.kind = "WAKE" \/ m.e = epoch
  /\ session \in {"ready", "up"} => pendingMove = NoMove \/ pendingMove.e = epoch
  /\ session = "up" => \A m \in Range(batch) \cup Range(wire) : m.e = epoch

(* The contact once all that is queued is handled.                         *)
Expected == IF finger # 0 /\ ui # <<"DOWN">> /\ fingerEpoch = epoch THEN finger ELSE 0

Follows ==
  Kept =>
    /\ Leaves(pendingOutbound, Expected)
    /\ Quiet(pendingOutbound) => Leaves(batch, Expected)
    /\ Quiet(pendingOutbound) /\ Quiet(batch) => Leaves(wire, Expected)
    /\ Quiet(pendingOutbound) /\ Quiet(batch) /\ Quiet(wire) => contact = Expected

IInv == TypeOK /\ Typed /\ Doing /\ Phases /\ Ordered /\ Fresh /\ Follows

----------------------------------------------------------------------------
(* What the queues' operations do to Numbers, Rising, Quiet and Leaves.     *)
LEMMA Appended ==
  ASSUME NEW S, NEW s \in Seq(S), NEW m \in S
  PROVE  /\ Len(s) \in Nat /\ DOMAIN s = 1 .. Len(s) /\ DOMAIN Append(s, m) = 1 .. Len(s) + 1
         /\ Append(s, m)[Len(s) + 1] = m
         /\ \A i \in 1 .. Len(s) : Append(s, m)[i] = s[i]
  OBVIOUS

LEMMA TakenFrom ==
  ASSUME NEW S, NEW s \in Seq(S), s # <<>>
  PROVE  /\ Len(s) \in Nat /\ Len(s) >= 1 /\ DOMAIN s = 1 .. Len(s) /\ Head(s) = s[1]
         /\ Head(s) \in S /\ Tail(s) \in Seq(S) /\ DOMAIN Tail(s) = 1 .. Len(s) - 1
         /\ \A i \in 1 .. Len(s) - 1 : Tail(s)[i] = s[i + 1]
  OBVIOUS

LEMMA Joined ==
  ASSUME NEW S, NEW s \in Seq(S), NEW t \in Seq(S)
  PROVE  /\ Len(s) \in Nat /\ Len(t) \in Nat /\ DOMAIN s = 1 .. Len(s) /\ DOMAIN t = 1 .. Len(t)
         /\ s \o t \in Seq(S) /\ DOMAIN (s \o t) = 1 .. Len(s) + Len(t)
         /\ \A i \in 1 .. Len(s) : (s \o t)[i] = s[i]
         /\ \A i \in 1 .. Len(t) : (s \o t)[Len(s) + i] = t[i]
         /\ \A i \in 1 .. Len(s) + Len(t) : i \in 1 .. Len(s) \/ i - Len(s) \in 1 .. Len(t)
         /\ \A i \in 1 .. Len(t) : Len(s) + i \in 1 .. Len(s) + Len(t)
  BY ConcatProperties

LEMMA OfAppend ==
  ASSUME NEW S, NEW s \in Seq(S), NEW m \in S, \A x \in S : x.n \in Nat
  PROVE  /\ Numbers(Append(s, m)) = Numbers(s) \cup ({m.n} \ {0})
         /\ Rising(s) /\ (m.n > 0 => \A a \in Numbers(s) : a < m.n) => Rising(Append(s, m))
         /\ Quiet(Append(s, m)) <=> Quiet(s) /\ ~Turns(m)
         /\ \A c : ~Turns(m) /\ Leaves(s, c) => Leaves(Append(s, m), c)
         /\ \A c : Turns(m) /\ c = Result(m) => Leaves(Append(s, m), c)
<1> DEFINE t == Append(s, m)
           l == Len(s)
<1>1. /\ l \in Nat /\ DOMAIN s = 1 .. l /\ DOMAIN t = 1 .. l + 1 /\ t[l + 1] = m
      /\ \A i \in 1 .. l : t[i] = s[i] /\ i \in 1 .. l + 1
      /\ \A i \in 1 .. l + 1 : i = l + 1 \/ i \in 1 .. l
      /\ l + 1 \in 1 .. l + 1
  BY Appended
<1>2. \A i \in 1 .. l : s[i].n \in Nat
  BY ElementOfSeq
<1> HIDE DEF t, l
<1>3. Numbers(t) = Numbers(s) \cup ({m.n} \ {0})
  BY <1>1 DEF Numbers
<1>4. ASSUME Rising(s), m.n > 0 => \A a \in Numbers(s) : a < m.n
      PROVE  Rising(t)
  <2> SUFFICES ASSUME NEW i \in 1 .. l + 1, NEW j \in 1 .. l + 1, i < j, t[i].n > 0, t[j].n > 0
               PROVE  t[i].n < t[j].n
    BY <1>1 DEF Rising
  <2>1. i \in 1 .. l  BY <1>1
  <2>2. CASE j \in 1 .. l  BY <2>1, <2>2, <1>1, <1>4 DEF Rising
  <2>3. CASE j = l + 1
    <3>1. t[i].n \in Numbers(s)
      <4>1. t[i] = s[i] /\ s[i].n # 0  BY <2>1, <1>1, <1>2
      <4> QED  BY <4>1, <2>1, <1>1 DEF Numbers
    <3> QED  BY <3>1, <2>3, <1>1, <1>4
  <2> QED  BY <2>2, <2>3, <1>1
<1>5. Quiet(t) <=> Quiet(s) /\ ~Turns(m)
  BY <1>1 DEF Quiet
<1>6. ASSUME NEW c, ~Turns(m), Leaves(s, c)  PROVE Leaves(t, c)
  <2> SUFFICES ASSUME NEW i \in 1 .. l + 1, Turns(t[i]), \A j \in 1 .. l + 1 : j > i => ~Turns(t[j])
               PROVE  c = Result(t[i])
    BY <1>1 DEF Leaves
  <2>1. i \in 1 .. l  BY <1>1, <1>6
  <2>2. Turns(s[i]) /\ \A j \in 1 .. l : j > i => ~Turns(s[j])  BY <2>1, <1>1
  <2> QED  BY <2>1, <2>2, <1>1, <1>6 DEF Leaves
<1>7. ASSUME NEW c, Turns(m), c = Result(m)  PROVE Leaves(t, c)
  <2> SUFFICES ASSUME NEW i \in 1 .. l + 1, Turns(t[i]), \A j \in 1 .. l + 1 : j > i => ~Turns(t[j])
               PROVE  c = Result(t[i])
    BY <1>1 DEF Leaves
  <2>1. CASE i \in 1 .. l
    <3>1. l + 1 > i  BY <2>1, <1>1
    <3> QED  BY <3>1, <1>1, <1>7
  <2> QED  BY <2>1, <1>1, <1>7
<1> QED  BY <1>3, <1>4, <1>5, <1>6, <1>7 DEF t

LEMMA OfTail ==
  ASSUME NEW S, NEW s \in Seq(S), s # <<>>, \A x \in S : x.n \in Nat
  PROVE  /\ Numbers(s) = Numbers(Tail(s)) \cup ({Head(s).n} \ {0})
         /\ Rising(s) => /\ Rising(Tail(s))
                         /\ Head(s).n > 0 => \A a \in Numbers(Tail(s)) : Head(s).n < a
         /\ Quiet(s) <=> Quiet(Tail(s)) /\ ~Turns(Head(s))
         /\ \A c : Leaves(s, c) => Leaves(Tail(s), c)
         /\ \A c : Leaves(s, c) /\ Turns(Head(s)) /\ Quiet(Tail(s)) => c = Result(Head(s))
<1> DEFINE t == Tail(s)
           h == Head(s)
           l == Len(s)
<1>1. /\ l \in Nat /\ l >= 1 /\ DOMAIN s = 1 .. l /\ h = s[1] /\ DOMAIN t = 1 .. l - 1
      /\ \A i \in 1 .. l - 1 : t[i] = s[i + 1]
  BY TakenFrom
<1> HIDE DEF t, h, l
<1>2. /\ \A i \in 1 .. l - 1 : i + 1 \in 1 .. l /\ i + 1 > 1
      /\ \A i \in 1 .. l : i = 1 \/ (i > 1 /\ i - 1 \in 1 .. l - 1 /\ t[i - 1] = s[i])
      /\ 1 \in 1 .. l
  <2>1. \A i \in 1 .. l : i = 1 \/ (i > 1 /\ i - 1 \in 1 .. l - 1 /\ (i - 1) + 1 = i)  BY <1>1
  <2> QED  BY <2>1, <1>1
<1>3. \A i \in 1 .. l : s[i].n \in Nat
  BY <1>1, ElementOfSeq DEF l
<1>4. Numbers(s) = Numbers(t) \cup ({h.n} \ {0})
  <2>1. {s[i].n : i \in 1 .. l} = {t[i].n : i \in 1 .. l - 1} \cup {h.n}
    BY <1>1, <1>2
  <2> QED  BY <2>1, <1>1 DEF Numbers
<1>5. ASSUME Rising(s)  PROVE Rising(t)
  <2> SUFFICES ASSUME NEW i \in 1 .. l - 1, NEW j \in 1 .. l - 1, i < j, t[i].n > 0, t[j].n > 0
               PROVE  t[i].n < t[j].n
    BY <1>1 DEF Rising
  <2>1. i + 1 \in 1 .. l /\ j + 1 \in 1 .. l /\ i + 1 < j + 1  BY <1>1, <1>2
  <2> QED  BY <2>1, <1>1, <1>5 DEF Rising
<1>6. ASSUME Rising(s), h.n > 0, NEW a \in Numbers(t)  PROVE h.n < a
  <2>1. PICK i \in 1 .. l - 1 : t[i].n = a /\ a # 0  BY <1>1 DEF Numbers
  <2>2. i + 1 \in 1 .. l /\ 1 < i + 1 /\ s[i + 1].n = a /\ a \in Nat  BY <2>1, <1>1, <1>2, <1>3
  <2>3. \A j \in 1 .. l : 1 < j /\ s[1].n > 0 /\ s[j].n > 0 => s[1].n < s[j].n
    BY <1>1, <1>2, <1>6 DEF Rising
  <2>4. s[1].n = h.n /\ a > 0  BY <2>1, <2>2, <1>1
  <2> QED  BY <2>2, <2>3, <2>4, <1>6
<1>7. Quiet(s) <=> Quiet(t) /\ ~Turns(h)
  <2>1. (\A i \in 1 .. l : ~Turns(s[i])) <=> (\A i \in 1 .. l - 1 : ~Turns(t[i])) /\ ~Turns(h)
    BY <1>1, <1>2
  <2> QED  BY <2>1, <1>1 DEF Quiet
<1>8. ASSUME NEW c, Leaves(s, c)  PROVE Leaves(t, c)
  <2> SUFFICES ASSUME NEW i \in 1 .. l - 1, Turns(t[i]), \A j \in 1 .. l - 1 : j > i => ~Turns(t[j])
               PROVE  c = Result(t[i])
    BY <1>1 DEF Leaves
  <2>1. i + 1 \in 1 .. l /\ s[i + 1] = t[i]  BY <1>1, <1>2
  <2>2. ASSUME NEW j \in 1 .. l, j > i + 1  PROVE ~Turns(s[j])
    <3>1. j - 1 \in 1 .. l - 1 /\ j - 1 > i /\ t[j - 1] = s[j]  BY <2>2, <1>1, <1>2
    <3> QED  BY <3>1
  <2> QED  BY <2>1, <2>2, <1>1, <1>8 DEF Leaves
<1>9. ASSUME NEW c, Leaves(s, c), Turns(h), Quiet(t)  PROVE c = Result(h)
  <2>1. \A j \in 1 .. l : j > 1 => ~Turns(s[j])
    <3>1. \A i \in 1 .. l - 1 : ~Turns(t[i])  BY <1>1, <1>9 DEF Quiet
    <3> QED  BY <3>1, <1>2
  <2> QED  BY <2>1, <1>1, <1>2, <1>9 DEF Leaves
<1> QED  BY <1>4, <1>5, <1>6, <1>7, <1>8, <1>9 DEF t, h

LEMMA OfConcat ==
  ASSUME NEW S, NEW s \in Seq(S), NEW t \in Seq(S), \A x \in S : x.n \in Nat
  PROVE  /\ Numbers(s \o t) = Numbers(s) \cup Numbers(t)
         /\ Rising(s) /\ Rising(t) /\ Below(Numbers(s), Numbers(t)) => Rising(s \o t)
         /\ Quiet(s \o t) <=> Quiet(s) /\ Quiet(t)
         /\ \A c : Leaves(t, c) /\ (Quiet(t) => Leaves(s, c)) => Leaves(s \o t, c)
<1> DEFINE u == s \o t
           l == Len(s)
           k == Len(t)
<1>1. /\ l \in Nat /\ k \in Nat /\ DOMAIN s = 1 .. l /\ DOMAIN t = 1 .. k
      /\ u \in Seq(S) /\ DOMAIN u = 1 .. l + k
      /\ \A i \in 1 .. l : u[i] = s[i]
      /\ \A i \in 1 .. k : u[l + i] = t[i]
  BY Joined
<1>2. \A i \in 1 .. l : s[i].n \in Nat  BY ElementOfSeq
<1>3. \A i \in 1 .. k : t[i].n \in Nat  BY ElementOfSeq
<1> HIDE DEF u, l, k
<1>4. /\ \A i \in 1 .. l : i \in 1 .. l + k
      /\ \A i \in 1 .. k : l + i \in 1 .. l + k /\ l + i > l
      /\ \A i \in 1 .. l + k :
           \/ i \in 1 .. l /\ u[i] = s[i]
           \/ i > l /\ i - l \in 1 .. k /\ l + (i - l) = i /\ u[i] = t[i - l]
  <2>1. \A i \in 1 .. l + k : i \in 1 .. l \/ (i > l /\ i - l \in 1 .. k /\ l + (i - l) = i)
    BY <1>1
  <2>2. \A i \in 1 .. l + k : i > l /\ i - l \in 1 .. k /\ l + (i - l) = i => u[i] = t[i - l]
    <3> TAKE i \in 1 .. l + k
    <3> HAVE i > l /\ i - l \in 1 .. k /\ l + (i - l) = i
    <3>1. u[l + (i - l)] = t[i - l]  BY <1>1
    <3> QED  BY <3>1
  <2>3. /\ \A i \in 1 .. l : i \in 1 .. l + k
        /\ \A i \in 1 .. k : l + i \in 1 .. l + k /\ l + i > l
    BY <1>1
  <2> QED  BY <2>1, <2>2, <2>3, <1>1
<1>5. Numbers(u) = Numbers(s) \cup Numbers(t)
  <2>1. {u[i].n : i \in 1 .. l + k} = {s[i].n : i \in 1 .. l} \cup {t[i].n : i \in 1 .. k}
    <3>1. ASSUME NEW i \in 1 .. l + k
          PROVE  u[i].n \in {s[j].n : j \in 1 .. l} \cup {t[j].n : j \in 1 .. k}
      BY <1>4
    <3>2. ASSUME NEW i \in 1 .. l  PROVE s[i].n \in {u[j].n : j \in 1 .. l + k}
      BY <1>1, <1>4
    <3>3. ASSUME NEW i \in 1 .. k  PROVE t[i].n \in {u[j].n : j \in 1 .. l + k}
      BY <1>1, <1>4
    <3> QED  BY <3>1, <3>2, <3>3
  <2> QED  BY <2>1, <1>1 DEF Numbers
<1>6. ASSUME Rising(s), Rising(t), Below(Numbers(s), Numbers(t))  PROVE Rising(u)
  <2> SUFFICES ASSUME NEW i \in 1 .. l + k, NEW j \in 1 .. l + k, i < j, u[i].n > 0, u[j].n > 0
               PROVE  u[i].n < u[j].n
    BY <1>1 DEF Rising
  <2>1. CASE i \in 1 .. l /\ j \in 1 .. l  BY <2>1, <1>1, <1>6 DEF Rising
  <2>2. CASE i \in 1 .. l /\ j > l
    <3>1. u[i] = s[i] /\ s[i].n # 0  BY <2>2, <1>1, <1>2
    <3>2. j - l \in 1 .. k /\ u[j] = t[j - l]  BY <2>2, <1>1, <1>4
    <3>3. t[j - l].n # 0  BY <3>2, <1>3
    <3>4. u[i].n \in Numbers(s) /\ u[j].n \in Numbers(t)
      BY <2>2, <3>1, <3>2, <3>3, <1>1 DEF Numbers
    <3> QED  BY <3>4, <1>6 DEF Below
  <2>3. CASE i > l /\ j > l
    <3>1. i - l \in 1 .. k /\ j - l \in 1 .. k /\ i - l < j - l  BY <2>3, <1>1, <1>4
    <3>2. u[i] = t[i - l] /\ u[j] = t[j - l]  BY <2>3, <1>1, <1>4
    <3> QED  BY <3>1, <3>2, <1>1, <1>6 DEF Rising
  <2> QED  BY <2>1, <2>2, <2>3, <1>1
<1>7. Quiet(u) <=> Quiet(s) /\ Quiet(t)
  <2>1. (\A i \in 1 .. l + k : ~Turns(u[i]))
          <=> (\A i \in 1 .. l : ~Turns(s[i])) /\ (\A i \in 1 .. k : ~Turns(t[i]))
    <3>1. ASSUME \A i \in 1 .. l + k : ~Turns(u[i])
          PROVE  (\A i \in 1 .. l : ~Turns(s[i])) /\ (\A i \in 1 .. k : ~Turns(t[i]))
      BY <3>1, <1>1, <1>4
    <3>2. ASSUME \A i \in 1 .. l : ~Turns(s[i]), \A i \in 1 .. k : ~Turns(t[i])
          PROVE  \A i \in 1 .. l + k : ~Turns(u[i])
      BY <3>2, <1>4
    <3> QED  BY <3>1, <3>2
  <2> QED  BY <2>1, <1>1 DEF Quiet
<1>8. ASSUME NEW c, Leaves(t, c), Quiet(t) => Leaves(s, c)  PROVE Leaves(u, c)
  <2> SUFFICES ASSUME NEW i \in 1 .. l + k, Turns(u[i]), \A j \in 1 .. l + k : j > i => ~Turns(u[j])
               PROVE  c = Result(u[i])
    BY <1>1 DEF Leaves
  <2>1. CASE i \in 1 .. l
    <3>1. Quiet(t)
      <4>1. ASSUME NEW j \in 1 .. k  PROVE ~Turns(t[j])
        <5>1. l + j \in 1 .. l + k /\ l + j > i  BY <2>1, <1>1, <1>4
        <5> QED  BY <5>1, <1>1
      <4> QED  BY <4>1, <1>1 DEF Quiet
    <3>2. \A j \in 1 .. l : j > i => ~Turns(s[j])  BY <1>1, <1>4
    <3> QED  BY <2>1, <3>1, <3>2, <1>1, <1>8 DEF Leaves
  <2>2. CASE i > l
    <3>1. i - l \in 1 .. k /\ u[i] = t[i - l]  BY <2>2, <1>1, <1>4
    <3>2. ASSUME NEW j \in 1 .. k, j > i - l  PROVE ~Turns(t[j])
      <4>1. l + j \in 1 .. l + k /\ l + j > i  BY <3>1, <3>2, <1>1, <1>4
      <4> QED  BY <4>1, <1>1
    <3> QED  BY <3>1, <3>2, <1>1, <1>8 DEF Leaves
  <2> QED  BY <2>1, <2>2, <1>1
<1> QED  BY <1>5, <1>6, <1>7, <1>8 DEF u

LEMMA OfNone ==
  /\ Numbers(<<>>) = {} /\ Rising(<<>>) /\ Quiet(<<>>)
  /\ \A c : Leaves(<<>>, c)
  BY DEF Numbers, Rising, Quiet, Leaves

LEMMA Elements ==
  ASSUME NEW S, NEW s \in Seq(S)
  PROVE  /\ \A m \in S : Range(Append(s, m)) = Range(s) \cup {m}
         /\ s # <<>> => Head(s) \in Range(s) /\ Range(Tail(s)) \subseteq Range(s)
         /\ \A t \in Seq(S) : Range(s \o t) = Range(s) \cup Range(t)
         /\ \A k \in 0 .. Len(s) : SubSeq(s, 1, k) \in Seq(S) /\ Range(SubSeq(s, 1, k)) \subseteq Range(s)
         /\ Range(s) \subseteq S /\ Range(<<>>) = {}
<1>1. ASSUME NEW m \in S  PROVE Range(Append(s, m)) = Range(s) \cup {m}
  <2>1. /\ Len(s) \in Nat /\ DOMAIN s = 1 .. Len(s) /\ DOMAIN Append(s, m) = 1 .. Len(s) + 1
        /\ Append(s, m)[Len(s) + 1] = m
        /\ \A i \in 1 .. Len(s) : Append(s, m)[i] = s[i]
    BY Appended
  <2> DEFINE t == Append(s, m)
             l == Len(s)
  <2> HIDE DEF t, l
  <2>2. /\ \A i \in 1 .. l : i \in 1 .. l + 1
        /\ l + 1 \in 1 .. l + 1
        /\ \A i \in 1 .. l + 1 : i \in 1 .. l \/ i = l + 1
    BY <2>1 DEF l
  <2>3. Range(t) = {t[i] : i \in 1 .. l + 1} /\ Range(s) = {s[i] : i \in 1 .. l}
    BY <2>1 DEF Range, t, l
  <2>4. t[l + 1] = m /\ \A i \in 1 .. l : t[i] = s[i]  BY <2>1 DEF t, l
  <2>5. Range(t) = Range(s) \cup {m}  BY <2>2, <2>3, <2>4
  <2> QED  BY <2>5 DEF t
<1>2. ASSUME s # <<>>  PROVE Head(s) \in Range(s) /\ Range(Tail(s)) \subseteq Range(s)
  <2>1. /\ Len(s) \in Nat /\ Len(s) >= 1 /\ DOMAIN s = 1 .. Len(s) /\ Head(s) = s[1]
        /\ DOMAIN Tail(s) = 1 .. Len(s) - 1 /\ \A i \in 1 .. Len(s) - 1 : Tail(s)[i] = s[i + 1]
    BY <1>2, TakenFrom
  <2>2. 1 \in 1 .. Len(s) /\ \A i \in 1 .. Len(s) - 1 : i + 1 \in 1 .. Len(s)  BY <2>1
  <2> QED  BY <2>1, <2>2 DEF Range
<1>3. ASSUME NEW t \in Seq(S)  PROVE Range(s \o t) = Range(s) \cup Range(t)
  BY RangeConcatenation
<1>4. ASSUME NEW k \in 0 .. Len(s)
      PROVE  SubSeq(s, 1, k) \in Seq(S) /\ Range(SubSeq(s, 1, k)) \subseteq Range(s)
  <2>1. /\ SubSeq(s, 1, k) \in Seq(S) /\ DOMAIN SubSeq(s, 1, k) = 1 .. k
        /\ \A i \in 1 .. k : SubSeq(s, 1, k)[i] = s[i]
        /\ DOMAIN s = 1 .. Len(s) /\ Len(s) \in Nat
    OBVIOUS
  <2>2. 1 .. k \subseteq 1 .. Len(s)  BY <2>1
  <2> QED  BY <2>1, <2>2 DEF Range
<1>5. Range(s) \subseteq S /\ Range(<<>>) = {}
  BY RangeOfSeq DEF Range
<1> QED  BY <1>1, <1>2, <1>3, <1>4, <1>5

----------------------------------------------------------------------------
(* What a step does to each variable that more than one action changes.    *)
LEMMA Changes ==
  ASSUME Next
  PROVE  /\ UNCHANGED <<pendingOutbound, offered>> \/ OfferNext \/ Ack
              \/ (UNCHANGED offered /\ (PollFirst \/ DrainNext)) \/ ClearQueue
         /\ UNCHANGED pendingMove \/ Move \/ pendingMove' = NoMove
         /\ UNCHANGED batch \/ PollFirst \/ DrainNext \/ TakeMove \/ batch' = <<>>
         /\ UNCHANGED <<wire, seen, contact>> \/ HostRead \/ Accept
              \/ (UNCHANGED <<seen, contact>> /\ (Write \/ WriteFails))
         /\ UNCHANGED gestures \/ gestures' = gestures + 1
         /\ UNCHANGED epoch \/ ClearQueue
<1> USE DEF OtherThanUI, OtherThanWriter, OtherThanSession, StartEvent,
            uiVars, sharedVars, writerVars, hostVars
<1>1. CASE Move  BY <1>1 DEF Move
<1>2. CASE Down  BY <1>2 DEF Down
<1>3. CASE Up  BY <1>3 DEF Up
<1>4. CASE OfferNext  BY <1>4 DEF OfferNext
<1>5. CASE Ack  BY <1>5 DEF Ack
<1>6. CASE PollFirst  BY <1>6 DEF PollFirst
<1>7. CASE DrainNext  BY <1>7 DEF DrainNext
<1>8. CASE Drained  BY <1>8 DEF Drained
<1>9. CASE TakeMove  BY <1>9 DEF TakeMove
<1>10. CASE Write  BY <1>10 DEF Write
<1>11. CASE Interrupted  BY <1>11 DEF Interrupted
<1>12. CASE WriteFails  BY <1>12 DEF WriteFails
<1>13. CASE Accept  BY <1>13 DEF Accept
<1>14. CASE ClearQueue  BY <1>14 DEF ClearQueue
<1>15. CASE ClearMove  BY <1>15 DEF ClearMove
<1>16. CASE StartWriter  BY <1>16 DEF StartWriter
<1>17. CASE SetupFails  BY <1>17 DEF SetupFails
<1>18. CASE End  BY <1>18 DEF End
<1>19. CASE Join  BY <1>19 DEF Join
<1>20. CASE HostRead  BY <1>20 DEF HostRead
<1> QED
  BY <1>1, <1>2, <1>3, <1>4, <1>5, <1>6, <1>7, <1>8, <1>9, <1>10, <1>11, <1>12, <1>13, <1>14,
     <1>15, <1>16, <1>17, <1>18, <1>19, <1>20
     DEF Next, UIThread, WriterThread, SessionThread

LEMMA Widen ==
  ASSUME TypeOK, Typed, Next, ~ClearQueue
  PROVE  Sent \subseteq Sent'
<1>1. /\ gestures \in Nat /\ (gestures' = gestures \/ gestures' = gestures + 1)
      /\ epoch \in Nat /\ epoch' = epoch
  BY Changes DEF TypeOK
<1>2. offered \in Nat /\ (offered' = offered \/ offered' = offered + 1)
  BY Changes DEF Typed, OfferNext, Ack, Offer, PollFirst, DrainNext
<1>3. 0 .. gestures \subseteq 0 .. gestures'  BY <1>1
<1>4. 0 .. offered \subseteq 0 .. offered'  BY <1>2
<1> QED  BY <1>1, <1>3, <1>4 DEF Sent

(* A message is queued: a nudge, or one that is numbered and of the epoch; *)
(* a DOWN or UP brings the contact to what the finger has come to.         *)
LEMMA Offering ==
  ASSUME TypeOK, Typed, Doing, OfferNext \/ Ack
  PROVE  /\ \E m \in Sent' :
              /\ pendingOutbound' = Append(pendingOutbound, m)
              /\ m.kind = "WAKE" => m.n = 0
              /\ \/ m.kind = "WAKE" /\ m.n = 0 /\ offered' = offered
                 \/ m.n = offered + 1 /\ offered' = offered + 1 /\ m.e = epoch
              /\ Turns(m) => Expected' = Result(m)
              /\ ~Turns(m) => Expected' = Expected
         /\ UNCHANGED <<session, epoch, writer, batch, wire, seen, contact, pendingMove>>
<1>1. CASE OfferNext
  <2>1. /\ UNCHANGED <<session, epoch, writer, batch, wire, seen, contact, pendingMove, gestures>>
        /\ ui # <<>> /\ ui' = Tail(ui)
        /\ Head(ui) = "WAKE" => pendingOutbound' = Append(pendingOutbound, Wake) /\ offered' = offered
        /\ Head(ui) # "WAKE" => /\ offered' = offered + 1
                                /\ pendingOutbound' =
                                     Append(pendingOutbound, Touch(Head(ui), finger, offered + 1))
        /\ fingerEpoch' = IF Head(ui) = "DOWN" THEN epoch ELSE fingerEpoch
        /\ finger' = IF Head(ui) = "UP" THEN 0 ELSE finger
    BY <1>1 DEF OfferNext, Offer, OtherThanUI, writerVars, hostVars
  <2>2. offered' \in Nat /\ gestures' \in Nat /\ epoch' \in Nat
    BY <2>1 DEF Typed, TypeOK
  <2>3. /\ finger \in 0 .. gestures' /\ epoch \in 0 .. epoch' /\ 0 \in 0 .. gestures'
        /\ 0 \in 0 .. epoch' /\ 0 \in 0 .. offered'
    BY <2>1, <2>2 DEF TypeOK
  <2>4. CASE Head(ui) = "WAKE"
    <3>1. Wake \in Sent' /\ Wake.kind = "WAKE" /\ Wake.n = 0 /\ ~Turns(Wake)
      BY <2>3 DEF Wake, Sent, Turns
    <3>2. Expected' = Expected
      <4>1. ui = <<"WAKE">>  BY <2>1, <2>4 DEF Doing
      <4>2. ui # <<"DOWN">> /\ ui' # <<"DOWN">>  BY <4>1, <2>1
      <4> QED  BY <4>2, <2>1, <2>4 DEF Expected
    <3> QED  BY <2>1, <2>4, <3>1, <3>2
  <2>5. CASE Head(ui) # "WAKE"
    <3> DEFINE m == Touch(Head(ui), finger, offered + 1)
    <3>1. Head(ui) \in {"DOWN", "UP", "MOVE"}  BY <2>1, <2>5 DEF Doing
    <3>2. offered + 1 \in 0 .. offered'  BY <2>1, <2>2, <2>5
    <3>3. /\ m \in Sent' /\ m.kind = Head(ui) /\ m.n = offered + 1 /\ m.e = epoch
          /\ m.g = finger
      BY <2>3, <3>1, <3>2 DEF Touch, Sent
    <3>4. CASE Head(ui) = "DOWN"
      <4>1. ui = <<"DOWN">> /\ finger # 0  BY <2>1, <3>4 DEF Doing
      <4>2. ui' # <<"DOWN">>  BY <4>1, <2>1
      <4>3. Expected' = finger /\ Turns(m) /\ Result(m) = finger
        BY <4>1, <4>2, <2>1, <3>3, <3>4 DEF Expected, Turns, Result
      <4> QED  BY <4>3, <2>1, <2>5, <3>1, <3>3
    <3>5. CASE Head(ui) = "UP"
      <4>1. Expected' = 0 /\ Turns(m) /\ Result(m) = 0
        BY <2>1, <3>3, <3>5 DEF Expected, Turns, Result
      <4> QED  BY <4>1, <2>1, <2>5, <3>1, <3>3
    <3>6. CASE Head(ui) = "MOVE"
      <4>1. ui = <<"MOVE", "UP">>  BY <2>1, <3>6 DEF Doing
      <4>2. ui' # <<"DOWN">>  BY <4>1, <2>1
      <4>3. Expected' = Expected /\ ~Turns(m)
        BY <4>1, <4>2, <2>1, <3>3, <3>6 DEF Expected, Turns
      <4> QED  BY <4>3, <2>1, <2>5, <3>1, <3>3
    <3> QED  BY <3>1, <3>4, <3>5, <3>6
  <2> QED  BY <2>4, <2>5
<1>2. CASE Ack
  <2> DEFINE m == Touch("ACK", 0, offered + 1)
  <2>1. /\ UNCHANGED <<session, epoch, writer, batch, wire, seen, contact, pendingMove, gestures,
                       ui, finger, fingerEpoch>>
        /\ pendingOutbound' = Append(pendingOutbound, m) /\ offered' = offered + 1
    BY <1>2 DEF Ack, Offer, uiVars, writerVars, hostVars
  <2>2. offered + 1 \in 0 .. offered' /\ 0 \in 0 .. gestures' /\ epoch \in 0 .. epoch'
    BY <2>1 DEF Typed, TypeOK
  <2>3. /\ m \in Sent' /\ m.kind = "ACK" /\ m.n = offered + 1 /\ m.e = epoch /\ ~Turns(m)
    BY <2>2 DEF Touch, Sent, Turns
  <2>4. Expected' = Expected  BY <2>1 DEF Expected
  <2> QED  BY <2>1, <2>3, <2>4
<1> QED  BY <1>1, <1>2

LEMMA TypedStep ==
  ASSUME TypeOK, Typed, Doing, Phases, Next
  PROVE  Typed'
<1>1. offered' \in Nat
  BY Changes DEF Typed, OfferNext, Ack, Offer, ClearQueue
<1>2. CASE ClearQueue
  <2>1. batch = <<>> /\ wire = <<>> /\ session = "accepted"  BY <1>2 DEF Phases, ClearQueue
  <2>2. /\ batch' = <<>> /\ wire' = <<>> /\ pendingOutbound' = <<>> /\ offered' = 0
        /\ pendingMove' = pendingMove /\ gestures' = gestures /\ epoch' = epoch + 1
    BY <2>1, <1>2 DEF ClearQueue, OtherThanSession, uiVars, writerVars, hostVars
  <2>3. pendingMove \in Sent'
    <3>1. 0 .. epoch \subseteq 0 .. epoch' /\ 0 \in 0 .. offered'  BY <2>2 DEF TypeOK
    <3>2. pendingMove \in Sent /\ pendingMove.n = 0  BY DEF Typed
    <3> QED  BY <3>1, <3>2, <2>2 DEF Sent
  <2>4. <<>> \in Seq(Sent') /\ Range(<<>>) = {}  BY DEF Range
  <2> QED  BY <2>2, <2>3, <2>4 DEF Typed
<1>3. CASE ~ClearQueue
  <2>1. Sent \subseteq Sent'  BY <1>3, Widen
  <2>2. /\ pendingOutbound \in Seq(Sent') /\ batch \in Seq(Sent') /\ wire \in Seq(Sent')
        /\ pendingMove \in Sent'
    BY <2>1, SeqMonotonic DEF Typed
  <2>3. ASSUME NEW T, NEW q \in Seq(T), q # <<>>  PROVE Head(q) \in T /\ Tail(q) \in Seq(T)
    BY <2>3, HeadTailProperties
  <2>4. ASSUME NEW T, NEW q \in Seq(T), NEW x \in T  PROVE Append(q, x) \in Seq(T)
    BY AppendProperties
  <2>5. pendingOutbound' \in Seq(Sent')
    <3>1. CASE OfferNext \/ Ack
      <4>1. PICK m \in Sent' : pendingOutbound' = Append(pendingOutbound, m)
        BY <3>1, Offering
      <4> QED  BY <4>1, <2>2, <2>4
    <3>3. CASE PollFirst \/ DrainNext  BY <3>3, <2>2, <2>3 DEF PollFirst, DrainNext
    <3> QED  BY <3>1, <3>3, <1>3, <2>2, Changes
  <2>6. /\ pendingMove' \in Sent' /\ pendingMove'.n = 0
        /\ pendingMove'.kind \in {"none", "MOVE"}
    <3>1. CASE Move
      <4>1. pendingMove' = Touch("MOVE", finger, 0)  BY <3>1 DEF Move
      <4>2. finger \in 0 .. gestures' /\ epoch \in 0 .. epoch' /\ 0 \in 0 .. offered'
        BY <3>1, <1>1 DEF Move, StartEvent, OtherThanUI, TypeOK
      <4> QED  BY <4>1, <4>2 DEF Touch, Sent
    <3>2. CASE pendingMove' = NoMove
      <4>1. 0 \in 0 .. gestures' /\ 0 \in 0 .. epoch' /\ 0 \in 0 .. offered'
        BY <1>1, Changes, <1>3 DEF TypeOK
      <4> QED  BY <4>1, <3>2 DEF NoMove, Sent
    <3> QED  BY <3>1, <3>2, <2>2, Changes DEF Typed
  <2>7. batch' \in Seq(Sent')
    <3>1. CASE PollFirst \/ DrainNext
      <4>1. Head(pendingOutbound) \in Sent'  BY <3>1, <2>2, <2>3 DEF PollFirst, DrainNext
      <4>2. \/ batch' = batch \/ batch' = <<>>
            \/ batch' = Append(batch, Head(pendingOutbound))
            \/ batch' = Append(<<>>, Head(pendingOutbound))
        BY <3>1 DEF PollFirst, DrainNext, AppendOrSkip
      <4>3. <<>> \in Seq(Sent')  OBVIOUS
      <4>4. Append(batch, Head(pendingOutbound)) \in Seq(Sent')
        BY ONLY <4>1, <2>2, AppendProperties
      <4>5. Append(<<>>, Head(pendingOutbound)) \in Seq(Sent')
        BY ONLY <4>1, <4>3, AppendProperties
      <4>6. CASE batch' = batch  BY <4>6, <2>2
      <4>7. CASE batch' = <<>>  BY <4>7, <4>3
      <4>8. CASE batch' = Append(batch, Head(pendingOutbound))  BY <4>8, <4>4, Zenon
      <4>9. CASE batch' = Append(<<>>, Head(pendingOutbound))  BY <4>9, <4>5, Zenon
      <4> QED  BY <4>2, <4>6, <4>7, <4>8, <4>9, Zenon
    <3>2. CASE TakeMove  BY <3>2, <2>2, <2>4 DEF TakeMove
    <3>3. batch' = batch \/ batch' = <<>> \/ PollFirst \/ DrainNext \/ TakeMove  BY Changes
    <3>4. <<>> \in Seq(Sent')  OBVIOUS
    <3> QED  BY ONLY <3>1, <3>2, <3>3, <3>4, <2>2
  <2>8. wire' \in Seq(Sent')
    <3>1. CASE HostRead  BY <3>1, <2>2, <2>3 DEF HostRead
    <3>2. CASE Accept  BY <3>2 DEF Accept
    <3>3. CASE Write  BY <3>3, <2>2, ConcatProperties DEF Write
    <3>4. CASE WriteFails
      <4>1. PICK k \in 0 .. Len(batch) : wire' = wire \o SubSeq(batch, 1, k)
        BY <3>4 DEF WriteFails
      <4>2. SubSeq(batch, 1, k) \in Seq(Sent')  BY <2>2, <4>1, SubSeqProperties
      <4> QED  BY <4>1, <4>2, <2>2, ConcatProperties
    <3> QED  BY <3>1, <3>2, <3>3, <3>4, <2>2, Changes
  <2>9. \A m \in Range(pendingOutbound') : m.kind = "WAKE" => m.n = 0
    <3>1. /\ \A m \in Sent' : Range(Append(pendingOutbound, m)) = Range(pendingOutbound) \cup {m}
          /\ pendingOutbound # <<>> => Range(Tail(pendingOutbound)) \subseteq Range(pendingOutbound)
      BY <2>2, Elements
    <3>2. \A m \in Range(pendingOutbound) : m.kind = "WAKE" => m.n = 0  BY DEF Typed
    <3>3. CASE OfferNext \/ Ack
      <4>1. PICK m \in Sent' : /\ pendingOutbound' = Append(pendingOutbound, m)
                               /\ m.kind = "WAKE" => m.n = 0
        BY <3>3, Offering
      <4>2. Range(pendingOutbound') = Range(pendingOutbound) \cup {m}  BY <4>1, <3>1
      <4> QED  BY <4>1, <4>2, <3>2
    <3>5. CASE PollFirst \/ DrainNext  BY <3>1, <3>2, <3>5 DEF PollFirst, DrainNext
    <3> QED  BY <3>2, <3>3, <3>5, <1>3, Changes
  <2> QED  BY ONLY <1>1, <2>5, <2>6, <2>7, <2>8, <2>9 DEF Typed
<1> QED  BY <1>2, <1>3

LEMMA DoingStep ==
  ASSUME TypeOK, Doing, Next
  PROVE  Doing'
<1> USE DEF OtherThanUI, OtherThanWriter, OtherThanSession, StartEvent,
            uiVars, sharedVars, writerVars, hostVars
<1> USE DEF TypeOK, Doing
<1>1. CASE Move  BY <1>1 DEF Move
<1>2. CASE Down  BY <1>2 DEF Down
<1>3. CASE Up  BY <1>3 DEF Up
<1>4. CASE OfferNext
  <2>1. /\ ui # <<>> /\ ui' = Tail(ui)
        /\ finger' = IF Head(ui) = "UP" THEN 0 ELSE finger
    BY <1>4 DEF OfferNext
  <2>2. CASE ui = <<"MOVE", "UP">>
    <3>1. ui' = <<"UP">> /\ finger' = finger  BY <2>1, <2>2
    <3> QED  BY <3>1, <2>2
  <2>3. CASE ui \in {<<"WAKE">>, <<"DOWN">>, <<"UP">>}
    <3>1. ui' = <<>>  BY <2>1, <2>3
    <3> QED  BY <3>1
  <2> QED  BY <2>1, <2>2, <2>3
<1>5. CASE Ack  BY <1>5 DEF Ack
<1>6. CASE PollFirst  BY <1>6 DEF PollFirst
<1>7. CASE DrainNext  BY <1>7 DEF DrainNext
<1>8. CASE Drained  BY <1>8 DEF Drained
<1>9. CASE TakeMove  BY <1>9 DEF TakeMove
<1>10. CASE Write  BY <1>10 DEF Write
<1>11. CASE Interrupted  BY <1>11 DEF Interrupted
<1>12. CASE WriteFails  BY <1>12 DEF WriteFails
<1>13. CASE Accept  BY <1>13 DEF Accept
<1>14. CASE ClearQueue  BY <1>14 DEF ClearQueue
<1>15. CASE ClearMove  BY <1>15 DEF ClearMove
<1>16. CASE StartWriter  BY <1>16 DEF StartWriter
<1>17. CASE SetupFails  BY <1>17 DEF SetupFails
<1>18. CASE End  BY <1>18 DEF End
<1>19. CASE Join  BY <1>19 DEF Join
<1>20. CASE HostRead  BY <1>20 DEF HostRead
<1> QED
  BY <1>1, <1>2, <1>3, <1>4, <1>5, <1>6, <1>7, <1>8, <1>9, <1>10, <1>11, <1>12, <1>13, <1>14,
     <1>15, <1>16, <1>17, <1>18, <1>19, <1>20
     DEF Next, UIThread, WriterThread, SessionThread

LEMMA PhasesStep ==
  ASSUME TypeOK, Typed, Phases, Next
  PROVE  Phases'
<1> USE DEF OtherThanUI, OtherThanWriter, OtherThanSession, StartEvent,
            uiVars, sharedVars, writerVars, hostVars
<1> USE DEF TypeOK, Phases
<1>1. CASE Move  BY <1>1 DEF Move
<1>2. CASE Down  BY <1>2 DEF Down
<1>3. CASE Up  BY <1>3 DEF Up
<1>4. CASE OfferNext  BY <1>4 DEF OfferNext
<1>5. CASE Ack  BY <1>5 DEF Ack
<1>6. CASE PollFirst  BY <1>6 DEF PollFirst
<1>7. CASE DrainNext  BY <1>7 DEF DrainNext
<1>8. CASE Drained  BY <1>8 DEF Drained
<1>9. CASE TakeMove  BY <1>9 DEF TakeMove
<1>10. CASE Write  BY <1>10 DEF Write
<1>11. CASE Interrupted  BY <1>11 DEF Interrupted
<1>12. CASE WriteFails  BY <1>12 DEF WriteFails
<1>13. CASE Accept  BY <1>13 DEF Accept
<1>14. CASE ClearQueue  BY <1>14 DEF ClearQueue
<1>15. CASE ClearMove  BY <1>15 DEF ClearMove
<1>16. CASE StartWriter  BY <1>16 DEF StartWriter
<1>17. CASE SetupFails  BY <1>17 DEF SetupFails
<1>18. CASE End  BY <1>18 DEF End
<1>19. CASE Join  BY <1>19 DEF Join
<1>20. CASE HostRead  BY <1>20 DEF HostRead
<1> QED
  BY <1>1, <1>2, <1>3, <1>4, <1>5, <1>6, <1>7, <1>8, <1>9, <1>10, <1>11, <1>12, <1>13, <1>14,
     <1>15, <1>16, <1>17, <1>18, <1>19, <1>20
     DEF Next, UIThread, WriterThread, SessionThread

(* The queues' elements are messages, in this state and the next.          *)
LEMMA QueuesTyped ==
  Typed /\ gestures \in Nat /\ epoch \in Nat =>
    /\ pendingOutbound \in Seq(Messages) /\ batch \in Seq(Messages) /\ wire \in Seq(Messages)
    /\ pendingMove \in Messages
<1> SUFFICES ASSUME Typed, gestures \in Nat, epoch \in Nat
             PROVE  /\ pendingOutbound \in Seq(Messages) /\ batch \in Seq(Messages)
                    /\ wire \in Seq(Messages) /\ pendingMove \in Messages
  OBVIOUS
<1>1. 0 .. gestures \subseteq Nat /\ 0 .. epoch \subseteq Nat /\ 0 .. offered \subseteq Nat
  BY DEF Typed
<1>2. Sent \subseteq Messages  BY <1>1 DEF Sent, Messages
<1> QED  BY <1>2, SeqMonotonic DEF Typed

LEMMA QueuesTypedNext ==
  (Typed /\ gestures \in Nat /\ epoch \in Nat)' =>
    (/\ pendingOutbound \in Seq(Messages) /\ batch \in Seq(Messages) /\ wire \in Seq(Messages)
     /\ pendingMove \in Messages)'
<1>1. Typed /\ gestures \in Nat /\ epoch \in Nat =>
        /\ pendingOutbound \in Seq(Messages) /\ batch \in Seq(Messages) /\ wire \in Seq(Messages)
        /\ pendingMove \in Messages
  BY QueuesTyped
<1> QED  BY <1>1, PTL

LEMMA CountersStep ==
  ASSUME TypeOK, Doing, Phases, Next
  PROVE  /\ session' \in {"idle", "accepted", "cleared", "ready", "up", "closing"}
         /\ epoch' \in 0 .. MaxSessions /\ finger' \in 0 .. gestures' /\ fingerEpoch' \in 0 .. epoch'
         /\ gestures' \in 0 .. events' /\ events' \in 0 .. MaxEvents /\ acks' \in 0 .. MaxAcks
         /\ writer' \in {"poll", "drain", "slot", "write", "dead"} /\ interrupted' \in BOOLEAN
         /\ gestures' \in Nat /\ epoch' \in Nat
<1> USE DEF OtherThanUI, OtherThanWriter, OtherThanSession, StartEvent,
            uiVars, sharedVars, writerVars, hostVars
<1> USE UplinkBounds DEF TypeOK
<1>1. CASE Move  BY <1>1 DEF Move
<1>2. CASE Down  BY <1>2 DEF Down
<1>3. CASE Up  BY <1>3 DEF Up
<1>4. CASE OfferNext  BY <1>4 DEF OfferNext
<1>5. CASE Ack  BY <1>5 DEF Ack
<1>6. CASE PollFirst  BY <1>6 DEF PollFirst
<1>7. CASE DrainNext  BY <1>7 DEF DrainNext
<1>8. CASE Drained  BY <1>8 DEF Drained
<1>9. CASE TakeMove  BY <1>9 DEF TakeMove
<1>10. CASE Write  BY <1>10 DEF Write
<1>11. CASE Interrupted  BY <1>11 DEF Interrupted
<1>12. CASE WriteFails  BY <1>12 DEF WriteFails
<1>13. CASE Accept  BY <1>13 DEF Accept
<1>14. CASE ClearQueue  BY <1>14 DEF ClearQueue, Phases
<1>15. CASE ClearMove  BY <1>15 DEF ClearMove
<1>16. CASE StartWriter
  <2>1. interrupted' \in BOOLEAN  BY <1>16, Zenon DEF StartWriter
  <2> QED  BY <2>1, <1>16 DEF StartWriter
<1>17. CASE SetupFails  BY <1>17 DEF SetupFails
<1>18. CASE End  BY <1>18 DEF End
<1>19. CASE Join  BY <1>19 DEF Join
<1>20. CASE HostRead  BY <1>20 DEF HostRead
<1> QED
  BY <1>1, <1>2, <1>3, <1>4, <1>5, <1>6, <1>7, <1>8, <1>9, <1>10, <1>11, <1>12, <1>13, <1>14,
     <1>15, <1>16, <1>17, <1>18, <1>19, <1>20
     DEF Next, UIThread, WriterThread, SessionThread

LEMMA BatchStep ==
  ASSUME TypeOK, Typed, Next
  PROVE  Len(batch') <= BatchMax
<1>1. /\ Len(batch) \in Nat /\ Len(batch) <= BatchMax /\ Len(<<>>) = 0
      /\ BatchMax \in Nat /\ 0 <= BatchMax /\ 1 <= BatchMax
  BY UplinkBounds DEF TypeOK
<1>2. ASSUME NEW s \in Seq(Sent), NEW x \in Sent  PROVE Len(Append(s, x)) = Len(s) + 1
  BY AppendProperties
<1>3. batch \in Seq(Sent) /\ <<>> \in Seq(Sent) /\ pendingMove \in Sent
  BY DEF Typed
<1>4. pendingOutbound # <<>> => Head(pendingOutbound) \in Sent
  BY HeadTailProperties DEF Typed
<1>5. CASE PollFirst
  <2>1. /\ pendingOutbound # <<>>
        /\ \/ batch' = <<>>
           \/ batch' = Append(<<>>, Head(pendingOutbound))
    BY <1>5 DEF PollFirst, AppendOrSkip
  <2>2. Len(Append(<<>>, Head(pendingOutbound))) = 1  OBVIOUS
  <2>3. Len(batch') \in {0, 1}  BY <1>1, <2>1, <2>2, Zenon
  <2> QED  BY <1>1, <2>3, Zenon
<1>6. CASE DrainNext
  BY <1>1, <1>2, <1>3, <1>4, <1>6, UplinkBounds DEF DrainNext, AppendOrSkip
<1>7. CASE TakeMove
  BY <1>1, <1>2, <1>3, <1>7, UplinkBounds DEF TakeMove
<1>8. UNCHANGED batch \/ PollFirst \/ DrainNext \/ TakeMove \/ batch' = <<>>  BY Changes
<1>9. CASE batch' = batch  BY <1>1, <1>9
<1>10. CASE batch' = <<>>  BY <1>1, <1>10
<1> QED  BY <1>5, <1>6, <1>7, <1>8, <1>9, <1>10

LEMMA TypeStep ==
  ASSUME TypeOK, Typed, Typed', Doing, Phases, Next
  PROVE  TypeOK'
<1>1. gestures' \in Nat /\ epoch' \in Nat  BY CountersStep
<1>2. /\ pendingOutbound' \in Seq(Messages) /\ batch' \in Seq(Messages)
      /\ wire' \in Seq(Messages) /\ pendingMove' \in Messages
  BY <1>1, QueuesTypedNext
<1>3. offered' \in Nat  BY DEF Typed
<1>4. ui' \in Seq({"WAKE", "DOWN", "MOVE", "UP"})
  <2>1. Doing'  BY DoingStep
  <2>2. /\ <<>> \in Seq({"WAKE", "DOWN", "MOVE", "UP"})
        /\ <<"WAKE">> \in Seq({"WAKE", "DOWN", "MOVE", "UP"})
        /\ <<"DOWN">> \in Seq({"WAKE", "DOWN", "MOVE", "UP"})
        /\ <<"UP">> \in Seq({"WAKE", "DOWN", "MOVE", "UP"})
        /\ <<"MOVE", "UP">> \in Seq({"WAKE", "DOWN", "MOVE", "UP"})
    OBVIOUS
  <2> QED  BY <2>1, <2>2 DEF Doing
<1>5. seen' \in 0 .. offered' /\ contact' \in 0 .. gestures'
  <2>1. /\ seen \in Nat /\ offered \in Nat /\ seen <= offered
        /\ contact \in Nat /\ gestures \in Nat /\ contact <= gestures
    BY DEF TypeOK
  <2>2. gestures' = gestures \/ gestures' = gestures + 1  BY Changes
  <2>3. CASE HostRead
    <3>1. offered' = offered /\ gestures' = gestures /\ wire # <<>>
      BY <2>3 DEF HostRead, sharedVars, uiVars
    <3>2. Head(wire) \in Sent  BY <3>1, HeadTailProperties DEF Typed
    <3>3. Head(wire).n \in 0 .. offered /\ Head(wire).g \in 0 .. gestures
      BY <3>2 DEF Sent
    <3>4. Handle(Head(wire)) \in 0 .. gestures
      <4>1. contact \in 0 .. gestures /\ 0 \in 0 .. gestures  BY <2>1
      <4> QED  BY ONLY <4>1, <3>3, Zenon DEF Handle
    <3>5. contact' = Handle(Head(wire))
          /\ seen' = IF Head(wire).n = 0 THEN seen ELSE Head(wire).n
      BY <2>3 DEF HostRead
    <3> HIDE DEF Handle
    <3> QED  BY ONLY <2>1, <3>1, <3>3, <3>4, <3>5
  <2>4. CASE Accept
    BY <2>1, <2>4 DEF Accept, OtherThanSession, sharedVars, uiVars
  <2>5. CASE ClearQueue
    BY <2>1, <2>5 DEF ClearQueue, OtherThanSession, hostVars, uiVars, Phases
  <2>6. CASE UNCHANGED <<seen, contact>> /\ ~ClearQueue
    <3>1. offered' = offered \/ offered' = offered + 1
      BY <2>1, <2>6, Changes, Offering
    <3> QED  BY ONLY <2>1, <2>2, <2>6, <3>1, <1>3
  <2>7. UNCHANGED <<seen, contact>> \/ HostRead \/ Accept  BY Changes
  <2> QED  BY <2>3, <2>4, <2>5, <2>6, <2>7
<1>6. Len(batch') <= BatchMax  BY BatchStep
<1> HIDE DEF TypeOK, Typed, Doing, Phases
<1> QED  BY <1>2, <1>3, <1>4, <1>5, <1>6, CountersStep DEF TypeOK

----------------------------------------------------------------------------
(* The session thread's steps, and what they mean for the session.         *)
LEMMA Sessions ==
  ASSUME Next
  PROVE  \/ UNCHANGED <<session, epoch>>
         \/ ClearQueue \/ ClearMove \/ StartWriter
         \/ session' \in {"accepted", "idle", "closing"}
<1> USE DEF OtherThanUI, OtherThanWriter, OtherThanSession, StartEvent,
            uiVars, sharedVars, writerVars, hostVars
<1>1. CASE UIThread
  BY <1>1 DEF UIThread, Move, Down, Up, OfferNext
<1>2. CASE Ack \/ HostRead \/ WriteFails
  BY <1>2 DEF Ack, HostRead, WriteFails
<1>3. CASE WriterThread
  BY <1>3 DEF WriterThread, PollFirst, DrainNext, Drained, TakeMove, Write, Interrupted
<1>4. CASE SessionThread
  BY <1>4 DEF SessionThread, Accept, SetupFails, End, Join
<1> QED  BY <1>1, <1>2, <1>3, <1>4 DEF Next

LEMMA FreshStep ==
  ASSUME TypeOK, Typed, Doing, Phases, Fresh, Next
  PROVE  Fresh'
<1>1. CASE session' \in {"accepted", "idle", "closing"}
  BY <1>1 DEF Fresh
<1>2. CASE ClearQueue
  <2>1. session' = "cleared" /\ pendingOutbound' = <<>>  BY <1>2 DEF ClearQueue
  <2> QED  BY <2>1 DEF Fresh, Range
<1>3. CASE ClearMove
  <2>1. /\ session = "cleared" /\ session' = "ready" /\ pendingMove' = NoMove
        /\ pendingOutbound' = pendingOutbound /\ epoch' = epoch
    BY <1>3 DEF ClearMove
  <2> QED  BY <2>1 DEF Fresh
<1>4. CASE StartWriter
  <2>1. /\ session = "ready" /\ session' = "up" /\ pendingMove' = pendingMove
        /\ pendingOutbound' = pendingOutbound /\ epoch' = epoch
        /\ batch' = batch /\ wire' = wire
    BY <1>4 DEF StartWriter, sharedVars, hostVars
  <2>2. batch = <<>> /\ wire = <<>>  BY <2>1 DEF Phases
  <2>3. Range(batch) \cup Range(wire) = {}  BY <2>2 DEF Range
  <2> QED  BY <2>1, <2>3 DEF Fresh
<1>5. CASE UNCHANGED <<session, epoch>> /\ ~ClearQueue
  <2>1. Sent \subseteq Sent'  BY <1>5, Widen
  <2>2. pendingOutbound \in Seq(Sent')  BY <2>1, SeqMonotonic DEF Typed
  <2>3. ASSUME session \in {"cleared", "ready", "up"}, NEW m \in Range(pendingOutbound')
        PROVE  m.kind = "WAKE" \/ m.e = epoch
    <3>1. \A x \in Range(pendingOutbound) : x.kind = "WAKE" \/ x.e = epoch
      BY <2>3 DEF Fresh
    <3>2. CASE OfferNext \/ Ack
      <4>1. PICK x \in Sent' : /\ pendingOutbound' = Append(pendingOutbound, x)
                               /\ x.kind = "WAKE" \/ x.e = epoch
        BY <3>2, Offering
      <4>2. Range(Append(pendingOutbound, x)) = Range(pendingOutbound) \cup {x}
        BY ONLY <2>2, x \in Sent', Elements
      <4>3. m \in Range(pendingOutbound) \cup {x}  BY ONLY <2>3, <4>1, <4>2
      <4> QED  BY ONLY <4>1, <4>3, <3>1
    <3>3. CASE PollFirst \/ DrainNext
      <4>1. pendingOutbound # <<>> /\ pendingOutbound' = Tail(pendingOutbound)
        BY <3>3 DEF PollFirst, DrainNext
      <4>2. Range(Tail(pendingOutbound)) \subseteq Range(pendingOutbound)
        BY ONLY <2>2, <4>1, Elements
      <4> QED  BY ONLY <2>3, <3>1, <4>1, <4>2
    <3>4. CASE pendingOutbound' = pendingOutbound  BY <3>1, <3>4, <2>3
    <3> QED  BY <3>2, <3>3, <3>4, <1>5, Changes
  <2>4. ASSUME session \in {"ready", "up"}
        PROVE  pendingMove' = NoMove \/ pendingMove'.e = epoch
    <3>1. CASE Move
      <4>1. pendingMove' = Touch("MOVE", finger, 0)  BY <3>1 DEF Move
      <4> QED  BY <4>1 DEF Touch
    <3>2. CASE pendingMove' = pendingMove  BY <3>2, <2>4 DEF Fresh
    <3> QED  BY <3>1, <3>2, Changes
  <2>5. ASSUME session = "up", NEW m \in Range(batch')  PROVE m.e = epoch
    <3>1. \A x \in Range(batch) : x.e = epoch  BY <2>5 DEF Fresh
    <3>2. batch \in Seq(Sent) /\ <<>> \in Seq(Sent) /\ pendingMove \in Sent  BY DEF Typed
    <3>3. CASE PollFirst \/ DrainNext
      <4> DEFINE h == Head(pendingOutbound)
      <4>1. /\ pendingOutbound # <<>> /\ pendingOutbound \in Seq(Sent)
            /\ h.kind = "WAKE" => batch' \in {batch, <<>>}
            /\ h.kind # "WAKE" => batch' \in {Append(batch, h), Append(<<>>, h)}
        BY <3>3 DEF PollFirst, DrainNext, AppendOrSkip, Typed
      <4>2. h \in Range(pendingOutbound)  BY ONLY <4>1, Elements
      <4>3. h \in Sent  BY ONLY <4>1, HeadTailProperties
      <4> HIDE DEF h
      <4>4. Range(Append(batch, h)) = Range(batch) \cup {h} /\ Range(<<>>) = {}
        BY ONLY <3>2, <4>3, Elements
      <4>8. Range(Append(<<>>, h)) = Range(<<>>) \cup {h}
        <5>1. <<>> \in Seq(Sent)  BY <3>2
        <5> QED  BY ONLY <5>1, <4>3, Elements
      <4>5. h.kind = "WAKE" \/ h.e = epoch  BY <4>2, <2>5 DEF Fresh
      <4>6. CASE h.kind = "WAKE"  BY ONLY <4>1, <4>4, <4>6, <2>5, <3>1
      <4>7. CASE h.kind # "WAKE"
        <5>1. m \in Range(batch) \cup {h}  BY ONLY <4>1, <4>4, <4>8, <4>7, <2>5
        <5> QED  BY ONLY <5>1, <4>5, <4>7, <3>1
      <4> QED  BY <4>6, <4>7
    <3>4. CASE TakeMove
      <4>1. /\ batch' = batch \/ (pendingMove # NoMove /\ batch' = Append(batch, pendingMove))
            /\ pendingMove = NoMove \/ pendingMove.e = epoch
        BY <3>4, <2>5 DEF TakeMove, Fresh
      <4>2. Range(Append(batch, pendingMove)) = Range(batch) \cup {pendingMove}
        BY ONLY <3>2, Elements
      <4> QED  BY ONLY <4>1, <4>2, <3>1, <2>5
    <3>5. CASE batch' = batch  BY <3>5, <3>1, <2>5
    <3>6. CASE batch' = <<>>  BY <3>6, <2>5 DEF Range
    <3>7. UNCHANGED batch \/ PollFirst \/ DrainNext \/ TakeMove \/ batch' = <<>>  BY Changes
    <3> QED  BY ONLY <3>3, <3>4, <3>5, <3>6, <3>7
  <2>6. ASSUME session = "up", NEW m \in Range(wire')  PROVE m.e = epoch
    <3>1. \A x \in Range(batch) \cup Range(wire) : x.e = epoch  BY <2>6 DEF Fresh
    <3>2. batch \in Seq(Sent) /\ wire \in Seq(Sent)  BY DEF Typed
    <3>3. CASE HostRead
      <4>1. wire # <<>> /\ wire' = Tail(wire)  BY <3>3 DEF HostRead
      <4>2. Range(Tail(wire)) \subseteq Range(wire)  BY ONLY <4>1, <3>2, Elements
      <4> QED  BY ONLY <4>1, <4>2, <3>1, <2>6
    <3>4. CASE Write
      <4>1. wire' = wire \o batch  BY <3>4 DEF Write
      <4>2. Range(wire \o batch) = Range(wire) \cup Range(batch)  BY ONLY <3>2, Elements
      <4>3. m \in Range(wire) \cup Range(batch)  BY <4>1, <4>2, <2>6, Zenon
      <4> QED  BY ONLY <4>3, <3>1
    <3>5. CASE WriteFails
      <4>1. PICK k \in 0 .. Len(batch) : wire' = wire \o SubSeq(batch, 1, k)
        BY <3>5 DEF WriteFails
      <4>2. SubSeq(batch, 1, k) \in Seq(Sent) /\ Range(SubSeq(batch, 1, k)) \subseteq Range(batch)
        BY ONLY <3>2, k \in 0 .. Len(batch), Elements
      <4>3. \A t \in Seq(Sent) : Range(wire \o t) = Range(wire) \cup Range(t)
        BY ONLY <3>2, Elements
      <4>4. m \in Range(wire) \cup Range(SubSeq(batch, 1, k))  BY <4>1, <4>2, <4>3, <2>6, Zenon
      <4> QED  BY ONLY <4>2, <4>4, <3>1
    <3>6. CASE Accept  BY <3>6, <2>6, <1>5 DEF Accept
    <3>7. CASE wire' = wire  BY <3>7, <3>1, <2>6
    <3>8. wire' = wire \/ HostRead \/ Accept \/ Write \/ WriteFails  BY Changes
    <3> QED  BY ONLY <3>3, <3>4, <3>5, <3>6, <3>7, <3>8
  <2> QED  BY <1>5, <2>3, <2>4, <2>5, <2>6 DEF Fresh
<1> QED  BY <1>1, <1>2, <1>3, <1>4, <1>5, Sessions

----------------------------------------------------------------------------
(* What a step moves between the queue, the batch and the connection.      *)
LEMMA ExpectedKept ==
  ASSUME TypeOK, Doing, Next, ~OfferNext, ~ClearQueue
  PROVE  Expected' = Expected
<1> USE DEF OtherThanUI, OtherThanWriter, OtherThanSession, StartEvent,
            uiVars, sharedVars, writerVars, hostVars
<1>1. CASE Move \/ Up
  <2>1. /\ ui = <<>> /\ ui' \in {<<>>, <<"WAKE">>, <<"UP">>, <<"MOVE", "UP">>}
        /\ UNCHANGED <<finger, fingerEpoch, epoch>>
    BY <1>1 DEF Move, Up
  <2>2. ui # <<"DOWN">> /\ ui' # <<"DOWN">>  BY <2>1
  <2> QED  BY <2>1, <2>2 DEF Expected
<1>2. CASE Down
  <2>1. finger = 0 /\ ui' = <<"DOWN">>  BY <1>2 DEF Down
  <2> QED  BY <2>1 DEF Expected
<1>3. CASE UNCHANGED <<ui, finger, fingerEpoch, epoch>>
  BY <1>3 DEF Expected
<1>4. UNCHANGED <<ui, finger, fingerEpoch, epoch>> \/ Move \/ Up \/ Down
  <2>1. CASE Ack \/ HostRead \/ WriteFails
    BY <2>1 DEF Ack, HostRead, WriteFails
  <2>2. CASE WriterThread
    BY <2>2 DEF WriterThread, PollFirst, DrainNext, Drained, TakeMove, Write, Interrupted
  <2>3. CASE SessionThread /\ ~ClearQueue
    BY <2>3 DEF SessionThread, Accept, ClearMove, StartWriter, SetupFails, End, Join
  <2> QED  BY <2>1, <2>2, <2>3 DEF Next, UIThread
<1> QED  BY <1>1, <1>2, <1>3, <1>4

LEMMA KeptBefore ==
  ASSUME Phases, Next, Kept', ~ClearQueue
  PROVE  Kept /\ ~WriteFails /\ ~Join /\ ~Accept
<1> USE DEF OtherThanUI, OtherThanWriter, OtherThanSession, StartEvent,
            uiVars, sharedVars, writerVars, hostVars
<1> USE DEF Phases, Kept
<1>1. CASE UIThread
  BY <1>1 DEF UIThread, Move, Down, Up, OfferNext, WriteFails, Join, Accept
<1>2. CASE Ack \/ HostRead
  BY <1>2 DEF Ack, HostRead, WriteFails, Join, Accept
<1>3. CASE WriterThread
  BY <1>3 DEF WriterThread, PollFirst, DrainNext, Drained, TakeMove, Write, Interrupted,
              WriteFails, Join, Accept
<1>4. CASE WriteFails
  BY <1>4 DEF WriteFails
<1>5. CASE SessionThread
  BY <1>5 DEF SessionThread, Accept, ClearMove, StartWriter, SetupFails, End, Join, WriteFails
<1> QED  BY <1>1, <1>2, <1>3, <1>4, <1>5 DEF Next

Taking ==
  /\ pendingOutbound # <<>> /\ pendingOutbound' = Tail(pendingOutbound)
  /\ batch' = AppendOrSkip(batch, Head(pendingOutbound))
  /\ UNCHANGED <<offered, wire, seen, contact>>

Adding ==
  /\ batch' = Append(batch, pendingMove)
  /\ UNCHANGED <<pendingOutbound, offered, wire, seen, contact>>

Writing ==
  /\ wire' = wire \o batch /\ batch' = <<>>
  /\ UNCHANGED <<pendingOutbound, offered, seen, contact>>

Reading ==
  /\ wire # <<>> /\ wire' = Tail(wire)
  /\ contact' = Handle(Head(wire))
  /\ seen' = IF Head(wire).n = 0 THEN seen ELSE Head(wire).n
  /\ UNCHANGED <<pendingOutbound, offered, batch>>

LEMMA Flow ==
  ASSUME Phases, Next, Kept', ~ClearQueue
  PROVE  \/ OfferNext \/ Ack
         \/ Taking \/ Adding \/ Writing \/ Reading
         \/ UNCHANGED <<pendingOutbound, offered, batch, wire, seen, contact>>
<1> USE DEF OtherThanUI, OtherThanWriter, OtherThanSession, StartEvent,
            uiVars, sharedVars, writerVars, hostVars
<1>1. ~WriteFails /\ ~Join /\ ~Accept  BY KeptBefore
<1>2. CASE Move \/ Down \/ Up
  BY <1>2 DEF Move, Down, Up
<1>3. CASE PollFirst \/ DrainNext
  <2>1. PollFirst => batch = <<>>  BY DEF PollFirst, Phases
  <2> QED  BY <2>1, <1>3 DEF PollFirst, DrainNext, Taking
<1>4. CASE TakeMove  BY <1>4 DEF TakeMove, Adding
<1>5. CASE Write  BY <1>5 DEF Write, Writing
<1>6. CASE HostRead  BY <1>6 DEF HostRead, Reading
<1>7. CASE Drained \/ Interrupted  BY <1>7 DEF Drained, Interrupted
<1>8. CASE SessionThread
  BY <1>8, <1>1 DEF SessionThread, ClearMove, StartWriter, SetupFails, End
<1> QED
  BY <1>1, <1>2, <1>3, <1>4, <1>5, <1>6, <1>7, <1>8 DEF Next, UIThread, WriterThread

----------------------------------------------------------------------------
(* The numbers stay in order as they are handed on.                        *)
LEMMA Handed ==
  ASSUME NEW W, NEW B, NEW P, NEW x \in Nat,
         Below(W, B), Below(W, P \cup ({x} \ {0})), Below(B, P \cup ({x} \ {0})),
         x > 0 => \A a \in P : x < a
  PROVE  /\ Below(W, B \cup ({x} \ {0})) /\ Below(W, P) /\ Below(B \cup ({x} \ {0}), P)
         /\ x > 0 => \A b \in B : b < x
  BY DEF Below

LEMMA Numbered ==
  ASSUME NEW W, NEW B, NEW P, NEW f \in Nat, NEW l \in Nat, f <= l,
         Below(W, P), Below(B, P), W \cup B \cup P = (f + 1) .. l
  PROVE  /\ Below(W, P \cup {l + 1}) /\ Below(B, P \cup {l + 1})
         /\ \A a \in P : a < l + 1
         /\ W \cup B \cup (P \cup {l + 1}) = (f + 1) .. l + 1
<1>1. \A a \in (f + 1) .. l : a < l + 1  OBVIOUS
<1>2. (f + 1) .. l + 1 = ((f + 1) .. l) \cup {l + 1}  OBVIOUS
<1>3. \A a \in W \cup B \cup P : a < l + 1  BY <1>1
<1> QED  BY <1>2, <1>3 DEF Below

LEMMA FirstRead ==
  ASSUME NEW W, NEW B, NEW P, NEW f \in Nat, NEW l \in Nat, NEW x \in Nat, x > 0,
         \A a \in W : x < a, Below({x}, B), Below({x}, P),
         W \cup {x} \cup B \cup P = (f + 1) .. l
  PROVE  W \cup B \cup P = (x + 1) .. l
<1>1. x \in (f + 1) .. l  OBVIOUS
<1>2. f + 1 \in (f + 1) .. l  BY <1>1
<1>3. \A a \in W \cup B \cup P : x < a  BY DEF Below
<1>4. x = f + 1
  <2>1. CASE f + 1 \in W \cup B \cup P
    <3>1. x < f + 1  BY <2>1, <1>3
    <3> QED  BY <3>1, <1>1
  <2> QED  BY <2>1, <1>2
<1>5. \A a \in (f + 1) .. l : a = x \/ a \in (x + 1) .. l  BY <1>4
<1>6. (x + 1) .. l \subseteq (f + 1) .. l /\ x \notin (x + 1) .. l  BY <1>4
<1>7. W \cup B \cup P \subseteq (x + 1) .. l
  <2> SUFFICES ASSUME NEW a \in W \cup B \cup P  PROVE a \in (x + 1) .. l
    OBVIOUS
  <2>1. x < a /\ a \in (f + 1) .. l  BY <1>3
  <2> QED  BY <2>1, <1>5
<1> QED  BY <1>6, <1>7

LEMMA Numbering ==
  /\ Typed => \A x \in Sent : x.n \in Nat
  /\ (Typed => \A x \in Sent : x.n \in Nat)'
<1>1. Typed => \A x \in Sent : x.n \in Nat
  BY DEF Typed, Sent
<1> QED  BY <1>1, PTL

LEMMA OrderedStep ==
  ASSUME TypeOK, Typed, Typed', Doing, Phases, Ordered, Next
  PROVE  Ordered'
<1>1. CASE ClearQueue
  <2>1. batch = <<>> /\ wire = <<>> /\ seen = 0  BY <1>1 DEF Phases, ClearQueue
  <2>2. batch' = <<>> /\ wire' = <<>> /\ pendingOutbound' = <<>> /\ seen' = 0 /\ offered' = 0
    BY <2>1, <1>1 DEF ClearQueue, writerVars, hostVars
  <2>3. (seen' + 1) .. offered' = {}  BY <2>2
  <2>4. Below({}, {})  BY DEF Below
  <2> QED  BY <2>2, <2>3, <2>4, OfNone DEF Ordered
<1>2. ASSUME Kept', ~ClearQueue  PROVE Ordered'
  <2> DEFINE W == Numbers(wire)
             B == Numbers(batch)
             P == Numbers(pendingOutbound)
  <2>1. /\ Rising(wire) /\ Rising(batch) /\ Rising(pendingOutbound)
        /\ Below(W, B) /\ Below(W, P) /\ Below(B, P)
        /\ W \cup B \cup P = (seen + 1) .. offered
    BY <1>2, KeptBefore DEF Ordered
  <2>2. /\ pendingOutbound \in Seq(Sent) /\ batch \in Seq(Sent) /\ wire \in Seq(Sent)
        /\ \A x \in Sent : x.n \in Nat
    BY Numbering DEF Typed
  <2>3. seen \in Nat /\ offered \in Nat /\ seen <= offered  BY DEF TypeOK
  <2>4. CASE OfferNext \/ Ack
    <3>1. PICK m \in Sent' : /\ pendingOutbound' = Append(pendingOutbound, m)
                             /\ \/ m.n = 0 /\ offered' = offered
                                \/ m.n = offered + 1 /\ offered' = offered + 1
      BY <2>4, Offering
    <3>2. UNCHANGED <<wire, batch, seen>>  BY <2>4, Offering
    <3>3. pendingOutbound \in Seq(Sent') /\ (\A x \in Sent' : x.n \in Nat)
      <4>1. Sent \subseteq Sent'  BY <1>2, Widen
      <4> QED  BY <4>1, <2>2, SeqMonotonic, Numbering
    <3>4. /\ Numbers(pendingOutbound') = P \cup ({m.n} \ {0})
          /\ (m.n > 0 => \A a \in P : a < m.n) => Rising(pendingOutbound')
      BY ONLY <3>1, <3>3, <2>1, OfAppend
    <3>5. /\ Below(W, P \cup {offered + 1}) /\ Below(B, P \cup {offered + 1})
          /\ \A a \in P : a < offered + 1
          /\ W \cup B \cup (P \cup {offered + 1}) = (seen + 1) .. offered + 1
      BY ONLY <2>1, <2>3, Numbered
    <3>6. CASE m.n = 0 /\ offered' = offered
      <4>1. P \cup ({m.n} \ {0}) = P /\ ~(m.n > 0)  BY <3>6
      <4>2. Numbers(pendingOutbound') = P /\ Rising(pendingOutbound')  BY <4>1, <3>4
      <4> QED  BY <4>2, <3>6, <3>2, <2>1 DEF Ordered
    <3>7. CASE m.n = offered + 1 /\ offered' = offered + 1
      <4>1. P \cup ({m.n} \ {0}) = P \cup {offered + 1}  BY <3>7, <2>3
      <4>2. Numbers(pendingOutbound') = P \cup {offered + 1} /\ Rising(pendingOutbound')
        BY <4>1, <3>4, <3>5, <3>7
      <4> QED  BY <4>2, <3>5, <3>7, <3>2, <2>1 DEF Ordered
    <3> QED  BY <3>1, <3>6, <3>7
  <2>5. CASE Taking
    <3> DEFINE h == Head(pendingOutbound)
               Q == Numbers(Tail(pendingOutbound))
    <3>1. /\ P = Q \cup ({h.n} \ {0})
          /\ Rising(Tail(pendingOutbound))
          /\ h.n > 0 => \A a \in Q : h.n < a
      BY <2>1, <2>2, <2>5, OfTail DEF Taking
    <3>2. h \in Sent /\ h.n \in Nat  BY <2>2, <2>5, HeadTailProperties DEF Taking
    <3>3. /\ Below(W, B \cup ({h.n} \ {0})) /\ Below(W, Q) /\ Below(B \cup ({h.n} \ {0}), Q)
          /\ h.n > 0 => \A b \in B : b < h.n
      <4> HIDE DEF W, B, P, Q, h
      <4>1. /\ Below(W, B) /\ Below(W, Q \cup ({h.n} \ {0})) /\ Below(B, Q \cup ({h.n} \ {0}))
            /\ h.n \in Nat /\ (h.n > 0 => \A a \in Q : h.n < a)
        BY <2>1, <3>1, <3>2
      <4> DEFINE x == h.n
      <4> HIDE DEF x
      <4>2. /\ Below(W, B) /\ Below(W, Q \cup ({x} \ {0})) /\ Below(B, Q \cup ({x} \ {0}))
            /\ x \in Nat /\ (x > 0 => \A a \in Q : x < a)
        BY ONLY <4>1 DEF x
      <4>3. /\ Below(W, B \cup ({x} \ {0})) /\ Below(W, Q) /\ Below(B \cup ({x} \ {0}), Q)
            /\ x > 0 => \A b \in B : b < x
        BY ONLY <4>2, Handed
      <4> QED  BY ONLY <4>3 DEF x
    <3>4. Numbers(batch') = B \cup ({h.n} \ {0}) /\ Rising(batch')
      <4>1. CASE h.kind = "WAKE"
        <5>1. h.n = 0
          <6>1. h \in Range(pendingOutbound)  BY <2>2, <2>5, Elements DEF Taking
          <6> QED  BY <6>1, <4>1 DEF Typed
        <5>2. batch' = batch  BY <4>1, <2>5 DEF Taking, AppendOrSkip
        <5> QED  BY <5>1, <5>2, <2>1
      <4>2. CASE h.kind # "WAKE"
        <5>1. batch' = Append(batch, h)  BY <4>2, <2>5 DEF Taking, AppendOrSkip
        <5> HIDE DEF h
        <5>2. /\ Numbers(Append(batch, h)) = B \cup ({h.n} \ {0})
              /\ Rising(Append(batch, h))
          BY ONLY <2>1, <2>2, <3>2, <3>3, OfAppend
        <5> QED  BY <5>1, <5>2, Zenon
      <4> QED  BY <4>1, <4>2
    <3>5. W \cup (B \cup ({h.n} \ {0})) \cup Q = (seen + 1) .. offered
      BY ONLY <3>1, <2>1
    <3>6. pendingOutbound' = Tail(pendingOutbound) /\ UNCHANGED <<wire, seen, offered>>
      BY <2>5 DEF Taking
    <3> QED  BY ONLY <2>1, <3>1, <3>3, <3>4, <3>5, <3>6 DEF Ordered
  <2>6. CASE Adding
    <3>1. pendingMove \in Sent /\ pendingMove.n = 0  BY DEF Typed
    <3>2. /\ Numbers(Append(batch, pendingMove)) = B \cup ({pendingMove.n} \ {0})
          /\ Rising(Append(batch, pendingMove))
      BY ONLY <2>1, <2>2, <3>1, OfAppend
    <3>3. batch' = Append(batch, pendingMove)  BY <2>6 DEF Adding
    <3>4. Numbers(batch') = B /\ Rising(batch')
      <4>1. B \cup ({pendingMove.n} \ {0}) = B  BY <3>1
      <4> QED  BY <3>2, <3>3, <4>1, Zenon
    <3>5. UNCHANGED <<wire, pendingOutbound, seen, offered>>  BY <2>6 DEF Adding
    <3> QED  BY ONLY <2>1, <3>4, <3>5 DEF Ordered
  <2>7. CASE Writing
    <3>1. Numbers(wire \o batch) = W \cup B /\ Rising(wire \o batch)
      BY ONLY <2>1, <2>2, OfConcat
    <3>2. /\ wire' = wire \o batch /\ batch' = <<>>
          /\ UNCHANGED <<pendingOutbound, seen, offered>>
      BY <2>7 DEF Writing
    <3>3. Numbers(wire') = W \cup B /\ Rising(wire')  BY <3>1, <3>2, Zenon
    <3>4. Numbers(batch') = {} /\ Rising(batch')  BY <3>2, OfNone
    <3>5. Below(W \cup B, {}) /\ Below(W \cup B, P) /\ Below({}, P)  BY <2>1 DEF Below
    <3>6. (W \cup B) \cup {} \cup P = (seen + 1) .. offered  BY <2>1
    <3> QED  BY ONLY <2>1, <3>2, <3>3, <3>4, <3>5, <3>6 DEF Ordered
  <2>8. CASE Reading
    <3> DEFINE h == Head(wire)
               V == Numbers(Tail(wire))
    <3>1. W = V \cup ({h.n} \ {0}) /\ Rising(Tail(wire)) /\ (h.n > 0 => \A a \in V : h.n < a)
      BY <2>1, <2>2, <2>8, OfTail DEF Reading
    <3>2. h.n \in Nat  BY <2>2, <2>8, HeadTailProperties DEF Reading
    <3>3. /\ wire' = Tail(wire) /\ UNCHANGED <<pendingOutbound, offered, batch>>
          /\ seen' = IF h.n = 0 THEN seen ELSE h.n
      BY <2>8 DEF Reading
    <3> HIDE DEF h, V, W, B, P
    <3>4. Below(V, B) /\ Below(V, P)  BY <2>1, <3>1 DEF Below
    <3>5. V \cup B \cup P = (seen' + 1) .. offered
      <4>1. CASE h.n = 0
        <5>1. V = W  BY <4>1, <3>1
        <5> QED  BY <5>1, <4>1, <3>3, <2>1
      <4>2. CASE h.n > 0
        <5>1. W = V \cup {h.n} /\ seen' = h.n  BY <4>2, <3>1, <3>2, <3>3
        <5>2. Below({h.n}, B) /\ Below({h.n}, P)  BY <5>1, <2>1 DEF Below
        <5>3. V \cup {h.n} \cup B \cup P = (seen + 1) .. offered  BY <5>1, <2>1
        <5>4. V \cup B \cup P = (h.n + 1) .. offered
          <6> DEFINE x == h.n
          <6> HIDE DEF x
          <6>1. /\ x \in Nat /\ x > 0 /\ (\A a \in V : x < a) /\ Below({x}, B) /\ Below({x}, P)
                /\ V \cup {x} \cup B \cup P = (seen + 1) .. offered
            BY <5>2, <5>3, <4>2, <3>1, <3>2 DEF x
          <6>2. V \cup B \cup P = (x + 1) .. offered
            BY ONLY <6>1, <2>3, FirstRead
          <6> QED  BY ONLY <6>2 DEF x
        <5> QED  BY <5>1, <5>4
      <4> QED  BY <4>1, <4>2, <3>2
    <3>6. Numbers(wire') = V /\ Rising(wire')  BY <3>1, <3>3 DEF V
    <3>7. Numbers(batch') = B /\ Numbers(pendingOutbound') = P /\ Rising(batch')
          /\ Rising(pendingOutbound')
      BY <2>1, <3>3 DEF B, P
    <3> QED  BY ONLY <2>1, <3>3, <3>4, <3>5, <3>6, <3>7 DEF Ordered
  <2>9. CASE UNCHANGED <<pendingOutbound, offered, batch, wire, seen, contact>>
    BY <2>9, <2>1 DEF Ordered
  <2> QED  BY <1>2, <2>4, <2>5, <2>6, <2>7, <2>8, <2>9, Flow
<1> QED  BY <1>1, <1>2 DEF Ordered

(* The contact that is still to come.                                      *)
LEMMA FollowsStep ==
  ASSUME TypeOK, Typed, Typed', Doing, Phases, Follows, Next
  PROVE  Follows'
<1>1. CASE ClearQueue
  <2>1. batch = <<>> /\ wire = <<>> /\ contact = 0  BY <1>1 DEF Phases, ClearQueue
  <2>2. /\ batch' = <<>> /\ wire' = <<>> /\ pendingOutbound' = <<>> /\ contact' = 0
        /\ epoch' = epoch + 1 /\ fingerEpoch' = fingerEpoch
    BY <2>1, <1>1 DEF ClearQueue, OtherThanSession, uiVars, writerVars, hostVars
  <2>3. fingerEpoch' # epoch'  BY <2>2 DEF TypeOK
  <2>4. Expected' = 0  BY <2>3 DEF Expected
  <2> QED  BY <2>2, <2>4, OfNone DEF Follows
<1>2. ASSUME Kept', ~ClearQueue  PROVE Follows'
  <2>1. /\ Leaves(pendingOutbound, Expected)
        /\ Quiet(pendingOutbound) => Leaves(batch, Expected)
        /\ Quiet(pendingOutbound) /\ Quiet(batch) => Leaves(wire, Expected)
        /\ Quiet(pendingOutbound) /\ Quiet(batch) /\ Quiet(wire) => contact = Expected
    BY <1>2, KeptBefore DEF Follows
  <2>2. /\ pendingOutbound \in Seq(Sent) /\ batch \in Seq(Sent) /\ wire \in Seq(Sent)
        /\ \A x \in Sent : x.n \in Nat
    BY Numbering DEF Typed
  <2>3. CASE OfferNext \/ Ack
    <3>1. PICK m \in Sent' : /\ pendingOutbound' = Append(pendingOutbound, m)
                             /\ Turns(m) => Expected' = Result(m)
                             /\ ~Turns(m) => Expected' = Expected
      BY <2>3, Offering
    <3>2. UNCHANGED <<wire, batch, contact>>  BY <2>3, Offering
    <3>3. pendingOutbound \in Seq(Sent') /\ (\A x \in Sent' : x.n \in Nat)
      <4>1. Sent \subseteq Sent'  BY <1>2, Widen
      <4> QED  BY <4>1, <2>2, SeqMonotonic, Numbering
    <3>4. /\ Quiet(pendingOutbound') <=> Quiet(pendingOutbound) /\ ~Turns(m)
          /\ \A c : ~Turns(m) /\ Leaves(pendingOutbound, c) => Leaves(pendingOutbound', c)
          /\ \A c : Turns(m) /\ c = Result(m) => Leaves(pendingOutbound', c)
      BY ONLY <3>1, <3>3, OfAppend
    <3>5. Leaves(pendingOutbound', Expected')  BY <3>1, <3>4, <2>1
    <3> QED  BY <3>1, <3>2, <3>4, <3>5, <2>1 DEF Follows
  <2>4. CASE ~OfferNext /\ ~Ack
    <3>1. Expected' = Expected  BY <2>4, <1>2, ExpectedKept
    <3>2. CASE Taking
      <4> DEFINE h == Head(pendingOutbound)
      <4>1. /\ pendingOutbound # <<>> /\ pendingOutbound' = Tail(pendingOutbound)
            /\ UNCHANGED <<wire, contact>>
        BY <3>2 DEF Taking
      <4>2. /\ Quiet(pendingOutbound) <=> Quiet(pendingOutbound') /\ ~Turns(h)
            /\ Leaves(pendingOutbound', Expected)
            /\ Turns(h) /\ Quiet(pendingOutbound') => Expected = Result(h)
        BY <4>1, <2>1, <2>2, OfTail
      <4>3. h \in Sent  BY <4>1, <2>2, HeadTailProperties
      <4>4. \/ batch' = Append(batch, h)
            \/ batch' = batch /\ ~Turns(h)
        BY <3>2 DEF Taking, AppendOrSkip, Turns
      <4> HIDE DEF h
      <4>5. /\ Quiet(Append(batch, h)) <=> Quiet(batch) /\ ~Turns(h)
            /\ \A c : ~Turns(h) /\ Leaves(batch, c) => Leaves(Append(batch, h), c)
            /\ \A c : Turns(h) /\ c = Result(h) => Leaves(Append(batch, h), c)
        BY ONLY <2>2, <4>3, OfAppend
      <4>6. CASE batch' = Append(batch, h)
        <5>1. Quiet(batch') <=> Quiet(batch) /\ ~Turns(h)  BY <4>5, <4>6, Zenon
        <5>2. Quiet(pendingOutbound') => Leaves(batch', Expected)
          BY <4>2, <4>5, <4>6, <2>1, Zenon
        <5> QED  BY <5>1, <5>2, <4>1, <4>2, <3>1, <2>1 DEF Follows
      <4>7. CASE batch' = batch /\ ~Turns(h)
        BY <4>7, <4>1, <4>2, <3>1, <2>1 DEF Follows
      <4> QED  BY <4>4, <4>6, <4>7
    <3>3. CASE Adding
      <4>1. pendingMove \in Sent /\ ~Turns(pendingMove)  BY DEF Typed, Turns
      <4>2. /\ Quiet(Append(batch, pendingMove)) <=> Quiet(batch)
            /\ \A c : Leaves(batch, c) => Leaves(Append(batch, pendingMove), c)
        BY <4>1, <2>2, OfAppend
      <4>3. batch' = Append(batch, pendingMove) /\ UNCHANGED <<pendingOutbound, wire, contact>>
        BY <3>3 DEF Adding
      <4>4. /\ Quiet(batch') <=> Quiet(batch)
            /\ Leaves(batch, Expected) => Leaves(batch', Expected)
        BY <4>2, <4>3, Zenon
      <4> QED  BY <4>3, <4>4, <3>1, <2>1 DEF Follows
    <3>4. CASE Writing
      <4>1. /\ Quiet(wire \o batch) <=> Quiet(wire) /\ Quiet(batch)
            /\ \A c : Leaves(batch, c) /\ (Quiet(batch) => Leaves(wire, c))
                        => Leaves(wire \o batch, c)
        BY ONLY <2>2, OfConcat
      <4>2. /\ wire' = wire \o batch /\ batch' = <<>> /\ UNCHANGED <<pendingOutbound, contact>>
        BY <3>4 DEF Writing
      <4>3. /\ Quiet(wire') <=> Quiet(wire) /\ Quiet(batch)
            /\ Leaves(batch, Expected) /\ (Quiet(batch) => Leaves(wire, Expected))
                 => Leaves(wire', Expected)
        BY <4>1, <4>2, Zenon
      <4>4. Quiet(batch') /\ Leaves(batch', Expected)  BY <4>2, OfNone
      <4> QED  BY <4>2, <4>3, <4>4, <3>1, <2>1 DEF Follows
    <3>5. CASE Reading
      <4> DEFINE h == Head(wire)
      <4>1. /\ wire # <<>> /\ wire' = Tail(wire) /\ UNCHANGED <<pendingOutbound, batch>>
            /\ contact' = Handle(h)
        BY <3>5 DEF Reading
      <4>2. /\ Quiet(wire) <=> Quiet(wire') /\ ~Turns(h)
            /\ Leaves(wire, Expected) => Leaves(wire', Expected)
            /\ Leaves(wire, Expected) /\ Turns(h) /\ Quiet(wire') => Expected = Result(h)
        BY <4>1, <2>2, OfTail
      <4> HIDE DEF h
      <4>3. /\ Turns(h) => Handle(h) = Result(h)
            /\ ~Turns(h) => Handle(h) = contact
        <5>1. CASE h.kind = "DOWN"  BY <5>1, Zenon DEF Handle, Result, Turns
        <5>2. CASE h.kind = "UP"
          <6>1. h.kind # "DOWN"  BY <5>2
          <6> QED  BY <5>2, <6>1, Zenon DEF Handle, Result, Turns
        <5>3. CASE h.kind # "DOWN" /\ h.kind # "UP"
          <6>1. Handle(h) = contact  BY <5>3, Zenon DEF Handle
          <6> QED  BY <6>1, <5>3 DEF Turns
        <5> QED  BY <5>1, <5>2, <5>3
      <4> QED  BY <4>1, <4>2, <4>3, <3>1, <2>1 DEF Follows
    <3>6. CASE UNCHANGED <<pendingOutbound, offered, batch, wire, seen, contact>>
      BY <3>6, <3>1, <2>1 DEF Follows
    <3> QED  BY <2>4, <1>2, <3>2, <3>3, <3>4, <3>5, <3>6, Flow
  <2> QED  BY <2>3, <2>4
<1> QED  BY <1>1, <1>2 DEF Follows

----------------------------------------------------------------------------
LEMMA Initially ==
  ASSUME Init
  PROVE  IInv
<1>1. TypeOK
  <2>1. /\ 0 \in 0 .. MaxSessions /\ 0 \in 0 .. MaxEvents /\ 0 \in 0 .. MaxAcks /\ 0 <= BatchMax
        /\ 0 \in 0 .. 0
    BY UplinkBounds
  <2>2. NoMove \in Messages  BY DEF NoMove, Messages
  <2>3. interrupted \in BOOLEAN  BY DEF Init
  <2> HIDE DEF NoMove, Messages
  <2> QED  BY <2>1, <2>2, <2>3 DEF Init, TypeOK
<1>2. Typed
  <2>1. offered = 0 /\ gestures = 0 /\ epoch = 0 /\ pendingMove = NoMove  BY DEF Init
  <2>2. 0 \in 0 .. 0  OBVIOUS
  <2>3. pendingMove \in Sent /\ pendingMove.n = 0 /\ pendingMove.kind = "none"
    BY <2>1, <2>2 DEF Sent, NoMove
  <2>4. Range(<<>>) = {}  BY DEF Range
  <2> HIDE DEF Sent
  <2> QED  BY <2>1, <2>3, <2>4 DEF Init, Typed
<1>3. Doing /\ Phases  BY DEF Init, Doing, Phases
<1>4. ~Kept  BY DEF Init, Kept
<1>5. Fresh  BY DEF Init, Fresh
<1> QED  BY <1>1, <1>2, <1>3, <1>4, <1>5 DEF IInv, Ordered, Follows

LEMMA Stutter ==
  ASSUME IInv, UNCHANGED vars
  PROVE  IInv'
<1>1. UNCHANGED <<session, epoch, pendingOutbound, pendingMove, offered, ui, finger, fingerEpoch,
                  gestures, events, acks, writer, interrupted, batch, wire, seen, contact>>
  BY DEF vars, uiVars, sharedVars, writerVars, hostVars
<1>2. Sent' = Sent /\ Expected' = Expected /\ Kept' = Kept
  BY <1>1, Zenon DEF Sent, Expected, Kept
<1>3. TypeOK'  BY <1>1, Zenon DEF IInv, TypeOK
<1>4. Typed'  BY <1>1, <1>2, Zenon DEF IInv, Typed
<1>5. Doing' /\ Phases'  BY <1>1, Zenon DEF IInv, Doing, Phases
<1>6. Ordered'  BY <1>1, <1>2, Zenon DEF IInv, Ordered
<1>7. Fresh'  BY <1>1, Zenon DEF IInv, Fresh
<1>8. Follows'  BY <1>1, <1>2, Zenon DEF IInv, Follows
<1> QED  BY <1>3, <1>4, <1>5, <1>6, <1>7, <1>8 DEF IInv

LEMMA Steps ==
  ASSUME IInv, [Next]_vars
  PROVE  IInv'
<1>1. CASE Next
  <2>1. TypeOK /\ Typed /\ Doing /\ Phases /\ Ordered /\ Fresh /\ Follows  BY DEF IInv
  <2>2. Typed'  BY <1>1, <2>1, TypedStep
  <2>3. TypeOK'  BY <1>1, <2>1, <2>2, TypeStep
  <2>4. Doing' /\ Phases'  BY <1>1, <2>1, DoingStep, PhasesStep
  <2>5. Ordered'  BY <1>1, <2>1, <2>2, OrderedStep
  <2>6. Fresh'  BY <1>1, <2>1, FreshStep
  <2>7. Follows'  BY <1>1, <2>1, <2>2, FollowsStep
  <2> QED  BY <2>2, <2>3, <2>4, <2>5, <2>6, <2>7 DEF IInv
<1>2. CASE UNCHANGED vars  BY <1>2, Stutter
<1> QED  BY <1>1, <1>2

(* The invariant of the uplink: the order of the queue, the epochs and the *)
(* contact, with what each queue holds and where each thread may stand.    *)
THEOREM UplinkInductive ==
  Spec => []IInv
<1>1. Init => IInv  BY Initially
<1>2. IInv /\ [Next]_vars => IInv'  BY Steps
<1> QED  BY <1>1, <1>2, PTL DEF Spec

LEMMA QueueIsKept ==
  ASSUME IInv
  PROVE  QueueKept
<1>1. InOrder
  <2> SUFFICES ASSUME session = "up", writer # "dead"
               PROVE  /\ Rising((wire \o batch) \o pendingOutbound)
                      /\ Numbers((wire \o batch) \o pendingOutbound) = (seen + 1) .. offered
    BY DEF InOrder, Rising, Numbers
  <2>1. /\ Rising(wire) /\ Rising(batch) /\ Rising(pendingOutbound)
        /\ Below(Numbers(wire), Numbers(batch))
        /\ Below(Numbers(wire), Numbers(pendingOutbound))
        /\ Below(Numbers(batch), Numbers(pendingOutbound))
        /\ Numbers(wire) \cup Numbers(batch) \cup Numbers(pendingOutbound) = (seen + 1) .. offered
    BY DEF IInv, Ordered, Kept
  <2>2. /\ wire \in Seq(Sent) /\ batch \in Seq(Sent) /\ pendingOutbound \in Seq(Sent)
        /\ \A x \in Sent : x.n \in Nat
    BY Numbering DEF IInv, Typed
  <2>3. /\ Numbers(wire \o batch) = Numbers(wire) \cup Numbers(batch)
        /\ Rising(wire \o batch)
    BY ONLY <2>1, <2>2, OfConcat
  <2>4. Below(Numbers(wire \o batch), Numbers(pendingOutbound))
    BY <2>1, <2>3 DEF Below
  <2>5. wire \o batch \in Seq(Sent)  BY ONLY <2>2, ConcatProperties
  <2> DEFINE w == wire \o batch
  <2> HIDE DEF w
  <2>6. /\ w \in Seq(Sent) /\ Rising(w) /\ Below(Numbers(w), Numbers(pendingOutbound))
        /\ Numbers(w) \cup Numbers(pendingOutbound) = (seen + 1) .. offered
    BY <2>1, <2>3, <2>4, <2>5 DEF w
  <2>7. /\ Rising(w \o pendingOutbound)
        /\ Numbers(w \o pendingOutbound) = (seen + 1) .. offered
    <3>1. /\ Rising(w \o pendingOutbound)
          /\ Numbers(w \o pendingOutbound) = Numbers(w) \cup Numbers(pendingOutbound)
      BY ONLY <2>1, <2>2, <2>6, OfConcat
    <3> QED  BY <3>1, <2>6
  <2> QED  BY ONLY <2>7 DEF w
<1>2. NothingStale  BY DEF IInv, Fresh, NothingStale
<1> QED  BY <1>1, <1>2 DEF QueueKept

LEMMA ContactIsTheFingers ==
  ASSUME IInv
  PROVE  ContactFollowsFinger
<1> SUFFICES ASSUME session = "up", writer = "poll", ui = <<>>, pendingOutbound = <<>>, wire = <<>>
             PROVE  contact = IF finger # 0 /\ fingerEpoch = epoch THEN finger ELSE 0
  BY DEF ContactFollowsFinger
<1>1. batch = <<>>  BY DEF IInv, Phases
<1>2. Quiet(pendingOutbound) /\ Quiet(batch) /\ Quiet(wire)  BY <1>1, OfNone
<1>3. contact = Expected  BY <1>2 DEF IInv, Follows, Kept
<1>4. ui # <<"DOWN">>  OBVIOUS
<1> QED  BY <1>3, <1>4 DEF Expected

----------------------------------------------------------------------------
(* Both directions: a step of one leaves the other as it was.              *)
DP == INSTANCE VideoDownlinkProofs

LEMMA UplinkOfStream ==
  StreamSpec => Spec
<1>1. StreamInit => Init  BY DEF StreamInit
<1>2. [StreamNext]_allVars => [Next]_vars
  <2>1. StreamNext => Next \/ UNCHANGED vars  BY Zenon DEF StreamNext, UpStep, DownStep
  <2>2. UNCHANGED allVars => UNCHANGED vars  BY DEF allVars
  <2> QED  BY <2>1, <2>2
<1> QED  BY <1>1, <1>2, PTL DEF StreamSpec, Spec

LEMMA DownlinkOfStream ==
  StreamSpec => DP!Spec
<1> USE DEF
     Downlink!encoderVars, DP!encoderVars, Downlink!drainVars, DP!drainVars,
         Downlink!timeVars, DP!timeVars, Downlink!codecVars, DP!codecVars,
         Downlink!appVars, DP!appVars, Downlink!hostVars, DP!hostVars, Downlink!wireVars,
         DP!wireVars
<1>1. StreamInit => DP!Init
  BY DEF StreamInit, Downlink!Init, DP!Init, Downlink!NoFrame, DP!NoFrame, Downlink!NoMatch, DP!NoMatch
<1>2. Downlink!Next => DP!Next
  BY DEF Downlink!Next, DP!Next, Downlink!SessionThread, DP!SessionThread,
     Downlink!NoFrame, DP!NoFrame, Downlink!NoMatch, DP!NoMatch, Downlink!Header,
         DP!Header, Downlink!Control, DP!Control, Downlink!Video, DP!Video,
         Downlink!TimesAtConnect, DP!TimesAtConnect, Downlink!Connect, DP!Connect,
         Downlink!PushFrame, DP!PushFrame, Downlink!Encode, DP!Encode, Downlink!After,
         DP!After, Downlink!Pull, DP!Pull, Downlink!Stamp, DP!Stamp, Downlink!Send,
         DP!Send, Downlink!DrainEnds, DP!DrainEnds, Downlink!ReadAck, DP!ReadAck,
         Downlink!HostEnds, DP!HostEnds, Downlink!OtherThanApp, DP!OtherThanApp,
         Downlink!Listen, DP!Listen, Downlink!Accept, DP!Accept, Downlink!ReadHeader,
         DP!ReadHeader, Downlink!KeptInputs, DP!KeptInputs, Downlink!StartCodec,
         DP!StartCodec, Downlink!ReadControl, DP!ReadControl, Downlink!ReadFrame,
         DP!ReadFrame, Downlink!QueueInput, DP!QueueInput, Downlink!StarvedNow,
         DP!StarvedNow, Downlink!Starved, DP!Starved, Downlink!Close, DP!Close,
         Downlink!Streaming, DP!Streaming, Downlink!EndOfStream, DP!EndOfStream,
         Downlink!NoSurface, DP!NoSurface, Downlink!SessionFails, DP!SessionFails,
         Downlink!Stop, DP!Stop, Downlink!Start, DP!Start, Downlink!OnInputBufferAvailable,
         DP!OnInputBufferAvailable, Downlink!Decode, DP!Decode,
         Downlink!OnOutputBufferAvailable, DP!OnOutputBufferAvailable, Downlink!SetSurface,
         DP!SetSurface
<1>3. [StreamNext]_allVars => [DP!Next]_(DP!vars)
  <2>1. StreamNext => DP!Next \/ UNCHANGED downVars  BY <1>2, Zenon DEF StreamNext, UpStep, DownStep
  <2>2. UNCHANGED allVars => UNCHANGED downVars  BY DEF allVars
  <2>3. UNCHANGED downVars => UNCHANGED DP!vars  BY DEF downVars, DP!vars
  <2> QED  BY <2>1, <2>2, <2>3
<1> QED  BY <1>1, <1>3, PTL DEF StreamSpec, DP!Spec

LEMMA DownlinkIsBounded == DP!Bounds
  BY DownlinkBounds DEF DP!Bounds

(* Every variable of both directions has its type, whatever the bounds.    *)
THEOREM StreamTypeCorrect ==
  StreamSpec => []StreamTypeOK
<1>1. DP!Spec => []DP!TypeOK  BY DownlinkIsBounded, DP!TypeCorrect
<1>2. IInv => TypeOK  BY DEF IInv
<1>3. TypeOK /\ DP!TypeOK => StreamTypeOK
  BY DEF StreamTypeOK, Downlink!TypeOK, DP!TypeOK, Downlink!Header, DP!Header, Downlink!Control,
         DP!Control, Downlink!Video, DP!Video, Downlink!Frames, DP!Frames, Downlink!NoFrame,
         DP!NoFrame, Downlink!Range, DP!Range
<1> QED  BY <1>1, <1>2, <1>3, UplinkInductive, UplinkOfStream, DownlinkOfStream, PTL

(* DOWN, UP and acks reach the host in the order they were queued, each    *)
(* once, and nothing of an earlier session is written to a connection:     *)
(* the writer's batches (VideoStream.kt), for any batch and any queue.     *)
THEOREM QueueStaysInOrder ==
  StreamSpec => []QueueKept
<1>1. IInv => QueueKept  BY QueueIsKept
<1> QED  BY <1>1, UplinkInductive, UplinkOfStream, PTL

(* Once all is handled, the host's touchscreen has a contact exactly if    *)
(* the finger whose DOWN belongs to this session is on the glass.          *)
THEOREM ContactIsKept ==
  StreamSpec => []ContactFollowsFinger
<1>1. IInv => ContactFollowsFinger  BY ContactIsTheFingers
<1> QED  BY <1>1, UplinkInductive, UplinkOfStream, PTL

(* The round trips of a session are those of the frames that were acked.   *)
THEOREM StreamAcksMatch ==
  StreamSpec => []AcksMatch
<1>1. DP!Spec => []DP!AcksMatch  BY DownlinkIsBounded, DP!AcksAreMatched
<1>2. DP!AcksMatch => AcksMatch  BY DEF AcksMatch, Downlink!AcksMatch, DP!AcksMatch
<1> QED  BY <1>1, <1>2, DownlinkOfStream, PTL

(* No input of the decoder is lost or used twice, across its sessions.     *)
THEOREM StreamInputsConserved ==
  StreamSpec => []InputsConserved
<1>1. DP!Spec => []DP!InputsConserved  BY DownlinkIsBounded, DP!InputsAreConserved
<1>2. DP!InputsConserved => InputsConserved
  BY DEF InputsConserved, Downlink!InputsConserved, DP!InputsConserved, Downlink!Cardinality,
         DP!Cardinality
<1> QED  BY <1>1, <1>2, DownlinkOfStream, PTL
============================================================================
