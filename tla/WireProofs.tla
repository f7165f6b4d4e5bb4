------------------------------ MODULE WireProofs -----------------------------
(***************************************************************************)
(* The three byte streams between their ends, for every script, every way  *)
(* the bytes are cut and every place where the connection breaks.          *)
(*                                                                         *)
(* The parts are: the arithmetic of the ends (the size of the stream for   *)
(* every panel, rotation and --max-width, where a touch lands for every    *)
(* surface); of each message, that its reader makes of the bytes what its  *)
(* writer meant; the stream as a whole, FramingInv; and what follows from  *)
(* it, ReadAsWritten and ScreenFits.                                       *)
(***************************************************************************)
EXTENDS Framing, TLAPS, SequenceTheorems, FiniteSetTheorems, WellFoundedInduction

(* Rounding down to even stays positive for what is at least two.          *)
LEMMA Align2Even ==
  ASSUME NEW v \in Nat, v >= 2
  PROVE  Align2(v) \in Nat /\ Align2(v) % 2 = 0 /\ Align2(v) \in 2 .. v /\ Align2(v) + 1 >= v
BY DEF Align2

LEMMA QuotientBounds ==
  ASSUME NEW a \in Nat, NEW b \in Nat \ {0}
  PROVE  /\ a \div b \in Nat
         /\ b * (a \div b) <= a
         /\ a < b * (a \div b) + b
<1>1. a \div b \in Nat /\ a % b \in 0 .. b - 1
  OBVIOUS
<1>2. a = b * (a \div b) + (a % b)
  OBVIOUS
<1>3. b * (a \div b) \in Nat
  BY <1>1
<1> QED
  BY <1>1, <1>2, <1>3

(* Whatever the panel and --max-width, the encoder is given even axes of   *)
(* at least two, as NV12 needs, no wider than asked for, and as high as    *)
(* the panel's aspect says but for the rounding (stream_resolution).       *)
THEOREM StreamFits ==
  ASSUME NEW pw \in Nat \ {0}, NEW ph \in Nat \ {0}, NEW maxWidth \in Nat
  PROVE  LET size == StreamResolution(<<pw, ph>>, maxWidth)
         IN  /\ size[1] \in Nat /\ size[1] % 2 = 0 /\ size[1] >= 2
             /\ size[1] <= Greatest(maxWidth, 2)
             /\ size[2] \in Nat /\ size[2] % 2 = 0 /\ size[2] >= 2
             /\ size[2] * pw <= (size[1] + 1) * ph \/ size[2] = 2
             /\ size[1] * ph < (size[2] + 2) * pw
<1> DEFINE width  == Greatest(Least(pw, maxWidth), 2)
           height == (width * ph) \div pw
           w == Align2(width)
           h == Align2(Greatest(height, 2))
<1>1. width \in Nat /\ width >= 2 /\ width <= Greatest(maxWidth, 2)
  BY DEF Greatest, Least
<1>2. width * ph \in Nat
  BY <1>1
<1>3. height \in Nat /\ pw * height <= width * ph /\ width * ph < pw * height + pw
  BY <1>2, QuotientBounds
<1>4. /\ Greatest(height, 2) \in Nat /\ Greatest(height, 2) >= 2 /\ Greatest(height, 2) >= height
      /\ Greatest(height, 2) = height \/ Greatest(height, 2) = 2
  BY <1>3 DEF Greatest
<1>5. w \in Nat /\ w % 2 = 0 /\ w >= 2 /\ w <= width /\ w + 1 >= width
  BY <1>1, Align2Even
<1>6. h \in Nat /\ h % 2 = 0 /\ h >= 2 /\ h <= Greatest(height, 2) /\ h + 1 >= Greatest(height, 2)
  BY <1>4, Align2Even
<1>7. h * pw <= (w + 1) * ph \/ h = 2
  <2>1. CASE Greatest(height, 2) = 2
    BY <2>1, <1>6
  <2>2. CASE Greatest(height, 2) = height
    <3>1. h * pw <= pw * height
      BY <2>2, <1>3, <1>6
    <3>2. width * ph <= (w + 1) * ph
      BY <1>1, <1>5
    <3>3. h * pw \in Nat /\ pw * height \in Nat /\ (w + 1) * ph \in Nat
      BY <1>3, <1>5, <1>6
    <3>4. pw * height <= width * ph
      BY <1>3
    <3> HIDE DEF w, h, width, height
    <3> QED
      BY <3>1, <3>2, <3>3, <3>4, <1>2
  <2> QED
    BY <2>1, <2>2, <1>4
<1>8. w * ph < (h + 2) * pw
  <2>1. w * ph <= width * ph
    BY <1>1, <1>5
  <2>2. pw * height + pw = pw * (height + 1)
    BY <1>3
  <2>3. pw * (height + 1) <= (h + 2) * pw
    BY <1>3, <1>4, <1>6
  <2> QED
    BY <2>1, <2>2, <2>3, <1>2, <1>3, <1>5, <1>6
<1>9. StreamResolution(<<pw, ph>>, maxWidth) = <<w, h>>
  BY DEF StreamResolution
<1>10. w <= Greatest(maxWidth, 2)
  BY <1>1, <1>5 DEF Greatest
<1> HIDE DEF w, h, width, height
<1> QED
  BY <1>5, <1>6, <1>7, <1>8, <1>9, <1>10

(* What DisplaySize makes of a report it does not refuse.                  *)
LEMMA LongSideFirst ==
  ASSUME NEW r, r.physical \in Reports, r.override \in Reports, DisplaySize(r) # Unreported
  PROVE  \E pw, ph \in Nat \ {0} : DisplaySize(r) = <<pw, ph>> /\ ph <= pw
<1> DEFINE size == IF r.override # Unreported THEN r.override ELSE r.physical
<1>1. size \in Reports  OBVIOUS
<1>2. DisplaySize(r) = IF size = Unreported \/ 0 \in {size[1], size[2]} THEN Unreported
                       ELSE <<Greatest(size[1], size[2]), Least(size[1], size[2])>>
  BY DEF DisplaySize
<1> HIDE DEF size
<1>3. /\ size # Unreported /\ 0 \notin {size[1], size[2]}
      /\ DisplaySize(r) = <<Greatest(size[1], size[2]), Least(size[1], size[2])>>
  BY <1>2
<1>4. PICK a \in Nat, b \in Nat : size = <<a, b>>  BY <1>1, <1>3 DEF Reports
<1>5. size[1] = a /\ size[2] = b  BY <1>4
<1>6. DisplaySize(r) = <<Greatest(a, b), Least(a, b)>> /\ a # 0 /\ b # 0  BY <1>3, <1>5
<1>7. /\ Greatest(a, b) \in Nat \ {0} /\ Least(a, b) \in Nat \ {0}
      /\ Least(a, b) <= Greatest(a, b)
  BY <1>6 DEF Greatest, Least
<1> QED  BY <1>6, <1>7

(* The rotation control turns the app upright when run() swaps the axes.   *)
Degrees == {0, 90, 180, 270}
Sideways(rotation) == rotation \in {90, 270}
TurnedTo(rotation) == Orientations[Rotation(rotation).value + 1]
Upright(to) == to \in {"portrait", "reverse portrait"}

LEMMA TurnedUpright ==
  ASSUME NEW rotation \in Degrees
  PROVE  Sideways(rotation) <=> Upright(TurnedTo(rotation))
<1> USE DEF Degrees
<1> DEFINE turned == rotation \in {90, 270}
           number == Rotation(rotation).value + 1
           to == Orientations[number]
<1>1. (turned => number = 2 \/ number = 4) /\ (~turned => number = 1 \/ number = 3)
  <2> DEFINE turn == rotation \div 90
  <2>1. number = turn + 1  BY DEF Rotation
  <2>2. turn \in Nat /\ 90 * turn <= rotation /\ rotation < 90 * turn + 90
    BY QuotientBounds
  <2> HIDE DEF turn, number
  <2> QED  BY <2>1, <2>2
<1>2. /\ Orientations[1] = "landscape" /\ Orientations[2] = "portrait"
      /\ Orientations[3] = "reverse landscape" /\ Orientations[4] = "reverse portrait"
  BY DEF Orientations
<1> HIDE DEF turned, number
<1>3. turned => to = "portrait" \/ to = "reverse portrait"  BY ONLY <1>1, <1>2, Zenon
<1>4. ~turned => to = "landscape" \/ to = "reverse landscape"  BY ONLY <1>1, <1>2, Zenon
<1>5. to = TurnedTo(rotation) /\ (turned <=> Sideways(rotation))
  BY ONLY Zenon DEF TurnedTo, Sideways, turned, number
<1> HIDE DEF to
<1>6. turned <=> Upright(to)  BY ONLY <1>3, <1>4, Zenon DEF Upright
<1> QED  BY ONLY <1>5, <1>6, Zenon

(* The panel's size, scaled and turned, fits the panel: for every report   *)
(* of `wm size`, every --max-width and every rotation, the header's sixteen*)
(* bits hold the axes of a screen that has the panel's aspect and lies as  *)
(* the rotation control turns the app.                                     *)
LEMMA ScaledFits ==
  ASSUME MaxWidth \in Nat, NEW r, r.physical \in Reports, r.override \in Reports,
         DisplaySize(r) # Unreported, Least(DisplaySize(r)[1], MaxWidth) < 65536,
         NEW rotation \in Degrees, NEW fps \in Nat
  PROVE  LET sent == StreamSize(NotGiven, DisplaySize(r), MaxWidth, rotation)
             header == HeaderOf(sent, fps)
         IN  /\ sent = <<header.width, header.height>>
             /\ Fits(DisplaySize(r), header.width, header.height, TurnedTo(rotation))
<1>1. PICK pw, ph \in Nat \ {0} : DisplaySize(r) = <<pw, ph>> /\ ph <= pw
  BY LongSideFirst
<1> DEFINE size == StreamResolution(<<pw, ph>>, MaxWidth)
           w == size[1]
           h == size[2]
<1>2. /\ w \in Nat /\ w % 2 = 0 /\ w >= 2 /\ w <= Greatest(MaxWidth, 2)
      /\ h \in Nat /\ h % 2 = 0 /\ h >= 2
      /\ h * pw <= (w + 1) * ph \/ h = 2
      /\ w * ph < (h + 2) * pw
  BY StreamFits
<1>3. w <= Greatest(Least(pw, MaxWidth), 2)
  <2> DEFINE width == Greatest(Least(pw, MaxWidth), 2)
  <2>1. size = <<Align2(width), Align2(Greatest((width * ph) \div pw, 2))>>
    BY DEF StreamResolution
  <2>2. w = Align2(width)  BY <2>1
  <2>3. width \in Nat /\ width >= 2  BY DEF Greatest, Least
  <2> HIDE DEF width, size
  <2>4. Align2(width) \in 2 .. width  BY <2>3, Align2Even
  <2> QED  BY <2>2, <2>3, <2>4 DEF width
<1>0. size = <<w, h>>  BY DEF StreamResolution
<1> HIDE DEF size
<1>4. w < 65536
  <2>1. Least(pw, MaxWidth) < 65536  BY <1>1
  <2>2. Greatest(Least(pw, MaxWidth), 2) < 65536  BY <2>1 DEF Greatest, Least
  <2>3. Greatest(Least(pw, MaxWidth), 2) \in Nat  BY DEF Greatest, Least
  <2> QED  BY <1>2, <1>3, <2>2, <2>3
<1>5. h < 65536
  <2>1. CASE h = 2  BY <2>1
  <2>2. CASE h * pw <= (w + 1) * ph
    <3>1. (w + 1) * ph <= (w + 1) * pw  BY <1>1, <1>2
    <3>2. h * pw <= (w + 1) * pw
      <4>1. h * pw \in Nat /\ (w + 1) * ph \in Nat /\ (w + 1) * pw \in Nat  BY <1>2
      <4> HIDE DEF w, h
      <4> QED  BY <2>2, <3>1, <4>1
    <3>3. h <= w + 1  BY <1>2, <3>2
    <3>4. w + 1 < 65536  BY <1>2, <1>4
    <3> HIDE DEF w, h
    <3> QED  BY <1>2, <3>3, <3>4
  <2> QED  BY <1>2, <2>1, <2>2
<1>6. w % 65536 = w /\ h % 65536 = h  BY <1>2, <1>4, <1>5
<1>7. h * pw < (w + 2) * ph \/ h = 2
  <2>1. (w + 1) * ph < (w + 2) * ph  BY <1>2
  <2>2. h * pw \in Nat /\ (w + 1) * ph \in Nat /\ (w + 2) * ph \in Nat  BY <1>2
  <2> HIDE DEF w, h
  <2> QED  BY <1>2, <2>1, <2>2
<1> DEFINE turned == Sideways(rotation)
           to == TurnedTo(rotation)
           sent == StreamSize(NotGiven, DisplaySize(r), MaxWidth, rotation)
           header == HeaderOf(sent, fps)
<1>9. turned <=> to \in {"portrait", "reverse portrait"}
  <2>1. turned <=> Upright(to)  BY ONLY rotation \in Degrees, TurnedUpright, Zenon
  <2> HIDE DEF turned, to
  <2> QED  BY ONLY <2>1, Zenon DEF Upright
<1>10. DisplaySize(r)[1] = pw /\ DisplaySize(r)[2] = ph  BY <1>1
<1>11. sent = IF turned THEN <<h, w>> ELSE size  BY <1>1 DEF StreamSize, NotGiven, Sideways, size
<1>12. header.width = sent[1] % 65536 /\ header.height = sent[2] % 65536
  <2> HIDE DEF sent
  <2> QED  BY SMT DEF HeaderOf
<1>13. /\ turned => header.width = h /\ header.height = w
       /\ ~turned => header.width = w /\ header.height = h
       /\ sent = <<header.width, header.height>>
  <2> HIDE DEF header, sent, turned
  <2>1. CASE turned
    <3>1. sent = <<h, w>>  BY <1>11, <2>1
    <3>2. sent[1] = h /\ sent[2] = w  BY ONLY <3>1
    <3>3. header.width = h /\ header.height = w  BY ONLY <1>6, <1>12, <3>2, SMT
    <3> QED  BY ONLY <2>1, <3>1, <3>3, Zenon
  <2>2. CASE ~turned
    <3>1. sent[1] = w /\ sent[2] = h /\ sent = <<w, h>>
      <4>1. size = <<w, h>>  BY <1>0 DEF w, h
      <4> QED  BY <1>11, <2>2, <4>1
    <3>2. header.width = w /\ header.height = h  BY ONLY <1>6, <1>12, <3>1, SMT
    <3> QED  BY ONLY <2>2, <3>1, <3>2, Zenon
  <2> QED  BY ONLY <2>1, <2>2, Zenon
<1> HIDE DEF turned, to, sent, header, w, h
<1>14. Fits(DisplaySize(r), header.width, header.height, to)
  <2> DEFINE long  == IF turned THEN header.height ELSE header.width
             short == IF turned THEN header.width ELSE header.height
             panel == DisplaySize(r)
  <2>1. long = w /\ short = h  BY ONLY <1>13, Zenon
  <2>2. Fits(panel, header.width, header.height, to) <=>
          /\ long % 2 = 0 /\ short % 2 = 0 /\ long > 0 /\ short > 0
          /\ long <= Greatest(MaxWidth, 2) /\ panel[1] >= panel[2]
          /\ (long + 2) * panel[2] > short * panel[1] \/ short = 2
          /\ (short + 2) * panel[1] > long * panel[2]
    <3> HIDE DEF panel
    <3>1. CASE turned
      <4>1. to \in {"portrait", "reverse portrait"}  BY ONLY <1>9, <3>1, Zenon
      <4>2. long = header.height /\ short = header.width  BY ONLY <3>1, Zenon
      <4> HIDE DEF long, short
      <4> QED  BY ONLY <4>1, <4>2, Zenon DEF Fits
    <3>2. CASE ~turned
      <4>1. ~(to \in {"portrait", "reverse portrait"})  BY ONLY <1>9, <3>2, Zenon
      <4>2. long = header.width /\ short = header.height  BY ONLY <3>2, Zenon
      <4> HIDE DEF long, short
      <4> QED  BY ONLY <4>1, <4>2, Zenon DEF Fits
    <3> QED  BY ONLY <3>1, <3>2, Zenon
  <2>3. panel[1] = pw /\ panel[2] = ph  BY <1>10
  <2> HIDE DEF long, short, panel
  <2>4. /\ w > 0 /\ h > 0 /\ pw >= ph  BY <1>1, <1>2
  <2>5. (w + 2) * ph > h * pw \/ h = 2
    <3>1. h * pw \in Int /\ (w + 2) * ph \in Int  BY <1>2
    <3> QED  BY ONLY <1>7, <3>1, SMT
  <2>6. (h + 2) * pw > w * ph
    <3>1. (h + 2) * pw \in Int /\ w * ph \in Int  BY <1>2
    <3> QED  BY ONLY <1>2, <3>1, SMT
  <2>7. w % 2 = 0 /\ h % 2 = 0 /\ w <= Greatest(MaxWidth, 2)  BY <1>2
  <2> QED  BY ONLY <2>1, <2>2, <2>3, <2>4, <2>5, <2>6, <2>7, Zenon DEF panel
<1> QED  BY ONLY <1>13, <1>14, Zenon DEF to, header, sent

----------------------------------------------------------------------------
(* A touch lands where the finger is, whatever the tablet's surface: the   *)
(* fixed-point fraction fits its sixteen bits, the axis value its range,   *)
(* and the two roundings together move the contact by a quarter of a unit  *)
(* one way and less than a unit and a quarter the other.                   *)
THEOREM TouchLands ==
  ASSUME NEW pos \in Int
  PROVE  /\ ToFixed(pos) \in Nat /\ ToFixed(pos) <= 65535
         /\ ScaleToRange(ToFixed(pos)) \in Nat /\ ScaleToRange(ToFixed(pos)) <= AbsRange
         /\ LandsAt(ScaleToRange(ToFixed(pos)), pos)
<1> DEFINE units == SurfaceUnits
           c == Clamp(pos, 0, SurfaceUnits)
           v == (131070 * c + units) \div (2 * units)
           axis == (v * 32767) \div 65535
<1>1. units \in Nat \ {0} /\ c \in 0 .. units
  BY SurfaceAssumption DEF Clamp, Greatest, Least
<1>2. ToFixed(pos) = v  BY <1>1, SMT DEF ToFixed
<1>3. ScaleToRange(v) = axis  BY SMT DEF ScaleToRange, AbsRange
<1>4. LandsAt(axis, pos) <=> /\ 4 * axis * units <= 4 * (c * 32767) + units
                             /\ 4 * (c * 32767) < (4 * axis + 5) * units
  BY SMT DEF LandsAt, AbsRange
<1> HIDE DEF units, c
<1>5. /\ v \in Nat /\ (2 * units) * v <= 131070 * c + units
      /\ 131070 * c + units < (2 * units) * v + 2 * units
  <2> DEFINE a == 131070 * c + units
             b == 2 * units
  <2>1. a \in Nat /\ b \in Nat \ {0}  BY <1>1, SMT
  <2> HIDE DEF a, b
  <2>2. a \div b \in Nat /\ b * (a \div b) <= a /\ a < b * (a \div b) + b
    BY <2>1, QuotientBounds
  <2> QED  BY <2>2, SMT DEF a, b
<1> HIDE DEF v
<1>6. axis \in Nat /\ 65535 * axis <= v * 32767 /\ v * 32767 < 65535 * axis + 65535
  <2> DEFINE a == v * 32767
             b == 65535
  <2>1. a \in Nat /\ b \in Nat \ {0}  BY <1>5, SMT
  <2> HIDE DEF a, b
  <2>2. a \div b \in Nat /\ b * (a \div b) <= a /\ a < b * (a \div b) + b
    BY <2>1, QuotientBounds
  <2> QED  BY <2>2, SMT DEF a, b
<1> HIDE DEF axis
<1> DEFINE A == axis * units
           V == v * units
<1>7. A \in Nat /\ V \in Nat  BY <1>1, <1>5, <1>6, SMT
<1>8. 2 * V <= 131070 * c + units /\ 131070 * c + units < 2 * V + 2 * units
  <2>1. (2 * units) * v = 2 * V  BY <1>1, <1>5, SMT
  <2> HIDE DEF V
  <2> QED  BY <1>5, <2>1, SMT
<1>9. 65535 * A <= 32767 * V /\ 32767 * V < 65535 * A + 65535 * units
  <2> DEFINE d == v * 32767 - 65535 * axis
  <2>1. d \in Int /\ d >= 0 /\ d < 65535  BY <1>5, <1>6, SMT
  <2>2. d * units = 32767 * V - 65535 * A  BY <1>1, <1>5, <1>6, SMT
  <2> HIDE DEF d, A, V
  <2>3. d * units >= 0 /\ d * units < 65535 * units  BY <1>1, <2>1, SMT
  <2>4. d * units \in Int  BY <1>1, <2>1, SMT
  <2> QED  BY <1>1, <1>7, <2>2, <2>3, <2>4, SMT
<1>10. v <= 65535
  <2>1. 2 * V <= 131071 * units  BY <1>1, <1>7, <1>8, SMT
  <2>2. CASE v >= 65536
    <3>1. v * units >= 65536 * units  BY <1>1, <1>5, <2>2, SMT
    <3> HIDE DEF V
    <3>2. V >= 65536 * units  BY <3>1, SMT DEF V
    <3> QED  BY <1>1, <1>7, <2>1, <3>2, SMT
  <2> QED  BY <1>5, <2>2, SMT
<1>11. axis <= 32767  BY <1>5, <1>6, <1>10, SMT
<1>12. 4 * axis * units = 4 * A /\ (4 * axis + 5) * units = 4 * A + 5 * units
  BY <1>1, <1>6, SMT
<1> HIDE DEF A, V
<1>13. 4 * A <= 4 * (c * 32767) + units  BY <1>1, <1>7, <1>8, <1>9, SMT
<1>14. 4 * (c * 32767) < 4 * A + 5 * units  BY <1>1, <1>7, <1>8, <1>9, SMT
<1>15. LandsAt(axis, pos)  BY <1>4, <1>12, <1>13, <1>14, SMT
<1>16. axis <= AbsRange  BY ONLY <1>11, SMT DEF AbsRange
<1> QED  BY ONLY <1>2, <1>3, <1>5, <1>6, <1>10, <1>15, <1>16, SMT

----------------------------------------------------------------------------
(* Induction over the naturals for a set of them.                          *)
LEMMA SetInduction ==
  ASSUME NEW T, T \subseteq Nat, 0 \in T, \A n \in T : n + 1 \in T
  PROVE  T = Nat
<1> SUFFICES ASSUME Nat \ T # {} PROVE FALSE  OBVIOUS
<1> DEFINE R == OpToRel(<, Nat)
<1>1. PICK x \in Nat \ T : \A y \in Nat \ T : ~(<<y, x>> \in R)
  <2>1. IsWellFoundedOn(R, Nat)  BY NatLessThanWellFounded
  <2>2. Nat \ T \subseteq Nat  OBVIOUS
  <2> HIDE DEF R
  <2> QED  BY <2>1, <2>2, WFMin
<1>2. x # 0 /\ x - 1 \in Nat  BY SMT
<1>3. <<x - 1, x>> \in R  BY <1>2, SMT DEF OpToRel
<1>4. x - 1 \in T  BY <1>1, <1>2, <1>3
<1>5. x - 1 + 1 \in T  BY <1>4
<1> QED  BY <1>5, SMT

----------------------------------------------------------------------------
(* Byte strings.                                                           *)
LEMMA Cat ==
  ASSUME NEW S, NEW s \in Seq(S), NEW t \in Seq(S)
  PROVE  /\ s \o t \in Seq(S)
         /\ Len(s \o t) = Len(s) + Len(t)
         /\ \A i \in 1 .. Len(s) : (s \o t)[i] = s[i]
         /\ \A i \in 1 .. Len(t) : (s \o t)[Len(s) + i] = t[i]
<1>1. Len(s) \in Nat /\ Len(t) \in Nat  BY LenProperties
<1>2. /\ s \o t \in Seq(S)
      /\ Len(s \o t) = Len(s) + Len(t)
      /\ \A i \in 1 .. Len(s) + Len(t) : (s \o t)[i] = IF i <= Len(s) THEN s[i] ELSE t[i - Len(s)]
  BY ConcatProperties
<1>3. ASSUME NEW i \in 1 .. Len(s)  PROVE (s \o t)[i] = s[i]
  BY <1>1, <1>2, SMT
<1>4. ASSUME NEW i \in 1 .. Len(t)  PROVE (s \o t)[Len(s) + i] = t[i]
  <2>1. Len(s) + i \in 1 .. Len(s) + Len(t) /\ ~(Len(s) + i <= Len(s)) /\ (Len(s) + i) - Len(s) = i
    BY <1>1, SMT
  <2> QED  BY <1>2, <2>1
<1> QED  BY <1>2, <1>3, <1>4

LEMMA Cut ==
  ASSUME NEW S, NEW s \in Seq(S), NEW m \in 1 .. Len(s) + 1, NEW n \in m - 1 .. Len(s)
  PROVE  /\ SubSeq(s, m, n) \in Seq(S)
         /\ Len(SubSeq(s, m, n)) = n - m + 1
         /\ \A i \in 1 .. n - m + 1 : SubSeq(s, m, n)[i] = s[m + i - 1]
<1>1. Len(s) \in Nat  BY LenProperties
<1>2. m \in Int /\ n \in Int  BY <1>1, SMT
<1>3. \A i \in m .. n : s[i] \in S
  <2> TAKE i \in m .. n
  <2>1. i \in 1 .. Len(s)  BY <1>1, <1>2, SMT
  <2> QED  BY <2>1, ElementOfSeq
<1>4. /\ SubSeq(s, m, n) \in Seq(S)
      /\ Len(SubSeq(s, m, n)) = IF m <= n THEN n - m + 1 ELSE 0
      /\ \A i \in 1 .. n - m + 1 : SubSeq(s, m, n)[i] = s[m + i - 1]
  BY <1>2, <1>3, SubSeqProperties
<1>5. (IF m <= n THEN n - m + 1 ELSE 0) = n - m + 1  BY <1>1, <1>2, SMT
<1> QED  BY <1>4, <1>5

LEMMA ByteCat ==
  ASSUME NEW s \in Seq(Byte), NEW t \in Seq(Byte)
  PROVE  /\ s \o t \in Seq(Byte)
         /\ Len(s \o t) = Len(s) + Len(t)
         /\ \A i \in 1 .. Len(s) : (s \o t)[i] = s[i]
         /\ \A i \in 1 .. Len(t) : (s \o t)[Len(s) + i] = t[i]
BY Cat

LEMMA BytesCut ==
  ASSUME NEW s \in Seq(Byte), NEW m \in 1 .. Len(s) + 1, NEW n \in m - 1 .. Len(s)
  PROVE  /\ SubSeq(s, m, n) \in Seq(Byte)
         /\ Len(SubSeq(s, m, n)) = n - m + 1
         /\ \A i \in 1 .. n - m + 1 : SubSeq(s, m, n)[i] = s[m + i - 1]
BY Cut

LEMMA Pair ==
  ASSUME NEW s \in Seq(Byte), NEW a \in Byte, NEW b \in Byte
  PROVE  /\ s \o <<a, b>> \in Seq(Byte)
         /\ Len(s \o <<a, b>>) = Len(s) + 2
         /\ \A i \in 1 .. Len(s) : (s \o <<a, b>>)[i] = s[i]
         /\ (s \o <<a, b>>)[Len(s) + 1] = a
         /\ (s \o <<a, b>>)[Len(s) + 2] = b
<1>1. <<a, b>> \in Seq(Byte) /\ Len(<<a, b>>) = 2 /\ <<a, b>>[1] = a /\ <<a, b>>[2] = b
  OBVIOUS
<1>2. 1 \in 1 .. 2 /\ 2 \in 1 .. 2  OBVIOUS
<1> DEFINE t == <<a, b>>
<1>3. t \in Seq(Byte) /\ Len(t) = 2 /\ t[1] = a /\ t[2] = b  BY <1>1
<1> HIDE DEF t
<1>4. /\ s \o t \in Seq(Byte)
      /\ Len(s \o t) = Len(s) + Len(t)
      /\ \A i \in 1 .. Len(s) : (s \o t)[i] = s[i]
      /\ \A i \in 1 .. Len(t) : (s \o t)[Len(s) + i] = t[i]
  BY <1>3, ByteCat
<1>5. (s \o t)[Len(s) + 1] = a /\ (s \o t)[Len(s) + 2] = b  BY ONLY <1>2, <1>3, <1>4, Zenon
<1>6. Len(s \o t) = Len(s) + 2  BY ONLY <1>3, <1>4, Zenon
<1> QED  BY ONLY <1>4, <1>5, <1>6, Zenon DEF t

LEMMA Zeroed ==
  ASSUME NEW n \in Nat
  PROVE  Zeros(n) \in Seq(Byte) /\ Len(Zeros(n)) = n /\ \A i \in 1 .. n : Zeros(n)[i] = 0
<1>1. Zeros(n) = [i \in 1 .. n |-> 0]  BY DEF Zeros
<1>2. 0 \in Byte  BY DEF Byte
<1>3. [i \in 1 .. n |-> 0] \in [1 .. n -> Byte]  BY <1>2
<1> QED  BY <1>1, <1>3

LEMMA Division ==
  ASSUME NEW a \in Nat, NEW b \in Nat \ {0}
  PROVE  a \div b \in Nat /\ a % b \in 0 .. b - 1 /\ a = b * (a \div b) + (a % b)
<1>1. a \div b \in Nat /\ a % b \in 0 .. b - 1
  OBVIOUS
<1>2. a = b * (a \div b) + (a % b)
  OBVIOUS
<1> QED  BY <1>1, <1>2

LEMMA Bytewise ==
  ASSUME NEW n \in Nat
  PROVE  n % 256 \in Byte
<1>1. n % 256 \in Nat /\ n % 256 <= 255  BY SMT
<1> QED  BY <1>1, SMT DEF Byte

(* Sixteen bits go through their two bytes, thirty-two through their four. *)
Long == {n \in Nat : n \div 16777216 < 256}

High(n) == (n \div 256) % 256
Low(n)  == n % 256

LEMMA SixteenBits ==
  ASSUME NEW n \in Word, NEW b, b[1] = High(n), b[2] = Low(n)
  PROVE  Value16(b) = n
<1>1. n \in Nat /\ n < 65536 /\ b[1] = (n \div 256) % 256 /\ b[2] = n % 256  BY SMT DEF Word, High, Low
<1>2. n \div 256 \in Nat /\ n \div 256 < 256 /\ n = 256 * (n \div 256) + (n % 256)  BY <1>1, SMT
<1>3. (n \div 256) % 256 = n \div 256  BY <1>2, SMT
<1> QED  BY <1>1, <1>2, <1>3, SMT DEF Value16

LEMMA BytesOf16 ==
  ASSUME NEW n \in Word
  PROVE  High(n) \in Byte /\ Low(n) \in Byte /\ Bytes16(n) = <<High(n), Low(n)>>
<1>1. n \in Nat  BY SMT DEF Word
<1>2. n \div 256 \in Nat  BY <1>1, SMT
<1> QED  BY <1>1, <1>2, Bytewise DEF Bytes16, High, Low

LEMMA Put16 ==
  ASSUME NEW s \in Seq(Byte), NEW n \in Word
  PROVE  /\ s \o Bytes16(n) \in Seq(Byte)
         /\ Len(s \o Bytes16(n)) = Len(s) + 2
         /\ \A i \in 1 .. Len(s) : (s \o Bytes16(n))[i] = s[i]
         /\ (s \o Bytes16(n))[Len(s) + 1] = High(n)
         /\ (s \o Bytes16(n))[Len(s) + 2] = Low(n)
<1>1. High(n) \in Byte /\ Low(n) \in Byte /\ Bytes16(n) = <<High(n), Low(n)>>  BY BytesOf16
<1> DEFINE a == High(n)
           b == Low(n)
<1>2. a \in Byte /\ b \in Byte  BY <1>1
<1> HIDE DEF a, b
<1>3. /\ s \o <<a, b>> \in Seq(Byte)
      /\ Len(s \o <<a, b>>) = Len(s) + 2
      /\ \A i \in 1 .. Len(s) : (s \o <<a, b>>)[i] = s[i]
      /\ (s \o <<a, b>>)[Len(s) + 1] = a
      /\ (s \o <<a, b>>)[Len(s) + 2] = b
  BY <1>2, Pair
<1>4. Bytes16(n) = <<a, b>>  BY <1>1 DEF a, b
<1> QED  BY ONLY <1>3, <1>4, Zenon DEF a, b

LEMMA Field16 ==
  ASSUME NEW b \in Seq(Byte), NEW k \in 1 .. Len(b) - 1, NEW n \in Word, b[k] = High(n), b[k + 1] = Low(n)
  PROVE  Value16(SubSeq(b, k, k + 1)) = n
<1>1. Len(b) \in Nat  BY LenProperties
<1>2. k \in 1 .. Len(b) + 1 /\ k + 1 \in k - 1 .. Len(b)  BY <1>1, SMT
<1> DEFINE f == SubSeq(b, k, k + 1)
<1>3. \A i \in 1 .. (k + 1) - k + 1 : f[i] = b[k + i - 1]
  BY ONLY <1>2, BytesCut, b \in Seq(Byte), Zenon
<1> HIDE DEF f
<1>4. f[1] = b[k] /\ f[2] = b[k + 1]  BY ONLY <1>1, <1>2, <1>3, SMT
<1>5. Value16(f) = n  BY ONLY <1>4, SixteenBits, n \in Word, b[k] = High(n), b[k + 1] = Low(n), Zenon
<1> QED  BY ONLY <1>5, Zenon DEF f


(* The app reads from the sixteen bytes of a stream header the size and    *)
(* the rate that the host encoded, whatever they are, or refuses it for    *)
(* its version or its codec.                                               *)
THEOREM StreamHeaderRead ==
  ASSUME NEW h,
         h.version \in Word, h.width \in Word, h.height \in Word, h.framerate \in Word,
         h.codec \in Byte
  PROVE  /\ EncodeStreamHeader(h) \in Seq(Byte)
         /\ Len(EncodeStreamHeader(h)) = 16
         /\ ReadStreamHeader(EncodeStreamHeader(h)) =
              IF h.version # Version \/ h.codec > 1 THEN Refused
              ELSE [kind |-> "stream", width |-> h.width, height |-> h.height,
                    framerate |-> h.framerate, mime |-> Codecs[h.codec + 1]]
<1> DEFINE s1 == Magic \o Bytes16(h.version)
           s2 == s1 \o Bytes16(h.width)
           s3 == s2 \o Bytes16(h.height)
           s4 == s3 \o Bytes16(h.framerate)
           s5 == s4 \o <<h.codec>>
           b  == s5 \o Zeros(3)
<1>0. EncodeStreamHeader(h) = b  BY DEF EncodeStreamHeader
<1>1. Magic \in Seq(Byte) /\ Len(Magic) = 4  BY DEF Magic, Byte
<1> HIDE DEF b, s5, s4, s3, s2, s1
<1>2. /\ s1 \in Seq(Byte) /\ Len(s1) = 6 /\ \A i \in 1 .. 4 : s1[i] = Magic[i]
      /\ s1[5] = High(h.version) /\ s1[6] = Low(h.version)
  <2>1. /\ s1 \in Seq(Byte) /\ Len(s1) = Len(Magic) + 2 /\ \A i \in 1 .. Len(Magic) : s1[i] = Magic[i]
        /\ s1[Len(Magic) + 1] = High(h.version) /\ s1[Len(Magic) + 2] = Low(h.version)
    BY ONLY <1>1, Put16, h.version \in Word, Zenon DEF s1
  <2> QED  BY ONLY <1>1, <2>1, SMT
<1>3. /\ s2 \in Seq(Byte) /\ Len(s2) = 8 /\ \A i \in 1 .. 6 : s2[i] = s1[i]
      /\ s2[7] = High(h.width) /\ s2[8] = Low(h.width)
  <2>1. /\ s2 \in Seq(Byte) /\ Len(s2) = Len(s1) + 2 /\ \A i \in 1 .. Len(s1) : s2[i] = s1[i]
        /\ s2[Len(s1) + 1] = High(h.width) /\ s2[Len(s1) + 2] = Low(h.width)
    BY ONLY <1>2, Put16, h.width \in Word, Zenon DEF s2
  <2> QED  BY ONLY <1>2, <2>1, SMT
<1>4. /\ s3 \in Seq(Byte) /\ Len(s3) = 10 /\ \A i \in 1 .. 8 : s3[i] = s2[i]
      /\ s3[9] = High(h.height) /\ s3[10] = Low(h.height)
  <2>1. /\ s3 \in Seq(Byte) /\ Len(s3) = Len(s2) + 2 /\ \A i \in 1 .. Len(s2) : s3[i] = s2[i]
        /\ s3[Len(s2) + 1] = High(h.height) /\ s3[Len(s2) + 2] = Low(h.height)
    BY ONLY <1>3, Put16, h.height \in Word, Zenon DEF s3
  <2> QED  BY ONLY <1>3, <2>1, SMT
<1>5. /\ s4 \in Seq(Byte) /\ Len(s4) = 12 /\ \A i \in 1 .. 10 : s4[i] = s3[i]
      /\ s4[11] = High(h.framerate) /\ s4[12] = Low(h.framerate)
  <2>1. /\ s4 \in Seq(Byte) /\ Len(s4) = Len(s3) + 2 /\ \A i \in 1 .. Len(s3) : s4[i] = s3[i]
        /\ s4[Len(s3) + 1] = High(h.framerate) /\ s4[Len(s3) + 2] = Low(h.framerate)
    BY ONLY <1>4, Put16, h.framerate \in Word, Zenon DEF s4
  <2> QED  BY ONLY <1>4, <2>1, SMT
<1>6. s5 \in Seq(Byte) /\ Len(s5) = 13 /\ (\A i \in 1 .. 12 : s5[i] = s4[i]) /\ s5[13] = h.codec
  <2> DEFINE t == <<h.codec>>
  <2>1. t \in Seq(Byte) /\ Len(t) = 1 /\ t[1] = h.codec  OBVIOUS
  <2> HIDE DEF t
  <2>2. /\ s4 \o t \in Seq(Byte) /\ Len(s4 \o t) = Len(s4) + Len(t) /\ \A i \in 1 .. Len(s4) : (s4 \o t)[i] = s4[i]
        /\ \A i \in 1 .. Len(t) : (s4 \o t)[Len(s4) + i] = t[i]
    BY ONLY <1>5, <2>1, ByteCat, Zenon
  <2>3. s5 = s4 \o t  BY DEF s5, t
  <2>4. /\ s5 \in Seq(Byte) /\ Len(s5) = Len(s4) + Len(t) /\ \A i \in 1 .. Len(s4) : s5[i] = s4[i]
        /\ \A i \in 1 .. Len(t) : s5[Len(s4) + i] = t[i]
    BY ONLY <2>2, <2>3, Zenon
  <2> QED  BY ONLY <1>5, <2>1, <2>4, SMT
<1>7. b \in Seq(Byte) /\ Len(b) = 16 /\ \A i \in 1 .. 13 : b[i] = s5[i]
  <2> DEFINE t == Zeros(3)
  <2>1. 3 \in Nat  OBVIOUS
  <2>2. t \in Seq(Byte) /\ Len(t) = 3  BY <2>1, Zeroed, Zenon
  <2> HIDE DEF t
  <2>3. s5 \o t \in Seq(Byte) /\ Len(s5 \o t) = Len(s5) + Len(t) /\ \A i \in 1 .. Len(s5) : (s5 \o t)[i] = s5[i]
    BY ONLY <1>6, <2>2, ByteCat, Zenon
  <2>4. b = s5 \o t  BY DEF b, t
  <2>5. b \in Seq(Byte) /\ Len(b) = Len(s5) + Len(t) /\ \A i \in 1 .. Len(s5) : b[i] = s5[i]
    BY ONLY <2>3, <2>4, Zenon
  <2> QED  BY ONLY <1>6, <2>2, <2>5, SMT
<1>8. /\ \A i \in 1 .. 4 : b[i] = Magic[i]
      /\ b[5] = High(h.version) /\ b[6] = Low(h.version)
      /\ b[7] = High(h.width) /\ b[8] = Low(h.width)
      /\ b[9] = High(h.height) /\ b[10] = Low(h.height)
      /\ b[11] = High(h.framerate) /\ b[12] = Low(h.framerate)
      /\ b[13] = h.codec
  BY ONLY <1>2, <1>3, <1>4, <1>5, <1>6, <1>7, SMT
<1>9. SubSeq(b, 1, 4) = Magic
  <2> DEFINE m == 1
             n == 4
             f == SubSeq(b, m, n)
  <2>1. m \in 1 .. Len(b) + 1 /\ n \in m - 1 .. Len(b)  BY ONLY <1>7, SMT
  <2>2. SubSeq(b, 1, 4) = f  OBVIOUS
  <2> HIDE DEF m, n
  <2>3. f \in Seq(Byte) /\ Len(f) = n - m + 1 /\ \A i \in 1 .. n - m + 1 : f[i] = b[m + i - 1]
    BY ONLY <1>7, <2>1, BytesCut, Zenon
  <2> HIDE DEF f
  <2>4. Len(f) = Len(Magic) /\ \A i \in 1 .. Len(Magic) : f[i] = Magic[i]
    BY ONLY <1>1, <1>8, <2>3, SMT DEF m, n
  <2>5. f = Magic  BY ONLY <1>1, <2>3, <2>4, SeqEqual, Zenon
  <2> QED  BY ONLY <2>2, <2>5, Zenon
<1>10. /\ Value16(SubSeq(b, 5, 6)) = h.version /\ Value16(SubSeq(b, 7, 8)) = h.width
       /\ Value16(SubSeq(b, 9, 10)) = h.height /\ Value16(SubSeq(b, 11, 12)) = h.framerate
  <2>1. 5 \in 1 .. Len(b) - 1 /\ 7 \in 1 .. Len(b) - 1 /\ 9 \in 1 .. Len(b) - 1 /\ 11 \in 1 .. Len(b) - 1
    BY <1>7, SMT
  <2>2. Value16(SubSeq(b, 5, 5 + 1)) = h.version
    <3>1. b[5 + 1] = Low(h.version)  BY ONLY <1>8, SMT
    <3> QED  BY ONLY <1>7, <1>8, <2>1, <3>1, Field16, h.version \in Word, Zenon
  <2>3. Value16(SubSeq(b, 7, 7 + 1)) = h.width
    <3>1. b[7 + 1] = Low(h.width)  BY ONLY <1>8, SMT
    <3> QED  BY ONLY <1>7, <1>8, <2>1, <3>1, Field16, h.width \in Word, Zenon
  <2>4. Value16(SubSeq(b, 9, 9 + 1)) = h.height
    <3>1. b[9 + 1] = Low(h.height)  BY ONLY <1>8, SMT
    <3> QED  BY ONLY <1>7, <1>8, <2>1, <3>1, Field16, h.height \in Word, Zenon
  <2>5. Value16(SubSeq(b, 11, 11 + 1)) = h.framerate
    <3>1. b[11 + 1] = Low(h.framerate)  BY ONLY <1>8, SMT
    <3> QED  BY ONLY <1>7, <1>8, <2>1, <3>1, Field16, h.framerate \in Word, Zenon
  <2>6. 5 + 1 = 6 /\ 7 + 1 = 8 /\ 9 + 1 = 10 /\ 11 + 1 = 12  OBVIOUS
  <2> QED  BY ONLY <2>2, <2>3, <2>4, <2>5, <2>6, Zenon
<1>11. b[13] + 1 \notin DOMAIN Codecs <=> h.codec > 1
  <2>1. DOMAIN Codecs = 1 .. 2  BY DEF Codecs
  <2>2. h.codec \in Nat  BY DEF Byte
  <2> QED  BY <1>8, <2>1, <2>2, SMT
<1>12. ReadStreamHeader(b) =
         IF h.version # Version \/ h.codec > 1 THEN Refused
         ELSE [kind |-> "stream", width |-> h.width, height |-> h.height,
               framerate |-> h.framerate, mime |-> Codecs[h.codec + 1]]
  <2>1. b[13] + 1 = h.codec + 1  BY <1>8
  <2> QED  BY ONLY <1>9, <1>10, <1>11, <2>1, Zenon DEF ReadStreamHeader
<1> QED  BY ONLY <1>0, <1>7, <1>12, Zenon

(* Thirty-two bits as four bytes.                                          *)
Quarter1(n) == (n \div 16777216) % 256
Quarter2(n) == (n \div 65536) % 256
Quarter3(n) == (n \div 256) % 256
Quarter4(n) == n % 256

LEMMA BytesOf32 ==
  ASSUME NEW n \in Long
  PROVE  /\ Bytes32(n) \in Seq(Byte) /\ Len(Bytes32(n)) = 4
         /\ Bytes32(n)[1] = Quarter1(n) /\ Bytes32(n)[2] = Quarter2(n)
         /\ Bytes32(n)[3] = Quarter3(n) /\ Bytes32(n)[4] = Quarter4(n)
<1>1. n \in Nat  BY SMT DEF Long
<1>2. n \div 16777216 \in Nat /\ n \div 65536 \in Nat /\ n \div 256 \in Nat  BY <1>1, SMT
<1>3. Quarter1(n) \in Byte /\ Quarter2(n) \in Byte /\ Quarter3(n) \in Byte /\ Quarter4(n) \in Byte
  BY <1>1, <1>2, Bytewise, SMT DEF Quarter1, Quarter2, Quarter3, Quarter4
<1>4. Bytes32(n) = <<Quarter1(n), Quarter2(n), Quarter3(n), Quarter4(n)>>
  BY SMT DEF Bytes32, Quarter1, Quarter2, Quarter3, Quarter4
<1> QED  BY ONLY <1>3, <1>4, SMT

LEMMA Field32 ==
  ASSUME NEW b \in Seq(Byte), Len(b) >= 4, NEW n \in Long,
         b[1] = Quarter1(n), b[2] = Quarter2(n), b[3] = Quarter3(n), b[4] = Quarter4(n)
  PROVE  Value32(SubSeq(b, 1, 4)) = n
<1>1. Len(b) \in Nat  BY LenProperties
<1>2. 1 \in 1 .. Len(b) + 1 /\ 4 \in 1 - 1 .. Len(b)  BY <1>1, SMT
<1>3. \A i \in 1 .. 4 - 1 + 1 : SubSeq(b, 1, 4)[i] = b[1 + i - 1]
  BY ONLY <1>2, BytesCut, b \in Seq(Byte), SMT
<1>4. /\ SubSeq(b, 1, 4)[1] = b[1] /\ SubSeq(b, 1, 4)[2] = b[2]
      /\ SubSeq(b, 1, 4)[3] = b[3] /\ SubSeq(b, 1, 4)[4] = b[4]
  BY ONLY <1>3, SMT
<1>5. n \in Nat /\ n \div 16777216 < 256  BY SMT DEF Long
<1>6. n \div 16777216 \in Nat /\ (n \div 16777216) % 256 = n \div 16777216  BY ONLY <1>5, SMT
<1>7. n \div 65536 = 256 * (n \div 16777216) + ((n \div 65536) % 256)  BY ONLY <1>5, SMT
<1>8. n \div 256 = 256 * (n \div 65536) + ((n \div 256) % 256)  BY ONLY <1>5, SMT
<1>9. n = 256 * (n \div 256) + (n % 256)  BY ONLY <1>5, SMT
<1>10. Value32(SubSeq(b, 1, 4)) = 16777216 * b[1] + 65536 * b[2] + 256 * b[3] + b[4]
  BY ONLY <1>4, SMT DEF Value32
<1>11. /\ b[1] = (n \div 16777216) % 256 /\ b[2] = (n \div 65536) % 256
       /\ b[3] = (n \div 256) % 256 /\ b[4] = n % 256
  BY SMT DEF Quarter1, Quarter2, Quarter3, Quarter4
<1> QED  BY ONLY <1>5, <1>6, <1>7, <1>8, <1>9, <1>10, <1>11, SMT

(* A function on an initial segment of the naturals is a string.           *)
LEMMA Listed ==
  ASSUME NEW S, NEW k \in Nat, NEW f \in [1 .. k -> S]
  PROVE  f \in Seq(S) /\ Len(f) = k
OBVIOUS

LEMMA Stamped ==
  ASSUME NEW f \in Stamps
  PROVE  f \in Seq(Byte) /\ Len(f) = 8
<1> DEFINE k == 8
<1>1. k \in Nat /\ f \in [1 .. k -> Byte]  BY DEF Stamps
<1> HIDE DEF k
<1>2. f \in Seq(Byte) /\ Len(f) = k  BY ONLY <1>1, Listed, Zenon
<1> QED  BY <1>2 DEF k

(* The app reads from a frame header the length, the timestamp and the     *)
(* flags that the host encoded, and refuses a frame of more than           *)
(* MAX_FRAME_BYTES, only for that.                                         *)
THEOREM FrameHeaderRead ==
  ASSUME NEW length \in Long, NEW pts \in Stamps, NEW keyframe \in BOOLEAN, NEW control \in BOOLEAN
  PROVE  LET b == EncodeFrameHeader(length, pts, keyframe, control)
         IN  /\ b \in Seq(Byte) /\ Len(b) = 16
             /\ ReadFrameHeader(b) =
                  IF length > MaxFrameBytes THEN Refused
                  ELSE [kind |-> "frame", length |-> length, pts |-> pts, keyframe |-> keyframe, control |-> control]
<1> DEFINE flags == (IF keyframe THEN 1 ELSE 0) + (IF control THEN 2 ELSE 0)
           s1 == Bytes32(length)
           s2 == s1 \o pts
           s3 == s2 \o <<flags>>
           b  == s3 \o Zeros(3)
<1>0. EncodeFrameHeader(length, pts, keyframe, control) = b  BY DEF EncodeFrameHeader
<1>1. flags \in Byte /\ (flags % 2 = 1 <=> keyframe) /\ ((flags \div 2) % 2 = 1 <=> control)
  <2>1. 0 \in Byte /\ 1 \in Byte /\ 2 \in Byte /\ 3 \in Byte  BY DEF Byte
  <2>2. CASE keyframe /\ control
    <3>1. flags = 3  BY <2>2
    <3> QED  BY <2>1, <2>2, <3>1, SMT
  <2>3. CASE keyframe /\ ~control
    <3>1. flags = 1  BY <2>3
    <3> QED  BY <2>1, <2>3, <3>1, SMT
  <2>4. CASE ~keyframe /\ control
    <3>1. flags = 2  BY <2>4
    <3> QED  BY <2>1, <2>4, <3>1, SMT
  <2>5. CASE ~keyframe /\ ~control
    <3>1. flags = 0  BY <2>5
    <3> QED  BY <2>1, <2>5, <3>1, SMT
  <2> QED  BY <2>2, <2>3, <2>4, <2>5
<1>2. /\ s1 \in Seq(Byte) /\ Len(s1) = 4
      /\ s1[1] = Quarter1(length) /\ s1[2] = Quarter2(length)
      /\ s1[3] = Quarter3(length) /\ s1[4] = Quarter4(length)
  BY BytesOf32, Zenon
<1> HIDE DEF flags, s1, s2, s3, b
<1>3. s2 \in Seq(Byte) /\ Len(s2) = 12 /\ (\A i \in 1 .. 4 : s2[i] = s1[i]) /\ \A i \in 1 .. 8 : s2[4 + i] = pts[i]
  <2>1. pts \in Seq(Byte) /\ Len(pts) = 8  BY Stamped, Zenon
  <2>2. /\ s2 \in Seq(Byte) /\ Len(s2) = Len(s1) + Len(pts) /\ \A i \in 1 .. Len(s1) : s2[i] = s1[i]
        /\ \A i \in 1 .. Len(pts) : s2[Len(s1) + i] = pts[i]
    BY ONLY <1>2, <2>1, ByteCat, Zenon DEF s2
  <2> QED  BY ONLY <1>2, <2>1, <2>2, SMT
<1>4. s3 \in Seq(Byte) /\ Len(s3) = 13 /\ (\A i \in 1 .. 12 : s3[i] = s2[i]) /\ s3[13] = flags
  <2> DEFINE t == <<flags>>
  <2>1. t \in Seq(Byte) /\ Len(t) = 1 /\ t[1] = flags  BY <1>1
  <2> HIDE DEF t
  <2>2. /\ s2 \o t \in Seq(Byte) /\ Len(s2 \o t) = Len(s2) + Len(t) /\ \A i \in 1 .. Len(s2) : (s2 \o t)[i] = s2[i]
        /\ \A i \in 1 .. Len(t) : (s2 \o t)[Len(s2) + i] = t[i]
    BY ONLY <1>3, <2>1, ByteCat, Zenon
  <2>3. s3 = s2 \o t  BY DEF s3, t
  <2>4. /\ s3 \in Seq(Byte) /\ Len(s3) = Len(s2) + Len(t) /\ \A i \in 1 .. Len(s2) : s3[i] = s2[i]
        /\ \A i \in 1 .. Len(t) : s3[Len(s2) + i] = t[i]
    BY ONLY <2>2, <2>3, Zenon
  <2> QED  BY ONLY <1>3, <2>1, <2>4, SMT
<1>5. b \in Seq(Byte) /\ Len(b) = 16 /\ \A i \in 1 .. 13 : b[i] = s3[i]
  <2> DEFINE t == Zeros(3)
  <2>1. 3 \in Nat  OBVIOUS
  <2>2. t \in Seq(Byte) /\ Len(t) = 3  BY <2>1, Zeroed, Zenon
  <2> HIDE DEF t
  <2>3. s3 \o t \in Seq(Byte) /\ Len(s3 \o t) = Len(s3) + Len(t) /\ \A i \in 1 .. Len(s3) : (s3 \o t)[i] = s3[i]
    BY ONLY <1>4, <2>2, ByteCat, Zenon
  <2>4. b = s3 \o t  BY DEF b, t
  <2>5. b \in Seq(Byte) /\ Len(b) = Len(s3) + Len(t) /\ \A i \in 1 .. Len(s3) : b[i] = s3[i]
    BY ONLY <2>3, <2>4, Zenon
  <2> QED  BY ONLY <1>4, <2>2, <2>5, SMT
<1>6. /\ b[1] = s1[1] /\ b[2] = s1[2] /\ b[3] = s1[3] /\ b[4] = s1[4]
      /\ \A i \in 1 .. 8 : b[4 + i] = pts[i]
      /\ b[13] = flags
  BY ONLY <1>3, <1>4, <1>5, SMT
<1>7. Value32(SubSeq(b, 1, 4)) = length
  <2>1. Len(b) >= 4  BY ONLY <1>5, SMT
  <2>2. /\ b[1] = Quarter1(length) /\ b[2] = Quarter2(length)
        /\ b[3] = Quarter3(length) /\ b[4] = Quarter4(length)
    BY ONLY <1>2, <1>6, SMT
  <2> QED  BY ONLY <1>5, <2>1, <2>2, Field32, length \in Long, Zenon
<1>8. SubSeq(b, 5, 12) = pts
  <2> DEFINE m == 5
             n == 12
             f == SubSeq(b, m, n)
  <2>1. m \in 1 .. Len(b) + 1 /\ n \in m - 1 .. Len(b)  BY ONLY <1>5, SMT
  <2>2. SubSeq(b, 5, 12) = f  OBVIOUS
  <2> HIDE DEF m, n
  <2>3. f \in Seq(Byte) /\ Len(f) = n - m + 1 /\ \A i \in 1 .. n - m + 1 : f[i] = b[m + i - 1]
    BY ONLY <1>5, <2>1, BytesCut, Zenon
  <2> HIDE DEF f
  <2>4. pts \in Seq(Byte) /\ Len(pts) = 8  BY Stamped, Zenon
  <2>5. Len(f) = Len(pts) /\ \A i \in 1 .. Len(f) : f[i] = pts[i]  BY ONLY <1>6, <2>3, <2>4, SMT DEF m, n
  <2>6. f = pts  BY ONLY <2>3, <2>4, <2>5, SeqEqual, Zenon
  <2> QED  BY ONLY <2>2, <2>6, Zenon
<1>9. ReadFrameHeader(b) =
        IF length > MaxFrameBytes THEN Refused
        ELSE [kind |-> "frame", length |-> length, pts |-> pts, keyframe |-> keyframe, control |-> control]
  <2>1. (b[13] % 2 = 1) = keyframe /\ ((b[13] \div 2) % 2 = 1) = control
    BY ONLY <1>1, <1>6, keyframe \in BOOLEAN, control \in BOOLEAN, Zenon
  <2> QED  BY ONLY <1>7, <1>8, <2>1, Zenon DEF ReadFrameHeader
<1> QED  BY ONLY <1>0, <1>5, <1>9, Zenon

(* Two bytes, one byte.                                                    *)
LEMMA Two ==
  ASSUME NEW a \in Byte, NEW b \in Byte
  PROVE  /\ <<a, b>> \in Seq(Byte) /\ Len(<<a, b>>) = 2 /\ <<a, b>>[1] = a /\ <<a, b>>[2] = b
OBVIOUS

(* A control the app knows is what it hears, any other is left out.        *)
LEMMA ControlRead ==
  ASSUME NEW c \in [id : Byte, value : Byte], c.id = 1 => c.value <= 100
  PROVE  /\ EncodeControl(c) \in Seq(Byte) /\ Len(EncodeControl(c)) = 2
         /\ LET got == HandleControl(DecodeControl(EncodeControl(c)))
                known == c.id \in {1, 2} /\ ~(c.id = 2 /\ c.value > 3)
            IN  /\ ~known => got = Dropped
                /\ known => got.kind \in {"brightness", "rotation"} /\ ControlMeans(c, got)
<1> DEFINE b == EncodeControl(c)
           d == DecodeControl(b)
           got == HandleControl(d)
<1>1. c.id \in Byte /\ c.value \in Byte  OBVIOUS
<1>2. b \in Seq(Byte) /\ Len(b) = 2 /\ b[1] = c.id /\ b[2] = c.value
  BY ONLY <1>1, Two, Zenon DEF EncodeControl
<1>3. c.id \in Nat /\ c.value \in Nat  BY <1>1, SMT DEF Byte
<1> HIDE DEF b
<1>4. ~(Len(b) < 2)  BY <1>2, SMT
<1>5. CASE c.id \notin {1, 2}
  <2>1. d = Dropped  BY ONLY <1>2, <1>5, Zenon DEF DecodeControl
  <2>2. got = Dropped  BY ONLY <2>1, Zenon DEF HandleControl
  <2> QED  BY <1>2, <1>5, <2>2 DEF b
<1>6. CASE c.id \in {1, 2}
  <2>1. d = [kind |-> "control", id |-> c.id, value |-> c.value]
    BY ONLY <1>2, <1>4, <1>6, Zenon DEF DecodeControl
  <2> HIDE DEF d
  <2>2. d # Dropped /\ d.id = c.id /\ d.value = c.value
    <3>1. d.kind = "control" /\ d.id = c.id /\ d.value = c.value  BY ONLY <2>1, SMT
    <3>2. Dropped.kind = "dropped"  BY DEF Dropped
    <3> QED  BY ONLY <3>1, <3>2, SMT
  <2>3. got = CASE d.id = 1 -> [kind |-> "brightness", percent |-> Clamp(d.value, 0, 100)]
                [] d.id = 2 /\ d.value + 1 \in DOMAIN Orientations ->
                     [kind |-> "rotation", to |-> Orientations[d.value + 1]]
                [] OTHER -> Dropped
    BY ONLY <2>2, Zenon DEF HandleControl
  <2> HIDE DEF got
  <2>4. CASE c.id = 1
    <3>1. got = [kind |-> "brightness", percent |-> Clamp(c.value, 0, 100)]
      BY ONLY <2>2, <2>3, <2>4, SMT
    <3>2. Clamp(c.value, 0, 100) = c.value
      BY ONLY <1>3, <2>4, c.id = 1 => c.value <= 100, SMT DEF Clamp, Greatest, Least
    <3>3. got = [kind |-> "brightness", percent |-> c.value]  BY ONLY <3>1, <3>2, Zenon
    <3>4. got.kind = "brightness" /\ ControlMeans(c, got)
      BY ONLY <2>4, <3>3, Zenon DEF ControlMeans
    <3>5. c.id # 2  BY <2>4
    <3> QED  BY ONLY <1>2, <1>6, <3>4, <3>5, Zenon DEF b, d, got
  <2>5. CASE c.id = 2
    <3>1. DOMAIN Orientations = 1 .. 4  BY DEF Orientations
    <3>2. c.value + 1 \in DOMAIN Orientations <=> ~(c.value > 3)  BY ONLY <1>3, <3>1, SMT
    <3>3. c.id # 1  BY <2>5
    <3>4. CASE c.value > 3
      <4>1. got = Dropped  BY ONLY <2>2, <2>3, <2>5, <3>2, <3>3, <3>4, Zenon
      <4> QED  BY ONLY <1>2, <2>5, <3>4, <4>1, Zenon DEF b, d, got
    <3>5. CASE ~(c.value > 3)
      <4>1. got = [kind |-> "rotation", to |-> Orientations[c.value + 1]]
        BY ONLY <2>2, <2>3, <2>5, <3>2, <3>3, <3>5, SMT
      <4>2. got.kind = "rotation" /\ ControlMeans(c, got)  BY ONLY <3>3, <4>1, Zenon DEF ControlMeans
      <4> QED  BY ONLY <1>2, <1>6, <3>5, <4>2, Zenon DEF b, d, got
    <3> QED  BY <3>4, <3>5
  <2> QED  BY <1>6, <2>4, <2>5
<1> QED  BY <1>5, <1>6

(* What the reader of frames makes of a message: the connection is given   *)
(* up, the message left out, or it is what was sent.                       *)
Sent == {m \in [kind : {"control"}, control : [id : Byte, value : Byte]] :
           m.control.id = 1 => m.control.value <= 100}

LEMMA VideoRead ==
  ASSUME NEW m \in Videos
  PROVE  LET s == SlicesOf(m)
             f == ReadFrameHeader(s[1])
         IN  /\ s[1] \in Seq(Byte) /\ Len(s[1]) = 16 /\ s[2] \in Seq(Byte)
             /\ Ends(m) => f = Refused
             /\ ~Ends(m) => /\ f # Refused /\ f.length = Len(s[2]) /\ ~Unknown(m)
                            /\ Handle(f, s[2]) # Dropped /\ Means(m, Handle(f, s[2]))
<1> DEFINE s == SlicesOf(m)
           length == Len(m.payload)
           h == EncodeFrameHeader(length, m.pts, m.keyframe, FALSE)
           f == ReadFrameHeader(s[1])
<1>1. /\ m.kind = "video" /\ m.payload \in Seq(Byte) /\ m.pts \in Stamps /\ m.keyframe \in BOOLEAN
      /\ m = [kind |-> "video", payload |-> m.payload, pts |-> m.pts, keyframe |-> m.keyframe]
  BY SMT DEF Videos
<1>2. length \in Long
  <2>1. length \in Nat  BY ONLY <1>1, LenProperties, SMT
  <2>2. length \div 16777216 < 256  BY SMT DEF Videos
  <2> HIDE DEF length
  <2> QED  BY ONLY <2>1, <2>2, SMT DEF Long
<1>3. s = <<h, m.payload>>  BY ONLY <1>1, Zenon DEF SlicesOf
<1> HIDE DEF s, h, length
<1>4. s[1] = h /\ s[2] = m.payload  BY ONLY <1>3, SMT
<1>5. FALSE \in BOOLEAN  OBVIOUS
<1>6. /\ h \in Seq(Byte) /\ Len(h) = 16
      /\ ReadFrameHeader(h) =
           IF length > MaxFrameBytes THEN Refused
           ELSE [kind |-> "frame", length |-> length, pts |-> m.pts, keyframe |-> m.keyframe, control |-> FALSE]
  BY ONLY <1>1, <1>2, <1>5, FrameHeaderRead, Zenon DEF h
<1>7. f = IF length > MaxFrameBytes THEN Refused
          ELSE [kind |-> "frame", length |-> length, pts |-> m.pts, keyframe |-> m.keyframe, control |-> FALSE]
  BY ONLY <1>4, <1>6, Zenon
<1>8. (Ends(m) <=> length > MaxFrameBytes) /\ ~Unknown(m)
  BY ONLY <1>1, Zenon DEF Ends, Unknown, length
<1> HIDE DEF f
<1>9. ASSUME ~Ends(m)
      PROVE  /\ f # Refused /\ f.length = Len(s[2])
             /\ Handle(f, s[2]) # Dropped /\ Means(m, Handle(f, s[2]))
  <2>1. f = [kind |-> "frame", length |-> length, pts |-> m.pts, keyframe |-> m.keyframe, control |-> FALSE]
    BY ONLY <1>7, <1>8, <1>9, Zenon
  <2>2. /\ f.kind = "frame" /\ f.length = length /\ f.pts = m.pts /\ f.keyframe = m.keyframe /\ f.control = FALSE
    BY ONLY <2>1, SMT
  <2>3. Refused.kind = "refused" /\ Dropped.kind = "dropped"  BY DEF Refused, Dropped
  <2>4. f # Refused  BY ONLY <2>2, <2>3, SMT
  <2>5. Handle(f, s[2]) = [kind |-> "video", payload |-> m.payload, pts |-> m.pts, keyframe |-> m.keyframe]
    BY ONLY <1>4, <2>2, Zenon DEF Handle
  <2>6. Handle(f, s[2]) = m  BY ONLY <1>1, <2>5, Zenon
  <2>7. m # Dropped  BY ONLY <1>1, <2>3, SMT
  <2>8. Means(m, m)  BY ONLY <1>1, Zenon DEF Means
  <2> QED  BY ONLY <1>4, <2>2, <2>4, <2>6, <2>7, <2>8, Zenon DEF length
<1> QED  BY ONLY <1>1, <1>4, <1>6, <1>7, <1>8, <1>9, Zenon DEF s, f

LEMMA SentRead ==
  ASSUME NEW m \in Sent
  PROVE  LET s == SlicesOf(m)
             f == ReadFrameHeader(s[1])
         IN  /\ s[1] \in Seq(Byte) /\ Len(s[1]) = 16 /\ s[2] \in Seq(Byte)
             /\ ~Ends(m) /\ f # Refused /\ f.length = Len(s[2])
             /\ Unknown(m) => Handle(f, s[2]) = Dropped
             /\ ~Unknown(m) => Handle(f, s[2]) # Dropped /\ Means(m, Handle(f, s[2]))
<1> DEFINE s == SlicesOf(m)
           length == 2
           h == EncodeFrameHeader(length, Zeros(8), FALSE, TRUE)
           f == ReadFrameHeader(s[1])
<1>1. /\ m.kind = "control" /\ m.control \in [id : Byte, value : Byte]
      /\ m.control.id = 1 => m.control.value <= 100
  BY SMT DEF Sent
<1>2. s = <<h, EncodeControl(m.control)>>  BY ONLY <1>1, Zenon DEF SlicesOf
<1>3. Zeros(8) \in Stamps  BY SMT DEF Stamps, Zeros, Byte
<1>4. length \in Long /\ ~(length > MaxFrameBytes)  BY LimitAssumption, SMT DEF Long
<1>5. FALSE \in BOOLEAN /\ TRUE \in BOOLEAN  OBVIOUS
<1> HIDE DEF s, h, length
<1>6. s[1] = h /\ s[2] = EncodeControl(m.control)  BY ONLY <1>2, SMT
<1>7. /\ h \in Seq(Byte) /\ Len(h) = 16
      /\ ReadFrameHeader(h) =
           IF length > MaxFrameBytes THEN Refused
           ELSE [kind |-> "frame", length |-> length, pts |-> Zeros(8), keyframe |-> FALSE, control |-> TRUE]
  BY ONLY <1>3, <1>4, <1>5, FrameHeaderRead, Zenon DEF h
<1>8. f = [kind |-> "frame", length |-> length, pts |-> Zeros(8), keyframe |-> FALSE, control |-> TRUE]
  BY ONLY <1>4, <1>6, <1>7, Zenon
<1> HIDE DEF f
<1>9. f.kind = "frame" /\ f.length = length /\ f.control = TRUE  BY ONLY <1>8, SMT
<1>10. Refused.kind = "refused" /\ Dropped.kind = "dropped"  BY DEF Refused, Dropped
<1>11. f # Refused  BY ONLY <1>9, <1>10, SMT
<1> DEFINE got == HandleControl(DecodeControl(s[2]))
           known == m.control.id \in {1, 2} /\ ~(m.control.id = 2 /\ m.control.value > 3)
<1>12. Handle(f, s[2]) = got  BY ONLY <1>9, Zenon DEF Handle
<1>13. /\ s[2] \in Seq(Byte) /\ Len(s[2]) = 2
       /\ ~known => got = Dropped
       /\ known => got.kind \in {"brightness", "rotation"} /\ ControlMeans(m.control, got)
  BY ONLY <1>1, <1>6, ControlRead, Zenon
<1>14. ~Ends(m) /\ (Unknown(m) <=> ~known)  BY ONLY <1>1, Zenon DEF Ends, Unknown
<1> HIDE DEF got, known
<1>15. ~Unknown(m) => got # Dropped /\ Means(m, got)
  <2>1. ASSUME known PROVE got # Dropped /\ Means(m, got)
    <3>1. got.kind # "dropped"  BY ONLY <1>13, <2>1, SMT
    <3>2. got # Dropped  BY ONLY <1>10, <3>1, Zenon
    <3>3. Means(m, got) = ControlMeans(m.control, got)  BY ONLY <1>1, Zenon DEF Means
    <3> QED  BY ONLY <1>13, <2>1, <3>2, <3>3, Zenon
  <2> QED  BY ONLY <1>14, <2>1, Zenon
<1>16. f.length = Len(s[2])  BY ONLY <1>9, <1>13, SMT DEF length
<1> QED  BY ONLY <1>6, <1>7, <1>11, <1>12, <1>13, <1>14, <1>15, <1>16, Zenon DEF s, f, got

(* The stream header: every record run() makes has its axes in sixteen     *)
(* bits.                                                                   *)
Announced == [kind : {"stream"}, version : Word, width : Word, height : Word, framerate : Word, codec : Byte]

LEMMA AnnouncedRead ==
  ASSUME NEW m \in Announced
  PROVE  LET s == SlicesOf(m)
             got == ReadStreamHeader(s[1])
         IN  /\ s[1] \in Seq(Byte) /\ Len(s[1]) = 16 /\ s[2] = <<>>
             /\ Ends(m) => got = Refused
             /\ ~Ends(m) => got # Refused /\ got # Dropped /\ ~Unknown(m) /\ Means(m, got)
<1> DEFINE s == SlicesOf(m)
           b == EncodeStreamHeader(m)
           got == ReadStreamHeader(s[1])
<1>1. /\ m.kind = "stream" /\ m.version \in Word /\ m.width \in Word /\ m.height \in Word
      /\ m.framerate \in Word /\ m.codec \in Byte
  BY SMT DEF Announced
<1>2. s = <<b, <<>>>>  BY ONLY <1>1, Zenon DEF SlicesOf
<1>3. /\ b \in Seq(Byte) /\ Len(b) = 16
      /\ ReadStreamHeader(b) =
           IF m.version # Version \/ m.codec > 1 THEN Refused
           ELSE [kind |-> "stream", width |-> m.width, height |-> m.height,
                 framerate |-> m.framerate, mime |-> Codecs[m.codec + 1]]
  BY ONLY <1>1, StreamHeaderRead, Zenon
<1> HIDE DEF s, b
<1>4. s[1] = b /\ s[2] = <<>>  BY ONLY <1>2, SMT
<1>5. (Ends(m) <=> (m.version # Version \/ m.codec > 1)) /\ ~Unknown(m)
  BY ONLY <1>1, Zenon DEF Ends, Unknown
<1>6. got = IF m.version # Version \/ m.codec > 1 THEN Refused
            ELSE [kind |-> "stream", width |-> m.width, height |-> m.height,
                  framerate |-> m.framerate, mime |-> Codecs[m.codec + 1]]
  BY ONLY <1>3, <1>4, Zenon
<1> HIDE DEF got
<1>7. ASSUME ~Ends(m) PROVE got # Refused /\ got # Dropped /\ Means(m, got)
  <2>1. got = [kind |-> "stream", width |-> m.width, height |-> m.height,
               framerate |-> m.framerate, mime |-> Codecs[m.codec + 1]]
    BY ONLY <1>5, <1>6, <1>7, Zenon
  <2>2. /\ got.kind = "stream" /\ got.width = m.width /\ got.height = m.height
        /\ got.framerate = m.framerate /\ got.mime = Codecs[m.codec + 1]
    BY ONLY <2>1, SMT
  <2>3. Refused.kind = "refused" /\ Dropped.kind = "dropped"  BY DEF Refused, Dropped
  <2>4. got # Refused /\ got # Dropped  BY ONLY <2>2, <2>3, SMT
  <2>5. Means(m, got)  BY ONLY <1>1, <2>2, Zenon DEF Means
  <2> QED  BY <2>4, <2>5
<1> QED  BY ONLY <1>3, <1>4, <1>5, <1>6, <1>7, Zenon DEF s, got

(* Device to host: acks, touches, and messages the host does not know.     *)
LEMMA Prefixed ==
  ASSUME NEW a \in Byte, NEW s \in Seq(Byte)
  PROVE  /\ <<a>> \o s \in Seq(Byte) /\ Len(<<a>> \o s) = Len(s) + 1
         /\ (<<a>> \o s)[1] = a
         /\ \A i \in 1 .. Len(s) : (<<a>> \o s)[i + 1] = s[i]
<1> DEFINE t == <<a>>
<1>1. t \in Seq(Byte) /\ Len(t) = 1 /\ t[1] = a  OBVIOUS
<1> HIDE DEF t
<1>2. /\ t \o s \in Seq(Byte) /\ Len(t \o s) = Len(t) + Len(s)
      /\ \A i \in 1 .. Len(t) : (t \o s)[i] = t[i]
      /\ \A i \in 1 .. Len(s) : (t \o s)[Len(t) + i] = s[i]
  BY ONLY <1>1, s \in Seq(Byte), ByteCat, Zenon
<1> DEFINE u == t \o s
<1>3. u = <<a>> \o s  BY DEF t
<1>4. /\ u \in Seq(Byte) /\ Len(u) = Len(t) + Len(s)
      /\ \A i \in 1 .. Len(t) : u[i] = t[i]
      /\ \A i \in 1 .. Len(s) : u[Len(t) + i] = s[i]
  BY <1>2
<1> HIDE DEF u
<1>5. Len(s) \in Nat  BY LenProperties
<1>6. /\ u \in Seq(Byte) /\ Len(u) = Len(s) + 1 /\ u[1] = a
      /\ \A i \in 1 .. Len(s) : u[i + 1] = s[i]
  BY ONLY <1>1, <1>4, <1>5, SMT
<1> QED  BY ONLY <1>3, <1>6, Zenon

(* The eight bytes after the type.                                         *)
LEMMA Body ==
  ASSUME NEW a \in Byte, NEW s \in Seq(Byte), Len(s) = 8
  PROVE  SubSeq(<<a>> \o s, 2, 9) = s
<1> DEFINE u == <<a>> \o s
           m == 2
           n == 9
           f == SubSeq(u, m, n)
<1>1. /\ u \in Seq(Byte) /\ Len(u) = Len(s) + 1 /\ \A i \in 1 .. Len(s) : u[i + 1] = s[i]
  BY Prefixed
<1> HIDE DEF u
<1>2. m \in 1 .. Len(u) + 1 /\ n \in m - 1 .. Len(u)  BY ONLY <1>1, Len(s) = 8, SMT
<1>3. SubSeq(u, 2, 9) = f  OBVIOUS
<1> HIDE DEF m, n
<1>4. f \in Seq(Byte) /\ Len(f) = n - m + 1 /\ \A i \in 1 .. n - m + 1 : f[i] = u[m + i - 1]
  BY ONLY <1>1, <1>2, BytesCut, Zenon
<1> HIDE DEF f
<1>5. Len(f) = Len(s) /\ \A i \in 1 .. Len(f) : f[i] = s[i]  BY ONLY <1>1, <1>4, Len(s) = 8, SMT DEF m, n
<1>6. f = s  BY ONLY <1>4, <1>5, s \in Seq(Byte), SeqEqual, Zenon
<1> QED  BY ONLY <1>3, <1>6, Zenon DEF u

LEMMA FixedFits ==
  ASSUME NEW pos \in Int
  PROVE  ToFixed(pos) \in Word /\ LandsAt(ScaleToRange(ToFixed(pos)), pos)
<1>1. ToFixed(pos) \in Nat /\ ToFixed(pos) <= 65535 /\ LandsAt(ScaleToRange(ToFixed(pos)), pos)
  BY TouchLands
<1>2. ToFixed(pos) < 65536  BY ONLY <1>1, SMT
<1> QED  BY <1>1, <1>2, SMT DEF Word

LEMMA AckRead ==
  ASSUME NEW m \in Acks
  PROVE  LET s == SlicesOf(m)
             got == DecodeReverse(s[1])
         IN  /\ s[1] \in Seq(Byte) /\ Len(s[1]) = 9 /\ s[2] = <<>>
             /\ ~Ends(m) /\ ~Unknown(m) /\ got # Dropped /\ Means(m, got)
<1> DEFINE s == SlicesOf(m)
           b == EncodeAck(m.pts)
           got == DecodeReverse(s[1])
<1>1. m.kind = "ack" /\ m.pts \in Stamps /\ m = [kind |-> "ack", pts |-> m.pts]  BY SMT DEF Acks
<1>2. m.pts \in Seq(Byte) /\ Len(m.pts) = 8  BY <1>1, Stamped
<1>3. s = <<b, <<>>>>  BY ONLY <1>1, Zenon DEF SlicesOf
<1>4. b = <<1>> \o m.pts /\ 1 \in Byte  BY DEF EncodeAck, Byte
<1> HIDE DEF s, b
<1>5. b \in Seq(Byte) /\ Len(b) = Len(m.pts) + 1 /\ b[1] = 1
  <2> DEFINE u == <<1>> \o m.pts
  <2>1. u \in Seq(Byte) /\ Len(u) = Len(m.pts) + 1 /\ u[1] = 1  BY <1>2, <1>4, Prefixed
  <2> HIDE DEF u
  <2>2. b = u  BY ONLY <1>4, Zenon DEF u
  <2> QED  BY ONLY <2>1, <2>2, Zenon
<1>6. SubSeq(b, 2, 9) = m.pts
  <2>1. SubSeq(<<1>> \o m.pts, 2, 9) = m.pts  BY <1>2, <1>4, Body
  <2> QED  BY ONLY <1>4, <2>1, Zenon
<1>7. s[1] = b /\ s[2] = <<>>  BY ONLY <1>3, SMT
<1>8. got = [kind |-> "ack", pts |-> m.pts]
  <2>0. b[1] # 2  BY ONLY <1>5, SMT
  <2>1. DecodeReverse(b) = [kind |-> "ack", pts |-> SubSeq(b, 2, 9)]
    BY ONLY <1>5, <2>0, Zenon DEF DecodeReverse
  <2> QED  BY ONLY <1>6, <1>7, <2>1, Zenon
<1> HIDE DEF got
<1>9. got = m  BY ONLY <1>1, <1>8, Zenon
<1>10. m # Dropped
  <2>1. Dropped.kind = "dropped"  BY DEF Dropped
  <2> QED  BY ONLY <1>1, <2>1, SMT
<1>11. ~Ends(m) /\ ~Unknown(m) /\ Means(m, m)  BY ONLY <1>1, Zenon DEF Ends, Unknown, Means
<1>12. Len(b) = 9  BY ONLY <1>2, <1>5, SMT
<1> QED  BY ONLY <1>5, <1>7, <1>9, <1>10, <1>11, <1>12, Zenon DEF s, got

LEMMA OtherRead ==
  ASSUME NEW m \in Others
  PROVE  LET s == SlicesOf(m)
         IN  /\ s[1] \in Seq(Byte) /\ Len(s[1]) = 9 /\ s[2] = <<>>
             /\ ~Ends(m) /\ Unknown(m) /\ DecodeReverse(s[1]) = Dropped
<1> DEFINE s == SlicesOf(m)
           z == Zeros(ReverseLen - 1)
           b == <<m.type>> \o z
<1>1. m.kind = "other" /\ m.type \in Byte /\ m.type # 1 /\ m.type # 2  BY SMT DEF Others
<1>2. z \in Seq(Byte) /\ Len(z) = ReverseLen - 1
  <2>1. ReverseLen - 1 \in Nat  BY DEF ReverseLen
  <2> QED  BY <2>1, Zeroed, Zenon
<1>3. s = <<b, <<>>>>  BY ONLY <1>1, Zenon DEF SlicesOf
<1> HIDE DEF z
<1>4. b \in Seq(Byte) /\ Len(b) = Len(z) + 1 /\ b[1] = m.type  BY ONLY <1>1, <1>2, Prefixed, Zenon
<1> HIDE DEF s, b
<1>5. s[1] = b /\ s[2] = <<>>  BY ONLY <1>3, SMT
<1>6. DecodeReverse(b) = Dropped  BY ONLY <1>1, <1>4, Zenon DEF DecodeReverse
<1>7. Len(b) = 9  BY ONLY <1>2, <1>4, SMT DEF ReverseLen
<1>8. ~Ends(m) /\ Unknown(m)  BY ONLY <1>1, Zenon DEF Ends, Unknown
<1> QED  BY ONLY <1>4, <1>5, <1>6, <1>7, <1>8, Zenon DEF s

LEMMA TouchRead ==
  ASSUME NEW m \in Touches
  PROVE  LET s == SlicesOf(m)
             got == DecodeReverse(s[1])
         IN  /\ s[1] \in Seq(Byte) /\ Len(s[1]) = 9 /\ s[2] = <<>>
             /\ ~Ends(m)
             /\ Unknown(m) => got = Dropped
             /\ ~Unknown(m) => got # Dropped /\ Means(m, got)
<1> DEFINE s == SlicesOf(m)
           fx == ToFixed(m.x)
           fy == ToFixed(m.y)
           s1 == <<2, m.action, 0>>
           s2 == s1 \o Bytes16(fx)
           s3 == s2 \o Bytes16(fy)
           b  == s3 \o Zeros(2)
           g  == SubSeq(b, 2, 9)
           got == DecodeReverse(s[1])
<1>1. m.kind = "touch" /\ m.action \in Byte /\ m.x \in Int /\ m.y \in Int  BY SMT DEF Touches
<1>2. fx \in Word /\ LandsAt(ScaleToRange(fx), m.x) /\ fy \in Word /\ LandsAt(ScaleToRange(fy), m.y)
  BY ONLY <1>1, FixedFits, Zenon
<1>3. s = <<b, <<>>>>
  <2>1. EncodeTouch(m.action, m.x, m.y) = b  BY DEF EncodeTouch
  <2> HIDE DEF b
  <2> QED  BY ONLY <1>1, <2>1, Zenon DEF SlicesOf
<1> HIDE DEF s, fx, fy
<1>4. s1 \in Seq(Byte) /\ Len(s1) = 3 /\ s1[1] = 2 /\ s1[2] = m.action
  <2>1. 2 \in Byte /\ 0 \in Byte  BY DEF Byte
  <2> QED  BY ONLY <1>1, <2>1, SMT
<1> HIDE DEF s1
<1>5. /\ s2 \in Seq(Byte) /\ Len(s2) = 5 /\ (\A i \in 1 .. 3 : s2[i] = s1[i])
      /\ s2[4] = High(fx) /\ s2[5] = Low(fx)
  <2>1. /\ s2 \in Seq(Byte) /\ Len(s2) = Len(s1) + 2 /\ \A i \in 1 .. Len(s1) : s2[i] = s1[i]
        /\ s2[Len(s1) + 1] = High(fx) /\ s2[Len(s1) + 2] = Low(fx)
    BY ONLY <1>2, <1>4, Put16, Zenon
  <2> HIDE DEF s2
  <2> QED  BY ONLY <1>4, <2>1, SMT
<1> HIDE DEF s2
<1>6. /\ s3 \in Seq(Byte) /\ Len(s3) = 7 /\ (\A i \in 1 .. 5 : s3[i] = s2[i])
      /\ s3[6] = High(fy) /\ s3[7] = Low(fy)
  <2>1. /\ s3 \in Seq(Byte) /\ Len(s3) = Len(s2) + 2 /\ \A i \in 1 .. Len(s2) : s3[i] = s2[i]
        /\ s3[Len(s2) + 1] = High(fy) /\ s3[Len(s2) + 2] = Low(fy)
    BY ONLY <1>2, <1>5, Put16, Zenon
  <2> HIDE DEF s3
  <2> QED  BY ONLY <1>5, <2>1, SMT
<1> HIDE DEF s3
<1>7. b \in Seq(Byte) /\ Len(b) = 9 /\ \A i \in 1 .. 7 : b[i] = s3[i]
  <2> DEFINE t == Zeros(2)
  <2>1. 2 \in Nat  OBVIOUS
  <2>2. t \in Seq(Byte) /\ Len(t) = 2  BY <2>1, Zeroed, Zenon
  <2>3. b = s3 \o t  OBVIOUS
  <2> HIDE DEF t, b
  <2>4. s3 \o t \in Seq(Byte) /\ Len(s3 \o t) = Len(s3) + Len(t) /\ \A i \in 1 .. Len(s3) : (s3 \o t)[i] = s3[i]
    BY ONLY <1>6, <2>2, ByteCat, Zenon
  <2>5. b \in Seq(Byte) /\ Len(b) = Len(s3) + Len(t) /\ \A i \in 1 .. Len(s3) : b[i] = s3[i]
    BY ONLY <2>3, <2>4, Zenon
  <2> QED  BY ONLY <1>6, <2>2, <2>5, SMT
<1> HIDE DEF b
<1>8. /\ b[1] = 2 /\ b[2] = m.action /\ b[4] = High(fx) /\ b[5] = Low(fx)
      /\ b[6] = High(fy) /\ b[7] = Low(fy)
  BY ONLY <1>4, <1>5, <1>6, <1>7, SMT
<1>9. /\ g \in Seq(Byte) /\ Len(g) = 8 /\ g[1] = m.action
      /\ g[3] = High(fx) /\ g[3 + 1] = Low(fx) /\ g[5] = High(fy) /\ g[5 + 1] = Low(fy)
  <2> DEFINE from == 2
             to == 9
             f == SubSeq(b, from, to)
  <2>1. from \in 1 .. Len(b) + 1 /\ to \in from - 1 .. Len(b)  BY ONLY <1>7, SMT
  <2>2. g = f  OBVIOUS
  <2> HIDE DEF from, to, g
  <2>3. f \in Seq(Byte) /\ Len(f) = to - from + 1 /\ \A i \in 1 .. to - from + 1 : f[i] = b[from + i - 1]
    BY ONLY <1>7, <2>1, BytesCut, Zenon
  <2> HIDE DEF f
  <2>4. /\ Len(f) = 8 /\ f[1] = b[2] /\ f[3] = b[4] /\ f[3 + 1] = b[5] /\ f[5] = b[6] /\ f[5 + 1] = b[7]
    BY ONLY <2>3, SMT DEF from, to
  <2> QED  BY ONLY <1>8, <2>2, <2>3, <2>4, Zenon
<1>10. DecodeReverse(b) = DecodeTouch(g)  BY ONLY <1>8, SMT DEF DecodeReverse, g
<1> HIDE DEF g
<1>11. Value16(SubSeq(g, 3, 4)) = fx /\ Value16(SubSeq(g, 5, 6)) = fy
  <2>1. 3 \in 1 .. Len(g) - 1 /\ 5 \in 1 .. Len(g) - 1  BY ONLY <1>9, SMT
  <2>2. Value16(SubSeq(g, 3, 3 + 1)) = fx  BY ONLY <1>2, <1>9, <2>1, Field16, Zenon
  <2>3. Value16(SubSeq(g, 5, 5 + 1)) = fy  BY ONLY <1>2, <1>9, <2>1, Field16, Zenon
  <2>4. 3 + 1 = 4 /\ 5 + 1 = 6  OBVIOUS
  <2> QED  BY ONLY <2>2, <2>3, <2>4, Zenon
<1>12. s[1] = b /\ s[2] = <<>>  BY ONLY <1>3, SMT
<1>13. got = IF m.action + 1 \notin DOMAIN Actions THEN Dropped
             ELSE [kind |-> "touch", action |-> Actions[m.action + 1],
                   x |-> ScaleToRange(fx), y |-> ScaleToRange(fy)]
  BY ONLY <1>9, <1>10, <1>11, <1>12, Zenon DEF DecodeTouch
<1>14. m.action + 1 \notin DOMAIN Actions <=> m.action > 3
  <2>1. DOMAIN Actions = 1 .. 4  BY DEF Actions
  <2>2. m.action \in Nat  BY ONLY <1>1, SMT DEF Byte
  <2> QED  BY ONLY <2>1, <2>2, SMT
<1>15. ~Ends(m) /\ (Unknown(m) <=> m.action > 3)  BY ONLY <1>1, Zenon DEF Ends, Unknown
<1> HIDE DEF got
<1>16. ASSUME ~Unknown(m) PROVE got # Dropped /\ Means(m, got)
  <2>1. got = [kind |-> "touch", action |-> Actions[m.action + 1],
               x |-> ScaleToRange(fx), y |-> ScaleToRange(fy)]
    BY ONLY <1>13, <1>14, <1>15, <1>16, Zenon
  <2>2. /\ got.kind = "touch" /\ got.action = Actions[m.action + 1]
        /\ got.x = ScaleToRange(fx) /\ got.y = ScaleToRange(fy)
    BY ONLY <2>1, SMT
  <2>3. Dropped.kind = "dropped"  BY DEF Dropped
  <2>4. got # Dropped  BY ONLY <2>2, <2>3, SMT
  <2>5. Means(m, got)  BY ONLY <1>1, <1>2, <2>2, Zenon DEF Means
  <2> QED  BY <2>4, <2>5
<1>17. Unknown(m) => got = Dropped  BY ONLY <1>13, <1>14, <1>15, Zenon
<1> QED  BY ONLY <1>7, <1>12, <1>15, <1>16, <1>17, Zenon DEF s, got

----------------------------------------------------------------------------
(* Functions defined by recursion over the naturals up to a bound.         *)
Steps(N, S) == [1 .. N -> [S -> S]]

Iterated(N, S, step, a) ==
  \E g \in [0 .. N -> S] : g[0] = a /\ \A n \in 1 .. N : g[n] = step[n][g[n - 1]]

LEMMA Recursion ==
  ASSUME NEW S, NEW N \in Nat, NEW step \in Steps(N, S), NEW a \in S
  PROVE  Iterated(N, S, step, a)
<1> DEFINE T == {k \in Nat : \E g \in [0 .. k -> S] :
                   g[0] = a /\ \A n \in 1 .. k : n <= N => g[n] = step[n][g[n - 1]]}
<1>0. step \in [1 .. N -> [S -> S]]  BY DEF Steps
<1>1. T \subseteq Nat  OBVIOUS
<1>2. 0 \in T
  <2> DEFINE g == [n \in 0 .. 0 |-> a]
  <2>1. g \in [0 .. 0 -> S] /\ g[0] = a /\ \A n \in 1 .. 0 : n <= N => g[n] = step[n][g[n - 1]]
    BY SMT
  <2> QED  BY <2>1
<1>3. ASSUME NEW k \in T PROVE k + 1 \in T
  <2>0. k \in Nat  BY DEF T
  <2>2. PICK g \in [0 .. k -> S] : g[0] = a /\ \A n \in 1 .. k : n <= N => g[n] = step[n][g[n - 1]]
    BY DEF T
  <2> HIDE DEF T
  <2>1. k \in Nat /\ k + 1 \in Nat  BY ONLY <2>0, SMT
  <2> DEFINE last == IF k + 1 <= N THEN step[k + 1][g[k]] ELSE a
             h == [n \in 0 .. k + 1 |-> IF n <= k THEN g[n] ELSE last]
  <2>3. g[k] \in S  BY <2>1, SMT
  <2>4. last \in S
    <3>1. CASE k + 1 <= N
      <4>1. k + 1 \in 1 .. N  BY <2>1, <3>1, SMT
      <4>3. step[k + 1][g[k]] \in S  BY <1>0, <2>3, <4>1
      <4> QED  BY <3>1, <4>3
    <3> QED  BY <3>1
  <2> HIDE DEF last
  <2>5. h \in [0 .. k + 1 -> S]
    <3>1. ASSUME NEW n \in 0 .. k + 1 PROVE (IF n <= k THEN g[n] ELSE last) \in S
      <4>1. n <= k => n \in 0 .. k  BY <2>1, SMT
      <4> QED  BY <2>4, <4>1
    <3> QED  BY <3>1
  <2>6. \A n \in 0 .. k : n \in 0 .. k + 1 /\ n <= k  BY <2>1, SMT
  <2>7. \A n \in 0 .. k : h[n] = g[n]  BY ONLY <2>6, Zenon
  <2>8. h[k + 1] = last
    <3>1. k + 1 \in 0 .. k + 1 /\ ~(k + 1 <= k)  BY <2>1, SMT
    <3> QED  BY ONLY <3>1, Zenon
  <2> HIDE DEF h
  <2>9. h[0] = a
    <3>1. 0 \in 0 .. k  BY <2>1, SMT
    <3> QED  BY <2>2, <2>7, <3>1
  <2>10. ASSUME NEW n \in 1 .. k + 1, n <= N PROVE h[n] = step[n][h[n - 1]]
    <3>1. n - 1 \in 0 .. k  BY <2>1, SMT
    <3>2. h[n - 1] = g[n - 1]  BY <2>7, <3>1
    <3>3. CASE n <= k
      <4>1. n \in 1 .. k /\ n \in 0 .. k  BY <2>1, <3>3, SMT
      <4>2. h[n] = g[n] /\ g[n] = step[n][g[n - 1]]  BY <2>2, <2>7, <2>10, <4>1
      <4> QED  BY ONLY <3>2, <4>2, Zenon
    <3>4. CASE ~(n <= k)
      <4>1. n = k + 1 /\ n - 1 = k  BY <2>1, <3>4, SMT
      <4>2. last = step[k + 1][g[k]]  BY <2>10, <4>1 DEF last
      <4> QED  BY ONLY <2>8, <3>2, <4>1, <4>2, Zenon
    <3> QED  BY <3>3, <3>4
  <2>11. \E f \in [0 .. k + 1 -> S] :
           f[0] = a /\ \A n \in 1 .. k + 1 : n <= N => f[n] = step[n][f[n - 1]]
    BY <2>5, <2>9, <2>10
  <2> QED  BY <2>1, <2>11 DEF T
<1> HIDE DEF T
<1>4. N \in T  BY <1>1, <1>2, <1>3, SetInduction
<1>5. PICK g \in [0 .. N -> S] : g[0] = a /\ \A n \in 1 .. N : n <= N => g[n] = step[n][g[n - 1]]
  BY <1>4 DEF T
<1>6. \A n \in 1 .. N : n <= N  BY SMT
<1>7. \A n \in 1 .. N : g[n] = step[n][g[n - 1]]  BY ONLY <1>5, <1>6, Zenon
<1> QED  BY <1>5, <1>7 DEF Iterated

(* The text of the first so many devices.                                  *)
LEMMA LineTyped ==
  ASSUME NEW device \in Attached
  PROVE  Line(device) \in Seq(Byte)
<1>1. device.serial \in Seq(Visible) /\ device.state \in Visible  BY DEF Attached
<1>2. device.serial \in Seq(Byte) /\ device.state \in Byte  BY <1>1 DEF Visible
<1>3. Tab \in Byte /\ Newline \in Byte  BY DEF Tab, Newline, Byte
<1>4. <<Tab, device.state, Newline>> \in Seq(Byte)  BY <1>2, <1>3
<1> QED  BY ONLY <1>2, <1>4, ByteCat, Zenon DEF Line

LEMMA LinesDef ==
  ASSUME NEW devices \in Seq(Attached)
  PROVE  /\ Lines(devices)[0] = <<>>
         /\ \A n \in 1 .. Len(devices) : Lines(devices)[n] = Lines(devices)[n - 1] \o Line(devices[n])
         /\ \A n \in 0 .. Len(devices) : Lines(devices)[n] \in Seq(Byte)
<1> DEFINE N == Len(devices)
           step == [n \in 1 .. N |-> [s \in Seq(Byte) |-> s \o Line(devices[n])]]
           Is(f) == f = [n \in 0 .. N |-> IF n = 0 THEN <<>> ELSE f[n - 1] \o Line(devices[n])]
           text == Lines(devices)
<1>1. N \in Nat  BY LenProperties
<1>2. \A n \in 1 .. N : Line(devices[n]) \in Seq(Byte)
  <2> TAKE n \in 1 .. N
  <2>1. devices[n] \in Attached  BY ElementOfSeq
  <2> QED  BY <2>1, LineTyped
<1> HIDE DEF N
<1>3. \A n \in 1 .. N : \A s \in Seq(Byte) : s \o Line(devices[n]) \in Seq(Byte)
  BY ONLY <1>2, ByteCat, Zenon
<1>4. \A n \in 1 .. N : \A s \in Seq(Byte) : step[n][s] = s \o Line(devices[n])
  BY Zenon
<1>14. step \in Steps(N, Seq(Byte))  BY ONLY <1>3, Zenon DEF Steps
<1> HIDE DEF step
<1> DEFINE nothing == <<>>
<1>5. nothing \in Seq(Byte)  OBVIOUS
<1> HIDE DEF nothing
<1>6. PICK g \in [0 .. N -> Seq(Byte)] : g[0] = nothing /\ \A n \in 1 .. N : g[n] = step[n][g[n - 1]]
  <2>1. Iterated(N, Seq(Byte), step, nothing)  BY ONLY <1>1, <1>5, <1>14, Recursion, Zenon
  <2> QED  BY ONLY <2>1, Zenon DEF Iterated
<1>7. \A n \in 0 .. N : n # 0 => n \in 1 .. N /\ n - 1 \in 0 .. N  BY ONLY <1>1, SMT
<1>8. Is(g)
  <2>1. ASSUME NEW n \in 0 .. N
        PROVE g[n] = IF n = 0 THEN <<>> ELSE g[n - 1] \o Line(devices[n])
    <3>1. CASE n = 0  BY ONLY <1>6, <3>1, Zenon DEF nothing
    <3>2. CASE n # 0
      <4>1. n \in 1 .. N /\ n - 1 \in 0 .. N  BY ONLY <1>7, <3>2, n \in 0 .. N, Zenon
      <4>2. g[n - 1] \in Seq(Byte)  BY ONLY <4>1, g \in [0 .. N -> Seq(Byte)], Zenon
      <4>3. g[n] = g[n - 1] \o Line(devices[n])  BY ONLY <1>4, <1>6, <4>1, <4>2, Zenon
      <4> QED  BY ONLY <3>2, <4>3, Zenon
    <3> QED  BY <3>1, <3>2
  <2> QED  BY ONLY <2>1, g \in [0 .. N -> Seq(Byte)], Zenon
<1>9. text = CHOOSE f : Is(f)  BY Zenon DEF Lines, N
<1>10. Is(text)  BY ONLY <1>8, <1>9, Zenon
<1> HIDE DEF text
<1>11. text[0] = <<>>
  <2>1. 0 \in 0 .. N  BY ONLY <1>1, SMT
  <2> QED  BY ONLY <1>10, <2>1, Zenon
<1>12. ASSUME NEW n \in 1 .. N PROVE text[n] = text[n - 1] \o Line(devices[n])
  <2>1. n \in 0 .. N /\ n # 0  BY ONLY <1>1, n \in 1 .. N, SMT
  <2> QED  BY ONLY <1>10, <2>1, Zenon
<1>13. \A n \in 0 .. N : text[n] \in Seq(Byte)
  <2> DEFINE T == {n \in Nat : n <= N => text[n] \in Seq(Byte)}
  <2>1. T \subseteq Nat /\ 0 \in T
    <3>1. text[0] \in Seq(Byte)  BY ONLY <1>5, <1>11, Zenon DEF nothing
    <3>2. 0 \in Nat  OBVIOUS
    <3> QED  BY ONLY <3>1, <3>2, Zenon
  <2>2. ASSUME NEW n \in T PROVE n + 1 \in T
    <3>1. n \in Nat /\ (n <= N => text[n] \in Seq(Byte))  OBVIOUS
    <3>2. CASE n + 1 <= N
      <4>1. n <= N /\ n + 1 \in 1 .. N /\ (n + 1) - 1 = n /\ n + 1 \in Nat  BY ONLY <1>1, <3>1, <3>2, SMT
      <4>2. text[n + 1] = text[n] \o Line(devices[n + 1])  BY ONLY <1>12, <4>1, Zenon
      <4>3. text[n + 1] \in Seq(Byte)  BY ONLY <1>2, <3>1, <4>1, <4>2, ByteCat, Zenon
      <4> QED  BY <4>1, <4>3
    <3>3. CASE ~(n + 1 <= N)
      <4>1. n + 1 \in Nat  BY ONLY <3>1, SMT
      <4> QED  BY <3>3, <4>1
    <3> QED  BY <3>2, <3>3
  <2> HIDE DEF T
  <2>3. T = Nat  BY ONLY <2>1, <2>2, SetInduction, Zenon
  <2>4. \A n \in 0 .. N : n \in Nat /\ n <= N  BY ONLY <1>1, SMT
  <2> QED  BY ONLY <2>3, <2>4, Zenon DEF T
<1> QED  BY ONLY <1>11, <1>12, <1>13, Zenon DEF text, N

(* Four hex digits hold every length below 65536.                          *)
LEMMA HexRead ==
  ASSUME NEW n \in Word
  PROVE  /\ HexDigits(n) \in Seq(Byte) /\ Len(HexDigits(n)) = 4
         /\ IsHex(HexDigits(n)) /\ HexValue(HexDigits(n)) = n
<1> DEFINE a == (n \div 4096) % 16
           b == (n \div 256) % 16
           c == (n \div 16) % 16
           d == n % 16
           h == HexDigits(n)
<1>1. n \in Nat /\ n < 65536  BY SMT DEF Word
<1>2. n \div 4096 \in Nat /\ n \div 256 \in Nat /\ n \div 16 \in Nat  BY ONLY <1>1, SMT
<1>3. a \in Nat /\ b \in Nat /\ c \in Nat /\ d \in Nat /\ a < 16 /\ b < 16 /\ c < 16 /\ d < 16
  BY ONLY <1>1, <1>2, SMT
<1>4. n = 4096 * a + 256 * b + 16 * c + d
  <2>1. n \div 4096 < 16 /\ (n \div 4096) % 16 = n \div 4096  BY ONLY <1>1, <1>2, SMT
  <2>2. n \div 256 = 16 * (n \div 4096) + ((n \div 256) % 16)  BY ONLY <1>1, SMT
  <2>3. n \div 16 = 16 * (n \div 256) + ((n \div 16) % 16)  BY ONLY <1>1, SMT
  <2>4. n = 16 * (n \div 16) + (n % 16)  BY ONLY <1>1, SMT
  <2> QED  BY ONLY <1>1, <1>2, <2>1, <2>2, <2>3, <2>4, SMT
<1>5. h = <<a, b, c, d>>  BY Zenon DEF HexDigits
<1> HIDE DEF a, b, c, d, h
<1>6. a \in Byte /\ b \in Byte /\ c \in Byte /\ d \in Byte  BY ONLY <1>3, SMT DEF Byte
<1>7. h \in Seq(Byte) /\ Len(h) = 4 /\ h[1] = a /\ h[2] = b /\ h[3] = c /\ h[4] = d
  BY ONLY <1>5, <1>6, SMT
<1>8. IsHex(h)
  <2>1. DOMAIN h = 1 .. 4  BY ONLY <1>7, LenProperties, SMT
  <2>2. \A i \in DOMAIN h : h[i] < 16  BY ONLY <1>3, <1>7, <2>1, SMT
  <2> QED  BY ONLY <2>2, Zenon DEF IsHex
<1>9. HexValue(h) = n  BY ONLY <1>4, <1>7, SMT DEF HexValue
<1> QED  BY ONLY <1>7, <1>8, <1>9, Zenon DEF h

(* The parser of lists, character by character.                            *)
Parsers == [devices : Seq([serial : Seq(Byte), state : Byte]), serial : Seq(Byte), state : Byte,
            fields : {0, 1, 2}, gap : BOOLEAN]

LEMMA ParserTyped ==
  ASSUME NEW p \in Parsers, NEW c \in Byte
  PROVE  ParseChar(p, c) \in Parsers
<1> DEFINE R == [serial : Seq(Byte), state : Byte]
           D == Seq(R)
           S == Seq(Byte)
           P == [devices : D, serial : S, state : Byte, fields : {0, 1, 2}, gap : BOOLEAN]
           e == <<>>
<1>1. Parsers = P  BY DEF Parsers
<1>2. Tab \in Byte /\ e \in S  BY SMT DEF Tab, Byte
<1>3. \A s \in S, x \in Byte : [serial |-> s, state |-> x] \in R  BY Zenon
<1>4. \A d \in D, r \in R : Append(d, r) \in D
  <2> HIDE DEF R
  <2> QED  BY AppendProperties, Zenon
<1>5. \A s \in S, x \in Byte : Append(s, x) \in S  BY AppendProperties, Zenon
<1> DEFINE F == {0, 1, 2}
<1>10. 1 \in F /\ 2 \in F /\ TRUE \in BOOLEAN /\ FALSE \in BOOLEAN  OBVIOUS
<1>6. p \in [devices : D, serial : S, state : Byte, fields : F, gap : BOOLEAN]  BY <1>1
<1>11. P = [devices : D, serial : S, state : Byte, fields : F, gap : BOOLEAN]  OBVIOUS
<1> HIDE DEF R, D, S, e, F
<1>7. /\ p.devices \in D /\ p.serial \in S /\ p.state \in Byte /\ p.fields \in F /\ p.gap \in BOOLEAN
  BY ONLY <1>6, SMT
<1>8. CASE c = Newline
  <2> DEFINE d == IF p.fields < 2 THEN p.devices ELSE Append(p.devices, [serial |-> p.serial, state |-> p.state])
  <2>1. ParseChar(p, c) = [devices |-> d, serial |-> e, state |-> Tab, fields |-> 0, gap |-> TRUE]
    BY ONLY <1>8, Zenon DEF ParseChar, e
  <2>2. d \in D  BY ONLY <1>3, <1>4, <1>7, Zenon
  <2> HIDE DEF d
  <2>3. [devices |-> d, serial |-> e, state |-> Tab, fields |-> 0, gap |-> TRUE] \in P
    BY ONLY <1>2, <2>2, SMT
  <2> QED  BY ONLY <1>1, <2>1, <2>3, Zenon
<1>9. CASE c # Newline
  <2>1. CASE c = Tab
    <3>1. ParseChar(p, c) = [p EXCEPT !.gap = TRUE]  BY ONLY <1>9, <2>1, Zenon DEF ParseChar
    <3>2. [p EXCEPT !.gap = TRUE] \in P  BY ONLY <1>6, <1>10, <1>11, Zenon
    <3> QED  BY ONLY <1>1, <3>1, <3>2, Zenon
  <2>2. CASE c # Tab /\ (p.fields = 0 \/ (p.fields = 1 /\ ~p.gap))
    <3> DEFINE s == Append(p.serial, c)
    <3>1. s \in S  BY ONLY <1>5, <1>7, c \in Byte, Zenon
    <3>2. ParseChar(p, c) = [p EXCEPT !.serial = s, !.fields = 1, !.gap = FALSE]
      BY ONLY <1>9, <2>2, Zenon DEF ParseChar
    <3> HIDE DEF s
    <3>3. [p EXCEPT !.serial = s, !.fields = 1, !.gap = FALSE] \in P
      BY ONLY <1>6, <1>10, <1>11, <3>1, Zenon
    <3> QED  BY ONLY <1>1, <3>2, <3>3, Zenon
  <2>3. CASE c # Tab /\ ~(p.fields = 0 \/ (p.fields = 1 /\ ~p.gap))
    <3> DEFINE s == IF p.fields = 1 THEN c ELSE p.state
    <3>1. s \in Byte  BY ONLY <1>7, c \in Byte, Zenon
    <3>2. ParseChar(p, c) = [p EXCEPT !.state = s, !.fields = 2, !.gap = FALSE]
      BY ONLY <1>9, <2>3, Zenon DEF ParseChar
    <3> HIDE DEF s
    <3>3. [p EXCEPT !.state = s, !.fields = 2, !.gap = FALSE] \in P
      BY ONLY <1>6, <1>10, <1>11, <3>1, Zenon
    <3> QED  BY ONLY <1>1, <3>2, <3>3, Zenon
  <2> QED  BY ONLY <2>1, <2>2, <2>3, Zenon
<1> QED  BY <1>8, <1>9

LEMMA ParsedDef ==
  ASSUME NEW text \in Seq(Byte)
  PROVE  /\ Parsed(text)[0] = NothingParsed
         /\ \A n \in 1 .. Len(text) : Parsed(text)[n] = ParseChar(Parsed(text)[n - 1], text[n])
<1> DEFINE N == Len(text)
           step == [n \in 1 .. N |-> [p \in Parsers |-> ParseChar(p, text[n])]]
           Is(f) == f = [n \in 0 .. N |-> IF n = 0 THEN NothingParsed ELSE ParseChar(f[n - 1], text[n])]
           after == Parsed(text)
<1>1. N \in Nat  BY LenProperties
<1>2. \A n \in 1 .. N : text[n] \in Byte  BY ElementOfSeq, Zenon
<1> HIDE DEF N
<1>3. \A n \in 1 .. N : \A p \in Parsers : ParseChar(p, text[n]) \in Parsers
  BY ONLY <1>2, ParserTyped, Zenon
<1>4. \A n \in 1 .. N : \A p \in Parsers : step[n][p] = ParseChar(p, text[n])  BY Zenon
<1>5. step \in Steps(N, Parsers)  BY ONLY <1>3, Zenon DEF Steps
<1> HIDE DEF step
<1>6. NothingParsed \in Parsers
  <2> DEFINE R == [serial : Seq(Byte), state : Byte]
             D == Seq(R)
             S == Seq(Byte)
             d == <<>>
  <2>1. d \in D  OBVIOUS
  <2>2. d \in S /\ Tab \in Byte  BY SMT DEF Tab, Byte
  <2>3. Parsers = [devices : D, serial : S, state : Byte, fields : {0, 1, 2}, gap : BOOLEAN]  BY DEF Parsers
  <2>4. NothingParsed = [devices |-> d, serial |-> d, state |-> Tab, fields |-> 0, gap |-> TRUE]
    BY DEF NothingParsed
  <2> HIDE DEF R, D, S, d
  <2> QED  BY ONLY <2>1, <2>2, <2>3, <2>4, SMT
<1>7. PICK g \in [0 .. N -> Parsers] : g[0] = NothingParsed /\ \A n \in 1 .. N : g[n] = step[n][g[n - 1]]
  <2>1. Iterated(N, Parsers, step, NothingParsed)  BY ONLY <1>1, <1>5, <1>6, Recursion, Zenon
  <2> QED  BY ONLY <2>1, Zenon DEF Iterated
<1>8. \A n \in 0 .. N : n # 0 => n \in 1 .. N /\ n - 1 \in 0 .. N  BY ONLY <1>1, SMT
<1>9. Is(g)
  <2>1. ASSUME NEW n \in 0 .. N
        PROVE g[n] = IF n = 0 THEN NothingParsed ELSE ParseChar(g[n - 1], text[n])
    <3>1. CASE n = 0  BY ONLY <1>7, <3>1, Zenon
    <3>2. CASE n # 0
      <4>1. n \in 1 .. N /\ n - 1 \in 0 .. N  BY ONLY <1>8, <3>2, n \in 0 .. N, Zenon
      <4>2. g[n - 1] \in Parsers  BY ONLY <4>1, g \in [0 .. N -> Parsers], Zenon
      <4>3. g[n] = ParseChar(g[n - 1], text[n])  BY ONLY <1>4, <1>7, <4>1, <4>2, Zenon
      <4> QED  BY ONLY <3>2, <4>3, Zenon
    <3> QED  BY <3>1, <3>2
  <2> QED  BY ONLY <2>1, g \in [0 .. N -> Parsers], Zenon
<1>10. after = CHOOSE f : Is(f)  BY Zenon DEF Parsed, N
<1>11. Is(after)  BY ONLY <1>9, <1>10, Zenon
<1> HIDE DEF after
<1>12. after[0] = NothingParsed
  <2>1. 0 \in 0 .. N  BY ONLY <1>1, SMT
  <2> QED  BY ONLY <1>11, <2>1, Zenon
<1>13. ASSUME NEW n \in 1 .. N PROVE after[n] = ParseChar(after[n - 1], text[n])
  <2>1. n \in 0 .. N /\ n # 0  BY ONLY <1>1, n \in 1 .. N, SMT
  <2> QED  BY ONLY <1>11, <2>1, Zenon
<1> QED  BY ONLY <1>12, <1>13, Zenon DEF after, N

(* What the parser has when it has read all of a text.                     *)
ParseOf(text) == Parsed(text)[Len(text)]

LEMMA NothingRead == ParseOf(<<>>) = NothingParsed
<1> DEFINE e == <<>>
<1>1. e \in Seq(Byte) /\ Len(e) = 0  OBVIOUS
<1> HIDE DEF e
<1>2. ParseOf(e) = NothingParsed  BY ONLY <1>1, ParsedDef, Zenon DEF ParseOf
<1> QED  BY <1>2 DEF e

LEMMA OneMore ==
  ASSUME NEW s \in Seq(Byte), NEW c \in Byte
  PROVE  ParseOf(Append(s, c)) = ParseChar(ParseOf(s), c)
<1> DEFINE t == Append(s, c)
           T == {n \in Nat : n <= Len(s) => Parsed(t)[n] = Parsed(s)[n]}
<1>1. /\ t \in Seq(Byte) /\ Len(t) = Len(s) + 1 /\ t[Len(s) + 1] = c
      /\ \A i \in 1 .. Len(s) : t[i] = s[i]
  BY AppendProperties
<1>2. Len(s) \in Nat  BY LenProperties
<1> HIDE DEF t
<1>3. /\ Parsed(t)[0] = NothingParsed
      /\ \A n \in 1 .. Len(t) : Parsed(t)[n] = ParseChar(Parsed(t)[n - 1], t[n])
  BY ONLY <1>1, ParsedDef, Zenon
<1>4. /\ Parsed(s)[0] = NothingParsed
      /\ \A n \in 1 .. Len(s) : Parsed(s)[n] = ParseChar(Parsed(s)[n - 1], s[n])
  BY ONLY s \in Seq(Byte), ParsedDef, Zenon
<1>5. T \subseteq Nat /\ 0 \in T
  <2>1. Parsed(t)[0] = Parsed(s)[0] /\ 0 \in Nat  BY <1>3, <1>4
  <2> QED  BY ONLY <2>1, Zenon
<1>6. ASSUME NEW n \in T PROVE n + 1 \in T
  <2>1. n \in Nat /\ (n <= Len(s) => Parsed(t)[n] = Parsed(s)[n])  BY DEF T
  <2> HIDE DEF T
  <2>2. ASSUME n + 1 <= Len(s) PROVE Parsed(t)[n + 1] = Parsed(s)[n + 1]
    <3>1. n <= Len(s) /\ n + 1 \in 1 .. Len(s) /\ n + 1 \in 1 .. Len(t) /\ (n + 1) - 1 = n
      BY ONLY <1>1, <1>2, <2>1, <2>2, SMT
    <3>2. Parsed(t)[n + 1] = ParseChar(Parsed(t)[n], t[n + 1])  BY ONLY <1>3, <3>1, Zenon
    <3>3. Parsed(s)[n + 1] = ParseChar(Parsed(s)[n], s[n + 1])  BY ONLY <1>4, <3>1, Zenon
    <3> QED  BY ONLY <1>1, <2>1, <3>1, <3>2, <3>3, Zenon
  <2>3. n + 1 \in Nat  BY ONLY <2>1, SMT
  <2> QED  BY ONLY <2>2, <2>3, Zenon DEF T
<1> HIDE DEF T
<1>7. T = Nat  BY ONLY <1>5, <1>6, SetInduction, Zenon
<1>8. Parsed(t)[Len(s)] = Parsed(s)[Len(s)]
  <2>1. Len(s) <= Len(s)  BY ONLY <1>2, SMT
  <2> QED  BY ONLY <1>2, <1>7, <2>1, Zenon DEF T
<1>9. Len(s) + 1 \in 1 .. Len(t) /\ (Len(s) + 1) - 1 = Len(s)  BY ONLY <1>1, <1>2, SMT
<1>10. Parsed(t)[Len(s) + 1] = ParseChar(Parsed(s)[Len(s)], c)  BY ONLY <1>1, <1>3, <1>8, <1>9, Zenon
<1> QED  BY ONLY <1>1, <1>10, Zenon DEF ParseOf, t

(* A line is one device: between lines, and within the serial of one.      *)
Between(d)   == [devices |-> d, serial |-> <<>>, state |-> Tab, fields |-> 0, gap |-> TRUE]
Within(d, w) == [devices |-> d, serial |-> w, state |-> Tab, fields |-> 1, gap |-> FALSE]

LEMMA FirstChar ==
  ASSUME NEW d, NEW c \in Visible
  PROVE  ParseChar(Between(d), c) = Within(d, <<c>>)
<1> DEFINE p == Between(d)
<1>1. c # Newline /\ c # Tab  BY DEF Visible
<1>2. p.fields = 0 /\ p.serial = <<>>  BY DEF Between
<1> HIDE DEF p
<1>3. ParseChar(p, c) = [p EXCEPT !.serial = Append(p.serial, c), !.fields = 1, !.gap = FALSE]
  BY ONLY <1>1, <1>2, Zenon DEF ParseChar
<1>4. Append(p.serial, c) = <<c>>  BY ONLY <1>2, SMT
<1>5. ParseChar(p, c) = [p EXCEPT !.serial = <<c>>, !.fields = 1, !.gap = FALSE]
  BY ONLY <1>3, <1>4, Zenon
<1> DEFINE v == <<c>>
           A == {p.devices}
           B == {p.serial, v}
           C == {p.state}
           D == {0, 1}
           E == {TRUE, FALSE}
<1>6. p.devices = d /\ p.state = Tab /\ p \in [devices : A, serial : B, state : C, fields : D, gap : E]
  BY DEF p, Between
<1> DEFINE f == 1
           g == FALSE
<1>7. v \in B /\ f \in D /\ g \in E  OBVIOUS
<1>8. ParseChar(p, c) = [p EXCEPT !.serial = v, !.fields = f, !.gap = g]  BY <1>5
<1> HIDE DEF v, A, B, C, D, E, f, g
<1>9. [p EXCEPT !.serial = v, !.fields = f, !.gap = g] =
        [devices |-> p.devices, serial |-> v, state |-> p.state, fields |-> f, gap |-> g]
  <2> DEFINE n == [p EXCEPT !.serial = v, !.fields = f, !.gap = g]
  <2>1. n \in [devices : A, serial : B, state : C, fields : D, gap : E]  BY ONLY <1>6, <1>7, Zenon
  <2>2. n.devices = p.devices /\ n.state = p.state /\ n.serial = v /\ n.fields = f /\ n.gap = g
    BY ONLY <1>6, <1>7, Zenon
  <2> HIDE DEF n
  <2>3. n = [devices |-> n.devices, serial |-> n.serial, state |-> n.state, fields |-> n.fields, gap |-> n.gap]
    BY ONLY <2>1, SMT
  <2> QED  BY ONLY <2>2, <2>3, Zenon DEF n
<1>10. ParseChar(p, c) = Within(d, v)  BY ONLY <1>6, <1>8, <1>9, Zenon DEF Within, f, g
<1> QED  BY ONLY <1>10, Zenon DEF p, v

LEMMA NextChar ==
  ASSUME NEW d, NEW w, NEW c \in Visible
  PROVE  ParseChar(Within(d, w), c) = Within(d, Append(w, c))
<1> DEFINE p == Within(d, w)
           v == Append(w, c)
<1>1. c # Newline /\ c # Tab  BY DEF Visible
<1>2. p.fields = 1 /\ ~p.gap /\ p.serial = w  BY DEF Within
<1> HIDE DEF p
<1>3. ParseChar(p, c) = [p EXCEPT !.serial = Append(p.serial, c), !.fields = 1, !.gap = FALSE]
  BY ONLY <1>1, <1>2, Zenon DEF ParseChar
<1>4. Append(p.serial, c) = v  BY ONLY <1>2, Zenon
<1>5. ParseChar(p, c) = [p EXCEPT !.serial = v, !.fields = 1, !.gap = FALSE]
  BY ONLY <1>3, <1>4, Zenon
<1> DEFINE A == {p.devices}
           B == {p.serial, v}
           C == {p.state}
           D == {0, 1}
           E == {TRUE, FALSE}
<1> HIDE DEF v
<1>6. p.devices = d /\ p.state = Tab /\ p \in [devices : A, serial : B, state : C, fields : D, gap : E]
  BY DEF p, Within
<1> DEFINE f == 1
           g == FALSE
<1>7. v \in B /\ f \in D /\ g \in E  OBVIOUS
<1>8. ParseChar(p, c) = [p EXCEPT !.serial = v, !.fields = f, !.gap = g]  BY <1>5
<1> HIDE DEF A, B, C, D, E, f, g
<1>9. [p EXCEPT !.serial = v, !.fields = f, !.gap = g] =
        [devices |-> p.devices, serial |-> v, state |-> p.state, fields |-> f, gap |-> g]
  <2> DEFINE n == [p EXCEPT !.serial = v, !.fields = f, !.gap = g]
  <2>1. n \in [devices : A, serial : B, state : C, fields : D, gap : E]  BY ONLY <1>6, <1>7, Zenon
  <2>2. n.devices = p.devices /\ n.state = p.state /\ n.serial = v /\ n.fields = f /\ n.gap = g
    BY ONLY <1>6, <1>7, Zenon
  <2> HIDE DEF n
  <2>3. n = [devices |-> n.devices, serial |-> n.serial, state |-> n.state, fields |-> n.fields, gap |-> n.gap]
    BY ONLY <2>1, SMT
  <2> QED  BY ONLY <2>2, <2>3, Zenon DEF n
<1>10. ParseChar(p, c) = Within(d, v)  BY ONLY <1>6, <1>8, <1>9, Zenon DEF Within, f, g
<1> QED  BY ONLY <1>10, Zenon DEF p, v

LEMMA LastChars ==
  ASSUME NEW d, NEW w, NEW c \in Visible
  PROVE  ParseChar(ParseChar(ParseChar(Within(d, w), Tab), c), Newline)
           = Between(Append(d, [serial |-> w, state |-> c]))
<1> DEFINE p == Within(d, w)
           q == ParseChar(p, Tab)
           r == ParseChar(q, c)
           e == Append(d, [serial |-> w, state |-> c])
<1>1. c # Newline /\ c # Tab /\ Tab # Newline  BY DEF Visible, Tab, Newline
<1> DEFINE A == {p.devices}
           B == {p.serial}
           C == {p.state, c}
           D == {1, 2}
           E == {TRUE, FALSE}
           yes == TRUE
<1>7. /\ p.devices = d /\ p.serial = w /\ p.state = Tab /\ p.fields = 1
      /\ p \in [devices : A, serial : B, state : C, fields : D, gap : E]
  BY DEF p, Within
<1>8. yes \in E  OBVIOUS
<1>9. q = [p EXCEPT !.gap = yes]  BY ONLY <1>1, Zenon DEF ParseChar
<1> HIDE DEF p, q, r, A, B, C, D, E, yes
<1>2. q = [devices |-> d, serial |-> w, state |-> Tab, fields |-> 1, gap |-> TRUE]
  <2>1. [p EXCEPT !.gap = yes] =
          [devices |-> p.devices, serial |-> p.serial, state |-> p.state, fields |-> p.fields, gap |-> yes]
    BY ONLY <1>7, <1>8, SMT
  <2> QED  BY ONLY <1>7, <1>9, <2>1, Zenon DEF yes
<1>3. q.fields = 1 /\ q.gap /\ q.fields # 0  BY ONLY <1>2, SMT
<1>4. r = [devices |-> d, serial |-> w, state |-> c, fields |-> 2, gap |-> FALSE]
  <2>1. r = [q EXCEPT !.state = c, !.fields = 2, !.gap = FALSE]
    BY ONLY <1>1, <1>3, Zenon DEF ParseChar, r
  <2>2. q \in [devices : {d}, serial : {w}, state : {Tab, c}, fields : {1, 2}, gap : {TRUE, FALSE}]
    BY ONLY <1>2
  <2> DEFINE dd == {d}
             ww == {w}
             ss == {Tab, c}
             ff == {1, 2}
             gg == {TRUE, FALSE}
  <2> DEFINE f == 2
             g == FALSE
  <2>3. c \in ss /\ f \in ff /\ g \in gg  OBVIOUS
  <2>7. r = [q EXCEPT !.state = c, !.fields = f, !.gap = g]  BY <2>1
  <2>4. q \in [devices : dd, serial : ww, state : ss, fields : ff, gap : gg]  BY <2>2
  <2> HIDE DEF dd, ww, ss, ff, gg, f, g
  <2>5. [q EXCEPT !.state = c, !.fields = f, !.gap = g] =
          [devices |-> q.devices, serial |-> q.serial, state |-> c, fields |-> f, gap |-> g]
    <3> DEFINE n == [q EXCEPT !.state = c, !.fields = f, !.gap = g]
    <3>1. n \in [devices : dd, serial : ww, state : ss, fields : ff, gap : gg]  BY ONLY <2>3, <2>4, Zenon
    <3>2. n.devices = q.devices /\ n.state = c /\ n.serial = q.serial /\ n.fields = f /\ n.gap = g
      BY ONLY <2>3, <2>4, Zenon
    <3> HIDE DEF n
    <3>3. n = [devices |-> n.devices, serial |-> n.serial, state |-> n.state, fields |-> n.fields, gap |-> n.gap]
      BY ONLY <3>1, SMT
    <3> QED  BY ONLY <3>2, <3>3, Zenon DEF n
  <2>6. q.devices = d /\ q.serial = w  BY ONLY <1>2, SMT
  <2> QED  BY ONLY <2>5, <2>6, <2>7, Zenon DEF f, g
<1>5. ~(r.fields < 2) /\ r.devices = d /\ r.serial = w /\ r.state = c  BY ONLY <1>4, SMT
<1>6. ParseChar(r, Newline) =
        [devices |-> e, serial |-> <<>>, state |-> Tab, fields |-> 0, gap |-> TRUE]
  BY ONLY <1>5, Zenon DEF ParseChar
<1> QED  BY ONLY <1>6, Zenon DEF p, q, r, e, Between

(* One more character of a string.                                         *)
LEMMA ByteAssoc ==
  ASSUME NEW s \in Seq(Byte), NEW t \in Seq(Byte), NEW u \in Seq(Byte)
  PROVE  (s \o t) \o u = s \o (t \o u)
BY ConcatAssociative

LEMMA Longer ==
  ASSUME NEW s \in Seq(Byte), NEW w \in Seq(Byte), NEW i \in Nat, i + 1 <= Len(w)
  PROVE  /\ SubSeq(w, 1, i) \in Seq(Byte)
         /\ w[i + 1] \in Byte
         /\ SubSeq(w, 1, i + 1) = Append(SubSeq(w, 1, i), w[i + 1])
         /\ s \o SubSeq(w, 1, i + 1) = Append(s \o SubSeq(w, 1, i), w[i + 1])
<1> DEFINE v == SubSeq(w, 1, i)
           c == w[i + 1]
<1>1. Len(w) \in Nat  BY LenProperties
<1>2. 1 \in 1 .. Len(w) /\ i + 1 \in 1 .. Len(w) /\ (i + 1) - 1 = i /\ i + 1 \in Nat  BY ONLY <1>1, i \in Nat, i + 1 <= Len(w), SMT
<1>3. c \in Byte  BY ONLY <1>2, w \in Seq(Byte), ElementOfSeq, Zenon
<1>4. v \in Seq(Byte)
  <2>1. i \in 1 - 1 .. Len(w) /\ 1 \in 1 .. Len(w) + 1  BY ONLY <1>1, i \in Nat, i + 1 <= Len(w), SMT
  <2> QED  BY <2>1, Cut
<1>5. SubSeq(w, 1, i + 1) = SubSeq(w, 1, (i + 1) - 1) \o <<w[i + 1]>>
  <2>1. i + 1 \in 1 .. Len(w)  BY <1>2
  <2> QED  BY ONLY <1>2, <2>1, w \in Seq(Byte), SubSeqRecursiveSecond
<1>6. SubSeq(w, 1, i + 1) = v \o <<c>>  BY ONLY <1>2, <1>5, Zenon
<1> HIDE DEF v, c
<1>7. Append(v, c) = v \o <<c>>  BY ONLY <1>3, <1>4, AppendIsConcat, Zenon
<1>8. s \o v \in Seq(Byte)  BY ONLY <1>4, s \in Seq(Byte), ByteCat, Zenon
<1>9. Append(s \o v, c) = (s \o v) \o <<c>>  BY ONLY <1>3, <1>8, AppendIsConcat, Zenon
<1>10. <<c>> \in Seq(Byte)  BY ONLY <1>3, SMT
<1>11. (s \o v) \o <<c>> = s \o (v \o <<c>>)
  BY ONLY <1>4, <1>10, s \in Seq(Byte), ByteAssoc, ZenonT(30)
<1> QED  BY ONLY <1>3, <1>4, <1>6, <1>7, <1>9, <1>11, Zenon DEF v, c

LEMMA ByteAppend ==
  ASSUME NEW s \in Seq(Byte), NEW c \in Byte
  PROVE  Append(s, c) \in Seq(Byte) /\ Len(Append(s, c)) = Len(s) + 1
BY AppendProperties

LEMMA Thrice ==
  ASSUME NEW s \in Seq(Byte), NEW a \in Byte, NEW b \in Byte, NEW c \in Byte
  PROVE  s \o <<a, b, c>> = Append(Append(Append(s, a), b), c)
<1> DEFINE t == <<a, b, c>>
           u == s \o t
           x == Append(s, a)
           y == Append(x, b)
           z == Append(y, c)
<1>1. t \in Seq(Byte) /\ Len(t) = 3 /\ t[1] = a /\ t[2] = b /\ t[3] = c  OBVIOUS
<1>2. Len(s) \in Nat  BY LenProperties
<1> HIDE DEF t
<1>3. /\ u \in Seq(Byte) /\ Len(u) = Len(s) + Len(t)
      /\ \A i \in 1 .. Len(s) : u[i] = s[i]
      /\ \A i \in 1 .. Len(t) : u[Len(s) + i] = t[i]
  BY ONLY <1>1, s \in Seq(Byte), ByteCat, Zenon
<1>4. x \in Seq(Byte) /\ Len(x) = Len(s) + 1 /\ (\A i \in 1 .. Len(s) : x[i] = s[i]) /\ x[Len(s) + 1] = a
  BY AppendProperties
<1> HIDE DEF x
<1>5. y \in Seq(Byte) /\ Len(y) = Len(x) + 1 /\ (\A i \in 1 .. Len(x) : y[i] = x[i]) /\ y[Len(x) + 1] = b
  BY <1>4, AppendProperties
<1> HIDE DEF y
<1>6. z \in Seq(Byte) /\ Len(z) = Len(y) + 1 /\ (\A i \in 1 .. Len(y) : z[i] = y[i]) /\ z[Len(y) + 1] = c
  BY <1>5, AppendProperties
<1> HIDE DEF z, u
<1> DEFINE n == Len(s)
<1>10. Len(x) = n + 1 /\ Len(y) = n + 2 /\ Len(z) = n + 3 /\ Len(u) = n + 3 /\ Len(t) = 3 /\ n \in Nat
  BY ONLY <1>1, <1>2, <1>3, <1>4, <1>5, <1>6, SMT
<1> HIDE DEF n
<1>7. Len(u) = Len(z)  BY ONLY <1>10, SMT
<1>11. u[n + 1] = a /\ u[n + 2] = b /\ u[n + 3] = c
  <2>1. \A i \in 1 .. 3 : u[n + i] = t[i]  BY ONLY <1>3, <1>10, SMT DEF n
  <2> QED  BY ONLY <1>1, <2>1, SMT
<1>12. /\ \A i \in 1 .. n : u[i] = s[i] /\ x[i] = s[i]
       /\ \A i \in 1 .. n + 1 : y[i] = x[i]
       /\ \A i \in 1 .. n + 2 : z[i] = y[i]
       /\ x[n + 1] = a /\ y[n + 2] = b /\ z[n + 3] = c
  <2>1. y[(n + 1) + 1] = b /\ z[(n + 2) + 1] = c  BY ONLY <1>5, <1>6, <1>10, Zenon
  <2>2. (n + 1) + 1 = n + 2 /\ (n + 2) + 1 = n + 3  BY ONLY <1>10, SMT
  <2> QED  BY ONLY <1>3, <1>4, <1>5, <1>6, <1>10, <2>1, <2>2, Zenon DEF n
<1>13. \A i \in 1 .. n : i \in 1 .. n + 1 /\ i \in 1 .. n + 2  BY ONLY <1>10, SMT
<1>14. n + 1 \in 1 .. n + 1 /\ n + 1 \in 1 .. n + 2 /\ n + 2 \in 1 .. n + 2  BY ONLY <1>10, SMT
<1>15. \A i \in 1 .. n : u[i] = z[i]  BY ONLY <1>12, <1>13, Zenon
<1>16. z[n + 1] = a /\ z[n + 2] = b  BY ONLY <1>12, <1>14, Zenon
<1>17. \A i \in 1 .. Len(u) : i \in 1 .. n \/ i = n + 1 \/ i = n + 2 \/ i = n + 3
  BY ONLY <1>10, SMT
<1>8. \A i \in 1 .. Len(u) : u[i] = z[i]  BY ONLY <1>11, <1>12, <1>15, <1>16, <1>17, Zenon
<1>9. u = z  BY ONLY <1>3, <1>6, <1>7, <1>8, SeqEqual, Zenon
<1> QED  BY ONLY <1>9, Zenon DEF t, u, x, y, z

LEMMA LineParsed ==
  ASSUME NEW s \in Seq(Byte), NEW d, NEW device \in Attached, ParseOf(s) = Between(d)
  PROVE  ParseOf(s \o Line(device)) = Between(Append(d, device))
<1> DEFINE w == device.serial
           L == Len(w)
           part(i) == SubSeq(w, 1, i)
           T == {i \in Nat : i + 1 <= L => ParseOf(s \o part(i + 1)) = Within(d, part(i + 1))}
<1>1. /\ w \in Seq(Visible) /\ w # <<>> /\ device.state \in Visible
      /\ device = [serial |-> w, state |-> device.state]
  BY DEF Attached
<1>2. w \in Seq(Byte) /\ device.state \in Byte  BY <1>1 DEF Visible
<1> HIDE DEF w
<1>3. L \in Nat /\ L >= 1  BY ONLY <1>1, EmptySeq, SMT
<1>4. \A i \in 1 .. L : w[i] \in Visible  BY ONLY <1>1, ElementOfSeq, Zenon
<1>5. ASSUME NEW i \in Nat, i + 1 <= L
      PROVE  /\ part(i) \in Seq(Byte) /\ w[i + 1] \in Byte /\ w[i + 1] \in Visible
             /\ part(i + 1) = Append(part(i), w[i + 1])
             /\ s \o part(i + 1) = Append(s \o part(i), w[i + 1])
             /\ s \o part(i) \in Seq(Byte)
  <2>1. /\ part(i) \in Seq(Byte) /\ w[i + 1] \in Byte
        /\ part(i + 1) = Append(part(i), w[i + 1])
        /\ s \o part(i + 1) = Append(s \o part(i), w[i + 1])
    BY ONLY <1>2, <1>5, i \in Nat, s \in Seq(Byte), Longer, Zenon
  <2>2. i + 1 \in 1 .. L  BY ONLY <1>3, <1>5, i \in Nat, SMT
  <2>3. w[i + 1] \in Visible  BY ONLY <1>4, <2>2, Zenon
  <2>4. s \o part(i) \in Seq(Byte)  BY ONLY <2>1, s \in Seq(Byte), ByteCat, Zenon
  <2> QED  BY <2>1, <2>3, <2>4
<1>6. T \subseteq Nat /\ 0 \in T
  <2>1. 0 \in Nat /\ 0 + 1 <= L  BY ONLY <1>3, SMT
  <2>2. part(0) = <<>>  BY SubSeqEmpty
  <2>3. s \o part(0) = s  BY <2>2, ConcatEmptySeq
  <2> DEFINE c == w[0 + 1]
             v == part(0 + 1)
  <2>4. c \in Byte /\ c \in Visible /\ v = Append(part(0), c) /\ s \o v = Append(s \o part(0), c)
    BY ONLY <1>5, <2>1, Zenon
  <2> HIDE DEF c, v
  <2>5. v = <<c>>
    <3>1. Append(<<>>, c) = <<c>>  OBVIOUS
    <3> QED  BY ONLY <2>2, <2>4, <3>1, Zenon
  <2>6. ParseOf(Append(s, c)) = ParseChar(ParseOf(s), c)  BY ONLY <2>4, s \in Seq(Byte), OneMore, Zenon
  <2>7. ParseChar(Between(d), c) = Within(d, <<c>>)  BY ONLY <2>4, FirstChar, Zenon
  <2>8. ParseOf(s \o v) = Within(d, v)
    BY ONLY <2>3, <2>4, <2>5, <2>6, <2>7, ParseOf(s) = Between(d), Zenon
  <2> QED  BY ONLY <2>1, <2>8, Zenon DEF v
<1>7. ASSUME NEW i \in T PROVE i + 1 \in T
  <2>1. i \in Nat /\ (i + 1 <= L => ParseOf(s \o part(i + 1)) = Within(d, part(i + 1)))  BY DEF T
  <2> HIDE DEF T
  <2> DEFINE j == i + 1
  <2>2. j \in Nat /\ (j + 1 <= L => i + 1 <= L)  BY ONLY <1>3, <2>1, SMT
  <2>3. ASSUME j + 1 <= L PROVE ParseOf(s \o part(j + 1)) = Within(d, part(j + 1))
    <3>1. ParseOf(s \o part(j)) = Within(d, part(j))  BY ONLY <2>1, <2>2, <2>3, Zenon
    <3> HIDE DEF j
    <3> DEFINE c == w[j + 1]
    <3>2. /\ c \in Byte /\ c \in Visible /\ part(j + 1) = Append(part(j), c)
          /\ s \o part(j + 1) = Append(s \o part(j), c) /\ s \o part(j) \in Seq(Byte)
      BY ONLY <1>5, <2>2, <2>3, Zenon
    <3> HIDE DEF c
    <3>3. ParseOf(Append(s \o part(j), c)) = ParseChar(ParseOf(s \o part(j)), c)
      BY ONLY <3>2, OneMore, Zenon
    <3>4. ParseChar(Within(d, part(j)), c) = Within(d, Append(part(j), c))  BY ONLY <3>2, NextChar, Zenon
    <3> QED  BY ONLY <3>1, <3>2, <3>3, <3>4, Zenon
  <2> QED  BY ONLY <2>2, <2>3, Zenon DEF T
<1> HIDE DEF T
<1>8. T = Nat  BY ONLY <1>6, <1>7, SetInduction, Zenon
<1>9. ParseOf(s \o w) = Within(d, w)
  <2>1. L - 1 \in Nat /\ (L - 1) + 1 <= L /\ (L - 1) + 1 = L  BY ONLY <1>3, SMT
  <2>2. ParseOf(s \o part(L)) = Within(d, part(L))  BY ONLY <1>8, <2>1, Zenon DEF T
  <2>3. part(L) = w  BY <1>2, SubSeqFull
  <2> QED  BY ONLY <2>2, <2>3, Zenon
<1> DEFINE a == s \o w
           x == device.state
<1>10. a \in Seq(Byte)  BY ONLY <1>2, s \in Seq(Byte), ByteCat, Zenon
<1>11. Tab \in Byte /\ Newline \in Byte  BY SMT DEF Tab, Newline, Byte
<1>12. s \o Line(device) = a \o <<Tab, x, Newline>>
  <2> DEFINE t == <<Tab, x, Newline>>
  <2>1. t \in Seq(Byte)  BY <1>2, <1>11
  <2>2. Line(device) = w \o t  BY DEF Line, w
  <2> HIDE DEF t
  <2>3. (s \o w) \o t = s \o (w \o t)  BY ONLY <1>2, <2>1, s \in Seq(Byte), ByteAssoc, Zenon
  <2> QED  BY ONLY <2>2, <2>3, Zenon DEF t
<1> HIDE DEF a, x
<1>13. x \in Byte /\ x \in Visible  BY <1>1, <1>2 DEF x
<1>14. a \o <<Tab, x, Newline>> = Append(Append(Append(a, Tab), x), Newline)
  BY ONLY <1>10, <1>11, <1>13, Thrice, Zenon
<1> DEFINE b == Append(a, Tab)
           e == Append(b, x)
<1>15. b \in Seq(Byte) /\ ParseOf(b) = ParseChar(ParseOf(a), Tab)
  BY ONLY <1>10, <1>11, OneMore, ByteAppend, Zenon
<1> HIDE DEF b
<1>16. e \in Seq(Byte) /\ ParseOf(e) = ParseChar(ParseOf(b), x)
  BY ONLY <1>13, <1>15, OneMore, ByteAppend, Zenon
<1> HIDE DEF e
<1>17. ParseOf(Append(e, Newline)) = ParseChar(ParseOf(e), Newline)
  BY ONLY <1>11, <1>16, OneMore, Zenon
<1>18. ParseChar(ParseChar(ParseChar(Within(d, w), Tab), x), Newline) = Between(Append(d, [serial |-> w, state |-> x]))
  BY ONLY <1>13, LastChars, Zenon
<1>19. ParseOf(Append(e, Newline)) = Between(Append(d, [serial |-> w, state |-> x]))
  BY ONLY <1>9, <1>15, <1>16, <1>17, <1>18, Zenon DEF a
<1>20. s \o Line(device) = Append(e, Newline)  BY ONLY <1>12, <1>14, Zenon DEF b, e
<1> QED  BY ONLY <1>1, <1>19, <1>20, Zenon DEF x

(* The tracker's parser makes of the text of a list of devices that list,  *)
(* for any number of devices, of serials of any length and of states.      *)
THEOREM ListingParsed ==
  ASSUME NEW devices \in Seq(Attached)
  PROVE  Listing(devices) \in Seq(Byte) /\ ParseDevices(Listing(devices)) = devices
<1> DEFINE N == Len(devices)
           text == Lines(devices)
           first(n) == SubSeq(devices, 1, n)
           T == {n \in Nat : n <= N => ParseOf(text[n]) = Between(first(n))}
<1>1. N \in Nat  BY LenProperties
<1>2. /\ text[0] = <<>>
      /\ \A n \in 1 .. N : text[n] = text[n - 1] \o Line(devices[n])
      /\ \A n \in 0 .. N : text[n] \in Seq(Byte)
  BY LinesDef
<1>3. ASSUME NEW n \in Nat, n + 1 <= N
      PROVE  first(n + 1) = Append(first(n), devices[n + 1]) /\ devices[n + 1] \in Attached
  <2>1. 1 \in 1 .. N /\ n + 1 \in 1 .. N /\ (n + 1) - 1 = n  BY ONLY <1>1, <1>3, n \in Nat, SMT
  <2>2. devices[n + 1] \in Attached  BY ONLY <2>1, devices \in Seq(Attached), ElementOfSeq, Zenon
  <2>3. first(n + 1) = SubSeq(devices, 1, (n + 1) - 1) \o <<devices[n + 1]>>
    <3>1. n + 1 \in 1 .. n + 1 /\ 1 \in 1 .. Len(devices) /\ n + 1 \in 1 .. Len(devices)  BY <2>1, SMT
    <3> QED  BY ONLY <2>1, <3>1, devices \in Seq(Attached), SubSeqRecursiveSecond
  <2>4. first(n) \in Seq(Attached)
    <3>1. 1 \in 1 .. Len(devices) + 1 /\ n \in 1 - 1 .. Len(devices)  BY ONLY <1>1, <1>3, n \in Nat, SMT
    <3> QED  BY ONLY <3>1, devices \in Seq(Attached), Cut
  <2>5. Append(first(n), devices[n + 1]) = first(n) \o <<devices[n + 1]>>
    <3> HIDE DEF first
    <3> QED  BY ONLY <2>2, <2>4, AppendIsConcat
  <2> QED  BY ONLY <2>1, <2>2, <2>3, <2>5, Zenon
<1> HIDE DEF text
<1>4. first(0) = <<>>  BY SubSeqEmpty
<1> HIDE DEF first
<1>5. T \subseteq Nat /\ 0 \in T
  <2>1. NothingParsed = Between(<<>>)  BY DEF NothingParsed, Between
  <2>2. ParseOf(text[0]) = Between(first(0))  BY ONLY <1>2, <1>4, <2>1, NothingRead, Zenon
  <2>3. 0 \in Nat  OBVIOUS
  <2> QED  BY ONLY <2>2, <2>3, Zenon
<1>6. ASSUME NEW n \in T PROVE n + 1 \in T
  <2>1. n \in Nat /\ (n <= N => ParseOf(text[n]) = Between(first(n)))  BY DEF T
  <2> HIDE DEF T
  <2>2. n + 1 \in Nat  BY ONLY <2>1, SMT
  <2>3. ASSUME n + 1 <= N PROVE ParseOf(text[n + 1]) = Between(first(n + 1))
    <3>1. n <= N /\ n + 1 \in 1 .. N /\ n \in 0 .. N /\ (n + 1) - 1 = n  BY ONLY <1>1, <2>1, <2>3, SMT
    <3>2. text[n + 1] = text[n] \o Line(devices[n + 1])  BY ONLY <1>2, <3>1, Zenon
    <3> DEFINE s == text[n]
               d == first(n)
               device == devices[n + 1]
    <3>3. s \in Seq(Byte) /\ ParseOf(s) = Between(d) /\ device \in Attached
      BY ONLY <1>2, <1>3, <2>1, <2>3, <3>1, Zenon
    <3>4. first(n + 1) = Append(d, device)  BY ONLY <1>3, <2>1, <2>3, Zenon
    <3> HIDE DEF s, d, device
    <3>5. ParseOf(s \o Line(device)) = Between(Append(d, device))  BY ONLY <3>3, LineParsed, Zenon
    <3> QED  BY ONLY <3>2, <3>4, <3>5, Zenon DEF s, device
  <2> QED  BY ONLY <2>2, <2>3, Zenon DEF T
<1> HIDE DEF T
<1>7. T = Nat  BY ONLY <1>5, <1>6, SetInduction, Zenon
<1> DEFINE p == Listing(devices)
<1>8. p \in Seq(Byte) /\ ParseOf(p) = Between(devices)
  <2>1. N <= N /\ N \in 0 .. N  BY ONLY <1>1, SMT
  <2>2. p = text[N]  BY Zenon DEF Listing, text
  <2>3. ParseOf(text[N]) = Between(first(N))  BY ONLY <1>1, <1>7, <2>1, Zenon DEF T
  <2>4. first(N) = devices  BY SubSeqFull DEF first
  <2> QED  BY ONLY <1>2, <2>1, <2>2, <2>3, <2>4, Zenon
<1> HIDE DEF p
<1>9. Newline \in Byte  BY SMT DEF Newline, Byte
<1>10. Len(Append(p, Newline)) = Len(p) + 1  BY ONLY <1>8, <1>9, ByteAppend, Zenon
<1>11. ParseOf(Append(p, Newline)) = ParseChar(ParseOf(p), Newline)  BY ONLY <1>8, <1>9, OneMore, Zenon
<1>12. ParseDevices(p) = ParseChar(Between(devices), Newline).devices
  BY ONLY <1>8, <1>10, <1>11, Zenon DEF ParseDevices, ParseOf
<1>13. ParseChar(Between(devices), Newline).devices = devices
  <2> DEFINE b == Between(devices)
  <2>1. b.fields < 2 /\ b.devices = devices  BY DEF Between
  <2> HIDE DEF b
  <2>2. ParseChar(b, Newline) = [devices |-> devices, serial |-> <<>>, state |-> Tab, fields |-> 0, gap |-> TRUE]
    BY ONLY <2>1, Zenon DEF ParseChar
  <2>3. ParseChar(b, Newline).devices = devices  BY ONLY <2>2, SMT
  <2> QED  BY ONLY <2>3, Zenon DEF b
<1> QED  BY ONLY <1>8, <1>12, <1>13, Zenon DEF p

LEMMA ListRead ==
  ASSUME NEW m \in Listings
  PROVE  LET digits == HexDigits(Len(Listing(m.devices)))
             text == Listing(m.devices)
             got == [kind |-> "list", devices |-> ParseDevices(text)]
         IN  /\ SlicesOf(m) = <<digits \o text, <<>>>>
             /\ digits \in Seq(Byte) /\ Len(digits) = 4 /\ text \in Seq(Byte)
             /\ IsHex(digits) /\ HexValue(digits) = Len(text)
             /\ ~Ends(m) /\ ~Unknown(m) /\ got # Dropped /\ Means(m, got)
<1> DEFINE text == Listing(m.devices)
           n == Len(text)
           digits == HexDigits(n)
           got == [kind |-> "list", devices |-> ParseDevices(text)]
<1>1. m.kind = "list" /\ m.devices \in Seq(Attached) /\ m = [kind |-> "list", devices |-> m.devices]
  BY SMT DEF Listings
<1>2. n < 65536  BY SMT DEF Listings
<1>3. text \in Seq(Byte) /\ ParseDevices(text) = m.devices  BY ONLY <1>1, ListingParsed, Zenon
<1> HIDE DEF text
<1>4. n \in Word
  <2>1. n \in Nat  BY ONLY <1>3, LenProperties, SMT
  <2> HIDE DEF n
  <2> QED  BY ONLY <1>2, <2>1, SMT DEF Word
<1>5. digits \in Seq(Byte) /\ Len(digits) = 4 /\ IsHex(digits) /\ HexValue(digits) = n
  BY ONLY <1>4, HexRead, Zenon
<1>6. SlicesOf(m) = <<digits \o text, <<>>>>
  <2>1. EncodeList(m.devices) = digits \o text  BY Zenon DEF EncodeList, text
  <2> QED  BY ONLY <1>1, <2>1, Zenon DEF SlicesOf
<1>7. got = m  BY ONLY <1>1, <1>3, Zenon
<1> HIDE DEF got
<1>8. m # Dropped
  <2>1. Dropped.kind = "dropped"  BY DEF Dropped
  <2> QED  BY ONLY <1>1, <2>1, SMT
<1>9. ~Ends(m) /\ ~Unknown(m) /\ Means(m, m)  BY ONLY <1>1, Zenon DEF Ends, Unknown, Means
<1> QED  BY ONLY <1>3, <1>5, <1>6, <1>7, <1>8, <1>9, Zenon DEF text, got

----------------------------------------------------------------------------
(* The stream as a whole.  What a script may hold, by the stream it is of. *)
FrameMessages == Videos \cup Sent
ReplyMessages == Acks \cup Touches \cup Others
Ours    == Announced \cup FrameMessages \cup ReplyMessages \cup Listings

Scripted ==
  /\ script \in Seq(Ours)
  /\ side = "down" => \A i \in DOMAIN script : script[i] \in IF i = 1 THEN Announced ELSE FrameMessages
  /\ side = "up" => \A i \in DOMAIN script : script[i] \in ReplyMessages
  /\ side = "track" => \A i \in DOMAIN script : script[i] \in Listings

(* The bytes of the last so many messages of the script.                   *)
Text(m) == Bytes(SlicesOf(m))

Last(n) == script[Len(script) + 1 - n]

Rest ==
  LET rest[n \in 0 .. Len(script)] == IF n = 0 THEN <<>> ELSE Text(Last(n)) \o rest[n - 1]
  IN  rest

(* What is not written yet, and what the reader has before it, from its    *)
(* buffer to the end of the script.                                        *)
Beyond == Bytes(slices) \o Rest[Len(todo)]
Ahead  == buf \o (wire \o Beyond)

(* A message of which the header has been read.                            *)
HeaderRead(m) == IF m.kind = "list" THEN [kind |-> "list", length |-> Len(Listing(m.devices))]
                 ELSE ReadFrameHeader(SlicesOf(m)[1])
Payload(m) == IF m.kind = "list" THEN Listing(m.devices) ELSE SlicesOf(m)[2]

Sending ==
  /\ slices[1] \in Seq(Byte) /\ slices[2] \in Seq(Byte)
  /\ todo \in Seq(Ours) /\ Len(todo) <= Len(script)
  /\ \A i \in 1 .. Len(todo) : todo[i] = script[Len(script) - Len(todo) + i]
  /\ wire \in Seq(Byte)
  /\ buf \in Seq(Byte) /\ (side = "up" => Len(buf) < ReverseLen) /\ (side # "up" => buf = <<>>)

(* The reader stands between two messages, or has the header of one, with  *)
(* so many messages of the script before it.                               *)
Synced(n) ==
  /\ reader \in {"stream", "header", "payload", "ended"}
  /\ reader = "ended" => ~open
  /\ reader = "stream" => side = "down" /\ n = Len(script)
  /\ side = "down" /\ reader # "stream" /\ n = Len(script) => reader = "ended" /\ frame = Refused
  /\ reader = "payload" => frame # Refused
  /\ reader \in {"stream", "header"} => frame = Refused
  /\ frame = Refused => Ahead = Rest[n]
  /\ frame # Refused => /\ n > 0 /\ side # "up" /\ ~Ends(Last(n))
                        /\ frame = HeaderRead(Last(n))
                        /\ Ahead = Payload(Last(n)) \o Rest[n - 1]

Elements(s) == {s[i] : i \in DOMAIN s}

(* Of the messages before the last so many the reader has made what it is  *)
(* to make.                                                                *)
Told(n) ==
  /\ \A e \in 1 .. Len(script) - n : ~Ends(script[e])
  /\ taken \in Seq(Elements(taken)) /\ Len(taken) = Count(Len(script) - n)
  /\ \A i \in DOMAIN taken : \E h \in Heard : Count(h) = i /\ Means(script[h], taken[i])

(* The reader has given the connection up.                                 *)
Over(n) == n > 0 /\ Ends(Last(n)) /\ reader = "ended"

Reading == \E n \in 0 .. Len(script) : Told(n) /\ (Over(n) \/ (Sending /\ Synced(n)))

FramingInv ==
  /\ side \in {"down", "up", "track"} /\ Scripted
  /\ side # "track" => ~torn
  /\ ~torn => Reading
----------------------------------------------------------------------------
(* Taking from the front of a stream.                                      *)
LEMMA ByteCut ==
  ASSUME NEW w \in Seq(Byte), NEW k \in Nat, k <= Len(w)
  PROVE  /\ SubSeq(w, 1, k) \in Seq(Byte) /\ Len(SubSeq(w, 1, k)) = k
         /\ SubSeq(w, k + 1, Len(w)) \in Seq(Byte)
         /\ SubSeq(w, 1, k) \o SubSeq(w, k + 1, Len(w)) = w
<1>1. Len(w) \in Nat  BY LenProperties
<1>2. /\ 1 \in 1 .. Len(w) + 1 /\ k \in 1 - 1 .. Len(w) /\ (k - 1) + 1 = k
      /\ k + 1 \in 1 .. Len(w) + 1 /\ Len(w) \in (k + 1) - 1 .. Len(w) /\ Len(w) \in k .. Len(w)
  BY ONLY <1>1, k \in Nat, k <= Len(w), SMT
<1>3. SubSeq(w, 1, k) \in Seq(Byte) /\ Len(SubSeq(w, 1, k)) = k - 1 + 1  BY <1>2, Cut
<1>4. SubSeq(w, k + 1, Len(w)) \in Seq(Byte)  BY <1>2, Cut
<1>5. SubSeq(w, 1, k) \o SubSeq(w, k + 1, Len(w)) = SubSeq(w, 1, Len(w))
  BY <1>2, ConcatAdjacentSubSeq
<1>6. SubSeq(w, 1, Len(w)) = w  BY SubSeqFull
<1> QED  BY ONLY <1>2, <1>3, <1>4, <1>5, <1>6, Zenon

LEMMA Cancel ==
  ASSUME NEW p \in Seq(Byte), NEW x \in Seq(Byte), NEW u \in Seq(Byte), NEW v \in Seq(Byte),
         p \o x = u \o v, Len(p) = Len(u)
  PROVE  p = u /\ x = v
<1>1. \A i \in 1 .. Len(p) : (p \o x)[i] = p[i]  BY ByteCat
<1>2. \A i \in 1 .. Len(u) : (u \o v)[i] = u[i]  BY ByteCat
<1>3. \A i \in 1 .. Len(p) : p[i] = u[i]  BY ONLY <1>1, <1>2, p \o x = u \o v, Len(p) = Len(u), Zenon
<1>4. p = u  BY ONLY <1>3, p \in Seq(Byte), u \in Seq(Byte), Len(p) = Len(u), SeqEqual, Zenon
<1>5. p \o x = p \o v  BY ONLY <1>4, p \o x = u \o v, Zenon
<1>6. x = v
  <2>1. Len(p \o x) = Len(p) + Len(x) /\ Len(p \o v) = Len(p) + Len(v)  BY ByteCat
  <2>2. Len(p) \in Nat /\ Len(x) \in Nat /\ Len(v) \in Nat  BY LenProperties
  <2>3. Len(x) = Len(v)  BY ONLY <1>5, <2>1, <2>2, SMT
  <2>4. \A i \in 1 .. Len(x) : (p \o x)[Len(p) + i] = x[i]  BY ByteCat
  <2>5. \A i \in 1 .. Len(v) : (p \o v)[Len(p) + i] = v[i]  BY ByteCat
  <2>6. \A i \in 1 .. Len(x) : x[i] = v[i]  BY ONLY <1>5, <2>3, <2>4, <2>5, Zenon
  <2> QED  BY ONLY <2>3, <2>6, x \in Seq(Byte), v \in Seq(Byte), SeqEqual, Zenon
<1> QED  BY <1>4, <1>6

LEMMA Taking ==
  ASSUME NEW w \in Seq(Byte), NEW z \in Seq(Byte), NEW u \in Seq(Byte), NEW v \in Seq(Byte),
         w \o z = u \o v, Len(u) <= Len(w)
  PROVE  /\ SubSeq(w, 1, Len(u)) = u
         /\ SubSeq(w, Len(u) + 1, Len(w)) \in Seq(Byte)
         /\ SubSeq(w, Len(u) + 1, Len(w)) \o z = v
<1> DEFINE k == Len(u)
           p == SubSeq(w, 1, k)
           q == SubSeq(w, k + 1, Len(w))
<1>1. k \in Nat /\ k <= Len(w)  BY LenProperties
<1> HIDE DEF k
<1>2. p \in Seq(Byte) /\ Len(p) = k /\ q \in Seq(Byte) /\ p \o q = w
  BY ONLY <1>1, w \in Seq(Byte), ByteCut, Zenon
<1> HIDE DEF p, q
<1>8. p \in Seq(Byte) /\ q \in Seq(Byte) /\ z \in Seq(Byte)  BY <1>2
<1>3. (p \o q) \o z = p \o (q \o z)  BY ONLY <1>8, ByteAssoc, SMTT(30)
<1>4. p \o (q \o z) = u \o v  BY ONLY <1>2, <1>3, w \o z = u \o v, Zenon
<1>5. q \o z \in Seq(Byte)  BY ONLY <1>2, z \in Seq(Byte), ByteCat, Zenon
<1>6. Len(p) = Len(u)  BY <1>2 DEF k
<1>7. p = u /\ q \o z = v
  BY ONLY <1>2, <1>4, <1>5, <1>6, u \in Seq(Byte), v \in Seq(Byte), Cancel, Zenon
<1> QED  BY ONLY <1>2, <1>7, Zenon DEF k, p, q

LEMMA Empty ==
  ASSUME NEW s \in Seq(Byte), NEW t \in Seq(Byte)
  PROVE  /\ <<>> \o s = s /\ s \o <<>> = s
         /\ s \o t = <<>> => s = <<>> /\ t = <<>>
         /\ Len(s) \in Nat /\ (s # <<>> => Len(s) > 0)
<1>1. <<>> \o s = s /\ s \o <<>> = s  BY ConcatEmptySeq
<1>2. s \o t = <<>> => s = <<>> /\ t = <<>>  BY ConcatEqualIffEmpty
<1>3. Len(s) \in Nat  BY LenProperties
<1>4. s # <<>> => Len(s) \in Nat \ {0}  BY EmptySeq
<1>5. s # <<>> => Len(s) > 0  BY ONLY <1>3, <1>4, SMT
<1> QED  BY <1>1, <1>2, <1>3, <1>5

(* What has been taken of two slices is gone from the front of them.       *)
LEMMA Advanced ==
  ASSUME NEW s, s[1] \in Seq(Byte), s[2] \in Seq(Byte), NEW n \in Nat, n <= Len(Bytes(s))
  PROVE  /\ AdvanceSlices(s, n)[1] \in Seq(Byte) /\ AdvanceSlices(s, n)[2] \in Seq(Byte)
         /\ SubSeq(Bytes(s), 1, n) \in Seq(Byte)
         /\ SubSeq(Bytes(s), 1, n) \o Bytes(AdvanceSlices(s, n)) = Bytes(s)
<1> DEFINE a == s[1]
           b == s[2]
           k == Greatest(n - Len(a), 0)
           c == SubSeq(a, n + 1, Len(a))
           d == SubSeq(b, k + 1, Len(b))
<1>1. a \in Seq(Byte) /\ b \in Seq(Byte) /\ Len(a) \in Nat /\ Len(b) \in Nat  BY LenProperties
<1>2. Bytes(s) = a \o b  BY DEF Bytes
<1>3. AdvanceSlices(s, n)[1] = c /\ AdvanceSlices(s, n)[2] = d /\ Bytes(AdvanceSlices(s, n)) = c \o d
  BY DEF AdvanceSlices, Bytes
<1> HIDE DEF a, b
<1>4. a \o b \in Seq(Byte) /\ Len(a \o b) = Len(a) + Len(b)  BY ONLY <1>1, ByteCat, Zenon
<1>5. n <= Len(a) + Len(b)  BY <1>2, <1>4
<1>6. k \in Nat /\ k <= Len(b)  BY ONLY <1>1, <1>5, n \in Nat, SMT DEF Greatest
<1> DEFINE p == SubSeq(a \o b, 1, n)
           q == SubSeq(a \o b, n + 1, Len(a \o b))
<1>7. p \in Seq(Byte) /\ q \in Seq(Byte) /\ p \o q = a \o b /\ Len(p) = n
  <2>1. n <= Len(a \o b)  BY <1>4, <1>5
  <2> QED  BY ONLY <1>4, <2>1, n \in Nat, ByteCut, Zenon
<1>8. c \in Seq(Byte) /\ d \in Seq(Byte) /\ q = c \o d
  <2>1. CASE n <= Len(a)
    <3>1. k = 0  BY ONLY <1>1, <2>1, n \in Nat, SMT DEF Greatest
    <3>2. d = b
      <4>1. SubSeq(b, 1, Len(b)) = b  BY <1>1, SubSeqFull
      <4>2. 0 + 1 = 1  OBVIOUS
      <4> HIDE DEF k
      <4> QED  BY ONLY <3>1, <4>1, <4>2, Zenon
    <3> DEFINE e == SubSeq(a, 1, n)
    <3>3. e \in Seq(Byte) /\ c \in Seq(Byte) /\ e \o c = a /\ Len(e) = n
      BY ONLY <1>1, <2>1, n \in Nat, ByteCut, Zenon
    <3> HIDE DEF c, d, e, p, q, k
    <3>9. e \in Seq(Byte) /\ c \in Seq(Byte) /\ b \in Seq(Byte)  BY <1>1, <3>3
    <3>4. (e \o c) \o b = e \o (c \o b)  BY ONLY <3>9, ByteAssoc, Zenon
    <3>5. c \o b \in Seq(Byte)  BY ONLY <1>1, <3>3, ByteCat, Zenon
    <3>6. p \o q = e \o (c \o b)  BY ONLY <1>7, <3>3, <3>4, Zenon
    <3>7. Len(p) = Len(e)  BY ONLY <1>7, <3>3, Zenon
    <3>8. q = c \o b  BY ONLY <1>7, <3>3, <3>5, <3>6, <3>7, Cancel, Zenon
    <3> QED  BY ONLY <1>1, <3>2, <3>3, <3>8, Zenon
  <2>2. CASE ~(n <= Len(a))
    <3>1. k = n - Len(a) /\ n + 1 > Len(a) /\ n + 1 \in Int /\ Len(a) \in Int
      BY ONLY <1>1, <2>2, n \in Nat, SMT DEF Greatest
    <3>2. c = <<>>  BY ONLY <3>1, SubSeqEmpty
    <3> DEFINE e == SubSeq(b, 1, k)
    <3> HIDE DEF k
    <3>3. e \in Seq(Byte) /\ Len(e) = k /\ d \in Seq(Byte) /\ e \o d = b
      BY ONLY <1>1, <1>6, ByteCut, Zenon
    <3> HIDE DEF c, d, e, p, q
    <3>10. a \in Seq(Byte) /\ e \in Seq(Byte) /\ d \in Seq(Byte)  BY <1>1, <3>3
    <3>4. (a \o e) \o d = a \o (e \o d)  BY ONLY <3>10, ByteAssoc, Zenon
    <3>5. a \o e \in Seq(Byte) /\ Len(a \o e) = Len(a) + Len(e)  BY ONLY <1>1, <3>3, ByteCat, Zenon
    <3>6. Len(p) = Len(a \o e)  BY ONLY <1>1, <1>7, <3>1, <3>3, <3>5, n \in Nat, SMT
    <3>7. p \o q = (a \o e) \o d  BY ONLY <1>7, <3>3, <3>4, Zenon
    <3>8. q = d  BY ONLY <1>7, <3>3, <3>5, <3>6, <3>7, Cancel, Zenon
    <3>9. <<>> \in Seq(Byte) /\ <<>> \o d = d
      <4>1. <<>> \in Seq(Byte)  OBVIOUS
      <4> QED  BY ONLY <3>3, <4>1, Empty, Zenon
    <3> QED  BY ONLY <3>2, <3>3, <3>8, <3>9, Zenon
  <2> QED  BY <2>1, <2>2
<1> HIDE DEF c, d, p, q
<1>9. p \o (c \o d) = a \o b  BY ONLY <1>7, <1>8, Zenon
<1> QED  BY ONLY <1>2, <1>3, <1>7, <1>8, <1>9, Zenon DEF p

----------------------------------------------------------------------------
(* The text of a message, and what is read from the front of it.           *)
LEMMA FrameRead ==
  ASSUME NEW m \in FrameMessages
  PROVE  LET s == SlicesOf(m)
             f == ReadFrameHeader(s[1])
         IN  /\ s[1] \in Seq(Byte) /\ Len(s[1]) = 16 /\ s[2] \in Seq(Byte)
             /\ HeaderRead(m) = f /\ Payload(m) = s[2]
             /\ Ends(m) => f = Refused
             /\ ~Ends(m) => /\ f # Refused /\ f.length = Len(s[2])
                            /\ Unknown(m) => Handle(f, s[2]) = Dropped
                            /\ ~Unknown(m) => Handle(f, s[2]) # Dropped /\ Means(m, Handle(f, s[2]))
<1>1. m.kind # "list"
  <2>1. m \in Videos => m.kind = "video"  BY SMT DEF Videos
  <2>2. m \in Sent => m.kind = "control"  BY SMT DEF Sent
  <2> QED  BY <2>1, <2>2 DEF FrameMessages
<1>2. HeaderRead(m) = ReadFrameHeader(SlicesOf(m)[1]) /\ Payload(m) = SlicesOf(m)[2]
  BY <1>1 DEF HeaderRead, Payload
<1>3. m \in Videos \/ m \in Sent  BY DEF FrameMessages
<1>4. CASE m \in Videos  BY ONLY <1>2, <1>4, VideoRead, Zenon
<1>5. CASE m \in Sent  BY ONLY <1>2, <1>5, SentRead, Zenon
<1> QED  BY <1>3, <1>4, <1>5

LEMMA ReplyRead ==
  ASSUME NEW m \in ReplyMessages
  PROVE  LET s == SlicesOf(m)
             got == DecodeReverse(s[1])
         IN  /\ s[1] \in Seq(Byte) /\ Len(s[1]) = 9 /\ s[2] = <<>>
             /\ ~Ends(m)
             /\ Unknown(m) => got = Dropped
             /\ ~Unknown(m) => got # Dropped /\ Means(m, got)
<1>3. m \in Acks \/ m \in Touches \/ m \in Others  BY DEF ReplyMessages
<1>4. CASE m \in Acks  BY ONLY <1>4, AckRead, Zenon
<1>5. CASE m \in Touches  BY ONLY <1>5, TouchRead, Zenon
<1>6. CASE m \in Others  BY ONLY <1>6, OtherRead, Zenon
<1> QED  BY <1>3, <1>4, <1>5, <1>6

LEMMA Texts ==
  ASSUME NEW m \in Ours
  PROVE  /\ SlicesOf(m)[1] \in Seq(Byte) /\ SlicesOf(m)[2] \in Seq(Byte)
         /\ Text(m) = SlicesOf(m)[1] \o SlicesOf(m)[2]
         /\ Text(m) \in Seq(Byte) /\ Len(Text(m)) > 0
<1>1. Text(m) = SlicesOf(m)[1] \o SlicesOf(m)[2]  BY DEF Text, Bytes
<1> DEFINE a == SlicesOf(m)[1]
           b == SlicesOf(m)[2]
           e == <<>>
<1>2. e \in Seq(Byte)  OBVIOUS
<1>3. a \in Seq(Byte) /\ b \in Seq(Byte) /\ Len(a) > 0
  <2>1. CASE m \in Announced
    <3>1. a \in Seq(Byte) /\ Len(a) = 16 /\ b = e  BY <2>1, AnnouncedRead
    <3> HIDE DEF a, b, e
    <3> QED  BY <1>2, <3>1
  <2>2. CASE m \in FrameMessages
    <3>1. a \in Seq(Byte) /\ Len(a) = 16 /\ b \in Seq(Byte)  BY <2>2, FrameRead
    <3> HIDE DEF a, b, e
    <3> QED  BY <3>1
  <2>3. CASE m \in ReplyMessages
    <3>1. a \in Seq(Byte) /\ Len(a) = 9 /\ b = e  BY <2>3, ReplyRead
    <3> HIDE DEF a, b, e
    <3> QED  BY <1>2, <3>1
  <2>4. CASE m \in Listings
    <3> DEFINE digits == HexDigits(Len(Listing(m.devices)))
               text == Listing(m.devices)
    <3>1. SlicesOf(m) = <<digits \o text, e>> /\ digits \in Seq(Byte) /\ Len(digits) = 4 /\ text \in Seq(Byte)
      BY ONLY <2>4, ListRead, Zenon DEF e
    <3> HIDE DEF digits, text, e
    <3>2. a = digits \o text /\ b = e  BY ONLY <3>1, SMT
    <3>3. digits \o text \in Seq(Byte) /\ Len(digits \o text) = Len(digits) + Len(text)
      BY ONLY <3>1, ByteCat, Zenon
    <3>4. Len(text) \in Nat  BY <3>1, LenProperties
    <3>5. Len(digits \o text) > 0  BY ONLY <3>1, <3>3, <3>4, SMT
    <3> HIDE DEF a, b
    <3> QED  BY ONLY <1>2, <3>2, <3>3, <3>5, Zenon
  <2> QED  BY <2>1, <2>2, <2>3, <2>4 DEF Ours
<1> HIDE DEF a, b
<1>4. a \o b \in Seq(Byte) /\ Len(a \o b) = Len(a) + Len(b)  BY ONLY <1>3, ByteCat, Zenon
<1>5. Len(a) \in Nat /\ Len(b) \in Nat  BY <1>3, LenProperties
<1>6. Len(a \o b) > 0  BY ONLY <1>3, <1>4, <1>5, SMT
<1> QED  BY ONLY <1>1, <1>3, <1>4, <1>6, Zenon DEF a, b
(* The messages of the script from its end.                                *)
LEMMA LastOne ==
  ASSUME Scripted, NEW n \in 1 .. Len(script)
  PROVE  /\ Last(n) \in Ours
         /\ side = "down" => Last(n) \in IF n = Len(script) THEN Announced ELSE FrameMessages
         /\ side = "up" => Last(n) \in ReplyMessages
         /\ side = "track" => Last(n) \in Listings
         /\ Len(script) \in Nat /\ Last(n) = script[(Len(script) - n) + 1]
<1> DEFINE N == Len(script)
           i == N + 1 - n
<1>1. script \in Seq(Ours)  BY Zenon DEF Scripted
<1>2. N \in Nat /\ DOMAIN script = 1 .. N  BY <1>1, LenProperties
<1>8. n \in 1 .. N  OBVIOUS
<1>4. Last(n) = script[i]  BY DEF Last
<1>5. \A k \in 1 .. N : script[k] \in Ours  BY <1>1, ElementOfSeq
<1> HIDE DEF N
<1>3. i \in 1 .. N /\ (i = 1 <=> n = N) /\ i = (N - n) + 1
  BY ONLY <1>2, <1>8, SMT
<1> HIDE DEF i
<1>6. /\ side = "down" => script[i] \in IF i = 1 THEN Announced ELSE FrameMessages
      /\ side = "up" => script[i] \in ReplyMessages
      /\ side = "track" => script[i] \in Listings
  <2>1. i \in DOMAIN script  BY <1>2, <1>3
  <2> QED  BY <2>1, Zenon DEF Scripted
<1>7. side = "down" => script[i] \in IF n = N THEN Announced ELSE FrameMessages
  BY ONLY <1>3, <1>6, Zenon
<1> QED  BY ONLY <1>2, <1>3, <1>4, <1>5, <1>6, <1>7, Zenon DEF N

LEMMA RestDef ==
  ASSUME Scripted
  PROVE  /\ Rest[0] = <<>>
         /\ \A n \in 1 .. Len(script) : Rest[n] = Text(Last(n)) \o Rest[n - 1]
         /\ \A n \in 0 .. Len(script) : Rest[n] \in Seq(Byte)
<1> DEFINE N == Len(script)
           step == [n \in 1 .. N |-> [s \in Seq(Byte) |-> Text(Last(n)) \o s]]
           Is(f) == f = [n \in 0 .. N |-> IF n = 0 THEN <<>> ELSE Text(Last(n)) \o f[n - 1]]
           text == Rest
<1>1. N \in Nat  BY LenProperties DEF Scripted
<1>2. \A n \in 1 .. N : Text(Last(n)) \in Seq(Byte)
  <2> TAKE n \in 1 .. N
  <2>1. Last(n) \in Ours  BY LastOne
  <2> QED  BY <2>1, Texts
<1> HIDE DEF N
<1>3. \A n \in 1 .. N : \A s \in Seq(Byte) : Text(Last(n)) \o s \in Seq(Byte)
  BY ONLY <1>2, ByteCat, Zenon
<1>4. \A n \in 1 .. N : \A s \in Seq(Byte) : step[n][s] = Text(Last(n)) \o s
  BY Zenon
<1>14. step \in Steps(N, Seq(Byte))  BY ONLY <1>3, Zenon DEF Steps
<1> HIDE DEF step
<1> DEFINE nothing == <<>>
<1>5. nothing \in Seq(Byte)  OBVIOUS
<1> HIDE DEF nothing
<1>6. PICK g \in [0 .. N -> Seq(Byte)] : g[0] = nothing /\ \A n \in 1 .. N : g[n] = step[n][g[n - 1]]
  <2>1. Iterated(N, Seq(Byte), step, nothing)  BY ONLY <1>1, <1>5, <1>14, Recursion, Zenon
  <2> QED  BY ONLY <2>1, Zenon DEF Iterated
<1>7. \A n \in 0 .. N : n # 0 => n \in 1 .. N /\ n - 1 \in 0 .. N  BY ONLY <1>1, SMT
<1>8. Is(g)
  <2>1. ASSUME NEW n \in 0 .. N
        PROVE g[n] = IF n = 0 THEN <<>> ELSE Text(Last(n)) \o g[n - 1]
    <3>1. CASE n = 0  BY ONLY <1>6, <3>1, Zenon DEF nothing
    <3>2. CASE n # 0
      <4>1. n \in 1 .. N /\ n - 1 \in 0 .. N  BY ONLY <1>7, <3>2, n \in 0 .. N, Zenon
      <4>2. g[n - 1] \in Seq(Byte)  BY ONLY <4>1, g \in [0 .. N -> Seq(Byte)], Zenon
      <4>3. g[n] = Text(Last(n)) \o g[n - 1]  BY ONLY <1>4, <1>6, <4>1, <4>2, Zenon
      <4> QED  BY ONLY <3>2, <4>3, Zenon
    <3> QED  BY <3>1, <3>2
  <2> QED  BY ONLY <2>1, g \in [0 .. N -> Seq(Byte)], Zenon
<1>9. text = CHOOSE f : Is(f)  BY Zenon DEF Rest, N
<1>10. Is(text)  BY ONLY <1>8, <1>9, Zenon
<1> HIDE DEF text
<1>11. text[0] = <<>>
  <2>1. 0 \in 0 .. N  BY ONLY <1>1, SMT
  <2> QED  BY ONLY <1>10, <2>1, Zenon
<1>12. ASSUME NEW n \in 1 .. N PROVE text[n] = Text(Last(n)) \o text[n - 1]
  <2>1. n \in 0 .. N /\ n # 0  BY ONLY <1>1, n \in 1 .. N, SMT
  <2> QED  BY ONLY <1>10, <2>1, Zenon
<1>13. \A n \in 0 .. N : text[n] \in Seq(Byte)
  <2> DEFINE T == {n \in Nat : n <= N => text[n] \in Seq(Byte)}
  <2>1. T \subseteq Nat /\ 0 \in T
    <3>1. text[0] \in Seq(Byte)  BY ONLY <1>5, <1>11, Zenon DEF nothing
    <3>2. 0 \in Nat  OBVIOUS
    <3> QED  BY ONLY <3>1, <3>2, Zenon
  <2>2. ASSUME NEW n \in T PROVE n + 1 \in T
    <3>1. n \in Nat /\ (n <= N => text[n] \in Seq(Byte))  OBVIOUS
    <3>2. CASE n + 1 <= N
      <4>1. n <= N /\ n + 1 \in 1 .. N /\ (n + 1) - 1 = n /\ n + 1 \in Nat  BY ONLY <1>1, <3>1, <3>2, SMT
      <4>2. text[n + 1] = Text(Last(n + 1)) \o text[n]  BY ONLY <1>12, <4>1, Zenon
      <4>3. text[n + 1] \in Seq(Byte)  BY ONLY <1>3, <3>1, <4>1, <4>2, Zenon
      <4> QED  BY <4>1, <4>3
    <3>3. CASE ~(n + 1 <= N)
      <4>1. n + 1 \in Nat  BY ONLY <3>1, SMT
      <4> QED  BY <3>3, <4>1
    <3> QED  BY <3>2, <3>3
  <2> HIDE DEF T
  <2>3. T = Nat  BY ONLY <2>1, <2>2, SetInduction, Zenon
  <2>4. \A n \in 0 .. N : n \in Nat /\ n <= N  BY ONLY <1>1, SMT
  <2> QED  BY ONLY <2>3, <2>4, Zenon DEF T
<1> QED  BY ONLY <1>11, <1>12, <1>13, Zenon DEF text, N

(* While bytes are left a message is left.                                 *)
LEMMA MoreToCome ==
  ASSUME Scripted, NEW n \in 0 .. Len(script)
  PROVE  Rest[n] = <<>> <=> n = 0
<1>1. Len(script) \in Nat  BY LenProperties DEF Scripted
<1>2. CASE n = 0  BY <1>2, RestDef
<1>3. CASE n # 0
  <2>1. n \in 1 .. Len(script) /\ n - 1 \in 0 .. Len(script)  BY ONLY <1>1, <1>3, n \in 0 .. Len(script), SMT
  <2> DEFINE a == Text(Last(n))
             b == Rest[n - 1]
  <2>2. Rest[n] = a \o b /\ b \in Seq(Byte)  BY <2>1, RestDef
  <2>3. a \in Seq(Byte) /\ Len(a) > 0  BY <2>1, LastOne, Texts
  <2> HIDE DEF a, b
  <2>4. Len(a \o b) = Len(a) + Len(b) /\ Len(a) \in Nat /\ Len(b) \in Nat
    BY <2>2, <2>3, ByteCat, LenProperties
  <2>5. Len(a \o b) # 0  BY ONLY <2>3, <2>4, SMT
  <2>6. Len(<<>>) = 0  OBVIOUS
  <2>7. a \o b # <<>>  BY ONLY <2>5, <2>6, SMT
  <2> QED  BY ONLY <1>3, <2>2, <2>7, Zenon
<1> QED  BY <1>2, <1>3
----------------------------------------------------------------------------
(* Counting the messages that are to be heard.                             *)
Upto(n) == {h \in Heard : h <= n}

LEMMA HeardTyped ==
  ASSUME Scripted
  PROVE  /\ Len(script) \in Nat /\ Heard \subseteq 1 .. Len(script) /\ IsFiniteSet(Heard)
         /\ \A n : /\ IsFiniteSet(Upto(n)) /\ Count(n) = Cardinality(Upto(n)) /\ Count(n) \in Nat
<1>1. script \in Seq(Ours)  BY Zenon DEF Scripted
<1>2. Len(script) \in Nat /\ DOMAIN script = 1 .. Len(script)  BY <1>1, LenProperties
<1>3. Heard \subseteq 1 .. Len(script)  BY ONLY <1>2, Zenon DEF Heard
<1>4. IsFiniteSet(1 .. Len(script))  BY ONLY <1>2, FS_Interval, 1 \in Int, Len(script) \in Int, SMT
<1>5. IsFiniteSet(Heard)  BY <1>3, <1>4, FS_Subset
<1>6. ASSUME NEW n PROVE IsFiniteSet(Upto(n)) /\ Count(n) = Cardinality(Upto(n)) /\ Count(n) \in Nat
  <2>1. Upto(n) \subseteq Heard  BY DEF Upto
  <2>2. IsFiniteSet(Upto(n))  BY <1>5, <2>1, FS_Subset
  <2>3. Count(n) = Cardinality(Upto(n))  BY DEF Count, Upto
  <2>4. Cardinality(Upto(n)) \in Nat  BY <2>2, FS_CardinalityType
  <2> QED  BY <2>2, <2>3, <2>4
<1> QED  BY <1>2, <1>3, <1>5, <1>6

LEMMA CountNone ==
  ASSUME Scripted
  PROVE  Count(0) = 0
<1>1. Upto(0) = {}  BY HeardTyped DEF Upto
<1>2. Count(0) = Cardinality(Upto(0))  BY HeardTyped
<1> QED  BY <1>1, <1>2, FS_EmptySet

LEMMA CountNext ==
  ASSUME Scripted, NEW j \in Nat, j + 1 <= Len(script),
         \A e \in 1 .. j : ~Ends(script[e]), ~Ends(script[j + 1])
  PROVE  /\ Unknown(script[j + 1]) => Count(j + 1) = Count(j)
         /\ ~Unknown(script[j + 1]) => Count(j + 1) = Count(j) + 1 /\ j + 1 \in Heard
<1>1. script \in Seq(Ours)  BY Zenon DEF Scripted
<1>2. Len(script) \in Nat /\ DOMAIN script = 1 .. Len(script)  BY <1>1, LenProperties
<1>3. j + 1 \in DOMAIN script  BY ONLY <1>2, j \in Nat, j + 1 <= Len(script), SMT
<1>4. \A e \in 1 .. j + 1 : e \in 1 .. j \/ e = j + 1  BY ONLY j \in Nat, SMT
<1>5. \A e \in 1 .. j + 1 : ~Ends(script[e])  BY ONLY <1>4, \A e \in 1 .. j : ~Ends(script[e]), ~Ends(script[j + 1]), Zenon
<1>6. j + 1 \in Heard <=> ~Unknown(script[j + 1])  BY ONLY <1>3, <1>5, Zenon DEF Heard
<1>7. \A h \in Heard : h \in Nat  BY HeardTyped
<1>8. /\ \A h \in Heard : h <= j + 1 <=> h <= j \/ h = j + 1
      /\ ~(j + 1 <= j)
  BY ONLY <1>7, j \in Nat, SMT
<1>9. Count(j) = Cardinality(Upto(j)) /\ IsFiniteSet(Upto(j)) /\ Count(j + 1) = Cardinality(Upto(j + 1))
  BY HeardTyped
<1>10. CASE Unknown(script[j + 1])
  <2>1. Upto(j + 1) = Upto(j)  BY ONLY <1>6, <1>8, <1>10, Zenon DEF Upto
  <2> QED  BY <1>9, <1>10, <2>1
<1>11. CASE ~Unknown(script[j + 1])
  <2>1. Upto(j + 1) = Upto(j) \cup {j + 1}
    <3>1. \A h : h \in Upto(j + 1) <=> h \in Heard /\ (h <= j \/ h = j + 1)  BY ONLY <1>8, Zenon DEF Upto
    <3>2. \A h : h \in Upto(j) \cup {j + 1} <=> (h \in Heard /\ h <= j) \/ h = j + 1  BY ONLY Zenon DEF Upto
    <3>3. \A h : h \in Upto(j + 1) <=> h \in Upto(j) \cup {j + 1}
      BY ONLY <1>6, <1>11, <3>1, <3>2
    <3> QED  BY ONLY <3>3
  <2>2. j + 1 \notin Upto(j)  BY <1>8 DEF Upto
  <2>3. Cardinality(Upto(j) \cup {j + 1}) = Cardinality(Upto(j)) + 1  BY ONLY <1>9, <2>2, FS_AddElement, SMT
  <2> QED  BY <1>6, <1>9, <1>11, <2>1, <2>3
<1> QED  BY <1>10, <1>11

LEMMA CountAll ==
  ASSUME Scripted, NEW j \in 0 .. Len(script), j = Len(script) \/ Ends(script[j + 1])
  PROVE  Count(j) = Cardinality(Heard)
<1>1. Heard \subseteq 1 .. Len(script) /\ Len(script) \in Nat  BY HeardTyped
<1>2. ASSUME NEW h \in Heard PROVE h <= j
  <2>1. h \in 1 .. Len(script) /\ \A e \in 1 .. h : ~Ends(script[e])  BY <1>1 DEF Heard
  <2>2. CASE j = Len(script)  BY ONLY <1>1, <2>1, <2>2, SMT
  <2>3. CASE Ends(script[j + 1])
    <3>1. j + 1 \notin 1 .. h  BY <2>1, <2>3
    <3> QED  BY ONLY <1>1, <2>1, <3>1, j \in 0 .. Len(script), SMT
  <2> QED  BY <2>2, <2>3
<1>3. Upto(j) = Heard  BY <1>2 DEF Upto
<1> QED  BY <1>3, HeardTyped
----------------------------------------------------------------------------
(* What the reader has made of the messages.                               *)
LEMMA Appended ==
  ASSUME NEW s, s \in Seq(Elements(s)), NEW x
  PROVE  /\ Append(s, x) \in Seq(Elements(Append(s, x)))
         /\ Len(Append(s, x)) = Len(s) + 1 /\ DOMAIN Append(s, x) = 1 .. Len(s) + 1
         /\ \A i \in 1 .. Len(s) : Append(s, x)[i] = s[i]
         /\ Append(s, x)[Len(s) + 1] = x
<1> DEFINE S == Elements(s) \cup {x}
           a == Append(s, x)
           E == Elements(a)
           k == Len(s) + 1
<1>1. s \in Seq(S)
  <2>1. Elements(s) \subseteq S  OBVIOUS
  <2> HIDE DEF S
  <2> QED  BY ONLY <2>1, s \in Seq(Elements(s)), SeqMonotonic, Zenon
<1>2. x \in S  OBVIOUS
<1> HIDE DEF S
<1>3. /\ a \in Seq(S) /\ Len(a) = k
      /\ \A i \in 1 .. Len(s) : a[i] = s[i]
      /\ a[k] = x
  BY ONLY <1>1, <1>2, AppendProperties
<1> HIDE DEF k, a
<1>4. DOMAIN a = 1 .. k /\ k \in Nat /\ a = [i \in 1 .. k |-> a[i]]
  BY <1>3, LenProperties
<1>5. \A i \in 1 .. k : a[i] \in E  BY ONLY <1>4, Zenon DEF Elements
<1>6. a \in [1 .. k -> E]
  <2> HIDE DEF E
  <2> QED  BY ONLY <1>4, <1>5, Zenon
<1>7. a \in Seq(E)
  <2> HIDE DEF E
  <2> QED  BY ONLY <1>4, <1>6, Listed, Zenon
<1> QED  BY <1>3, <1>4, <1>7 DEF a, k

LEMMA NoneTold ==
  ASSUME Scripted, taken = <<>>
  PROVE  Told(Len(script))
<1>1. Len(script) \in Nat  BY HeardTyped
<1>2. Len(script) - Len(script) = 0  BY <1>1
<1>3. 1 .. 0 = {}  BY SMT
<1>4. \A e \in 1 .. Len(script) - Len(script) : ~Ends(script[e])  BY ONLY <1>2, <1>3, Zenon
<1>5. taken \in Seq(Elements(taken)) /\ Len(taken) = 0 /\ DOMAIN taken = {}
  <2> DEFINE S == Elements(taken)
  <2> HIDE DEF S
  <2>1. taken \in Seq(S) /\ Len(taken) = 0 /\ DOMAIN taken = {}  BY ONLY taken = <<>>, SMT
  <2> QED  BY <2>1 DEF S
<1>6. Len(taken) = Count(Len(script) - Len(script))  BY ONLY <1>2, <1>5, Scripted, CountNone, Zenon
<1> QED  BY ONLY <1>4, <1>5, <1>6, Zenon DEF Told

LEMMA OneTold ==
  ASSUME Scripted, NEW n \in 1 .. Len(script), Told(n), ~Ends(Last(n)), script' = script,
         NEW got, Took(got),
         Unknown(Last(n)) => got = Dropped,
         ~Unknown(Last(n)) => got # Dropped /\ Means(Last(n), got)
  PROVE  Told(n - 1)'
<1> DEFINE j == Len(script) - n
           S == Elements(taken)
<1>1. Len(script) \in Nat /\ j \in Nat /\ j + 1 <= Len(script) /\ Len(script) - (n - 1) = j + 1
  <2>1. Len(script) \in Nat  BY HeardTyped
  <2> QED  BY ONLY <2>1, n \in 1 .. Len(script), SMT
<1>2. /\ \A e \in 1 .. j : ~Ends(script[e])
      /\ taken \in Seq(S) /\ Len(taken) = Count(j)
      /\ \A i \in DOMAIN taken : \E h \in Heard : Count(h) = i /\ Means(script[h], taken[i])
  BY Zenon DEF Told
<1>3. Last(n) = script[j + 1]  BY LastOne
<1> HIDE DEF j
<1>4. ~Ends(script[j + 1])  BY <1>3
<1>5. /\ Unknown(script[j + 1]) => Count(j + 1) = Count(j)
      /\ ~Unknown(script[j + 1]) => Count(j + 1) = Count(j) + 1 /\ j + 1 \in Heard
  BY ONLY <1>1, <1>2, <1>4, Scripted, CountNext, Zenon
<1>6. \A e \in 1 .. j + 1 : ~Ends(script[e])
  <2>1. \A e \in 1 .. j + 1 : e \in 1 .. j \/ e = j + 1  BY ONLY <1>1, SMT
  <2> QED  BY ONLY <1>2, <1>4, <2>1, Zenon
<1>7. /\ taken' \in Seq(Elements(taken')) /\ Len(taken') = Count(j + 1)
      /\ \A i \in DOMAIN taken' : \E h \in Heard : Count(h) = i /\ Means(script[h], taken'[i])
  <2>1. CASE Unknown(Last(n))
    <3>1. taken' = taken  BY <2>1 DEF Took
    <3> QED  BY ONLY <1>2, <1>3, <1>5, <2>1, <3>1, Zenon
  <2>2. CASE ~Unknown(Last(n))
    <3>1. taken' = Append(taken, got)  BY <2>2 DEF Took
    <3>2. Count(j + 1) = Count(j) + 1 /\ j + 1 \in Heard /\ Means(script[j + 1], got)
      BY <1>3, <1>5, <2>2
    <3>3. /\ taken' \in Seq(Elements(taken')) /\ Len(taken') = Len(taken) + 1
          /\ DOMAIN taken' = 1 .. Len(taken) + 1
          /\ \A i \in 1 .. Len(taken) : taken'[i] = taken[i]
          /\ taken'[Len(taken) + 1] = got
      BY ONLY <1>2, <3>1, Appended, SMT
    <3>4. DOMAIN taken = 1 .. Len(taken) /\ Len(taken) \in Nat  BY ONLY <1>2, LenProperties, Zenon
    <3>5. \A i \in DOMAIN taken' : i \in DOMAIN taken \/ i = Len(taken) + 1  BY ONLY <3>3, <3>4, SMT
    <3>6. ASSUME NEW i \in DOMAIN taken'
          PROVE \E h \in Heard : Count(h) = i /\ Means(script[h], taken'[i])
      <4>1. CASE i \in DOMAIN taken
        <5>1. taken'[i] = taken[i]  BY ONLY <3>3, <3>4, <4>1, Zenon
        <5> QED  BY ONLY <1>2, <4>1, <5>1, Zenon
      <4>2. CASE i = Len(taken) + 1
        <5>1. taken'[i] = got /\ Count(j + 1) = i  BY ONLY <1>2, <3>2, <3>3, <4>2, Zenon
        <5> QED  BY ONLY <3>2, <5>1, Zenon
      <4> QED  BY <3>5, <4>1, <4>2
    <3>7. Len(taken') = Count(j + 1)  BY ONLY <1>2, <3>2, <3>3, Zenon
    <3> QED  BY ONLY <3>3, <3>6, <3>7, Zenon
  <2> QED  BY <2>1, <2>2
<1>8. Heard' = Heard  BY DEF Heard
<1>9. \A i : Count(i)' = Count(i)  BY <1>8 DEF Count
<1>10. Len(script') - (n - 1) = j + 1  BY <1>1
<1>11. Count(Len(script) - (n - 1))' = Count(j + 1)  BY ONLY <1>9, <1>10, script' = script
<1> QED  BY ONLY <1>6, <1>7, <1>8, <1>9, <1>10, <1>11, script' = script, Zenon DEF Told
----------------------------------------------------------------------------
(* What a step leaves as it is.                                            *)
LEMMA SameScript ==
  ASSUME script' = script
  PROVE  Rest' = Rest /\ (\A n : Last(n)' = Last(n)) /\ Heard' = Heard /\ \A n : Count(n)' = Count(n)
<1>1. \A n : Last(n)' = Last(n)  BY DEF Last
<1>2. Rest' = Rest  BY <1>1, Zenon DEF Rest, Last
<1>3. Heard' = Heard  BY DEF Heard
<1>4. \A n : Count(n)' = Count(n)  BY <1>3 DEF Count
<1> QED  BY <1>1, <1>2, <1>3, <1>4

LEMMA SameTold ==
  ASSUME script' = script, taken' = taken, NEW n, Told(n)
  PROVE  Told(n)'
<1>1. Heard' = Heard /\ \A k : Count(k)' = Count(k)  BY SameScript
<1>2. Count(Len(script) - n)' = Count(Len(script) - n)  BY ONLY <1>1, script' = script
<1> QED  BY ONLY <1>1, <1>2, script' = script, taken' = taken, Told(n), Zenon DEF Told

LEMMA SameOver ==
  ASSUME script' = script, reader' = reader, NEW n, Over(n)
  PROVE  Over(n)'
<1>1. Last(n)' = Last(n)  BY DEF Last
<1> QED  BY ONLY <1>1, reader' = reader, Over(n), Zenon DEF Over

LEMMA SameScripted ==
  ASSUME script' = script, side' = side, Scripted
  PROVE  Scripted'
BY Zenon DEF Scripted

LEMMA StillReading ==
  ASSUME script' = script, NEW n \in 0 .. Len(script), Told(n)', Over(n)' \/ (Sending' /\ Synced(n)')
  PROVE  Reading'
BY Zenon DEF Reading

(* The bytes before the reader, while there are messages to come.          *)
LEMMA Incoming ==
  ASSUME Scripted, Sending
  PROVE  /\ Len(script) \in Nat /\ Len(todo) \in 0 .. Len(script)
         /\ wire \in Seq(Byte) /\ buf \in Seq(Byte) /\ Bytes(slices) \in Seq(Byte)
         /\ Rest[Len(todo)] \in Seq(Byte) /\ Beyond \in Seq(Byte) /\ wire \o Beyond \in Seq(Byte)
         /\ side # "up" => Ahead = wire \o Beyond
<1>1. /\ slices[1] \in Seq(Byte) /\ slices[2] \in Seq(Byte)
      /\ todo \in Seq(Ours) /\ Len(todo) <= Len(script)
      /\ wire \in Seq(Byte) /\ buf \in Seq(Byte) /\ (side # "up" => buf = <<>>)
  BY Zenon DEF Sending
<1>2. Len(script) \in Nat  BY HeardTyped
<1>3. Len(todo) \in 0 .. Len(script)
  <2>1. Len(todo) \in Nat  BY ONLY <1>1, LenProperties, Zenon
  <2> QED  BY ONLY <1>1, <1>2, <2>1, SMT
<1>4. Bytes(slices) \in Seq(Byte)  BY ONLY <1>1, ByteCat, Zenon DEF Bytes
<1>5. Rest[Len(todo)] \in Seq(Byte)  BY <1>3, RestDef
<1>6. Beyond \in Seq(Byte)  BY ONLY <1>4, <1>5, ByteCat, Zenon DEF Beyond
<1>7. wire \o Beyond \in Seq(Byte)  BY ONLY <1>1, <1>6, ByteCat, Zenon
<1>8. side # "up" => Ahead = wire \o Beyond
  <2>1. <<>> \o (wire \o Beyond) = wire \o Beyond  BY ONLY <1>7, ConcatEmptySeq
  <2> QED  BY ONLY <1>1, <2>1, Zenon DEF Ahead
<1> QED  BY <1>1, <1>2, <1>3, <1>4, <1>5, <1>6, <1>7, <1>8

(* A step of the writer that leaves what is before the reader.             *)
LEMMA SameSynced ==
  ASSUME NEW n, Synced(n), script' = script, side' = side, reader' = reader, frame' = frame,
         open' => open, Ahead' = Ahead
  PROVE  Synced(n)'
<1>1. Rest' = Rest /\ Last(n)' = Last(n)  BY SameScript
<1> QED
  BY ONLY <1>1, Synced(n), script' = script, side' = side, reader' = reader, frame' = frame,
          open' => open, Ahead' = Ahead, Zenon DEF Synced
----------------------------------------------------------------------------
(* The writer's steps.                                                     *)
LEMMA BeginKeeps ==
  ASSUME Scripted, Sending, Begin
  PROVE  Sending' /\ Ahead' = Ahead
<1> DEFINE N == Len(script)
           k == Len(todo)
           m == Head(todo)
           i == N - k + 1
<1>1. /\ todo \in Seq(Ours) /\ todo # <<>> /\ todo' = Tail(todo) /\ slices = Written /\ slices' = SlicesOf(m)
      /\ script' = script /\ side' = side /\ wire' = wire /\ buf' = buf
  BY Zenon DEF Begin, Sending, read
<1>2. N \in Nat /\ k \in 0 .. N  BY Incoming
<1>3. /\ m \in Ours /\ m = todo[1] /\ Tail(todo) \in Seq(Ours) /\ Len(Tail(todo)) = k - 1
      /\ \A j \in 1 .. k - 1 : Tail(todo)[j] = todo[j + 1]
      /\ k \in Nat \ {0}
  BY ONLY <1>1, HeadTailProperties, EmptySeq, ElementOfSeq, SMT
<1>4. \A j \in 1 .. k : todo[j] = script[N - k + j]  BY Zenon DEF Sending
<1> HIDE DEF k, N, m
<1>5. 1 \in 1 .. k /\ k \in 1 .. N /\ k - 1 <= N /\ N + 1 - k = N - k + 1  BY ONLY <1>2, <1>3, SMT
<1>6. m = Last(k)
  <2>1. m = script[N - k + 1]  BY ONLY <1>3, <1>4, <1>5, Zenon
  <2>2. Last(k) = script[N + 1 - k]  BY DEF Last, N
  <2> QED  BY ONLY <1>5, <2>1, <2>2, Zenon
<1>7. slices'[1] \in Seq(Byte) /\ slices'[2] \in Seq(Byte) /\ Bytes(slices') = Text(m)
  BY ONLY <1>1, <1>3, Texts, Zenon DEF Text
<1>8. ASSUME NEW j \in 1 .. k - 1 PROVE Tail(todo)[j] = script[N - (k - 1) + j]
  <2>1. j + 1 \in 1 .. k /\ N - k + (j + 1) = N - (k - 1) + j  BY ONLY <1>2, <1>3, j \in 1 .. k - 1, SMT
  <2> QED  BY ONLY <1>3, <1>4, <2>1, j \in 1 .. k - 1, Zenon
<1>9. Sending'
  <2>1. /\ wire \in Seq(Byte) /\ buf \in Seq(Byte)
        /\ (side = "up" => Len(buf) < ReverseLen) /\ (side # "up" => buf = <<>>)
    BY Zenon DEF Sending
  <2>2. \A j \in 1 .. Len(Tail(todo)) : Tail(todo)[j] = script[N - Len(Tail(todo)) + j]
    BY ONLY <1>3, <1>8, Zenon
  <2>3. Len(Tail(todo)) <= N  BY ONLY <1>3, <1>5, Zenon
  <2> QED  BY ONLY <1>1, <1>3, <1>7, <2>1, <2>2, <2>3, Zenon DEF Sending, N
<1>10. Beyond' = Beyond
  <2>1. Rest[k] = Text(m) \o Rest[k - 1]
    <3>1. Rest[k] = Text(Last(k)) \o Rest[k - 1]  BY ONLY <1>5, Scripted, RestDef, Zenon DEF N
    <3> QED  BY ONLY <1>6, <3>1, Zenon
  <2>2. Beyond = <<>> \o Rest[k]
    <3>1. Bytes(Written) = <<>>  BY SMT DEF Bytes, Written
    <3> QED  BY ONLY <1>1, <3>1, Zenon DEF Beyond, k
  <2>3. <<>> \o Rest[k] = Rest[k]
    <3>1. Rest[k] \in Seq(Byte)  BY Incoming DEF k
    <3> QED  BY ONLY <3>1, ConcatEmptySeq
  <2>4. Rest' = Rest  BY <1>1, SameScript
  <2>5. Len(todo') = k - 1  BY ONLY <1>1, <1>3, Zenon
  <2>6. Beyond' = Bytes(slices') \o Rest[k - 1]  BY ONLY <2>4, <2>5, Zenon DEF Beyond
  <2> QED  BY ONLY <1>7, <2>1, <2>2, <2>3, <2>6, Zenon
<1>11. Ahead' = Ahead  BY ONLY <1>1, <1>10, Zenon DEF Ahead
<1> QED  BY <1>9, <1>11

LEMMA WriteKeeps ==
  ASSUME Scripted, Sending, Write
  PROVE  Sending' /\ Ahead' = Ahead
<1>1. PICK n \in 1 .. Len(Bytes(slices)) :
        wire' = wire \o SubSeq(Bytes(slices), 1, n) /\ slices' = AdvanceSlices(slices, n)
  BY Zenon DEF Write
<1>2. script' = script /\ side' = side /\ todo' = todo /\ buf' = buf  BY Zenon DEF Write, read
<1>3. /\ slices[1] \in Seq(Byte) /\ slices[2] \in Seq(Byte)
      /\ wire \in Seq(Byte) /\ Bytes(slices) \in Seq(Byte) /\ Rest[Len(todo)] \in Seq(Byte)
  BY Zenon, Incoming DEF Sending
<1> DEFINE b == Bytes(slices)
           c == Bytes(slices')
           p == SubSeq(b, 1, n)
           r == Rest[Len(todo)]
<1>4. n \in Nat /\ n <= Len(b)
  <2>1. Len(b) \in Nat  BY <1>3, LenProperties
  <2> HIDE DEF b
  <2>2. n \in 1 .. Len(b)  BY DEF b
  <2> QED  BY ONLY <2>1, <2>2, SMT
<1>5. slices'[1] \in Seq(Byte) /\ slices'[2] \in Seq(Byte) /\ p \in Seq(Byte) /\ p \o c = b
  <2> DEFINE a == AdvanceSlices(slices, n)
  <2>1. slices[1] \in Seq(Byte) /\ slices[2] \in Seq(Byte)  BY <1>3
  <2>2. /\ a[1] \in Seq(Byte) /\ a[2] \in Seq(Byte)
        /\ SubSeq(Bytes(slices), 1, n) \in Seq(Byte)
        /\ SubSeq(Bytes(slices), 1, n) \o Bytes(a) = Bytes(slices)
    BY ONLY <1>4, <2>1, Advanced
  <2>3. slices' = a  BY <1>1
  <2> HIDE DEF a
  <2> QED  BY ONLY <2>2, <2>3, Zenon
<1>6. c \in Seq(Byte)  BY ONLY <1>5, ByteCat, Zenon DEF Bytes
<1>7. r \in Seq(Byte) /\ b \in Seq(Byte) /\ wire \in Seq(Byte)  BY <1>3
<1>8. wire' = wire \o p  BY <1>1
<1>9. Beyond = b \o r  BY DEF Beyond
<1>10. Beyond' = c \o r
  <2>1. Rest' = Rest  BY <1>2, SameScript
  <2> QED  BY ONLY <1>2, <2>1, Zenon DEF Beyond
<1> HIDE DEF b, c, p, r
<1>11. wire' \in Seq(Byte)
  <2>1. p \in Seq(Byte)  BY <1>5
  <2> QED  BY ONLY <1>7, <1>8, <2>1, ByteCat, Zenon
<1>12. wire' \o Beyond' = wire \o Beyond
  <2>0. p \in Seq(Byte)  BY <1>5
  <2>1. c \o r \in Seq(Byte)  BY ONLY <1>6, <1>7, ByteCat, Zenon
  <2>2. (wire \o p) \o (c \o r) = wire \o (p \o (c \o r))  BY ONLY <1>7, <2>0, <2>1, ByteAssoc, Zenon
  <2>3. (p \o c) \o r = p \o (c \o r)  BY ONLY <1>6, <1>7, <2>0, ByteAssoc, Zenon
  <2>4. p \o (c \o r) = b \o r  BY ONLY <1>5, <2>3, Zenon
  <2> QED  BY ONLY <1>8, <1>9, <1>10, <2>2, <2>4, Zenon
<1>13. Ahead' = Ahead  BY ONLY <1>2, <1>12, Zenon DEF Ahead
<1>14. Sending'
  <2>1. /\ todo \in Seq(Ours) /\ Len(todo) <= Len(script)
        /\ \A i \in 1 .. Len(todo) : todo[i] = script[Len(script) - Len(todo) + i]
        /\ buf \in Seq(Byte) /\ (side = "up" => Len(buf) < ReverseLen) /\ (side # "up" => buf = <<>>)
    BY Zenon DEF Sending
  <2> QED  BY ONLY <1>2, <1>5, <1>11, <2>1, Zenon DEF Sending
<1> QED  BY <1>13, <1>14

LEMMA BreakKeeps ==
  ASSUME Sending, Break
  PROVE  Sending' /\ Ahead' = Ahead
<1>1. /\ side' = side /\ script' = script /\ todo' = todo /\ slices' = slices /\ wire' = wire
      /\ buf' = buf
  BY Zenon DEF Break, read
<1>2. Sending'  BY ONLY <1>1, Sending, Zenon DEF Sending
<1>3. Rest' = Rest  BY <1>1, SameScript
<1>4. Ahead' = Ahead  BY ONLY <1>1, <1>3, Zenon DEF Ahead, Beyond
<1> QED  BY <1>2, <1>4
----------------------------------------------------------------------------
(* The readers' steps.                                                     *)
LEMMA Consumed ==
  ASSUME Scripted, Sending, side # "up", NEW u \in Seq(Byte), NEW v \in Seq(Byte), Ahead = u \o v,
         NEW k \in Nat, k = Len(u), k <= Len(wire), Consume(k),
         script' = script, side' = side, todo' = todo, slices' = slices, buf' = buf
  PROVE  SubSeq(wire, 1, k) = u /\ Sending' /\ Ahead' = v
<1>1. wire \in Seq(Byte) /\ Beyond \in Seq(Byte) /\ Ahead = wire \o Beyond  BY Incoming
<1>2. Beyond' = Beyond
  <2>1. Rest' = Rest  BY SameScript
  <2> QED  BY ONLY <2>1, todo' = todo, slices' = slices, Zenon DEF Beyond
<1>3. wire \o Beyond = u \o v  BY ONLY <1>1, Ahead = u \o v, Zenon
<1>4. Len(u) <= Len(wire)  BY ONLY k = Len(u), k <= Len(wire), Zenon
<1>5. /\ SubSeq(wire, 1, Len(u)) = u
      /\ SubSeq(wire, Len(u) + 1, Len(wire)) \in Seq(Byte)
      /\ SubSeq(wire, Len(u) + 1, Len(wire)) \o Beyond = v
  <2>1. wire \in Seq(Byte) /\ Beyond \in Seq(Byte)  BY <1>1
  <2> QED  BY ONLY <1>3, <1>4, <2>1, u \in Seq(Byte), v \in Seq(Byte), Taking, ZenonT(30)
<1>6. wire' = SubSeq(wire, Len(u) + 1, Len(wire))  BY ONLY k = Len(u), Consume(k), Zenon DEF Consume
<1>7. wire' \in Seq(Byte) /\ wire' \o Beyond' = v  BY ONLY <1>2, <1>5, <1>6, Zenon
<1>8. buf = <<>>  BY Zenon DEF Sending
<1>9. Ahead' = v
  <2>1. wire' \o Beyond' \in Seq(Byte)  BY ONLY <1>7, v \in Seq(Byte), Zenon
  <2>2. <<>> \o (wire' \o Beyond') = wire' \o Beyond'  BY ONLY <2>1, ConcatEmptySeq
  <2> QED  BY ONLY <1>7, <1>8, <2>2, buf' = buf, Zenon DEF Ahead
<1>10. Sending'
  BY ONLY <1>7, Sending, script' = script, side' = side, todo' = todo, slices' = slices, buf' = buf, Zenon
     DEF Sending
<1>11. SubSeq(wire, 1, k) = u  BY ONLY <1>5, k = Len(u), Zenon
<1> QED  BY <1>9, <1>10, <1>11

(* Bytes that have come are of a message.                                  *)
LEMMA Coming ==
  ASSUME Scripted, Sending, side # "up", NEW n \in 0 .. Len(script), Ahead = Rest[n], Len(wire) >= 1
  PROVE  /\ n \in 1 .. Len(script) /\ n - 1 \in 0 .. Len(script)
         /\ Rest[n - 1] \in Seq(Byte) /\ Ahead = Text(Last(n)) \o Rest[n - 1]
<1>1. /\ Len(script) \in Nat /\ wire \in Seq(Byte) /\ Beyond \in Seq(Byte) /\ Ahead = wire \o Beyond
  BY Incoming
<1>2. Ahead # <<>>
  <2>1. Ahead = <<>> => wire = <<>>  BY ONLY <1>1, Empty, Zenon
  <2>2. wire # <<>>
    <3>1. Len(<<>>) = 0  OBVIOUS
    <3> QED  BY ONLY <3>1, Len(wire) >= 1, SMT
  <2> QED  BY <2>1, <2>2
<1>3. n # 0  BY ONLY <1>2, Scripted, n \in 0 .. Len(script), Ahead = Rest[n], MoreToCome, Zenon
<1>4. n \in 1 .. Len(script) /\ n - 1 \in 0 .. Len(script)
  BY ONLY <1>1, <1>3, n \in 0 .. Len(script), SMT
<1>5. Rest[n - 1] \in Seq(Byte) /\ Rest[n] = Text(Last(n)) \o Rest[n - 1]
  BY ONLY <1>4, Scripted, RestDef, Zenon
<1> QED  BY ONLY <1>4, <1>5, Ahead = Rest[n], Zenon

LEMMA AppReadsStreamKeeps ==
  ASSUME Scripted, NEW n \in 0 .. Len(script), Told(n), Sending, Synced(n), AppReadsStream
  PROVE  Reading'
<1> DEFINE m == Last(n)
           u == SlicesOf(m)[1]
           v == Rest[n - 1]
           k == 16
           got == ReadStreamHeader(SubSeq(wire, 1, k))
<1>1. /\ side = "down" /\ reader = "stream" /\ Len(wire) >= k /\ Consume(k)
      /\ IF got = Refused THEN reader' = "ended" /\ taken' = taken ELSE reader' = "header" /\ Took(got)
      /\ script' = script /\ side' = side /\ todo' = todo /\ slices' = slices /\ buf' = buf
      /\ open' = open /\ frame' = frame
  BY Zenon DEF AppReadsStream
<1>2. side # "up" /\ n = Len(script) /\ frame = Refused /\ Ahead = Rest[n]
  <2>1. side # "up"  BY <1>1
  <2> QED  BY ONLY <1>1, <2>1, Synced(n), Zenon DEF Synced
<1>3. Len(wire) >= 1
  <2>1. wire \in Seq(Byte)  BY Incoming
  <2>2. Len(wire) \in Nat  BY <2>1, LenProperties
  <2> QED  BY ONLY <1>1, <2>2, SMT
<1>4. n \in 1 .. Len(script) /\ n - 1 \in 0 .. Len(script) /\ v \in Seq(Byte) /\ Ahead = Text(m) \o v
  BY ONLY <1>2, <1>3, Scripted, Sending, n \in 0 .. Len(script), Coming, Zenon
<1>5. m \in Announced  BY <1>1, <1>2, <1>4, LastOne
<1>6. /\ u \in Seq(Byte) /\ Len(u) = 16 /\ SlicesOf(m)[2] = <<>>
      /\ Ends(m) => ReadStreamHeader(u) = Refused
      /\ ~Ends(m) => /\ ReadStreamHeader(u) # Refused /\ ReadStreamHeader(u) # Dropped
                     /\ ~Unknown(m) /\ Means(m, ReadStreamHeader(u))
  BY <1>5, AnnouncedRead
<1> HIDE DEF u, v, m
<1>7. Text(m) = u
  <2>1. u \o <<>> = u  BY ONLY <1>6, ConcatEmptySeq
  <2> QED  BY ONLY <1>6, <2>1, Zenon DEF Text, Bytes, u
<1>8. k = Len(u)  BY <1>6
<1> HIDE DEF k
<1>9. Ahead = u \o v /\ k \in Nat /\ k <= Len(wire)
  <2>1. k \in Nat  BY DEF k
  <2>2. wire \in Seq(Byte)  BY Incoming
  <2>3. Len(wire) \in Nat  BY <2>2, LenProperties
  <2>4. k <= Len(wire)  BY ONLY <1>1, <2>1, <2>3, SMT
  <2> QED  BY <1>4, <1>7, <2>1, <2>4
<1>10. SubSeq(wire, 1, k) = u /\ Sending' /\ Ahead' = v
  BY ONLY <1>1, <1>2, <1>4, <1>6, <1>8, <1>9, Scripted, Sending, Consumed, Zenon
<1>11. got = ReadStreamHeader(u)  BY <1>10
<1>12. Rest' = Rest /\ \A i : Last(i)' = Last(i)  BY <1>1, SameScript
<1>13. CASE Ends(m)
  <2>1. reader' = "ended" /\ taken' = taken  BY <1>1, <1>6, <1>11, <1>13
  <2>2. Told(n)'  BY <1>1, <2>1, SameTold
  <2>3. n > 0  BY <1>4
  <2>4. Over(n)'  BY ONLY <1>12, <1>13, <2>1, <2>3, Zenon DEF Over, m
  <2> QED  BY ONLY <1>1, <2>2, <2>4, n \in 0 .. Len(script), StillReading, Zenon
<1>14. CASE ~Ends(m)
  <2>1. reader' = "header" /\ Took(got) /\ got # Dropped /\ Means(m, got) /\ ~Unknown(m)
    BY <1>1, <1>6, <1>11, <1>14
  <2> HIDE DEF got
  <2>2. Told(n - 1)'
    BY ONLY <1>1, <1>4, <1>14, <2>1, Scripted, Told(n), OneTold DEF m
  <2>3. n - 1 # Len(script)  BY ONLY <1>2, <1>4, n \in 0 .. Len(script), SMT
  <2>4. frame' = Refused /\ Ahead' = Rest'[n - 1]  BY <1>1, <1>2, <1>10, <1>12 DEF v
  <2>5. Synced(n - 1)'
    <3>1. /\ reader' \in {"stream", "header", "payload", "ended"} /\ reader' # "ended"
          /\ reader' # "stream" /\ reader' # "payload"
      BY <2>1
    <3> QED  BY ONLY <1>1, <2>3, <2>4, <3>1, Zenon DEF Synced
  <2> QED  BY ONLY <1>1, <1>4, <1>10, <2>2, <2>5, StillReading, Zenon
<1> QED  BY <1>13, <1>14
LEMMA AppReadsHeaderKeeps ==
  ASSUME Scripted, NEW n \in 0 .. Len(script), Told(n), Sending, Synced(n), AppReadsHeader
  PROVE  Reading'
<1> DEFINE m == Last(n)
           u == SlicesOf(m)[1]
           p == SlicesOf(m)[2]
           v == Rest[n - 1]
           k == 16
           got == ReadFrameHeader(SubSeq(wire, 1, k))
<1>1. /\ side = "down" /\ reader = "header" /\ Len(wire) >= k /\ Consume(k)
      /\ frame' = got /\ reader' = (IF frame' = Refused THEN "ended" ELSE "payload")
      /\ script' = script /\ side' = side /\ todo' = todo /\ slices' = slices /\ buf' = buf
      /\ open' = open /\ taken' = taken
  BY Zenon DEF AppReadsHeader
<1>2. side # "up" /\ n # Len(script) /\ frame = Refused /\ Ahead = Rest[n]
  <2>1. side # "up" /\ reader # "stream" /\ reader # "ended"  BY <1>1
  <2> QED  BY ONLY <1>1, <2>1, Synced(n), Zenon DEF Synced
<1>3. Len(wire) >= 1
  <2>1. wire \in Seq(Byte)  BY Incoming
  <2>2. Len(wire) \in Nat  BY <2>1, LenProperties
  <2> QED  BY ONLY <1>1, <2>2, SMT
<1>4. n \in 1 .. Len(script) /\ n - 1 \in 0 .. Len(script) /\ v \in Seq(Byte) /\ Ahead = Text(m) \o v
  BY ONLY <1>2, <1>3, Scripted, Sending, n \in 0 .. Len(script), Coming, Zenon
<1>5. m \in FrameMessages  BY <1>1, <1>2, <1>4, LastOne
<1>6. /\ u \in Seq(Byte) /\ Len(u) = 16 /\ p \in Seq(Byte)
      /\ HeaderRead(m) = ReadFrameHeader(u) /\ Payload(m) = p
      /\ Ends(m) => ReadFrameHeader(u) = Refused
      /\ ~Ends(m) => ReadFrameHeader(u) # Refused
  BY ONLY <1>5, FrameRead, Zenon
<1>7. Text(m) = u \o p  BY Zenon DEF Text, Bytes
<1> HIDE DEF u, v, m, p
<1>8. k = Len(u)  BY <1>6
<1> HIDE DEF k
<1>9. Ahead = u \o (p \o v) /\ p \o v \in Seq(Byte)
  <2>0. u \in Seq(Byte) /\ p \in Seq(Byte) /\ v \in Seq(Byte)  BY <1>4, <1>6
  <2>1. p \o v \in Seq(Byte)  BY ONLY <2>0, ByteCat, Zenon
  <2>2. (u \o p) \o v = u \o (p \o v)  BY ONLY <2>0, ByteAssoc, ZenonT(30)
  <2> QED  BY ONLY <1>4, <1>7, <2>1, <2>2, Zenon
<1>15. k \in Nat /\ k <= Len(wire)
  <2>1. k \in Nat  BY DEF k
  <2>2. wire \in Seq(Byte)  BY Incoming
  <2>3. Len(wire) \in Nat  BY <2>2, LenProperties
  <2>4. k <= Len(wire)  BY ONLY <1>1, <2>1, <2>3, SMT
  <2> QED  BY <2>1, <2>4
<1>10. SubSeq(wire, 1, k) = u /\ Sending' /\ Ahead' = p \o v
  <2>1. u \in Seq(Byte)  BY <1>6
  <2>2. /\ side # "up" /\ Consume(k)
        /\ script' = script /\ side' = side /\ todo' = todo /\ slices' = slices /\ buf' = buf
    BY <1>1, <1>2
  <2> QED  BY ONLY <1>8, <1>9, <1>15, <2>1, <2>2, Scripted, Sending, Consumed, ZenonT(30)
<1>11. frame' = ReadFrameHeader(u)  BY ONLY <1>1, <1>10, Zenon
<1>12. Rest' = Rest /\ \A i : Last(i)' = Last(i)  BY <1>1, SameScript
<1>16. Told(n)'  BY <1>1, SameTold
<1>17. n > 0  BY <1>4
<1>13. CASE Ends(m)
  <2>1. reader' = "ended"  BY ONLY <1>1, <1>6, <1>11, <1>13, Zenon
  <2>4. Over(n)'  BY ONLY <1>12, <1>13, <1>17, <2>1, Zenon DEF Over, m
  <2> QED  BY ONLY <1>1, <1>16, <2>4, n \in 0 .. Len(script), StillReading, Zenon
<1>14. CASE ~Ends(m)
  <2>1. frame' # Refused  BY ONLY <1>6, <1>11, <1>14, Zenon
  <2>2. reader' = "payload"  BY ONLY <1>1, <2>1, Zenon
  <2>3. /\ ~Ends(Last(n)') /\ frame' = HeaderRead(Last(n)') /\ Ahead' = Payload(Last(n)') \o Rest'[n - 1]
    BY ONLY <1>6, <1>10, <1>11, <1>12, <1>14, Zenon DEF m, v
  <2>5. Synced(n)'
    <3>1. /\ reader' \in {"stream", "header", "payload", "ended"} /\ reader' # "ended"
          /\ reader' # "stream" /\ reader' # "header"
      BY <2>2
    <3> QED  BY ONLY <1>1, <1>2, <1>17, <2>1, <2>3, <3>1, Zenon DEF Synced
  <2> QED  BY ONLY <1>1, <1>10, <1>16, <2>5, n \in 0 .. Len(script), StillReading, Zenon
<1> QED  BY <1>13, <1>14

LEMMA AppReadsPayloadKeeps ==
  ASSUME Scripted, NEW n \in 0 .. Len(script), Told(n), Sending, Synced(n), AppReadsPayload
  PROVE  Reading'
<1> DEFINE m == Last(n)
           u == SlicesOf(m)[1]
           p == SlicesOf(m)[2]
           v == Rest[n - 1]
           k == frame.length
           got == Handle(frame, SubSeq(wire, 1, k))
<1>1. /\ side = "down" /\ reader = "payload" /\ Len(wire) >= k /\ Consume(k)
      /\ Took(got) /\ reader' = "header" /\ frame' = Refused
      /\ script' = script /\ side' = side /\ todo' = todo /\ slices' = slices /\ buf' = buf
      /\ open' = open
  BY Zenon DEF AppReadsPayload
<1>2. /\ side # "up" /\ n # Len(script) /\ frame # Refused /\ n > 0 /\ ~Ends(m)
      /\ frame = HeaderRead(m) /\ Ahead = Payload(m) \o v
  <2>1. side # "up" /\ reader # "stream" /\ reader # "ended"  BY <1>1
  <2> QED  BY ONLY <1>1, <2>1, Synced(n), Zenon DEF Synced
<1>4. n \in 1 .. Len(script) /\ n - 1 \in 0 .. Len(script) /\ n - 1 # Len(script)
  <2>1. Len(script) \in Nat  BY Incoming
  <2> QED  BY ONLY <1>2, <2>1, n \in 0 .. Len(script), SMT
<1>3. v \in Seq(Byte)  BY <1>4, RestDef
<1>5. m \in FrameMessages  BY <1>1, <1>2, <1>4, LastOne
<1>6. /\ u \in Seq(Byte) /\ p \in Seq(Byte)
      /\ HeaderRead(m) = ReadFrameHeader(u) /\ Payload(m) = p
      /\ ~Ends(m) => /\ ReadFrameHeader(u).length = Len(p)
                     /\ Unknown(m) => Handle(ReadFrameHeader(u), p) = Dropped
                     /\ ~Unknown(m) => /\ Handle(ReadFrameHeader(u), p) # Dropped
                                       /\ Means(m, Handle(ReadFrameHeader(u), p))
  BY ONLY <1>5, FrameRead, Zenon
<1> HIDE DEF u, v, m, p
<1>7. frame = ReadFrameHeader(u) /\ Ahead = p \o v  BY ONLY <1>2, <1>6, Zenon
<1>8. k = Len(p)  BY ONLY <1>2, <1>6, <1>7, Zenon
<1> HIDE DEF k
<1>15. k \in Nat /\ k <= Len(wire)
  <2>1. k \in Nat  BY <1>6, <1>8, LenProperties
  <2>2. wire \in Seq(Byte)  BY Incoming
  <2>3. Len(wire) \in Nat  BY <2>2, LenProperties
  <2>4. k <= Len(wire)  BY ONLY <1>1, <2>1, <2>3, SMT
  <2> QED  BY <2>1, <2>4
<1>10. SubSeq(wire, 1, k) = p /\ Sending' /\ Ahead' = v
  <2>1. p \in Seq(Byte)  BY <1>6
  <2>2. /\ side # "up" /\ Consume(k) /\ Ahead = p \o v
        /\ script' = script /\ side' = side /\ todo' = todo /\ slices' = slices /\ buf' = buf
    BY <1>1, <1>2, <1>7
  <2> QED  BY ONLY <1>3, <1>8, <1>15, <2>1, <2>2, Scripted, Sending, Consumed, ZenonT(30)
<1>11. got = Handle(ReadFrameHeader(u), p)  BY ONLY <1>7, <1>10, Zenon
<1>12. Rest' = Rest  BY <1>1, SameScript
<1>13. Unknown(m) => got = Dropped  BY ONLY <1>2, <1>6, <1>11, Zenon
<1>14. ~Unknown(m) => got # Dropped /\ Means(m, got)  BY ONLY <1>2, <1>6, <1>11, Zenon
<1> HIDE DEF got
<1>16. Told(n - 1)'
  BY ONLY <1>1, <1>2, <1>4, <1>13, <1>14, Scripted, Told(n), OneTold DEF m
<1>17. Synced(n - 1)'
  <2>1. /\ reader' \in {"stream", "header", "payload", "ended"} /\ reader' # "ended"
        /\ reader' # "stream" /\ reader' # "payload"
    BY <1>1
  <2>2. Ahead' = Rest'[n - 1]  BY <1>10, <1>12 DEF v
  <2> QED  BY ONLY <1>1, <1>4, <2>1, <2>2, Zenon DEF Synced
<1> QED  BY ONLY <1>1, <1>4, <1>10, <1>16, <1>17, StillReading, Zenon
LEMMA TrackerReadsLengthKeeps ==
  ASSUME Scripted, NEW n \in 0 .. Len(script), Told(n), Sending, Synced(n), TrackerReadsLength
  PROVE  Reading'
<1> DEFINE m == Last(n)
           p == Listing(m.devices)
           u == HexDigits(Len(p))
           v == Rest[n - 1]
           k == 4
           got == SubSeq(wire, 1, k)
<1>1. /\ side = "track" /\ reader = "header" /\ Len(wire) >= k /\ Consume(k)
      /\ IF IsHex(got) THEN reader' = "payload" /\ frame' = [kind |-> "list", length |-> HexValue(got)]
         ELSE reader' = "ended" /\ frame' = frame
      /\ script' = script /\ side' = side /\ todo' = todo /\ slices' = slices /\ buf' = buf
      /\ open' = open /\ taken' = taken
  BY Zenon DEF TrackerReadsLength
<1>2. side # "up" /\ side # "down" /\ frame = Refused /\ Ahead = Rest[n]
  <2>1. side # "up" /\ side # "down"  BY <1>1
  <2> QED  BY ONLY <1>1, <2>1, Synced(n), Zenon DEF Synced
<1>3. Len(wire) >= 1
  <2>1. wire \in Seq(Byte)  BY Incoming
  <2>2. Len(wire) \in Nat  BY <2>1, LenProperties
  <2> QED  BY ONLY <1>1, <2>2, SMT
<1>4. n \in 1 .. Len(script) /\ n - 1 \in 0 .. Len(script) /\ v \in Seq(Byte) /\ Ahead = Text(m) \o v
  BY ONLY <1>2, <1>3, Scripted, Sending, n \in 0 .. Len(script), Coming, Zenon
<1>5. m \in Listings  BY <1>1, <1>4, LastOne
<1>6. /\ SlicesOf(m) = <<u \o p, <<>>>>
      /\ u \in Seq(Byte) /\ Len(u) = 4 /\ p \in Seq(Byte) /\ IsHex(u) /\ HexValue(u) = Len(p) /\ ~Ends(m)
  BY ONLY <1>5, ListRead, Zenon
<1>18. m.kind = "list"  BY <1>5, SMT DEF Listings
<1>19. HeaderRead(m) = [kind |-> "list", length |-> Len(p)] /\ Payload(m) = p
  BY ONLY <1>18, Zenon DEF HeaderRead, Payload
<1> HIDE DEF u, v, m, p
<1>7. Text(m) = u \o p
  <2>1. SlicesOf(m)[1] = u \o p /\ SlicesOf(m)[2] = <<>>  BY ONLY <1>6, SMT
  <2>2. u \o p \in Seq(Byte)  BY ONLY <1>6, ByteCat, Zenon
  <2>3. (u \o p) \o <<>> = u \o p  BY ONLY <2>2, ConcatEmptySeq
  <2> QED  BY ONLY <2>1, <2>3, Zenon DEF Text, Bytes
<1>8. k = Len(u)  BY <1>6
<1> HIDE DEF k
<1>9. Ahead = u \o (p \o v) /\ p \o v \in Seq(Byte)
  <2>0. u \in Seq(Byte) /\ p \in Seq(Byte) /\ v \in Seq(Byte)  BY <1>4, <1>6
  <2>1. p \o v \in Seq(Byte)  BY ONLY <2>0, ByteCat, Zenon
  <2>2. (u \o p) \o v = u \o (p \o v)  BY ONLY <2>0, ByteAssoc, ZenonT(30)
  <2> QED  BY ONLY <1>4, <1>7, <2>1, <2>2, Zenon
<1>15. k \in Nat /\ k <= Len(wire)
  <2>1. k \in Nat  BY DEF k
  <2>2. wire \in Seq(Byte)  BY Incoming
  <2>3. Len(wire) \in Nat  BY <2>2, LenProperties
  <2>4. k <= Len(wire)  BY ONLY <1>1, <2>1, <2>3, SMT
  <2> QED  BY <2>1, <2>4
<1>10. SubSeq(wire, 1, k) = u /\ Sending' /\ Ahead' = p \o v
  <2>1. u \in Seq(Byte)  BY <1>6
  <2>2. /\ side # "up" /\ Consume(k)
        /\ script' = script /\ side' = side /\ todo' = todo /\ slices' = slices /\ buf' = buf
    BY <1>1, <1>2
  <2> QED  BY ONLY <1>8, <1>9, <1>15, <2>1, <2>2, Scripted, Sending, Consumed, ZenonT(30)
<1>11. reader' = "payload" /\ frame' = HeaderRead(m)
  <2>1. got = u  BY <1>10
  <2> HIDE DEF got
  <2> QED  BY ONLY <1>1, <1>6, <1>19, <2>1, Zenon
<1>12. Rest' = Rest /\ \A i : Last(i)' = Last(i)  BY <1>1, SameScript
<1>16. Told(n)'  BY <1>1, SameTold
<1>17. n > 0  BY <1>4
<1>13. frame' # Refused
  <2>1. frame'.kind = "list" /\ Refused.kind = "refused"  BY <1>11, <1>19 DEF Refused
  <2> QED  BY ONLY <2>1, SMT
<1>14. Synced(n)'
  <2>1. /\ reader' \in {"stream", "header", "payload", "ended"} /\ reader' # "ended"
        /\ reader' # "stream" /\ reader' # "header"
    BY <1>11
  <2>2. /\ ~Ends(Last(n)') /\ frame' = HeaderRead(Last(n)') /\ Ahead' = Payload(Last(n)') \o Rest'[n - 1]
    BY ONLY <1>6, <1>10, <1>11, <1>12, <1>19, Zenon DEF m, v
  <2> QED  BY ONLY <1>1, <1>2, <1>13, <1>17, <2>1, <2>2, Zenon DEF Synced
<1> QED  BY ONLY <1>1, <1>10, <1>14, <1>16, n \in 0 .. Len(script), StillReading, Zenon

LEMMA TrackerReadsPayloadKeeps ==
  ASSUME Scripted, NEW n \in 0 .. Len(script), Told(n), Sending, Synced(n), TrackerReadsPayload
  PROVE  Reading'
<1> DEFINE m == Last(n)
           p == Listing(m.devices)
           v == Rest[n - 1]
           k == frame.length
           got == [kind |-> "list", devices |-> ParseDevices(SubSeq(wire, 1, k))]
<1>1. /\ side = "track" /\ reader = "payload" /\ Len(wire) >= k /\ Consume(k)
      /\ Took(got) /\ reader' = "header" /\ frame' = Refused
      /\ script' = script /\ side' = side /\ todo' = todo /\ slices' = slices /\ buf' = buf
      /\ open' = open
  BY Zenon DEF TrackerReadsPayload
<1>2. /\ side # "up" /\ side # "down" /\ frame # Refused /\ n > 0 /\ ~Ends(m)
      /\ frame = HeaderRead(m) /\ Ahead = Payload(m) \o v
  <2>1. side # "up" /\ side # "down" /\ reader # "stream" /\ reader # "ended"  BY <1>1
  <2> QED  BY ONLY <1>1, <2>1, Synced(n), Zenon DEF Synced
<1>4. n \in 1 .. Len(script) /\ n - 1 \in 0 .. Len(script)
  <2>1. Len(script) \in Nat  BY Incoming
  <2> QED  BY ONLY <1>2, <2>1, n \in 0 .. Len(script), SMT
<1>3. v \in Seq(Byte)  BY <1>4, RestDef
<1>5. m \in Listings  BY <1>1, <1>4, LastOne
<1>18. m.kind = "list"  BY <1>5, SMT DEF Listings
<1>19. HeaderRead(m) = [kind |-> "list", length |-> Len(p)] /\ Payload(m) = p
  BY ONLY <1>18, Zenon DEF HeaderRead, Payload
<1> DEFINE made == [kind |-> "list", devices |-> ParseDevices(p)]
<1>6. p \in Seq(Byte) /\ ~Unknown(m) /\ made # Dropped /\ Means(m, made)
  BY ONLY <1>5, ListRead, Zenon
<1> HIDE DEF v, m, p
<1>7. Ahead = p \o v  BY ONLY <1>2, <1>19, Zenon
<1>8. k = Len(p)  BY ONLY <1>2, <1>19, SMT
<1> HIDE DEF k
<1>15. k \in Nat /\ k <= Len(wire)
  <2>1. k \in Nat  BY <1>6, <1>8, LenProperties
  <2>2. wire \in Seq(Byte)  BY Incoming
  <2>3. Len(wire) \in Nat  BY <2>2, LenProperties
  <2>4. k <= Len(wire)  BY ONLY <1>1, <2>1, <2>3, SMT
  <2> QED  BY <2>1, <2>4
<1>10. SubSeq(wire, 1, k) = p /\ Sending' /\ Ahead' = v
  <2>1. p \in Seq(Byte)  BY <1>6
  <2>2. /\ side # "up" /\ Consume(k) /\ Ahead = p \o v
        /\ script' = script /\ side' = side /\ todo' = todo /\ slices' = slices /\ buf' = buf
    BY <1>1, <1>2, <1>7
  <2> QED  BY ONLY <1>3, <1>8, <1>15, <2>1, <2>2, Scripted, Sending, Consumed, ZenonT(30)
<1>11. got = made  BY ONLY <1>10, Zenon
<1> HIDE DEF got, made
<1>12. Rest' = Rest  BY <1>1, SameScript
<1>16. Told(n - 1)'
  <2>1. ~Unknown(m) /\ got # Dropped /\ Means(m, got)  BY ONLY <1>6, <1>11, Zenon
  <2> QED  BY ONLY <1>1, <1>2, <1>4, <2>1, Scripted, Told(n), OneTold DEF m
<1>17. Synced(n - 1)'
  <2>1. /\ reader' \in {"stream", "header", "payload", "ended"} /\ reader' # "ended"
        /\ reader' # "stream" /\ reader' # "payload"
    BY <1>1
  <2>2. Ahead' = Rest'[n - 1]  BY <1>10, <1>12 DEF v
  <2> QED  BY ONLY <1>1, <1>2, <1>4, <2>1, <2>2, Zenon DEF Synced
<1> QED  BY ONLY <1>1, <1>4, <1>10, <1>16, <1>17, StillReading, Zenon

(* A timeout between two messages takes nothing.                           *)
LEMMA TrackerTimesOutKeeps ==
  ASSUME NEW n \in 0 .. Len(script), Told(n), Sending, Synced(n), TrackerTimesOut, ~torn'
  PROVE  Reading'
<1>1. /\ side = "track" /\ wire = <<>> /\ wire' = <<>> /\ reader # "payload" /\ reader' = "header"
      /\ frame' = Refused /\ reader = "header"
      /\ script' = script /\ side' = side /\ todo' = todo /\ slices' = slices /\ buf' = buf
      /\ open' = open /\ taken' = taken
  <2>1. /\ side = "track" /\ (reader = "header" \/ reader = "payload")
        /\ torn' = (torn \/ wire # <<>> \/ reader = "payload")
        /\ wire' = <<>> /\ reader' = "header" /\ frame' = Refused
        /\ script' = script /\ side' = side /\ todo' = todo /\ slices' = slices /\ buf' = buf
        /\ open' = open /\ taken' = taken
    BY Zenon DEF TrackerTimesOut
  <2> QED  BY ONLY <2>1, ~torn', Zenon
<1>2. frame = Refused  BY ONLY <1>1, Synced(n), Zenon DEF Synced
<1>3. Rest' = Rest  BY <1>1, SameScript
<1>4. Ahead' = Ahead  BY ONLY <1>1, <1>3, Zenon DEF Ahead, Beyond
<1>5. Sending'  BY ONLY <1>1, Sending, Zenon DEF Sending
<1>6. Synced(n)'
  <2>1. script' = script /\ side' = side /\ reader' = reader /\ frame' = frame /\ (open' => open)
    BY <1>1, <1>2
  <2> QED  BY ONLY <1>4, <2>1, Synced(n), SameSynced
<1>7. Told(n)'  BY <1>1, SameTold
<1> QED  BY ONLY <1>1, <1>5, <1>6, <1>7, n \in 0 .. Len(script), StillReading, Zenon
(* A read that ends inside a message, and one that completes it.           *)
LEMMA AckThreadReadsKeeps ==
  ASSUME Scripted, NEW n \in 0 .. Len(script), Told(n), Sending, Synced(n), AckThreadReads
  PROVE  Reading'
<1> DEFINE m == Last(n)
           u == SlicesOf(m)[1]
           v == Rest[n - 1]
           k == Least(Len(wire), ReverseLen - Len(buf))
           p == SubSeq(wire, 1, k)
           q == SubSeq(wire, k + 1, Len(wire))
           z == Beyond
           got == buf \o p
<1>1. /\ side = "up" /\ reader # "ended" /\ wire # <<>> /\ wire' = q
      /\ IF Len(got) < ReverseLen THEN buf' = got /\ taken' = taken
         ELSE buf' = <<>> /\ Took(DecodeReverse(got))
      /\ script' = script /\ side' = side /\ todo' = todo /\ slices' = slices
      /\ open' = open /\ frame' = frame /\ reader' = reader
  BY Zenon DEF AckThreadReads, Consume
<1>2. frame = Refused /\ Ahead = Rest[n]  BY ONLY <1>1, Synced(n), Zenon DEF Synced
<1>3. /\ wire \in Seq(Byte) /\ buf \in Seq(Byte) /\ z \in Seq(Byte) /\ wire \o z \in Seq(Byte)
      /\ Len(script) \in Nat
  BY Incoming
<1>4. Len(buf) < ReverseLen /\ ReverseLen = 9  BY <1>1, Zenon DEF Sending, ReverseLen
<1>5. Len(wire) \in Nat /\ Len(wire) > 0 /\ Len(buf) \in Nat
  BY ONLY <1>1, <1>3, Empty, Zenon
<1>6. k \in Nat /\ k <= Len(wire) /\ k <= 9 - Len(buf)
  BY ONLY <1>4, <1>5, SMT DEF Least
<1> HIDE DEF k, z
<1>7. p \in Seq(Byte) /\ Len(p) = k /\ q \in Seq(Byte) /\ p \o q = wire
  BY ONLY <1>3, <1>6, ByteCut, Zenon
<1> HIDE DEF p, q
<1>8. buf \in Seq(Byte) /\ p \in Seq(Byte) /\ q \in Seq(Byte) /\ z \in Seq(Byte)  BY <1>3, <1>7
<1>9. /\ got \in Seq(Byte) /\ Len(got) = Len(buf) + k /\ q \o z \in Seq(Byte)
      /\ Ahead = got \o (q \o z)
  <2>1. got \in Seq(Byte) /\ Len(got) = Len(buf) + Len(p)  BY ONLY <1>8, ByteCat, Zenon
  <2>2. q \o z \in Seq(Byte)  BY ONLY <1>8, ByteCat, Zenon
  <2>3. (p \o q) \o z = p \o (q \o z)  BY ONLY <1>8, ByteAssoc, ZenonT(30)
  <2>4. (buf \o p) \o (q \o z) = buf \o (p \o (q \o z))  BY ONLY <1>8, <2>2, ByteAssoc, ZenonT(30)
  <2>5. Ahead = buf \o (wire \o z)  BY Zenon DEF Ahead, z
  <2> QED  BY ONLY <1>7, <2>1, <2>2, <2>3, <2>4, <2>5, Zenon
<1>10. Len(got) \in Nat /\ Len(got) <= 9  BY ONLY <1>4, <1>5, <1>6, <1>9, SMT
<1>11. Rest' = Rest /\ \A i : Last(i)' = Last(i)  BY <1>1, SameScript
<1>12. Beyond' = z  BY ONLY <1>1, <1>11, Zenon DEF Beyond, z
<1>13. wire' \in Seq(Byte) /\ wire' \o Beyond' = q \o z  BY <1>1, <1>7, <1>12
<1>14. ASSUME buf' \in Seq(Byte), Len(buf') < ReverseLen PROVE Sending'
  <2>1. /\ slices[1] \in Seq(Byte) /\ slices[2] \in Seq(Byte)
        /\ todo \in Seq(Ours) /\ Len(todo) <= Len(script)
        /\ \A i \in 1 .. Len(todo) : todo[i] = script[Len(script) - Len(todo) + i]
    BY Zenon DEF Sending
  <2>2. side' = "up"  BY <1>1
  <2> QED  BY ONLY <1>1, <1>13, <1>14, <2>1, <2>2, Zenon DEF Sending
<1>15. CASE Len(got) < ReverseLen
  <2>1. buf' = got /\ taken' = taken  BY <1>1, <1>15
  <2>2. Sending'  BY ONLY <1>9, <1>14, <1>15, <2>1, Zenon
  <2>3. Ahead' = Ahead  BY ONLY <1>9, <1>13, <2>1, Zenon DEF Ahead
  <2>4. Synced(n)'
    <3>1. script' = script /\ side' = side /\ reader' = reader /\ frame' = frame /\ (open' => open)
      BY <1>1
    <3> QED  BY ONLY <2>3, <3>1, Synced(n), SameSynced
  <2>5. Told(n)'  BY <1>1, <2>1, SameTold
  <2> QED  BY ONLY <1>1, <2>2, <2>4, <2>5, n \in 0 .. Len(script), StillReading, Zenon
<1>16. CASE ~(Len(got) < ReverseLen)
  <2>1. buf' = <<>> /\ Took(DecodeReverse(got))  BY <1>1, <1>16
  <2>2. Len(got) = 9  BY ONLY <1>4, <1>10, <1>16, SMT
  <2>3. n # 0
    <3>1. got \o (q \o z) # <<>>
      <4>1. got \o (q \o z) = <<>> => got = <<>>  BY ONLY <1>9, Empty, Zenon
      <4>2. Len(<<>>) = 0  OBVIOUS
      <4>3. got # <<>>  BY ONLY <2>2, <4>2, SMT
      <4> QED  BY <4>1, <4>3
    <3>2. Rest[n] # <<>>  BY ONLY <1>2, <1>9, <3>1, Zenon
    <3> QED  BY ONLY <3>2, Scripted, n \in 0 .. Len(script), MoreToCome, Zenon
  <2>4. n \in 1 .. Len(script) /\ n - 1 \in 0 .. Len(script) /\ n - 1 # Len(script)
    BY ONLY <1>3, <2>3, n \in 0 .. Len(script), SMT
  <2>5. v \in Seq(Byte) /\ Rest[n] = Text(m) \o v  BY ONLY <2>4, Scripted, RestDef, Zenon
  <2>6. m \in ReplyMessages  BY <1>1, <2>4, LastOne
  <2>7. /\ u \in Seq(Byte) /\ Len(u) = 9 /\ SlicesOf(m)[2] = <<>> /\ ~Ends(m)
        /\ Unknown(m) => DecodeReverse(u) = Dropped
        /\ ~Unknown(m) => DecodeReverse(u) # Dropped /\ Means(m, DecodeReverse(u))
    BY ONLY <2>6, ReplyRead, Zenon
  <2> HIDE DEF u, v, m, got
  <2>8. Text(m) = u
    <3>1. u \o <<>> = u  BY ONLY <2>7, ConcatEmptySeq
    <3> QED  BY ONLY <2>7, <3>1, Zenon DEF Text, Bytes, u
  <2>9. got \o (q \o z) = u \o v  BY ONLY <1>2, <1>9, <2>5, <2>8, Zenon
  <2>10. got = u /\ q \o z = v
    <3>1. Len(got) = Len(u)  BY ONLY <2>2, <2>7
    <3>2. got \in Seq(Byte) /\ q \o z \in Seq(Byte) /\ u \in Seq(Byte) /\ v \in Seq(Byte)
      BY <1>9, <2>5, <2>7
    <3> QED  BY ONLY <2>9, <3>1, <3>2, Cancel, ZenonT(30)
  <2>11. Ahead' = Rest'[n - 1]
    <3>1. <<>> \o v = v  BY ONLY <2>5, ConcatEmptySeq
    <3>2. Ahead' = <<>> \o v  BY ONLY <1>13, <2>1, <2>10, Zenon DEF Ahead
    <3> QED  BY ONLY <1>11, <3>1, <3>2, Zenon DEF v
  <2>12. Sending'
    <3>1. <<>> \in Seq(Byte) /\ Len(<<>>) < ReverseLen  BY DEF ReverseLen
    <3> QED  BY ONLY <1>14, <2>1, <3>1, Zenon
  <2>13. Told(n - 1)'
    <3> DEFINE made == DecodeReverse(got)
    <3>1. Took(made)  BY <2>1
    <3>2. Unknown(m) => made = Dropped  BY ONLY <2>7, <2>10, Zenon
    <3>3. ~Unknown(m) => made # Dropped /\ Means(m, made)  BY ONLY <2>7, <2>10, Zenon
    <3> HIDE DEF made
    <3> QED  BY ONLY <1>1, <2>4, <2>7, <3>1, <3>2, <3>3, Scripted, Told(n), OneTold DEF m
  <2>14. Synced(n - 1)'
    <3>1. side' = "up" /\ side' # "down" /\ reader' # "ended" /\ frame' = Refused  BY <1>1, <1>2
    <3>2. reader' \in {"stream", "header", "payload", "ended"} /\ reader' # "stream" /\ reader' # "payload"
      BY ONLY <1>1, <1>2, <3>1, Synced(n), Zenon DEF Synced
    <3> QED  BY ONLY <2>11, <3>1, <3>2, Zenon DEF Synced
  <2> QED  BY ONLY <1>1, <2>4, <2>12, <2>13, <2>14, StillReading, Zenon
<1> QED  BY <1>15, <1>16

LEMMA AckThreadTimesOutKeeps ==
  ASSUME NEW n \in 0 .. Len(script), Told(n), Sending, Synced(n), AckThreadTimesOut
  PROVE  Reading'
<1>1. /\ script' = script /\ side' = side /\ todo' = todo /\ slices' = slices /\ buf' = buf
      /\ open' = open /\ taken' = taken /\ reader' = reader /\ frame' = frame /\ wire' = wire
  BY Zenon DEF AckThreadTimesOut, AckThreadKeeps, written
<1>2. Rest' = Rest  BY <1>1, SameScript
<1>3. Ahead' = Ahead  BY ONLY <1>1, <1>2, Zenon DEF Ahead, Beyond
<1>4. Sending'  BY ONLY <1>1, Sending, Zenon DEF Sending
<1>5. Synced(n)'  BY ONLY <1>1, <1>3, Synced(n), SameSynced
<1>6. Told(n)'  BY <1>1, SameTold
<1> QED  BY ONLY <1>1, <1>4, <1>5, <1>6, n \in 0 .. Len(script), StillReading, Zenon

LEMMA ReaderSeesEndKeeps ==
  ASSUME NEW n \in 0 .. Len(script), Told(n), Sending, Synced(n), ReaderSeesEnd
  PROVE  Reading'
<1>1. /\ script' = script /\ side' = side /\ todo' = todo /\ slices' = slices /\ buf' = buf
      /\ open' = open /\ taken' = taken /\ frame' = frame /\ wire' = wire
      /\ ~open /\ reader # "ended" /\ reader' = "ended"
  BY Zenon DEF ReaderSeesEnd, written
<1>2. Rest' = Rest /\ Last(n)' = Last(n)  BY <1>1, SameScript
<1>3. Ahead' = Ahead  BY ONLY <1>1, <1>2, Zenon DEF Ahead, Beyond
<1>4. Sending'  BY ONLY <1>1, Sending, Zenon DEF Sending
<1>5. Synced(n)'
  <2>1. /\ reader' \in {"stream", "header", "payload", "ended"}
        /\ reader' # "stream" /\ reader' # "header" /\ reader' # "payload"
    BY <1>1
  <2>2. frame = Refused => Ahead = Rest[n]  BY ONLY Synced(n), Zenon DEF Synced
  <2>3. frame # Refused => /\ n > 0 /\ side # "up" /\ ~Ends(Last(n))
                           /\ frame = HeaderRead(Last(n)) /\ Ahead = Payload(Last(n)) \o Rest[n - 1]
    BY ONLY Synced(n), Zenon DEF Synced
  <2>4. side = "down" /\ n = Len(script) => frame = Refused
    BY ONLY <1>1, Synced(n), Zenon DEF Synced
  <2> QED  BY ONLY <1>1, <1>2, <1>3, <2>1, <2>2, <2>3, <2>4, Zenon DEF Synced
<1>6. Told(n)'  BY <1>1, SameTold
<1> QED  BY ONLY <1>1, <1>4, <1>5, <1>6, n \in 0 .. Len(script), StillReading, Zenon
----------------------------------------------------------------------------
(* How the host's script starts: with a header of the source's geometry,   *)
(* and with one control that turns the screen.                             *)
Size(c) == HeaderOf(Geometry(c), 60)

Opening(c) == {m \in Announced : m.width = Size(c).width /\ m.height = Size(c).height}

Turning(c) ==
  {m \in FrameMessages :
     m.kind = "control" /\ m.control.id = 2 /\ m.control.value <= 3 => m.control = Rotation(c.rotation)}

Started ==
  side = "down" => /\ config \in Configs /\ Sized(config)
                   /\ 1 \in DOMAIN script /\ script[1] \in Opening(config)
                   /\ \A i \in DOMAIN script : i # 1 => script[i] \in Turning(config)

LEMMA HeaderFields ==
  ASSUME NEW h \in Headers
  PROVE  h.version \in Word /\ h.codec \in Byte
BY Zenon DEF Headers

Low16(n) == n % 65536

LEMMA Modulus ==
  ASSUME NEW n \in Nat
  PROVE  Low16(n) \in Word
<1> DEFINE m == 65536
<1>0. m \in Nat \ {0}  BY ONLY SMTT(30)
<1>3. \A k : k \in 0 .. m - 1 => k \in Word  BY ONLY SMTT(30) DEF Word
<1> HIDE DEF m
<1>1. n % m \in 0 .. m - 1  BY ONLY <1>0, n \in Nat, SMT
<1>2. n % m \in Word  BY ONLY <1>1, <1>3, SMT
<1> QED  BY ONLY <1>2, SMT DEF m, Low16

(* What run() announces, the geometry of the capture source, is held by    *)
(* the header's sixteen bits, whether it is the source's own, the pair     *)
(* given or the panel's size scaled; of a source that took what it was     *)
(* asked for it is that pair or fits the panel, and lies as the rotation   *)
(* control turns the app.                                                  *)
THEOREM AnnouncedFits ==
  ASSUME NEW c \in Configs, Sized(c)
  PROVE  LET header == HeaderOf(Geometry(c), 60)
         IN  Agrees(c, header.width, header.height, Orientations[Rotation(c.rotation).value + 1])
<1> DEFINE geometry == Geometry(c)
           header == HeaderOf(geometry, 60)
           to == TurnedTo(c.rotation)
<1>0. /\ MaxWidth \in Nat /\ c.report.physical \in Reports /\ c.report.override \in Reports
      /\ DisplaySize(c.report) # Unreported => Least(DisplaySize(c.report)[1], MaxWidth) < 65536
      /\ c.given \in {NotGiven} \cup (Word \X Word) /\ c.own \in {AsAsked} \cup (Word \X Word)
      /\ c.rotation \in Degrees
  BY ConfigAssumption DEF Degrees
<1>1. Sideways(c.rotation) <=> Upright(to)
  <2>1. c.rotation \in Degrees  BY <1>0
  <2> QED  BY ONLY <2>1, TurnedUpright, Zenon
<1>2. ASSUME NEW w \in Word, NEW h \in Word, geometry = <<w, h>>
      PROVE  header.width = w /\ header.height = h
  <2>1. w % 65536 = w /\ h % 65536 = h  BY SMT DEF Word
  <2>2. geometry[1] = w /\ geometry[2] = h  BY ONLY <1>2, SMT
  <2> HIDE DEF geometry
  <2>3. header.width = geometry[1] % 65536 /\ header.height = geometry[2] % 65536
    BY ONLY SMT DEF HeaderOf
  <2> QED  BY ONLY <2>1, <2>2, <2>3, SMT
<1>3. CASE c.own # AsAsked
  <2>1. PICK w \in Word, h \in Word : c.own = <<w, h>>  BY ONLY <1>0, <1>3, SMT
  <2>2. geometry = <<w, h>>  BY <1>3, <2>1 DEF Geometry
  <2>3. header.width = w /\ header.height = h  BY ONLY <1>2, <2>2
  <2> HIDE DEF header, to
  <2>4. <<header.width, header.height>> = Geometry(c)  BY ONLY <2>2, <2>3, Zenon DEF geometry
  <2>5. Agrees(c, header.width, header.height, to)  BY ONLY <1>3, <2>4, Zenon DEF Agrees
  <2> QED  BY ONLY <2>5, Zenon DEF header, geometry, to, TurnedTo
<1>4. CASE c.own = AsAsked /\ c.given # NotGiven
  <2>1. PICK w \in Word, h \in Word : c.given = <<w, h>>  BY ONLY <1>0, <1>4, SMT
  <2>2. geometry = IF Sideways(c.rotation) THEN <<h, w>> ELSE <<w, h>>
    BY <1>4, <2>1 DEF Geometry, Asked, StreamSize, Sideways
  <2>3. CASE Sideways(c.rotation)
    <3>1. geometry = <<h, w>>  BY ONLY <2>2, <2>3, Zenon
    <3>2. header.width = h /\ header.height = w  BY ONLY <1>2, <3>1
    <3>3. to \in {"portrait", "reverse portrait"}  BY ONLY <1>1, <2>3, Zenon DEF Upright
    <3> HIDE DEF header, to
    <3>4. <<header.width, header.height>> = Geometry(c) /\ c.given = <<header.height, header.width>>
      BY ONLY <2>1, <3>1, <3>2, Zenon DEF geometry
    <3>5. Agrees(c, header.width, header.height, to)  BY ONLY <1>4, <3>3, <3>4, Zenon DEF Agrees
    <3> QED  BY ONLY <3>5, Zenon DEF header, geometry, to, TurnedTo
  <2>4. CASE ~Sideways(c.rotation)
    <3>1. geometry = <<w, h>>  BY ONLY <2>2, <2>4, Zenon
    <3>2. header.width = w /\ header.height = h  BY ONLY <1>2, <3>1
    <3>3. to \notin {"portrait", "reverse portrait"}  BY ONLY <1>1, <2>4, Zenon DEF Upright
    <3> HIDE DEF header, to
    <3>4. <<header.width, header.height>> = Geometry(c) /\ c.given = <<header.width, header.height>>
      BY ONLY <2>1, <3>1, <3>2, Zenon DEF geometry
    <3>5. Agrees(c, header.width, header.height, to)  BY ONLY <1>4, <3>3, <3>4, Zenon DEF Agrees
    <3> QED  BY ONLY <3>5, Zenon DEF header, geometry, to, TurnedTo
  <2> QED  BY ONLY <2>3, <2>4, Zenon
<1>5. CASE c.own = AsAsked /\ c.given = NotGiven
  <2>1. DisplaySize(c.report) # Unreported  BY <1>5 DEF Sized
  <2>2. geometry = StreamSize(NotGiven, DisplaySize(c.report), MaxWidth, c.rotation)
    BY <1>5 DEF Geometry, Asked
  <2>3. 60 \in Nat  OBVIOUS
  <2>4. /\ geometry = <<header.width, header.height>>
        /\ Fits(DisplaySize(c.report), header.width, header.height, to)
    BY ONLY <1>0, <2>1, <2>2, <2>3, ScaledFits, SMT
  <2> HIDE DEF header, to
  <2>5. Agrees(c, header.width, header.height, to)
    BY ONLY <1>5, <2>4, Zenon DEF Agrees, geometry
  <2> QED  BY ONLY <2>5, Zenon DEF header, geometry, to, TurnedTo
<1> QED  BY ONLY <1>3, <1>4, <1>5, Zenon

LEMMA GeometryTyped ==
  ASSUME NEW c \in Configs, Sized(c)
  PROVE  Geometry(c)[1] \in Nat /\ Geometry(c)[2] \in Nat
<1> DEFINE geometry == Geometry(c)
<1>1. /\ MaxWidth \in Nat /\ c.report.physical \in Reports /\ c.report.override \in Reports
      /\ c.given \in {NotGiven} \cup (Word \X Word) /\ c.own \in {AsAsked} \cup (Word \X Word)
  BY ConfigAssumption
<1>2. CASE c.own # AsAsked
  <2>1. c.own \in Word \X Word  BY <1>1, <1>2
  <2> QED  BY <1>2, <2>1, SMT DEF Geometry, Word
<1>3. CASE c.own = AsAsked
  <2> DEFINE s == IF c.given # NotGiven THEN c.given ELSE StreamResolution(DisplaySize(c.report), MaxWidth)
  <2>1. geometry = IF c.rotation \in {90, 270} THEN <<s[2], s[1]>> ELSE s
    BY <1>3 DEF Geometry, Asked, StreamSize
  <2>2. s[1] \in Nat /\ s[2] \in Nat
    <3>1. CASE c.given # NotGiven
      <4>1. c.given \in Word \X Word  BY <1>1, <3>1
      <4> QED  BY <3>1, <4>1, SMT DEF Word
    <3>2. CASE c.given = NotGiven
      <4>1. DisplaySize(c.report) # Unreported  BY <3>2 DEF Sized
      <4>2. PICK pw, ph \in Nat \ {0} : DisplaySize(c.report) = <<pw, ph>>
        BY <1>1, <4>1, LongSideFirst
      <4> QED  BY <1>1, <3>2, <4>2, StreamFits
    <3> QED  BY <3>1, <3>2
  <2> HIDE DEF s, geometry
  <2>3. CASE c.rotation \in {90, 270}
    <3>1. geometry = <<s[2], s[1]>>  BY <2>1, <2>3
    <3> QED  BY ONLY <2>2, <3>1, SMT DEF geometry
  <2>4. CASE c.rotation \notin {90, 270}
    <3>1. geometry = s  BY <2>1, <2>4
    <3> QED  BY ONLY <2>2, <3>1, Zenon DEF geometry
  <2> QED  BY ONLY <2>3, <2>4, Zenon
<1> QED  BY <1>2, <1>3

LEMMA OpeningMade ==
  ASSUME NEW c \in Configs, Sized(c), NEW h \in Headers
  PROVE  [Size(c) EXCEPT !.version = h.version, !.codec = h.codec] \in Opening(c)
<1> DEFINE size == Geometry(c)
           p == Size(c)
           x == h.version
           y == h.codec
           n == [p EXCEPT !.version = x, !.codec = y]
<1>2. size[1] \in Nat /\ size[2] \in Nat
  BY GeometryTyped
<1>3. p = [kind |-> "stream", version |-> Version, width |-> Low16(size[1]),
             height |-> Low16(size[2]), framerate |-> Low16(60), codec |-> 0]
  BY ONLY SMT DEF Size, HeaderOf, Low16
<1> HIDE DEF size
<1>4. Low16(size[1]) \in Word /\ Low16(size[2]) \in Word /\ Low16(60) \in Word /\ Version \in Word
      /\ 0 \in Byte /\ x \in Word /\ y \in Byte
  <2>1. Low16(size[1]) \in Word /\ Low16(size[2]) \in Word  BY ONLY <1>2, Modulus, Zenon
  <2>2. x \in Word /\ y \in Byte  BY ONLY h \in Headers, HeaderFields, Zenon
  <2>3. Version \in Word /\ 0 \in Byte /\ 60 \in Nat  BY ONLY SMT DEF Word, Version, Byte
  <2>4. Low16(60) \in Word  BY ONLY <2>3, Modulus, SMT
  <2> QED  BY ONLY <2>1, <2>2, <2>3, <2>4, Zenon
<1>5. p \in Announced  BY ONLY <1>3, <1>4, SMT DEF Announced
<1> HIDE DEF p, x, y
<1>6. n \in Announced /\ n.width = p.width /\ n.height = p.height
  <2>1. p \in [kind : {"stream"}, version : Word, width : Word, height : Word, framerate : Word, codec : Byte]
    BY ONLY <1>5, Zenon DEF Announced
  <2>2. x \in Word /\ y \in Byte  BY <1>4
  <2>3. n \in [kind : {"stream"}, version : Word, width : Word, height : Word, framerate : Word, codec : Byte]
    BY ONLY <2>1, <2>2, Zenon
  <2>4. n.width = p.width /\ n.height = p.height  BY ONLY <2>1, <2>2, Zenon
  <2> QED  BY ONLY <2>3, <2>4, Zenon DEF Announced
<1> QED  BY ONLY <1>6, Zenon DEF Opening, p, x, y

LEMMA TurningMade ==
  ASSUME NEW c \in Configs, Sized(c)
  PROVE  /\ [kind |-> "control", control |-> Rotation(c.rotation)] \in Turning(c)
         /\ c.brightness # Unset => [kind |-> "control", control |-> Brightness(c.brightness)] \in Turning(c)
         /\ Videos \cup Controls \subseteq Turning(c)
<1>1. c.rotation \in {0, 90, 180, 270} /\ c.brightness \in Nat \cup {-1}  BY ConfigAssumption
<1> DEFINE r == [kind |-> "control", control |-> Rotation(c.rotation)]
           b == [kind |-> "control", control |-> Brightness(c.brightness)]
<1>2. r \in Turning(c)
  <2>1. Rotation(c.rotation) = [id |-> 2, value |-> c.rotation \div 90]  BY DEF Rotation
  <2>2. c.rotation \div 90 \in Byte  BY ONLY <1>1, SMT DEF Byte
  <2>3. 2 \in Byte  BY DEF Byte
  <2>4. r \in Sent /\ r.control = Rotation(c.rotation)  BY ONLY <2>1, <2>2, <2>3, SMT DEF Sent
  <2> HIDE DEF r
  <2> QED  BY ONLY <2>4, Zenon DEF Turning, FrameMessages
<1>3. ASSUME c.brightness # Unset PROVE b \in Turning(c)
  <2>1. Brightness(c.brightness) = [id |-> 1, value |-> Least(c.brightness, 100)]  BY DEF Brightness
  <2>2. Least(c.brightness, 100) \in Byte /\ Least(c.brightness, 100) <= 100
    BY ONLY <1>1, <1>3, SMT DEF Byte, Least, Unset
  <2>3. 1 \in Byte  BY DEF Byte
  <2>4. b \in Sent /\ b.control.id = 1  BY ONLY <2>1, <2>2, <2>3, SMT DEF Sent
  <2> HIDE DEF b
  <2>5. b.control.id # 2  BY <2>4
  <2> QED  BY ONLY <2>4, <2>5, Zenon DEF Turning, FrameMessages
<1>4. Videos \subseteq Turning(c)
  <2>1. \A m \in Videos : m.kind # "control"  BY SMT DEF Videos
  <2> QED  BY <2>1, Zenon DEF Turning, FrameMessages
<1>5. Controls \subseteq Turning(c)
  <2>1. ASSUME NEW m \in Controls PROVE m \in Sent /\ ~(m.control.id = 2 /\ m.control.value <= 3)
    <3>1. /\ m \in [kind : {"control"}, control : [id : Byte, value : Byte]]
          /\ m.control.id = 1 => m.control.value <= 100
          /\ m.control.id = 2 => m.control.value > 3
      BY DEF Controls
    <3>2. m \in Sent  BY ONLY <3>1, Zenon DEF Sent
    <3>3. m.control.value \in Nat  BY ONLY <3>1, SMT DEF Byte
    <3> QED  BY ONLY <3>1, <3>2, <3>3, SMT
  <2> QED  BY ONLY <2>1, Zenon DEF Turning, FrameMessages
<1> QED  BY <1>2, <1>3, <1>4, <1>5
(* A sequence that opens with one element and goes on in a set.            *)
OpensWith(s, x, Q) ==
  s \in Seq(Q \cup {x}) /\ Len(s) >= 1 /\ s[1] = x /\ \A i \in 2 .. Len(s) : s[i] \in Q

LEMMA OpensStill ==
  ASSUME NEW Q, NEW x, NEW s, OpensWith(s, x, Q), NEW t \in Seq(Q)
  PROVE  OpensWith(s \o t, x, Q)
<1> DEFINE S == Q \cup {x}
           n == Len(s)
           k == Len(t)
           c == s \o t
<1>1. s \in Seq(S) /\ n >= 1 /\ s[1] = x /\ \A i \in 2 .. n : s[i] \in Q  BY Zenon DEF OpensWith
<1>2. t \in Seq(S)
  <2>1. Q \subseteq S  OBVIOUS
  <2> HIDE DEF S
  <2> QED  BY ONLY <2>1, t \in Seq(Q), SeqMonotonic, Zenon
<1>3. \A i \in 1 .. k : t[i] \in Q  BY ElementOfSeq
<1>7. n \in Nat /\ k \in Nat
  <2>1. n \in Nat  BY <1>1, LenProperties
  <2>2. k \in Nat  BY LenProperties
  <2> QED  BY <2>1, <2>2
<1> HIDE DEF S
<1>4. /\ c \in Seq(S) /\ Len(c) = n + k
      /\ \A i \in 1 .. n : c[i] = s[i]
      /\ \A i \in 1 .. k : c[n + i] = t[i]
  BY ONLY <1>1, <1>2, Cat
<1> HIDE DEF n, k, c
<1>5. Len(c) >= 1 /\ c[1] = x
  <2>1. 1 \in 1 .. n /\ n + k >= 1  BY ONLY <1>1, <1>7, SMT
  <2> QED  BY <1>1, <1>4, <2>1
<1>6. ASSUME NEW i \in 2 .. n + k PROVE c[i] \in Q
  <2>1. CASE i <= n
    <3>1. i \in 1 .. n /\ i \in 2 .. n  BY ONLY <1>7, <2>1, i \in 2 .. n + k, SMT
    <3> QED  BY ONLY <1>1, <1>4, <3>1, Zenon
  <2>2. CASE ~(i <= n)
    <3>1. i - n \in 1 .. k /\ n + (i - n) = i  BY ONLY <1>7, <2>2, i \in 2 .. n + k, SMT
    <3>2. c[n + (i - n)] = t[i - n] /\ t[i - n] \in Q  BY ONLY <1>3, <1>4, <3>1, Zenon
    <3> QED  BY ONLY <3>1, <3>2, Zenon
  <2> QED  BY <2>1, <2>2
<1> QED  BY ONLY <1>4, <1>5, <1>6, Zenon DEF OpensWith, S, c

LEMMA StartedAtFirst ==
  ASSUME Init
  PROVE  Started /\ Scripted
<1>1. side \in {"down", "up", "track"}  BY Zenon DEF Init
<1>2. CASE side = "down"
  <2>1. config \in Configs /\ Sized(config)  BY <1>2 DEF Init
  <2>2. PICK s \in Scripts["down"] : script = Preamble(config, s[1]) \o Tail(s)
    BY ONLY Init, <1>2, Zenon DEF Init
  <2> DEFINE Q == Turning(config)
             h == s[1]
             x == [Size(config) EXCEPT !.version = h.version, !.codec = h.codec]
             b == IF config.brightness = Unset THEN <<>>
                  ELSE <<[kind |-> "control", control |-> Brightness(config.brightness)]>>
             r == <<[kind |-> "control", control |-> Rotation(config.rotation)]>>
             t == Tail(s)
  <2>3. script = ((<<x>> \o b) \o r) \o t  BY <2>2 DEF Preamble, Size
  <2>4. s # <<>> /\ Head(s) \in Headers /\ Tail(s) \in Seq(Videos \cup Controls)  BY ScriptAssumption
  <2>5. h \in Headers
    <3>1. Head(s) = h  BY DEF Head
    <3> QED  BY <2>4, <3>1
  <2>6. x \in Opening(config)  BY ONLY <2>1, <2>5, OpeningMade
  <2>7. /\ [kind |-> "control", control |-> Rotation(config.rotation)] \in Q
        /\ config.brightness # Unset => [kind |-> "control", control |-> Brightness(config.brightness)] \in Q
        /\ Videos \cup Controls \subseteq Q
    BY ONLY <2>1, TurningMade
  <2> HIDE DEF Q, x
  <2>8. b \in Seq(Q) /\ r \in Seq(Q)  BY ONLY <2>7, SMT
  <2>9. t \in Seq(Q)  BY ONLY <2>4, <2>7, SeqMonotonic, Zenon
  <2> HIDE DEF b, r, t
  <2>10. OpensWith(<<x>>, x, Q)
    <3>1. <<x>> \in Seq(Q \cup {x}) /\ Len(<<x>>) = 1 /\ <<x>>[1] = x  BY SMT
    <3>2. 2 .. 1 = {}  BY SMT
    <3>3. \A i \in 2 .. Len(<<x>>) : <<x>>[i] \in Q  BY <3>1, <3>2
    <3>4. 1 >= 1  OBVIOUS
    <3> QED  BY ONLY <3>1, <3>3, <3>4, SMT DEF OpensWith
  <2>11. OpensWith(<<x>> \o b, x, Q)  BY ONLY <2>8, <2>10, OpensStill
  <2>12. OpensWith((<<x>> \o b) \o r, x, Q)  BY ONLY <2>8, <2>11, OpensStill
  <2>13. OpensWith(script, x, Q)  BY ONLY <2>3, <2>9, <2>12, OpensStill
  <2>14. /\ script \in Seq(Q \cup {x}) /\ Len(script) >= 1 /\ script[1] = x
         /\ \A i \in 2 .. Len(script) : script[i] \in Q
    BY ONLY <2>13, Zenon DEF OpensWith
  <2>15. DOMAIN script = 1 .. Len(script) /\ Len(script) \in Nat
    BY ONLY <2>14, LenProperties, Zenon
  <2>16. 1 \in DOMAIN script /\ \A i \in DOMAIN script : i # 1 => i \in 2 .. Len(script)
    BY ONLY <2>14, <2>15, SMT
  <2>17. Started  BY ONLY <2>1, <2>6, <2>14, <2>16, Zenon DEF Started, Q
  <2>18. x \in Announced /\ Q \subseteq FrameMessages
    BY ONLY <2>6, Zenon DEF Opening, Turning, Q
  <2>19. script \in Seq(Ours)
    <3>1. Q \cup {x} \subseteq Ours  BY ONLY <2>18, Zenon DEF Ours
    <3> DEFINE U == Q \cup {x}
    <3> HIDE DEF U
    <3>2. script \in Seq(U) /\ U \subseteq Ours  BY <2>14, <3>1 DEF U
    <3> QED  BY ONLY <3>2, SeqMonotonic, Zenon
  <2>20. ASSUME NEW i \in DOMAIN script PROVE script[i] \in IF i = 1 THEN Announced ELSE FrameMessages
    BY ONLY <2>14, <2>16, <2>18, i \in DOMAIN script, Zenon
  <2>21. side # "up" /\ side # "track"  BY <1>2
  <2> QED  BY ONLY <2>17, <2>19, <2>20, <2>21, Zenon DEF Scripted
<1>3. CASE side = "up"
  <2>1. script \in Scripts["up"]  BY <1>3 DEF Init
  <2>2. script \in Seq(Acks \cup Touches \cup Others)  BY <2>1, ScriptAssumption
  <2>3. script \in Seq(ReplyMessages)  BY ONLY <2>2, Zenon DEF ReplyMessages
  <2>4. \A i \in DOMAIN script : script[i] \in ReplyMessages  BY <2>3, ElementOfSeq, LenProperties
  <2>5. script \in Seq(Ours)
    <3>1. ReplyMessages \subseteq Ours  BY DEF Ours
    <3> QED  BY ONLY <2>3, <3>1, SeqMonotonic, Zenon
  <2>6. side # "down" /\ side # "track"  BY <1>3
  <2> QED  BY ONLY <2>4, <2>5, <2>6, Zenon DEF Scripted, Started
<1>4. CASE side = "track"
  <2>1. script \in Scripts["track"]  BY <1>4 DEF Init
  <2>2. script \in Seq(Listings)  BY <2>1, ScriptAssumption
  <2>4. \A i \in DOMAIN script : script[i] \in Listings  BY <2>2, ElementOfSeq, LenProperties
  <2>5. script \in Seq(Ours)
    <3>1. Listings \subseteq Ours  BY DEF Ours
    <3> QED  BY ONLY <2>2, <3>1, SeqMonotonic, Zenon
  <2>6. side # "down" /\ side # "up"  BY <1>4
  <2> QED  BY ONLY <2>4, <2>5, <2>6, Zenon DEF Scripted, Started
<1> QED  BY <1>1, <1>2, <1>3, <1>4
----------------------------------------------------------------------------
(* The invariant holds when nothing is written, and every step keeps it.   *)
LEMMA InvAtFirst ==
  ASSUME Init
  PROVE  FramingInv
<1>1. /\ side \in {"down", "up", "track"} /\ torn = FALSE
      /\ todo = script /\ slices = Written /\ wire = <<>> /\ open = TRUE
      /\ reader = (IF side = "down" THEN "stream" ELSE "header")
      /\ frame = Refused /\ buf = <<>> /\ taken = <<>>
  BY Zenon DEF Init
<1>2. Scripted  BY StartedAtFirst
<1> DEFINE n == Len(script)
<1>3. n \in Nat /\ script \in Seq(Ours)  BY <1>2, HeardTyped, Zenon DEF Scripted
<1>4. n \in 0 .. Len(script)  BY <1>3, SMT
<1>5. Told(n)  BY <1>1, <1>2, NoneTold
<1>6. <<>> \in Seq(Byte) /\ Len(<<>>) < ReverseLen  BY DEF ReverseLen
<1>7. Sending
  <2>1. slices[1] = <<>> /\ slices[2] = <<>>  BY <1>1 DEF Written
  <2>2. \A i \in 1 .. Len(todo) : todo[i] = script[Len(script) - Len(todo) + i]
    <3>1. \A i \in 1 .. n : n - n + i = i  BY ONLY <1>3, SMT
    <3> QED  BY ONLY <1>1, <3>1, Zenon
  <2>3. Len(todo) <= Len(script)  BY <1>1, <1>3
  <2> QED  BY ONLY <1>1, <1>3, <1>6, <2>1, <2>2, <2>3, Zenon DEF Sending
<1>8. Ahead = Rest[n]
  <2> DEFINE r == Rest[n]
  <2>1. r \in Seq(Byte)  BY <1>2, <1>4, RestDef
  <2>2. Bytes(slices) = <<>>
    <3>1. Bytes(Written) = <<>>  BY SMT DEF Bytes, Written
    <3> QED  BY <1>1, <3>1
  <2>3. Ahead = <<>> \o (<<>> \o (<<>> \o r))  BY ONLY <1>1, <2>2, Zenon DEF Ahead, Beyond
  <2> HIDE DEF r
  <2>4. <<>> \o r = r  BY ONLY <2>1, ConcatEmptySeq
  <2> QED  BY ONLY <2>3, <2>4, Zenon DEF r
<1>9. Synced(n)
  <2>1. CASE side = "down"
    <3>1. reader = "stream" /\ reader # "ended" /\ reader # "payload"  BY <1>1, <2>1
    <3> QED  BY ONLY <1>1, <1>8, <2>1, <3>1, Zenon DEF Synced
  <2>2. CASE side # "down"
    <3>1. reader = "header" /\ reader # "ended" /\ reader # "payload" /\ reader # "stream"  BY <1>1, <2>2
    <3> QED  BY ONLY <1>1, <1>8, <2>2, <3>1, Zenon DEF Synced
  <2> QED  BY <2>1, <2>2
<1>10. Reading  BY ONLY <1>4, <1>5, <1>7, <1>9, Zenon DEF Reading
<1> QED  BY ONLY <1>1, <1>2, <1>10, Zenon DEF FramingInv

LEMMA SameStream ==
  ASSUME [Next]_vars
  PROVE  /\ side' = side /\ config' = config /\ script' = script
         /\ (torn => torn') /\ (side # "track" => (torn' <=> torn))
<1>1. CASE Begin  BY <1>1, Zenon DEF Begin, read
<1>2. CASE Write  BY <1>2, Zenon DEF Write, read
<1>3. CASE Break  BY <1>3, Zenon DEF Break, read
<1>4. CASE AppReadsStream  BY <1>4, Zenon DEF AppReadsStream
<1>5. CASE AppReadsHeader  BY <1>5, Zenon DEF AppReadsHeader
<1>6. CASE AppReadsPayload  BY <1>6, Zenon DEF AppReadsPayload
<1>7. CASE AckThreadReads  BY <1>7, Zenon DEF AckThreadReads
<1>8. CASE AckThreadTimesOut  BY <1>8, Zenon DEF AckThreadTimesOut
<1>9. CASE TrackerReadsLength  BY <1>9, Zenon DEF TrackerReadsLength
<1>10. CASE TrackerReadsPayload  BY <1>10, Zenon DEF TrackerReadsPayload
<1>11. CASE TrackerTimesOut
  <2>1. /\ side' = side /\ config' = config /\ script' = script /\ side = "track"
        /\ torn' = (torn \/ wire # <<>> \/ reader = "payload")
    BY <1>11, Zenon DEF TrackerTimesOut
  <2> QED  BY ONLY <2>1, Zenon
<1>12. CASE ReaderSeesEnd  BY <1>12, Zenon DEF ReaderSeesEnd
<1>13. CASE UNCHANGED vars  BY <1>13, Zenon DEF vars, read
<1> QED
  BY <1>1, <1>2, <1>3, <1>4, <1>5, <1>6, <1>7, <1>8, <1>9, <1>10, <1>11, <1>12, <1>13, Zenon DEF Next

(* The writer's steps, and the end of the reader, leave what was told.     *)
LEMMA WriterKeeps ==
  ASSUME Scripted, NEW n \in 0 .. Len(script), Told(n), Over(n) \/ (Sending /\ Synced(n)),
         Begin \/ Write \/ Break \/ UNCHANGED vars
  PROVE  Reading'
<1>1. /\ script' = script /\ side' = side /\ reader' = reader /\ frame' = frame /\ taken' = taken
      /\ open' => open
  <2>1. CASE Begin  BY <2>1, Zenon DEF Begin, read
  <2>2. CASE Write  BY <2>2, Zenon DEF Write, read
  <2>3. CASE Break  BY <2>3, Zenon DEF Break, read
  <2>4. CASE UNCHANGED vars
    <3>1. /\ script' = script /\ side' = side /\ reader' = reader /\ frame' = frame /\ taken' = taken
          /\ open' = open
      BY <2>4, Zenon DEF vars, read, written
    <3> QED  BY <3>1
  <2> QED  BY <2>1, <2>2, <2>3, <2>4
<1>2. Told(n)'  BY <1>1, SameTold
<1>3. Over(n) => Over(n)'  BY <1>1, SameOver
<1>4. ASSUME Sending, Synced(n) PROVE Sending' /\ Synced(n)'
  <2>1. Sending' /\ Ahead' = Ahead
    <3>1. CASE Begin  BY <1>4, <3>1, BeginKeeps
    <3>2. CASE Write  BY <1>4, <3>2, WriteKeeps
    <3>3. CASE Break  BY <1>4, <3>3, BreakKeeps
    <3>4. CASE UNCHANGED vars
      <4>1. /\ todo' = todo /\ slices' = slices /\ wire' = wire /\ buf' = buf
        BY <3>4, Zenon DEF vars, read, written
      <4>2. Rest' = Rest  BY <1>1, SameScript
      <4>3. Ahead' = Ahead  BY ONLY <4>1, <4>2, Zenon DEF Ahead, Beyond
      <4>4. Sending'  BY ONLY <1>1, <1>4, <4>1, Zenon DEF Sending
      <4> QED  BY <4>3, <4>4
    <3> QED  BY <3>1, <3>2, <3>3, <3>4
  <2>2. Synced(n)'  BY ONLY <1>1, <1>4, <2>1, SameSynced
  <2> QED  BY <2>1, <2>2
<1> QED  BY ONLY <1>1, <1>2, <1>3, <1>4, Over(n) \/ (Sending /\ Synced(n)), n \in 0 .. Len(script),
            StillReading, Zenon

LEMMA InvKept ==
  ASSUME FramingInv, [Next]_vars
  PROVE  FramingInv'
<1>1. Scripted /\ side \in {"down", "up", "track"} /\ (side # "track" => ~torn) /\ (~torn => Reading)
  BY Zenon DEF FramingInv
<1>2. /\ side' = side /\ script' = script
      /\ (torn => torn') /\ (side # "track" => (torn' <=> torn))
  BY SameStream
<1>3. Scripted'  BY <1>1, <1>2, SameScripted
<1>4. ASSUME ~torn' PROVE Reading'
  <2>1. PICK n \in 0 .. Len(script) : Told(n) /\ (Over(n) \/ (Sending /\ Synced(n)))
    BY <1>1, <1>2, <1>4, Zenon DEF Reading
  <2>2. CASE Begin \/ Write \/ Break \/ UNCHANGED vars
    BY ONLY <1>1, <2>1, <2>2, n \in 0 .. Len(script), WriterKeeps, Zenon
  <2>3. CASE ~(Begin \/ Write \/ Break \/ UNCHANGED vars)
    <3>1. \/ AppReadsStream \/ AppReadsHeader \/ AppReadsPayload
          \/ AckThreadReads \/ AckThreadTimesOut
          \/ TrackerReadsLength \/ TrackerReadsPayload \/ TrackerTimesOut
          \/ ReaderSeesEnd
      BY <2>3, Zenon DEF Next
    <3>2. Over(n) => reader = "ended"  BY Zenon DEF Over
    <3>3. reader # "ended"
      <4>1. AppReadsStream => reader = "stream"  BY Zenon DEF AppReadsStream
      <4>2. AppReadsHeader => reader = "header"  BY Zenon DEF AppReadsHeader
      <4>3. AppReadsPayload => reader = "payload"  BY Zenon DEF AppReadsPayload
      <4>4. AckThreadReads => reader # "ended"  BY Zenon DEF AckThreadReads
      <4>5. AckThreadTimesOut => reader # "ended"  BY Zenon DEF AckThreadTimesOut
      <4>6. TrackerReadsLength => reader = "header"  BY Zenon DEF TrackerReadsLength
      <4>7. TrackerReadsPayload => reader = "payload"  BY Zenon DEF TrackerReadsPayload
      <4>8. TrackerTimesOut => reader = "header" \/ reader = "payload"  BY Zenon DEF TrackerTimesOut
      <4>9. ReaderSeesEnd => reader # "ended"  BY Zenon DEF ReaderSeesEnd
      <4> QED  BY ONLY <3>1, <4>1, <4>2, <4>3, <4>4, <4>5, <4>6, <4>7, <4>8, <4>9
    <3>4. Sending /\ Synced(n)  BY <2>1, <3>2, <3>3
    <3>5. CASE AppReadsStream  BY <1>1, <2>1, <3>4, <3>5, AppReadsStreamKeeps
    <3>6. CASE AppReadsHeader  BY <1>1, <2>1, <3>4, <3>6, AppReadsHeaderKeeps
    <3>7. CASE AppReadsPayload  BY <1>1, <2>1, <3>4, <3>7, AppReadsPayloadKeeps
    <3>8. CASE AckThreadReads  BY <1>1, <2>1, <3>4, <3>8, AckThreadReadsKeeps
    <3>9. CASE AckThreadTimesOut  BY <2>1, <3>4, <3>9, AckThreadTimesOutKeeps
    <3>10. CASE TrackerReadsLength  BY <1>1, <2>1, <3>4, <3>10, TrackerReadsLengthKeeps
    <3>11. CASE TrackerReadsPayload  BY <1>1, <2>1, <3>4, <3>11, TrackerReadsPayloadKeeps
    <3>12. CASE TrackerTimesOut  BY <1>4, <2>1, <3>4, <3>12, TrackerTimesOutKeeps
    <3>13. CASE ReaderSeesEnd  BY <2>1, <3>4, <3>13, ReaderSeesEndKeeps
    <3> QED  BY <3>1, <3>5, <3>6, <3>7, <3>8, <3>9, <3>10, <3>11, <3>12, <3>13
  <2> QED  BY <2>2, <2>3
<1>5. ASSUME side' # "track" PROVE ~torn'
  <2>1. side # "track"  BY ONLY <1>2, <1>5, Zenon
  <2>2. ~torn  BY ONLY <1>1, <2>1, Zenon
  <2>3. torn' <=> torn  BY ONLY <1>2, <2>1, Zenon
  <2> QED  BY ONLY <2>2, <2>3, Zenon
<1> QED  BY ONLY <1>1, <1>2, <1>3, <1>4, <1>5, Zenon DEF FramingInv

(* At every moment the bytes not yet read, from the reader's buffer over   *)
(* the wire to the writer's slices, are the text of the messages the       *)
(* reader has not made anything of, and it stands between two of them or   *)
(* between a header and its payload.                                       *)
THEOREM StreamKept == Spec => []FramingInv
<1>1. Init => FramingInv  BY InvAtFirst
<1>2. FramingInv /\ [Next]_vars => FramingInv'  BY InvKept
<1> QED  BY <1>1, <1>2, PTL DEF Spec
(* What the invariant says of the messages taken.                          *)
LEMMA ReadingTells ==
  ASSUME FramingInv
  PROVE  ReadAsWritten
<1>1. Scripted  BY Zenon DEF FramingInv
<1>2. ASSUME ~torn
      PROVE  /\ \A i \in DOMAIN taken : \E n \in Heard : Count(n) = i /\ Means(script[n], taken[i])
             /\ AllRead => Len(taken) = Cardinality(Heard)
  <2>1. Reading  BY <1>2, Zenon DEF FramingInv
  <2>2. PICK n \in 0 .. Len(script) : Told(n) /\ (Over(n) \/ (Sending /\ Synced(n)))
    BY <2>1, Zenon DEF Reading
  <2>3. /\ Len(taken) = Count(Len(script) - n)
        /\ \A i \in DOMAIN taken : \E h \in Heard : Count(h) = i /\ Means(script[h], taken[i])
    BY <2>2, Zenon DEF Told
  <2> DEFINE j == Len(script) - n
  <2>4. Len(script) \in Nat  BY <1>1, HeardTyped
  <2>5. j \in 0 .. Len(script) /\ (n = 0 => j = Len(script))
    BY ONLY <2>4, n \in 0 .. Len(script), SMT
  <2>6. ASSUME AllRead PROVE n = 0 \/ Ends(script[j + 1])
    <3>1. CASE Over(n)
      <4>1. n > 0 /\ Ends(Last(n))  BY <3>1, Zenon DEF Over
      <4>2. n \in 1 .. Len(script)  BY ONLY <2>4, <4>1, n \in 0 .. Len(script), SMT
      <4>3. Last(n) = script[j + 1]  BY ONLY <1>1, <4>2, LastOne, Zenon
      <4> QED  BY ONLY <4>1, <4>3, Zenon
    <3>2. CASE Sending /\ Synced(n)
      <4>1. ~(reader = "ended" /\ open)  BY <3>2, Zenon DEF Synced
      <4>2. todo = <<>> /\ slices = Written /\ wire = <<>> /\ buf = <<>> /\ frame = Refused
        BY <2>6, <4>1, Zenon DEF AllRead
      <4>3. Ahead = Rest[n]  BY <3>2, <4>2, Zenon DEF Synced
      <4>4. Ahead = <<>>
        <5>1. Len(todo) = 0  BY <4>2
        <5>2. Rest[0] = <<>>  BY <1>1, RestDef
        <5>3. Bytes(Written) = <<>>  BY SMT DEF Bytes, Written
        <5>4. Ahead = <<>> \o (<<>> \o (<<>> \o <<>>))
          BY ONLY <4>2, <5>1, <5>2, <5>3, Zenon DEF Ahead, Beyond
        <5>5. <<>> \o <<>> = <<>>  BY SMT
        <5> QED  BY ONLY <5>4, <5>5, Zenon
      <4>5. n = 0  BY ONLY <1>1, <4>3, <4>4, n \in 0 .. Len(script), MoreToCome, Zenon
      <4> QED  BY <4>5
    <3> QED  BY <2>2, <3>1, <3>2
  <2>7. ASSUME AllRead PROVE Len(taken) = Cardinality(Heard)
    <3>1. j = Len(script) \/ Ends(script[j + 1])  BY ONLY <2>5, <2>6, <2>7, Zenon
    <3> HIDE DEF j
    <3>2. Count(j) = Cardinality(Heard)  BY ONLY <1>1, <2>5, <3>1, CountAll, Zenon
    <3> QED  BY ONLY <2>3, <3>2, Zenon DEF j
  <2> QED  BY <2>3, <2>7
<1> QED  BY ONLY <1>2, Zenon DEF ReadAsWritten

(* What a reader has made of the stream is what was written, in order and  *)
(* from the first message on, and in the end it has it all: for every      *)
(* script, every way of cutting the bytes and every place of a break.      *)
THEOREM ReadAsWrittenHolds == Spec => []ReadAsWritten
<1>1. FramingInv => ReadAsWritten  BY ReadingTells
<1> QED  BY <1>1, StreamKept, PTL

----------------------------------------------------------------------------
(* The size of the stream and the way the screen is turned.                *)
LEMMA StartedStays ==
  ASSUME Started, [Next]_vars
  PROVE  Started'
BY SameStream, Zenon DEF Started

(* What is made of a message tells its kind.                               *)
LEMMA KindTold ==
  ASSUME NEW c, NEW m \in Opening(c) \cup Turning(c), NEW got, Means(m, got), ~Unknown(m)
  PROVE  /\ m.kind = "stream" => got.width = m.width /\ got.height = m.height
         /\ got.kind = "rotation" => got.to = Orientations[Rotation(c.rotation).value + 1]
<1>1. CASE m \in Opening(c)
  <2>1. m.kind = "stream"  BY <1>1, SMT DEF Opening, Announced
  <2>2. /\ got.kind = "stream" /\ got.mime = Codecs[m.codec + 1]
        /\ <<got.width, got.height, got.framerate>> = <<m.width, m.height, m.framerate>>
    BY ONLY <2>1, Means(m, got), Zenon DEF Means
  <2>3. got.width = m.width /\ got.height = m.height  BY ONLY <2>2, SMT
  <2>4. got.kind # "rotation"  BY <2>2
  <2> QED  BY <2>1, <2>2, <2>3, <2>4
<1>2. CASE m \in Turning(c)
  <2>1. m \in FrameMessages
        /\ (m.kind = "control" /\ m.control.id = 2 /\ m.control.value <= 3 => m.control = Rotation(c.rotation))
    BY <1>2, Zenon DEF Turning
  <2>2. CASE m \in Videos
    <3>1. m.kind = "video"  BY <2>2, SMT DEF Videos
    <3>2. got = m  BY ONLY <3>1, Means(m, got), Zenon DEF Means
    <3>3. got.kind # "rotation" /\ m.kind # "stream"  BY <3>1, <3>2
    <3> QED  BY <3>3
  <2>3. CASE m \in Sent
    <3>1. m.kind = "control" /\ m.control.id \in Byte /\ m.control.value \in Byte
      BY <2>3, Zenon DEF Sent
    <3>2. ControlMeans(m.control, got)  BY ONLY <3>1, Means(m, got), Zenon DEF Means
    <3>3. m.kind # "stream"  BY <3>1
    <3>4. CASE m.control.id = 1
      <4>1. got = [kind |-> "brightness", percent |-> m.control.value]
        BY ONLY <3>2, <3>4, Zenon DEF ControlMeans
      <4>2. got.kind = "brightness"  BY ONLY <4>1, SMT
      <4> QED  BY ONLY <3>3, <4>2, SMT
    <3>5. CASE m.control.id # 1
      <4>1. got = [kind |-> "rotation", to |-> Orientations[m.control.value + 1]]
        BY ONLY <3>2, <3>5, Zenon DEF ControlMeans
      <4>2. got.kind = "rotation" /\ got.to = Orientations[m.control.value + 1]  BY ONLY <4>1, SMT
      <4>3. m.control.id = 2 /\ ~(m.control.value > 3)
        <5>1. m.control.id \in {1, 2} /\ ~(m.control.id = 2 /\ m.control.value > 3)
          BY ONLY <3>1, ~Unknown(m), Zenon DEF Unknown
        <5> QED  BY ONLY <3>5, <5>1, SMT
      <4>4. m.control.value <= 3  BY ONLY <3>1, <4>3, SMT DEF Byte
      <4>5. m.control = Rotation(c.rotation)  BY ONLY <2>1, <3>1, <4>3, <4>4, Zenon
      <4> QED  BY ONLY <3>3, <4>2, <4>5, Zenon
    <3> QED  BY <3>4, <3>5
  <2> QED  BY <2>1, <2>2, <2>3 DEF FrameMessages
<1> QED  BY <1>1, <1>2
LEMMA FirstHeard ==
  ASSUME Scripted, NEW g \in Heard, Count(g) = 1, ~Unknown(script[1])
  PROVE  g = 1
<1>1. g \in 1 .. Len(script) /\ Len(script) \in Nat  BY HeardTyped
<1>2. DOMAIN script = 1 .. Len(script)  BY Zenon, LenProperties DEF Scripted
<1>3. 1 \in 1 .. Len(script) /\ 1 \in 1 .. g /\ 1 <= g /\ g <= g /\ \A e \in 1 .. 1 : e \in 1 .. g
  BY ONLY <1>1, SMT
<1>4. \A e \in 1 .. g : ~Ends(script[e])  BY Zenon DEF Heard
<1>5. 1 \in Heard  BY ONLY <1>2, <1>3, <1>4, ~Unknown(script[1]), Zenon DEF Heard
<1>6. 1 \in Upto(g) /\ g \in Upto(g)  BY <1>3, <1>5 DEF Upto
<1>7. IsFiniteSet(Upto(g)) /\ Cardinality(Upto(g)) = 1  BY HeardTyped
<1>8. PICK x : Upto(g) = {x}  BY <1>7, FS_Singleton
<1> QED  BY <1>6, <1>8

LEMMA ScreenTold ==
  ASSUME FramingInv, Started
  PROVE  ScreenFits
<1> SUFFICES ASSUME NEW i \in DOMAIN taken, side = "down", taken[i].kind = "rotation"
             PROVE  Agrees(config, taken[1].width, taken[1].height, taken[i].to)
  BY Zenon DEF ScreenFits
<1>1. Scripted /\ ~torn /\ Reading  BY Zenon DEF FramingInv
<1>2. taken \in Seq(Elements(taken))  BY <1>1, Zenon DEF Reading, Told
<1>3. \A k \in DOMAIN taken : \E h \in Heard : Count(h) = k /\ Means(script[h], taken[k])
  BY <1>1, ReadingTells, Zenon DEF ReadAsWritten
<1>4. 1 \in DOMAIN taken
  <2>1. DOMAIN taken = 1 .. Len(taken) /\ Len(taken) \in Nat  BY ONLY <1>2, LenProperties, Zenon
  <2> QED  BY ONLY <2>1, i \in DOMAIN taken, SMT
<1>5. /\ config \in Configs /\ Sized(config) /\ 1 \in DOMAIN script /\ script[1] \in Opening(config)
      /\ \A k \in DOMAIN script : k # 1 => script[k] \in Turning(config)
  BY Zenon DEF Started
<1>6. \A h \in Heard : h \in DOMAIN script /\ ~Unknown(script[h])  BY Zenon DEF Heard
<1>7. \A h \in Heard : script[h] \in Opening(config) \cup Turning(config)  BY <1>5, <1>6, Zenon
<1>8. taken[i].to = Orientations[Rotation(config.rotation).value + 1]
  <2>1. PICK h \in Heard : Means(script[h], taken[i])  BY <1>3
  <2> QED  BY <1>6, <1>7, <2>1, KindTold
<1>9. script[1].kind = "stream" /\ ~Unknown(script[1])
  <2>1. script[1].kind = "stream"  BY <1>5, SMT DEF Opening, Announced
  <2> QED  BY ONLY <2>1, Zenon DEF Unknown
<1>10. Means(script[1], taken[1])
  <2>1. PICK h \in Heard : Count(h) = 1 /\ Means(script[h], taken[1])  BY <1>3, <1>4
  <2>2. h = 1  BY <1>1, <1>9, <2>1, FirstHeard
  <2> QED  BY <2>1, <2>2
<1>11. taken[1].width = script[1].width /\ taken[1].height = script[1].height
  <2>1. script[1] \in Opening(config) \cup Turning(config)  BY <1>5
  <2> QED  BY <1>9, <1>10, <2>1, KindTold
<1>12. script[1].width = Size(config).width /\ script[1].height = Size(config).height
  BY <1>5, Zenon DEF Opening
<1>13. Agrees(config, Size(config).width, Size(config).height,
              Orientations[Rotation(config.rotation).value + 1])
  BY ONLY <1>5, AnnouncedFits, Zenon DEF Size
<1> QED  BY ONLY <1>8, <1>11, <1>12, <1>13, Zenon

(* The app's decoder is always configured with the size of what is         *)
(* captured and encoded; that is the pair given or fits the panel, lying   *)
(* the way the screen is turned, when the source took what it was asked    *)
(* for: for every panel, --max-width, pair, rotation and mode of a source, *)
(* and whatever becomes of the stream.                                     *)
THEOREM ScreenFitsHolds == Spec => []ScreenFits
<1>1. Init => Started  BY StartedAtFirst
<1>2. Started /\ [Next]_vars => Started'  BY StartedStays
<1>3. FramingInv /\ Started => ScreenFits  BY ScreenTold
<1> QED  BY <1>1, <1>2, <1>3, StreamKept, PTL DEF Spec
=============================================================================
