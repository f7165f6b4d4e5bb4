------------------------ MODULE VideoDownlinkProofs ------------------------
(***************************************************************************)
(* Theorems about VideoDownlink.tla, for any queues, any decoder and any   *)
(* number of frames and sessions.                                          *)
(***************************************************************************)
EXTENDS VideoDownlink, SequenceTheorems, FiniteSetTheorems, TLAPS

(* What MCVideoStream assumes of the constants; the rest is not needed.    *)
Bounds ==
  /\ SinkMax \in Nat \ {0}
  /\ NetMax \in Nat
  /\ MaxFrames \in Nat
  /\ MaxConnects \in Nat

----------------------------------------------------------------------------
(* The strengthening.  Every frame on its way has been captured.           *)
Made == 1 .. made
Message == {Header, Control} \cup {Video(f) : f \in Made}

FramesTyped ==
  /\ sink \in Seq(Made) /\ sentAt \in Seq(Made) /\ acked \in Seq(Made) /\ outputs \in Seq(Made)
  /\ inHand \in 0 .. made /\ (drain \in {"stamp", "send"} => inHand \in Made)
  /\ net \in Seq(Message)
  /\ decoding \in Seq([input : Inputs, frame : Made])
  /\ app = "input" => held \in Made
  /\ matched \in [sent : 0 .. made, acked : 0 .. made]
  /\ freeInputs \in Seq((0 .. created) \X Inputs)
  /\ open \in BOOLEAN /\ surface \in BOOLEAN /\ lost \in BOOLEAN

(* The app's thread, its end of the connection and its decoder.            *)
Phases ==
  /\ open => app \in {"accept", "header", "surface", "read", "input"}
  /\ app \in {"header", "surface", "read", "input"} => open
  /\ ~open => net = <<>>
  /\ codec # 0 <=> app \in {"read", "input"}
  /\ codec = 0 => idle = {} /\ decoding = <<>> /\ outputs = <<>>

(* A decoder per connection, at most.                                      *)
CreatedBound ==
  /\ created <= connects
  /\ open /\ app \in {"accept", "header", "surface"} => created < connects

(* The header and the controls come before any frame.                      *)
Controls ==
  IF ~open THEN 0
  ELSE IF app \in {"accept", "header"} THEN 2
  ELSE IF net # <<>> /\ net[1].kind = "control" THEN 1 ELSE 0

NetShape ==
  /\ Controls <= Len(net)
  /\ \A k \in DOMAIN net : net[k].kind = "video" <=> k > Controls
  /\ Controls = 2 => net[2].kind = "control"

(* sent_at begins with: the frames whose acks are on the socket, those     *)
(* decoded, those being decoded, the one the app has read, those on the    *)
(* socket, and the one that is being sent; more than these are in it only  *)
(* when the connection is over.  This is so unless the app has taken a     *)
(* frame it will not ack, and it is so again once the next session is      *)
(* accepted.                                                               *)
FramesOf(s) == [i \in 1 .. Len(s) |-> s[i].frame]

Coded    == FramesOf(decoding)
Reading  == IF app = "input" THEN <<held>> ELSE <<>>
OnSocket == [i \in 1 .. Len(net) - Controls |-> net[Controls + i].frame]
InSend   == IF open /\ drain = "send" THEN <<inHand>> ELSE <<>>
Unacked  == acked \o (outputs \o (Coded \o (Reading \o (OnSocket \o InSend))))

TimedBeyond(rest) ==
  /\ sentAt = Unacked \o rest
  /\ open /\ drain # "dead" => rest = <<>>

Timed == \E rest \in Seq(Nat) : TimedBeyond(rest)

Watched == ~lost \/ (open /\ app = "accept")

FIFO == Watched => Timed /\ matched.sent = matched.acked

(* The decoder's inputs, without counting.                                 *)
InputsApart ==
  codec # 0 =>
    /\ \A k \in DOMAIN freeInputs : freeInputs[k][1] = codec /\ freeInputs[k][2] \notin idle
    /\ \A k, l \in DOMAIN freeInputs : freeInputs[k][2] = freeInputs[l][2] => k = l
    /\ \A k \in DOMAIN decoding : decoding[k].input \notin idle
    /\ \A k, l \in DOMAIN decoding : decoding[k].input = decoding[l].input => k = l
    /\ \A k \in DOMAIN freeInputs, l \in DOMAIN decoding : freeInputs[k][2] # decoding[l].input
    /\ \A i \in Inputs \ idle :
         \/ \E k \in DOMAIN freeInputs : freeInputs[k][2] = i
         \/ \E k \in DOMAIN decoding : decoding[k].input = i

IInv ==
  /\ TypeOK
  /\ FramesTyped
  /\ Phases
  /\ CreatedBound
  /\ NetShape
  /\ FIFO
  /\ InputsApart

----------------------------------------------------------------------------
(* What the queues need of sequences.                                      *)
LEMMA QueueStays ==
  ASSUME NEW S, NEW s \in Seq(S), NEW t, t = s \/ t = <<>> \/ (s # <<>> /\ t = Tail(s))
  PROVE  t \in Seq(S)
<1>1. CASE t = s  BY <1>1
<1>2. CASE t = <<>>  BY <1>2
<1>3. CASE s # <<>> /\ t = Tail(s)  BY <1>3, HeadTailProperties
<1> QED  BY <1>1, <1>2, <1>3

----------------------------------------------------------------------------
(* What a step does to the queues.                                         *)
Kept(s)  == UNCHANGED s
Empty(s) == s' = <<>>
Taken(s) == s # <<>> /\ s' = Tail(s)

LEMMA Changes ==
  ASSUME Next
  PROVE  /\ Kept(made) \/ PushFrame
         /\ Kept(sink) \/ Empty(sink) \/ Encode \/ Pull
         /\ Kept(inHand) \/ Connect \/ Pull
         /\ Kept(sentAt) \/ Empty(sentAt) \/ Taken(sentAt) \/ Stamp
         /\ Kept(matched) \/ matched' = NoMatch \/ ReadAck
         /\ Kept(net) \/ Empty(net) \/ Taken(net) \/ Connect \/ Send
         /\ Kept(acked) \/ Empty(acked) \/ Taken(acked) \/ OnOutputBufferAvailable
         /\ Kept(outputs) \/ Empty(outputs) \/ Taken(outputs) \/ Decode
         /\ Kept(decoding) \/ Empty(decoding) \/ Taken(decoding) \/ QueueInput
         /\ Kept(freeInputs) \/ Empty(freeInputs) \/ Taken(freeInputs) \/ OnInputBufferAvailable
         /\ Kept(created) \/ created' = created + 1
         /\ UNCHANGED <<app, held>> \/ app' # "input" \/ ReadFrame
         /\ Kept(drain) \/ drain' \in {"pull", "dead"} \/ Pull \/ Stamp
         /\ open' \in {open, TRUE, FALSE} /\ surface' \in {surface, ~surface}
         /\ lost' \in {lost, TRUE, FALSE, lost \/ ~surface}
         /\ UNCHANGED <<codec, created>> \/ codec' = 0 \/ StartCodec
         /\ Kept(idle) \/ idle' = {} \/ StartCodec \/ OnInputBufferAvailable \/ Decode
<1> USE DEF Close, OtherThanApp, TimesAtConnect, After, KeptInputs, StarvedNow, Streaming,
            encoderVars, drainVars, timeVars, codecVars, appVars, hostVars, wireVars,
            NoFrame, NoMatch
<1> USE DEF Kept, Empty, Taken
<1>1. CASE Connect  BY <1>1 DEF Connect
<1>2. CASE PushFrame  BY <1>2 DEF PushFrame
<1>3. CASE Encode  BY <1>3 DEF Encode
<1>4. CASE Pull  BY <1>4 DEF Pull
<1>5. CASE Stamp  BY <1>5 DEF Stamp
<1>6. CASE Send  BY <1>6 DEF Send
<1>7. CASE DrainEnds  BY <1>7 DEF DrainEnds
<1>8. CASE ReadAck  BY <1>8 DEF ReadAck
<1>9. CASE HostEnds  BY <1>9 DEF HostEnds
<1>10. CASE Listen  BY <1>10 DEF Listen
<1>11. CASE Accept  BY <1>11 DEF Accept
<1>12. CASE ReadHeader  BY <1>12 DEF ReadHeader
<1>13. CASE StartCodec  BY <1>13 DEF StartCodec
<1>14. CASE ReadControl  BY <1>14 DEF ReadControl
<1>15. CASE ReadFrame  BY <1>15 DEF ReadFrame
<1>16. CASE QueueInput  BY <1>16 DEF QueueInput
<1>17. CASE Starved  BY <1>17 DEF Starved
<1>18. CASE EndOfStream  BY <1>18 DEF EndOfStream
<1>19. CASE NoSurface  BY <1>19 DEF NoSurface
<1>20. CASE SessionFails  BY <1>20 DEF SessionFails
<1>21. CASE Stop  BY <1>21 DEF Stop
<1>22. CASE Start  BY <1>22 DEF Start
<1>23. CASE OnInputBufferAvailable  BY <1>23 DEF OnInputBufferAvailable
<1>24. CASE Decode  BY <1>24 DEF Decode
<1>25. CASE OnOutputBufferAvailable  BY <1>25 DEF OnOutputBufferAvailable
<1>26. CASE SetSurface  BY <1>26 DEF SetSurface
<1> QED
  BY <1>1, <1>2, <1>3, <1>4, <1>5, <1>6, <1>7, <1>8, <1>9, <1>10, <1>11, <1>12, <1>13, <1>14,
     <1>15, <1>16, <1>17, <1>18, <1>19, <1>20, <1>21, <1>22, <1>23, <1>24, <1>25, <1>26
     DEF Next, SessionThread

----------------------------------------------------------------------------
(* Type correctness.  Capturing a frame widens what may be on its way.     *)
LEMMA Widen ==
  ASSUME Bounds, TypeOK, Next
  PROVE  /\ made \in Nat /\ made' \in 0 .. MaxFrames
         /\ 0 .. made \subseteq 0 .. made' /\ Made \subseteq Made' /\ Message \subseteq Message'
<1>1. made \in Nat /\ made' \in 0 .. MaxFrames /\ (made' = made \/ made' = made + 1)
  BY Changes DEF TypeOK, Bounds, Kept, PushFrame
<1>2. 0 .. made \subseteq 0 .. made' /\ Made \subseteq Made'  BY <1>1 DEF Made
<1> QED  BY <1>1, <1>2 DEF Message

LEMMA FramesStep ==
  ASSUME Bounds, TypeOK, FramesTyped, Phases, Next
  PROVE  FramesTyped'
<1> USE DEF Kept, Empty, Taken
<1>1. /\ sink \in Seq(Made') /\ sentAt \in Seq(Made') /\ acked \in Seq(Made')
      /\ outputs \in Seq(Made') /\ net \in Seq(Message')
  BY Widen, SeqMonotonic DEF FramesTyped
<1>2. Made' \subseteq 0 .. made'  BY Widen DEF Made
<1>3. ASSUME NEW S, NEW s \in Seq(S), s # <<>>  PROVE Head(s) \in S /\ Tail(s) \in Seq(S)
  BY <1>3, HeadTailProperties
<1>4. ASSUME NEW S, NEW s \in Seq(S), NEW x \in S  PROVE Append(s, x) \in Seq(S)
  BY AppendProperties
<1>5. inHand' \in 0 .. made' /\ (drain' \in {"stamp", "send"} => inHand' \in Made')
  <2>1. CASE Pull
    <3>1. Head(sink) \in Made'  BY <1>1, <1>3, <2>1 DEF Pull
    <3> QED  BY <3>1, <2>1, <1>2 DEF Pull
  <2>2. CASE Stamp  BY <2>2, Widen DEF Stamp, After, FramesTyped, encoderVars
  <2>3. CASE Connect  BY <2>3, Widen DEF Connect, NoFrame
  <2>4. CASE ~(Pull \/ Stamp \/ Connect)
    <3>1. inHand' = inHand /\ (drain' = drain \/ drain' \in {"pull", "dead"})
      BY <2>4, Changes
    <3> QED  BY <3>1, Widen DEF FramesTyped
  <2> QED  BY <2>1, <2>2, <2>3, <2>4
<1>6. sink' \in Seq(Made')
  <2>1. CASE Encode
    <3>1. src \in Made'  BY <2>1, Widen DEF Encode, NoFrame, TypeOK, Made
    <3> QED  BY <3>1, <2>1, <1>1, <1>4 DEF Encode
  <2>2. CASE Pull  BY <2>2, <1>1, <1>3 DEF Pull
  <2>3. CASE ~(Encode \/ Pull)
    <3>1. sink' = sink \/ sink' = <<>> \/ (sink # <<>> /\ sink' = Tail(sink))  BY <2>3, Changes
    <3>2. sink \in Seq(Made')  BY <1>1
    <3> QED  BY <3>1, <3>2, QueueStays
  <2> QED  BY <2>3, <2>1, <2>2
<1>7. sentAt' \in Seq(Made')
  <2>1. CASE Stamp
    <3>1. inHand \in Made'  BY <2>1, Widen DEF Stamp, FramesTyped
    <3> QED  BY <3>1, <2>1, <1>1, <1>4 DEF Stamp
  <2>2. CASE ~(Stamp)
    <3>1. sentAt' = sentAt \/ sentAt' = <<>> \/ (sentAt # <<>> /\ sentAt' = Tail(sentAt))
      BY <2>2, Changes
    <3>2. sentAt \in Seq(Made')  BY <1>1
    <3> QED  BY <3>1, <3>2, QueueStays
  <2> QED  BY <2>2, <2>1
<1>8. outputs' \in Seq(Made')
  <2>1. CASE Decode
    <3>1. Head(decoding) \in [input : Inputs, frame : Made]
      BY <2>1, HeadTailProperties DEF Decode, FramesTyped
    <3>2. Head(decoding).frame \in Made'  BY <3>1, Widen
    <3> QED  BY <3>2, <2>1, <1>1, <1>4 DEF Decode
  <2>2. CASE ~(Decode)
    <3>1. outputs' = outputs \/ outputs' = <<>> \/ (outputs # <<>> /\ outputs' = Tail(outputs))
      BY <2>2, Changes
    <3>2. outputs \in Seq(Made')  BY <1>1
    <3> QED  BY <3>1, <3>2, QueueStays
  <2> QED  BY <2>2, <2>1
<1>9. acked' \in Seq(Made')
  <2>1. CASE OnOutputBufferAvailable
    <3>1. Head(outputs) \in Made'  BY <2>1, <1>1, <1>3 DEF OnOutputBufferAvailable
    <3> QED  BY <3>1, <2>1, <1>1, <1>4 DEF OnOutputBufferAvailable
  <2>2. CASE ~(OnOutputBufferAvailable)
    <3>1. acked' = acked \/ acked' = <<>> \/ (acked # <<>> /\ acked' = Tail(acked))
      BY <2>2, Changes
    <3>2. acked \in Seq(Made')  BY <1>1
    <3> QED  BY <3>1, <3>2, QueueStays
  <2> QED  BY <2>2, <2>1
<1>10. net' \in Seq(Message')
  <2>1. CASE Connect
    <3>1. Header \in Message' /\ Control \in Message'  BY DEF Message
    <3> QED  BY <3>1, <2>1 DEF Connect
  <2>2. CASE Send
    <3>1. inHand \in Made'  BY <2>2, Widen DEF Send, FramesTyped
    <3>2. Video(inHand) \in Message'  BY <3>1 DEF Message
    <3> QED  BY <3>2, <2>2, <1>1, <1>4 DEF Send
  <2>3. CASE ~(Connect \/ Send)
    <3>1. net' = net \/ net' = <<>> \/ (net # <<>> /\ net' = Tail(net))  BY <2>3, Changes
    <3>2. net \in Seq(Message')  BY <1>1
    <3> QED  BY <3>1, <3>2, QueueStays
  <2> QED  BY <2>3, <2>1, <2>2
<1>11. (app = "input" => held \in Made)'
  <2>1. CASE ReadFrame
    <3>1. Head(net) \in Message  BY <2>1, HeadTailProperties DEF ReadFrame, FramesTyped
    <3>2. Head(net).frame \in Made  BY <3>1, <2>1 DEF ReadFrame, Message, Header, Control, Video
    <3> QED  BY <3>2, <2>1, Widen DEF ReadFrame
  <2>2. CASE ~ReadFrame
    <3>1. app' # "input" \/ (app' = app /\ held' = held)  BY <2>2, Changes
    <3> QED  BY <3>1, Widen DEF FramesTyped
  <2> QED  BY <2>1, <2>2
<1>12. decoding' \in Seq([input : Inputs, frame : Made])'
  <2> DEFINE Carried == [input : Inputs, frame : Made']
  <2>1. decoding \in Seq(Carried)
    <3>1. [input : Inputs, frame : Made] \subseteq Carried  BY Widen
    <3> HIDE DEF Carried
    <3> QED  BY <3>1, SeqMonotonic DEF FramesTyped
  <2>2. CASE QueueInput
    <3>1. Head(freeInputs) \in (0 .. created) \X Inputs
      BY <2>2, HeadTailProperties DEF QueueInput, FramesTyped
    <3>2. [input |-> Head(freeInputs)[2], frame |-> held] \in Carried
      BY <3>1, <2>2, Widen DEF QueueInput, FramesTyped
    <3> HIDE DEF Carried
    <3>3. decoding' \in Seq(Carried)  BY <3>2, <2>1, <2>2, <1>4 DEF QueueInput
    <3> QED  BY <3>3 DEF Carried
  <2>3. CASE ~QueueInput
    <3> HIDE DEF Carried
    <3>2. decoding' = decoding \/ decoding' = <<>>
            \/ (decoding # <<>> /\ decoding' = Tail(decoding))
      BY <2>3, Changes
    <3>1. decoding' \in Seq(Carried)  BY <3>2, <2>1, QueueStays
    <3> QED  BY <3>1 DEF Carried
  <2> QED  BY <2>2, <2>3
<1>13. matched' \in [sent : 0 .. made', acked : 0 .. made']
  <2>1. matched \in [sent : 0 .. made', acked : 0 .. made']
    BY Widen DEF FramesTyped
  <2>2. NoMatch \in [sent : 0 .. made', acked : 0 .. made']
    BY Widen DEF NoMatch, NoFrame
  <2>3. CASE ReadAck
    <3>1. Head(acked) \in 0 .. made'  BY <1>1, <1>2, <1>3, <2>3 DEF ReadAck
    <3>2. CASE sentAt = <<>>
      <4>1. matched' = matched  BY <3>2, <2>3 DEF ReadAck, timeVars
      <4> QED  BY <4>1, <2>1
    <3>3. CASE sentAt # <<>>
      <4>1. Head(sentAt) \in 0 .. made'  BY <1>1, <1>2, <1>3, <3>3
      <4>2. matched' = [sent |-> Head(sentAt), acked |-> Head(acked)]
        BY <3>3, <2>3 DEF ReadAck
      <4> QED  BY <4>1, <4>2, <3>1
    <3> QED  BY <3>2, <3>3
  <2>4. matched' = matched \/ matched' = NoMatch \/ ReadAck  BY Changes
  <2> QED  BY <2>1, <2>2, <2>3, <2>4
<1>14. freeInputs' \in Seq((0 .. created') \X Inputs)
  <2> DEFINE Slots == (0 .. created') \X Inputs
  <2>1. freeInputs \in Seq(Slots)
    <3>2. created \in Nat /\ (created' = created \/ created' = created + 1)
      BY Changes DEF TypeOK, Bounds
    <3>1. (0 .. created) \X Inputs \subseteq Slots  BY <3>2
    <3> HIDE DEF Slots
    <3> QED  BY <3>1, SeqMonotonic DEF FramesTyped
  <2>2. CASE OnInputBufferAvailable
    <3>1. PICK i \in idle : freeInputs' = Append(freeInputs, <<codec, i>>)
      BY <2>2 DEF OnInputBufferAvailable
    <3>2. <<codec, i>> \in Slots  BY <2>2 DEF TypeOK, OnInputBufferAvailable
    <3> HIDE DEF Slots
    <3>3. freeInputs' \in Seq(Slots)  BY <3>1, <3>2, <2>1, <1>4
    <3> QED  BY <3>3 DEF Slots
  <2>3. CASE ~OnInputBufferAvailable
    <3> HIDE DEF Slots
    <3>2. freeInputs' = freeInputs \/ freeInputs' = <<>>
            \/ (freeInputs # <<>> /\ freeInputs' = Tail(freeInputs))
      BY <2>3, Changes
    <3>1. freeInputs' \in Seq(Slots)  BY <3>2, <2>1, QueueStays
    <3> QED  BY <3>1 DEF Slots
  <2> QED  BY <2>2, <2>3
<1>15. open' \in BOOLEAN /\ surface' \in BOOLEAN /\ lost' \in BOOLEAN
  BY Changes DEF FramesTyped
<1> QED
  BY ONLY <1>5, <1>6, <1>7, <1>8, <1>9, <1>10, <1>11, <1>12, <1>13, <1>14, <1>15 DEF FramesTyped

LEMMA TypeStep ==
  ASSUME Bounds, TypeOK, FramesTyped, Phases, CreatedBound, Next
  PROVE  TypeOK'
<1>0. FramesTyped'  BY FramesStep
<1>a. Range(net') \subseteq {Header, Control} \cup {Video(f) : f \in Frames}
  <2>1. Range(net') \subseteq Message'  BY <1>0, RangeOfSeq DEF FramesTyped
  <2>2. Made' \subseteq Frames  BY Widen DEF Made, Frames, Bounds
  <2> QED  BY <2>1, <2>2 DEF Message
<1>b. made' \in 0 .. MaxFrames /\ 0 .. made \subseteq 0 .. made'  BY Widen
<1>c. (app = "input" => held \in Made)'  BY <1>0 DEF FramesTyped
<1>d. ReadFrame => held' \in 0 .. made'
  BY <1>c DEF ReadFrame, Made
<1>e. Encode \/ Pull => Len(sink') <= SinkMax
  <2>1. Encode => Len(sink') <= SinkMax  BY DEF Encode, FramesTyped, Bounds, TypeOK
  <2>2. Pull => Len(sink') <= SinkMax  BY DEF Pull, FramesTyped, Bounds, TypeOK
  <2> QED  BY <2>1, <2>2
<1>f. Decode => Head(decoding).input \in Inputs
  <2> SUFFICES ASSUME Decode PROVE Head(decoding) \in [input : Inputs, frame : Made]
    OBVIOUS
  <2> QED  BY HeadTailProperties DEF Decode, FramesTyped
<1> USE DEF Close, OtherThanApp, TimesAtConnect, After, KeptInputs, StarvedNow, Streaming,
            encoderVars, drainVars, timeVars, codecVars, appVars, hostVars, wireVars,
            NoFrame, NoMatch
<1> USE DEF Bounds, TypeOK, Phases, CreatedBound
<1>1. CASE Connect  BY <1>1, <1>a, <1>b DEF Connect
<1>2. CASE PushFrame  BY <1>2, <1>a, <1>b DEF PushFrame
<1>3. CASE Encode  BY <1>3, <1>a, <1>b, <1>e DEF Encode
<1>4. CASE Pull  BY <1>4, <1>a, <1>b, <1>e DEF Pull
<1>5. CASE Stamp  BY <1>5, <1>a, <1>b DEF Stamp
<1>6. CASE Send  BY <1>6, <1>a, <1>b DEF Send
<1>7. CASE DrainEnds  BY <1>7, <1>a, <1>b DEF DrainEnds
<1>8. CASE ReadAck  BY <1>8, <1>a, <1>b DEF ReadAck
<1>9. CASE HostEnds  BY <1>9, <1>a, <1>b DEF HostEnds
<1>10. CASE Listen  BY <1>10, <1>a, <1>b DEF Listen
<1>11. CASE Accept  BY <1>11, <1>a, <1>b DEF Accept
<1>12. CASE ReadHeader  BY <1>12, <1>a, <1>b DEF ReadHeader
<1>13. CASE StartCodec  BY <1>13, <1>a, <1>b DEF StartCodec
<1>14. CASE ReadControl  BY <1>14, <1>a, <1>b DEF ReadControl
<1>15. CASE ReadFrame  BY <1>15, <1>a, <1>b, <1>d DEF ReadFrame
<1>16. CASE QueueInput  BY <1>16, <1>a, <1>b DEF QueueInput
<1>17. CASE Starved  BY <1>17, <1>a, <1>b DEF Starved
<1>18. CASE EndOfStream  BY <1>18, <1>a, <1>b DEF EndOfStream
<1>19. CASE NoSurface  BY <1>19, <1>a, <1>b DEF NoSurface
<1>20. CASE SessionFails  BY <1>20, <1>a, <1>b DEF SessionFails
<1>21. CASE Stop  BY <1>21, <1>a, <1>b DEF Stop
<1>22. CASE Start  BY <1>22, <1>a, <1>b DEF Start
<1>23. CASE OnInputBufferAvailable  BY <1>23, <1>a, <1>b DEF OnInputBufferAvailable
<1>24. CASE Decode  BY <1>24, <1>a, <1>b, <1>f DEF Decode
<1>25. CASE OnOutputBufferAvailable  BY <1>25, <1>a, <1>b DEF OnOutputBufferAvailable
<1>26. CASE SetSurface  BY <1>26, <1>a, <1>b DEF SetSurface
<1> QED
  BY <1>1, <1>2, <1>3, <1>4, <1>5, <1>6, <1>7, <1>8, <1>9, <1>10, <1>11, <1>12, <1>13, <1>14,
     <1>15, <1>16, <1>17, <1>18, <1>19, <1>20, <1>21, <1>22, <1>23, <1>24, <1>25, <1>26
     DEF Next, SessionThread

----------------------------------------------------------------------------
(* The app's thread and its decoder.                                       *)
LEMMA PhasesStep ==
  ASSUME TypeOK, FramesTyped, Phases, Next
  PROVE  Phases'
<1> USE DEF Close, OtherThanApp, TimesAtConnect, After, KeptInputs, StarvedNow, Streaming,
            encoderVars, drainVars, timeVars, codecVars, appVars, hostVars, wireVars,
            NoFrame, NoMatch
<1> USE DEF TypeOK, FramesTyped, Phases
<1>1. CASE Connect  BY <1>1 DEF Connect
<1>2. CASE PushFrame  BY <1>2 DEF PushFrame
<1>3. CASE Encode  BY <1>3 DEF Encode
<1>4. CASE Pull  BY <1>4 DEF Pull
<1>5. CASE Stamp  BY <1>5 DEF Stamp
<1>6. CASE Send  BY <1>6 DEF Send
<1>7. CASE DrainEnds  BY <1>7 DEF DrainEnds
<1>8. CASE ReadAck  BY <1>8 DEF ReadAck
<1>9. CASE HostEnds  BY <1>9 DEF HostEnds
<1>10. CASE Listen  BY <1>10 DEF Listen
<1>11. CASE Accept  BY <1>11 DEF Accept
<1>12. CASE ReadHeader  BY <1>12 DEF ReadHeader
<1>13. CASE StartCodec  BY <1>13 DEF StartCodec
<1>14. CASE ReadControl  BY <1>14 DEF ReadControl
<1>15. CASE ReadFrame  BY <1>15 DEF ReadFrame
<1>16. CASE QueueInput  BY <1>16 DEF QueueInput
<1>17. CASE Starved  BY <1>17 DEF Starved
<1>18. CASE EndOfStream  BY <1>18 DEF EndOfStream
<1>19. CASE NoSurface  BY <1>19 DEF NoSurface
<1>20. CASE SessionFails  BY <1>20 DEF SessionFails
<1>21. CASE Stop  BY <1>21 DEF Stop
<1>22. CASE Start  BY <1>22 DEF Start
<1>23. CASE OnInputBufferAvailable  BY <1>23 DEF OnInputBufferAvailable
<1>24. CASE Decode  BY <1>24 DEF Decode
<1>25. CASE OnOutputBufferAvailable  BY <1>25 DEF OnOutputBufferAvailable
<1>26. CASE SetSurface  BY <1>26 DEF SetSurface
<1> QED
  BY <1>1, <1>2, <1>3, <1>4, <1>5, <1>6, <1>7, <1>8, <1>9, <1>10, <1>11, <1>12, <1>13, <1>14,
     <1>15, <1>16, <1>17, <1>18, <1>19, <1>20, <1>21, <1>22, <1>23, <1>24, <1>25, <1>26
     DEF Next, SessionThread

LEMMA CreatedStep ==
  ASSUME Bounds, TypeOK, FramesTyped, Phases, CreatedBound, Next
  PROVE  CreatedBound'
<1> USE DEF Close, OtherThanApp, TimesAtConnect, After, KeptInputs, StarvedNow, Streaming,
            encoderVars, drainVars, timeVars, codecVars, appVars, hostVars, wireVars,
            NoFrame, NoMatch
<1> USE DEF Bounds, TypeOK, FramesTyped, Phases, CreatedBound
<1>1. CASE Connect  BY <1>1 DEF Connect
<1>2. CASE PushFrame  BY <1>2 DEF PushFrame
<1>3. CASE Encode  BY <1>3 DEF Encode
<1>4. CASE Pull  BY <1>4 DEF Pull
<1>5. CASE Stamp  BY <1>5 DEF Stamp
<1>6. CASE Send  BY <1>6 DEF Send
<1>7. CASE DrainEnds  BY <1>7 DEF DrainEnds
<1>8. CASE ReadAck  BY <1>8 DEF ReadAck
<1>9. CASE HostEnds  BY <1>9 DEF HostEnds
<1>10. CASE Listen  BY <1>10 DEF Listen
<1>11. CASE Accept  BY <1>11 DEF Accept
<1>12. CASE ReadHeader  BY <1>12 DEF ReadHeader
<1>13. CASE StartCodec  BY <1>13 DEF StartCodec
<1>14. CASE ReadControl  BY <1>14 DEF ReadControl
<1>15. CASE ReadFrame  BY <1>15 DEF ReadFrame
<1>16. CASE QueueInput  BY <1>16 DEF QueueInput
<1>17. CASE Starved  BY <1>17 DEF Starved
<1>18. CASE EndOfStream  BY <1>18 DEF EndOfStream
<1>19. CASE NoSurface  BY <1>19 DEF NoSurface
<1>20. CASE SessionFails  BY <1>20 DEF SessionFails
<1>21. CASE Stop  BY <1>21 DEF Stop
<1>22. CASE Start  BY <1>22 DEF Start
<1>23. CASE OnInputBufferAvailable  BY <1>23 DEF OnInputBufferAvailable
<1>24. CASE Decode  BY <1>24 DEF Decode
<1>25. CASE OnOutputBufferAvailable  BY <1>25 DEF OnOutputBufferAvailable
<1>26. CASE SetSurface  BY <1>26 DEF SetSurface
<1> QED
  BY <1>1, <1>2, <1>3, <1>4, <1>5, <1>6, <1>7, <1>8, <1>9, <1>10, <1>11, <1>12, <1>13, <1>14,
     <1>15, <1>16, <1>17, <1>18, <1>19, <1>20, <1>21, <1>22, <1>23, <1>24, <1>25, <1>26
     DEF Next, SessionThread

----------------------------------------------------------------------------
(* What is on the socket: the controls come first.                         *)
LEMMA TakenFrom ==
  ASSUME NEW S, NEW s \in Seq(S), s # <<>>
  PROVE  /\ Len(s) \in Nat /\ Len(s) >= 1 /\ Head(s) = s[1]
         /\ Tail(s) \in Seq(S) /\ Len(Tail(s)) = Len(s) - 1
         /\ \A k \in 1 .. Len(s) - 1 : Tail(s)[k] = s[k + 1]
  OBVIOUS

LEMMA NetFacts ==
  ASSUME FramesTyped, NetShape
  PROVE  /\ net \in Seq(Message) /\ Len(net) \in Nat /\ DOMAIN net = 1 .. Len(net)
         /\ Controls \in 0 .. 2 /\ Controls <= Len(net)
         /\ \A k \in 1 .. Len(net) : net[k].kind = "video" <=> k > Controls
         /\ Controls = 2 => net[2].kind = "control"
  BY DEF FramesTyped, NetShape, Controls

LEMMA ShapedNext ==
  ASSUME NEW l \in Nat, net' \in Seq(Message), Len(net') = l, Controls' <= l,
         \A k \in 1 .. l : net'[k].kind = "video" <=> k > Controls',
         Controls' = 2 => net'[2].kind = "control"
  PROVE  NetShape'
  BY DEF NetShape

LEMMA SendNet ==
  ASSUME FramesTyped, NetShape, Send
  PROVE  /\ Len(net') = Len(net) + 1 /\ net'[Len(net) + 1] = Video(inHand)
         /\ \A k \in 1 .. Len(net) : net'[k] = net[k]
         /\ Controls' = Controls
         /\ NetShape'
<1>1. net' = Append(net, Video(inHand)) /\ Video(inHand) \in Message /\ UNCHANGED <<app, open>>
  BY DEF Send, Message, FramesTyped, appVars, Video
<1>2. /\ net' \in Seq(Message) /\ Len(net') = Len(net) + 1 /\ net'[Len(net) + 1] = Video(inHand)
      /\ \A k \in 1 .. Len(net) : net'[k] = net[k]
  BY <1>1, NetFacts, AppendProperties
<1>3. net' # <<>> /\ net'[Len(net) + 1].kind = "video"  BY <1>2, NetFacts DEF Video
<1>4. Controls' = Controls
  <2>1. CASE app \in {"accept", "header"}  BY <2>1, <1>1 DEF Controls
  <2>2. CASE net = <<>>
    <3>1. net'[1].kind = "video"  BY <2>2, <1>3
    <3> QED  BY <2>2, <3>1, <1>1 DEF Controls
  <2>3. CASE net # <<>>
    <3>1. net'[1] = net[1]  BY <2>3, <1>2, NetFacts
    <3> QED  BY <3>1, <2>3, <1>1, <1>3 DEF Controls
  <2> QED  BY <2>1, <2>2, <2>3
<1>5. Controls' <= Len(net) + 1 /\ Len(net) + 1 \in Nat
  BY ONLY NetFacts, <1>4, FramesTyped, NetShape
<1>6. \A k \in 1 .. Len(net) + 1 : net'[k].kind = "video" <=> k > Controls'
  <2> TAKE k \in 1 .. Len(net) + 1
  <2>1. CASE k = Len(net) + 1  BY <2>1, <1>3, <1>4, NetFacts
  <2>2. CASE k \in 1 .. Len(net)  BY <2>2, <1>2, <1>4, NetFacts
  <2> QED  BY <2>1, <2>2, NetFacts
<1>7. Controls' = 2 => net'[2].kind = "control"  BY <1>2, <1>4, NetFacts
<1> QED  BY <1>2, <1>4, <1>5, <1>6, <1>7, ShapedNext

LEMMA ReadNet ==
  ASSUME FramesTyped, Phases, NetShape, ReadHeader \/ ReadControl \/ ReadFrame
  PROVE  /\ Len(net) >= 1 /\ Len(net') = Len(net) - 1
         /\ \A k \in 1 .. Len(net) - 1 : net'[k] = net[k + 1]
         /\ Controls' = IF Controls = 0 THEN 0 ELSE Controls - 1
         /\ Controls = 0 <=> ReadFrame
         /\ NetShape'
<1>1. /\ net # <<>> /\ net' = Tail(net) /\ open' = TRUE
      /\ IF ReadFrame THEN Controls = 0 /\ app' = "input"
         ELSE Controls \in {1, 2} /\ app' = IF Controls = 1 THEN "read" ELSE "surface"
  <2>1. CASE ReadHeader
    <3>1. /\ net # <<>> /\ net' = Tail(net) /\ UNCHANGED open /\ app' = "surface"
          /\ app = "header" /\ open = TRUE
      BY <2>1 DEF ReadHeader, Phases, FramesTyped
    <3> QED  BY <3>1 DEF Controls, ReadFrame
  <2>2. CASE ReadControl
    <3>1. /\ net # <<>> /\ net' = Tail(net) /\ UNCHANGED open /\ app' = "read"
          /\ app = "read" /\ Head(net).kind = "control" /\ open = TRUE
      BY <2>2 DEF ReadControl, Phases, FramesTyped
    <3>2. Head(net) = net[1]  BY <3>1, NetFacts
    <3> QED  BY <3>1, <3>2 DEF Controls, ReadFrame
  <2>3. CASE ReadFrame
    <3>1. /\ net # <<>> /\ net' = Tail(net) /\ UNCHANGED open /\ app' = "input"
          /\ app = "read" /\ Head(net).kind = "video" /\ open = TRUE
      BY <2>3 DEF ReadFrame, Phases, FramesTyped
    <3>2. Head(net) = net[1]  BY <3>1, NetFacts
    <3> QED  BY <3>1, <3>2, <2>3 DEF Controls
  <2> QED  BY <2>1, <2>2, <2>3
<1>2. /\ net' \in Seq(Message) /\ Len(net') = Len(net) - 1 /\ Len(net) - 1 \in Nat
      /\ \A k \in 1 .. Len(net) - 1 : net'[k] = net[k + 1]
  BY <1>1, NetFacts, TakenFrom
<1>3. net' # <<>> => Len(net) >= 2 /\ net'[1] = net[2]  BY <1>2, NetFacts
<1>4. Controls' = IF Controls = 0 THEN 0 ELSE Controls - 1
  <2>1. CASE Controls = 2
    <3>1. net' # <<>> /\ net'[1].kind = "control"  BY <2>1, <1>2, NetFacts
    <3>2. app' = "surface"  BY <2>1, <1>1
    <3> QED  BY <3>1, <3>2, <2>1, <1>1 DEF Controls
  <2>2. CASE Controls \in {0, 1}
    <3>1. net' # <<>> => net'[1].kind = "video"  BY <2>2, <1>2, <1>3, NetFacts
    <3>2. app' \in {"read", "input"}  BY <2>2, <1>1
    <3>3. Controls' = 0  BY <3>1, <3>2, <1>1 DEF Controls
    <3> QED  BY <3>3, <2>2
  <2> QED  BY <2>1, <2>2, NetFacts
<1>5. Controls' <= Len(net) - 1 /\ Controls' # 2
  <2>1. Controls = 2 => Len(net) >= 2  BY NetFacts
  <2> QED  BY <2>1, <1>2, <1>4, NetFacts
<1>6. \A k \in 1 .. Len(net) - 1 : net'[k].kind = "video" <=> k > Controls'
  <2> TAKE k \in 1 .. Len(net) - 1
  <2>1. net'[k] = net[k + 1] /\ k + 1 \in 1 .. Len(net)  BY <1>2
  <2>2. net[k + 1].kind = "video" <=> k + 1 > Controls  BY <2>1, NetFacts
  <2> QED  BY <2>1, <2>2, <1>4, NetFacts
<1>7. Controls = 0 <=> ReadFrame  BY <1>1
<1>8. NetShape'
  <2>1. Controls' = 2 => net'[2].kind = "control"  BY <1>5
  <2> QED  BY <2>1, <1>2, <1>5, <1>6, ShapedNext
<1>9. Len(net) >= 1  BY <1>2, NetFacts
<1> QED  BY <1>2, <1>4, <1>7, <1>8, <1>9

LEMMA NetStep ==
  ASSUME TypeOK, FramesTyped, Phases, NetShape, Next
  PROVE  NetShape'
<1> USE DEF Close, OtherThanApp, TimesAtConnect, After, KeptInputs, StarvedNow, Streaming,
            encoderVars, drainVars, timeVars, codecVars, appVars, hostVars, wireVars,
            NoFrame, NoMatch
<1> USE DEF TypeOK, FramesTyped, Phases, NetShape, Controls, Header, Control, Video
<1>1. CASE Connect  BY <1>1 DEF Connect
<1>2. CASE PushFrame  BY <1>2 DEF PushFrame
<1>3. CASE Encode  BY <1>3 DEF Encode
<1>4. CASE Pull  BY <1>4 DEF Pull
<1>5. CASE Stamp  BY <1>5 DEF Stamp
<1>6. CASE DrainEnds  BY <1>6 DEF DrainEnds
<1>7. CASE ReadAck  BY <1>7 DEF ReadAck
<1>8. CASE HostEnds  BY <1>8 DEF HostEnds
<1>9. CASE Listen  BY <1>9 DEF Listen
<1>10. CASE Accept  BY <1>10 DEF Accept
<1>11. CASE StartCodec  BY <1>11 DEF StartCodec
<1>12. CASE QueueInput  BY <1>12 DEF QueueInput
<1>13. CASE Starved  BY <1>13 DEF Starved
<1>14. CASE EndOfStream  BY <1>14 DEF EndOfStream
<1>15. CASE NoSurface  BY <1>15 DEF NoSurface
<1>16. CASE SessionFails  BY <1>16 DEF SessionFails
<1>17. CASE Stop  BY <1>17 DEF Stop
<1>18. CASE Start  BY <1>18 DEF Start
<1>19. CASE OnInputBufferAvailable  BY <1>19 DEF OnInputBufferAvailable
<1>20. CASE Decode  BY <1>20 DEF Decode
<1>21. CASE OnOutputBufferAvailable  BY <1>21 DEF OnOutputBufferAvailable
<1>22. CASE SetSurface  BY <1>22 DEF SetSurface
<1>23. CASE Send  BY <1>23, SendNet
<1>24. CASE ReadHeader  BY <1>24, ReadNet
<1>25. CASE ReadControl  BY <1>25, ReadNet
<1>26. CASE ReadFrame  BY <1>26, ReadNet
<1> QED
  BY <1>1, <1>2, <1>3, <1>4, <1>5, <1>6, <1>7, <1>8, <1>9, <1>10, <1>11, <1>12, <1>13, <1>14,
     <1>15, <1>16, <1>17, <1>18, <1>19, <1>20, <1>21, <1>22, <1>23, <1>24, <1>25, <1>26
     DEF Next, SessionThread

----------------------------------------------------------------------------
(* The decoder's inputs.  Three steps move one: to the free ones, into the *)
(* decoder with a frame, and back to the codec.                            *)
LEMMA InputsStep ==
  ASSUME TypeOK, FramesTyped, Phases, InputsApart, Next
  PROVE  InputsApart'
<1> USE DEF Close, OtherThanApp, TimesAtConnect, After, KeptInputs, StarvedNow, Streaming,
            encoderVars, drainVars, timeVars, codecVars, appVars, hostVars, wireVars,
            NoFrame, NoMatch
<1> USE DEF TypeOK, FramesTyped, Phases, InputsApart
<1>1. CASE Connect  BY <1>1 DEF Connect
<1>2. CASE PushFrame  BY <1>2 DEF PushFrame
<1>3. CASE Encode  BY <1>3 DEF Encode
<1>4. CASE Pull  BY <1>4 DEF Pull
<1>5. CASE Stamp  BY <1>5 DEF Stamp
<1>6. CASE Send  BY <1>6 DEF Send
<1>7. CASE DrainEnds  BY <1>7 DEF DrainEnds
<1>8. CASE ReadAck  BY <1>8 DEF ReadAck
<1>9. CASE HostEnds  BY <1>9 DEF HostEnds
<1>10. CASE Listen  BY <1>10 DEF Listen
<1>11. CASE Accept  BY <1>11 DEF Accept
<1>12. CASE ReadHeader  BY <1>12 DEF ReadHeader
<1>13. CASE StartCodec  BY <1>13 DEF StartCodec
<1>14. CASE ReadControl  BY <1>14 DEF ReadControl
<1>15. CASE ReadFrame  BY <1>15 DEF ReadFrame
<1>16. CASE Starved  BY <1>16 DEF Starved
<1>17. CASE EndOfStream  BY <1>17 DEF EndOfStream
<1>18. CASE NoSurface  BY <1>18 DEF NoSurface
<1>19. CASE SessionFails  BY <1>19 DEF SessionFails
<1>20. CASE Stop  BY <1>20 DEF Stop
<1>21. CASE Start  BY <1>21 DEF Start
<1>22. CASE OnOutputBufferAvailable  BY <1>22 DEF OnOutputBufferAvailable
<1>23. CASE SetSurface  BY <1>23 DEF SetSurface
<1> HIDE DEF Close, After, TypeOK, FramesTyped, Phases, InputsApart
<1> DEFINE F == Len(freeInputs)
           D == Len(decoding)
           Slots == (0 .. created) \X Inputs
           Carried == [input : Inputs, frame : Made]
<1>a. /\ freeInputs \in Seq(Slots) /\ F \in Nat /\ DOMAIN freeInputs = 1 .. F
      /\ decoding \in Seq(Carried) /\ D \in Nat /\ DOMAIN decoding = 1 .. D
  BY DEF FramesTyped
<1>b. ASSUME codec # 0
      PROVE  /\ \A k \in 1 .. F : freeInputs[k][1] = codec /\ freeInputs[k][2] \notin idle
             /\ \A k, l \in 1 .. F : freeInputs[k][2] = freeInputs[l][2] => k = l
             /\ \A k \in 1 .. D : decoding[k].input \notin idle
             /\ \A k, l \in 1 .. D : decoding[k].input = decoding[l].input => k = l
             /\ \A k \in 1 .. F, l \in 1 .. D : freeInputs[k][2] # decoding[l].input
             /\ \A i \in Inputs \ idle : \/ \E k \in 1 .. F : freeInputs[k][2] = i
                                         \/ \E k \in 1 .. D : decoding[k].input = i
  BY ONLY <1>b, <1>a, InputsApart, ZenonT(60) DEF InputsApart
<1>24. CASE OnInputBufferAvailable
  <2>0. codec # 0 /\ UNCHANGED <<codec, decoding>> /\ idle \subseteq Inputs
    BY <1>24 DEF OnInputBufferAvailable, Phases, TypeOK
  <2>1. PICK i \in idle : freeInputs' = Append(freeInputs, <<codec, i>>) /\ idle' = idle \ {i}
    BY <1>24 DEF OnInputBufferAvailable
  <2>2. <<codec, i>> \in Slots  BY <2>0 DEF TypeOK
  <2> HIDE DEF Slots, Carried
  <2>3. /\ Len(freeInputs') = F + 1 /\ DOMAIN freeInputs' = 1 .. F + 1
        /\ freeInputs'[F + 1] = <<codec, i>>
        /\ \A k \in 1 .. F : freeInputs'[k] = freeInputs[k]
    BY <2>1, <2>2, <1>a, AppendProperties
  <2>4. freeInputs'[F + 1][1] = codec /\ freeInputs'[F + 1][2] = i  BY <2>3
  <2>5. ASSUME NEW k \in 1 .. F + 1
        PROVE  k = F + 1 \/ (k \in 1 .. F /\ freeInputs'[k] = freeInputs[k])
    BY <2>3, <1>a
  <2>6. \A k \in 1 .. F + 1 : freeInputs'[k][1] = codec /\ freeInputs'[k][2] \notin idle'
    BY <2>0, <2>1, <2>4, <2>5, <1>b
  <2>7. \A k, l \in 1 .. F + 1 : freeInputs'[k][2] = freeInputs'[l][2] => k = l
    BY <2>0, <2>1, <2>4, <2>5, <1>b
  <2>8. \A k \in 1 .. F + 1, l \in 1 .. D : freeInputs'[k][2] # decoding[l].input
    BY <2>0, <2>1, <2>4, <2>5, <1>b
  <2>9. \A j \in Inputs \ idle' : \/ \E k \in 1 .. F + 1 : freeInputs'[k][2] = j
                                  \/ \E k \in 1 .. D : decoding[k].input = j
    <3> TAKE j \in Inputs \ idle'
    <3>1. CASE j = i  BY <3>1, <2>4, <1>a
    <3>2. CASE j # i
      <4>1. j \in Inputs \ idle  BY <3>2, <2>1
      <4>2. CASE \E k \in 1 .. F : freeInputs[k][2] = j  BY <4>2, <2>3, <1>a
      <4> QED  BY <4>1, <4>2, <2>0, <1>b
    <3> QED  BY <3>1, <3>2
  <2>10. \A k \in 1 .. D : decoding[k].input \notin idle'  BY <2>0, <2>1, <1>b
  <2>11. \A k, l \in 1 .. D : decoding[k].input = decoding[l].input => k = l  BY <2>0, <1>b
  <2>12. /\ DOMAIN freeInputs' = 1 .. F + 1 /\ DOMAIN decoding' = 1 .. D
         /\ decoding' = decoding /\ codec' = codec
    BY ONLY <2>0, <2>3, <1>a
  <2> HIDE DEF F, D
  <2> QED
    BY ONLY <2>6, <2>7, <2>8, <2>9, <2>10, <2>11, <2>12 DEF InputsApart
<1>25. CASE QueueInput
  <2>0. codec # 0 /\ UNCHANGED <<codec, idle>>
    BY <1>25 DEF QueueInput, Phases
  <2> DEFINE c == [input |-> freeInputs[1][2], frame |-> held]
  <2>1. /\ F >= 1 /\ Head(freeInputs) = freeInputs[1] /\ freeInputs' = Tail(freeInputs)
        /\ decoding' = Append(decoding, c) /\ held \in Made
    BY <1>25, <1>a DEF QueueInput, FramesTyped
  <2>2. c \in Carried /\ c.input = freeInputs[1][2]
    <3>1. freeInputs[1] \in Slots  BY <2>1, <1>a
    <3> QED  BY <3>1, <2>1
  <2> HIDE DEF Slots, Carried, c
  <2>3. /\ Len(decoding') = D + 1 /\ DOMAIN decoding' = 1 .. D + 1 /\ decoding'[D + 1] = c
        /\ \A k \in 1 .. D : decoding'[k] = decoding[k]
    BY <2>1, <2>2, <1>a, AppendProperties
  <2>4. /\ DOMAIN freeInputs' = 1 .. F - 1
        /\ \A k \in 1 .. F - 1 : freeInputs'[k] = freeInputs[k + 1]
    BY <2>1, <1>a, TakenFrom
  <2>5. ASSUME NEW k \in 1 .. F - 1
        PROVE  k + 1 \in 1 .. F /\ k + 1 # 1 /\ freeInputs'[k] = freeInputs[k + 1]
    BY <2>4, <1>a
  <2>6. ASSUME NEW k \in 1 .. D + 1
        PROVE  \/ k = D + 1 /\ decoding'[k].input = freeInputs[1][2]
               \/ k \in 1 .. D /\ decoding'[k] = decoding[k]
    BY <2>2, <2>3, <1>a
  <2>7. 1 \in 1 .. F  BY <2>1, <1>a
  <2>8. \A k \in 1 .. F - 1 : freeInputs'[k][1] = codec /\ freeInputs'[k][2] \notin idle
    BY <2>0, <2>5, <1>b
  <2>9. \A k, l \in 1 .. F - 1 : freeInputs'[k][2] = freeInputs'[l][2] => k = l
    <3> TAKE k, l \in 1 .. F - 1
    <3> HAVE freeInputs'[k][2] = freeInputs'[l][2]
    <3>1. k + 1 = l + 1  BY <2>0, <2>5, <1>b
    <3> QED  BY <3>1, <1>a
  <2>10. \A k \in 1 .. D + 1 : decoding'[k].input \notin idle
    BY <2>0, <2>6, <2>7, <1>b
  <2>11. \A k, l \in 1 .. D + 1 : decoding'[k].input = decoding'[l].input => k = l
    BY <2>0, <2>6, <2>7, <1>b
  <2>12. \A k \in 1 .. F - 1, l \in 1 .. D + 1 : freeInputs'[k][2] # decoding'[l].input
    <3> TAKE k \in 1 .. F - 1, l \in 1 .. D + 1
    <3>1. CASE decoding'[l].input = freeInputs[1][2]  BY <3>1, <2>0, <2>5, <2>7, <1>b
    <3>2. CASE l \in 1 .. D /\ decoding'[l] = decoding[l]  BY <3>2, <2>0, <2>5, <1>b
    <3> QED  BY <3>1, <3>2, <2>6
  <2>13. \A j \in Inputs \ idle : \/ \E k \in 1 .. F - 1 : freeInputs'[k][2] = j
                                  \/ \E k \in 1 .. D + 1 : decoding'[k].input = j
    <3> TAKE j \in Inputs \ idle
    <3>1. CASE j = freeInputs[1][2]
      <4>1. D + 1 \in 1 .. D + 1 /\ decoding'[D + 1].input = j  BY <3>1, <2>2, <2>3, <1>a
      <4> QED  BY <4>1
    <3>2. ASSUME NEW k \in 1 .. F, freeInputs[k][2] = j, j # freeInputs[1][2]
          PROVE  \E m \in 1 .. F - 1 : freeInputs'[m][2] = j
      <4>1. k # 1 /\ k - 1 \in 1 .. F - 1 /\ (k - 1) + 1 = k  BY <3>2, <1>a
      <4> QED  BY <4>1, <3>2, <2>4
    <3>3. ASSUME NEW k \in 1 .. D, decoding[k].input = j
          PROVE  \E m \in 1 .. D + 1 : decoding'[m].input = j
      BY <3>3, <2>3, <1>a
    <3> QED  BY <3>1, <3>2, <3>3, <2>0, <1>b
  <2> HIDE DEF F, D
  <2> QED
    BY ONLY <2>0, <2>3, <2>4, <2>8, <2>9, <2>10, <2>11, <2>12, <2>13 DEF InputsApart
<1>26. CASE Decode
  <2>0. codec # 0 /\ UNCHANGED <<codec, freeInputs>>
    BY <1>26 DEF Decode, Phases
  <2> DEFINE i == decoding[1].input
  <2>1. D >= 1 /\ Head(decoding) = decoding[1] /\ decoding' = Tail(decoding)
        /\ idle' = idle \cup {i}
    BY <1>26, <1>a DEF Decode
  <2> HIDE DEF Slots, Carried, i
  <2>2. /\ DOMAIN decoding' = 1 .. D - 1
        /\ \A k \in 1 .. D - 1 : decoding'[k] = decoding[k + 1]
    BY <2>1, <1>a, TakenFrom
  <2>3. ASSUME NEW k \in 1 .. D - 1
        PROVE  k + 1 \in 1 .. D /\ k + 1 # 1 /\ decoding'[k] = decoding[k + 1]
    BY <2>2, <1>a
  <2>4. 1 \in 1 .. D /\ i = decoding[1].input  BY <2>1, <1>a DEF i
  <2>5. \A k \in 1 .. F : freeInputs[k][1] = codec /\ freeInputs[k][2] \notin idle'
    BY <2>0, <2>1, <2>4, <1>b
  <2>6. \A k, l \in 1 .. F : freeInputs[k][2] = freeInputs[l][2] => k = l  BY <2>0, <1>b
  <2>7. \A k \in 1 .. D - 1 : decoding'[k].input \notin idle'
    BY <2>0, <2>1, <2>3, <2>4, <1>b
  <2>8. \A k, l \in 1 .. D - 1 : decoding'[k].input = decoding'[l].input => k = l
    <3> TAKE k, l \in 1 .. D - 1
    <3> HAVE decoding'[k].input = decoding'[l].input
    <3>1. k + 1 = l + 1  BY <2>0, <2>3, <1>b
    <3> QED  BY <3>1, <1>a
  <2>9. \A k \in 1 .. F, l \in 1 .. D - 1 : freeInputs[k][2] # decoding'[l].input
    <3> TAKE k \in 1 .. F, l \in 1 .. D - 1
    <3>1. l + 1 \in 1 .. D /\ decoding'[l] = decoding[l + 1]  BY <2>3
    <3> QED  BY <2>0, <3>1, <1>b
  <2>10. \A j \in Inputs \ idle' : \/ \E k \in 1 .. F : freeInputs[k][2] = j
                                   \/ \E k \in 1 .. D - 1 : decoding'[k].input = j
    <3> TAKE j \in Inputs \ idle'
    <3>1. j \in Inputs \ idle /\ j # i  BY <2>1
    <3>2. ASSUME NEW k \in 1 .. D, decoding[k].input = j
          PROVE  \E m \in 1 .. D - 1 : decoding'[m].input = j
      <4>1. k # 1 /\ k - 1 \in 1 .. D - 1 /\ (k - 1) + 1 = k  BY <3>1, <3>2, <2>4, <1>a
      <4> QED  BY <4>1, <3>2, <2>2
    <3> QED  BY <3>1, <3>2, <2>0, <1>b
  <2>11. /\ DOMAIN freeInputs' = 1 .. F /\ freeInputs' = freeInputs /\ codec' = codec
         /\ DOMAIN decoding' = 1 .. D - 1
    BY <2>0, <2>2, <1>a
  <2> HIDE DEF F, D
  <2> QED
    BY ONLY <2>5, <2>6, <2>7, <2>8, <2>9, <2>10, <2>11, <2>0 DEF InputsApart
<1> QED
  BY <1>1, <1>2, <1>3, <1>4, <1>5, <1>6, <1>7, <1>8, <1>9, <1>10, <1>11, <1>12, <1>13, <1>14,
     <1>15, <1>16, <1>17, <1>18, <1>19, <1>20, <1>21, <1>22, <1>23, <1>24, <1>25, <1>26
     DEF Next, SessionThread


----------------------------------------------------------------------------
(* Acks and times.  A frame goes from one queue to the next, the order of  *)
(* all of them stays.                                                      *)
LEMMA Passed ==
  ASSUME NEW S, NEW x \in Seq(S), NEW y \in Seq(S), NEW z \in Seq(S), NEW h \in S
  PROVE  (x \o <<h>>) \o (y \o z) = x \o ((<<h>> \o y) \o z)
<1>1. <<h>> \in Seq(S) /\ <<h>> \o y \in Seq(S) /\ y \o z \in Seq(S)  BY ConcatProperties
<1>2. (x \o <<h>>) \o (y \o z) = x \o (<<h>> \o (y \o z))  BY <1>1, ConcatAssociative
<1>3. <<h>> \o (y \o z) = (<<h>> \o y) \o z  BY <1>1, ConcatAssociative
<1> QED  BY <1>2, <1>3

LEMMA TakenHead ==
  ASSUME NEW S, NEW s \in Seq(S), s # <<>>
  PROVE  s = <<Head(s)>> \o Tail(s)
<1>1. <<Head(s)>> \in Seq(S) /\ Tail(s) \in Seq(S) /\ Len(Tail(s)) = Len(s) - 1
  BY HeadTailProperties
<1>2. Len(<<Head(s)>> \o Tail(s)) = Len(s) /\ <<Head(s)>> \o Tail(s) \in Seq(S)
  BY <1>1, ConcatProperties
<1>3. ASSUME NEW i \in 1 .. Len(s)  PROVE s[i] = (<<Head(s)>> \o Tail(s))[i]
  BY <1>1, ConcatProperties, HeadTailProperties
<1> QED  BY <1>2, <1>3, SeqEqual

LEMMA Prepended ==
  ASSUME NEW S, NEW s \in Seq(S), NEW h \in S
  PROVE  /\ <<h>> \o s \in Seq(S) /\ Len(<<h>> \o s) = Len(s) + 1
         /\ \A i \in 1 .. Len(s) + 1 : (<<h>> \o s)[i] = IF i = 1 THEN h ELSE s[i - 1]
<1>1. <<h>> \in Seq(S) /\ Len(<<h>>) = 1 /\ <<h>>[1] = h  OBVIOUS
<1> QED  BY <1>1, ConcatProperties

LEMMA HeadOfConcat ==
  ASSUME NEW S, NEW s \in Seq(S), NEW h \in S
  PROVE  <<h>> \o s # <<>> /\ Head(<<h>> \o s) = h /\ Tail(<<h>> \o s) = s
<1>1. /\ <<h>> \o s \in Seq(S) /\ Len(<<h>> \o s) = Len(s) + 1
      /\ \A i \in 1 .. Len(s) + 1 : (<<h>> \o s)[i] = IF i = 1 THEN h ELSE s[i - 1]
  BY Prepended
<1>2. <<h>> \o s # <<>>  BY <1>1
<1>3. Tail(<<h>> \o s) \in Seq(S) /\ Len(Tail(<<h>> \o s)) = Len(s)
  BY <1>1, <1>2, HeadTailProperties
<1>4. ASSUME NEW i \in 1 .. Len(s)  PROVE Tail(<<h>> \o s)[i] = s[i]
  BY <1>1, <1>2, <1>3, HeadTailProperties
<1>5. Tail(<<h>> \o s) = s  BY <1>3, <1>4, SeqEqual
<1> QED  BY <1>1, <1>2, <1>5

(* The frames of a queue, when one is added or taken.                      *)
LEMMA FramesOfQueue ==
  ASSUME NEW S, NEW s \in Seq(S), \A x \in S : x.frame \in Nat
  PROVE  /\ FramesOf(s) \in Seq(Nat) /\ Len(FramesOf(s)) = Len(s)
         /\ \A i \in 1 .. Len(s) : FramesOf(s)[i] = s[i].frame
  BY DEF FramesOf

LEMMA FramesOfAppend ==
  ASSUME NEW S, NEW s \in Seq(S), NEW x \in S, \A y \in S : y.frame \in Nat
  PROVE  FramesOf(Append(s, x)) = FramesOf(s) \o <<x.frame>>
<1>1. <<x.frame>> \in Seq(Nat)  OBVIOUS
<1>2. /\ FramesOf(s) \o <<x.frame>> \in Seq(Nat) /\ Len(FramesOf(s) \o <<x.frame>>) = Len(s) + 1
      /\ \A i \in 1 .. Len(s) + 1 : (FramesOf(s) \o <<x.frame>>)[i] =
           IF i <= Len(s) THEN s[i].frame ELSE x.frame
  BY <1>1, FramesOfQueue, ConcatProperties
<1>3. Append(s, x) \in Seq(S) /\ Len(Append(s, x)) = Len(s) + 1  BY AppendProperties
<1>4. FramesOf(Append(s, x)) \in Seq(Nat) /\ Len(FramesOf(Append(s, x))) = Len(s) + 1
  BY <1>3, FramesOfQueue
<1>5. ASSUME NEW i \in 1 .. Len(s) + 1
      PROVE  FramesOf(Append(s, x))[i] = (FramesOf(s) \o <<x.frame>>)[i]
  <2>1. FramesOf(Append(s, x))[i] = Append(s, x)[i].frame  BY <1>3, FramesOfQueue, Zenon
  <2>2. Append(s, x)[i] = IF i <= Len(s) THEN s[i] ELSE x  BY AppendProperties
  <2> QED  BY <2>1, <2>2, <1>2
<1> QED  BY <1>2, <1>4, <1>5, SeqEqual

LEMMA FramesOfTaken ==
  ASSUME NEW S, NEW s \in Seq(S), s # <<>>, \A y \in S : y.frame \in Nat
  PROVE  FramesOf(s) = <<Head(s).frame>> \o FramesOf(Tail(s))
<1>1. /\ Head(s) \in S /\ Tail(s) \in Seq(S) /\ Len(Tail(s)) = Len(s) - 1 /\ Len(s) \in Nat \ {0}
      /\ Head(s) = s[1] /\ \A i \in 1 .. Len(s) - 1 : Tail(s)[i] = s[i + 1]
  <2>1. Head(s) \in S  BY HeadTailProperties, Zenon
  <2>2. /\ Len(s) \in Nat /\ Len(s) >= 1 /\ Head(s) = s[1]
        /\ Tail(s) \in Seq(S) /\ Len(Tail(s)) = Len(s) - 1
        /\ \A i \in 1 .. Len(s) - 1 : Tail(s)[i] = s[i + 1]
    BY TakenFrom, Zenon
  <2>3. Len(s) \in Nat \ {0}  BY ONLY <2>2
  <2> QED  BY ONLY <2>1, <2>2, <2>3
<1> DEFINE t == FramesOf(Tail(s))
           h == Head(s).frame
<1>2. t \in Seq(Nat) /\ Len(t) = Len(s) - 1  BY <1>1, FramesOfQueue, Zenon
<1>3. ASSUME NEW i \in 1 .. Len(s) - 1  PROVE t[i] = s[i + 1].frame
  <2>1. t[i] = Tail(s)[i].frame  BY <1>1, FramesOfQueue
  <2> QED  BY <2>1, <1>1
<1>4. h \in Nat /\ h = s[1].frame  BY <1>1
<1> HIDE DEF t, h
<1>5. /\ <<h>> \o t \in Seq(Nat) /\ Len(<<h>> \o t) = Len(s)
      /\ \A i \in 1 .. Len(s) : (<<h>> \o t)[i] = IF i = 1 THEN h ELSE t[i - 1]
  <2>1. Len(t) + 1 = Len(s)  BY <1>1, <1>2
  <2>2. /\ <<h>> \o t \in Seq(Nat) /\ Len(<<h>> \o t) = Len(t) + 1
        /\ \A i \in 1 .. Len(t) + 1 : (<<h>> \o t)[i] = IF i = 1 THEN h ELSE t[i - 1]
    BY <1>2, <1>4, Prepended
  <2> QED  BY <2>1, <2>2
<1>6. ASSUME NEW i \in 1 .. Len(s)  PROVE FramesOf(s)[i] = (<<h>> \o t)[i]
  <2>1. FramesOf(s)[i] = s[i].frame  BY FramesOfQueue
  <2>2. CASE i = 1  BY <2>1, <2>2, <1>4, <1>5
  <2>3. CASE i # 1
    <3>1. i - 1 \in 1 .. Len(s) - 1 /\ (i - 1) + 1 = i  BY <2>3, <1>1
    <3>2. t[i - 1] = s[i].frame  BY <3>1, <1>3
    <3> QED  BY <3>1, <3>2, <2>1, <1>5
  <2> QED  BY <2>2, <2>3
<1>7. FramesOf(s) \in Seq(Nat) /\ Len(FramesOf(s)) = Len(s)  BY FramesOfQueue
<1>8. FramesOf(s) = <<h>> \o t  BY ONLY <1>5, <1>6, <1>7, SeqEqual
<1> QED  BY <1>8 DEF t, h

(* The parts of Unacked are sequences of frames.                           *)
PartsTyped ==
  /\ acked \in Seq(Nat) /\ outputs \in Seq(Nat) /\ sentAt \in Seq(Nat)
  /\ Coded \in Seq(Nat) /\ Reading \in Seq(Nat) /\ OnSocket \in Seq(Nat)
  /\ InSend \in Seq(Nat)

LEMMA Parts ==
  ASSUME Bounds, TypeOK, FramesTyped, NetShape
  PROVE  PartsTyped
<1>1. Made \subseteq Nat  BY DEF Made
<1>2. acked \in Seq(Nat) /\ outputs \in Seq(Nat) /\ sentAt \in Seq(Nat)
  BY <1>1, SeqMonotonic DEF FramesTyped
<1>3. Coded \in Seq(Nat)
  <2> DEFINE Carried == [input : Inputs, frame : Made]
  <2>1. \A x \in Carried : x.frame \in Nat  BY <1>1
  <2>2. decoding \in Seq(Carried)  BY DEF FramesTyped
  <2> HIDE DEF Carried
  <2>3. FramesOf(decoding) \in Seq(Nat)  BY ONLY <2>1, <2>2, FramesOfQueue
  <2> QED  BY <2>3 DEF Coded
<1>4. Reading \in Seq(Nat)
  <2>1. app = "input" => held \in Nat  BY <1>1 DEF FramesTyped
  <2> QED  BY <2>1 DEF Reading
<1>5. OnSocket \in Seq(Nat)
  <2>1. /\ net \in Seq(Message) /\ Len(net) \in Nat /\ Controls \in 0 .. 2 /\ Controls <= Len(net)
    BY NetFacts
  <2>2. \A x \in Message : x.frame \in Nat
    BY <1>1 DEF Message, Header, Control, Video, NoFrame
  <2> DEFINE n == Len(net) - Controls
  <2>3. n \in Nat  BY <2>1
  <2>4. ASSUME NEW i \in 1 .. n  PROVE net[Controls + i].frame \in Nat
    <3>1. Controls + i \in 1 .. Len(net)  BY <2>1
    <3>2. net[Controls + i] \in Message  BY <2>1, <3>1, ElementOfSeq
    <3> QED  BY <3>2, <2>2
  <2>5. OnSocket = [i \in 1 .. n |-> net[Controls + i].frame]  BY DEF OnSocket
  <2> HIDE DEF n
  <2> QED  BY <2>3, <2>4, <2>5
<1>6. InSend \in Seq(Nat)  BY <1>1 DEF InSend, FramesTyped
<1> QED  BY <1>2, <1>3, <1>4, <1>5, <1>6 DEF PartsTyped

LEMMA PartsNext ==
  (Bounds /\ TypeOK /\ FramesTyped /\ NetShape)' => PartsTyped'
<1>1. Bounds /\ TypeOK /\ FramesTyped /\ NetShape => PartsTyped  BY Parts
<1> QED  BY <1>1, PTL

(* OnSocket, when a frame is sent or a message read.                       *)
LEMMA SendOnSocket ==
  ASSUME Bounds, TypeOK, FramesTyped, NetShape, Send
  PROVE  OnSocket' = OnSocket \o <<inHand>>
<1> DEFINE n == Len(net) - Controls
<1>1. /\ Len(net) \in Nat /\ n \in Nat /\ Controls \in 0 .. 2
      /\ Len(net') = Len(net) + 1 /\ net'[Len(net) + 1].frame = inHand
      /\ \A k \in 1 .. Len(net) : net'[k] = net[k]
      /\ Controls' = Controls
  BY SendNet, NetFacts DEF Video
<1>2. OnSocket \in Seq(Nat) /\ Len(OnSocket) = n /\ inHand \in Nat
      /\ \A i \in 1 .. n : OnSocket[i] = net[Controls + i].frame
  <2>1. inHand \in Nat  BY DEF TypeOK, FramesTyped
  <2>2. OnSocket = [i \in 1 .. n |-> net[Controls + i].frame]  BY DEF OnSocket
  <2>3. n \in Nat /\ OnSocket \in Seq(Nat)  BY <1>1, Parts DEF PartsTyped
  <2> HIDE DEF n
  <2> QED  BY <2>1, <2>2, <2>3
<1>3. OnSocket' = [i \in 1 .. n + 1 |-> net'[Controls + i].frame]
  BY <1>1 DEF OnSocket
<1>4. ASSUME NEW i \in 1 .. n + 1
      PROVE  net'[Controls + i].frame = IF i <= n THEN OnSocket[i] ELSE inHand
  <2>1. CASE i = n + 1  BY <2>1, <1>1
  <2>2. CASE i # n + 1
    <3>1. i \in 1 .. n /\ Controls + i \in 1 .. Len(net)  BY <2>2, <1>1
    <3> QED  BY <3>1, <1>1, <1>2
  <2> QED  BY <2>1, <2>2
<1> HIDE DEF n
<1>5. /\ OnSocket \o <<inHand>> \in Seq(Nat) /\ Len(OnSocket \o <<inHand>>) = n + 1
      /\ \A i \in 1 .. n + 1 : (OnSocket \o <<inHand>>)[i] = IF i <= n THEN OnSocket[i] ELSE inHand
  <2>1. <<inHand>> \in Seq(Nat) /\ Len(<<inHand>>) = 1 /\ <<inHand>>[1] = inHand  BY <1>2
  <2> QED  BY <2>1, <1>1, <1>2, ConcatProperties
<1>6. OnSocket' \in Seq(Nat) /\ Len(OnSocket') = n + 1
  <2>1. ASSUME NEW i \in 1 .. n + 1  PROVE net'[Controls + i].frame \in Nat
    <3>1. CASE i <= n
      <4>1. OnSocket[i] \in Nat  BY <3>1, <1>1, <1>2
      <4> QED  BY <3>1, <4>1, <1>4
    <3>2. CASE ~(i <= n)  BY <3>2, <1>2, <1>4
    <3> QED  BY <3>1, <3>2
  <2>2. n + 1 \in Nat  BY <1>1
  <2> QED  BY <2>1, <2>2, <1>3
<1>7. \A i \in 1 .. n + 1 : OnSocket'[i] = (OnSocket \o <<inHand>>)[i]
  BY <1>3, <1>4, <1>5
<1> QED  BY <1>5, <1>6, <1>7, SeqEqual

LEMMA ReadOnSocket ==
  ASSUME Bounds, TypeOK, TypeOK', FramesTyped, FramesTyped', Phases, NetShape,
         ReadHeader \/ ReadControl \/ ReadFrame
  PROVE  /\ ~ReadFrame => OnSocket' = OnSocket
         /\ ReadFrame => Head(net).frame \in Nat /\ OnSocket = <<Head(net).frame>> \o OnSocket'
<1> DEFINE n == Len(net) - Controls
           m == Len(net') - Controls'
<1>1. /\ Len(net) >= 1 /\ Len(net') = Len(net) - 1
      /\ \A k \in 1 .. Len(net) - 1 : net'[k] = net[k + 1]
      /\ Controls' = (IF Controls = 0 THEN 0 ELSE Controls - 1)
      /\ Controls = 0 <=> ReadFrame
      /\ NetShape'
  BY ReadNet
<1>2. /\ Len(net) \in Nat /\ n \in Nat /\ Controls \in 0 .. 2  BY NetFacts
<1>3. OnSocket = [i \in 1 .. n |-> net[Controls + i].frame]
      /\ OnSocket' = [i \in 1 .. m |-> net'[Controls' + i].frame]
  BY DEF OnSocket
<1>4. OnSocket \in Seq(Nat) /\ OnSocket' \in Seq(Nat)
  <2>1. Bounds'  BY DEF Bounds
  <2> QED  BY <1>1, <2>1, Parts, PartsNext DEF PartsTyped
<1>5. CASE ~ReadFrame
  <2>1. Controls >= 1 /\ Controls' = Controls - 1 /\ m = n  BY <1>5, <1>1, <1>2
  <2>2. ASSUME NEW i \in 1 .. n  PROVE net'[Controls' + i] = net[Controls + i]
    <3>1. Controls' + i \in 1 .. Len(net) - 1 /\ (Controls' + i) + 1 = Controls + i
      BY <2>1, <1>2
    <3> QED  BY <3>1, <1>1
  <2> HIDE DEF m, n
  <2> QED  BY <1>3, <1>5, <2>1, <2>2
<1>6. CASE ReadFrame
  <2>1. Controls = 0 /\ Controls' = 0 /\ n = Len(net) /\ m = n - 1 /\ n >= 1
    BY <1>6, <1>1, <1>2
  <2> DEFINE h == Head(net).frame
  <2>2. h = net[1].frame  BY <1>2, <2>1, NetFacts
  <2>3. ASSUME NEW i \in 1 .. n  PROVE OnSocket[i] = net[i].frame
    BY <1>2, <1>3, <2>1
  <2>4. ASSUME NEW i \in 1 .. m  PROVE OnSocket'[i] = net[i + 1].frame
    BY <1>1, <1>2, <1>3, <2>1
  <2>5. Len(OnSocket) = n /\ Len(OnSocket') = m  BY <1>2, <1>3, <2>1
  <2>6. h \in Nat
    <3>1. OnSocket[1] = h /\ 1 \in 1 .. Len(OnSocket)  BY <2>1, <2>2, <2>3, <2>5, <1>2
    <3> QED  BY <3>1, <1>4, ElementOfSeq
  <2> HIDE DEF m, n, h
  <2>7. /\ <<h>> \o OnSocket' \in Seq(Nat) /\ Len(<<h>> \o OnSocket') = m + 1
        /\ \A i \in 1 .. m + 1 : (<<h>> \o OnSocket')[i] = IF i = 1 THEN h ELSE OnSocket'[i - 1]
    <3> DEFINE t == OnSocket'
    <3>1. t \in Seq(Nat) /\ Len(t) = m  BY ONLY <1>4, <2>5
    <3> HIDE DEF t
    <3>2. /\ <<h>> \o t \in Seq(Nat) /\ Len(<<h>> \o t) = Len(t) + 1
          /\ \A i \in 1 .. Len(t) + 1 : (<<h>> \o t)[i] = IF i = 1 THEN h ELSE t[i - 1]
      BY ONLY <3>1, <2>6, Prepended
    <3> QED  BY ONLY <3>1, <3>2 DEF t
  <2>8. ASSUME NEW i \in 1 .. n  PROVE OnSocket[i] = (<<h>> \o OnSocket')[i]
    <3>1. i \in 1 .. m + 1  BY <2>1, <1>2
    <3>2. CASE i = 1  BY <3>1, <3>2, <2>2, <2>3, <2>7
    <3>3. CASE i # 1
      <4>1. i - 1 \in 1 .. m /\ (i - 1) + 1 = i  BY <3>3, <2>1, <1>2
      <4> QED  BY <3>1, <3>3, <4>1, <2>3, <2>4, <2>7
    <3> QED  BY <3>2, <3>3
  <2>9. m + 1 = n  BY <2>1, <1>2
  <2>10. OnSocket = <<h>> \o OnSocket'
    BY <1>4, <2>5, <2>7, <2>8, <2>9, SeqEqual
  <2> QED  BY <1>6, <2>6, <2>10 DEF h
<1> QED  BY <1>5, <1>6

(* What does not touch the queues nor the connection keeps Timed.          *)
LEMMA FifoKept ==
  ASSUME Timed, Unacked' = Unacked, sentAt' = sentAt,
         open' /\ drain' # "dead" => open /\ drain # "dead"
  PROVE  Timed'
  BY DEF Timed, TimedBeyond

(* Brackets, under a name of its own for the provers.                      *)
Cat(s, t) == s \o t

LEMMA CatRegroup ==
  ASSUME NEW S, NEW s \in Seq(S), NEW t \in Seq(S), NEW u \in Seq(S)
  PROVE  Cat(s, Cat(t, u)) = Cat(Cat(s, t), u) /\ Cat(s, t) \in Seq(S)
  BY ConcatAssociative, ConcatProperties DEF Cat

LEMMA CatDeep ==
  ASSUME NEW S, NEW a \in Seq(S), NEW b \in Seq(S), NEW c \in Seq(S), NEW d \in Seq(S),
         NEW e \in Seq(S), NEW f \in Seq(S)
  PROVE  /\ Cat(a, Cat(b, Cat(c, Cat(d, Cat(e, f))))) = Cat(Cat(a, Cat(b, Cat(c, Cat(d, e)))), f)
         /\ Cat(a, Cat(b, Cat(c, Cat(d, e)))) \in Seq(S)
<1>1. Cat(d, Cat(e, f)) = Cat(Cat(d, e), f) /\ Cat(d, e) \in Seq(S)  BY CatRegroup, Zenon
<1>2. Cat(c, Cat(Cat(d, e), f)) = Cat(Cat(c, Cat(d, e)), f) /\ Cat(c, Cat(d, e)) \in Seq(S)
  BY <1>1, CatRegroup, Zenon
<1>3. /\ Cat(b, Cat(Cat(c, Cat(d, e)), f)) = Cat(Cat(b, Cat(c, Cat(d, e))), f)
      /\ Cat(b, Cat(c, Cat(d, e))) \in Seq(S)
  BY <1>2, CatRegroup, Zenon
<1>4. /\ Cat(a, Cat(Cat(b, Cat(c, Cat(d, e))), f)) = Cat(Cat(a, Cat(b, Cat(c, Cat(d, e)))), f)
      /\ Cat(a, Cat(b, Cat(c, Cat(d, e)))) \in Seq(S)
  BY <1>3, CatRegroup, Zenon
<1>5. Cat(a, Cat(b, Cat(c, Cat(d, Cat(e, f))))) = Cat(Cat(a, Cat(b, Cat(c, Cat(d, e)))), f)
  BY ONLY <1>1, <1>2, <1>3, <1>4
<1> QED  BY ONLY <1>4, <1>5

LEMMA UnackedTyped ==
  ASSUME PartsTyped
  PROVE  Unacked \in Seq(Nat)
<1>1. OnSocket \o InSend \in Seq(Nat)  BY ConcatProperties DEF PartsTyped
<1>2. Reading \o (OnSocket \o InSend) \in Seq(Nat)  BY <1>1, ConcatProperties DEF PartsTyped
<1>3. Coded \o (Reading \o (OnSocket \o InSend)) \in Seq(Nat)
  BY <1>2, ConcatProperties DEF PartsTyped
<1> QED  BY <1>3, ConcatProperties DEF PartsTyped, Unacked

LEMMA StampFIFO ==
  ASSUME PartsTyped, inHand \in Nat, Stamp, Timed
  PROVE  Timed'
<1>1. /\ drain = "stamp" /\ drain' = "send" /\ sentAt' = Append(sentAt, inHand)
      /\ UNCHANGED <<acked, outputs, Coded, Reading, OnSocket, open, inHand>>
  BY DEF Stamp, After, wireVars, appVars, codecVars, Coded, Reading, OnSocket, Controls
<1>2. PICK rest \in Seq(Nat) : TimedBeyond(rest)  BY DEF Timed
<1> DEFINE h == <<inHand>>
<1>3. h \in Seq(Nat) /\ sentAt \in Seq(Nat) /\ Unacked \in Seq(Nat)
  BY UnackedTyped DEF PartsTyped
<1>4. sentAt' = sentAt \o h  BY <1>1, <1>3, AppendIsConcat
<1>5. CASE open
  <2>1. rest = <<>> /\ sentAt = Unacked \o rest  BY <1>1, <1>2, <1>5 DEF TimedBeyond
  <2>2. sentAt = Unacked  BY <1>3, <2>1, ConcatEmptySeq
  <2>3. InSend = <<>> /\ InSend' = h  BY <1>1, <1>5 DEF InSend
  <2>4. OnSocket \o InSend = OnSocket  BY <2>3, ConcatEmptySeq DEF PartsTyped
  <2>5. Unacked = acked \o (outputs \o (Coded \o (Reading \o OnSocket)))
    BY <2>4 DEF Unacked
  <2>6. Unacked' = acked \o (outputs \o (Coded \o (Reading \o (OnSocket \o h))))
    BY <1>1, <2>3 DEF Unacked
  <2> HIDE DEF h
  <2>7. acked \o (outputs \o (Coded \o (Reading \o (OnSocket \o h))))
          = (acked \o (outputs \o (Coded \o (Reading \o OnSocket)))) \o h
    <3>1. /\ acked \in Seq(Nat) /\ outputs \in Seq(Nat) /\ Coded \in Seq(Nat)
          /\ Reading \in Seq(Nat) /\ OnSocket \in Seq(Nat) /\ h \in Seq(Nat)
      BY <1>3 DEF PartsTyped
    <3>2. Cat(acked, Cat(outputs, Cat(Coded, Cat(Reading, Cat(OnSocket, h)))))
            = Cat(Cat(acked, Cat(outputs, Cat(Coded, Cat(Reading, OnSocket)))), h)
          /\ Cat(acked, Cat(outputs, Cat(Coded, Cat(Reading, OnSocket)))) \in Seq(Nat)
      BY ONLY <3>1, CatDeep
    <3> QED  BY ONLY <3>2 DEF Cat
  <2>8. sentAt' = Unacked'  BY ONLY <1>4, <2>2, <2>5, <2>6, <2>7
  <2>9. sentAt' \in Seq(Nat)  BY ONLY <1>3, <1>4, ConcatProperties
  <2>10. sentAt' = Unacked' \o <<>>  BY ONLY <2>8, <2>9, ConcatEmptySeq
  <2>11. <<>> \in Seq(Nat)  OBVIOUS
  <2> QED  BY <2>10, <2>11 DEF Timed, TimedBeyond
<1>6. CASE ~open
  <2>1. InSend' = InSend  BY <1>1, <1>6 DEF InSend
  <2>2. Unacked' = Unacked  BY <1>1, <2>1 DEF Unacked
  <2>3. sentAt = Unacked \o rest  BY <1>2 DEF TimedBeyond
  <2> HIDE DEF h
  <2>4. (Unacked \o rest) \o h = Unacked \o (rest \o h)
    <3>1. Unacked \in Seq(Nat) /\ h \in Seq(Nat)  BY <1>3
    <3>2. Cat(Unacked, Cat(rest, h)) = Cat(Cat(Unacked, rest), h) /\ Cat(Unacked, rest) \in Seq(Nat)
      BY ONLY <3>1, rest \in Seq(Nat), CatRegroup
    <3> QED  BY ONLY <3>2 DEF Cat
  <2>5. rest \o h \in Seq(Nat)  BY <1>3, ConcatProperties
  <2> QED  BY <1>1, <1>4, <1>6, <2>2, <2>3, <2>4, <2>5 DEF Timed, TimedBeyond
<1> QED  BY <1>5, <1>6

LEMMA SendFIFO ==
  ASSUME Bounds, TypeOK, FramesTyped, NetShape, Send, Timed
  PROVE  Timed'
<1>1. /\ drain = "send" /\ drain' = "pull" /\ open
      /\ UNCHANGED <<acked, outputs, Coded, Reading, open, sentAt>>
  BY DEF Send, After, appVars, codecVars, timeVars, Coded, Reading
<1>2. InSend = <<inHand>> /\ InSend' = <<>>  BY <1>1 DEF InSend
<1>3. OnSocket' = OnSocket \o <<inHand>>  BY SendOnSocket
<1>4. OnSocket' \o InSend' = OnSocket \o InSend
  <2>1. inHand \in Nat /\ OnSocket \in Seq(Nat)  BY Parts DEF PartsTyped, TypeOK, FramesTyped
  <2>2. OnSocket \o <<inHand>> \in Seq(Nat)  BY <2>1, ConcatProperties
  <2> QED  BY <1>2, <1>3, <2>2, ConcatEmptySeq
<1>5. Unacked' = Unacked  BY <1>1, <1>4 DEF Unacked
<1> QED  BY <1>1, <1>5, FifoKept

LEMMA ReadFIFO ==
  ASSUME Bounds, TypeOK, TypeOK', FramesTyped, FramesTyped', Phases, NetShape,
         ReadHeader \/ ReadControl \/ ReadFrame, Timed
  PROVE  Timed'
<1>1. UNCHANGED <<acked, outputs, Coded, open, drain, InSend, sentAt>>
  <2> USE DEF OtherThanApp, hostVars, drainVars, timeVars, codecVars, Coded, InSend
  <2>1. CASE ReadHeader  BY <2>1 DEF ReadHeader
  <2>2. CASE ReadControl  BY <2>2 DEF ReadControl
  <2>3. CASE ReadFrame  BY <2>3 DEF ReadFrame
  <2> QED  BY <2>1, <2>2, <2>3
<1>2. CASE ReadFrame
  <2> DEFINE h == Head(net).frame
  <2>1. Reading = <<>> /\ Reading' = <<h>>  BY <1>2 DEF ReadFrame, Reading
  <2>2. h \in Nat /\ OnSocket = <<h>> \o OnSocket'  BY <1>2, ReadOnSocket
  <2>3. OnSocket' \in Seq(Nat)
    <3>1. Bounds' /\ NetShape'  BY ReadNet DEF Bounds
    <3> QED  BY <3>1, PartsNext DEF PartsTyped
  <2>4. InSend \in Seq(Nat) /\ OnSocket \in Seq(Nat)  BY Parts DEF PartsTyped
  <2> HIDE DEF h
  <2>5. <<h>> \in Seq(Nat) /\ OnSocket \o InSend \in Seq(Nat)  BY <2>2, <2>4, ConcatProperties
  <2>6. <<h>> \o (OnSocket' \o InSend) = (<<h>> \o OnSocket') \o InSend
    <3>1. PICK s \in Seq(Nat) : s = <<h>>  BY <2>5
    <3>2. PICK t \in Seq(Nat) : t = OnSocket'  BY <2>3
    <3>3. Cat(s, Cat(t, InSend)) = Cat(Cat(s, t), InSend) /\ Cat(s, t) \in Seq(Nat)
      BY ONLY s \in Seq(Nat), t \in Seq(Nat), <2>4, CatRegroup
    <3> QED  BY ONLY <3>1, <3>2, <3>3 DEF Cat
  <2>7. Reading' \o (OnSocket' \o InSend') = Reading \o (OnSocket \o InSend)
    BY <1>1, <2>1, <2>2, <2>5, <2>6, ConcatEmptySeq
  <2>8. Unacked' = Unacked  BY <1>1, <2>7 DEF Unacked
  <2> QED  BY <1>1, <2>8, FifoKept
<1>3. CASE ~ReadFrame
  <2>1. OnSocket' = OnSocket  BY <1>3, ReadOnSocket
  <2>2. Reading' = Reading  BY <1>3 DEF ReadHeader, ReadControl, ReadFrame, Reading
  <2>3. Unacked' = Unacked  BY <1>1, <2>1, <2>2 DEF Unacked
  <2> QED  BY <1>1, <2>3, FifoKept
<1> QED  BY <1>2, <1>3

(* A queue of one frame.                                                   *)
LEMMA OneFrame ==
  ASSUME NEW h \in Nat
  PROVE  \E s \in Seq(Nat) : s = <<h>>
<1>1. <<h>> \in Seq(Nat)  OBVIOUS
<1> QED  BY <1>1, Zenon

(* What follows acked, outputs and Coded in Unacked.                       *)
LEMMA SuffixesTyped ==
  ASSUME PartsTyped
  PROVE  /\ OnSocket \o InSend \in Seq(Nat)
         /\ Reading \o (OnSocket \o InSend) \in Seq(Nat)
         /\ Coded \o (Reading \o (OnSocket \o InSend)) \in Seq(Nat)
         /\ outputs \o (Coded \o (Reading \o (OnSocket \o InSend))) \in Seq(Nat)
<1>1. OnSocket \o InSend \in Seq(Nat)  BY ConcatProperties DEF PartsTyped
<1>2. Reading \o (OnSocket \o InSend) \in Seq(Nat)  BY <1>1, ConcatProperties DEF PartsTyped
<1>3. Coded \o (Reading \o (OnSocket \o InSend)) \in Seq(Nat)
  BY <1>2, ConcatProperties DEF PartsTyped
<1>4. outputs \o (Coded \o (Reading \o (OnSocket \o InSend))) \in Seq(Nat)
  BY <1>3, ConcatProperties DEF PartsTyped
<1> QED  BY <1>1, <1>2, <1>3, <1>4

(* The elements of a queue with frames.                                    *)
LEMMA CodedNext ==
  ASSUME FramesTyped
  PROVE  /\ \A i \in Inputs, f \in Made :
              FramesOf(Append(decoding, [input |-> i, frame |-> f])) = Coded \o <<f>>
         /\ decoding # <<>> =>
              /\ Head(decoding).frame \in Nat
              /\ Coded = <<Head(decoding).frame>> \o FramesOf(Tail(decoding))
<1> DEFINE Carried == [input : Inputs, frame : Made]
<1>1. decoding \in Seq(Carried)  BY DEF FramesTyped
<1>2. \A x \in Carried : x.frame \in Nat  BY DEF Made
<1>3. ASSUME NEW i \in Inputs, NEW f \in Made
      PROVE  FramesOf(Append(decoding, [input |-> i, frame |-> f])) = Coded \o <<f>>
  <2> DEFINE c == [input |-> i, frame |-> f]
  <2>1. c \in Carried /\ c.frame = f  OBVIOUS
  <2> HIDE DEF c, Carried
  <2>2. FramesOf(Append(decoding, c)) = FramesOf(decoding) \o <<c.frame>>
    BY ONLY <1>1, <1>2, <2>1, FramesOfAppend
  <2> QED  BY <2>1, <2>2 DEF Coded, c
<1>4. ASSUME decoding # <<>>
      PROVE  /\ Head(decoding).frame \in Nat
             /\ Coded = <<Head(decoding).frame>> \o FramesOf(Tail(decoding))
  <2> HIDE DEF Carried
  <2>1. Head(decoding) \in Carried  BY <1>1, <1>4, HeadTailProperties
  <2>2. FramesOf(decoding) = <<Head(decoding).frame>> \o FramesOf(Tail(decoding))
    BY ONLY <1>1, <1>2, <1>4, FramesOfTaken
  <2> QED  BY <2>1, <2>2, <1>2 DEF Coded
<1> QED  BY <1>3, <1>4

LEMMA QueueInputFIFO ==
  ASSUME Bounds, TypeOK, FramesTyped, NetShape, QueueInput, Timed
  PROVE  Timed'
<1>1. UNCHANGED <<acked, outputs, OnSocket, InSend, sentAt, open, drain>>
  <2>1. UNCHANGED <<acked, outputs, net, open, sentAt, drain, inHand>>
    BY DEF QueueInput, OtherThanApp, hostVars, drainVars, timeVars
  <2>2. Controls' = Controls  BY <2>1 DEF QueueInput, Controls
  <2> QED  BY <2>1, <2>2 DEF OnSocket, InSend
<1>2. PartsTyped  BY Parts
<1>3. Reading = <<held>> /\ Reading' = <<>> /\ held \in Made /\ held \in Nat
  BY DEF QueueInput, Reading, FramesTyped, Made
<1>4. Coded' = Coded \o <<held>>
  <2>1. freeInputs \in Seq((0 .. created) \X Inputs) /\ freeInputs # <<>>
    BY DEF QueueInput, FramesTyped
  <2>2. Head(freeInputs) \in (0 .. created) \X Inputs  BY <2>1, HeadTailProperties
  <2>3. Head(freeInputs)[2] \in Inputs  BY <2>2
  <2>4. decoding' = Append(decoding, [input |-> Head(freeInputs)[2], frame |-> held])
    BY DEF QueueInput
  <2>5. FramesOf(decoding') = Coded \o <<held>>  BY ONLY <2>3, <2>4, <1>3, FramesTyped, CodedNext
  <2> QED  BY <2>5 DEF Coded, FramesOf
<1>5. PICK z \in Seq(Nat) : z = OnSocket \o InSend  BY <1>2, SuffixesTyped
<1>6. PICK s \in Seq(Nat) : s = <<held>>  BY ONLY <1>3, OneFrame
<1>7. PICK c \in Seq(Nat) : c = Coded  BY <1>2 DEF PartsTyped
<1>8. Cat(c, Cat(s, z)) = Cat(Cat(c, s), z) /\ Cat(c, s) \in Seq(Nat)
  BY ONLY c \in Seq(Nat), s \in Seq(Nat), z \in Seq(Nat), CatRegroup
<1>9. Coded' \o (Reading' \o z) = Coded \o (Reading \o z)
  <2>1. <<>> \o z = z  BY ConcatEmptySeq
  <2>2. c \o (s \o z) = (c \o s) \o z  BY ONLY <1>8 DEF Cat
  <2> QED  BY ONLY <1>3, <1>4, <1>6, <1>7, <2>1, <2>2
<1>10. OnSocket' \o InSend' = z  BY <1>1, <1>5
<1>11. Unacked' = Unacked  BY ONLY <1>1, <1>5, <1>9, <1>10 DEF Unacked
<1> QED  BY <1>1, <1>11, FifoKept

LEMMA DecodeFIFO ==
  ASSUME Bounds, TypeOK, FramesTyped, FramesTyped', NetShape, Decode, Timed
  PROVE  Timed'
<1>1. UNCHANGED <<acked, Reading, OnSocket, InSend, sentAt, open, drain>>
  <2>1. UNCHANGED <<acked, app, held, net, open, sentAt, drain, inHand>>
    BY DEF Decode, hostVars, drainVars, timeVars, wireVars
  <2>2. Controls' = Controls  BY <2>1 DEF Controls
  <2> QED  BY <2>1, <2>2 DEF OnSocket, InSend, Reading
<1>2. PartsTyped  BY Parts
<1> DEFINE f == Head(decoding).frame
           t == FramesOf(Tail(decoding))
<1>3. f \in Nat /\ Coded = <<f>> \o t  BY CodedNext DEF Decode
<1>4. Coded' = t /\ t \in Seq(Nat)
  <2>1. Coded' = t  BY DEF Decode, Coded, FramesOf
  <2> DEFINE Carried == [input : Inputs, frame : Made]
  <2>2. decoding \in Seq(Carried) /\ decoding # <<>>  BY DEF Decode, FramesTyped
  <2>3. \A x \in Carried : x.frame \in Nat  BY DEF Made
  <2> HIDE DEF Carried
  <2>4. Tail(decoding) \in Seq(Carried)  BY <2>2, HeadTailProperties
  <2>5. FramesOf(Tail(decoding)) \in Seq(Nat)  BY ONLY <2>3, <2>4, FramesOfQueue
  <2> QED  BY <2>1, <2>5
<1>5. outputs' = outputs \o <<f>>
  <2>1. outputs' = Append(outputs, f)  BY DEF Decode
  <2> HIDE DEF f
  <2> QED  BY <2>1, <1>2, <1>3, AppendIsConcat DEF PartsTyped
<1> HIDE DEF f, t
<1>6. PICK z \in Seq(Nat) : z = Reading \o (OnSocket \o InSend)  BY <1>2, SuffixesTyped
<1>7. PICK o \in Seq(Nat) : o = outputs  BY <1>2 DEF PartsTyped
<1>8. (o \o <<f>>) \o (t \o z) = o \o ((<<f>> \o t) \o z)
  BY ONLY o \in Seq(Nat), z \in Seq(Nat), <1>3, <1>4, Passed, SMTT(40)
<1>9. Reading' \o (OnSocket' \o InSend') = z  BY <1>1, <1>6
<1>10. Unacked' = Unacked
  BY ONLY <1>1, <1>3, <1>4, <1>5, <1>6, <1>7, <1>8, <1>9 DEF Unacked
<1> QED  BY <1>1, <1>10, FifoKept

LEMMA OutputFIFO ==
  ASSUME Bounds, TypeOK, FramesTyped, NetShape, OnOutputBufferAvailable, surface, Timed
  PROVE  Timed'
<1>1. UNCHANGED <<Coded, Reading, OnSocket, InSend, sentAt, open, drain>>
  <2>1. UNCHANGED <<decoding, app, held, net, open, sentAt, drain, inHand>>
    BY DEF OnOutputBufferAvailable, hostVars, drainVars, timeVars
  <2>2. Controls' = Controls  BY <2>1 DEF Controls
  <2> QED  BY <2>1, <2>2 DEF OnSocket, InSend, Reading, Coded
<1>2. PartsTyped  BY Parts
<1> DEFINE f == Head(outputs)
<1>3. outputs # <<>> /\ outputs' = Tail(outputs) /\ acked' = Append(acked, f)
  BY DEF OnOutputBufferAvailable
<1>4. f \in Nat /\ outputs' \in Seq(Nat)  BY <1>2, <1>3, HeadTailProperties DEF PartsTyped
<1>5. outputs = <<f>> \o outputs'  BY <1>2, <1>3, TakenHead DEF PartsTyped
<1> HIDE DEF f
<1>6. acked' = acked \o <<f>>  BY <1>2, <1>3, <1>4, AppendIsConcat DEF PartsTyped
<1>7. PICK z \in Seq(Nat) : z = Coded \o (Reading \o (OnSocket \o InSend))
  BY <1>2, SuffixesTyped
<1>8. PICK a \in Seq(Nat) : a = acked  BY <1>2 DEF PartsTyped
<1>9. PICK o \in Seq(Nat) : o = outputs'  BY <1>4
<1>10. (a \o <<f>>) \o (o \o z) = a \o ((<<f>> \o o) \o z)
  <2>1. f \in Nat  BY <1>4
  <2> QED  BY ONLY a \in Seq(Nat), o \in Seq(Nat), z \in Seq(Nat), <2>1, Passed, SMTT(40)
<1>11. Coded' \o (Reading' \o (OnSocket' \o InSend')) = z  BY <1>1, <1>7
<1>12. Unacked' = Unacked
  BY ONLY <1>5, <1>6, <1>7, <1>8, <1>9, <1>10, <1>11 DEF Unacked
<1> QED  BY <1>1, <1>12, FifoKept

(* The ack that is read is timed by the frame it is for.                   *)
LEMMA ReadAckFIFO ==
  ASSUME Bounds, TypeOK, FramesTyped, NetShape, ReadAck, Timed
  PROVE  Timed' /\ (matched.sent = matched.acked)'
<1>1. UNCHANGED <<outputs, Coded, Reading, OnSocket, InSend, open, drain>>
  <2>1. UNCHANGED <<outputs, decoding, app, held, net, open, drain, inHand>>
    BY DEF ReadAck, drainVars, appVars, codecVars
  <2>2. Controls' = Controls  BY <2>1 DEF Controls
  <2> QED  BY <2>1, <2>2 DEF OnSocket, InSend, Reading, Coded
<1>2. PartsTyped  BY Parts
<1> DEFINE f == Head(acked)
<1>3. acked # <<>> /\ acked' = Tail(acked)  BY DEF ReadAck
<1>4. f \in Nat /\ acked' \in Seq(Nat)  BY <1>2, <1>3, HeadTailProperties DEF PartsTyped
<1>5. acked = <<f>> \o acked'  BY <1>2, <1>3, TakenHead DEF PartsTyped
<1> HIDE DEF f
<1>6. PICK rest \in Seq(Nat) : TimedBeyond(rest)  BY DEF Timed
<1>7. PICK z \in Seq(Nat) : z = outputs \o (Coded \o (Reading \o (OnSocket \o InSend)))
  BY <1>2, SuffixesTyped
<1>8. PICK a \in Seq(Nat) : a = acked'  BY <1>4
<1>9. PICK s \in Seq(Nat) : s = <<f>>  BY ONLY <1>4, OneFrame
<1>10. Cat(s, Cat(a, z)) = Cat(Cat(s, a), z) /\ Cat(a, z) \in Seq(Nat)
  BY ONLY a \in Seq(Nat), s \in Seq(Nat), z \in Seq(Nat), CatRegroup
<1>11. PICK u \in Seq(Nat) : u = Cat(a, z)  BY <1>10
<1>12. Cat(s, Cat(u, rest)) = Cat(Cat(s, u), rest) /\ Cat(u, rest) \in Seq(Nat)
  BY ONLY u \in Seq(Nat), s \in Seq(Nat), rest \in Seq(Nat), CatRegroup
<1>13. PICK w \in Seq(Nat) : w = Cat(u, rest)  BY <1>12
<1>14. Unacked' = u
  <2>1. outputs' \o (Coded' \o (Reading' \o (OnSocket' \o InSend'))) = z  BY <1>1, <1>7
  <2> QED  BY ONLY <1>8, <1>11, <2>1 DEF Unacked, Cat
<1>15. sentAt = <<f>> \o w
  <2>1. Unacked = Cat(Cat(s, a), z)  BY ONLY <1>5, <1>7, <1>8, <1>9 DEF Unacked, Cat
  <2>2. sentAt = Cat(Unacked, rest)  BY ONLY <1>6 DEF TimedBeyond, Cat
  <2>3. sentAt = Cat(s, w)  BY ONLY <2>1, <2>2, <1>10, <1>11, <1>12, <1>13
  <2> QED  BY ONLY <2>3, <1>9 DEF Cat
<1>16. sentAt # <<>> /\ Head(sentAt) = f /\ Tail(sentAt) = w
  BY ONLY <1>15, <1>4, w \in Seq(Nat), HeadOfConcat
<1>17. sentAt' = w /\ matched' = [sent |-> f, acked |-> f]  BY <1>16 DEF ReadAck, f
<1>18. sentAt' = Unacked' \o rest  BY ONLY <1>13, <1>14, <1>17 DEF Cat
<1>19. open' /\ drain' # "dead" => rest = <<>>  BY ONLY <1>1, <1>6 DEF TimedBeyond
<1>20. Timed'  BY ONLY <1>18, <1>19, rest \in Seq(Nat) DEF Timed, TimedBeyond
<1> QED  BY <1>17, <1>20

(* The connection is closed: what was on its way is not acked any more.    *)
LEMMA CloseFIFO ==
  ASSUME Bounds, TypeOK, FramesTyped, NetShape, NEW next, Close(next), next # "input", Timed
  PROVE  Timed'
<1>1. /\ UNCHANGED <<acked, sentAt>> /\ outputs' = <<>> /\ decoding' = <<>> /\ net' = <<>>
      /\ open' = FALSE /\ app' # "input"
  BY DEF Close, OtherThanApp, hostVars, timeVars
<1>2. PartsTyped  BY Parts
<1>3. Coded' = <<>> /\ Reading' = <<>> /\ InSend' = <<>> /\ OnSocket' = <<>>
  <2>1. Controls' = 0  BY <1>1 DEF Controls
  <2>2. OnSocket' = [i \in 1 .. 0 - 0 |-> net'[0 + i].frame]
    <3>1. Len(net') = 0  BY <1>1
    <3> QED  BY ONLY <2>1, <3>1 DEF OnSocket
  <2>3. Coded' = [i \in 1 .. 0 |-> decoding'[i].frame]
    <3>1. Len(decoding') = 0  BY <1>1
    <3> QED  BY ONLY <3>1 DEF Coded, FramesOf
  <2> QED  BY <1>1, <2>2, <2>3 DEF Reading, InSend
<1>4. Unacked' = acked
  <2>1. Unacked' = acked \o (<<>> \o (<<>> \o (<<>> \o (<<>> \o <<>>))))
    BY ONLY <1>1, <1>3 DEF Unacked
  <2> QED  BY <2>1, <1>2, ConcatEmptySeq DEF PartsTyped
<1>5. PICK rest \in Seq(Nat) : TimedBeyond(rest)  BY DEF Timed
<1>6. PICK z \in Seq(Nat) : z = outputs \o (Coded \o (Reading \o (OnSocket \o InSend)))
  BY <1>2, SuffixesTyped
<1>7. PICK a \in Seq(Nat) : a = acked  BY <1>2 DEF PartsTyped
<1>8. Cat(a, Cat(z, rest)) = Cat(Cat(a, z), rest) /\ Cat(z, rest) \in Seq(Nat)
  <2>1. Cat(z, rest) \in Seq(Nat)
    BY ONLY z \in Seq(Nat), rest \in Seq(Nat), ConcatProperties DEF Cat
  <2> QED
    BY ONLY <2>1, a \in Seq(Nat), z \in Seq(Nat), rest \in Seq(Nat), CatRegroup
<1>9. sentAt' = Unacked' \o Cat(z, rest)
  <2>1. sentAt = Cat(Cat(a, z), rest)
    BY ONLY <1>5, <1>6, <1>7 DEF TimedBeyond, Unacked, Cat
  <2> QED  BY ONLY <2>1, <1>1, <1>4, <1>7, <1>8 DEF Cat
<1> QED  BY ONLY <1>1, <1>8, <1>9 DEF Timed, TimedBeyond

(* The drain thread ends: the frame it was sending is not acked either.    *)
LEMMA EndsFIFO ==
  ASSUME Bounds, TypeOK, FramesTyped, NetShape, DrainEnds \/ HostEnds, Timed
  PROVE  Timed'
<1>1. /\ drain' = "dead"
      /\ UNCHANGED <<acked, outputs, Coded, Reading, OnSocket, sentAt>>
  <2>1. drain' = "dead" /\ UNCHANGED <<acked, outputs, decoding, app, held, net, open, sentAt>>
    <3> USE DEF wireVars, timeVars, appVars, codecVars
    <3>1. CASE DrainEnds  BY <3>1 DEF DrainEnds
    <3>2. CASE HostEnds  BY <3>2 DEF HostEnds
    <3> QED  BY <3>1, <3>2
  <2>2. Controls' = Controls  BY <2>1 DEF Controls
  <2> QED  BY <2>1, <2>2 DEF OnSocket, Reading, Coded
<1>2. PartsTyped  BY Parts
<1>3. InSend' = <<>>  BY <1>1 DEF InSend
<1>4. PICK rest \in Seq(Nat) : TimedBeyond(rest)  BY DEF Timed
<1>5. Unacked' = acked \o (outputs \o (Coded \o (Reading \o OnSocket)))
  <2>1. OnSocket \o <<>> = OnSocket  BY <1>2, ConcatEmptySeq DEF PartsTyped
  <2> QED  BY ONLY <1>1, <1>3, <2>1 DEF Unacked
<1>6. PICK u \in Seq(Nat) : u = Unacked' /\ Unacked = Cat(u, InSend)
  <2>1. Cat(acked, Cat(outputs, Cat(Coded, Cat(Reading, Cat(OnSocket, InSend)))))
            = Cat(Cat(acked, Cat(outputs, Cat(Coded, Cat(Reading, OnSocket)))), InSend)
          /\ Cat(acked, Cat(outputs, Cat(Coded, Cat(Reading, OnSocket)))) \in Seq(Nat)
    <3>1. /\ acked \in Seq(Nat) /\ outputs \in Seq(Nat) /\ Coded \in Seq(Nat)
          /\ Reading \in Seq(Nat) /\ OnSocket \in Seq(Nat) /\ InSend \in Seq(Nat)
      BY <1>2 DEF PartsTyped
    <3> QED  BY ONLY <3>1, CatDeep
  <2>2. Unacked' = Cat(acked, Cat(outputs, Cat(Coded, Cat(Reading, OnSocket))))
    BY ONLY <1>5 DEF Cat
  <2>3. Unacked = Cat(acked, Cat(outputs, Cat(Coded, Cat(Reading, Cat(OnSocket, InSend)))))
    BY ONLY TRUE DEF Cat, Unacked
  <2> QED  BY ONLY <2>1, <2>2, <2>3
<1>7. PICK i \in Seq(Nat) : i = InSend  BY <1>2 DEF PartsTyped
<1>8. Cat(u, Cat(i, rest)) = Cat(Cat(u, i), rest) /\ Cat(i, rest) \in Seq(Nat)
  <2>1. Cat(i, rest) \in Seq(Nat)
    BY ONLY i \in Seq(Nat), rest \in Seq(Nat), ConcatProperties DEF Cat
  <2> QED
    BY ONLY <2>1, u \in Seq(Nat), i \in Seq(Nat), rest \in Seq(Nat), CatRegroup
<1>9. sentAt' = Unacked' \o Cat(i, rest)
  <2>1. sentAt = Cat(Cat(u, i), rest)  BY ONLY <1>4, <1>6, <1>7 DEF TimedBeyond, Cat
  <2> QED  BY ONLY <2>1, <1>1, <1>6, <1>8 DEF Cat
<1> QED  BY ONLY <1>1, <1>8, <1>9 DEF Timed, TimedBeyond

(* A new session times nothing yet.                                        *)
LEMMA ConnectFIFO ==
  ASSUME TypeOK, FramesTyped, Phases, Connect
  PROVE  Timed' /\ (matched.sent = matched.acked)'
<1>1. /\ acked' = <<>> /\ sentAt' = <<>> /\ matched' = NoMatch /\ open' = TRUE
      /\ net' = <<Header, Control>> /\ drain' = "pull" /\ app' = "accept"
      /\ outputs' = <<>> /\ decoding' = <<>>
  BY DEF Connect, TimesAtConnect, Phases, appVars, codecVars
<1>2. Coded' = <<>> /\ Reading' = <<>> /\ InSend' = <<>> /\ OnSocket' = <<>>
  <2>1. Controls' = 2  BY <1>1 DEF Controls
  <2>2. OnSocket' = [i \in 1 .. 2 - 2 |-> net'[2 + i].frame]
    <3>1. Len(net') = 2  BY <1>1
    <3> QED  BY ONLY <2>1, <3>1 DEF OnSocket
  <2>3. Coded' = [i \in 1 .. 0 |-> decoding'[i].frame]
    <3>1. Len(decoding') = 0  BY <1>1
    <3> QED  BY ONLY <3>1 DEF Coded, FramesOf
  <2> QED  BY <1>1, <2>2, <2>3 DEF Reading, InSend
<1>3. Unacked' = <<>>
  <2>1. Unacked' = <<>> \o (<<>> \o (<<>> \o (<<>> \o (<<>> \o <<>>))))
    BY ONLY <1>1, <1>2 DEF Unacked
  <2> QED  BY <2>1, ConcatEmptySeq
<1>4. sentAt' = Unacked' \o <<>> /\ <<>> \in Seq(Nat)
  <2>1. <<>> \in Seq(Nat) /\ <<>> \o <<>> = <<>>  BY ConcatEmptySeq
  <2> QED  BY ONLY <1>1, <1>3, <2>1
<1>5. Timed'  BY ONLY <1>4 DEF Timed, TimedBeyond
<1> QED  BY <1>1, <1>5 DEF NoMatch

(* The other steps leave the order of the frames alone.                    *)
LEMMA OrderKept ==
  ASSUME TypeOK, FramesTyped, Phases,
         PushFrame \/ Encode \/ Pull \/ Listen \/ Accept \/ StartCodec \/ Start
           \/ OnInputBufferAvailable \/ SetSurface
  PROVE  /\ UNCHANGED <<Unacked, sentAt, matched>>
         /\ open' /\ drain' # "dead" => open /\ drain # "dead"
         /\ Watched' => Watched
<1>1. /\ UNCHANGED <<acked, outputs, decoding, net, sentAt, matched, open, Controls, Reading,
                   InSend>>
      /\ drain' # "dead" => drain # "dead"
      /\ Watched' => Watched
  <2> USE DEF TypeOK, FramesTyped, Phases, OtherThanApp, After, KeptInputs, Watched, Controls,
              Reading, InSend,
              encoderVars, drainVars, timeVars, codecVars, appVars, hostVars, wireVars
  <2>1. CASE PushFrame  BY <2>1 DEF PushFrame
  <2>2. CASE Encode  BY <2>2 DEF Encode
  <2>3. CASE Pull  BY <2>3 DEF Pull
  <2>4. CASE Listen  BY <2>4 DEF Listen
  <2>5. CASE Accept  BY <2>5 DEF Accept
  <2>6. CASE StartCodec  BY <2>6 DEF StartCodec
  <2>7. CASE Start  BY <2>7 DEF Start
  <2>8. CASE OnInputBufferAvailable  BY <2>8 DEF OnInputBufferAvailable
  <2>9. CASE SetSurface  BY <2>9 DEF SetSurface
  <2> QED  BY <2>1, <2>2, <2>3, <2>4, <2>5, <2>6, <2>7, <2>8, <2>9
<1>2. Coded' = Coded /\ OnSocket' = OnSocket  BY ONLY <1>1 DEF Coded, FramesOf, OnSocket
<1> QED  BY ONLY <1>1, <1>2 DEF Unacked

LEMMA FifoStep ==
  ASSUME Bounds, TypeOK, TypeOK', FramesTyped, FramesTyped', Phases, NetShape, FIFO, Next
  PROVE  FIFO'
<1>1. Watched => Timed /\ matched.sent = matched.acked  BY DEF FIFO
<1> SUFFICES ASSUME Watched'  PROVE Timed' /\ (matched.sent = matched.acked)'
  BY DEF FIFO
<1>2. CASE PushFrame \/ Encode \/ Pull \/ Listen \/ Accept \/ StartCodec \/ Start
             \/ OnInputBufferAvailable \/ SetSurface
  BY <1>1, <1>2, OrderKept, FifoKept
<1>3. CASE Connect  BY <1>3, ConnectFIFO
<1>4. CASE Stamp
  <2>1. Watched' = Watched /\ matched' = matched /\ inHand \in Nat
    BY <1>4 DEF Stamp, Watched, wireVars, appVars, TypeOK, FramesTyped
  <2> QED  BY <2>1, <1>1, <1>4, Parts, StampFIFO
<1>5. CASE Send
  <2>1. Watched' = Watched /\ matched' = matched  BY <1>5 DEF Send, Watched, timeVars, appVars
  <2> QED  BY <2>1, <1>1, <1>5, SendFIFO
<1>6. CASE DrainEnds \/ HostEnds
  <2>1. Watched' = Watched /\ matched' = matched
    BY <1>6 DEF DrainEnds, HostEnds, Watched, timeVars, wireVars, appVars
  <2> QED  BY <2>1, <1>1, <1>6, EndsFIFO
<1>7. CASE ReadAck
  <2>1. Watched' = Watched  BY <1>7 DEF ReadAck, Watched, appVars
  <2> QED  BY <2>1, <1>1, <1>7, ReadAckFIFO
<1>8. CASE ReadHeader \/ ReadControl \/ ReadFrame
  <2>1. UNCHANGED <<lost, matched>> /\ app' # "accept"
    <3> USE DEF OtherThanApp, hostVars, timeVars
    <3>1. CASE ReadHeader  BY <3>1 DEF ReadHeader
    <3>2. CASE ReadControl  BY <3>2 DEF ReadControl
    <3>3. CASE ReadFrame  BY <3>3 DEF ReadFrame
    <3> QED  BY <1>8, <3>1, <3>2, <3>3
  <2>2. Watched  BY <2>1 DEF Watched
  <2> QED  BY <2>1, <2>2, <1>1, <1>8, ReadFIFO
<1>9. CASE QueueInput
  <2>1. UNCHANGED <<lost, matched>> /\ app' # "accept"
    BY <1>9 DEF QueueInput, OtherThanApp, hostVars, timeVars
  <2>2. Watched  BY <2>1 DEF Watched
  <2> QED  BY <2>1, <2>2, <1>1, <1>9, QueueInputFIFO
<1>10. CASE Starved  BY <1>10 DEF Starved, Watched
<1>11. CASE EndOfStream \/ NoSurface \/ SessionFails \/ Stop
  <2>1. PICK next \in {"accept", "stopped"} : Close(next)
    BY <1>11 DEF EndOfStream, NoSurface, SessionFails, Stop
  <2>2. UNCHANGED <<lost, matched>> /\ open' = FALSE
    BY <2>1 DEF Close, OtherThanApp, hostVars, timeVars
  <2>3. Watched  BY <2>2 DEF Watched
  <2> QED  BY <2>1, <2>2, <2>3, <1>1, CloseFIFO
<1>12. CASE Decode
  <2>1. Watched' = Watched /\ matched' = matched
    BY <1>12 DEF Decode, Watched, hostVars, timeVars, wireVars
  <2> QED  BY <2>1, <1>1, <1>12, DecodeFIFO
<1>13. CASE OnOutputBufferAvailable
  <2>1. UNCHANGED <<matched, open, app>> /\ lost' = (lost \/ ~surface) /\ outputs # <<>>
    BY <1>13 DEF OnOutputBufferAvailable, hostVars, timeVars
  <2>2. app \in {"read", "input"}  BY <2>1 DEF Phases
  <2>3. surface /\ ~lost  BY <2>1, <2>2 DEF Watched
  <2>4. Watched  BY <2>3 DEF Watched
  <2> QED  BY <2>1, <2>3, <2>4, <1>1, <1>13, OutputFIFO
<1> QED
  BY <1>2, <1>3, <1>4, <1>5, <1>6, <1>7, <1>8, <1>9, <1>10, <1>11, <1>12, <1>13
     DEF Next, SessionThread

----------------------------------------------------------------------------
(* The strengthening holds of every state.                                 *)
LEMMA InitIInv ==
  ASSUME Bounds, Init
  PROVE  IInv
<1> USE DEF Init, Bounds, NoFrame, NoMatch
<1>1. TypeOK  BY RangeOfSeq DEF TypeOK, Range
<1>2. FramesTyped
  <2>1. made = 0 /\ 0 \in 0 .. made  OBVIOUS
  <2>2. \A S : <<>> \in Seq(S)  OBVIOUS
  <2>3. matched \in [sent : 0 .. made, acked : 0 .. made]  BY <2>1
  <2> QED  BY <2>1, <2>2, <2>3 DEF FramesTyped
<1>3. Phases /\ CreatedBound /\ InputsApart  BY DEF Phases, CreatedBound, InputsApart
<1>4. NetShape  BY DEF NetShape, Controls
<1>5. FIFO
  <2>1. Coded = [i \in 1 .. 0 |-> decoding[i].frame]  BY DEF Coded, FramesOf
  <2>2. OnSocket = [i \in 1 .. 0 - 0 |-> net[0 + i].frame]
    <3>1. Controls = 0 /\ Len(net) = 0  BY DEF Controls
    <3> QED  BY ONLY <3>1 DEF OnSocket
  <2>3. Coded = <<>> /\ Reading = <<>> /\ InSend = <<>> /\ OnSocket = <<>>
    BY <2>1, <2>2 DEF Reading, InSend
  <2>4. Unacked = <<>> \o (<<>> \o (<<>> \o (<<>> \o (<<>> \o <<>>))))
    BY <2>3 DEF Unacked
  <2>5. sentAt = Unacked \o <<>> /\ <<>> \in Seq(Nat)
    <3>1. <<>> \in Seq(Nat) /\ <<>> \o <<>> = <<>>  BY ConcatEmptySeq
    <3>2. sentAt = <<>>  OBVIOUS
    <3> QED  BY ONLY <2>4, <3>1, <3>2
  <2>6. Timed  BY ONLY <2>5 DEF Timed, TimedBeyond
  <2> QED  BY <2>6 DEF FIFO
<1> QED  BY <1>1, <1>2, <1>3, <1>4, <1>5 DEF IInv

LEMMA StepIInv ==
  ASSUME Bounds, IInv, Next
  PROVE  IInv'
<1>1. /\ TypeOK /\ FramesTyped /\ Phases /\ CreatedBound /\ NetShape /\ FIFO /\ InputsApart
  BY DEF IInv
<1>2. FramesTyped'  BY <1>1, FramesStep
<1>3. TypeOK'  BY <1>1, TypeStep
<1>4. Phases'  BY <1>1, PhasesStep
<1>5. CreatedBound'  BY <1>1, CreatedStep
<1>6. NetShape'  BY <1>1, NetStep
<1>7. FIFO'  BY <1>1, <1>2, <1>3, FifoStep
<1>8. InputsApart'  BY <1>1, InputsStep
<1> QED  BY <1>2, <1>3, <1>4, <1>5, <1>6, <1>7, <1>8 DEF IInv

LEMMA StutterIInv ==
  ASSUME IInv, UNCHANGED vars
  PROVE  IInv'
<1> USE DEF IInv, vars, hostVars, encoderVars, drainVars, timeVars, wireVars, appVars, codecVars
<1>1. TypeOK' /\ FramesTyped'  BY DEF TypeOK, FramesTyped, Made, Message
<1>2. Phases' /\ CreatedBound'  BY DEF Phases, CreatedBound
<1>3. Controls' = Controls  BY DEF Controls
<1>4. NetShape'  BY <1>3 DEF NetShape
<1>5. Unacked' = Unacked  BY <1>3 DEF Unacked, Coded, FramesOf, Reading, OnSocket, InSend
<1>6. FIFO'  BY <1>5 DEF FIFO, Watched, Timed, TimedBeyond
<1>7. InputsApart'  BY DEF InputsApart
<1> QED  BY <1>1, <1>2, <1>4, <1>6, <1>7

(* IInv is an inductive invariant of the specification.                    *)
THEOREM Inductive ==
  ASSUME Bounds
  PROVE  Spec => []IInv
<1>1. Init => IInv  BY InitIInv
<1>2. IInv /\ [Next]_vars => IInv'  BY StepIInv, StutterIInv
<1> QED  BY <1>1, <1>2, PTL DEF Spec

(* A set with at most one element, counted.                                *)
LEMMA AtMostOne ==
  ASSUME NEW T, \A k, l \in T : k = l
  PROVE  Cardinality(T) = IF T = {} THEN 0 ELSE 1
<1>1. CASE T = {}  BY <1>1, FS_EmptySet
<1>2. CASE T # {}
  <2>1. PICK k \in T : TRUE  BY <1>2
  <2>2. T = {k}  BY <2>1
  <2> QED  BY <1>2, <2>2, FS_Singleton
<1> QED  BY <1>1, <1>2

LEMMA Conserved ==
  ASSUME FramesTyped, TypeOK, InputsApart
  PROVE  InputsConserved
<1> SUFFICES ASSUME codec # 0
             PROVE  /\ \A k \in DOMAIN freeInputs : freeInputs[k][1] = codec
                    /\ \A i \in Inputs :
                         Cardinality({k \in DOMAIN freeInputs : freeInputs[k][2] = i})
                           + Cardinality({k \in DOMAIN decoding : decoding[k].input = i})
                           + (IF i \in idle THEN 1 ELSE 0) = 1
  BY DEF InputsConserved
<1>1. /\ \A k \in DOMAIN freeInputs : freeInputs[k][1] = codec /\ freeInputs[k][2] \notin idle
      /\ \A k, l \in DOMAIN freeInputs : freeInputs[k][2] = freeInputs[l][2] => k = l
      /\ \A k \in DOMAIN decoding : decoding[k].input \notin idle
      /\ \A k, l \in DOMAIN decoding : decoding[k].input = decoding[l].input => k = l
      /\ \A k \in DOMAIN freeInputs, l \in DOMAIN decoding : freeInputs[k][2] # decoding[l].input
      /\ \A i \in Inputs \ idle :
           \/ \E k \in DOMAIN freeInputs : freeInputs[k][2] = i
           \/ \E k \in DOMAIN decoding : decoding[k].input = i
  BY DEF InputsApart
<1>2. ASSUME NEW i \in Inputs
      PROVE  Cardinality({k \in DOMAIN freeInputs : freeInputs[k][2] = i})
               + Cardinality({k \in DOMAIN decoding : decoding[k].input = i})
               + (IF i \in idle THEN 1 ELSE 0) = 1
  <2> DEFINE F == {k \in DOMAIN freeInputs : freeInputs[k][2] = i}
             D == {k \in DOMAIN decoding : decoding[k].input = i}
  <2>1. /\ \A k, l \in F : k = l
        /\ \A k, l \in D : k = l
        /\ F = {} \/ D = {}
        /\ i \in idle => F = {} /\ D = {}
        /\ i \notin idle => F # {} \/ D # {}
    BY ONLY <1>1, i \in Inputs
  <2> HIDE DEF F, D
  <2>2. Cardinality(F) = (IF F = {} THEN 0 ELSE 1) /\ Cardinality(D) = (IF D = {} THEN 0 ELSE 1)
    BY ONLY <2>1, AtMostOne
  <2>3. Cardinality(F) + Cardinality(D) + (IF i \in idle THEN 1 ELSE 0) = 1
    BY ONLY <2>1, <2>2
  <2> QED  BY ONLY <2>3 DEF F, D
<1> QED  BY <1>1, <1>2

(* Every state is type correct.                                            *)
THEOREM TypeCorrect ==
  ASSUME Bounds
  PROVE  Spec => []TypeOK
<1>1. IInv => TypeOK  BY DEF IInv
<1> QED  BY <1>1, Inductive, PTL

(* A round trip is the time of the frame that was acked, as long as the    *)
(* app has acked every frame it took: the times of session.rs are matched  *)
(* with the acks by their order alone.                                     *)
THEOREM AcksAreMatched ==
  ASSUME Bounds
  PROVE  Spec => []AcksMatch
<1>1. IInv => AcksMatch  BY DEF IInv, FIFO, Watched, AcksMatch
<1> QED  BY <1>1, Inductive, PTL

(* No input of the decoder leaks and none is used twice, whatever the      *)
(* order of its callbacks and of the session's end.                        *)
THEOREM InputsAreConserved ==
  ASSUME Bounds
  PROVE  Spec => []InputsConserved
<1>1. IInv => InputsConserved  BY Conserved DEF IInv
<1> QED  BY <1>1, Inductive, PTL
============================================================================
