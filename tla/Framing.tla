-------------------------------- MODULE Framing ------------------------------
(***************************************************************************)
(* One byte stream with its two ends, which cut it into messages: frames   *)
(* from the host to the app ("down"), acks and touches back ("up"), device *)
(* lists from adb to the tracker ("track").  What is written arrives in    *)
(* pieces of any size, and the connection may break after any byte.        *)
(*                                                                         *)
(* The readers differ in what a timeout does to a message that has not     *)
(* come in full: the app has none, the ack thread keeps what it has read,  *)
(* and the tracker's read_exact throws it away.                            *)
(*                                                                         *)
(* A script of messages is chosen at the start.  It may hold messages of a *)
(* peer of another build: another version, unknown types, a frame too big. *)
(***************************************************************************)
EXTENDS Wire, FiniteSets

CONSTANTS
  Scripts,    \* the scripts of each stream, a function of its name
  Configs,    \* sessions: what `wm size` says, the options, the mode of the source
  MaxWidth    \* --max-width

(* What the far ends write: the host's frames, among them controls this    *)
(* app does not know but none it would turn its screen for, which run()    *)
(* sends once; the app's replies; adb's lists, of a length of four digits. *)
Stamps  == [1 .. 8 -> Byte]
Headers == [kind : {"stream"}, version : Word, codec : Byte]
Videos  == {m \in [kind : {"video"}, payload : Seq(Byte), pts : Stamps, keyframe : BOOLEAN] :
              Len(m.payload) \div 16777216 < 256}
Controls == {m \in [kind : {"control"}, control : [id : Byte, value : Byte]] :
              /\ m.control.id = 1 => m.control.value <= 100
              /\ m.control.id = 2 => m.control.value > 3}
Acks    == [kind : {"ack"}, pts : Stamps]
Touches == [kind : {"touch"}, action : Byte, x : Int, y : Int]
Others  == [kind : {"other"}, type : Byte \ {1, 2}]
Visible == Byte \ {Tab, Newline}
Attached == [serial : Seq(Visible) \ {<<>>}, state : Visible]
Listings == {m \in [kind : {"list"}, devices : Seq(Attached)] : Len(Listing(m.devices)) < 65536}

ASSUME ScriptAssumption ==
  /\ \A s \in Scripts["down"] : s # <<>> /\ Head(s) \in Headers /\ Tail(s) \in Seq(Videos \cup Controls)
  /\ \A s \in Scripts["up"] : s \in Seq(Acks \cup Touches \cup Others)
  /\ \A s \in Scripts["track"] : s \in Seq(Listings)

(* The axes of the stream fit the sixteen bits of its header, whether they *)
(* are the panel's scaled, given on the command line, or a capture source's*)
(* that has not taken the mode asked for: labwc's output keeps its own,    *)
(* KWin's stream has the format it negotiates, a rule can be refused.      *)
Reports == {Unreported} \cup (Nat \X Nat)
AsAsked == <<>>

ASSUME ConfigAssumption ==
  /\ MaxWidth \in Nat
  /\ \A c \in Configs :
       /\ c.report.physical \in Reports /\ c.report.override \in Reports
       /\ DisplaySize(c.report) # Unreported => Least(DisplaySize(c.report)[1], MaxWidth) < 65536
       /\ c.given \in {NotGiven} \cup (Word \X Word)
       /\ c.own \in {AsAsked} \cup (Word \X Word)
       /\ c.rotation \in {0, 90, 180, 270}
       /\ c.brightness \in Nat \cup {-1}

VARIABLES
  side,     \* the stream: "down", "up" or "track"
  config,   \* the session's configuration
  script,   \* all messages to be written
  todo,     \* those not begun
  slices,   \* what is left of the one being written: two byte strings
  wire,     \* bytes written and not read
  open,     \* the connection stands
  reader,   \* what the reader reads next: "stream", "header", "payload", or "ended"
  frame,    \* the header a payload is read for
  buf,      \* bytes of an unfinished message in the reader's hands
  taken,    \* what the reader has made of the messages
  torn      \* a timeout has fallen into one of the tracker's messages

Unset    == -1
NoConfig == [rotation |-> Unset]

written == <<todo, slices, wire, open>>
read    == <<reader, frame, buf, taken, torn>>
vars == <<side, config, script, written, read>>

----------------------------------------------------------------------------
(* Writing.                                                                *)
(* The host learns the panel's size before it makes a header; Sender hands *)
(* header and payload to one vectored write.                               *)
SlicesOf(m) ==
  CASE m.kind = "stream"  -> <<EncodeStreamHeader(m), <<>>>>
    [] m.kind = "video"   -> <<EncodeFrameHeader(Len(m.payload), m.pts, m.keyframe, FALSE), m.payload>>
    [] m.kind = "control" -> <<EncodeFrameHeader(2, Zeros(8), FALSE, TRUE), EncodeControl(m.control)>>
    [] m.kind = "ack"     -> <<EncodeAck(m.pts), <<>>>>
    [] m.kind = "touch"   -> <<EncodeTouch(m.action, m.x, m.y), <<>>>>
    [] m.kind = "other"   -> <<<<m.type>> \o Zeros(ReverseLen - 1), <<>>>>
    [] m.kind = "list"    -> <<EncodeList(m.devices), <<>>>>

Written  == <<<<>>, <<>>>>
Bytes(s) == s[1] \o s[2]

AdvanceSlicesRestarting(s, n) ==   \* mutant: a slice that was cut is written again from its start
  IF n < Len(s[1]) THEN s ELSE IF n < Len(Bytes(s)) THEN <<<<>>, s[2]>> ELSE Written

AdvanceSlices(s, n) ==
  <<SubSeq(s[1], n + 1, Len(s[1])), SubSeq(s[2], Greatest(n - Len(s[1]), 0) + 1, Len(s[2]))>>

Begin ==
  /\ open
  /\ slices = Written /\ todo # <<>>
  /\ slices' = SlicesOf(Head(todo))
  /\ todo' = Tail(todo)
  /\ UNCHANGED <<side, config, script, wire, open, read>>

(* write_vectored takes any number of bytes, of both slices together.      *)
Write ==
  /\ open
  /\ \E n \in 1 .. Len(Bytes(slices)) :
       /\ wire' = wire \o SubSeq(Bytes(slices), 1, n)
       /\ slices' = AdvanceSlices(slices, n)
  /\ UNCHANGED <<side, config, script, todo, open, read>>

(* A write fails, the peer closes, or the cable goes.                      *)
Break ==
  /\ open
  /\ open' = FALSE
  /\ UNCHANGED <<side, config, script, todo, slices, wire, read>>

----------------------------------------------------------------------------
(* The app: DataInputStream blocks until it has all it is asked for.       *)
Consume(n) == wire' = SubSeq(wire, n + 1, Len(wire))

Took(m) == taken' = IF m = Dropped THEN taken ELSE Append(taken, m)

AppReadsStream ==
  /\ side = "down" /\ reader = "stream" /\ Len(wire) >= 16
  /\ Consume(16)
  /\ LET h == ReadStreamHeader(SubSeq(wire, 1, 16))
     IN  IF h = Refused THEN reader' = "ended" /\ UNCHANGED taken
         ELSE reader' = "header" /\ Took(h)
  /\ UNCHANGED <<side, config, script, todo, slices, open, frame, buf, torn>>

AppReadsHeader ==
  /\ side = "down" /\ reader = "header" /\ Len(wire) >= 16
  /\ Consume(16)
  /\ frame' = ReadFrameHeader(SubSeq(wire, 1, 16))
  /\ reader' = IF frame' = Refused THEN "ended" ELSE "payload"
  /\ UNCHANGED <<side, config, script, todo, slices, open, buf, taken, torn>>

AppReadsPayload ==
  /\ side = "down" /\ reader = "payload" /\ Len(wire) >= frame.length
  /\ Consume(frame.length)
  /\ Took(Handle(frame, SubSeq(wire, 1, frame.length)))
  /\ reader' = "header"
  /\ frame' = Refused
  /\ UNCHANGED <<side, config, script, todo, slices, open, buf, torn>>

----------------------------------------------------------------------------
(* The host's ack thread: read() returns what has come, up to the end of   *)
(* the message, and a timeout of 500 ms leaves the buffer alone.           *)
AckThreadReads ==
  /\ side = "up" /\ reader # "ended" /\ wire # <<>>
  /\ LET n == Least(Len(wire), ReverseLen - Len(buf))
         got == buf \o SubSeq(wire, 1, n)
     IN  /\ Consume(n)
         /\ IF Len(got) < ReverseLen THEN buf' = got /\ UNCHANGED taken
            ELSE buf' = <<>> /\ Took(DecodeReverse(got))
  /\ UNCHANGED <<side, config, script, todo, slices, open, reader, frame, torn>>

AckThreadKeepsNothing == <<>>   \* mutant: every read starts a new message

AckThreadKeeps == buf

AckThreadTimesOut ==
  /\ side = "up" /\ reader # "ended" /\ wire = <<>> /\ open
  /\ buf' = AckThreadKeeps
  /\ UNCHANGED <<side, config, script, written, reader, frame, taken, torn>>

----------------------------------------------------------------------------
(* The tracker: read_exact of the length, then of the payload, both under  *)
(* the read timeout.  A length that is not hex is an error, for which the  *)
(* supervisor makes a new connection.                                      *)
TrackerReadsLength ==
  /\ side = "track" /\ reader = "header" /\ Len(wire) >= 4
  /\ Consume(4)
  /\ IF IsHex(SubSeq(wire, 1, 4))
     THEN reader' = "payload" /\ frame' = [kind |-> "list", length |-> HexValue(SubSeq(wire, 1, 4))]
     ELSE reader' = "ended" /\ UNCHANGED frame
  /\ UNCHANGED <<side, config, script, todo, slices, open, buf, taken, torn>>

TrackerReadsPayload ==
  /\ side = "track" /\ reader = "payload" /\ Len(wire) >= frame.length
  /\ Consume(frame.length)
  /\ Took([kind |-> "list", devices |-> ParseDevices(SubSeq(wire, 1, frame.length))])
  /\ reader' = "header"
  /\ frame' = Refused
  /\ UNCHANGED <<side, config, script, todo, slices, open, buf, torn>>

(* What had come of the message is gone, its length too.                   *)
TrackerTimesOut ==
  /\ side = "track" /\ open
  /\ \/ reader = "header" /\ Len(wire) < 4
     \/ reader = "payload" /\ Len(wire) < frame.length
  /\ torn' = (torn \/ wire # <<>> \/ reader = "payload")
  /\ wire' = <<>>
  /\ reader' = "header"
  /\ frame' = Refused
  /\ UNCHANGED <<side, config, script, todo, slices, open, buf, taken>>

(* Nothing more will come, and what there is does not make a message.      *)
Short ==
  CASE side = "up" -> wire = <<>>
    [] reader = "payload" -> Len(wire) < frame.length
    [] side = "track" -> Len(wire) < 4
    [] OTHER -> Len(wire) < 16

ReaderSeesEnd ==
  /\ ~open /\ reader # "ended" /\ Short
  /\ reader' = "ended"
  /\ UNCHANGED <<side, config, script, written, frame, buf, taken, torn>>

----------------------------------------------------------------------------
(* What run() sends before any frame: a header with the width and height   *)
(* of the capture source, for which it has also made the encoder, then the *)
(* controls of the configuration.  Without --width and --height there is   *)
(* no session unless `wm size` tells the panel's.                          *)
Sized(c) == c.given # NotGiven \/ DisplaySize(c.report) # Unreported

Asked(c) == StreamSize(c.given, DisplaySize(c.report), MaxWidth, c.rotation)

Geometry(c) == IF c.own = AsAsked THEN Asked(c) ELSE c.own

Preamble(c, h) ==
  <<[HeaderOf(Geometry(c), 60) EXCEPT !.version = h.version, !.codec = h.codec]>>
    \o (IF c.brightness = Unset THEN <<>>
        ELSE <<[kind |-> "control", control |-> Brightness(c.brightness)]>>)
    \o <<[kind |-> "control", control |-> Rotation(c.rotation)]>>

Init ==
  /\ side \in {"down", "up", "track"}
  /\ config \in IF side = "down" THEN {c \in Configs : Sized(c)} ELSE {NoConfig}
  /\ \E s \in Scripts[side] :
       script = IF side # "down" THEN s ELSE Preamble(config, s[1]) \o Tail(s)
  /\ todo = script /\ slices = Written /\ wire = <<>> /\ open = TRUE
  /\ reader = IF side = "down" THEN "stream" ELSE "header"
  /\ frame = Refused /\ buf = <<>> /\ taken = <<>> /\ torn = FALSE

Next ==
  \/ Begin \/ Write \/ Break
  \/ AppReadsStream \/ AppReadsHeader \/ AppReadsPayload
  \/ AckThreadReads \/ AckThreadTimesOut
  \/ TrackerReadsLength \/ TrackerReadsPayload \/ TrackerTimesOut
  \/ ReaderSeesEnd

Spec == Init /\ [][Next]_vars

----------------------------------------------------------------------------
(* What a reader is to make of a message, said without its bytes: a        *)
(* message that ends the connection, one that is left out, and any other.  *)
Ends(m) ==
  \/ m.kind = "stream" /\ (m.version # Version \/ m.codec > 1)
  \/ m.kind = "video" /\ Len(m.payload) > MaxFrameBytes

Unknown(m) ==
  \/ m.kind = "control" /\ (m.control.id \notin {1, 2} \/ (m.control.id = 2 /\ m.control.value > 3))
  \/ m.kind = "touch" /\ m.action > 3
  \/ m.kind = "other"

(* The contact is where the finger is, but for the rounding to the nearest *)
(* fixed-point fraction and then down to a unit of the axis: at the most a *)
(* quarter of a unit beyond it and a unit and a quarter short of it.       *)
LandsAt(axis, pos) ==
  LET there == Clamp(pos, 0, SurfaceUnits) * AbsRange
  IN  /\ 4 * axis * SurfaceUnits <= 4 * there + SurfaceUnits
      /\ 4 * there < (4 * axis + 5) * SurfaceUnits

ControlMeans(c, got) ==
  IF c.id = 1 THEN got = [kind |-> "brightness", percent |-> c.value]
  ELSE got = [kind |-> "rotation", to |-> Orientations[c.value + 1]]

Means(m, got) ==
  CASE m.kind = "control" -> ControlMeans(m.control, got)
    [] m.kind = "touch" -> /\ got.kind = "touch" /\ got.action = Actions[m.action + 1]
                           /\ LandsAt(got.x, m.x) /\ LandsAt(got.y, m.y)
    [] m.kind = "stream" -> /\ got.kind = "stream" /\ got.mime = Codecs[m.codec + 1]
                            /\ <<got.width, got.height, got.framerate>> = <<m.width, m.height, m.framerate>>
    [] OTHER -> got = m

(* The places in the script of what the reader is to hear, and how many    *)
(* of them there are up to one.                                            *)
Heard ==
  {n \in DOMAIN script : ~Unknown(script[n]) /\ \A e \in 1 .. n : ~Ends(script[e])}

Count(n) == Cardinality({h \in Heard : h <= n})

AllRead ==
  \/ reader = "ended" /\ open
  \/ todo = <<>> /\ slices = Written /\ wire = <<>> /\ buf = <<>> /\ frame = Refused

(* However the bytes are cut, by the network, by a partial write or by a   *)
(* timeout, and wherever the connection breaks: what the reader has made   *)
(* of them is what was written, from the first message on and in order,    *)
(* without the messages it does not know; in the end it has them all.      *)
(* Nothing is said of a tracker once a timeout has torn a message.         *)
ReadAsWritten ==
  ~torn => /\ \A i \in DOMAIN taken :
                \E n \in Heard : Count(n) = i /\ Means(script[n], taken[i])
           /\ AllRead => Len(taken) = Cardinality(Heard)

(* A screen of that size, turned that way, shows the panel's picture: even *)
(* axes, as NV12 requires, no longer than --max-width, and the panel's     *)
(* aspect but for the rounding.                                            *)
Fits(panel, width, height, to) ==
  LET upright == to \in {"portrait", "reverse portrait"}
      long  == IF upright THEN height ELSE width
      short == IF upright THEN width ELSE height
  IN  /\ long % 2 = 0 /\ short % 2 = 0 /\ long > 0 /\ short > 0
      /\ long <= Greatest(MaxWidth, 2) /\ panel[1] >= panel[2]
      /\ (long + 2) * panel[2] > short * panel[1] \/ short = 2
      /\ (short + 2) * panel[1] > long * panel[2]

(* A decoder of that size, on a screen turned that way, agrees with the    *)
(* capture source and with what was asked of it, if it took that.          *)
Agrees(c, width, height, to) ==
  LET upright == to \in {"portrait", "reverse portrait"}
  IN  /\ <<width, height>> = Geometry(c)
      /\ c.own = AsAsked /\ c.given # NotGiven =>
           c.given = IF upright THEN <<height, width>> ELSE <<width, height>>
      /\ c.own = AsAsked /\ c.given = NotGiven =>
           Fits(DisplaySize(c.report), width, height, to)

(* When the app turns its screen it has configured its decoder, with the   *)
(* size of what is captured and encoded, whatever the source made of the   *)
(* mode it was asked for; if it took that, the size is the pair given or   *)
(* else fits the panel, lying the way the screen is turned: "all agreeing  *)
(* on the same numbers" (session.rs:121).                                  *)
ScreenFits ==
  \A i \in DOMAIN taken :
    (side = "down" /\ taken[i].kind = "rotation") =>
      Agrees(config, taken[1].width, taken[1].height, taken[i].to)
=============================================================================
