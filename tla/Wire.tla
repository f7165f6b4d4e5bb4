--------------------------------- MODULE Wire --------------------------------
(***************************************************************************)
(* The formats of the three byte streams and what each end makes of them:  *)
(* crates/protocol and Protocol.kt for the two directions of a session,    *)
(* tracker.rs for adb's device lists, adb.rs and session.rs for the size   *)
(* that is asked for.                                                      *)
(*                                                                         *)
(* A stream is a sequence of bytes, of characters for adb.  TLC's integers *)
(* have 32 bits, so a 64-bit timestamp is kept as its eight bytes.         *)
(***************************************************************************)
EXTENDS Integers, Sequences

CONSTANTS
  MaxFrameBytes,  \* MAX_FRAME_BYTES, 8 MiB in the app
  SurfaceUnits    \* units across the tablet's surface, for finger positions

ASSUME SurfaceAssumption == SurfaceUnits \in Nat \ {0}

(* A control fits a frame.                                                 *)
ASSUME LimitAssumption == MaxFrameBytes \in Nat /\ MaxFrameBytes >= 2

Least(a, b)    == IF a < b THEN a ELSE b
Greatest(a, b) == IF a > b THEN a ELSE b
Clamp(v, lo, hi) == Greatest(lo, Least(v, hi))

Byte == 0 .. 255
Word == {n \in Nat : n < 65536}

(* Integers of sixteen and of thirty-two bits, most significant byte first.*)
Bytes16(n) == <<(n \div 256) % 256, n % 256>>
Bytes32(n) == <<(n \div 16777216) % 256, (n \div 65536) % 256, (n \div 256) % 256, n % 256>>

Value16LittleEndian(b) ==   \* mutant: one end has the other byte order
  256 * b[2] + b[1]

Value16(b) == 256 * b[1] + b[2]
Value32(b) == 16777216 * b[1] + 65536 * b[2] + 256 * b[3] + b[4]

Zeros(n) == [i \in 1 .. n |-> 0]

Refused == [kind |-> "refused"]   \* the reader gives the connection up
Dropped == [kind |-> "dropped"]   \* the reader leaves the message out

----------------------------------------------------------------------------
(* The size of the stream.  `wm size` reports the panel as the hardware    *)
(* has it and, sometimes, an override.                                     *)
Unreported == <<>>

DisplaySize(report) ==
  LET size == IF report.override # Unreported THEN report.override ELSE report.physical
  IN  IF size = Unreported \/ 0 \in {size[1], size[2]} THEN Unreported
      ELSE <<Greatest(size[1], size[2]), Least(size[1], size[2])>>

AlignNone(v) == v   \* mutant: an odd size is handed to the encoder

Align2(v) == v - (v % 2)

StreamResolution(panel, maxWidth) ==
  LET width  == Greatest(Least(panel[1], maxWidth), 2)
      height == (width * panel[2]) \div panel[1]
  IN  <<Align2(width), Align2(Greatest(height, 2))>>

(* What run() asks the compositor for: the pair of --width and --height as *)
(* it is, or else the panel's size scaled.  A tablet in portrait gets a    *)
(* portrait output: run() swaps the axes of either.                        *)
NotGiven == <<>>

StreamSizeUnturned(given, panel, maxWidth, rotation) ==   \* mutant: only the app is told of the rotation
  IF given # NotGiven THEN given ELSE StreamResolution(panel, maxWidth)

StreamSize(given, panel, maxWidth, rotation) ==
  LET size == IF given # NotGiven THEN given ELSE StreamResolution(panel, maxWidth)
  IN  IF rotation \in {90, 270} THEN <<size[2], size[1]>> ELSE size

(* Host to device: a stream header, then frames.                           *)
Magic   == <<77, 82, 76, 68>>
Version == 3
Codecs  == <<"video/avc", "video/hevc">>   \* by codec id, from 0

HeaderOf(size, fps) ==
  [kind |-> "stream", version |-> Version, width |-> size[1] % 65536,
   height |-> size[2] % 65536, framerate |-> fps % 65536, codec |-> 0]

EncodeStreamHeader(h) ==
  Magic \o Bytes16(h.version) \o Bytes16(h.width) \o Bytes16(h.height)
    \o Bytes16(h.framerate) \o <<h.codec>> \o Zeros(3)

ReadStreamHeader(b) ==
  IF \/ SubSeq(b, 1, 4) # Magic
     \/ Value16(SubSeq(b, 5, 6)) # Version
     \/ b[13] + 1 \notin DOMAIN Codecs
  THEN Refused
  ELSE [kind |-> "stream", width |-> Value16(SubSeq(b, 7, 8)), height |-> Value16(SubSeq(b, 9, 10)),
        framerate |-> Value16(SubSeq(b, 11, 12)), mime |-> Codecs[b[13] + 1]]

EncodeFrameHeader(length, pts, keyframe, control) ==
  Bytes32(length) \o pts \o <<(IF keyframe THEN 1 ELSE 0) + (IF control THEN 2 ELSE 0)>>
    \o Zeros(3)

ReadFrameHeaderUnbounded(b) ==   \* mutant: any length is allocated and waited for
  [kind |-> "frame", length |-> Value32(SubSeq(b, 1, 4)), pts |-> SubSeq(b, 5, 12),
   keyframe |-> b[13] % 2 = 1, control |-> (b[13] \div 2) % 2 = 1]

ReadFrameHeader(b) ==
  IF Value32(SubSeq(b, 1, 4)) > MaxFrameBytes THEN Refused
  ELSE [kind |-> "frame", length |-> Value32(SubSeq(b, 1, 4)), pts |-> SubSeq(b, 5, 12),
        keyframe |-> b[13] % 2 = 1, control |-> (b[13] \div 2) % 2 = 1]

(* Controls, and what the activity does on them.                           *)
Orientations == <<"landscape", "portrait", "reverse landscape", "reverse portrait">>

Brightness(percent) == [id |-> 1, value |-> Least(percent, 100)]
Rotation(degrees)   == [id |-> 2, value |-> degrees \div 90]
EncodeControl(c)    == <<c.id, c.value>>

DecodeControl(b) == IF Len(b) < 2 \/ b[1] \notin {1, 2} THEN Dropped
                    ELSE [kind |-> "control", id |-> b[1], value |-> b[2]]

HandleControl(c) ==
  IF c = Dropped THEN Dropped
  ELSE CASE c.id = 1 -> [kind |-> "brightness", percent |-> Clamp(c.value, 0, 100)]
         [] c.id = 2 /\ c.value + 1 \in DOMAIN Orientations ->
              [kind |-> "rotation", to |-> Orientations[c.value + 1]]
         [] OTHER -> Dropped

Handle(frame, payload) ==
  IF frame.control THEN HandleControl(DecodeControl(payload))
  ELSE [kind |-> "video", payload |-> payload, pts |-> frame.pts, keyframe |-> frame.keyframe]

----------------------------------------------------------------------------
(* Device to host: messages of nine bytes, the first being the type.       *)
ReverseLen == 9
Actions    == <<"down", "move", "up", "cancel">>   \* by action id, from 0
AbsRange   == 32767

(* A position is clamped to the surface and sent as a fraction of 65535,   *)
(* which the host scales to the axes of its uinput device.                 *)
ToFixed(pos) ==
  (2 * 65535 * Clamp(pos, 0, SurfaceUnits) + SurfaceUnits) \div (2 * SurfaceUnits)

ScaleToRange(v) == (v * AbsRange) \div 65535

EncodeAck(pts) == <<1>> \o pts

EncodeTouch(action, x, y) ==
  <<2, action, 0>> \o Bytes16(ToFixed(x)) \o Bytes16(ToFixed(y)) \o Zeros(2)

DecodeTouch(b) ==
  IF b[1] + 1 \notin DOMAIN Actions THEN Dropped
  ELSE [kind |-> "touch", action |-> Actions[b[1] + 1], x |-> ScaleToRange(Value16(SubSeq(b, 3, 4))),
        y |-> ScaleToRange(Value16(SubSeq(b, 5, 6)))]

DecodeReverse(b) ==
  CASE b[1] = 1 -> [kind |-> "ack", pts |-> SubSeq(b, 2, 9)]
    [] b[1] = 2 -> DecodeTouch(SubSeq(b, 2, 9))
    [] OTHER -> Dropped

----------------------------------------------------------------------------
(* adb's device lists: four hex digits of length, then a line for every    *)
(* device.  Characters are the hex digits and the ones below; a state is   *)
(* one character.                                                          *)
Tab       == 16
Newline   == 17
DeviceState == 18   \* "device"
Offline     == 19

HexDigits(n) == <<(n \div 4096) % 16, (n \div 256) % 16, (n \div 16) % 16, n % 16>>
IsHex(s)     == \A i \in DOMAIN s : s[i] < 16
HexValue(s)  == 4096 * s[1] + 256 * s[2] + 16 * s[3] + s[4]

Line(device) == device.serial \o <<Tab, device.state, Newline>>

(* Of a number of devices, the text of the first so many.                  *)
Lines(devices) ==
  LET text[n \in 0 .. Len(devices)] == IF n = 0 THEN <<>> ELSE text[n - 1] \o Line(devices[n])
  IN  text

Listing(devices)    == Lines(devices)[Len(devices)]
EncodeList(devices) == HexDigits(Len(Listing(devices))) \o Listing(devices)

(* Lines of fewer than two fields are left out.                            *)
ParseChar(p, c) ==
  IF c = Newline
  THEN [devices |-> IF p.fields < 2 THEN p.devices
                    ELSE Append(p.devices, [serial |-> p.serial, state |-> p.state]),
        serial |-> <<>>, state |-> Tab, fields |-> 0, gap |-> TRUE]
  ELSE CASE c = Tab -> [p EXCEPT !.gap = TRUE]
         [] c # Tab /\ (p.fields = 0 \/ (p.fields = 1 /\ ~p.gap)) ->
              [p EXCEPT !.serial = Append(@, c), !.fields = 1, !.gap = FALSE]
         [] OTHER -> [p EXCEPT !.state = IF p.fields = 1 THEN c ELSE @, !.fields = 2, !.gap = FALSE]

NothingParsed == [devices |-> <<>>, serial |-> <<>>, state |-> Tab, fields |-> 0, gap |-> TRUE]

(* What has been made of the first so many characters.                     *)
Parsed(text) ==
  LET after[n \in 0 .. Len(text)] == IF n = 0 THEN NothingParsed ELSE ParseChar(after[n - 1], text[n])
  IN  after

ParseDevices(payload) == Parsed(Append(payload, Newline))[Len(payload) + 1].devices
=============================================================================
