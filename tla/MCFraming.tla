------------------------------- MODULE MCFraming -----------------------------
(* Scripts of up to two messages after the stream header, and of up to     *)
(* three the other way, with those of other builds among them.             *)
EXTENDS Framing

Stream(version, codec) == [kind |-> "stream", version |-> version, codec |-> codec]
Pts == <<0, 0, 0, 1, 2, 3, 4, 255>>
Video(payload, keyframe) == [kind |-> "video", payload |-> payload, pts |-> Pts, keyframe |-> keyframe]
Control(c) == [kind |-> "control", control |-> c]

Frames == {Video(<<>>, FALSE), Video(<<0, 255, 7>>, TRUE), Video(<<1, 2, 3, 4>>, FALSE),
           Control([id |-> 9, value |-> 1]), Control([id |-> 2, value |-> 4])}

Replies == {[kind |-> "ack", pts |-> Pts], [kind |-> "touch", action |-> 0, x |-> 1, y |-> 2],
            [kind |-> "touch", action |-> 2, x |-> -1, y |-> 5], [kind |-> "touch", action |-> 9, x |-> 0, y |-> 0],
            [kind |-> "other", type |-> 7]}

Devices == {<<>>, <<[serial |-> <<1, 10>>, state |-> DeviceState]>>,
            <<[serial |-> <<0, 0, 0, 3>>, state |-> Offline], [serial |-> <<11>>, state |-> DeviceState]>>}
Lists == {[kind |-> "list", devices |-> d] : d \in Devices}

UpTo(n, S) == UNION {[1 .. k -> S] : k \in 0 .. n}

MCScripts ==
  [down  |-> {<<Stream(3, c)>> \o f : c \in {0, 1}, f \in UpTo(1, Frames)}
               \cup {<<Stream(3, 0)>> \o f : f \in [1 .. 2 -> Frames]}
               \cup {<<Stream(2, 0), Video(<<9>>, TRUE)>>, <<Stream(3, 5), Video(<<9>>, TRUE)>>},
   up    |-> UpTo(3, Replies),
   track |-> UpTo(2, Lists)]

Panels ==
  {[physical |-> <<1800, 2880>>, override |-> Unreported],
   [physical |-> <<1800, 2880>>, override |-> <<1234, 2000>>],
   [physical |-> <<2999, 40>>, override |-> Unreported],
   [physical |-> <<801, 1279>>, override |-> Unreported],
   [physical |-> <<0, 1279>>, override |-> Unreported]}

Config(r, g, o, d, b) == [report |-> r, given |-> g, own |-> o, rotation |-> d, brightness |-> b]
Upright == [physical |-> <<801, 1279>>, override |-> Unreported]
SizeUnknown == [physical |-> Unreported, override |-> Unreported]
MCConfigs ==
  {Config(r, NotGiven, AsAsked, d, Unset) : r \in Panels, d \in {0, 90}}
    \cup {Config(Upright, NotGiven, AsAsked, 180, 80), Config(Upright, NotGiven, AsAsked, 270, 150)}
    \cup {Config(SizeUnknown, <<1001, 700>>, AsAsked, d, Unset) : d \in {0, 270}}
    \cup {Config(Upright, g, <<1280, 720>>, 90, Unset) : g \in {NotGiven, <<1001, 700>>}}
=============================================================================
