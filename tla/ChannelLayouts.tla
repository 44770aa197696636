--------------------------- MODULE ChannelLayouts ---------------------------
(***************************************************************************)
(* Channel layouts (src/format.rs): how many channels one has, which       *)
(* speakers they are, the layout a bare count stands for, and the names a  *)
(* layout is written and read by.  A layout is <<variant, n>>; only        *)
(* DiscreteN uses n.                                                       *)
(***************************************************************************)
EXTENDS Integers, SequencesExt

CONSTANT U16Max   \* u16::MAX
ASSUME U16Assumption == U16Max \in Nat /\ U16Max >= 8

Positions ==
  LET front == <<"FrontLeft", "FrontRight">>
      frontC == Append(front, "FrontCenter")
      side == <<"SideLeft", "SideRight">>
      back == <<"BackLeft", "BackRight">>
      lfe == <<"LowFrequency">>
      centre == <<"BackCenter">>
  IN  [Mono |-> <<"FrontCenter">>, Stereo |-> front, LoRo |-> front, LtRt |-> front,
       Stereo21 |-> front \o lfe, Surround30 |-> frontC, Quad |-> front \o side,
       Surround40 |-> frontC \o centre, Surround41 |-> frontC \o centre \o lfe,
       Surround50 |-> frontC \o side, Surround51 |-> frontC \o lfe \o side,
       Surround60 |-> frontC \o centre \o side,
       Surround61 |-> frontC \o lfe \o centre \o side,
       Surround70 |-> frontC \o side \o back,
       Surround71 |-> frontC \o lfe \o side \o back, DiscreteN |-> <<>>]

Known == DOMAIN Positions \ {"DiscreteN"}
ChannelLayout == (Known \X {0}) \union ({"DiscreteN"} \X (0 .. U16Max))

\* Bug: 6.0 counted as 6.1.
ChannelCountOff(l) ==
  CASE l[1] = "Mono" -> 1
    [] l[1] \in {"Stereo", "LoRo", "LtRt"} -> 2
    [] l[1] \in {"Stereo21", "Surround30"} -> 3
    [] l[1] \in {"Quad", "Surround40"} -> 4
    [] l[1] \in {"Surround41", "Surround50"} -> 5
    [] l[1] \in {"Surround51"} -> 6
    [] l[1] \in {"Surround60", "Surround61", "Surround70"} -> 7
    [] l[1] = "Surround71" -> 8
    [] l[1] = "DiscreteN" -> l[2]

ChannelCount(l) ==
  CASE l[1] = "Mono" -> 1
    [] l[1] \in {"Stereo", "LoRo", "LtRt"} -> 2
    [] l[1] \in {"Stereo21", "Surround30"} -> 3
    [] l[1] \in {"Quad", "Surround40"} -> 4
    [] l[1] \in {"Surround41", "Surround50"} -> 5
    [] l[1] \in {"Surround51", "Surround60"} -> 6
    [] l[1] \in {"Surround61", "Surround70"} -> 7
    [] l[1] = "Surround71" -> 8
    [] l[1] = "DiscreteN" -> l[2]

HasLfe(l) == "LowFrequency" \in ToSet(Positions[l[1]])
IsSurround(l) == ChannelCount(l) > 2 \/ HasLfe(l)

\* The most common layout of a count.
FromCount(n) ==
  IF n \in 1 .. 8
    THEN <<<<"Mono", "Stereo", "Surround30", "Quad", "Surround50", "Surround51",
             "Surround61", "Surround71">>[n], 0>>
    ELSE <<"DiscreteN", n>>

-----------------------------------------------------------------------------
(* A text is <<word, number>>: "discrete12" is <<"discrete", 12>>, a word   *)
(* alone has the number -1.  Case and surrounding blanks are taken off      *)
(* before anything is compared.                                            *)

\* The Display form.
Written(l) ==
  IF l[1] = "DiscreteN" THEN <<"discrete", l[2]>>
  ELSE <<[Mono |-> "mono", Stereo |-> "stereo", Stereo21 |-> "2.1", Surround30 |-> "3.0",
          Quad |-> "quad", Surround40 |-> "4.0", Surround41 |-> "4.1",
          Surround50 |-> "5.0", Surround51 |-> "5.1", Surround60 |-> "6.0",
          Surround61 |-> "6.1", Surround70 |-> "7.0", Surround71 |-> "7.1",
          LoRo |-> "loro", LtRt |-> "ltrt"][l[1]], -1>>

Aliases ==
  [Mono |-> {"mono", "1.0"}, Stereo |-> {"stereo", "2.0"}, Stereo21 |-> {"2.1"},
   Surround30 |-> {"3.0", "surround3", "surround30"}, Quad |-> {"quad"},
   Surround40 |-> {"4.0", "surround4", "surround40"}, Surround41 |-> {"4.1", "surround41"},
   Surround50 |-> {"5.0", "surround5", "surround50"}, Surround51 |-> {"5.1", "surround51"},
   Surround60 |-> {"6.0", "surround6", "surround60"}, Surround61 |-> {"6.1", "surround61"},
   Surround70 |-> {"7.0", "surround7", "surround70"}, Surround71 |-> {"7.1", "surround71"},
   LoRo |-> {"loro", "lo/ro"}, LtRt |-> {"ltrt", "lt/rt"}]

\* from_str: a set of at most one layout.
Read(text) ==
  IF text[2] = -1 THEN {<<v, 0>> : v \in {u \in Known : text[1] \in Aliases[u]}}
  ELSE IF text[1] = "discrete" /\ text[2] <= U16Max THEN {<<"DiscreteN", text[2]>>}
  ELSE {}
=============================================================================
