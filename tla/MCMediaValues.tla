--------------------------- MODULE MCMediaValues ---------------------------
(***************************************************************************)
(* Four-bit fractions with both ends, zero, one, and terms with and        *)
(* without a common factor, and every four-bit tick count; every pixel     *)
(* format at small sides, odd and even, with a usize that the wider        *)
(* pictures do not fit; every spelling of every layout and a few texts     *)
(* that name none; bytes of two bits.  A schema with a field of every      *)
(* kind, two of them with documented defaults that are not the struct's,   *)
(* values that some kinds refuse, a key it does not have, and JSON         *)
(* documents with nulls, scalars and structured members.                   *)
(***************************************************************************)
EXTENDS MediaValues, FiniteSets

MCTerms == {-8, -6, -3, -1, 0, 1, 2, 7}
MCValues == I64
MCOthers == {-8, -1, 0, 3, 7}

MCSides == 0 .. 9

\* What each spelling says: so many channels, and how many of effects.
MCSpellings ==
  { <<{"mono", "1.0"}, <<1, 0>>>>,
    <<{"stereo", "2.0", "loro", "lo/ro", "ltrt", "lt/rt"}, <<2, 0>>>>,
    <<{"2.1"}, <<2, 1>>>>,
    <<{"3.0", "surround3", "surround30"}, <<3, 0>>>>,
    <<{"quad", "4.0", "surround4", "surround40"}, <<4, 0>>>>,
    <<{"4.1", "surround41"}, <<4, 1>>>>,
    <<{"5.0", "surround5", "surround50"}, <<5, 0>>>>,
    <<{"5.1", "surround51"}, <<5, 1>>>>,
    <<{"6.0", "surround6", "surround60"}, <<6, 0>>>>,
    <<{"6.1", "surround61"}, <<6, 1>>>>,
    <<{"7.0", "surround7", "surround70"}, <<7, 0>>>>,
    <<{"7.1", "surround71"}, <<7, 1>>>> }

MCNumbered ==
  [t \in (UNION {s[1] : s \in MCSpellings}) \X {-1} |->
     (CHOOSE s \in MCSpellings : t[1] \in s[1])[2]]

Layouts == INSTANCE ChannelLayouts

MCTexts ==
  ((UNION {Layouts!Aliases[v] : v \in Layouts!Known} \union {"discrete", "8.0", ""}) \X {-1})
    \union ({"discrete", "surround"} \X (0 .. (U16Max + 1)))

MCLayers ==
  [layer_id : {0, 7, 15}, view_id : {{}} \union {{n} : n \in {0, 9, 15}},
   access_unit : {{}} \union {{n} : n \in 0 .. 3}]

\* Byte 3 is in no text.
MCBlobs == [kind : {<<0>>, <<1, 2>>}, mime : {{}, {<<>>}, {<<2>>}}, data : {<<>>, <<3, 0>>}]

Letters == {"a", "A", "b", "0", "-", "_"}
MCWords == UNION {[1 .. n -> Letters] : n \in 0 .. 2}

\* A plain constant and a hyphenated one.
MCWellKnown == {<<"b">>, <<"b", "-", "b">>}

MCRaws == {"1", "-1", "0.5", "yes", "fast"}
MCU32 == [r \in {"1"} |-> 1]
MCI32 == [r \in {"1", "-1"} |-> IF r = "1" THEN 1 ELSE -1]
MCF32 == [r \in {"1", "-1", "0.5"} |-> IF r = "1" THEN 10 ELSE IF r = "-1" THEN -10 ELSE 5]

MCField(name, kind, default) == [name |-> name, kind |-> kind, default |-> default]
MCSchema ==
  << MCField("interlace", <<"bool">>, <<"bool", FALSE>>),
     MCField("level", <<"u32">>, <<"u32", 6>>),
     MCField("offset", <<"i32">>, <<"i32", 0>>),
     MCField("quality", <<"f32">>, <<"f32", 0>>),
     MCField("title", <<"string">>, <<"string", "">>),
     MCField("preset", <<"enum", {"fast", "slow"}>>, <<"string", "slow">>) >>

\* What #[derive(Default)] gives; the schema documents another level and preset.
MCDefaults ==
  [interlace |-> <<"bool", FALSE>>, level |-> <<"u32", 0>>, offset |-> <<"i32", 0>>,
   quality |-> <<"f32", 0>>, title |-> <<"string", "">>, preset |-> <<"string", "">>]

MCKeys == {"interlace", "level", "offset", "quality", "title", "preset", "tune"}

MCObjects ==
  { <<"null">>, <<"string", "fast">>,
    <<"object", <<>>>>,
    <<"object", << <<"interlace", <<"bool", TRUE>>>>, <<"level", <<"number", "1">>>> >>>>,
    <<"object", << <<"level", <<"null">>>>, <<"preset", <<"string", "fast">>>> >>>>,
    <<"object", << <<"level", <<"number", "1">>>>, <<"tune", <<"array">>>> >>>> }
=============================================================================
