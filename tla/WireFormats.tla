---------------------------- MODULE WireFormats ----------------------------
(***************************************************************************)
(* The byte forms a frame's side channels and a file's tags carry          *)
(* (src/signal.rs, src/layer.rs, src/blob.rs, src/picture.rs), and the     *)
(* names metadata kinds and colour code points go by.  One client encodes  *)
(* a value, decodes bytes that anybody may have written, or names a kind.  *)
(* A decoder's None is the empty set.                                      *)
(***************************************************************************)
EXTENDS Integers, SequencesExt

CONSTANTS
  Base,       \* values of a byte: 256 in the code
  WordBytes,  \* bytes of a u64: 8 in the code
  Layers,     \* layer identities, [layer_id, view_id, access_unit]
  Blobs,      \* metadata blobs, [kind, mime, data]
  MaxBytes,   \* bound: length of what is decoded as a blob list
  WellKnown,  \* the kinds that are constants, as sequences of letters
  Words       \* what producers and chunks are called, likewise

VARIABLE call   \* the call and its answer

Byte == 0 .. (Base - 1)

\* Little-endian integers of a width.
Le(n, width) == [i \in 1 .. width |-> (n \div Base ^ (i - 1)) % Base]
FromLe(b) ==
  LET place(i) == b[i] * Base ^ (i - 1) IN MapThenSumSet(place, DOMAIN b)

-----------------------------------------------------------------------------
(* Colour signals: a range and three H.273 code points, a byte each. *)

RangeByte == [Unspecified |-> 0, Limited |-> 1, Full |-> 2]
RangeOf(b) == CASE b = 1 -> "Limited" [] b = 2 -> "Full" [] OTHER -> "Unspecified"

ColorSignal == [range : DOMAIN RangeByte, primaries : Byte, transfer : Byte, matrix : Byte]

SignalToBytes(s) == <<RangeByte[s.range], s.primaries, s.transfer, s.matrix>>

\* Bytes past the fourth are ignored.
SignalFromBytes(b) ==
  IF Len(b) < 4 THEN {}
  ELSE {[range |-> RangeOf(b[1]), primaries |-> b[2], transfer |-> b[3], matrix |-> b[4]]}

-----------------------------------------------------------------------------
(* Layer identities: flags, u16, u16, u64.  view_id and access_unit are     *)
(* sets of at most one number.                                              *)

LayerLen == 5 + WordBytes
OrZero(present) == IF present = {} THEN 0 ELSE CHOOSE n \in present : TRUE

LayerToBytes(l) ==
  LET flags == (IF l.view_id # {} THEN 1 ELSE 0) + (IF l.access_unit # {} THEN 2 ELSE 0)
  IN  <<flags>> \o Le(l.layer_id, 2) \o Le(OrZero(l.view_id), 2)
        \o Le(OrZero(l.access_unit), WordBytes)

LayerFromBytes(b) ==
  IF Len(b) < LayerLen THEN {}
  ELSE {[layer_id |-> FromLe(SubSeq(b, 2, 3)),
         view_id |-> IF b[1] % 2 = 1 THEN {FromLe(SubSeq(b, 4, 5))} ELSE {},
         access_unit |-> IF (b[1] \div 2) % 2 = 1
                           THEN {FromLe(SubSeq(b, 6, LayerLen))} ELSE {}]}

-----------------------------------------------------------------------------
(* Blob lists.  What a parser takes is a set of at most one pair: what it   *)
(* took and the bytes behind it.                                            *)

\* The largest byte, 0xFF, is in no UTF-8 text.
IsText(b) == Base - 1 \notin ToSet(b)

Run(b) == Le(Len(b), WordBytes) \o b

EncodeBlob(blob) ==
  Run(blob.kind)
    \o (IF blob.mime = {} THEN <<0>> ELSE <<1>> \o Run(CHOOSE m \in blob.mime : TRUE))
    \o Run(blob.data)

EncodeBlobs(bs) ==
  IF bs = <<>> THEN <<>>
  ELSE Le(Len(bs), WordBytes) \o FlattenSeq([i \in DOMAIN bs |-> EncodeBlob(bs[i])])

Take(b, n) ==
  IF n <= Len(b) THEN {<<SubSeq(b, 1, n), SubSeq(b, n + 1, Len(b))>>} ELSE {}
TakeLen(b) == {<<FromLe(t[1]), t[2]>> : t \in Take(b, WordBytes)}
TakeRun(b) == UNION {Take(t[2], t[1]) : t \in TakeLen(b)}
TakeStr(b) == {t \in TakeRun(b) : IsText(t[1])}

TakeMime(b) ==
  UNION {CASE t[1] = <<0>> -> {<<{}, t[2]>>}
           [] t[1] = <<1>> -> {<<{s[1]}, s[2]>> : s \in TakeStr(t[2])}
           [] OTHER -> {} : t \in Take(b, 1)}

TakeBlob(b) ==
  UNION {UNION {{<<[kind |-> k[1], mime |-> m[1], data |-> d[1]], d[2]>> :
                   d \in TakeRun(m[2])} : m \in TakeMime(k[2])} : k \in TakeStr(b)}

\* The blobs a count announces, and what is behind the last.
TakeBlobs(b) ==
  LET turn(taken, i) ==
        UNION {{<<Append(t[1], n[1]), n[2]>> : n \in TakeBlob(t[2])} : t \in taken}
  IN  UNION {FoldLeft(turn, {<<<<>>, c[2]>>}, [i \in 1 .. c[1] |-> i]) : c \in TakeLen(b)}

\* Bug: bytes behind the last blob are passed over.
DecodeBlobsLoose(b) == IF b = <<>> THEN {<<>>} ELSE {t[1] : t \in TakeBlobs(b)}

DecodeBlobs(b) ==
  IF b = <<>> THEN {<<>>} ELSE {t[1] : t \in {u \in TakeBlobs(b) : u[2] = <<>>}}

-----------------------------------------------------------------------------
(* Names *)

\* A letter stands for its class; "A" and "B" are upper case.
Lowered(word) ==
  [i \in DOMAIN word |-> CASE word[i] = "A" -> "a" [] word[i] = "B" -> "b" [] OTHER -> word[i]]

FormatNative(producer, chunk) == Lowered(producer) \o <<"-">> \o Lowered(chunk)

\* The text before the first hyphen, of a kind that is no constant.
Producer(name) ==
  IF name \in WellKnown \/ "-" \notin ToSet(name) THEN {}
  ELSE {SubSeq(name, 1, Min({i \in DOMAIN name : name[i] = "-"}) - 1)}

FollowsNamingRule(name) ==
  LET alnum == {"a", "b", "0"}
  IN  /\ name # <<>>
      /\ name[1] \in alnum /\ name[Len(name)] \in alnum
      /\ ToSet(name) \subseteq alnum \union {"-"}
      /\ \A i \in 1 .. (Len(name) - 1) : name[i] = "-" => name[i + 1] # "-"
      /\ name \in WellKnown \/ "-" \in ToSet(name)

-----------------------------------------------------------------------------
(* Codes with a name; the others are reserved and keep their number.        *)

PictureTypes ==
  <<"Other", "FileIcon32x32", "FileIcon", "FrontCover", "BackCover", "LeafletPage", "Media",
    "LeadArtist", "Artist", "Conductor", "BandOrchestra", "Composer", "Lyricist",
    "RecordingLocation", "DuringRecording", "DuringPerformance", "MovieScreenCapture",
    "ABrightColouredFish", "Illustration", "BandLogo", "PublisherLogo">>

PictureFromCode(b) == IF b < Len(PictureTypes) THEN PictureTypes[b + 1] ELSE "Unknown"
PictureToCode(t) ==
  IF t = "Unknown" THEN 255 ELSE (CHOOSE i \in DOMAIN PictureTypes : PictureTypes[i] = t) - 1

Primaries ==
  (1 :> "bt709" @@ 2 :> "unspecified" @@ 4 :> "bt470m" @@ 5 :> "bt470bg" @@ 6 :> "bt601-525"
    @@ 7 :> "smpte240m" @@ 8 :> "film" @@ 9 :> "bt2020" @@ 10 :> "smpte428"
    @@ 11 :> "smpte431" @@ 12 :> "smpte432" @@ 22 :> "cp22")

Transfers ==
  (1 :> "bt709" @@ 2 :> "unspecified" @@ 4 :> "gamma22" @@ 5 :> "gamma28" @@ 6 :> "bt601"
    @@ 7 :> "smpte240m" @@ 8 :> "linear" @@ 9 :> "log100" @@ 10 :> "log100-sqrt10"
    @@ 11 :> "iec61966-2-4" @@ 12 :> "bt1361e" @@ 13 :> "iec61966-2-1" @@ 14 :> "bt2020-10"
    @@ 15 :> "bt2020-12" @@ 16 :> "pq" @@ 17 :> "smpte428" @@ 18 :> "hlg")

Matrices ==
  (0 :> "identity" @@ 1 :> "bt709" @@ 2 :> "unspecified" @@ 4 :> "fcc" @@ 5 :> "bt470bg"
    @@ 6 :> "bt601-525" @@ 7 :> "smpte240m" @@ 8 :> "ycgco" @@ 9 :> "bt2020ncl"
    @@ 10 :> "bt2020cl" @@ 11 :> "smpte2085" @@ 12 :> "chroma-derived-ncl"
    @@ 13 :> "chroma-derived-cl" @@ 14 :> "ictcp" @@ 15 :> "ipt-c2" @@ 16 :> "ycgco-re"
    @@ 17 :> "ycgco-ro")

\* The Display form of a code point.
Shown(names, code) == IF code \in DOMAIN names THEN <<names[code]>> ELSE <<"reserved", code>>

-----------------------------------------------------------------------------
NoCall == [op |-> "none"]
Init == call = NoCall

Answered(c) == call = NoCall /\ call' = c

CarrySignal(s, extra) ==
  Answered([op |-> "signal", value |-> s, read |-> SignalFromBytes(SignalToBytes(s) \o extra)])

CarryLayer(l, extra) ==
  Answered([op |-> "layer", value |-> l, read |-> LayerFromBytes(LayerToBytes(l) \o extra)])

CarryBlobs(bs) ==
  LET wire == EncodeBlobs(bs)
  IN  Answered([op |-> "blobs", value |-> bs, read |-> DecodeBlobs(wire),
                cut |-> UNION {DecodeBlobs(SubSeq(wire, 1, n)) : n \in 1 .. (Len(wire) - 1)}])

Decode(b) ==
  Answered([op |-> "decode", bytes |-> b, blobs |-> DecodeBlobs(b),
            signal |-> SignalFromBytes(b), layer |-> LayerFromBytes(b)])

NameKind(producer, chunk) ==
  LET name == FormatNative(producer, chunk)
  IN  Answered([op |-> "kind", producer |-> producer, chunk |-> chunk, name |-> name,
                follows |-> FollowsNamingRule(name), read |-> Producer(name)])

ReadCode(code) ==
  Answered([op |-> "code", code |-> code, picture |-> PictureFromCode(code),
            shown |-> [p \in {"primaries", "transfer", "matrix"} |->
              Shown(CASE p = "primaries" -> Primaries [] p = "transfer" -> Transfers
                      [] p = "matrix" -> Matrices, code)]])

Next ==
  \/ \E s \in ColorSignal, extra \in SeqOf(Byte, 1) : CarrySignal(s, extra)
  \/ \E l \in Layers, extra \in SeqOf(Byte, 1) : CarryLayer(l, extra)
  \/ \E bs \in SeqOf(Blobs, 2) : CarryBlobs(bs)
  \/ \E b \in SeqOf(Byte, MaxBytes) : Decode(b)
  \/ \E p \in Words, c \in Words : NameKind(p, c)
  \/ \E code \in 0 .. 255 : ReadCode(code)

-----------------------------------------------------------------------------
\* What one component attaches another reads back, whole and unchanged, with
\* bytes of a later version behind it or not; and what anybody wrote reads as
\* nothing or as a value that would be written the same: never as half a list
\* of blobs, nor as a list with a count, a length, a flag or an end that the
\* bytes do not have.
WireRoundTrip ==
  /\ call.op \in {"signal", "layer", "blobs"} => call.read = {call.value}
  /\ call.op = "blobs" => call.cut = {}
  /\ call.op = "decode" =>
       /\ \A bs \in call.blobs : bs # <<>> => EncodeBlobs(bs) = call.bytes
       /\ \A s \in call.signal :
            LET wire == SignalToBytes(s)
            IN  /\ Tail(wire) = SubSeq(call.bytes, 2, 4)
                /\ wire[1] \in {0, call.bytes[1]}
       /\ \A l \in call.layer : LayerFromBytes(LayerToBytes(l)) = {l}

\* A metadata kind that a format's producer names routes back to that producer
\* and to no other, and follows the rule exactly when both of its parts do; and
\* what is shown of a code identifies it.
KindsNamed ==
  /\ call.op = "kind" =>
       LET part(word) ==
             /\ word # <<>> /\ ToSet(word) \subseteq {"a", "b", "0", "-"}
             /\ word[1] # "-" /\ word[Len(word)] # "-"
             /\ \A i \in 1 .. (Len(word) - 1) : word[i] = "-" => word[i + 1] # "-"
       IN  /\ call.follows <=> part(Lowered(call.producer)) /\ part(Lowered(call.chunk))
           /\ call.name \notin WellKnown /\ "-" \notin ToSet(call.producer)
                => call.read = {Lowered(call.producer)}
  /\ call.op = "code" =>
       /\ call.picture # "Unknown" => PictureToCode(call.picture) = call.code
       /\ PictureFromCode(PictureToCode(call.picture)) = call.picture
       /\ \A other \in (0 .. 255) \ {call.code} :
            /\ Shown(Primaries, other) # call.shown["primaries"]
            /\ Shown(Transfers, other) # call.shown["transfer"]
            /\ Shown(Matrices, other) # call.shown["matrix"]
=============================================================================
