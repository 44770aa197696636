------------------------------ MODULE Formats ------------------------------
(***************************************************************************)
(* One client of the format tables (src/format.rs): it asks for the        *)
(* storage of a picture, or names a channel layout in one of the ways a    *)
(* layout can be named.                                                    *)
(***************************************************************************)
EXTENDS PixelFormats, ChannelLayouts

CONSTANTS
  Sides,     \* widths and heights of a picture
  Texts,     \* what a user writes for a layout
  Numbered   \* the texts that say how many channels: "a.b" and the named spellings,
             \* each with the channels it means, those of effects counted apart

VARIABLE call   \* the call and its answer

NoCall == [op |-> "none"]
Init == call = NoCall

Answered(c) == call = NoCall /\ call' = c

Size(f, w, h) ==
  Answered([op |-> "size", format |-> f, width |-> w, height |-> h,
            estimate |-> BitsPerPixelApprox(f), frame |-> FrameSizeBytes(f, w, h)])

Write(l) == Answered([op |-> "write", layout |-> l, read |-> Read(Written(l))])

Parse(text) == Answered([op |-> "read", text |-> text, read |-> Read(text)])

Count(n) == Answered([op |-> "count", n |-> n, layout |-> FromCount(n)])

Next ==
  \/ \E f \in PixelFormat, w \in Sides, h \in Sides : Size(f, w, h)
  \/ \E l \in ChannelLayout : Write(l)
  \/ \E text \in Texts : Parse(text)
  \/ \E n \in 0 .. U16Max : Count(n)

Spec == Init /\ [][Next]_call

-----------------------------------------------------------------------------
(* What the enum says of a format: the components of a pixel, each at full  *)
(* resolution or on the chroma grid.                                        *)

Chroma == {"U", "V"}

Components(f) ==
  CASE f \in BitMono \union Families({"Gray", "Pal"}) -> {"Y"}
    [] f \in Families({"Ya"}) -> {"Y", "A"}
    [] f \in WordRgb -> {"RGB"}
    [] f \in PaddedRgb -> {"R", "G", "B", "X"}
    [] f \in Families({"Cmyk", "CmykInverted"}) -> {"C", "M", "Y", "K"}
    [] f \in Families({"Rgba", "Bgra", "Argb", "Abgr", "Gbrap"}) -> {"R", "G", "B", "A"}
    [] f \in Families({"Rgb", "Bgr", "Gbrp"}) -> {"R", "G", "B"}
    [] f \in Yuva -> {"Y", "A"} \union Chroma
    [] f \in Yuv \union SemiPlanar \union Macropixel -> {"Y"} \union Chroma

ComponentBits(f) == CASE f \in BitMono -> 1 [] f \in WordRgb -> 16 [] OTHER -> WordBits(f)

\* The samples of a component: where the pixels of the picture fall.
Grid(f, component, w, h) ==
  {<<xy[1] \div Spacing(s[1]), xy[2] \div Spacing(s[2])>> :
     xy \in (0 .. (w - 1)) \X (0 .. (h - 1)),
     s \in IF component \in Chroma THEN ChromaSubsampling(f) ELSE {<<0, 0>>}}

Samples(f, w, h) == UNION {{c} \X Grid(f, c, w, h) : c \in Components(f)}

SampleBits(f, w, h) == Cardinality(Samples(f, w, h)) * ComponentBits(f)

\* What a row may waste: the rest of a byte, or of a macropixel.
RowPadding(f) == CASE f \in BitMono -> 7 [] f \in Macropixel -> 8 [] OTHER -> 0

\* frame_size_bytes holds every sample of every pixel, odd sizes included, and
\* nothing else but the padding of a packed row; it refuses exactly the sizes
\* that usize does not hold, a single row among them.
SizesExact ==
  call.op = "size" =>
    LET f == call.format
        bits(h) == SampleBits(f, call.width, h)
    IN  /\ \A n \in call.frame :
             (8 * n - bits(call.height)) \in 0 .. (RowPadding(f) * call.height)
        /\ call.frame = {} =>
             \E h \in {1, call.height} : bits(h) + RowPadding(f) * h > 8 * UsizeMax

\* What the labels of a format promise is how it is stored: planes, alpha,
\* colour model and the implied range, which only YUV has.
LabelsAgree ==
  call.op = "size" =>
    LET f == call.format
    IN  /\ HasAlpha(f) <=> "A" \in Components(f)
        /\ IsRgb(f) <=> f \in WordRgb \/ {"R", "G", "B"} \subseteq Components(f)
        /\ IsPackedRgb(f) <=> IsRgb(f) /\ ~ IsPlanar(f)
        /\ IsPlanar(f) <=> PlaneDimensions(f, 1, call.width, call.height) # {}
        /\ PlaneCount(f) \in {1, 2, Cardinality(Components(f))}
        /\ ChromaSubsampling(f) # {} <=> "U" \in Components(f)
        /\ ImpliedColorRange(f) # {} => "U" \in Components(f) /\ ~ HasAlpha(f)
        /\ IsFloat(f) => WordBits(f) = 32

\* However a layout is named, by its own text, an alias or a count, the name
\* and the layout agree on the channels: a written layout reads back as itself,
\* "a.b" and every other spelling of it has a + b channels with effects only for
\* b, a layout has a speaker for every channel, and a count keeps its number.
LayoutsNamed ==
  /\ call.op = "write" =>
       /\ call.read = {call.layout}
       /\ call.layout[1] # "DiscreteN" =>
            /\ Len(Positions[call.layout[1]]) = ChannelCount(call.layout)
            /\ IsInjective(Positions[call.layout[1]])
       /\ IsSurround(call.layout) <=> ChannelCount(call.layout) > 2
  /\ call.op = "read" =>
       /\ Cardinality(call.read) <= 1
       /\ call.text \in DOMAIN Numbered =>
            \E l \in call.read :
              /\ ChannelCount(l) = Numbered[call.text][1] + Numbered[call.text][2]
              /\ HasLfe(l) <=> Numbered[call.text][2] = 1
  /\ call.op = "count" => ChannelCount(call.layout) = call.n
=============================================================================
