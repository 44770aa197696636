---------------------------- MODULE PixelFormats ----------------------------
(***************************************************************************)
(* Pixel formats and the storage they take (src/format.rs).  A variant is  *)
(* <<family, bits>>, bits being the significant bits of a component and    *)
(* 32 standing for binary32: <<"Yuv420P", 10>> is Yuv420P10Le, <<"Rgb", 8>> *)
(* is Rgb24, <<"Rgb", 16>> is Rgb48Le, <<"Gbrp", 32>> is GbrpF32Le.        *)
(***************************************************************************)
EXTENDS Integers, FiniteSets

CONSTANT UsizeMax   \* usize::MAX

-----------------------------------------------------------------------------
(* The variants, section by section of the enum. *)

Original == {"Yuv420P", "Yuv422P", "Yuv444P", "Rgb", "Rgba", "Gray"} \X {8}
Palette == {<<"Pal", 8>>}
Swizzles == {"Bgr", "Bgra", "Argb", "Abgr"} \X {8}
DeepPackedRgb == {"Rgb", "Rgba"} \X {16}
DeepGray == {"Gray"} \X {10, 12, 16}
DeepYuv == {"Yuv420P", "Yuv422P", "Yuv444P"} \X {10, 12}
FullRangeYuv == {"YuvJ420P", "YuvJ422P", "YuvJ444P"} \X {8}
SemiPlanar == {"Nv12", "Nv21"} \X {8}
WithAlpha == {"Ya", "Yuva420P"} \X {8}
BitMono == {"MonoBlack", "MonoWhite"} \X {1}
Macropixel == {"Yuyv422", "Uyvy422"} \X {8}
Prepress == {<<"Cmyk", 8>>}
Wide == {<<"Yuv411P", 8>>}
DeepGbr == {"Gbrp", "Gbrap"} \X {10, 12, 14}
FullWidthYuv == {"Yuv420P", "Yuv422P", "Yuv444P"} \X {16}
ByteYuva == {"Yuva422P", "Yuva444P"} \X {8}
DeepYuva == {"Yuva422P", "Yuva444P"} \X {10, 12, 16}
GbrLadderEnds == {<<"Gbrp", 8>>, <<"Gbrp", 16>>, <<"Gbrap", 16>>}
DeepYuva420 == {"Yuva420P"} \X {10, 12, 16}
ByteGbra == {<<"Gbrap", 8>>}
DeepGrayAlpha == {<<"Ya", 16>>}
InvertedInk == {<<"CmykInverted", 8>>}
Yuv440 == {"Yuv440P"} \X {8, 10, 12, 16}
Float == {"Gray", "Rgb", "Rgba", "Gbrp", "Gbrap"} \X {32}
WordRgb == {"Rgb555Le", "Rgb555Be", "Bgr555Le", "Bgr555Be"} \X {5}
             \union {"Rgb565Le", "Rgb565Be", "Bgr565Le", "Bgr565Be"} \X {6}
PaddedRgb == {"Rgbx", "Bgrx", "Xrgb", "Xbgr"} \X {8}

PixelFormat ==
  UNION {Original, Palette, Swizzles, DeepPackedRgb, DeepGray, DeepYuv, FullRangeYuv,
         SemiPlanar, WithAlpha, BitMono, Macropixel, Prepress, Wide, DeepGbr, FullWidthYuv,
         ByteYuva, DeepYuva, GbrLadderEnds, DeepYuva420, ByteGbra, DeepGrayAlpha,
         InvertedInk, Yuv440, Float, WordRgb, PaddedRgb}

-----------------------------------------------------------------------------
Families(names) == {f \in PixelFormat : f[1] \in names}

Yuv == Families({"Yuv420P", "Yuv422P", "Yuv444P", "Yuv411P", "Yuv440P",
                 "YuvJ420P", "YuvJ422P", "YuvJ444P"})
Yuva == Families({"Yuva420P", "Yuva422P", "Yuva444P"})
Gbrp == Families({"Gbrp"})
Gbrap == Families({"Gbrap"})

IsPlanar(f) == f \in Yuv \union SemiPlanar \union Yuva \union Gbrp \union Gbrap

\* A set of at most one range.
ImpliedColorRange(f) == IF f \in FullRangeYuv THEN {"Full"} ELSE {}

\* Bug: a padding byte is taken for an alpha channel.
HasAlphaPadded(f) ==
  f \in Yuva \union Gbrap \union PaddedRgb
          \union Families({"Rgba", "Bgra", "Argb", "Abgr", "Ya"})

HasAlpha(f) ==
  f \in Yuva \union Gbrap \union Families({"Rgba", "Bgra", "Argb", "Abgr", "Ya"})

IsFloat(f) == f \in Float

IsPackedRgb(f) ==
  f \in PaddedRgb \union WordRgb
          \union Families({"Rgb", "Bgr", "Rgba", "Bgra", "Argb", "Abgr"})

IsRgb(f) == IsPackedRgb(f) \/ f \in Gbrp \union Gbrap

PlaneCount(f) ==
  CASE f \in SemiPlanar -> 2
    [] f \in Yuv \union Gbrp -> 3
    [] f \in Yuva \union Gbrap -> 4
    [] OTHER -> 1

\* Bits of the word a component is stored in.
WordBits(f) == IF f[2] = 32 THEN 32 ELSE IF f[2] > 8 THEN 16 ELSE 8

\* The estimate counts words for YUV and significant bits for RGB.
BitsPerPixelApprox(f) ==
  CASE f \in BitMono -> 1
    [] f \in Families({"Gray", "Pal"}) -> WordBits(f)
    [] f \in Families({"Ya"}) -> 2 * WordBits(f)
    [] f \in WordRgb \union Macropixel -> 16
    [] f \in Families({"Rgb", "Bgr"}) \union Gbrp -> 3 * f[2]
    [] f \in PaddedRgb \union Gbrap
         \union Families({"Rgba", "Bgra", "Argb", "Abgr", "Cmyk", "CmykInverted"}) -> 4 * f[2]
    [] f \in SemiPlanar -> 12
    [] f[1] \in {"Yuv420P", "YuvJ420P", "Yuv411P"} -> 12 * (WordBits(f) \div 8)
    [] f[1] \in {"Yuv422P", "YuvJ422P", "Yuv440P"} -> 2 * WordBits(f)
    [] f[1] \in {"Yuv444P", "YuvJ444P"} -> 3 * WordBits(f)
    [] f[1] = "Yuva420P" -> 20 * (WordBits(f) \div 8)
    [] f[1] = "Yuva422P" -> 3 * WordBits(f)
    [] f[1] = "Yuva444P" -> 4 * WordBits(f)

\* A set of at most one pair of shifts.
ChromaSubsampling(f) ==
  CASE f[1] \in {"Yuv420P", "YuvJ420P", "Yuva420P", "Nv12", "Nv21"} -> {<<1, 1>>}
    [] f[1] \in {"Yuv422P", "YuvJ422P", "Yuva422P", "Yuyv422", "Uyvy422"} -> {<<1, 0>>}
    [] f[1] \in {"Yuv444P", "YuvJ444P", "Yuva444P"} -> {<<0, 0>>}
    [] f[1] = "Yuv411P" -> {<<2, 0>>}
    [] f[1] = "Yuv440P" -> {<<0, 1>>}
    [] OTHER -> {}

DivCeil(n, d) == (n + d - 1) \div d

\* 1 << shift: the pixels between two samples of a chroma grid.
Spacing(shift) == <<1, 2, 4>>[shift + 1]

\* Bug: a chroma plane has no room for the last odd row and column.
PlaneDimensionsFloor(f, plane, w, h) ==
  IF plane >= PlaneCount(f) THEN {}
  ELSE IF plane \in {1, 2} /\ ChromaSubsampling(f) # {}
    THEN {<<w \div Spacing(s[1]), h \div Spacing(s[2])>> : s \in ChromaSubsampling(f)}
    ELSE {<<w, h>>}

\* A set of at most one pair, width and height of the plane's sample grid.
PlaneDimensions(f, plane, w, h) ==
  IF plane >= PlaneCount(f) THEN {}
  ELSE IF plane \in {1, 2} /\ ChromaSubsampling(f) # {}
    THEN {<<DivCeil(w, Spacing(s[1])), DivCeil(h, Spacing(s[2]))>> :
            s \in ChromaSubsampling(f)}
    ELSE {<<w, h>>}

\* checked_mul and checked_add of usize.
CheckedSize(n) == IF n <= UsizeMax THEN {n} ELSE {}

BytesPerPosition(f, plane) ==
  CASE f \in SemiPlanar -> IF plane = 0 THEN 1 ELSE 2
    [] f \in Yuv \union Yuva \union Gbrp \union Gbrap \union Families({"Gray", "Pal"}) ->
         WordBits(f) \div 8
    [] f \in WordRgb \union {<<"Ya", 8>>} -> 2
    [] f \in {<<"Rgb", 8>>, <<"Bgr", 8>>} -> 3
    [] f \in PaddedRgb \union Prepress \union InvertedInk \union DeepGrayAlpha
         \union {"Rgba", "Bgra", "Argb", "Abgr"} \X {8} -> 4
    [] f = <<"Rgb", 16>> -> 6
    [] f = <<"Rgba", 16>> -> 8
    [] f = <<"Rgb", 32>> -> 12
    [] f = <<"Rgba", 32>> -> 16

PlaneRowBytes(f, plane, w) ==
  UNION {CASE f \in BitMono -> {DivCeil(d[1], 8)}
           [] f \in Macropixel -> CheckedSize(DivCeil(d[1], 2) * 4)
           [] OTHER -> CheckedSize(d[1] * BytesPerPosition(f, plane)) :
         d \in PlaneDimensions(f, plane, w, 1)}

PlaneSizeBytes(f, plane, w, h) ==
  UNION {CheckedSize(row * d[2]) : row \in PlaneRowBytes(f, plane, w),
                               d \in PlaneDimensions(f, plane, w, h)}

\* The sum of the first n planes, refused when a plane is or when it overflows.
FrameSizeBytes(f, w, h) ==
  LET total[n \in 0 .. PlaneCount(f)] ==
        IF n = 0 THEN {0}
        ELSE UNION {CheckedSize(sum + size) :
                      sum \in total[n - 1], size \in PlaneSizeBytes(f, n - 1, w, h)}
  IN  total[PlaneCount(f)]
=============================================================================
