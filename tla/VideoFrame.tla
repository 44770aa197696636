----------------------------- MODULE VideoFrame -----------------------------
(***************************************************************************)
(* The side-channel records of a VideoFrame (src/frame.rs).  They live in  *)
(* the same vector as the image planes: the longest run of record-shaped   *)
(* entries at its end, each with a stride no image plane can have as its   *)
(* tag.  set_*, with_*, push_blob and take_* rearrange that run; every     *)
(* getter searches it.  The vector is a public field, so a producer may    *)
(* also build one by hand.                                                 *)
(***************************************************************************)
EXTENDS RecordWire, Orders, FiniteSetsExt

CONSTANTS
  Frames,       \* the plane vectors a frame may start from
  Attachable,   \* per tag, the bytes a client may attach; <<>> detaches
  PaletteSizes, \* the lengths of the RGBA tables a client may attach
  BlobValues,   \* the metadata blobs a client may append
  MaxCalls,     \* bound: calls on one frame
  Indices       \* the colours and planes a client asks about

\* "plane" is any stride an image plane can have, "reserved" one of the
\* strides above isize::MAX that no record kind uses.
Entry == [stride : Tags \union {"plane", "reserved"}, data : Seq(Nat)]

\* Bytes, colours and planes are counted from 0.
ASSUME FramesAssumption ==
  /\ Frames \subseteq Seq(Entry)
  /\ Attachable \in [Tags -> SUBSET Seq(Nat)]
  /\ PaletteSizes \subseteq Nat /\ BlobValues \subseteq Nat /\ Indices \subseteq Nat

VARIABLES
  planes,   \* VideoFrame.planes
  reply,    \* what the last take_* or lookup returned
  calls     \* calls so far

vars == <<planes, reply, calls>>

-----------------------------------------------------------------------------
IsSideChannelEntry(e) == e.stride # "plane" /\ e.data # <<>>

\* Bug: the first record ends the scan.
RunStartFirst(ps) ==
  Min({Len(ps)} \union {i - 1 : i \in {j \in DOMAIN ps : IsSideChannelEntry(ps[j])}})

\* side_channel_run_start: the entries up to the last that is no record.
RunStart(ps) == Max({0} \union {n \in DOMAIN ps : ~ IsSideChannelEntry(ps[n])})

\* side_channel_index: the last entry of the run with that tag, 0 for none.
Index(ps, t) ==
  Max({0} \union {i \in RunStart(ps) + 1 .. Len(ps) : ps[i].stride = t})

ImagePlanes(ps) == SubSeq(ps, 1, RunStart(ps))

\* Bug: only the record the getter reports is removed.
RemoveOne(ps, t) ==
  LET i == Index(ps, t)
  IN  IF i = 0 THEN ps ELSE SubSeq(ps, 1, i - 1) \o SubSeq(ps, i + 1, Len(ps))

\* The entries at some places, in their order.
Picked(ps, places) == Kept({<<i, ps[i]>> : i \in places})

\* remove_side_channel: every entry of the run with that tag goes.
Remove(ps, t) ==
  Picked(ps, {i \in DOMAIN ps : i <= RunStart(ps) \/ ps[i].stride # t})

\* The setters: replace, and let empty bytes detach.
Put(ps, t, d) ==
  IF d = <<>> THEN Remove(ps, t)
              ELSE Append(Remove(ps, t), [stride |-> t, data |-> d])

\* The bytes of the record a getter finds, none for an absent one.
Data(ps, t) == LET i == Index(ps, t) IN IF i = 0 THEN <<>> ELSE ps[i].data

-----------------------------------------------------------------------------
(* The getters.  None is the empty answer. *)

Palette == Data(planes, "palette")

PaletteRgb(i) ==
  IF 3 * i + 3 <= Len(Palette) THEN SubSeq(Palette, 3 * i + 1, 3 * i + 3) ELSE <<>>

PaletteAlpha ==
  LET alpha == Data(planes, "alpha")
      entries == EntryCount(Palette)
  IN  IF entries > 0 /\ Len(alpha) <= entries THEN alpha ELSE <<>>

PaletteRgba(i) ==
  LET rgb == PaletteRgb(i)
  IN  IF rgb = <<>> THEN <<>>
      ELSE <<rgb[1], rgb[2], rgb[3],
             IF i < Len(PaletteAlpha) THEN PaletteAlpha[i + 1] ELSE Opaque>>

SignificantBits == Data(planes, "bits")
PlaneSignificantBits(i) == ByteAt(SignificantBits, i)

Blobs == DecodeBlobs(Data(planes, "blobs"))

-----------------------------------------------------------------------------
Init ==
  /\ planes \in Frames
  /\ reply = <<>>
  /\ calls = 0

(* The setters; with_* are the same on an owned frame. *)

Attach(t, d) == planes' = Put(planes, t, d) /\ reply' = <<>>

SetPalette(rgb) == Attach("palette", rgb)
SetPaletteAlpha(alpha) == Attach("alpha", alpha)
SetSignificantBits(bits) == Attach("bits", bits)
SetColorSignal(signal) == Attach("color", signal)
SetLayer(layer) == Attach("layer", layer)
SetBlobs(encoded) == Attach("blobs", encoded)

\* set_palette_rgba with n entries.
SetPaletteRgba(n) ==
  /\ planes' = Put(Put(planes, "palette", [i \in 1 .. 3 * n |-> 0]),
                   "alpha", [i \in 1 .. n |-> 0])
  /\ reply' = <<>>

PushBlob(b) == SetBlobs(EncodeBlobs(Append(Blobs, b)))

(* take_*: an answer, and the record is gone even when it was unreadable. *)

Detach(t, answer) == planes' = Remove(planes, t) /\ reply' = answer

TakePalette == Detach("palette", Palette)
TakePaletteAlpha ==
  Detach("alpha", IF PaletteAlpha # <<>> THEN Data(planes, "alpha") ELSE <<>>)
TakeSignificantBits == Detach("bits", SignificantBits)
TakeColorSignal == Detach("color", DecodeFixed(Data(planes, "color")))
TakeLayer == Detach("layer", DecodeFixed(Data(planes, "layer")))
TakeBlobs == Detach("blobs", Blobs)

\* palette_rgba and plane_significant_bits.
LookUp(i) ==
  /\ reply' \in {PaletteRgba(i), PlaneSignificantBits(i)}
  /\ UNCHANGED planes

Next ==
  /\ calls < MaxCalls /\ calls' = calls + 1
  /\ \/ \E d \in Attachable["palette"] : SetPalette(d)
     \/ \E d \in Attachable["alpha"] : SetPaletteAlpha(d)
     \/ \E d \in Attachable["bits"] : SetSignificantBits(d)
     \/ \E d \in Attachable["color"] : SetColorSignal(d)
     \/ \E d \in Attachable["layer"] : SetLayer(d)
     \/ \E d \in Attachable["blobs"] : SetBlobs(d)
     \/ \E n \in PaletteSizes : SetPaletteRgba(n)
     \/ \E b \in BlobValues : PushBlob(b)
     \/ TakePalette \/ TakePaletteAlpha \/ TakeSignificantBits
     \/ TakeColorSignal \/ TakeLayer \/ TakeBlobs
     \/ \E i \in Indices : LookUp(i)

Spec == Init /\ [][Next]_vars

-----------------------------------------------------------------------------
ReservedRecords(ps) == Picked(ps, {i \in DOMAIN ps : ps[i].stride = "reserved"})

\* Whatever is attached or detached, in any order: no record operation adds,
\* drops, reorders or rewrites an image plane, entries with empty data included,
\* and a record of a kind this version does not know stays where it is in the
\* order of such records.
OthersKept ==
  [][/\ ImagePlanes(planes') = ImagePlanes(planes)
     /\ ReservedRecords(planes') = ReservedRecords(planes)]_vars

\* The frame behaves as image planes beside a table of records: attaching or
\* detaching one record changes what no other getter reports, a detached
\* record does not come back (not even a duplicate behind it), and take_*
\* returns what the getter would have.
Records == INSTANCE FrameRecords WITH
             images <- ImagePlanes(planes), rec <- [t \in Tags |-> Data(planes, t)]
ImplementsRecords == Records!Spec
=============================================================================
