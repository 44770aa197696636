---------------------------- MODULE FrameRecords ----------------------------
(***************************************************************************)
(* What a VideoFrame promises about its side channels: it has image planes *)
(* that no record operation touches and, independently of each other, at   *)
(* most one record of each kind.  Where the records sit among the planes,  *)
(* and in which order they were attached, cannot be told.                  *)
(***************************************************************************)
EXTENDS RecordWire

CONSTANTS
  Attachable,   \* per tag, the bytes a client may attach; <<>> detaches
  PaletteSizes, \* the lengths of the RGBA tables a client may attach
  BlobValues,   \* the metadata blobs a client may append
  Indices       \* the colours and planes a client asks about

VARIABLES
  images,   \* the image planes
  rec,      \* per tag, the bytes of the record
  reply     \* what the last take_* or lookup returned

vars == <<images, rec, reply>>

\* What is reported of record t.
Report(t) ==
  CASE t \in {"palette", "bits"} -> rec[t]
    [] t = "alpha" -> IF Len(rec[t]) <= EntryCount(rec["palette"]) THEN rec[t] ELSE <<>>
    [] t \in {"color", "layer"} -> DecodeFixed(rec[t])
    [] t = "blobs" -> DecodeBlobs(rec[t])

\* Colour i of the palette, opaque unless the alpha record says otherwise.
Colour(i) ==
  LET rgb == rec["palette"]
      alpha == Report("alpha")
  IN  IF i >= EntryCount(rgb) THEN <<>>
      ELSE <<rgb[3 * i + 1], rgb[3 * i + 2], rgb[3 * i + 3],
             IF i < Len(alpha) THEN alpha[i + 1] ELSE Opaque>>

\* set_palette_rgba's two records.
Rgb(n) == [i \in 1 .. 3 * n |-> 0]
AlphaOf(n) == [i \in 1 .. n |-> 0]

Init ==
  /\ rec \in [Tags -> Seq(Nat)]
  /\ reply = <<>>

\* Record t becomes d, and nothing else changes.
Becomes(t, d) ==
  /\ rec'[t] = d
  /\ \A u \in Tags \ {t} : rec'[u] = rec[u]
  /\ UNCHANGED images

Attach(t, d) == reply' = <<>> /\ Becomes(t, d)

AttachRgba(n) ==
  /\ reply' = <<>>
  /\ rec'["palette"] = Rgb(n) /\ rec'["alpha"] = AlphaOf(n)
  /\ \A u \in Tags \ {"palette", "alpha"} : rec'[u] = rec[u]
  /\ UNCHANGED images

AppendBlob(b) ==
  /\ reply' = <<>>
  /\ Becomes("blobs", EncodeBlobs(Append(Report("blobs"), b)))

Detach(t) == reply' = Report(t) /\ Becomes(t, <<>>)

LookUp(i) ==
  /\ reply' \in {Colour(i), ByteAt(rec["bits"], i)}
  /\ \A u \in Tags : rec'[u] = rec[u]
  /\ UNCHANGED images

Next ==
  \/ \E t \in Tags : \E d \in Attachable[t] : Attach(t, d)
  \/ \E n \in PaletteSizes : AttachRgba(n)
  \/ \E b \in BlobValues : AppendBlob(b)
  \/ \E t \in Tags : Detach(t)
  \/ \E i \in Indices : LookUp(i)

Spec == Init /\ [][Next]_vars
=============================================================================
