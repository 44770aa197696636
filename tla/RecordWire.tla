----------------------------- MODULE RecordWire -----------------------------
(***************************************************************************)
(* What the getters of a VideoFrame's side-channel records report, as a    *)
(* function of the raw bytes of each record (src/frame.rs, src/signal.rs,  *)
(* src/layer.rs, src/blob.rs).  A record that is absent has no bytes: the  *)
(* code never attaches an empty one.  A getter's None is the empty answer. *)
(***************************************************************************)
EXTENDS Integers, Sequences

CONSTANT WireLen   \* bytes of an encoded ColorSignal or LayerIdentity

ASSUME WireAssumption == WireLen \in Nat \ {0}

Tags == {"palette", "alpha", "bits", "color", "layer", "blobs"}

Opaque == 255   \* u8::MAX

\* The byte at index i, if there is one.
ByteAt(d, i) == IF i < Len(d) THEN <<d[i + 1]>> ELSE <<>>

\* Packed RGB, three bytes to an entry.
EntryCount(palette) == Len(palette) \div 3

\* ColorSignal::from_bytes, LayerIdentity::from_bytes: a record that is too
\* short is unreadable, what follows the encoded value is ignored.
DecodeFixed(d) == IF Len(d) >= WireLen THEN SubSeq(d, 1, WireLen) ELSE <<>>

\* encode_blobs / decode_blobs, one byte to a blob: a count, then the blobs.
\* A count that is not met exactly makes the whole record unreadable.
EncodeBlobs(bs) == IF bs = <<>> THEN <<>> ELSE <<Len(bs)>> \o bs
DecodeBlobs(d) == IF d # <<>> /\ Len(d) = 1 + d[1] THEN Tail(d) ELSE <<>>
=============================================================================
