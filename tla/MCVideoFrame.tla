---------------------------- MODULE MCVideoFrame ----------------------------
(***************************************************************************)
(* Small instances of VideoFrame.  One frame to start from is empty; the   *)
(* other has everything a producer may have put there: a record that a     *)
(* later image plane cuts off from the run, a plane of zero stride without *)
(* data, a record of a reserved kind, two records too short to be read, an *)
(* alpha record longer than any palette, and a duplicate.                  *)
(***************************************************************************)
EXTENDS VideoFrame

E(stride, data) == [stride |-> stride, data |-> data]
Image == E("plane", <<1>>)

MCFrames ==
  { <<>>,
    << E("bits", <<8>>), Image, E("palette", <<>>), E("reserved", <<7>>),
       E("layer", <<1>>), E("blobs", <<2, 8>>), E("bits", <<8>>),
       E("alpha", <<0, 0>>), E("bits", <<9>>) >> }

MCAttachable ==
  [t \in Tags |->
     CASE t = "palette" -> {<<>>, <<0>>, <<0, 0, 0>>}   \* <<0>> covers no entry
       [] t = "alpha" -> {<<>>, <<0>>}
       [] t = "bits" -> {<<>>, <<8>>}
       [] t = "color" -> {<<3, 3>>}
       [] t = "layer" -> {<<5, 5>>}
       [] t = "blobs" -> {<<>>, EncodeBlobs(<<4>>)}]
=============================================================================
