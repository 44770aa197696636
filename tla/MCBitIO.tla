------------------------------ MODULE MCBitIO ------------------------------
(***************************************************************************)
(* Bytes of two bits, an accumulator of three bytes and calls of at most   *)
(* two bytes: the code's 8, 64 and 32 made small, with a call and a byte   *)
(* still fitting the accumulator together.                                 *)
(***************************************************************************)
EXTENDS BitIO

MCStrings == { <<1, 0>>, <<0, 0, 1>>, <<0, 1, 1, 0, 1, 0>> }
=============================================================================
