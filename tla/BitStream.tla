----------------------------- MODULE BitStream -----------------------------
(***************************************************************************)
(* What the bit writers and readers of src/bits.rs promise together: a     *)
(* sequence of bits that is appended to, padded to whole bytes and then    *)
(* consumed from the front.  Words, refills and accumulators do not show.  *)
(***************************************************************************)
EXTENDS Integers, Sequences

CONSTANTS
  ByteBits,  \* bits in a byte
  Strings,   \* the bit strings a client writes
  Lengths    \* the lengths it asks for

VARIABLES
  bits,     \* the bits written
  reading,  \* the writer is finished and a reader opened
  pos,      \* bits the reader has consumed
  last      \* the last call: [call, n, ok, bits]

vars == <<bits, reading, pos, last>>

Zeros(n) == [i \in 1 .. n |-> 0]
Padding(n) == Zeros((- n) % ByteBits)

Remaining == Len(bits) - pos
Ahead(n) == SubSeq(bits, pos + 1, pos + n)

Answer(call, n, bs) == last' = [call |-> call, n |-> n, ok |-> TRUE, bits |-> bs]
Refuse(call, n) == last' = [call |-> call, n |-> n, ok |-> FALSE, bits |-> <<>>]

Init ==
  /\ bits = <<>> /\ reading = FALSE /\ pos = 0
  /\ last = [call |-> "new", n |-> 0, ok |-> TRUE, bits |-> <<>>]

Write(bs) == bits' = bits \o bs /\ UNCHANGED <<reading, pos, last>>

Open(p) ==
  /\ reading' = TRUE
  /\ bits' = bits \o Padding(Len(bits))
  /\ pos' = IF p * ByteBits > Len(bits') THEN Len(bits') ELSE p * ByteBits
  /\ UNCHANGED last

\* A word is read whole when its bits are there, however many steps that
\* takes inside; when they are not, some of the bits left may be lost.
Read(n) ==
  \/ n <= Remaining /\ Answer("read", n, Ahead(n)) /\ pos' = pos + n
  \/ n > Remaining /\ Refuse("read", n) /\ pos' \in pos .. Len(bits)

Skip(n) ==
  \/ n <= Remaining /\ Answer("skip", n, <<>>) /\ pos' = pos + n
  \/ n > Remaining /\ Refuse("skip", n) /\ pos' \in pos .. Len(bits)

Peek(n) ==
  /\ IF n <= Remaining THEN Answer("peek", n, Ahead(n)) ELSE Refuse("peek", n)
  /\ pos' = pos

\* Whole bytes, from a byte boundary only.
ReadBytes(n) ==
  IF pos % ByteBits = 0 /\ n * ByteBits <= Remaining
    THEN Answer("bytes", n, Ahead(n * ByteBits)) /\ pos' = pos + n * ByteBits
    ELSE Refuse("bytes", n) /\ pos' = pos

\* A run of zeros and the one that ends it.
ReadUnary ==
  \/ \E n \in 0 .. Remaining - 1 :
       /\ Ahead(n + 1) = Append(Zeros(n), 1)
       /\ Answer("unary", n, <<>>) /\ pos' = pos + n + 1
  \/ /\ Ahead(Remaining) = Zeros(Remaining)
     /\ Refuse("unary", 0) /\ pos' = Len(bits)

Align == pos' = pos + ((- pos) % ByteBits) /\ UNCHANGED last

Next ==
  \/ ~ reading /\ \E bs \in Strings : Write(bs)
  \/ ~ reading /\ \E n \in Lengths : Write(Append(Zeros(n), 1))
  \/ ~ reading /\ Write(Padding(Len(bits)))
  \/ ~ reading /\ \E p \in Lengths : Open(p)
  \/ /\ reading
     /\ \/ \E n \in Lengths : Read(n) \/ Skip(n) \/ Peek(n) \/ ReadBytes(n)
        \/ ReadUnary
        \/ Align
     /\ UNCHANGED <<bits, reading>>

Spec == Init /\ [][Next]_vars
=============================================================================
