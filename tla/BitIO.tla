------------------------------- MODULE BitIO -------------------------------
(***************************************************************************)
(* The bit writers and readers of src/bits.rs over one byte buffer: a      *)
(* writer packs bits through its accumulator, a reader then unpacks them   *)
(* through its own.                                                        *)
(*                                                                         *)
(* Bits are kept in stream order: the first bit of a byte, of a value and  *)
(* of an accumulator is the high one for BitReader/BitWriter and the low   *)
(* one for BitReaderLsb/BitWriterLsb.  In that order both pairs run the    *)
(* same steps but for the split of a word of more than MaxCall bits, and   *)
(* for the unary code, which only the first pair has.  A word's bits are   *)
(* not assembled into a number, so signed and unsigned forms coincide.     *)
(***************************************************************************)
EXTENDS Integers, Sequences

CONSTANTS
  ByteBits,  \* 8 in the code
  AccBits,   \* 64: bits in an accumulator
  MaxCall,   \* 32: bits one read or write moves
  Strings,   \* the bit strings a client writes
  Lengths,   \* the lengths it asks for
  MaxBits    \* bound: bits written

Bit == {0, 1}

ASSUME WordAssumption ==
  /\ ByteBits \in Nat \ {0} /\ AccBits \in Nat /\ MaxCall \in Nat \ {0}
  /\ AccBits % ByteBits = 0
  /\ MaxCall + ByteBits <= AccBits
ASSUME CallsAssumption ==
  /\ Strings \subseteq Seq(Bit) /\ \A bs \in Strings : Len(bs) <= 2 * MaxCall
  /\ Lengths \subseteq Nat

VARIABLES
  lsb,      \* which of the two pairs
  reading,  \* the writer is finished and a reader opened
  data,     \* the byte buffer, flattened to bits
  acc,      \* the accumulator of whichever is in use
  avail,    \* bits_in_acc
  bytePos,  \* the reader's byte_pos
  last      \* the last read: what was asked and answered

vars == <<lsb, reading, data, acc, avail, bytePos, last>>

Coder == [data |-> data, acc |-> acc, avail |-> avail, bytePos |-> bytePos]
Become(s) == data' = s.data /\ acc' = s.acc /\ avail' = s.avail /\ bytePos' = s.bytePos

Zeros(n) == [i \in 1 .. n |-> 0]
Empty == Zeros(AccBits)

\* Shift n bits out at the front, zeros come in behind.
Shift(a, n) == [i \in 1 .. AccBits |-> IF i + n <= AccBits THEN a[i + n] ELSE 0]

\* acc |= the bits bs shifted to stand behind the first n.
OrAt(a, n, bs) ==
  [i \in 1 .. AccBits |->
     IF i - n \in DOMAIN bs /\ bs[i - n] = 1 THEN 1 ELSE a[i]]

Drop(s, n) == [s EXCEPT !.acc = Shift(@, n), !.avail = @ - n]

\* What the turns 1 to n of a loop make of a value.
Turns(turn(_, _), start, n) ==
  LET after[i \in 0 .. n] == IF i = 0 THEN start ELSE turn(after[i - 1], i)
  IN  after[n]

\* A word of more than MaxCall bits is read and written in two parts.
FirstPart(n) == IF lsb THEN MaxCall ELSE n - MaxCall

-----------------------------------------------------------------------------
(* Writers.                                                                 *)

\* write_u32: up to MaxCall bits, full bytes move to the buffer.
Put(s, bs) ==
  LET a == OrAt(s.acc, s.avail, bs)
      n == s.avail + Len(bs)
      full == n - (n % ByteBits)
  IN  [s EXCEPT !.data = @ \o SubSeq(a, 1, full), !.acc = Shift(a, full), !.avail = n - full]

PutWord(s, bs) ==
  IF Len(bs) <= MaxCall THEN Put(s, bs)
  ELSE LET k == FirstPart(Len(bs))
       IN  Put(Put(s, SubSeq(bs, 1, k)), SubSeq(bs, k + 1, Len(bs)))

PutZeros(s, n) == Put(s, Zeros(n))

\* write_unary: zeros by the MaxCall, the rest of them, a one.
PutUnary(s, n) ==
  LET full(t, i) == PutZeros(t, MaxCall)
  IN  Put(PutZeros(Turns(full, s, n \div MaxCall), n % MaxCall), <<1>>)

\* write_bytes: straight into the buffer when aligned.
PutBytes(s, bs) ==
  LET byte(t, i) == Put(t, SubSeq(bs, (i - 1) * ByteBits + 1, i * ByteBits))
  IN  IF s.avail % ByteBits = 0 THEN [s EXCEPT !.data = @ \o bs]
      ELSE Turns(byte, s, Len(bs) \div ByteBits)

\* finish: a partial byte is padded with zeros.
Finished(s) ==
  [s EXCEPT !.data = IF s.avail > 0 THEN @ \o SubSeq(s.acc, 1, ByteBits) ELSE @,
            !.acc = Empty, !.avail = 0]

-----------------------------------------------------------------------------
(* Readers.  An answer is [ok, bits, to], to being the reader afterwards.   *)

Bytes(s) == Len(s.data) \div ByteBits

\* Bug: one more byte is loaded than the accumulator has room for.
RefillOver(s) ==
  LET room == (AccBits - s.avail + ByteBits - 1) \div ByteBits
      k == IF room < Bytes(s) - s.bytePos THEN room ELSE Bytes(s) - s.bytePos
      loaded == SubSeq(s.data, s.bytePos * ByteBits + 1, (s.bytePos + k) * ByteBits)
  IN  [s EXCEPT !.acc = OrAt(@, s.avail, loaded), !.avail = @ + k * ByteBits,
                !.bytePos = @ + k]

\* refill: as many whole bytes as there are and as have room.
Refill(s) ==
  LET room == (AccBits - s.avail) \div ByteBits
      k == IF room < Bytes(s) - s.bytePos THEN room ELSE Bytes(s) - s.bytePos
      loaded == SubSeq(s.data, s.bytePos * ByteBits + 1, (s.bytePos + k) * ByteBits)
  IN  [s EXCEPT !.acc = OrAt(@, s.avail, loaded), !.avail = @ + k * ByteBits,
                !.bytePos = @ + k]

Ensure(s, n) == IF s.avail < n THEN Refill(s) ELSE s

\* peek_u32
Seen(s, n) ==
  LET f == Ensure(s, n)
  IN  IF f.avail < n THEN [ok |-> FALSE, bits |-> <<>>, to |-> f]
                     ELSE [ok |-> TRUE, bits |-> SubSeq(f.acc, 1, n), to |-> f]

\* read_u32, continuing an answer that got as far as here.
Got(answer, n) ==
  LET seen == Seen(answer.to, n)
  IN  IF ~ answer.ok THEN answer
      ELSE IF seen.ok
        THEN [ok |-> TRUE, bits |-> answer.bits \o seen.bits, to |-> Drop(seen.to, n)]
        ELSE seen

Begun(s) == [ok |-> TRUE, bits |-> <<>>, to |-> s]

\* read_u64
GotWord(s, n) ==
  IF n <= MaxCall THEN Got(Begun(s), n)
  ELSE Got(Got(Begun(s), FirstPart(n)), n - FirstPart(n))

\* skip: MaxCall at a time while more than that are left, then the rest.
Skipped(s, n) ==
  LET k == IF n = 0 THEN 0 ELSE (n - 1) \div MaxCall
      full(answer, i) == Got(answer, MaxCall)
  IN  Got(Turns(full, Begun(s), k), n - k * MaxCall)

LeadingZeros(a) == CHOOSE n \in 0 .. AccBits :
  (\A i \in 1 .. n : a[i] = 0) /\ (n < AccBits => a[n + 1] = 1)

\* One turn of read_unary's loop: the zeros of one accumulator.
Run(u, i) ==
  LET f == IF u.to.avail = 0 THEN Refill(u.to) ELSE u.to
      n == LeadingZeros(f.acc)
      m == IF n < f.avail THEN n ELSE f.avail
  IN  IF u.done THEN u
      ELSE IF f.avail = 0 THEN [done |-> TRUE, ok |-> FALSE, count |-> u.count, to |-> f]
      ELSE IF m < n \/ m = f.avail
        THEN [u EXCEPT !.count = @ + m, !.to = Drop(f, m)]
        ELSE [done |-> TRUE, ok |-> TRUE, count |-> u.count + m, to |-> Drop(f, m + 1)]

\* read_unary; a turn that does not end it consumes a bit.
Unary(s) ==
  Turns(Run, [done |-> FALSE, ok |-> FALSE, count |-> 0, to |-> s], Len(s.data) + 1)

-----------------------------------------------------------------------------
Init ==
  /\ lsb \in BOOLEAN
  /\ reading = FALSE
  /\ data = <<>> /\ acc = Empty /\ avail = 0 /\ bytePos = 0
  /\ last = [call |-> "new", n |-> 0, ok |-> TRUE, bits |-> <<>>]

Written == Len(data) + avail

WriteTo(s, n) ==
  /\ ~ reading /\ Written + n <= MaxBits
  /\ Become(s)
  /\ UNCHANGED <<lsb, reading, last>>

Write(bs) == WriteTo(PutWord(Coder, bs), Len(bs))
WriteUnary(n) == ~ lsb /\ WriteTo(PutUnary(Coder, n), n + 1)
WriteBytes(bs) == Len(bs) % ByteBits = 0 /\ WriteTo(PutBytes(Coder, bs), Len(bs))
AlignWriter == WriteTo(PutZeros(Coder, (- avail) % ByteBits), 0)

\* finish, then with_position(p); new is with_position(0).
Open(p) ==
  LET s == Finished(Coder)
  IN  /\ ~ reading
      /\ Become([s EXCEPT !.bytePos = IF p < Bytes(s) THEN p ELSE Bytes(s)])
      /\ reading' = TRUE
      /\ UNCHANGED <<lsb, last>>

Reply(call, n, answer, bs) ==
  /\ reading
  /\ Become(answer.to)
  /\ last' = [call |-> call, n |-> n, ok |-> answer.ok,
              bits |-> IF answer.ok THEN bs ELSE <<>>]
  /\ UNCHANGED <<lsb, reading>>

\* read_u32, read_u64 and the forms built on them
Read(n) ==
  LET answer == GotWord(Coder, n)
  IN  n <= 2 * MaxCall /\ Reply("read", n, answer, answer.bits)

Peek(n) == n <= MaxCall /\ Reply("peek", n, Seen(Coder, n), Seen(Coder, n).bits)

Skip(n) == Reply("skip", n, Skipped(Coder, n), <<>>)

ReadUnary ==
  LET u == Unary(Coder)
  IN  ~ lsb /\ Reply("unary", IF u.ok THEN u.count ELSE 0, u, <<>>)

\* read_bytes: from the byte the accumulator starts at, which is given up.
ReadBytes(n) ==
  LET start == bytePos - (avail \div ByteBits)
      ok == avail % ByteBits = 0 /\ start + n <= Bytes(Coder)
  IN  Reply("bytes", n,
        [ok |-> ok,
         to |-> IF ok THEN [Coder EXCEPT !.acc = Empty, !.avail = 0, !.bytePos = start + n]
                      ELSE Coder],
        SubSeq(data, start * ByteBits + 1, (start + n) * ByteBits))

AlignReader ==
  /\ reading
  /\ Become(Drop(Coder, avail % ByteBits))
  /\ UNCHANGED <<lsb, reading, last>>

Next ==
  \/ \E bs \in Strings : Write(bs)
  \/ \E n \in Lengths : WriteUnary(n)
  \/ \E bs \in Strings : WriteBytes(bs)
  \/ AlignWriter
  \/ \E p \in Lengths : Open(p)
  \/ \E n \in Lengths : Read(n)
  \/ \E n \in Lengths : Peek(n)
  \/ \E n \in Lengths : Skip(n)
  \/ \E n \in Lengths : ReadBytes(n)
  \/ ReadUnary
  \/ AlignReader

Spec == Init /\ [][Next]_vars

-----------------------------------------------------------------------------
\* Writer and reader implement one stream of bits: any mix of words, bytes,
\* unary codes, peeks, skips and alignment sees the bits that were written, in
\* order and each once, and a call fails exactly when too few are left.
Stream == INSTANCE BitStream WITH
            bits <- IF reading THEN data ELSE data \o SubSeq(acc, 1, avail),
            pos <- IF reading THEN bytePos * ByteBits - avail ELSE 0
ImplementsStream == Stream!Spec
=============================================================================
