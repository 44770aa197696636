-------------------------- MODULE ProbeInputProofs --------------------------
(***************************************************************************)
(* Proofs about ProbeInput, for every registry, buffer size and input and  *)
(* any number of interruptions.                                            *)
(***************************************************************************)
EXTENDS ProbeInput, TLAPS

USE ProbeInputAssumption

-----------------------------------------------------------------------------
(***************************************************************************)
(* The inductive invariant.  While a call runs, its bookmark is the        *)
(* caller's position and no seek has failed; while it reads, the buffer    *)
(* holds exactly the bytes in front of the cursor, however they came; when *)
(* it stops reading, that is all it will ever see.                         *)
(***************************************************************************)
TypeOK ==
  /\ length \in Nat
  /\ cursor \in 0 .. length
  /\ start \in 0 .. length
  /\ got \in 0 .. BufSize
  /\ pc \in {"idle", "rewind", "read", "restore"}

Bookmarked == pc # "idle" => saved = start /\ ~ seekFailed

BufferIsPrefix ==
  /\ pc = "rewind" => got = 0
  /\ pc = "read" => got = cursor

BufferComplete == pc = "restore" => got = LesserOf(length, BufSize)

ProbeInv ==
  /\ TypeOK /\ Bookmarked /\ BufferIsPrefix /\ BufferComplete
  /\ CursorRestored /\ ChunkingInvisible

-----------------------------------------------------------------------------
\* What the registry makes of the input in hand.
Verdict == Containers!Detect(LesserOf(length, BufSize), ext)

\* Nothing registers while an input is probed, so that verdict stands while
\* the input and the hint do.
LEMMA VerdictStands ==
  ASSUME UNCHANGED <<registry, length, ext>>
  PROVE  Verdict' = Verdict
<1> DEFINE n == LesserOf(length, BufSize)
<1>1. probes' = probes /\ extensions' = extensions /\ ext' = ext
  BY DEF registry
<1>2. n' = n
  BY DEF LesserOf
<1>3. Containers!ContainerForExtension(ext)' = Containers!ContainerForExtension(ext)
  BY <1>1 DEF Containers!ContainerForExtension
<1>4. Containers!ProbeCandidates(n)' = Containers!ProbeCandidates(n)
  <2> HIDE DEF n
  <2>1. QED
    BY <1>1, <1>2 DEF Containers!ProbeCandidates, Containers!Scores
<1>5. QED
  BY <1>1, <1>3, <1>4 DEF Verdict, Containers!Detect

LEMMA LesserOfIs ==
  ASSUME NEW a \in Int, NEW b \in Int
  PROVE  LesserOf(a, b) \in {a, b} /\ LesserOf(a, b) <= a /\ LesserOf(a, b) <= b
BY DEF LesserOf

LEMMA ProbeInit == Init => ProbeInv
<1> SUFFICES ASSUME Init PROVE ProbeInv
  OBVIOUS
<1>1. TypeOK
  <2>1. /\ length \in Nat /\ cursor \in 0 .. length /\ start = cursor
        /\ got = 0 /\ pc = "idle"
    BY DEF Init
  <2>2. QED
    BY <2>1 DEF TypeOK
<1>2. Bookmarked /\ BufferIsPrefix /\ BufferComplete /\ CursorRestored
  BY DEF Init, Bookmarked, BufferIsPrefix, BufferComplete, CursorRestored
<1>3. ChunkingInvisible
  BY DEF Init, ChunkingInvisible
<1>4. QED
  BY <1>1, <1>2, <1>3 DEF ProbeInv

-----------------------------------------------------------------------------
\* A call begins, or cannot even begin, or the caller moves the cursor.
LEMMA BeginStep ==
  ASSUME ProbeInv, NEW hint, Begin(hint)
  PROVE  ProbeInv'
<1>1. TypeOK'
  BY DEF ProbeInv, Begin, TypeOK
<1>2. QED
  BY <1>1 DEF ProbeInv, Begin, Bookmarked, BufferIsPrefix, BufferComplete, CursorRestored,
              ChunkingInvisible

LEMMA OutsideStep ==
  ASSUME ProbeInv, BeginFails \/ \E position \in 0 .. length : Move(position)
  PROVE  ProbeInv'
<1> USE DEF ProbeInv
<1>1. CASE BeginFails
  BY <1>1 DEF BeginFails, Return, TypeOK, Bookmarked, BufferIsPrefix, BufferComplete,
              CursorRestored, ChunkingInvisible, Io
<1>2. ASSUME NEW position \in 0 .. length, Move(position) PROVE ProbeInv'
  <2>1. ChunkingInvisible'
    <3>1. Verdict' = Verdict
      BY <1>2, VerdictStands DEF Move
    <3>2. QED
      BY <1>2, <3>1 DEF Move, ChunkingInvisible, Verdict
  <2>2. QED
    BY <1>2, <2>1 DEF Move, TypeOK, Bookmarked, BufferIsPrefix, BufferComplete, CursorRestored
<1>3. QED
  BY <1>1, <1>2

\* Steps of a call that goes on reading: the buffer stays the bytes in front
\* of the cursor, and the loop ends with all of them.
LEMMA ReadingStep ==
  ASSUME ProbeInv,
         Rewind \/ (\E n \in 1 .. BufSize : Read(n)) \/ ReadsEnough \/ Interrupted
  PROVE  ProbeInv'
<1> USE DEF ProbeInv
<1>1. CASE Rewind
  BY <1>1 DEF Rewind, call, TypeOK, Bookmarked, BufferIsPrefix, BufferComplete,
              CursorRestored, ChunkingInvisible
<1>2. ASSUME NEW n \in 1 .. BufSize, Read(n) PROVE ProbeInv'
  <2>1. n <= BufSize - got /\ n <= length - cursor
    BY <1>2, LesserOfIs DEF Read, TypeOK
  <2>2. TypeOK'
    BY <1>2, <2>1 DEF Read, TypeOK
  <2>3. QED
    BY <1>2, <2>2 DEF Read, TypeOK, Bookmarked, BufferIsPrefix, BufferComplete,
                      CursorRestored, ChunkingInvisible
<1>3. CASE ReadsEnough
  <2>1. got = LesserOf(length, BufSize)
    BY <1>3 DEF ReadsEnough, TypeOK, BufferIsPrefix, LesserOf
  <2>2. BufferComplete'
    BY <1>3, <2>1 DEF ReadsEnough, call, BufferComplete, LesserOf
  <2>3. QED
    BY <1>3, <2>2 DEF ReadsEnough, call, TypeOK, Bookmarked, BufferIsPrefix,
                      CursorRestored, ChunkingInvisible
<1>4. CASE Interrupted
  BY <1>4 DEF Interrupted, TypeOK, Bookmarked, BufferIsPrefix, BufferComplete,
              CursorRestored, ChunkingInvisible
<1>5. QED
  BY <1>1, <1>2, <1>3, <1>4

\* The call returns, with the registry's verdict or an error.
LEMMA ReturningStep ==
  ASSUME ProbeInv, Restore \/ Failure
  PROVE  ProbeInv'
<1> USE DEF ProbeInv
<1>1. CASE Restore
  <2>1. answer' = Verdict
    BY <1>1 DEF Restore, Return, BufferComplete, Verdict
  <2>2. Verdict' = Verdict
    BY <1>1, VerdictStands DEF Restore, call
  <2>3. ChunkingInvisible'
    BY <2>1, <2>2 DEF ChunkingInvisible, Verdict
  <2>4. QED
    BY <1>1, <2>3 DEF Restore, Return, call, TypeOK, Bookmarked, BufferIsPrefix,
                      BufferComplete, CursorRestored
<1>2. CASE Failure
  BY <1>2 DEF Failure, RewindFails, ReadFails, RestoreFails, Return, TypeOK, Bookmarked,
              BufferIsPrefix, BufferComplete, CursorRestored, ChunkingInvisible, Io
<1>3. QED
  BY <1>1, <1>2

LEMMA ProbeNext == ProbeInv /\ [Next]_vars => ProbeInv'
<1> SUFFICES ASSUME ProbeInv, [Next]_vars PROVE ProbeInv'
  OBVIOUS
<1>1. CASE Next
  BY <1>1, BeginStep, OutsideStep, ReadingStep, ReturningStep DEF Next, Progress
<1>2. CASE UNCHANGED vars
  <2>1. ChunkingInvisible'
    <3>1. Verdict' = Verdict
      BY <1>2, VerdictStands DEF vars, call
    <3>2. QED
      BY <1>2, <3>1 DEF vars, ProbeInv, ChunkingInvisible, Verdict
  <2>2. QED
    BY <1>2, <2>1 DEF vars, call, ProbeInv, TypeOK, Bookmarked, BufferIsPrefix, BufferComplete,
                      CursorRestored, LesserOf
<1>3. QED
  BY <1>1, <1>2

\* The invariant of a probe, which no fairness is needed for.
THEOREM ProbeInvariant == Spec => []ProbeInv
BY ProbeInit, ProbeNext, PTL DEF Spec

\* However a call ends, the input stands where the caller left it, unless a
\* seek itself failed.
THEOREM InputRestored == Spec => []CursorRestored
<1>1. ProbeInv => CursorRestored
  BY DEF ProbeInv
<1>2. QED
  BY <1>1, ProbeInvariant, PTL

\* Short and interrupted reads change no detection.
THEOREM ChunksDoNotShow == Spec => []ChunkingInvisible
<1>1. ProbeInv => ChunkingInvisible
  BY DEF ProbeInv
<1>2. QED
  BY <1>1, ProbeInvariant, PTL
=============================================================================
