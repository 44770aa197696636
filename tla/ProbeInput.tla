----------------------------- MODULE ProbeInput -----------------------------
(***************************************************************************)
(* Detecting the format of an input (probe_input of                        *)
(* src/registry/container.rs), step by step: the caller's input is a file  *)
(* or a socket behind Read and Seek, whose reads are short or interrupted  *)
(* and whose every operation may fail.  The registry is filled and does    *)
(* not change while it probes.                                             *)
(***************************************************************************)
EXTENDS Integers

CONSTANTS
  Lengths,      \* lengths of the inputs
  BufSize,      \* PROBE_BUF_SIZE, 256 KiB in the code
  MaxInterrupts, \* bound: interrupted reads in one call
  Registries    \* filled registries, [demuxers, extensions, probes]

\* A probe is shown the first bytes of the input; what it makes of them is a
\* function of how many there are.
CONSTANTS Names, Factories, Extensions, Lower, Inputs, Probes, Priorities
VARIABLES demuxers, muxers, extensions, extensionSeq, probes
Containers == INSTANCE ContainerRegistry

ASSUME ProbeInputAssumption ==
  /\ Lengths \subseteq Nat
  /\ BufSize \in Nat \ {0} /\ MaxInterrupts \in Nat
  /\ Inputs = 0 .. BufSize

VARIABLES
  length,      \* of the input
  cursor,      \* of the input
  pc,          \* where probe_input is
  saved,       \* saved_pos
  got,         \* bytes in the buffer
  ext,         \* the extension hint, "" for none
  answer,      \* what the last call returned: at most one name, or an error
  start,       \* the cursor when the call began
  seekFailed,  \* a seek of this call failed
  interrupts   \* interrupted reads of this call

registry == <<demuxers, muxers, extensions, extensionSeq, probes>>
call == <<saved, got, ext, start, seekFailed, interrupts>>
vars == <<registry, length, cursor, pc, answer, call>>

NotAsked == {"no call yet"}
Io == {"I/O error"}
LesserOf(a, b) == IF a < b THEN a ELSE b

Init ==
  /\ \E r \in Registries :
       /\ demuxers = r.demuxers /\ probes = r.probes /\ extensions = r.extensions
       /\ muxers = <<>> /\ extensionSeq = 0
  /\ length \in Lengths
  /\ cursor \in 0 .. length
  /\ pc = "idle"
  /\ saved = 0 /\ got = 0 /\ ext = "" /\ start = cursor
  /\ seekFailed = FALSE /\ interrupts = 0
  /\ answer = NotAsked

Return(value) == pc' = "idle" /\ answer' = value

\* stream_position, which may fail before anything has moved.
Begin(hint) ==
  /\ pc = "idle"
  /\ pc' = "rewind"
  /\ saved' = cursor /\ start' = cursor
  /\ got' = 0 /\ ext' = hint /\ seekFailed' = FALSE /\ interrupts' = 0
  /\ UNCHANGED <<registry, length, cursor, answer>>

BeginFails ==
  /\ pc = "idle"
  /\ Return(Io)
  /\ start' = cursor /\ seekFailed' = FALSE
  /\ UNCHANGED <<registry, length, cursor, saved, got, ext, interrupts>>

\* The caller uses the input between two calls.
Move(position) ==
  /\ pc = "idle"
  /\ cursor' = position /\ start' = position
  /\ seekFailed' = FALSE
  /\ UNCHANGED <<registry, length, pc, answer, saved, got, ext, interrupts>>

\* seek(Start(0)); a seek that fails leaves the cursor where it was.
Rewind ==
  /\ pc = "rewind"
  /\ cursor' = 0
  /\ pc' = "read"
  /\ UNCHANGED <<registry, length, answer, call>>

RewindFails ==
  /\ pc = "rewind"
  /\ Return(Io)
  /\ seekFailed' = TRUE
  /\ UNCHANGED <<registry, length, cursor, saved, got, ext, start, interrupts>>

\* Bug: one read is taken for all there is.
ReadOnce(n) ==
  /\ pc = "read" /\ got < BufSize
  /\ n \in 1 .. LesserOf(BufSize - got, length - cursor)
  /\ got' = got + n
  /\ cursor' = cursor + n
  /\ pc' = "restore"
  /\ UNCHANGED <<registry, length, answer, saved, ext, start, seekFailed, interrupts>>

\* A read returns any part of what is left.
Read(n) ==
  /\ pc = "read" /\ got < BufSize
  /\ n \in 1 .. LesserOf(BufSize - got, length - cursor)
  /\ got' = got + n
  /\ cursor' = cursor + n
  /\ UNCHANGED <<registry, length, pc, answer, saved, ext, start, seekFailed, interrupts>>

\* Bug: the buffer must fill before the loop ends.
ReadsEnoughFull ==
  /\ pc = "read"
  /\ got = BufSize
  /\ pc' = "restore"
  /\ UNCHANGED <<registry, length, cursor, answer, call>>

\* The loop ends with a full buffer or at the end of the input.
ReadsEnough ==
  /\ pc = "read"
  /\ got = BufSize \/ cursor = length
  /\ pc' = "restore"
  /\ UNCHANGED <<registry, length, cursor, answer, call>>

Interrupted ==
  /\ pc = "read" /\ got < BufSize
  /\ interrupts < MaxInterrupts
  /\ interrupts' = interrupts + 1
  /\ UNCHANGED <<registry, length, cursor, pc, answer, saved, got, ext, start, seekFailed>>

\* Bug: the error returns at once.
ReadFailsAtOnce ==
  /\ pc = "read" /\ got < BufSize
  /\ UNCHANGED <<cursor, seekFailed>>
  /\ Return(Io)
  /\ UNCHANGED <<registry, length, saved, got, ext, start, interrupts>>

\* Any other error: seek back as well as possible, then return the error.
ReadFails ==
  /\ pc = "read" /\ got < BufSize
  /\ \/ cursor' = saved /\ UNCHANGED seekFailed
     \/ UNCHANGED cursor /\ seekFailed' = TRUE
  /\ Return(Io)
  /\ UNCHANGED <<registry, length, saved, got, ext, start, interrupts>>

\* The probes, and the extension table, decide on what was read.
Restore ==
  /\ pc = "restore"
  /\ cursor' = saved
  /\ Return(Containers!Detect(got, ext))
  /\ UNCHANGED <<registry, length, call>>

RestoreFails ==
  /\ pc = "restore"
  /\ Return(Io)
  /\ seekFailed' = TRUE
  /\ UNCHANGED <<registry, length, cursor, saved, got, ext, start, interrupts>>

Progress ==
  \/ Rewind
  \/ \E n \in 1 .. BufSize : Read(n)
  \/ ReadsEnough
  \/ Restore

Failure == RewindFails \/ ReadFails \/ RestoreFails

Next ==
  \/ \E hint \in Extensions \union {""} : Begin(hint)
  \/ BeginFails
  \/ \E position \in 0 .. length : Move(position)
  \/ Progress
  \/ Failure
  \/ Interrupted

\* A call that was begun goes on while the input answers: it is one thread's
\* loop, and an input is not interrupted for ever.  Nothing need fail.
Spec == Init /\ [][Next]_vars /\ WF_vars(Progress)

-----------------------------------------------------------------------------
\* Whatever the call returned, a name, "not found" or an I/O error, the input
\* stands where the caller left it, unless a seek itself failed.
CursorRestored == pc = "idle" /\ ~ seekFailed => cursor = start

\* How the input arrived, in one piece or byte by byte, interrupted or not,
\* changes no answer: a detection is the registry's answer about the first
\* BufSize bytes of the input, or all there are.
ChunkingInvisible ==
  pc = "idle" /\ answer \notin {NotAsked, Io} =>
    answer = Containers!Detect(LesserOf(length, BufSize), ext)

\* Every call returns, however short the reads.
ProbeReturns == pc # "idle" ~> pc = "idle"
=============================================================================
