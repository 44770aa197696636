------------------------------ MODULE BumpArena ------------------------------
(***************************************************************************)
(* What an arena promises: the single-threaded Arena of src/arena/mod.rs,  *)
(* whose alloc has no intermediate state.  A refused alloc changes nothing *)
(* (every check precedes the two Cell::set calls), so it is a stuttering   *)
(* step.  sync::Arena claims to behave exactly like this one under         *)
(* concurrent callers; SyncArena is shown to implement it.                 *)
(***************************************************************************)
EXTENDS ArenaArith, Sequences

CONSTANT AllocCountCap   \* max_alloc_count_per_arena

VARIABLES
  cursor,    \* next free byte offset
  slices,    \* slices handed out since the lease or the last reset, in order
  dirty      \* byte offsets a client has written since the buffer was zeroed

vars == <<cursor, slices, dirty>>

\* alloc_count is Len(slices): the two change together, here and in the code.
Init ==
  /\ cursor = 0
  /\ slices = <<>>
  /\ dirty = {}

Alloc(r) ==
  /\ Len(slices) + 1 <= AllocCountCap
  /\ ~ SizeOverflows(r)
  /\ Fits(cursor, r)
  /\ slices' = Append(slices, SliceAt(cursor, r))
  /\ cursor' = Hi(cursor, r)
  /\ UNCHANGED dirty

\* The client writes through a slice it still borrows.
Write(i) ==
  /\ dirty' = dirty \union (slices[i].lo .. (slices[i].hi - 1))
  /\ UNCHANGED <<cursor, slices>>

\* &mut self: no slice is borrowed any more.  The buffer is not zeroed.
Reset ==
  /\ cursor' = 0
  /\ slices' = <<>>
  /\ UNCHANGED dirty

Next ==
  \/ \E r \in Requests : Alloc(r)
  \/ \E i \in DOMAIN slices : Write(i)
  \/ Reset

Spec == Init /\ [][Next]_vars
=============================================================================
