------------------------------ MODULE SyncArena ------------------------------
(***************************************************************************)
(* One leased sync::Arena (src/arena/sync.rs) under concurrent alloc calls *)
(* from several threads sharing &Arena.                                    *)
(*                                                                         *)
(* Every atomic operation of alloc is one action; the thread-local code    *)
(* between two atomics is folded into the first of them.  The program      *)
(* points of a thread are                                                  *)
(*   "idle"        not inside alloc                                        *)
(*   "load"        count reserved, about to read the cursor                *)
(*   "cas"         candidate range computed from seen[t], about to CAS     *)
(*   "undo_count"  over the count cap, about to give the reservation back  *)
(*   "undo_size"   the range overflows or does not fit, likewise           *)
(* All atomics are AcqRel/Acquire on a single location each, and no step   *)
(* relates the two, so interleaving their operations loses no behaviour.   *)
(***************************************************************************)
EXTENDS ArenaArith, Sequences, FiniteSets

CONSTANTS
  Threads,        \* the threads sharing the arena
  AllocCountCap,  \* max_alloc_count_per_arena
  CountMod,       \* 2^32 in the code: alloc_count is a u32
  NoCall          \* the request of a thread that is not inside alloc

ASSUME ThreadsAssumption == IsFiniteSet(Threads) /\ NoCall \notin Request
ASSUME CountAssumption ==
  /\ AllocCountCap \in Nat
  /\ CountMod \in Nat
  /\ AllocCountCap < CountMod

VARIABLES
  cursor,      \* AtomicUsize
  allocCount,  \* AtomicU32
  pc,          \* program point of each thread
  req,         \* the request each thread is serving
  seen,        \* the cursor value each thread last observed (`current`)
  slices,      \* history: slices returned since the lease or last reset
  dirty,       \* byte offsets written since the pool zeroed the buffer
  wasReset     \* history: reset was called during this lease

vars == <<cursor, allocCount, pc, req, seen, slices, dirty, wasReset>>

Points == {"idle", "load", "cas", "undo_count", "undo_size"}

\* Threads whose fetch_add is not yet matched by a success or a fetch_sub.
InFlight == {t \in Threads : pc[t] # "idle"}

\* Those of them that passed the count check and still may succeed.
Reserved == {t \in Threads : pc[t] \in {"load", "cas", "undo_size"}}

-----------------------------------------------------------------------------
\* A fresh lease: ArenaPool::lease builds the arena over a zeroed buffer.
Init ==
  /\ cursor = 0
  /\ allocCount = 0
  /\ pc = [t \in Threads |-> "idle"]
  /\ req = [t \in Threads |-> NoCall]
  /\ seen = [t \in Threads |-> 0]
  /\ slices = <<>>
  /\ dirty = {}
  /\ wasReset = FALSE

\* Bug: the count check lets one call too many through.
ReserveOffByOne(t, r) ==
  /\ pc[t] = "idle"
  /\ allocCount' = (allocCount + 1) % CountMod
  /\ req' = [req EXCEPT ![t] = r]
  /\ pc' = [pc EXCEPT ![t] =
              IF allocCount > AllocCountCap THEN "undo_count"
              ELSE IF SizeOverflows(r) THEN "undo_size"
              ELSE "load"]
  /\ UNCHANGED <<cursor, seen, slices, dirty, wasReset>>

\* fetch_add, the count check, and the size multiplication.
Reserve(t, r) ==
  /\ pc[t] = "idle"
  /\ allocCount' = (allocCount + 1) % CountMod
  /\ req' = [req EXCEPT ![t] = r]
  /\ pc' = [pc EXCEPT ![t] =
              IF allocCount >= AllocCountCap THEN "undo_count"
              ELSE IF SizeOverflows(r) THEN "undo_size"
              ELSE "load"]
  /\ UNCHANGED <<cursor, seen, slices, dirty, wasReset>>

\* The body of the loop up to the CAS, for an observed cursor value c.
Candidate(t, c) ==
  /\ seen' = [seen EXCEPT ![t] = c]
  /\ pc' = [pc EXCEPT ![t] = IF Fits(c, req[t]) THEN "cas" ELSE "undo_size"]

LoadCursor(t) ==
  /\ pc[t] = "load"
  /\ Candidate(t, cursor)
  /\ UNCHANGED <<cursor, allocCount, req, slices, dirty, wasReset>>

\* alloc returns; its locals go out of scope.
Return(t) ==
  /\ pc' = [pc EXCEPT ![t] = "idle"]
  /\ req' = [req EXCEPT ![t] = NoCall]
  /\ seen' = [seen EXCEPT ![t] = 0]

\* Bug: a plain store where the compare-exchange is.
CasWinBlind(t) ==
  /\ pc[t] = "cas"
  /\ cursor' = Hi(seen[t], req[t])
  /\ slices' = Append(slices, SliceAt(seen[t], req[t]))
  /\ Return(t)
  /\ UNCHANGED <<allocCount, dirty, wasReset>>

\* Bug: the cursor moves to the aligned start of the slice, not past its end.
CasWinToStart(t) ==
  /\ pc[t] = "cas"
  /\ cursor = seen[t]
  /\ cursor' = Lo(seen[t], req[t])
  /\ slices' = Append(slices, SliceAt(seen[t], req[t]))
  /\ Return(t)
  /\ UNCHANGED <<allocCount, dirty, wasReset>>

\* compare_exchange_weak succeeds: the slice is returned.
CasWin(t) ==
  /\ pc[t] = "cas"
  /\ cursor = seen[t]
  /\ cursor' = Hi(seen[t], req[t])
  /\ slices' = Append(slices, SliceAt(seen[t], req[t]))
  /\ Return(t)
  /\ UNCHANGED <<allocCount, dirty, wasReset>>

\* Bug: the retry does not take over the observed value.
CasFailNoRefresh(t) ==
  /\ pc[t] = "cas"
  /\ Candidate(t, seen[t])
  /\ UNCHANGED <<cursor, allocCount, req, slices, dirty, wasReset>>

\* compare_exchange_weak fails and the loop retries with the observed value.
\* A spurious failure observes seen[t] again: a stuttering step.
CasFail(t) ==
  /\ pc[t] = "cas"
  /\ Candidate(t, cursor)
  /\ UNCHANGED <<cursor, allocCount, req, slices, dirty, wasReset>>

\* Bug: an early return that forgets the fetch_sub.
RollBackForgotten(t) ==
  /\ pc[t] \in {"undo_count", "undo_size"}
  /\ allocCount' = IF pc[t] = "undo_size" THEN allocCount
                   ELSE (allocCount + CountMod - 1) % CountMod
  /\ Return(t)
  /\ UNCHANGED <<cursor, slices, dirty, wasReset>>

\* Bug: the reservation is given back twice.
RollBackTwice(t) ==
  /\ pc[t] \in {"undo_count", "undo_size"}
  /\ allocCount' = (allocCount + CountMod - 2) % CountMod
  /\ Return(t)
  /\ UNCHANGED <<cursor, slices, dirty, wasReset>>

\* fetch_sub, then ResourceExhausted is returned.
RollBack(t) ==
  /\ pc[t] \in {"undo_count", "undo_size"}
  /\ allocCount' = (allocCount + CountMod - 1) % CountMod
  /\ Return(t)
  /\ UNCHANGED <<cursor, slices, dirty, wasReset>>

\* A client writes through a slice it holds.
WriteSlice(i) ==
  /\ dirty' = dirty \union (slices[i].lo .. (slices[i].hi - 1))
  /\ UNCHANGED <<cursor, allocCount, pc, req, seen, slices, wasReset>>

\* reset(&mut self): no thread is inside alloc and no slice is borrowed.
Reset ==
  /\ InFlight = {}
  /\ cursor' = 0
  /\ allocCount' = 0
  /\ slices' = <<>>
  /\ wasReset' = TRUE
  /\ UNCHANGED <<pc, req, seen, dirty>>

\* What a thread inside alloc does next.
Advance(t) == LoadCursor(t) \/ CasWin(t) \/ CasFail(t) \/ RollBack(t)

Next ==
  \/ \E t \in Threads, r \in Requests : Reserve(t, r)
  \/ \E t \in Threads : LoadCursor(t)
  \/ \E t \in Threads : CasWin(t)
  \/ \E t \in Threads : CasFail(t)
  \/ \E t \in Threads : RollBack(t)
  \/ \E i \in DOMAIN slices : WriteSlice(i)
  \/ Reset

\* A thread inside alloc keeps running, and compare_exchange_weak does not
\* fail spuriously for ever.  Nothing obliges a client to call alloc.
Fairness == \A t \in Threads : WF_vars(Advance(t))

Spec == Init /\ [][Next]_vars

FairSpec == Spec /\ Fairness

-----------------------------------------------------------------------------
\* The shape of the state.
TypeOK ==
  /\ cursor \in 0 .. Cap
  /\ allocCount \in 0 .. (CountMod - 1)
  /\ pc \in [Threads -> Points]
  /\ req \in [Threads -> Requests \union {NoCall}]
  /\ \A t \in Threads : pc[t] # "idle" => req[t] # NoCall
  /\ seen \in [Threads -> 0 .. Cap]
  /\ slices \in Seq(Slice)
  /\ dirty \subseteq 0 .. (Cap - 1)
  /\ wasReset \in BOOLEAN

\* Two slices returned from one arena never share a byte, whatever the
\* interleaving of the CAS loops (the safety argument of alloc's unsafe
\* block, sync.rs 399-420).
SlicesDisjoint ==
  \A i, j \in DOMAIN slices :
    i # j => (slices[i].lo .. (slices[i].hi - 1))
               \intersect (slices[j].lo .. (slices[j].hi - 1)) = {}

\* Every returned slice lies inside the buffer, below the cursor that used()
\* reports (which FrameInner::new trusts as the written region), and starts
\* at a multiple of its element alignment.
SlicesWellPlaced ==
  \A i \in DOMAIN slices :
    /\ slices[i].lo <= slices[i].hi
    /\ slices[i].hi <= cursor
    /\ slices[i].hi <= Cap
    /\ slices[i].lo % slices[i].align = 0

\* The counter is the number of slices returned plus the calls in flight: no
\* error path of alloc forgets its fetch_sub and none runs it twice, so a
\* quiet arena reports exactly the allocations performed.
CountExact ==
  allocCount = (Len(slices) + Cardinality(InFlight)) % CountMod

\* The u32 counter has room for every thread's transient increment above the
\* cap, as it has for any cap but the last few values of a u32.
Headroom == AllocCountCap + Cardinality(Threads) < CountMod

\* No interleaving hands out more slices than the count cap allows, however
\* the fetch_add, its check and the fetch_sub of other calls interleave.
SuccessesWithinCap == Len(slices) <= AllocCountCap

\* Until the first reset the bytes above the cursor are the pool's zeros, so
\* the next slice reads back as zeros (alloc's documented contract).
ZeroAboveCursor == ~ wasReset => \A b \in dirty : b < cursor

\* Every alloc call returns: a loser of the CAS race retries only because
\* somebody else succeeded, and the caps bound how often that happens.
AllocReturns == \A t \in Threads : pc[t] # "idle" ~> pc[t] = "idle"

\* The concurrent arena implements the single-threaded one: a successful CAS
\* is its alloc, every other step of alloc is invisible.
Bump == INSTANCE BumpArena
ImplementsBump == Bump!Spec

-----------------------------------------------------------------------------
\* The documented contract of alloc (sync.rs 270-277): a slice, as handed out,
\* reads back as zeros.  reset keeps the written bytes, so it fails after one.
FreshSliceIsZero ==
  [][Len(slices') = Len(slices) + 1 =>
       LET s == slices'[Len(slices')]
       IN  (s.lo .. (s.hi - 1)) \intersect dirty = {}]_vars
=============================================================================
