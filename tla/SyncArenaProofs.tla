--------------------------- MODULE SyncArenaProofs ---------------------------
(***************************************************************************)
(* Proofs about SyncArena, for every set of threads, capacity, width and   *)
(* set of requests.                                                        *)
(***************************************************************************)
EXTENDS SyncArena, FiniteSetTheorems, TLAPS

USE CapAssumption, RequestsAssumption, CountAssumption

-----------------------------------------------------------------------------
(* The arithmetic of one allocation.                                        *)

\* Rounding up reaches the next multiple of the alignment at or above the cursor.
LEMMA AlignUpBounds ==
  ASSUME NEW n \in Nat, NEW a \in Nat \ {0}
  PROVE  /\ AlignUp(n, a) \in Nat
         /\ AlignUp(n, a) >= n /\ AlignUp(n, a) < n + a
         /\ AlignUp(n, a) % a = 0
<1> DEFINE m == n + (a - 1)
<1>1. m \in Nat /\ m >= 0
  OBVIOUS
<1>2. m % a \in 0 .. (a - 1)
  BY <1>1
<1>3. AlignUp(n, a) = m - (m % a)
  BY DEF AlignUp
<1>4. AlignUp(n, a) \in Nat /\ AlignUp(n, a) >= n /\ AlignUp(n, a) < n + a
  BY <1>1, <1>2, <1>3
<1>5. m = a * (m \div a) + (m % a) /\ m \div a \in Int
  BY <1>1
<1>6. (a * (m \div a)) % a = 0
  BY <1>5
<1>7. QED
  BY <1>3, <1>4, <1>5, <1>6

\* The range computed for a request starts at or above the cursor and is
\* not reversed.
LEMMA RangeBounds ==
  ASSUME NEW c \in Nat, NEW r \in Requests
  PROVE  /\ Lo(c, r) \in Nat /\ Hi(c, r) \in Nat
         /\ c <= Lo(c, r) /\ Lo(c, r) <= Hi(c, r)
         /\ Lo(c, r) % r.align = 0
         /\ SliceAt(c, r) \in Slice
<1>1. r.size \in Nat /\ r.count \in Nat /\ r.align \in Nat \ {0}
  BY DEF Request
<1>2. BytesOf(r) \in Nat
  <2>1. \A x, y \in Nat : x * y \in Nat
    OBVIOUS
  <2>2. QED
    BY <1>1, <2>1 DEF BytesOf
<1>3. Lo(c, r) \in Nat /\ c <= Lo(c, r) /\ Lo(c, r) % r.align = 0
  BY <1>1, AlignUpBounds DEF Lo
<1>4. Hi(c, r) \in Nat /\ Lo(c, r) <= Hi(c, r)
  BY <1>2, <1>3 DEF Hi
<1>5. QED
  BY <1>1, <1>3, <1>4 DEF SliceAt, Slice

-----------------------------------------------------------------------------
(***************************************************************************)
(* The inductive invariant of the byte claims.  Slices are handed out in   *)
(* address order, each wholly below the cursor; a thread about to CAS has  *)
(* a range that fits and starts at a cursor value no later than today's,   *)
(* so a CAS that still finds this value extends the order.                 *)
(***************************************************************************)
SlicesOrdered ==
  \A i, j \in DOMAIN slices : i < j => slices[i].hi <= slices[j].lo

CasReady ==
  \A t \in Threads : pc[t] = "cas" => Fits(seen[t], req[t])

ClaimInv == TypeOK /\ SlicesWellPlaced /\ SlicesOrdered /\ CasReady

\* A fresh lease satisfies the claim invariant.
LEMMA ClaimInit == Init => ClaimInv
<1> SUFFICES ASSUME Init PROVE ClaimInv
  OBVIOUS
<1>1. TypeOK
  <2>1. cursor \in 0 .. Cap /\ allocCount \in 0 .. (CountMod - 1)
    BY DEF Init
  <2>2. /\ pc \in [Threads -> Points]
        /\ req \in [Threads -> Requests \union {NoCall}]
        /\ \A t \in Threads : pc[t] # "idle" => req[t] # NoCall
        /\ seen \in [Threads -> 0 .. Cap]
    BY DEF Init, Points
  <2>3. slices \in Seq(Slice)
    BY DEF Init
  <2>4. dirty \subseteq 0 .. (Cap - 1)
    BY DEF Init
  <2>5. wasReset \in BOOLEAN
    BY DEF Init
  <2>6. QED
    BY <2>1, <2>2, <2>3, <2>4, <2>5 DEF TypeOK
<1>2. SlicesWellPlaced /\ SlicesOrdered /\ CasReady
  BY DEF Init, SlicesWellPlaced, SlicesOrdered, CasReady
<1>3. QED
  BY <1>1, <1>2 DEF ClaimInv

\* The request of a thread inside alloc is one a client can make.
LEMMA ReqInRequests ==
  ASSUME TypeOK, NEW t \in Threads, pc[t] # "idle"
  PROVE  req[t] \in Requests
BY DEF TypeOK

\* Computing a candidate from the current cursor keeps the invariant.
LEMMA CandidateStep ==
  ASSUME ClaimInv, NEW t \in Threads, pc[t] # "idle", Candidate(t, cursor),
         UNCHANGED <<cursor, allocCount, req, slices, dirty, wasReset>>
  PROVE  ClaimInv'
<1> USE DEF ClaimInv
<1>1. TypeOK'
  BY DEF TypeOK, Candidate, Points
<1>2. SlicesWellPlaced' /\ SlicesOrdered'
  BY DEF SlicesWellPlaced, SlicesOrdered
<1>3. CasReady'
  <2> SUFFICES ASSUME NEW u \in Threads, pc'[u] = "cas"
               PROVE  Fits(seen'[u], req[u])
    BY DEF CasReady
  <2>1. CASE u = t
    BY <2>1 DEF Candidate, TypeOK
  <2>2. CASE u # t
    BY <2>2 DEF Candidate, TypeOK, CasReady
  <2>3. QED
    BY <2>1, <2>2
<1>4. QED
  BY <1>1, <1>2, <1>3

\* A successful CAS appends the claimed range above every earlier slice.
LEMMA CasWinStep ==
  ASSUME ClaimInv, NEW t \in Threads, CasWin(t)
  PROVE  ClaimInv'
<1> USE DEF ClaimInv
<1> DEFINE c == seen[t]
           r == req[t]
           s == SliceAt(c, r)
           n == Len(slices)
<1>1. r \in Requests /\ c = cursor /\ c \in Nat
  BY ReqInRequests DEF CasWin, TypeOK
<1>2. Fits(c, r)
  BY DEF CasWin, CasReady
<1>3. /\ Lo(c, r) \in Nat /\ Hi(c, r) \in Nat /\ Hi(c, r) <= Cap
      /\ c <= Lo(c, r) /\ Lo(c, r) <= Hi(c, r)
      /\ s \in Slice /\ Lo(c, r) % r.align = 0
  BY <1>1, <1>2, RangeBounds DEF Fits
<1>4. s.lo = Lo(c, r) /\ s.hi = Hi(c, r) /\ s.align = r.align
  BY DEF SliceAt
<1>5. slices \in Seq(Slice) /\ n \in Nat /\ slices' = Append(slices, s)
  BY DEF TypeOK, CasWin
<1>6. /\ DOMAIN slices' = 1 .. (n + 1)
      /\ \A i \in DOMAIN slices : slices'[i] = slices[i]
      /\ slices'[n + 1] = s
      /\ DOMAIN slices = 1 .. n
  BY <1>5, <1>3
<1>7. cursor' = Hi(c, r)
  BY DEF CasWin
<1>8. TypeOK'
  <2>1. slices' \in Seq(Slice)
    BY <1>5, <1>3
  <2>2. cursor' \in 0 .. Cap
    BY <1>7, <1>3
  <2>3. /\ pc' \in [Threads -> Points]
        /\ req' \in [Threads -> Requests \union {NoCall}]
        /\ seen' \in [Threads -> 0 .. Cap]
        /\ \A u \in Threads : pc'[u] # "idle" => req'[u] # NoCall
    BY DEF CasWin, Return, TypeOK, Points
  <2>4. QED
    BY <2>1, <2>2, <2>3 DEF TypeOK, CasWin
<1>9. SlicesWellPlaced'
  <2> SUFFICES ASSUME NEW i \in 1 .. (n + 1)
               PROVE  /\ slices'[i].lo <= slices'[i].hi
                      /\ slices'[i].hi <= cursor'
                      /\ slices'[i].hi <= Cap
                      /\ slices'[i].lo % slices'[i].align = 0
    BY <1>6 DEF SlicesWellPlaced
  <2>1. CASE i = n + 1
    BY <2>1, <1>3, <1>4, <1>6, <1>7
  <2>2. CASE i \in 1 .. n
    <3>1. slices'[i] = slices[i] /\ slices[i] \in Slice
      BY <2>2, <1>5, <1>6
    <3>2. cursor <= cursor'
      BY <1>1, <1>3, <1>7
    <3>3. slices[i].hi <= cursor /\ cursor \in Nat /\ cursor' \in Nat /\ slices[i].hi \in Nat
      BY <1>1, <1>3, <1>6, <1>7, <2>2, <3>1 DEF SlicesWellPlaced, Slice
    <3>4. QED
      BY <2>2, <3>1, <3>2, <3>3, <1>6 DEF SlicesWellPlaced
  <2>3. QED
    BY <2>1, <2>2, <1>5
<1>10. SlicesOrdered'
  <2> SUFFICES ASSUME NEW i \in 1 .. (n + 1), NEW j \in 1 .. (n + 1), i < j
               PROVE  slices'[i].hi <= slices'[j].lo
    BY <1>6 DEF SlicesOrdered
  <2>1. i \in 1 .. n /\ slices'[i] = slices[i] /\ slices[i] \in Slice
    BY <1>5, <1>6
  <2>2. CASE j = n + 1
    <3>1. slices[i].hi <= cursor /\ slices[i].hi \in Nat
      BY <2>1, <1>6 DEF SlicesWellPlaced, Slice
    <3>2. QED
      BY <2>1, <2>2, <3>1, <1>1, <1>3, <1>4, <1>6
  <2>3. CASE j \in 1 .. n
    BY <2>1, <2>3, <1>6 DEF SlicesOrdered
  <2>4. QED
    BY <2>2, <2>3, <1>5
<1>11. CasReady'
  BY DEF CasReady, CasWin, Return, TypeOK
<1>12. QED
  BY <1>8, <1>9, <1>10, <1>11

\* Every step of the arena keeps the claim invariant.
LEMMA ClaimNext == ClaimInv /\ [Next]_vars => ClaimInv'
<1> SUFFICES ASSUME ClaimInv, [Next]_vars PROVE ClaimInv'
  OBVIOUS
<1> USE DEF ClaimInv
<1>1. ASSUME NEW t \in Threads, NEW r \in Requests, Reserve(t, r)
      PROVE  ClaimInv'
  <2>1. allocCount' \in 0 .. (CountMod - 1)
    BY <1>1 DEF Reserve, TypeOK
  <2>2. r # NoCall
    BY ThreadsAssumption
  <2>3. TypeOK'
    BY <1>1, <2>1, <2>2 DEF Reserve, TypeOK, Points
  <2>4. SlicesWellPlaced' /\ SlicesOrdered' /\ CasReady'
    BY <1>1 DEF Reserve, TypeOK, SlicesWellPlaced, SlicesOrdered, CasReady
  <2>5. QED
    BY <2>3, <2>4
<1>2. ASSUME NEW t \in Threads, LoadCursor(t)
      PROVE  ClaimInv'
  BY <1>2, CandidateStep DEF LoadCursor
<1>3. ASSUME NEW t \in Threads, CasWin(t)
      PROVE  ClaimInv'
  BY <1>3, CasWinStep
<1>4. ASSUME NEW t \in Threads, CasFail(t)
      PROVE  ClaimInv'
  BY <1>4, CandidateStep DEF CasFail
<1>5. ASSUME NEW t \in Threads, RollBack(t)
      PROVE  ClaimInv'
  <2>1. allocCount' \in 0 .. (CountMod - 1)
    BY <1>5 DEF RollBack, TypeOK
  <2>2. TypeOK'
    BY <1>5, <2>1 DEF RollBack, Return, TypeOK, Points
  <2>3. SlicesWellPlaced' /\ SlicesOrdered' /\ CasReady'
    BY <1>5 DEF RollBack, Return, TypeOK, SlicesWellPlaced, SlicesOrdered, CasReady
  <2>4. QED
    BY <2>2, <2>3
<1>6. ASSUME NEW i \in DOMAIN slices, WriteSlice(i)
      PROVE  ClaimInv'
  <2>1. slices[i] \in Slice /\ slices[i].hi <= Cap
    BY DEF TypeOK, SlicesWellPlaced
  <2>2. slices[i].lo .. (slices[i].hi - 1) \subseteq 0 .. (Cap - 1)
    BY <2>1 DEF Slice
  <2>3. TypeOK'
    BY <1>6, <2>2 DEF WriteSlice, TypeOK
  <2>4. SlicesWellPlaced' /\ SlicesOrdered' /\ CasReady'
    BY <1>6 DEF WriteSlice, SlicesWellPlaced, SlicesOrdered, CasReady
  <2>5. QED
    BY <2>3, <2>4
<1>7. CASE Reset
  BY <1>7 DEF Reset, TypeOK, SlicesWellPlaced, SlicesOrdered, CasReady
<1>8. CASE UNCHANGED vars
  BY <1>8 DEF vars, TypeOK, SlicesWellPlaced, SlicesOrdered, CasReady
<1>9. QED
  BY <1>1, <1>2, <1>3, <1>4, <1>5, <1>6, <1>7, <1>8 DEF Next

\* The claim invariant holds in every reachable state.
THEOREM ClaimsInvariant == Spec => []ClaimInv
BY ClaimInit, ClaimNext, PTL DEF Spec

\* Type correctness, for every instance of the arena.
THEOREM TypeCorrect == Spec => []TypeOK
<1>1. ClaimInv => TypeOK
  BY DEF ClaimInv
<1>2. QED
  BY <1>1, ClaimsInvariant, PTL

\* Every slice handed out is in bounds, below used(), and aligned.
THEOREM WellPlaced == Spec => []SlicesWellPlaced
<1>1. ClaimInv => SlicesWellPlaced
  BY DEF ClaimInv
<1>2. QED
  BY <1>1, ClaimsInvariant, PTL

\* No two slices handed out share a byte, for any number of threads.
THEOREM Disjointness == Spec => []SlicesDisjoint
<1>1. ClaimInv => SlicesDisjoint
  <2> SUFFICES ASSUME ClaimInv,
                      NEW i \in DOMAIN slices, NEW j \in DOMAIN slices, i # j
               PROVE  (slices[i].lo .. (slices[i].hi - 1))
                        \intersect (slices[j].lo .. (slices[j].hi - 1)) = {}
    BY DEF SlicesDisjoint
  <2>1. /\ slices[i] \in Slice /\ slices[j] \in Slice
        /\ i \in Nat /\ j \in Nat
    BY DEF ClaimInv, TypeOK
  <2>2. slices[i].hi <= slices[j].lo \/ slices[j].hi <= slices[i].lo
    BY <2>1 DEF ClaimInv, SlicesOrdered
  <2>3. QED
    BY <2>1, <2>2 DEF Slice
<1>2. QED
  BY <1>1, ClaimsInvariant, PTL

-----------------------------------------------------------------------------
(***************************************************************************)
(* Zeroed memory.  A client writes through slices, which lie below the     *)
(* cursor, and the cursor moves back only in a reset.                      *)
(***************************************************************************)
LEMMA ZeroNext == ClaimInv /\ ZeroAboveCursor /\ [Next]_vars => ZeroAboveCursor'
<1> SUFFICES ASSUME ClaimInv, ZeroAboveCursor, [Next]_vars, ~ wasReset',
                    NEW b \in dirty'
             PROVE  b < cursor'
  BY DEF ZeroAboveCursor
<1>1. cursor \in Int /\ dirty \subseteq Int
  BY DEF ClaimInv, TypeOK
<1>2. ASSUME NEW t \in Threads, CasWin(t)
      PROVE  b < cursor'
  <2>1. req[t] \in Requests /\ cursor \in Nat
    BY <1>2, ReqInRequests DEF ClaimInv, TypeOK, CasWin
  <2>2. cursor' \in Int /\ cursor <= cursor'
    <3>1. /\ Lo(cursor, req[t]) \in Nat /\ Hi(cursor, req[t]) \in Nat
          /\ cursor <= Lo(cursor, req[t]) /\ Lo(cursor, req[t]) <= Hi(cursor, req[t])
      BY <2>1, RangeBounds
    <3>2. cursor' = Hi(cursor, req[t])
      BY <1>2 DEF CasWin
    <3>3. QED
      BY <2>1, <3>1, <3>2
  <2>3. b \in dirty /\ ~ wasReset
    BY <1>2 DEF CasWin
  <2>4. QED
    BY <1>1, <2>2, <2>3 DEF ZeroAboveCursor
<1>3. ASSUME NEW i \in DOMAIN slices, WriteSlice(i)
      PROVE  b < cursor'
  <2>1. CASE b \in dirty
    BY <1>3, <2>1 DEF WriteSlice, ZeroAboveCursor
  <2>2. CASE b \in slices[i].lo .. (slices[i].hi - 1)
    <3>1. slices[i] \in Slice /\ slices[i].hi <= cursor
      BY DEF ClaimInv, TypeOK, SlicesWellPlaced
    <3>2. QED
      BY <1>1, <1>3, <2>2, <3>1 DEF WriteSlice, Slice
  <2>3. QED
    BY <1>3, <2>1, <2>2 DEF WriteSlice
<1>4. CASE \/ \E t \in Threads, r \in Requests : Reserve(t, r)
           \/ \E t \in Threads : LoadCursor(t) \/ CasFail(t) \/ RollBack(t)
           \/ UNCHANGED vars
  BY <1>4 DEF Reserve, LoadCursor, CasFail, RollBack, vars, ZeroAboveCursor
<1>5. CASE Reset
  BY <1>5 DEF Reset
<1>6. QED
  BY <1>2, <1>3, <1>4, <1>5 DEF Next

\* Until the first reset no byte above the cursor has been written, so the
\* slice of the next alloc reads back as zeros.
THEOREM ZeroUntilReset == Spec => []ZeroAboveCursor
<1>1. Init => ZeroAboveCursor
  BY DEF Init, ZeroAboveCursor
<1>2. QED
  BY <1>1, ZeroNext, ClaimsInvariant, PTL DEF Spec

-----------------------------------------------------------------------------
(***************************************************************************)
(* The allocation counter.  It is the number of slices plus the number of  *)
(* calls in flight, modulo its width: each fetch_add adds one thread to    *)
(* InFlight, each success turns that thread into a slice, each fetch_sub   *)
(* takes it out again.                                                     *)
(***************************************************************************)

\* A quotient and a remainder in range determine the residue.
LEMMA Residue ==
  ASSUME NEW m \in Nat \ {0}, NEW q \in Int, NEW d \in 0 .. (m - 1)
  PROVE  (m * q + d) % m = d
<1> DEFINE x == m * q + d
           p == x \div m
           e == x % m
<1>1. x \in Int /\ p \in Int /\ e \in 0 .. (m - 1) /\ x = m * p + e
  <2>1. \A i \in Int : m * i \in Int
    OBVIOUS
  <2>2. x \in Int
    BY <2>1
  <2>3. QED
    BY <2>2
<1>2. m * (q - p) = e - d
  BY <1>1
<1>3. CASE q - p >= 1
  <2>1. m * (q - p) >= m
    BY <1>1, <1>3
  <2>2. QED
    BY <1>1, <1>2, <2>1
<1>4. CASE q - p <= -1
  <2>1. m * (q - p) <= -m
    BY <1>1, <1>4
  <2>2. QED
    BY <1>1, <1>2, <2>1
<1>5. CASE q - p = 0
  BY <1>1, <1>2, <1>5
<1>6. QED
  BY <1>1, <1>3, <1>4, <1>5

\* Wrapping u32 arithmetic keeps a residue a residue.
LEMMA WrapAdd ==
  ASSUME NEW m \in Nat \ {0}, NEW x \in Nat
  PROVE  ((x % m) + 1) % m = (x + 1) % m
<1> DEFINE q == x \div m
           d == x % m
<1>1. q \in Nat /\ d \in 0 .. (m - 1) /\ x = m * q + d
  OBVIOUS
<1>2. CASE d + 1 < m
  <2>1. (x + 1) % m = d + 1
    <3>1. x + 1 = m * q + (d + 1) /\ d + 1 \in 0 .. (m - 1)
      BY <1>1, <1>2
    <3>2. QED
      BY <1>1, <3>1, Residue
  <2>2. (d + 1) % m = d + 1
    BY <1>1, <1>2
  <2>3. QED
    BY <2>1, <2>2
<1>3. CASE d + 1 = m
  <2>1. x + 1 = m * (q + 1)
    BY <1>1, <1>3
  <2>2. (m * (q + 1)) % m = 0
    BY <1>1
  <2>3. m % m = 0
    OBVIOUS
  <2>4. QED
    BY <1>3, <2>1, <2>2, <2>3
<1>4. QED
  BY <1>1, <1>2, <1>3

LEMMA WrapSub ==
  ASSUME NEW m \in Nat \ {0}, NEW x \in Nat \ {0}
  PROVE  ((x % m) + m - 1) % m = (x - 1) % m
<1> DEFINE q == x \div m
           d == x % m
<1>1. q \in Nat /\ d \in 0 .. (m - 1) /\ x = m * q + d
  OBVIOUS
<1>2. CASE d = 0
  <2>1. q >= 1
    BY <1>1, <1>2
  <2>2. x - 1 = m * (q - 1) + (m - 1)
    BY <1>1, <1>2
  <2>3. (x - 1) % m = m - 1
    <3>1. m - 1 \in 0 .. (m - 1) /\ q - 1 \in Int
      BY <1>1
    <3>2. QED
      BY <2>2, <3>1, Residue
  <2>4. (m - 1) % m = m - 1
    OBVIOUS
  <2>5. QED
    BY <1>2, <2>3, <2>4
<1>3. CASE d > 0
  <2>1. (x - 1) % m = d - 1
    <3>1. x - 1 = m * q + (d - 1) /\ d - 1 \in 0 .. (m - 1) /\ q \in Int
      BY <1>1, <1>3
    <3>2. (m * q + (d - 1)) % m = d - 1
      BY <3>1, Residue
    <3>3. QED
      BY <3>1, <3>2
  <2>2. (m + (d - 1)) % m = d - 1
    BY <1>1, <1>3
  <2>3. QED
    BY <1>1, <2>1, <2>2
<1>4. QED
  BY <1>1, <1>2, <1>3

\* The two sets of threads inside alloc are finite and nested.
LEMMA InFlightFinite ==
  /\ IsFiniteSet(InFlight) /\ IsFiniteSet(Reserved)
  /\ Cardinality(InFlight) \in Nat /\ Cardinality(Reserved) \in Nat
  /\ Cardinality(Reserved) <= Cardinality(InFlight)
  /\ Cardinality(InFlight) <= Cardinality(Threads)
  /\ Cardinality(Threads) \in Nat
<1>1. Reserved \subseteq InFlight /\ InFlight \subseteq Threads
  BY DEF Reserved, InFlight
<1>2. IsFiniteSet(Threads)
  BY ThreadsAssumption
<1>3. IsFiniteSet(InFlight) /\ IsFiniteSet(Reserved)
  BY <1>1, <1>2, FS_Subset
<1>4. QED
  BY <1>1, <1>2, <1>3, FS_Subset, FS_CardinalityType

\* How each step of alloc changes the set of threads inside it.
LEMMA InFlightStep ==
  ASSUME TypeOK, NEW t \in Threads
  PROVE  /\ \A r \in Requests : Reserve(t, r) =>
              /\ Cardinality(InFlight') = Cardinality(InFlight) + 1
              /\ IF allocCount >= AllocCountCap
                   THEN Reserved' = Reserved
                   ELSE Cardinality(Reserved') = Cardinality(Reserved) + 1
         /\ CasWin(t) =>
              /\ Cardinality(InFlight') = Cardinality(InFlight) - 1
              /\ Cardinality(Reserved') = Cardinality(Reserved) - 1
              /\ Cardinality(InFlight) > 0
         /\ RollBack(t) =>
              /\ Cardinality(InFlight') = Cardinality(InFlight) - 1
              /\ Cardinality(Reserved') <= Cardinality(Reserved)
              /\ Cardinality(InFlight) > 0
         /\ LoadCursor(t) \/ CasFail(t) =>
              InFlight' = InFlight /\ Reserved' = Reserved
<1>1. ASSUME NEW r \in Requests, Reserve(t, r)
      PROVE  /\ Cardinality(InFlight') = Cardinality(InFlight) + 1
             /\ IF allocCount >= AllocCountCap
                  THEN Reserved' = Reserved
                  ELSE Cardinality(Reserved') = Cardinality(Reserved) + 1
  <2>1. t \notin InFlight /\ t \notin Reserved
    BY <1>1 DEF Reserve, InFlight, Reserved
  <2>2. InFlight' = InFlight \union {t}
    BY <1>1 DEF Reserve, InFlight, TypeOK
  <2>3. IF allocCount >= AllocCountCap THEN Reserved' = Reserved
                                       ELSE Reserved' = Reserved \union {t}
    BY <1>1 DEF Reserve, Reserved, TypeOK
  <2>4. QED
    BY <2>1, <2>2, <2>3, InFlightFinite, FS_AddElement
<1>2. ASSUME CasWin(t)
      PROVE  /\ Cardinality(InFlight') = Cardinality(InFlight) - 1
             /\ Cardinality(Reserved') = Cardinality(Reserved) - 1
             /\ Cardinality(InFlight) > 0
  <2>1. t \in InFlight /\ t \in Reserved
    BY <1>2 DEF CasWin, InFlight, Reserved
  <2>2. InFlight' = InFlight \ {t} /\ Reserved' = Reserved \ {t}
    BY <1>2 DEF CasWin, Return, InFlight, Reserved, TypeOK
  <2>3. Cardinality(InFlight) > 0
    BY <2>1, InFlightFinite, FS_EmptySet
  <2>4. QED
    BY <2>1, <2>2, <2>3, InFlightFinite, FS_RemoveElement
<1>3. ASSUME RollBack(t)
      PROVE  /\ Cardinality(InFlight') = Cardinality(InFlight) - 1
             /\ Cardinality(Reserved') <= Cardinality(Reserved)
             /\ Cardinality(InFlight) > 0
  <2>1. t \in InFlight
    BY <1>3 DEF RollBack, InFlight
  <2>2. InFlight' = InFlight \ {t} /\ Reserved' = Reserved \ {t}
    BY <1>3 DEF RollBack, Return, InFlight, Reserved, TypeOK
  <2>3. QED
    BY <2>1, <2>2, InFlightFinite, FS_RemoveElement, FS_EmptySet, FS_Subset
<1>4. ASSUME LoadCursor(t) \/ CasFail(t)
      PROVE  InFlight' = InFlight /\ Reserved' = Reserved
  BY <1>4 DEF LoadCursor, CasFail, Candidate, InFlight, Reserved, TypeOK
<1>5. QED
  BY <1>1, <1>2, <1>3, <1>4

\* The counter is exact initially and after every step.
LEMMA CountInit == Init => CountExact
<1> SUFFICES ASSUME Init PROVE CountExact
  OBVIOUS
<1>1. InFlight = {} /\ Len(slices) = 0 /\ allocCount = 0
  BY DEF Init, InFlight
<1>2. Cardinality(InFlight) = 0
  BY <1>1, FS_EmptySet
<1>3. QED
  BY <1>1, <1>2 DEF CountExact

LEMMA CountNext == ClaimInv /\ CountExact /\ [Next]_vars => CountExact'
<1> SUFFICES ASSUME ClaimInv, CountExact, [Next]_vars PROVE CountExact'
  OBVIOUS
<1> DEFINE n == Len(slices)
           k == Cardinality(InFlight)
<1>1. /\ TypeOK /\ n \in Nat /\ k \in Nat
      /\ CountMod \in Nat \ {0}
      /\ allocCount = (n + k) % CountMod
  BY InFlightFinite DEF ClaimInv, TypeOK, CountExact
<1>2. ASSUME NEW t \in Threads, NEW r \in Requests, Reserve(t, r)
      PROVE  CountExact'
  <2>1. Cardinality(InFlight') = k + 1
    BY <1>1, <1>2, InFlightStep
  <2>2. allocCount' = (n + k + 1) % CountMod
    <3>1. (((n + k) % CountMod) + 1) % CountMod = ((n + k) + 1) % CountMod
      <4>1. \A x \in Nat : ((x % CountMod) + 1) % CountMod = (x + 1) % CountMod
        BY <1>1, WrapAdd
      <4>2. n + k \in Nat
        BY <1>1
      <4>3. QED
        BY <4>1, <4>2
    <3>2. allocCount' = (allocCount + 1) % CountMod
      BY <1>2 DEF Reserve
    <3>3. QED
      BY <1>1, <3>1, <3>2
  <2>3. Len(slices') = n
    BY <1>2 DEF Reserve
  <2>4. QED
    BY <1>1, <2>1, <2>2, <2>3 DEF CountExact
<1>3. ASSUME NEW t \in Threads, CasWin(t)
      PROVE  CountExact'
  <2>1. Cardinality(InFlight') = k - 1
    BY <1>1, <1>3, InFlightStep
  <2>2. Len(slices') = n + 1
    <3>1. slices \in Seq(Slice) /\ SliceAt(seen[t], req[t]) \in Slice
      BY <1>1, <1>3, ReqInRequests, RangeBounds DEF CasWin, TypeOK
    <3>2. QED
      BY <1>3, <3>1 DEF CasWin
  <2>3. QED
    BY <1>1, <1>3, <2>1, <2>2 DEF CountExact, CasWin
<1>4. ASSUME NEW t \in Threads, RollBack(t)
      PROVE  CountExact'
  <2>1. Cardinality(InFlight') = k - 1 /\ k > 0
    BY <1>1, <1>4, InFlightStep
  <2>2. allocCount' = (n + k - 1) % CountMod
    <3>1. n + k \in Nat \ {0}
      BY <1>1, <2>1
    <3>2. allocCount' = (allocCount + CountMod - 1) % CountMod
      BY <1>4 DEF RollBack
    <3>3. \A x \in Nat \ {0} :
            x % CountMod = allocCount => allocCount' = (x - 1) % CountMod
      BY <1>1, <3>2, WrapSub
    <3>4. QED
      BY <1>1, <3>1, <3>3
  <2>3. Len(slices') = n
    BY <1>4 DEF RollBack
  <2>4. QED
    BY <1>1, <2>1, <2>2, <2>3 DEF CountExact
<1>5. ASSUME NEW t \in Threads, LoadCursor(t) \/ CasFail(t)
      PROVE  CountExact'
  <2>1. InFlight' = InFlight /\ UNCHANGED <<slices, allocCount>>
    BY <1>1, <1>5, InFlightStep DEF LoadCursor, CasFail
  <2>2. QED
    BY <2>1 DEF CountExact
<1>6. CASE Reset
  <2>1. InFlight' = {} /\ Len(slices') = 0 /\ allocCount' = 0
    BY <1>6 DEF Reset, InFlight
  <2>2. Cardinality(InFlight') = 0
    BY <2>1, FS_EmptySet
  <2>3. QED
    BY <2>1, <2>2 DEF CountExact
<1>7. CASE \E i \in DOMAIN slices : WriteSlice(i)
  BY <1>7 DEF WriteSlice, CountExact, InFlight
<1>8. CASE UNCHANGED vars
  BY <1>8 DEF vars, CountExact, InFlight
<1>9. QED
  BY <1>2, <1>3, <1>4, <1>5, <1>6, <1>7, <1>8 DEF Next

\* alloc_count is exact modulo its width, for any number of threads.
THEOREM CountIsExact == Spec => []CountExact
BY ClaimsInvariant, CountInit, CountNext, PTL DEF Spec

-----------------------------------------------------------------------------
(***************************************************************************)
(* The count cap.  Slices and threads that passed the count check together *)
(* never exceed the cap, because a fetch_add that passes the check read a  *)
(* value that already counted them all.  This needs Headroom: were the u32 *)
(* counter to wrap, that value could be 0.                                 *)
(***************************************************************************)
ReservedWithinCap == Len(slices) + Cardinality(Reserved) <= AllocCountCap

\* A thread on its way to a slice serves a request whose size fits a usize.
SizeChecked ==
  \A t \in Threads : pc[t] \in {"load", "cas"} => ~ SizeOverflows(req[t])

CapInv == ClaimInv /\ CountExact /\ ReservedWithinCap /\ SizeChecked

\* With headroom the counter does not wrap.
LEMMA CounterUnwrapped ==
  ASSUME Headroom, ClaimInv, CountExact, ReservedWithinCap
  PROVE  allocCount = Len(slices) + Cardinality(InFlight)
<1>1. Len(slices) \in Nat
  BY DEF ClaimInv, TypeOK
<1>2. Len(slices) <= AllocCountCap
  BY <1>1, InFlightFinite DEF ReservedWithinCap
<1>3. Len(slices) + Cardinality(InFlight) \in 0 .. (CountMod - 1)
  BY <1>1, <1>2, InFlightFinite DEF Headroom
<1>4. \A x \in 0 .. (CountMod - 1) : x % CountMod = x
  OBVIOUS
<1>5. QED
  BY <1>3, <1>4 DEF CountExact

LEMMA CapInit == Init => CapInv
<1> SUFFICES ASSUME Init PROVE CapInv
  OBVIOUS
<1>1. Reserved = {} /\ Len(slices) = 0
  BY DEF Init, Reserved
<1>2. ReservedWithinCap
  BY <1>1, FS_EmptySet DEF ReservedWithinCap
<1>3. SizeChecked
  BY DEF Init, SizeChecked
<1>4. QED
  BY <1>2, <1>3, ClaimInit, CountInit DEF CapInv

\* No step takes the arena past its count cap.
LEMMA ReservedNext ==
  ASSUME Headroom, CapInv, [Next]_vars
  PROVE  ReservedWithinCap'
<1> DEFINE n == Len(slices)
           v == Cardinality(Reserved)
<1>1. /\ ClaimInv /\ CountExact /\ ReservedWithinCap /\ TypeOK
      /\ n \in Nat /\ v \in Nat /\ n + v <= AllocCountCap
      /\ allocCount = n + Cardinality(InFlight)
      /\ v <= Cardinality(InFlight) /\ Cardinality(InFlight) \in Nat
  BY InFlightFinite, CounterUnwrapped DEF CapInv, ClaimInv, TypeOK, ReservedWithinCap
<1>2. ASSUME NEW t \in Threads, NEW r \in Requests, Reserve(t, r)
      PROVE  ReservedWithinCap'
  <2>1. Len(slices') = n
    BY <1>2 DEF Reserve
  <2>2. CASE allocCount >= AllocCountCap
    <3>1. Reserved' = Reserved
      BY <1>1, <1>2, <2>2, InFlightStep
    <3>2. QED
      BY <1>1, <2>1, <3>1 DEF ReservedWithinCap
  <2>3. CASE ~ (allocCount >= AllocCountCap)
    <3>1. Cardinality(Reserved') = v + 1
      BY <1>1, <1>2, <2>3, InFlightStep
    <3>2. n + v + 1 <= AllocCountCap
      BY <1>1, <2>3
    <3>3. QED
      BY <1>1, <2>1, <3>1, <3>2 DEF ReservedWithinCap
  <2>4. QED
    BY <2>2, <2>3
<1>3. ASSUME NEW t \in Threads, CasWin(t)
      PROVE  ReservedWithinCap'
  <2>1. Cardinality(Reserved') = v - 1
    BY <1>1, <1>3, InFlightStep
  <2>2. Len(slices') = n + 1
    <3>1. slices \in Seq(Slice) /\ SliceAt(seen[t], req[t]) \in Slice
      BY <1>1, <1>3, ReqInRequests, RangeBounds DEF CasWin, TypeOK
    <3>2. QED
      BY <1>3, <3>1 DEF CasWin
  <2>3. QED
    BY <1>1, <2>1, <2>2 DEF ReservedWithinCap
<1>4. ASSUME NEW t \in Threads, RollBack(t)
      PROVE  ReservedWithinCap'
  <2>1. Cardinality(Reserved') <= v
    BY <1>1, <1>4, InFlightStep
  <2>2. Cardinality(Reserved') \in Nat
    <3>1. Reserved' \subseteq Reserved
      BY <1>1, <1>4 DEF RollBack, Return, Reserved, TypeOK
    <3>2. QED
      BY <3>1, InFlightFinite, FS_Subset, FS_CardinalityType
  <2>3. Len(slices') = n
    BY <1>4 DEF RollBack
  <2>4. QED
    BY <1>1, <2>1, <2>2, <2>3 DEF ReservedWithinCap
<1>5. ASSUME NEW t \in Threads, LoadCursor(t) \/ CasFail(t)
      PROVE  ReservedWithinCap'
  <2>1. Reserved' = Reserved /\ slices' = slices
    BY <1>1, <1>5, InFlightStep DEF LoadCursor, CasFail
  <2>2. QED
    BY <1>1, <2>1 DEF ReservedWithinCap
<1>6. CASE Reset
  <2>1. Reserved' = {} /\ Len(slices') = 0
    BY <1>6 DEF Reset, InFlight, Reserved
  <2>2. QED
    BY <2>1, FS_EmptySet DEF ReservedWithinCap
<1>7. CASE \E i \in DOMAIN slices : WriteSlice(i)
  <2>1. Reserved' = Reserved /\ slices' = slices
    BY <1>7 DEF WriteSlice, Reserved
  <2>2. QED
    BY <1>1, <2>1 DEF ReservedWithinCap
<1>8. CASE UNCHANGED vars
  <2>1. Reserved' = Reserved /\ slices' = slices
    BY <1>8 DEF vars, Reserved
  <2>2. QED
    BY <1>1, <2>1 DEF ReservedWithinCap
<1>9. QED
  BY <1>2, <1>3, <1>4, <1>5, <1>6, <1>7, <1>8 DEF Next

LEMMA SizeCheckedNext == ClaimInv /\ SizeChecked /\ [Next]_vars => SizeChecked'
<1> SUFFICES ASSUME ClaimInv, SizeChecked, [Next]_vars PROVE SizeChecked'
  OBVIOUS
<1> USE DEF ClaimInv, TypeOK, SizeChecked
<1>1. ASSUME NEW t \in Threads, NEW r \in Requests, Reserve(t, r)
      PROVE  SizeChecked'
  BY <1>1 DEF Reserve
<1>2. ASSUME NEW t \in Threads,
             LoadCursor(t) \/ CasWin(t) \/ CasFail(t) \/ RollBack(t)
      PROVE  SizeChecked'
  BY <1>2 DEF LoadCursor, CasWin, CasFail, RollBack, Return, Candidate
<1>3. CASE Reset \/ UNCHANGED vars \/ \E i \in DOMAIN slices : WriteSlice(i)
  BY <1>3 DEF Reset, vars, WriteSlice
<1>4. QED
  BY <1>1, <1>2, <1>3 DEF Next

LEMMA CapNext == ASSUME Headroom PROVE CapInv /\ [Next]_vars => CapInv'
BY ClaimNext, CountNext, ReservedNext, SizeCheckedNext DEF CapInv

\* With headroom the cap invariant holds in every reachable state.
THEOREM CapInvariant == ASSUME Headroom PROVE Spec => []CapInv
BY CapInit, CapNext, PTL DEF Spec

\* With headroom, no interleaving returns more slices than the count cap.
THEOREM WithinCap == ASSUME Headroom PROVE Spec => []SuccessesWithinCap
<1>1. CapInv => SuccessesWithinCap
  <2> SUFFICES ASSUME CapInv PROVE SuccessesWithinCap
    OBVIOUS
  <2>1. Len(slices) \in Nat
    BY DEF CapInv, ClaimInv, TypeOK
  <2>2. QED
    BY <2>1, InFlightFinite DEF CapInv, ReservedWithinCap, SuccessesWithinCap
<1>2. QED
  BY <1>1, CapInvariant, PTL

-----------------------------------------------------------------------------
(***************************************************************************)
(* Refinement: a successful CAS is BumpArena's Alloc, a write is a write,  *)
(* a reset is a reset, and every other step leaves its variables alone.    *)
(***************************************************************************)
LEMMA BumpArithmetic ==
  ASSUME NEW c, NEW r
  PROVE  /\ Bump!SizeOverflows(r) <=> SizeOverflows(r)
         /\ Bump!Fits(c, r) <=> Fits(c, r)
         /\ Bump!Hi(c, r) = Hi(c, r)
         /\ Bump!SliceAt(c, r) = SliceAt(c, r)
BY DEF Bump!SizeOverflows, SizeOverflows, Bump!BytesOf, BytesOf, Bump!Fits, Fits,
       Bump!AlignOverflows, AlignOverflows, Bump!Hi, Hi, Bump!Lo, Lo,
       Bump!AlignUp, AlignUp, Bump!SliceAt, SliceAt

\* A won CAS is an allocation the single-threaded arena would also grant.
LEMMA CasWinIsAlloc ==
  ASSUME Headroom, CapInv, NEW t \in Threads, CasWin(t)
  PROVE  Bump!Alloc(req[t]) /\ req[t] \in Requests
<1>1. req[t] \in Requests /\ cursor = seen[t]
  BY ReqInRequests DEF CapInv, ClaimInv, CasWin
<1>2. Fits(cursor, req[t]) /\ ~ SizeOverflows(req[t])
  BY <1>1 DEF CapInv, ClaimInv, CasReady, SizeChecked, CasWin
<1>3. Len(slices) + 1 <= AllocCountCap
  <2>1. Cardinality(Reserved) > 0
    <3>1. t \in Reserved
      BY DEF CasWin, Reserved
    <3>2. QED
      BY <3>1, InFlightFinite, FS_EmptySet
  <2>2. Len(slices) \in Nat
    BY DEF CapInv, ClaimInv, TypeOK
  <2>3. QED
    BY <2>1, <2>2, InFlightFinite DEF CapInv, ReservedWithinCap
<1>4. QED
  BY <1>1, <1>2, <1>3, BumpArithmetic DEF Bump!Alloc, CasWin

LEMMA BumpNext ==
  ASSUME Headroom, CapInv, [Next]_vars
  PROVE  [Bump!Next]_(Bump!vars)
<1>1. ASSUME NEW t \in Threads, CasWin(t)
      PROVE  Bump!Next
  BY <1>1, CasWinIsAlloc DEF Bump!Next
<1>2. ASSUME NEW t \in Threads,
             (\E r \in Requests : Reserve(t, r))
               \/ LoadCursor(t) \/ CasFail(t) \/ RollBack(t)
      PROVE  UNCHANGED Bump!vars
  BY <1>2 DEF Reserve, LoadCursor, CasFail, RollBack, Bump!vars
<1>3. ASSUME NEW i \in DOMAIN slices, WriteSlice(i)
      PROVE  Bump!Next
  BY <1>3 DEF WriteSlice, Bump!Write, Bump!Next
<1>4. CASE Reset
  BY <1>4 DEF Reset, Bump!Reset, Bump!Next
<1>5. CASE UNCHANGED vars
  BY <1>5 DEF vars, Bump!vars
<1>6. QED
  BY <1>1, <1>2, <1>3, <1>4, <1>5 DEF Next

\* With headroom the concurrent arena implements the single-threaded one.
THEOREM Refinement == ASSUME Headroom PROVE Spec => ImplementsBump
<1>1. Init => Bump!Init
  BY DEF Init, Bump!Init
<1>2. CapInv /\ [Next]_vars => [Bump!Next]_(Bump!vars)
  BY BumpNext
<1>3. QED
  BY <1>1, <1>2, CapInvariant, PTL DEF Spec, ImplementsBump, Bump!Spec
=============================================================================
