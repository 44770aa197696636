--------------------------- MODULE ArenaPoolProofs ---------------------------
(***************************************************************************)
(* Proofs about ArenaPool, for any number of arenas, slots, handles and    *)
(* clones.                                                                 *)
(***************************************************************************)
EXTENDS ArenaPool, FiniteSetTheorems, TLAPS

USE CapAssumption, RequestsAssumption, PoolAssumption

\* A Frame exists exactly while it has clones.
FrameCounted == \A a \in Arenas : pc[a] = "frame" <=> clones[a] > 0

\* Arena::drop has zeroed the buffer before it takes the lock to push it.
PushedIsZero == \A a \in Arenas : pc[a] = "push" => content[buf[a]] = Zero

\* While the pool lives nothing it allocated is freed, ...
AliveHeap == PoolAlive => heap = 1 .. total

\* ... and once it is gone it holds nothing and an upgrade cannot revive it.
DeadPool ==
  /\ ~ PoolAlive => idle = <<>>
  /\ \A a \in Arenas : pc[a] = "free" => ~ PoolAlive

\* The inductive invariant.
PoolInv ==
  /\ TypeOK
  /\ OneOwner
  /\ HeapAccounted
  /\ NoStaleBytes
  /\ FrameCounted
  /\ PushedIsZero
  /\ AliveHeap
  /\ DeadPool

-----------------------------------------------------------------------------
\* The end of a claimed range is not negative.
LEMMA EndIsNat ==
  ASSUME NEW c \in Nat, NEW r \in Requests
  PROVE  Hi(c, r) \in Nat
<1>1. r.size \in Nat /\ r.count \in Nat /\ r.align \in Nat \ {0}
  BY DEF Request
<1>2. BytesOf(r) \in Nat
  <2>1. \A x, y \in Nat : x * y \in Nat
    OBVIOUS
  <2>2. QED
    BY <1>1, <2>1 DEF BytesOf
<1>3. Lo(c, r) \in Nat
  <2> DEFINE a == r.align
             m == c + (a - 1)
  <2>1. m \in Nat /\ a \in Nat \ {0}
    BY <1>1
  <2> HIDE DEF m, a
  <2>2. m % a \in 0 .. (a - 1) /\ m = a * (m \div a) + (m % a) /\ m \div a \in Nat
    BY <2>1
  <2>3. m - (m % a) \in Nat
    <3>1. a * (m \div a) \in Nat
      BY <2>1, <2>2
    <3>2. QED
      BY <2>1, <2>2, <3>1
  <2>4. QED
    BY <2>3 DEF Lo, AlignUp, m, a
<1>4. QED
  BY <1>2, <1>3 DEF Hi

-----------------------------------------------------------------------------
\* Names for the parts of OneOwner.
IdleDistinct == \A i, j \in DOMAIN idle : i # j => idle[i] # idle[j]

\* Popping the idle stack removes exactly its top from the idle set.
LEMMA IdlePop ==
  ASSUME idle \in Seq(Buffers), IdleDistinct, idle # <<>>,
         idle' = SubSeq(idle, 1, Len(idle) - 1)
  PROVE  /\ idle[Len(idle)] \in IdleSet
         /\ IdleSet' = IdleSet \ {idle[Len(idle)]}
         /\ IdleDistinct'
         /\ idle' \in Seq(Buffers)
<1> DEFINE n == Len(idle)
<1>1. n \in Nat \ {0} /\ DOMAIN idle = 1 .. n
  OBVIOUS
<1>2. /\ idle' \in Seq(Buffers)
      /\ DOMAIN idle' = 1 .. (n - 1)
      /\ \A i \in 1 .. (n - 1) : idle'[i] = idle[i]
  BY <1>1
<1>3. IdleDistinct'
  BY <1>1, <1>2 DEF IdleDistinct
<1>4. idle[n] \in IdleSet
  BY <1>1 DEF IdleSet
<1>5. IdleSet' = IdleSet \ {idle[n]}
  <2>1. ASSUME NEW b \in IdleSet'
        PROVE  b \in IdleSet \ {idle[n]}
    <3>1. PICK i \in 1 .. (n - 1) : b = idle[i]
      BY <1>2 DEF IdleSet
    <3>2. i \in 1 .. n /\ i # n /\ n \in 1 .. n
      <4>1. \A k \in Nat \ {0} : \A x \in 1 .. (k - 1) :
              x \in 1 .. k /\ x # k /\ k \in 1 .. k
        OBVIOUS
      <4>2. QED
        BY <1>1, <4>1
    <3>3. idle[i] # idle[n]
      BY <1>1, <3>2 DEF IdleDistinct
    <3>4. b \in IdleSet
      BY <1>1, <3>1, <3>2 DEF IdleSet
    <3>5. QED
      BY <3>1, <3>3, <3>4
  <2>2. ASSUME NEW b \in IdleSet \ {idle[n]}
        PROVE  b \in IdleSet'
    <3>1. PICK i \in 1 .. n : b = idle[i]
      BY <1>1 DEF IdleSet
    <3>2. i \in 1 .. (n - 1)
      BY <1>1, <3>1
    <3>3. QED
      BY <1>2, <3>1, <3>2 DEF IdleSet
  <2>3. QED
    BY <2>1, <2>2
<1>6. QED
  BY <1>2, <1>3, <1>4, <1>5

\* Pushing adds exactly the pushed buffer.
LEMMA IdlePush ==
  ASSUME idle \in Seq(Buffers), IdleDistinct, NEW b \in Buffers,
         b \notin IdleSet, idle' = Append(idle, b)
  PROVE  /\ IdleSet' = IdleSet \union {b}
         /\ IdleDistinct'
         /\ idle' \in Seq(Buffers)
<1> DEFINE n == Len(idle)
<1>1. /\ n \in Nat /\ DOMAIN idle = 1 .. n
      /\ idle' \in Seq(Buffers) /\ DOMAIN idle' = 1 .. (n + 1)
      /\ \A i \in 1 .. n : idle'[i] = idle[i]
      /\ idle'[n + 1] = b
  OBVIOUS
<1>2. IdleSet' = IdleSet \union {b}
  <2>1. ASSUME NEW x \in IdleSet'
        PROVE  x \in IdleSet \union {b}
    BY <1>1 DEF IdleSet
  <2>2. ASSUME NEW x \in IdleSet
        PROVE  x \in IdleSet'
    <3>1. PICK i \in 1 .. n : x = idle[i]
      BY <1>1 DEF IdleSet
    <3>2. i \in DOMAIN idle' /\ idle'[i] = x
      BY <1>1, <3>1
    <3>3. QED
      BY <3>2 DEF IdleSet
  <2>3. b \in IdleSet'
    <3>1. n + 1 \in DOMAIN idle'
      BY <1>1
    <3>2. QED
      BY <1>1, <3>1 DEF IdleSet
  <2>4. QED
    BY <2>1, <2>2, <2>3
<1>3. IdleDistinct'
  <2> SUFFICES ASSUME NEW i \in 1 .. (n + 1), NEW j \in 1 .. (n + 1), i < j
               PROVE  idle'[i] # idle'[j]
    BY <1>1 DEF IdleDistinct
  <2>1. i \in 1 .. n /\ idle'[i] = idle[i] /\ idle[i] \in IdleSet
    BY <1>1 DEF IdleSet
  <2>2. CASE j = n + 1
    BY <1>1, <2>1, <2>2
  <2>3. CASE j \in 1 .. n
    BY <1>1, <2>1, <2>3 DEF IdleDistinct
  <2>4. QED
    BY <1>1, <2>2, <2>3
<1>4. QED
  BY <1>1, <1>2, <1>3

-----------------------------------------------------------------------------
LEMMA PoolInit == Init => PoolInv
<1> SUFFICES ASSUME Init PROVE PoolInv
  OBVIOUS
<1>1. idle = <<>> /\ DOMAIN idle = {} /\ IdleSet = {} /\ Held = {} /\ Upgraded = {}
  BY DEF Init, IdleSet, Held, Upgraded
<1>2. TypeOK
  <2>1. idle \in Seq(Buffers) /\ \A a \in Arenas : <<>> \in Seq(Plane)
    BY <1>1
  <2>2. handles \in 0 .. MaxHandles /\ total \in 0 .. MaxArenas
    BY DEF Init
  <2>3. /\ heap \subseteq Buffers
        /\ content \in [Buffers -> Arenas \union {Zero}]
        /\ pc \in [Arenas -> Points]
        /\ buf \in [Arenas -> Buffers \union {NoBuffer}]
        /\ planes \in [Arenas -> Seq(Plane)]
    BY <2>1 DEF Init, Points
  <2>4. cursor \in [Arenas -> 0 .. Cap] /\ clones \in [Arenas -> 0 .. MaxClones]
    BY DEF Init
  <2>5. \A a \in Arenas : buf[a] = NoBuffer <=> pc[a] \in {"none", "unref"}
    BY DEF Init
  <2>6. QED
    BY <2>1, <2>2, <2>3, <2>4, <2>5 DEF TypeOK
<1>3. OneOwner /\ HeapAccounted /\ NoStaleBytes
  BY <1>1 DEF OneOwner, HeapAccounted, NoStaleBytes, Init
<1>4. FrameCounted /\ PushedIsZero
  BY DEF FrameCounted, PushedIsZero, Init
<1>5. AliveHeap /\ DeadPool
  BY <1>1 DEF AliveHeap, DeadPool, Init, PoolAlive
<1>6. QED
  BY <1>2, <1>3, <1>4, <1>5 DEF PoolInv

\* A buffer in a client's hands or in a destructor is a real buffer.
LEMMA HeldBuffer ==
  ASSUME TypeOK, NEW a \in Arenas, pc[a] \notin {"none", "unref"}
  PROVE  buf[a] \in Buffers /\ a \in Held
BY DEF TypeOK, Held

\* The last strong handle empties the idle list; any other leaves it alone.
LEMMA FreeIdleShape ==
  ASSUME TypeOK, FreeIdleIfLast
  PROVE  /\ \/ PoolAlive' /\ idle' = idle /\ heap' = heap
            \/ ~ PoolAlive' /\ idle' = <<>> /\ heap' = heap \ IdleSet
         /\ idle' \in Seq(Buffers)
         /\ heap' \subseteq Buffers
<1>1. CASE PoolAlive'
  BY <1>1 DEF FreeIdleIfLast, TypeOK
<1>2. CASE ~ PoolAlive'
  <2>1. idle' = <<>> /\ heap' = heap \ IdleSet
    BY <1>2 DEF FreeIdleIfLast
  <2>2. QED
    BY <1>2, <2>1 DEF TypeOK
<1>3. QED
  BY <1>1, <1>2

\* The shape of the state and the clone count survive every step.
LEMMA ShapeNext ==
  ASSUME PoolInv, [Next]_vars
  PROVE  TypeOK' /\ FrameCounted'
<1> USE DEF PoolInv
<1>1. ASSUME NEW a \in Arenas, LeaseIdle(a)
      PROVE  TypeOK' /\ FrameCounted'
  <2>1. idle' \in Seq(Buffers) /\ idle[Len(idle)] \in Buffers
    BY <1>1, IdlePop DEF LeaseIdle, TypeOK, OneOwner, IdleDistinct
  <2>2. idle[Len(idle)] # NoBuffer
    BY <2>1 DEF Buffers, NoBuffer
  <2>3. QED
    BY <1>1, <2>1, <2>2 DEF LeaseIdle, NewArena, TypeOK, Points, FrameCounted
<1>2. ASSUME NEW a \in Arenas, LeaseGrow(a)
      PROVE  TypeOK' /\ FrameCounted'
  <2>1. /\ total + 1 \in Buffers /\ total + 1 # NoBuffer
        /\ total' \in 0 .. MaxArenas
    BY <1>2 DEF LeaseGrow, TypeOK, Buffers, NoBuffer
  <2>2. QED
    BY <1>2, <2>1 DEF LeaseGrow, NewArena, TypeOK, Points, FrameCounted
<1>3. ASSUME NEW a \in Arenas, NEW r \in Requests, AllocAndWrite(a, r)
      PROVE  TypeOK' /\ FrameCounted'
  <2>1. buf[a] \in Buffers
    BY <1>3, HeldBuffer DEF AllocAndWrite
  <2>2. Hi(cursor[a], r) \in 0 .. Cap
    BY <1>3, EndIsNat DEF AllocAndWrite, Fits, TypeOK
  <2>3. QED
    BY <1>3, <2>1, <2>2 DEF AllocAndWrite, TypeOK, FrameCounted, poolVars
<1>4. ASSUME NEW a \in Arenas, ResetArena(a)
      PROVE  TypeOK' /\ FrameCounted'
  BY <1>4 DEF ResetArena, TypeOK, FrameCounted, poolVars
<1>5. ASSUME NEW a \in Arenas, NEW ps \in PlaneLists, Freeze(a, ps)
      PROVE  TypeOK' /\ FrameCounted'
  <2>1. CASE ValidPlanes(a, ps)
    <3>1. 1 \in 0 .. MaxClones /\ ps \in Seq(Plane)
      OBVIOUS
    <3>2. /\ pc' = [pc EXCEPT ![a] = "frame"]
          /\ clones' = [clones EXCEPT ![a] = 1]
          /\ planes' = [planes EXCEPT ![a] = ps]
          /\ pc[a] = "arena"
          /\ UNCHANGED <<poolVars, content, buf, cursor>>
      BY <1>5, <2>1 DEF Freeze
    <3>3. QED
      BY <3>1, <3>2 DEF TypeOK, FrameCounted, poolVars, Points
  <2>2. CASE ~ ValidPlanes(a, ps)
    BY <1>5, <2>2 DEF Freeze, TypeOK, FrameCounted, poolVars, Points
  <2>3. QED
    BY <2>1, <2>2
<1>6. ASSUME NEW a \in Arenas, CloneFrame(a)
      PROVE  TypeOK' /\ FrameCounted'
  BY <1>6 DEF CloneFrame, TypeOK, FrameCounted, poolVars
<1>7. ASSUME NEW a \in Arenas, DropClone(a)
      PROVE  TypeOK' /\ FrameCounted'
  <2>1. clones[a] \in 1 .. MaxClones
    BY <1>7 DEF DropClone, TypeOK, FrameCounted
  <2>2. <<>> \in Seq(Plane)
    OBVIOUS
  <2>3. /\ clones[a] - 1 \in 0 .. MaxClones
        /\ clones' = [clones EXCEPT ![a] = clones[a] - 1]
        /\ pc[a] = "frame"
        /\ UNCHANGED <<poolVars, content, buf, cursor>>
    BY <1>7, <2>1 DEF DropClone
  <2>4. CASE clones[a] = 1
    <3>1. /\ pc' = [pc EXCEPT ![a] = "drop"]
          /\ planes' = [planes EXCEPT ![a] = <<>>]
      BY <1>7, <2>4 DEF DropClone
    <3>2. QED
      BY <2>2, <2>3, <2>4, <3>1 DEF TypeOK, FrameCounted, poolVars, Points
  <2>5. CASE clones[a] # 1
    <3>1. UNCHANGED <<pc, planes>> /\ clones[a] - 1 > 0
      BY <1>7, <2>1, <2>5 DEF DropClone
    <3>2. QED
      BY <2>3, <3>1 DEF TypeOK, FrameCounted, poolVars, Points
  <2>6. QED
    BY <2>4, <2>5
<1>8. ASSUME NEW a \in Arenas, DropArena(a) \/ Upgrade(a) \/ ZeroBuffer(a)
      PROVE  TypeOK' /\ FrameCounted'
  <2>1. CASE DropArena(a)
    BY <2>1 DEF DropArena, TypeOK, FrameCounted, poolVars, Points
  <2>2. CASE Upgrade(a)
    <3>1. /\ \/ pc' = [pc EXCEPT ![a] = "zero"]
             \/ pc' = [pc EXCEPT ![a] = "free"]
          /\ pc[a] = "drop"
          /\ UNCHANGED <<poolVars, content, buf, cursor, clones, planes>>
      BY <2>2 DEF Upgrade
    <3>2. QED
      BY <3>1 DEF TypeOK, FrameCounted, poolVars, Points
  <2>3. CASE ZeroBuffer(a)
    <3>1. buf[a] \in Buffers
      BY <2>3, HeldBuffer DEF ZeroBuffer
    <3>2. QED
      BY <2>3, <3>1 DEF ZeroBuffer, TypeOK, FrameCounted, poolVars, Points
  <2>4. QED
    BY <1>8, <2>1, <2>2, <2>3
<1>9. ASSUME NEW a \in Arenas, PushIdle(a)
      PROVE  TypeOK' /\ FrameCounted'
  <2>1. buf[a] \in Buffers
    BY <1>9, HeldBuffer DEF PushIdle
  <2>2. idle' \in Seq(Buffers)
    BY <1>9, <2>1 DEF PushIdle, TypeOK
  <2>3. QED
    BY <1>9, <2>2 DEF PushIdle, TypeOK, FrameCounted, Points
<1>10. ASSUME NEW a \in Arenas, Unref(a)
       PROVE  TypeOK' /\ FrameCounted'
  <2>1. idle' \in Seq(Buffers) /\ heap' \subseteq Buffers
    BY <1>10, FreeIdleShape DEF Unref, TypeOK
  <2>2. QED
    BY <1>10, <2>1 DEF Unref, TypeOK, FrameCounted, Points
<1>11. ASSUME NEW a \in Arenas, FreeBuffer(a)
       PROVE  TypeOK' /\ FrameCounted'
  BY <1>11 DEF FreeBuffer, TypeOK, FrameCounted, Points
<1>12. CASE CloneHandle
  BY <1>12 DEF CloneHandle, TypeOK, FrameCounted
<1>13. CASE DropHandle
  <2>1. idle' \in Seq(Buffers) /\ heap' \subseteq Buffers
    BY <1>13, FreeIdleShape DEF DropHandle, TypeOK
  <2>2. handles' \in 0 .. MaxHandles
    BY <1>13 DEF DropHandle, TypeOK
  <2>3. QED
    BY <1>13, <2>1, <2>2 DEF DropHandle, TypeOK, FrameCounted
<1>14. CASE UNCHANGED vars
  BY <1>14 DEF vars, poolVars, TypeOK, FrameCounted
<1>15. QED
  BY <1>1, <1>2, <1>3, <1>4, <1>5, <1>6, <1>7, <1>8, <1>9, <1>10, <1>11, <1>12,
     <1>13, <1>14 DEF Next

-----------------------------------------------------------------------------
(***************************************************************************)
(* Ownership: one owner per buffer, no leak, no use after free.            *)
(***************************************************************************)
OwnerInv == OneOwner /\ HeapAccounted /\ AliveHeap /\ DeadPool

\* Steps that move no buffer and no strong handle.
LEMMA OwnerQuiet ==
  ASSUME OwnerInv, TypeOK,
         UNCHANGED <<idle, heap, total, buf, handles>>,
         Upgraded' = Upgraded,
         \A a \in Arenas : pc'[a] = "free" => pc[a] = "free"
  PROVE  OwnerInv'
<1>1. Held' = Held /\ IdleSet' = IdleSet /\ (PoolAlive' <=> PoolAlive)
  BY DEF Held, IdleSet, PoolAlive
<1>2. OneOwner' /\ HeapAccounted'
  BY <1>1 DEF OwnerInv, OneOwner, HeapAccounted
<1>3. AliveHeap' /\ DeadPool'
  BY <1>1 DEF OwnerInv, AliveHeap, DeadPool
<1>4. QED
  BY <1>2, <1>3 DEF OwnerInv

\* lease() moves the top of the idle stack to the new arena.
LEMMA OwnerLeaseIdle ==
  ASSUME OwnerInv, TypeOK, NEW a \in Arenas, LeaseIdle(a)
  PROVE  OwnerInv'
<1> DEFINE b == idle[Len(idle)]
<1>1. /\ pc[a] = "none" /\ handles > 0 /\ idle # <<>>
      /\ idle' = SubSeq(idle, 1, Len(idle) - 1)
      /\ buf' = [buf EXCEPT ![a] = b]
      /\ pc' = [pc EXCEPT ![a] = "arena"]
      /\ UNCHANGED <<handles, total, heap>>
  BY DEF LeaseIdle, NewArena
<1>2. /\ b \in IdleSet /\ IdleSet' = IdleSet \ {b}
      /\ IdleDistinct' /\ idle' \in Seq(Buffers)
  BY <1>1, IdlePop DEF OwnerInv, OneOwner, IdleDistinct, TypeOK
<1>3. b \in Buffers /\ b # NoBuffer
  BY <1>2 DEF TypeOK, IdleSet, Buffers, NoBuffer
<1>4. a \notin Held /\ Held' = Held \union {a}
  BY <1>1, <1>3 DEF Held, TypeOK
<1>5. \A x \in Held : buf'[x] = buf[x] /\ buf[x] # b
  BY <1>1, <1>2, <1>4 DEF OwnerInv, OneOwner, TypeOK, Held
<1>6. buf'[a] = b
  BY <1>1 DEF TypeOK
<1>7. OneOwner'
  <2>1. \A x, y \in Held' : x # y => buf'[x] # buf'[y]
    BY <1>4, <1>5, <1>6 DEF OwnerInv, OneOwner
  <2>2. \A x \in Held' : buf'[x] \notin IdleSet'
    BY <1>2, <1>4, <1>5, <1>6 DEF OwnerInv, OneOwner
  <2>3. QED
    BY <1>2, <2>1, <2>2 DEF OneOwner, IdleDistinct
<1>8. HeapAccounted'
  <2>1. {buf'[x] : x \in Held'} = {buf[x] : x \in Held} \union {b}
    BY <1>4, <1>5, <1>6
  <2>2. QED
    BY <1>1, <1>2, <2>1 DEF OwnerInv, HeapAccounted
<1>9. PoolAlive /\ PoolAlive'
  BY <1>1 DEF PoolAlive
<1>10. AliveHeap' /\ DeadPool'
  BY <1>1, <1>9 DEF OwnerInv, AliveHeap, DeadPool, TypeOK
<1>11. QED
  BY <1>7, <1>8, <1>10 DEF OwnerInv

\* lease() grows the pool by a buffer nobody had.
LEMMA OwnerLeaseGrow ==
  ASSUME OwnerInv, TypeOK, NEW a \in Arenas, LeaseGrow(a)
  PROVE  OwnerInv' /\ total + 1 \notin heap
<1> DEFINE b == total + 1
<1>1. /\ pc[a] = "none" /\ handles > 0 /\ idle = <<>> /\ total < MaxArenas
      /\ total' = b /\ heap' = heap \union {b}
      /\ buf' = [buf EXCEPT ![a] = b]
      /\ pc' = [pc EXCEPT ![a] = "arena"]
      /\ UNCHANGED <<handles, idle>>
  BY DEF LeaseGrow, NewArena
<1>2. PoolAlive /\ PoolAlive'
  BY <1>1 DEF PoolAlive
<1>3. total \in Nat /\ b \in Buffers /\ b # NoBuffer
  BY <1>1 DEF TypeOK, Buffers, NoBuffer
<1>4. heap = 1 .. total /\ b \notin heap /\ heap' = 1 .. b
  BY <1>1, <1>2, <1>3 DEF OwnerInv, AliveHeap
<1>5. a \notin Held /\ Held' = Held \union {a}
  BY <1>1, <1>3 DEF Held, TypeOK
<1>6. /\ \A x \in Held : buf'[x] = buf[x] /\ buf[x] # b
      /\ buf'[a] = b
  BY <1>1, <1>4, <1>5 DEF OwnerInv, HeapAccounted, TypeOK, Held
<1>7. IdleSet' = IdleSet /\ b \notin IdleSet
  BY <1>1, <1>4 DEF IdleSet, OwnerInv, HeapAccounted
<1>8. OneOwner'
  <2>1. \A x, y \in Held' : x # y => buf'[x] # buf'[y]
    BY <1>5, <1>6 DEF OwnerInv, OneOwner
  <2>2. \A x \in Held' : buf'[x] \notin IdleSet'
    BY <1>5, <1>6, <1>7 DEF OwnerInv, OneOwner
  <2>3. QED
    BY <1>1, <2>1, <2>2 DEF OwnerInv, OneOwner
<1>9. HeapAccounted'
  <2>1. {buf'[x] : x \in Held'} = {buf[x] : x \in Held} \union {b}
    BY <1>5, <1>6
  <2>2. QED
    BY <1>1, <1>7, <2>1 DEF OwnerInv, HeapAccounted
<1>10. AliveHeap' /\ DeadPool'
  BY <1>1, <1>2, <1>4 DEF OwnerInv, AliveHeap, DeadPool, TypeOK
<1>11. QED
  BY <1>4, <1>8, <1>9, <1>10 DEF OwnerInv

\* An arena that upgraded its handle keeps the pool alive; one that could not
\* finds it dead for good.
LEMMA OwnerUpgrade ==
  ASSUME OwnerInv, TypeOK, NEW a \in Arenas, Upgrade(a)
  PROVE  OwnerInv'
<1>1. UNCHANGED <<idle, heap, total, buf, handles>> /\ pc[a] = "drop"
  BY DEF Upgrade, poolVars
<1>2. Held' = Held /\ IdleSet' = IdleSet
  BY <1>1 DEF Held, IdleSet
<1>3. OneOwner' /\ HeapAccounted'
  BY <1>1, <1>2 DEF OwnerInv, OneOwner, HeapAccounted
<1>4. CASE PoolAlive
  <2>1. pc' = [pc EXCEPT ![a] = "zero"]
    BY <1>4 DEF Upgrade
  <2>2. PoolAlive'
    BY <2>1 DEF PoolAlive, Upgraded, TypeOK
  <2>3. AliveHeap' /\ DeadPool'
    BY <1>1, <1>4, <2>1, <2>2 DEF OwnerInv, AliveHeap, DeadPool, TypeOK
  <2>4. QED
    BY <1>3, <2>3 DEF OwnerInv
<1>5. CASE ~ PoolAlive
  <2>1. pc' = [pc EXCEPT ![a] = "free"]
    BY <1>5 DEF Upgrade
  <2>2. ~ PoolAlive'
    BY <1>1, <1>5, <2>1 DEF PoolAlive, Upgraded, TypeOK
  <2>3. AliveHeap' /\ DeadPool'
    BY <1>1, <1>5, <2>2 DEF OwnerInv, AliveHeap, DeadPool
  <2>4. QED
    BY <1>3, <2>3 DEF OwnerInv
<1>6. QED
  BY <1>4, <1>5

\* release() moves the buffer from the arena to the idle stack.
LEMMA OwnerPush ==
  ASSUME OwnerInv, TypeOK, NEW a \in Arenas, PushIdle(a)
  PROVE  OwnerInv'
<1> DEFINE b == buf[a]
<1>1. /\ pc[a] = "push" /\ idle' = Append(idle, b)
      /\ buf' = [buf EXCEPT ![a] = NoBuffer]
      /\ pc' = [pc EXCEPT ![a] = "unref"]
      /\ UNCHANGED <<handles, total, heap>>
  BY DEF PushIdle
<1>2. b \in Buffers /\ a \in Held /\ b \notin IdleSet
  BY <1>1, HeldBuffer DEF OwnerInv, OneOwner
<1>3. IdleSet' = IdleSet \union {b} /\ IdleDistinct' /\ idle' \in Seq(Buffers)
  BY <1>1, <1>2, IdlePush DEF OwnerInv, OneOwner, IdleDistinct, TypeOK
<1>4. Held' = Held \ {a} /\ \A x \in Held' : buf'[x] = buf[x] /\ buf[x] # b
  BY <1>1, <1>2 DEF Held, TypeOK, OwnerInv, OneOwner
<1>5. OneOwner'
  <2>1. \A x, y \in Held' : x # y => buf'[x] # buf'[y]
    BY <1>4 DEF OwnerInv, OneOwner
  <2>2. \A x \in Held' : buf'[x] \notin IdleSet'
    BY <1>3, <1>4 DEF OwnerInv, OneOwner
  <2>3. QED
    BY <1>3, <2>1, <2>2 DEF OneOwner, IdleDistinct
<1>6. HeapAccounted'
  <2>1. {buf[x] : x \in Held} = {buf'[x] : x \in Held'} \union {b}
    BY <1>2, <1>4
  <2>2. QED
    BY <1>1, <1>3, <2>1 DEF OwnerInv, HeapAccounted
<1>7. Upgraded' = Upgraded /\ a \in Upgraded
  BY <1>1 DEF Upgraded, TypeOK
<1>8. PoolAlive /\ PoolAlive'
  BY <1>7 DEF PoolAlive
<1>9. AliveHeap' /\ DeadPool'
  BY <1>1, <1>8 DEF OwnerInv, AliveHeap, DeadPool, TypeOK
<1>10. QED
  BY <1>5, <1>6, <1>9 DEF OwnerInv

\* Giving back a strong handle, by a client or at the end of release().
LEMMA OwnerHandle ==
  ASSUME OwnerInv, TypeOK, FreeIdleIfLast, PoolAlive,
         UNCHANGED <<total, buf>>,
         \A a \in Arenas : pc'[a] = "free" => pc[a] = "free"
  PROVE  OwnerInv'
<1>1. Held' = Held
  BY DEF Held
<1>2. CASE PoolAlive'
  <2>1. idle' = idle /\ heap' = heap /\ IdleSet' = IdleSet
    BY <1>2, FreeIdleShape DEF IdleSet
  <2>2. OneOwner' /\ HeapAccounted'
    BY <1>1, <2>1 DEF OwnerInv, OneOwner, HeapAccounted
  <2>3. AliveHeap' /\ DeadPool'
    BY <1>2, <2>1 DEF OwnerInv, AliveHeap, DeadPool
  <2>4. QED
    BY <2>2, <2>3 DEF OwnerInv
<1>3. CASE ~ PoolAlive'
  <2>1. idle' = <<>> /\ heap' = heap \ IdleSet
    BY <1>3, FreeIdleShape
  <2>2. IdleSet' = {} /\ DOMAIN idle' = {}
    BY <2>1 DEF IdleSet
  <2>3. OneOwner'
    BY <1>1, <2>2 DEF OwnerInv, OneOwner
  <2>4. {buf[x] : x \in Held} \intersect IdleSet = {}
    BY DEF OwnerInv, OneOwner
  <2>5. HeapAccounted'
    BY <1>1, <2>1, <2>2, <2>4 DEF OwnerInv, HeapAccounted
  <2>6. AliveHeap' /\ DeadPool'
    BY <1>3, <2>1 DEF AliveHeap, DeadPool
  <2>7. QED
    BY <2>3, <2>5, <2>6 DEF OwnerInv
<1>4. QED
  BY <1>2, <1>3

\* An arena that outlived the pool frees its own buffer.
LEMMA OwnerFree ==
  ASSUME OwnerInv, TypeOK, NEW a \in Arenas, FreeBuffer(a)
  PROVE  OwnerInv'
<1> DEFINE b == buf[a]
<1>1. /\ pc[a] = "free" /\ heap' = heap \ {b}
      /\ buf' = [buf EXCEPT ![a] = NoBuffer]
      /\ pc' = [pc EXCEPT ![a] = "none"]
      /\ UNCHANGED <<handles, idle, total>>
  BY DEF FreeBuffer
<1>2. b \in Buffers /\ a \in Held /\ b \notin IdleSet
  BY <1>1, HeldBuffer DEF OwnerInv, OneOwner
<1>3. Held' = Held \ {a} /\ \A x \in Held' : buf'[x] = buf[x] /\ buf[x] # b
  BY <1>1, <1>2 DEF Held, TypeOK, OwnerInv, OneOwner
<1>4. IdleSet' = IdleSet
  BY <1>1 DEF IdleSet
<1>5. OneOwner'
  BY <1>1, <1>3, <1>4 DEF OwnerInv, OneOwner
<1>6. HeapAccounted'
  <2>1. {buf[x] : x \in Held} = {buf'[x] : x \in Held'} \union {b}
    BY <1>2, <1>3
  <2>2. b \notin {buf'[x] : x \in Held'}
    BY <1>3
  <2>3. QED
    BY <1>1, <1>2, <1>4, <2>1, <2>2 DEF OwnerInv, HeapAccounted
<1>7. ~ PoolAlive /\ ~ PoolAlive'
  <2>1. ~ PoolAlive
    BY <1>1 DEF OwnerInv, DeadPool
  <2>2. Upgraded' = Upgraded
    BY <1>1 DEF Upgraded, TypeOK
  <2>3. QED
    BY <1>1, <2>1, <2>2 DEF PoolAlive
<1>8. AliveHeap' /\ DeadPool'
  BY <1>1, <1>7 DEF OwnerInv, AliveHeap, DeadPool
<1>9. QED
  BY <1>5, <1>6, <1>8 DEF OwnerInv

\* Every step keeps the ownership invariant.
LEMMA OwnerNext ==
  ASSUME PoolInv, [Next]_vars
  PROVE  OwnerInv'
<1>1. TypeOK /\ OwnerInv
  BY DEF PoolInv, OwnerInv
<1>2. ASSUME NEW a \in Arenas, LeaseIdle(a)
      PROVE  OwnerInv'
  BY <1>1, <1>2, OwnerLeaseIdle
<1>3. ASSUME NEW a \in Arenas, LeaseGrow(a)
      PROVE  OwnerInv'
  BY <1>1, <1>3, OwnerLeaseGrow
<1>4. ASSUME NEW a \in Arenas,
             \/ \E r \in Requests : AllocAndWrite(a, r)
             \/ ResetArena(a) \/ CloneFrame(a)
      PROVE  OwnerInv'
  <2>1. UNCHANGED <<idle, heap, total, buf, handles, pc>>
    BY <1>4 DEF AllocAndWrite, ResetArena, CloneFrame, poolVars
  <2>2. Upgraded' = Upgraded
    BY <2>1 DEF Upgraded
  <2>3. QED
    BY <1>1, <2>1, <2>2, OwnerQuiet
<1>5. ASSUME NEW a \in Arenas,
             \/ \E ps \in PlaneLists : Freeze(a, ps)
             \/ DropClone(a) \/ DropArena(a)
      PROVE  OwnerInv'
  <2>1. UNCHANGED <<idle, heap, total, buf, handles>>
    BY <1>5 DEF Freeze, DropClone, DropArena, poolVars
  <2>2. /\ pc[a] \in {"arena", "frame"}
        /\ \E to \in {"arena", "frame", "drop"} : pc' = [pc EXCEPT ![a] = to]
    BY <1>1, <1>5 DEF Freeze, DropClone, DropArena, TypeOK
  <2>3. Upgraded' = Upgraded /\ \A x \in Arenas : pc'[x] = "free" => pc[x] = "free"
    BY <1>1, <2>2 DEF Upgraded, TypeOK
  <2>4. QED
    BY <1>1, <2>1, <2>3, OwnerQuiet
<1>6. ASSUME NEW a \in Arenas, Upgrade(a)
      PROVE  OwnerInv'
  BY <1>1, <1>6, OwnerUpgrade
<1>7. ASSUME NEW a \in Arenas, ZeroBuffer(a)
      PROVE  OwnerInv'
  <2>1. /\ UNCHANGED <<idle, heap, total, buf, handles>>
        /\ pc[a] = "zero" /\ pc' = [pc EXCEPT ![a] = "push"]
    BY <1>7 DEF ZeroBuffer, poolVars
  <2>2. Upgraded' = Upgraded /\ \A x \in Arenas : pc'[x] = "free" => pc[x] = "free"
    BY <1>1, <2>1 DEF Upgraded, TypeOK
  <2>3. QED
    BY <1>1, <2>1, <2>2, OwnerQuiet
<1>8. ASSUME NEW a \in Arenas, PushIdle(a)
      PROVE  OwnerInv'
  BY <1>1, <1>8, OwnerPush
<1>9. ASSUME NEW a \in Arenas, Unref(a)
      PROVE  OwnerInv'
  <2>1. PoolAlive
    BY <1>9 DEF Unref, PoolAlive, Upgraded
  <2>2. /\ FreeIdleIfLast /\ UNCHANGED <<total, buf>>
        /\ \A x \in Arenas : pc'[x] = "free" => pc[x] = "free"
    BY <1>1, <1>9 DEF Unref, TypeOK
  <2>3. QED
    BY <1>1, <2>1, <2>2, OwnerHandle
<1>10. ASSUME NEW a \in Arenas, FreeBuffer(a)
       PROVE  OwnerInv'
  BY <1>1, <1>10, OwnerFree
<1>11. CASE CloneHandle
  <2>1. /\ UNCHANGED <<idle, heap, total, buf, pc>>
        /\ handles > 0 /\ handles' > 0
    BY <1>1, <1>11 DEF CloneHandle, TypeOK
  <2>2. PoolAlive /\ PoolAlive' /\ Held' = Held /\ IdleSet' = IdleSet
    BY <2>1 DEF PoolAlive, Held, IdleSet
  <2>3. OneOwner' /\ HeapAccounted'
    BY <1>1, <2>1, <2>2 DEF OwnerInv, OneOwner, HeapAccounted
  <2>4. AliveHeap' /\ DeadPool'
    BY <1>1, <2>1, <2>2 DEF OwnerInv, AliveHeap, DeadPool
  <2>5. QED
    BY <2>3, <2>4 DEF OwnerInv
<1>12. CASE DropHandle
  <2>1. PoolAlive
    BY <1>12 DEF DropHandle, PoolAlive
  <2>2. FreeIdleIfLast /\ UNCHANGED <<total, buf, pc>>
    BY <1>12 DEF DropHandle
  <2>3. QED
    BY <1>1, <2>1, <2>2, OwnerHandle
<1>13. CASE UNCHANGED vars
  <2>1. UNCHANGED <<idle, heap, total, buf, handles, pc>>
    BY <1>13 DEF vars, poolVars
  <2>2. Upgraded' = Upgraded
    BY <2>1 DEF Upgraded
  <2>3. QED
    BY <1>1, <2>1, <2>2, OwnerQuiet
<1>14. QED
  BY <1>2, <1>3, <1>4, <1>5, <1>6, <1>7, <1>8, <1>9, <1>10, <1>11, <1>12, <1>13
     DEF Next

-----------------------------------------------------------------------------
(***************************************************************************)
(* Contents: a lease starts from zeros and sees only its own writes.       *)
(***************************************************************************)
ContentInv == NoStaleBytes /\ PushedIsZero

\* Steps that write no buffer and move none.
LEMMA ContentQuiet ==
  ASSUME ContentInv, TypeOK, UNCHANGED <<content, buf>>,
         IdleSet' \subseteq IdleSet,
         \A a \in Arenas : pc'[a] = "push" => pc[a] = "push"
  PROVE  ContentInv'
<1>1. Held' = Held
  BY DEF Held
<1>2. QED
  BY <1>1 DEF ContentInv, NoStaleBytes, PushedIsZero

\* Steps of arena a that write only a's own buffer, with its own writes or
\* with zeros.
LEMMA ContentOwnWrite ==
  ASSUME ContentInv, OwnerInv, TypeOK, NEW a \in Held, NEW v \in {Zero, a},
         content' = [content EXCEPT ![buf[a]] = v],
         UNCHANGED <<buf, idle>>,
         \A x \in Arenas : pc'[x] = "push" => pc[x] = "push" \/ (x = a /\ v = Zero),
         pc'[a] = "push" => v = Zero
  PROVE  ContentInv'
<1>1. Held' = Held /\ IdleSet' = IdleSet /\ buf[a] \notin IdleSet
  BY DEF Held, IdleSet, OwnerInv, OneOwner
<1>2. a \in Arenas /\ buf[a] \in Buffers
  BY DEF Held, TypeOK
<1>3. /\ content'[buf[a]] = v
      /\ \A b \in Buffers : b # buf[a] => content'[b] = content[b]
  BY <1>2 DEF TypeOK
<1>4. \A b \in IdleSet' : content'[b] = Zero
  <2>1. IdleSet \subseteq Buffers
    BY DEF IdleSet, TypeOK
  <2>2. QED
    BY <1>1, <1>3, <2>1 DEF ContentInv, NoStaleBytes
<1>5. \A x \in Held : x # a => buf[x] \in Buffers /\ buf[x] # buf[a]
  BY DEF OwnerInv, OneOwner, TypeOK, Held
<1>6. \A x \in Held' : content'[buf'[x]] \in {Zero, x}
  BY <1>1, <1>3, <1>5 DEF ContentInv, NoStaleBytes
<1>7. PushedIsZero'
  <2> SUFFICES ASSUME NEW x \in Arenas, pc'[x] = "push"
               PROVE  content'[buf[x]] = Zero
    BY DEF PushedIsZero
  <2>1. CASE x = a
    BY <1>3, <2>1
  <2>2. CASE x # a
    <3>1. pc[x] = "push" /\ x \in Held
      BY <2>2, HeldBuffer
    <3>2. QED
      BY <1>3, <1>5, <2>2, <3>1 DEF ContentInv, PushedIsZero
  <2>3. QED
    BY <2>1, <2>2
<1>8. QED
  BY <1>4, <1>6, <1>7 DEF ContentInv, NoStaleBytes

\* A new lease, from the idle stack or freshly allocated, is all zeros.
LEMMA ContentLease ==
  ASSUME ContentInv, OwnerInv, TypeOK, NEW a \in Arenas,
         LeaseIdle(a) \/ LeaseGrow(a)
  PROVE  ContentInv' /\ content'[buf'[a]] = Zero
<1>1. CASE LeaseIdle(a)
  <2> DEFINE b == idle[Len(idle)]
  <2>1. /\ pc[a] = "none" /\ buf' = [buf EXCEPT ![a] = b]
        /\ pc' = [pc EXCEPT ![a] = "arena"] /\ content' = content
    BY <1>1 DEF LeaseIdle, NewArena
  <2>2. b \in IdleSet /\ IdleSet' \subseteq IdleSet
    BY <1>1, IdlePop DEF LeaseIdle, OwnerInv, OneOwner, IdleDistinct, TypeOK
  <2>3. buf'[a] = b /\ content[b] = Zero
    BY <2>1, <2>2 DEF ContentInv, NoStaleBytes, TypeOK
  <2>4. \A x \in Held' : x # a => x \in Held /\ buf'[x] = buf[x]
    BY <2>1 DEF Held, TypeOK
  <2>5. NoStaleBytes'
    BY <2>1, <2>2, <2>3, <2>4 DEF ContentInv, NoStaleBytes
  <2>6. PushedIsZero'
    BY <2>1 DEF ContentInv, PushedIsZero, TypeOK
  <2>7. QED
    BY <2>1, <2>3, <2>5, <2>6 DEF ContentInv
<1>2. CASE LeaseGrow(a)
  <2> DEFINE b == total + 1
  <2>1. /\ pc[a] = "none" /\ buf' = [buf EXCEPT ![a] = b]
        /\ pc' = [pc EXCEPT ![a] = "arena"] /\ idle' = idle
        /\ content' = [content EXCEPT ![b] = Zero]
    BY <1>2 DEF LeaseGrow, NewArena
  <2>2. b \in Buffers /\ b \notin heap
    BY <1>2, OwnerLeaseGrow DEF LeaseGrow, TypeOK, Buffers
  <2>3. /\ buf'[a] = b /\ content'[b] = Zero /\ IdleSet' = IdleSet
        /\ \A c \in heap : content'[c] = content[c]
    BY <2>1, <2>2 DEF TypeOK, IdleSet
  <2>4. \A x \in Held' : x # a => x \in Held /\ buf'[x] = buf[x]
    BY <2>1 DEF Held, TypeOK
  <2>5. IdleSet \subseteq heap /\ \A x \in Held : buf[x] \in heap
    BY DEF OwnerInv, HeapAccounted
  <2>6. NoStaleBytes'
    BY <2>3, <2>4, <2>5 DEF ContentInv, NoStaleBytes
  <2>7. PushedIsZero'
    <3> SUFFICES ASSUME NEW x \in Arenas, pc'[x] = "push"
                 PROVE  content'[buf'[x]] = Zero
      BY DEF PushedIsZero
    <3>1. x # a /\ pc[x] = "push"
      BY <2>1 DEF TypeOK
    <3>2. x \in Held /\ buf'[x] = buf[x]
      BY <2>1, <3>1, HeldBuffer DEF TypeOK
    <3>3. QED
      BY <2>3, <2>5, <3>1, <3>2 DEF ContentInv, PushedIsZero
  <2>8. QED
    BY <2>3, <2>6, <2>7 DEF ContentInv
<1>3. QED
  BY <1>1, <1>2

\* The zeroed buffer joins the idle stack.
LEMMA ContentPush ==
  ASSUME ContentInv, OwnerInv, TypeOK, NEW a \in Arenas, PushIdle(a)
  PROVE  ContentInv'
<1> DEFINE b == buf[a]
<1>1. /\ pc[a] = "push" /\ idle' = Append(idle, b)
      /\ buf' = [buf EXCEPT ![a] = NoBuffer]
      /\ pc' = [pc EXCEPT ![a] = "unref"]
      /\ content' = content
  BY DEF PushIdle
<1>2. b \in Buffers /\ a \in Held /\ b \notin IdleSet /\ content[b] = Zero
  BY <1>1, HeldBuffer DEF OwnerInv, OneOwner, ContentInv, PushedIsZero
<1>3. IdleSet' = IdleSet \union {b}
  BY <1>1, <1>2, IdlePush DEF OwnerInv, OneOwner, IdleDistinct, TypeOK
<1>4. \A x \in Held' : x \in Held /\ buf'[x] = buf[x]
  BY <1>1 DEF Held, TypeOK
<1>5. NoStaleBytes'
  BY <1>1, <1>2, <1>3, <1>4 DEF ContentInv, NoStaleBytes
<1>6. PushedIsZero'
  BY <1>1 DEF ContentInv, PushedIsZero, TypeOK
<1>7. QED
  BY <1>5, <1>6 DEF ContentInv

LEMMA ContentNext ==
  ASSUME PoolInv, [Next]_vars
  PROVE  ContentInv'
<1>1. TypeOK /\ OwnerInv /\ ContentInv
  BY DEF PoolInv, OwnerInv, ContentInv
<1>2. ASSUME NEW a \in Arenas, LeaseIdle(a) \/ LeaseGrow(a)
      PROVE  ContentInv'
  BY <1>1, <1>2, ContentLease
<1>3. ASSUME NEW a \in Arenas, NEW r \in Requests, AllocAndWrite(a, r)
      PROVE  ContentInv'
  <2>1. /\ pc[a] = "arena" /\ UNCHANGED <<buf, idle, pc>>
        /\ \/ content' = content
           \/ content' = [content EXCEPT ![buf[a]] = a]
    BY <1>3 DEF AllocAndWrite, poolVars
  <2>2. a \in Held
    BY <1>1, <2>1, HeldBuffer
  <2>3. CASE content' = content
    <3>1. IdleSet' = IdleSet
      BY <2>1 DEF IdleSet
    <3>2. QED
      BY <1>1, <2>1, <2>3, <3>1, ContentQuiet
  <2>4. CASE content' = [content EXCEPT ![buf[a]] = a]
    BY <1>1, <2>1, <2>2, <2>4, ContentOwnWrite
  <2>5. QED
    BY <2>1, <2>3, <2>4
<1>4. ASSUME NEW a \in Arenas,
             \/ ResetArena(a) \/ CloneFrame(a) \/ DropClone(a) \/ DropArena(a)
             \/ Upgrade(a) \/ \E ps \in PlaneLists : Freeze(a, ps)
      PROVE  ContentInv'
  <2>1. UNCHANGED <<content, buf, idle>>
    BY <1>4 DEF ResetArena, CloneFrame, DropClone, DropArena, Upgrade, Freeze, poolVars
  <2>2. \/ pc' = pc
        \/ \E to \in Points \ {"push"} : pc' = [pc EXCEPT ![a] = to]
    BY <1>4 DEF ResetArena, CloneFrame, DropClone, DropArena, Upgrade, Freeze, Points
  <2>3. \A x \in Arenas : pc'[x] = "push" => pc[x] = "push"
    BY <1>1, <2>2 DEF TypeOK
  <2>4. IdleSet' = IdleSet
    BY <2>1 DEF IdleSet
  <2>5. QED
    BY <1>1, <2>1, <2>3, <2>4, ContentQuiet
<1>5. ASSUME NEW a \in Arenas, ZeroBuffer(a)
      PROVE  ContentInv'
  <2>1. /\ pc[a] = "zero" /\ UNCHANGED <<buf, idle>>
        /\ content' = [content EXCEPT ![buf[a]] = Zero]
        /\ pc' = [pc EXCEPT ![a] = "push"]
    BY <1>5 DEF ZeroBuffer, poolVars
  <2>2. a \in Held /\ \A x \in Arenas : pc'[x] = "push" => pc[x] = "push" \/ x = a
    BY <1>1, <2>1, HeldBuffer DEF TypeOK
  <2>3. QED
    BY <1>1, <2>1, <2>2, ContentOwnWrite
<1>6. ASSUME NEW a \in Arenas, PushIdle(a)
      PROVE  ContentInv'
  BY <1>1, <1>6, ContentPush
<1>7. ASSUME NEW a \in Arenas, Unref(a)
      PROVE  ContentInv'
  <2>1. /\ FreeIdleIfLast /\ UNCHANGED <<content, buf>>
        /\ pc' = [pc EXCEPT ![a] = "none"]
    BY <1>7 DEF Unref
  <2>2. IdleSet' \subseteq IdleSet
    BY <1>1, <2>1, FreeIdleShape DEF IdleSet
  <2>3. \A x \in Arenas : pc'[x] = "push" => pc[x] = "push"
    BY <1>1, <2>1 DEF TypeOK
  <2>4. QED
    BY <1>1, <2>1, <2>2, <2>3, ContentQuiet
<1>8. ASSUME NEW a \in Arenas, FreeBuffer(a)
      PROVE  ContentInv'
  <2>1. /\ UNCHANGED <<content, idle>>
        /\ buf' = [buf EXCEPT ![a] = NoBuffer]
        /\ pc' = [pc EXCEPT ![a] = "none"]
    BY <1>8 DEF FreeBuffer
  <2>2. IdleSet' = IdleSet /\ \A x \in Held' : x \in Held /\ buf'[x] = buf[x]
    BY <1>1, <2>1 DEF IdleSet, Held, TypeOK
  <2>3. QED
    BY <1>1, <2>1, <2>2 DEF ContentInv, NoStaleBytes, PushedIsZero, TypeOK
<1>9. CASE CloneHandle \/ UNCHANGED vars
  <2>1. UNCHANGED <<content, buf, idle, pc>>
    BY <1>9 DEF CloneHandle, vars, poolVars
  <2>2. IdleSet' = IdleSet
    BY <2>1 DEF IdleSet
  <2>3. QED
    BY <1>1, <2>1, <2>2, ContentQuiet
<1>10. CASE DropHandle
  <2>1. FreeIdleIfLast /\ UNCHANGED <<content, buf, pc>>
    BY <1>10 DEF DropHandle
  <2>2. IdleSet' \subseteq IdleSet
    BY <1>1, <2>1, FreeIdleShape DEF IdleSet
  <2>3. QED
    BY <1>1, <2>1, <2>2, ContentQuiet
<1>11. QED
  BY <1>2, <1>3, <1>4, <1>5, <1>6, <1>7, <1>8, <1>9, <1>10 DEF Next

-----------------------------------------------------------------------------
LEMMA PoolNext == PoolInv /\ [Next]_vars => PoolInv'
<1> SUFFICES ASSUME PoolInv, [Next]_vars PROVE PoolInv'
  OBVIOUS
<1>1. TypeOK' /\ FrameCounted'
  BY ShapeNext
<1>2. OneOwner' /\ HeapAccounted' /\ AliveHeap' /\ DeadPool'
  BY OwnerNext DEF OwnerInv
<1>3. NoStaleBytes' /\ PushedIsZero'
  BY ContentNext DEF ContentInv
<1>4. QED
  BY <1>1, <1>2, <1>3 DEF PoolInv

\* The pool invariant holds in every reachable state.
THEOREM PoolInvariant == Spec => []PoolInv
BY PoolInit, PoolNext, PTL DEF Spec

\* Type correctness of the pool.
THEOREM PoolTypeCorrect == Spec => []TypeOK
<1>1. PoolInv => TypeOK
  BY DEF PoolInv
<1>2. QED
  BY <1>1, PoolInvariant, PTL

\* No buffer ever has two owners.
THEOREM SingleOwner == Spec => []OneOwner
<1>1. PoolInv => OneOwner
  BY DEF PoolInv
<1>2. QED
  BY <1>1, PoolInvariant, PTL

\* No buffer leaks and none is used after it is freed, in whatever order the
\* pool, its arenas and their frames die.
THEOREM NoLeakNoDangling == Spec => []HeapAccounted
<1>1. PoolInv => HeapAccounted
  BY DEF PoolInv
<1>2. QED
  BY <1>1, PoolInvariant, PTL

\* No lease sees the bytes of an earlier one.
THEOREM NoStale == Spec => []NoStaleBytes
<1>1. PoolInv => NoStaleBytes
  BY DEF PoolInv
<1>2. QED
  BY <1>1, PoolInvariant, PTL

-----------------------------------------------------------------------------
(***************************************************************************)
(* Capacity: the pool is a counting semaphore that never refuses a lease   *)
(* it could grant.                                                         *)
(***************************************************************************)
LEMMA HeldFinite ==
  IsFiniteSet(Held) /\ Cardinality(Held) \in Nat
<1>1. Held \subseteq Arenas
  BY DEF Held
<1>2. QED
  BY <1>1, FS_Subset, FS_CardinalityType

\* Distinct holders of distinct buffers are at most MaxArenas.
LEMMA InjectiveBound ==
  ASSUME NEW S, NEW f \in [S -> Buffers], \A a, b \in S : a # b => f[a] # f[b]
  PROVE  Cardinality(S) <= MaxArenas
<1>1. IsFiniteSet(Buffers) /\ Cardinality(Buffers) = MaxArenas
  BY FS_Interval DEF Buffers
<1>2. f \in Injection(S, Buffers)
  BY DEF Injection, IsInjective
<1>3. Cardinality(S) <= Cardinality(Buffers)
  BY <1>1, <1>2, FS_Injection
<1>4. QED
  BY <1>1, <1>3

\* A lease is refused only when MaxArenas arenas are checked out.
THEOREM NoSpuriousExhaustion == Spec => []LeaseAvailable
<1>1. PoolInv => LeaseAvailable
  <2> SUFFICES ASSUME PoolInv, handles > 0, idle = <<>>, ~ (total < MaxArenas)
               PROVE  ~ (Cardinality(Held) < MaxArenas)
    BY DEF LeaseAvailable
  <2> DEFINE f == [a \in Held |-> buf[a]]
  <2>1. total = MaxArenas /\ PoolAlive
    BY DEF PoolInv, TypeOK, PoolAlive
  <2>2. heap = Buffers /\ IdleSet = {}
    BY <2>1 DEF PoolInv, AliveHeap, Buffers, IdleSet
  <2>3. Buffers = {buf[a] : a \in Held}
    BY <2>2 DEF PoolInv, HeapAccounted
  <2>4. f \in [Held -> Buffers] /\ \A b \in Buffers : \E a \in Held : f[a] = b
    BY <2>3
  <2>5. f \in Surjection(Held, Buffers)
    BY <2>4 DEF Surjection
  <2>6. Cardinality(Buffers) <= Cardinality(Held)
    BY <2>5, HeldFinite, FS_Surjection
  <2>7. Cardinality(Buffers) = MaxArenas
    BY FS_Interval DEF Buffers
  <2>8. QED
    BY <2>6, <2>7, HeldFinite
<1>2. QED
  BY <1>1, PoolInvariant, PTL

\* A lease adds one arena to the holders, a push or a free removes one, and
\* no other step changes them.
LEMMA SemaphoreNext ==
  ASSUME PoolInv, PoolInv', [Next]_vars
  PROVE  [Semaphore!Next]_Held
<1>1. ASSUME NEW a \in Arenas, LeaseIdle(a) \/ LeaseGrow(a)
      PROVE  Semaphore!Next
  <2>1. \E b \in Buffers : pc[a] = "none" /\ buf' = [buf EXCEPT ![a] = b]
    <3>1. CASE LeaseIdle(a)
      <4>1. idle[Len(idle)] \in Buffers
        BY <3>1 DEF LeaseIdle, PoolInv, TypeOK
      <4>2. QED
        BY <3>1, <4>1 DEF LeaseIdle, NewArena
    <3>2. CASE LeaseGrow(a)
      <4>1. total + 1 \in Buffers
        BY <3>2 DEF LeaseGrow, PoolInv, TypeOK, Buffers
      <4>2. QED
        BY <3>2, <4>1 DEF LeaseGrow, NewArena
    <3>3. QED
      BY <1>1, <3>1, <3>2
  <2>2. a \notin Held /\ Held' = Held \union {a}
    BY <2>1 DEF Held, PoolInv, TypeOK, Buffers, NoBuffer
  <2>3. Cardinality(Held') = Cardinality(Held) + 1
    BY <2>2, HeldFinite, FS_AddElement
  <2>4. Cardinality(Held') <= MaxArenas
    <3> DEFINE f == [x \in Held' |-> buf'[x]]
    <3>1. TypeOK' /\ OneOwner'
      BY DEF PoolInv
    <3>2. f \in [Held' -> Buffers]
      BY <3>1 DEF Held, TypeOK
    <3>3. \A x, y \in Held' : x # y => f[x] # f[y]
      BY <3>1 DEF OneOwner
    <3>4. QED
      BY <3>2, <3>3, InjectiveBound
  <2>5. Cardinality(Held) < MaxArenas
    BY <2>3, <2>4, HeldFinite
  <2>6. Semaphore!Lease(a)
    BY <2>2, <2>5 DEF Semaphore!Lease, Semaphore!Cardinality, Cardinality
  <2>7. QED
    BY <2>6 DEF Semaphore!Next
<1>2. ASSUME NEW a \in Arenas, PushIdle(a) \/ FreeBuffer(a)
      PROVE  Semaphore!Next
  <2>1. pc[a] \in {"push", "free"} /\ buf' = [buf EXCEPT ![a] = NoBuffer]
    BY <1>2 DEF PushIdle, FreeBuffer
  <2>2. a \in Held /\ Held' = Held \ {a}
    BY <2>1, HeldBuffer DEF Held, PoolInv, TypeOK
  <2>3. Semaphore!Return(a)
    BY <2>2 DEF Semaphore!Return
  <2>4. QED
    BY <2>3 DEF Semaphore!Next
<1>3. CASE buf' = buf
  BY <1>3 DEF Held
<1>4. QED
  BY <1>1, <1>2, <1>3 DEF Next, CloneHandle, DropHandle, AllocAndWrite, ResetArena,
     Freeze, CloneFrame, DropClone, DropArena, Upgrade, ZeroBuffer, Unref, vars

\* The pool implements the lease semaphore.
THEOREM PoolIsSemaphore == Spec => ImplementsSemaphore
<1>1. Init => Semaphore!Init
  BY DEF Init, Semaphore!Init, Held
<1>2. PoolInv /\ PoolInv' /\ [Next]_vars => [Semaphore!Next]_Held
  BY SemaphoreNext
<1>3. QED
  BY <1>1, <1>2, PoolInvariant, PTL DEF Spec, ImplementsSemaphore, Semaphore!Spec

-----------------------------------------------------------------------------
(***************************************************************************)
(* Frames: what FrameInner::plane reads through its unsafe block.          *)
(***************************************************************************)
LEMMA PlanesNext ==
  ASSUME TypeOK, PlanesInUsedRegion, [Next]_vars
  PROVE  PlanesInUsedRegion'
<1> SUFFICES ASSUME NEW x \in Arenas, pc'[x] = "frame"
             PROVE  /\ Len(planes'[x]) <= MaxPlanes
                    /\ \A i \in DOMAIN planes'[x] :
                         planes'[x][i].off + planes'[x][i].len <= cursor'[x]
  BY DEF PlanesInUsedRegion
<1>1. CASE pc[x] = "frame" /\ planes'[x] = planes[x] /\ cursor'[x] = cursor[x]
  BY <1>1 DEF PlanesInUsedRegion
<1>2. ASSUME NEW a \in Arenas, NEW ps \in PlaneLists, Freeze(a, ps)
      PROVE  \/ pc[x] = "frame" /\ planes'[x] = planes[x] /\ cursor'[x] = cursor[x]
             \/ ValidPlanes(x, ps) /\ planes'[x] = ps /\ cursor'[x] = cursor[x]
  BY <1>2 DEF Freeze, TypeOK
<1>3. ASSUME NEW ps \in PlaneLists,
             ValidPlanes(x, ps), planes'[x] = ps, cursor'[x] = cursor[x]
      PROVE  /\ Len(planes'[x]) <= MaxPlanes
             /\ \A i \in DOMAIN planes'[x] :
                  planes'[x][i].off + planes'[x][i].len <= cursor'[x]
  BY <1>3 DEF ValidPlanes
<1>4. ASSUME NEW a \in Arenas,
             \/ LeaseIdle(a) \/ LeaseGrow(a) \/ ResetArena(a) \/ DropArena(a)
             \/ \E r \in Requests : AllocAndWrite(a, r)
      PROVE  pc[x] = "frame" /\ planes'[x] = planes[x] /\ cursor'[x] = cursor[x]
  BY <1>4 DEF LeaseIdle, LeaseGrow, NewArena, ResetArena, DropArena, AllocAndWrite, TypeOK
<1>5. ASSUME NEW a \in Arenas, CloneFrame(a) \/ DropClone(a)
      PROVE  pc[x] = "frame" /\ planes'[x] = planes[x] /\ cursor'[x] = cursor[x]
  BY <1>5 DEF CloneFrame, DropClone, TypeOK
<1>6. ASSUME NEW a \in Arenas,
             Upgrade(a) \/ ZeroBuffer(a) \/ PushIdle(a) \/ Unref(a) \/ FreeBuffer(a)
      PROVE  pc[x] = "frame" /\ planes'[x] = planes[x] /\ cursor'[x] = cursor[x]
  BY <1>6 DEF Upgrade, ZeroBuffer, PushIdle, Unref, FreeBuffer, TypeOK
<1>7. CASE CloneHandle \/ DropHandle \/ UNCHANGED vars
  BY <1>1, <1>7 DEF CloneHandle, DropHandle, vars
<1>8. QED
  BY <1>1, <1>2, <1>3, <1>4, <1>5, <1>6, <1>7 DEF Next

\* Every plane of every frame lies in the region its arena handed out.
THEOREM PlanesInside == Spec => []PlanesInUsedRegion
<1>1. Init => PlanesInUsedRegion
  BY DEF Init, PlanesInUsedRegion
<1>2. TypeOK /\ PlanesInUsedRegion /\ [Next]_vars => PlanesInUsedRegion'
  BY PlanesNext
<1>3. QED
  BY <1>1, <1>2, PoolTypeCorrect, PTL DEF Spec

\* No step touches the buffer, the bytes or the planes of a frame that keeps
\* a clone.
LEMMA FrozenStep ==
  ASSUME PoolInv, [Next]_vars, NEW x \in Arenas,
         pc[x] = "frame", clones[x] + clones'[x] > 1
  PROVE  /\ buf'[x] = buf[x] /\ buf[x] \in heap'
         /\ content'[buf[x]] = content[buf[x]]
         /\ planes'[x] = planes[x]
<1>1. /\ x \in Held /\ buf[x] \in Buffers /\ buf[x] \in heap /\ buf[x] \notin IdleSet
      /\ \A a \in Held : a # x => buf[a] # buf[x]
  BY DEF PoolInv, TypeOK, OneOwner, HeapAccounted, Held
<1>2. TypeOK
  BY DEF PoolInv
<1>3. CASE UNCHANGED <<content, heap>> /\ buf'[x] = buf[x] /\ planes'[x] = planes[x]
  BY <1>1, <1>3
<1>4. ASSUME NEW a \in Arenas, LeaseIdle(a)
      PROVE  UNCHANGED <<content, heap>> /\ buf'[x] = buf[x] /\ planes'[x] = planes[x]
  BY <1>2, <1>4 DEF LeaseIdle, NewArena, TypeOK
<1>5. ASSUME NEW a \in Arenas, LeaseGrow(a)
      PROVE  /\ buf'[x] = buf[x] /\ buf[x] \in heap'
             /\ content'[buf[x]] = content[buf[x]] /\ planes'[x] = planes[x]
  <2>1. heap = 1 .. total /\ total \in Nat
    BY <1>2, <1>5 DEF LeaseGrow, PoolInv, AliveHeap, PoolAlive, TypeOK
  <2>2. buf[x] # total + 1
    BY <1>1, <2>1
  <2>3. QED
    BY <1>1, <1>2, <1>5, <2>2 DEF LeaseGrow, NewArena, TypeOK
<1>6. ASSUME NEW a \in Arenas, NEW r \in Requests, AllocAndWrite(a, r)
      PROVE  /\ buf'[x] = buf[x] /\ buf[x] \in heap'
             /\ content'[buf[x]] = content[buf[x]] /\ planes'[x] = planes[x]
  <2>1. a # x /\ a \in Held
    BY <1>2, <1>6 DEF AllocAndWrite, Held, TypeOK
  <2>2. buf[a] # buf[x]
    BY <1>1, <2>1
  <2>3. QED
    BY <1>1, <1>2, <1>6, <2>2 DEF AllocAndWrite, poolVars, TypeOK
<1>7. ASSUME NEW a \in Arenas, ResetArena(a) \/ CloneFrame(a) \/ DropArena(a) \/ Upgrade(a)
      PROVE  UNCHANGED <<content, heap>> /\ buf'[x] = buf[x] /\ planes'[x] = planes[x]
  BY <1>7 DEF ResetArena, CloneFrame, DropArena, Upgrade, poolVars
<1>8. ASSUME NEW a \in Arenas, NEW ps \in PlaneLists, Freeze(a, ps)
      PROVE  UNCHANGED <<content, heap>> /\ buf'[x] = buf[x] /\ planes'[x] = planes[x]
  BY <1>2, <1>8 DEF Freeze, poolVars, TypeOK
<1>9. ASSUME NEW a \in Arenas, DropClone(a)
      PROVE  UNCHANGED <<content, heap>> /\ buf'[x] = buf[x] /\ planes'[x] = planes[x]
  <2>1. UNCHANGED <<content, heap, buf>>
    BY <1>9 DEF DropClone, poolVars
  <2>2. CASE a # x
    BY <1>2, <1>9, <2>1, <2>2 DEF DropClone, TypeOK
  <2>3. CASE a = x
    <3>1. clones[x] \in Nat /\ clones'[x] = clones[x] - 1
      BY <1>2, <1>9, <2>3 DEF DropClone, TypeOK
    <3>2. clones[x] # 1
      BY <3>1
    <3>3. QED
      BY <1>9, <2>1, <2>3, <3>2 DEF DropClone
  <2>4. QED
    BY <2>2, <2>3
<1>10. ASSUME NEW a \in Arenas, ZeroBuffer(a)
       PROVE  /\ buf'[x] = buf[x] /\ buf[x] \in heap'
              /\ content'[buf[x]] = content[buf[x]] /\ planes'[x] = planes[x]
  <2>1. a # x /\ a \in Held
    BY <1>2, <1>10 DEF ZeroBuffer, Held, TypeOK
  <2>2. buf[a] # buf[x]
    BY <1>1, <2>1
  <2>3. QED
    BY <1>1, <1>2, <1>10, <2>2 DEF ZeroBuffer, poolVars, TypeOK
<1>11. ASSUME NEW a \in Arenas, PushIdle(a)
       PROVE  UNCHANGED <<content, heap>> /\ buf'[x] = buf[x] /\ planes'[x] = planes[x]
  BY <1>2, <1>11 DEF PushIdle, TypeOK
<1>12. ASSUME NEW a \in Arenas, FreeBuffer(a)
       PROVE  /\ buf'[x] = buf[x] /\ buf[x] \in heap'
              /\ content'[buf[x]] = content[buf[x]] /\ planes'[x] = planes[x]
  <2>1. a # x /\ a \in Held
    BY <1>2, <1>12 DEF FreeBuffer, Held, TypeOK
  <2>2. buf[a] # buf[x]
    BY <1>1, <2>1
  <2>3. QED
    BY <1>1, <1>2, <1>12, <2>1, <2>2 DEF FreeBuffer, TypeOK
<1>13. ASSUME FreeIdleIfLast, UNCHANGED <<content, buf, planes>>
       PROVE  /\ buf'[x] = buf[x] /\ buf[x] \in heap'
              /\ content'[buf[x]] = content[buf[x]] /\ planes'[x] = planes[x]
  BY <1>1, <1>13 DEF FreeIdleIfLast
<1>14. ASSUME DropHandle \/ \E a \in Arenas : Unref(a)
       PROVE  FreeIdleIfLast /\ UNCHANGED <<content, buf, planes>>
  BY <1>14 DEF DropHandle, Unref
<1>15. CASE CloneHandle \/ UNCHANGED vars
  BY <1>3, <1>15 DEF CloneHandle, vars, poolVars
<1>16. QED
  BY <1>3, <1>4, <1>5, <1>6, <1>7, <1>8, <1>9, <1>10, <1>11, <1>12, <1>13, <1>14, <1>15
     DEF Next

\* A frame is immutable while any clone of it exists.
THEOREM FrozenFrames == Spec => FrameFrozen
<1>1. PoolInv /\ [Next]_vars =>
        [\A a \in Arenas :
           pc[a] = "frame" /\ clones[a] + clones'[a] > 1 =>
             /\ buf'[a] = buf[a] /\ buf[a] \in heap'
             /\ content'[buf[a]] = content[buf[a]]
             /\ planes'[a] = planes[a]]_vars
  BY FrozenStep
<1>2. QED
  BY <1>1, PoolInvariant, PTL DEF Spec, FrameFrozen
=============================================================================
