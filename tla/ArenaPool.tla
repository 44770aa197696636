------------------------------ MODULE ArenaPool ------------------------------
(***************************************************************************)
(* The buffer pool, the arenas leased from it and the refcounted frames    *)
(* that keep a lease alive (src/arena/sync.rs; src/arena/mod.rs has the    *)
(* same structure with Rc for Arc).                                        *)
(*                                                                         *)
(* Concurrency: leases, allocations, clones and drops of different arenas  *)
(* run on different threads and interleave; the pool's mutex makes the     *)
(* idle-list operations atomic.  Dropping an Arena is not atomic: it       *)
(* upgrades its Weak handle, zeroes the buffer outside the lock, pushes it *)
(* under the lock, and gives the upgraded handle back -- which may be the  *)
(* last one.  An alloc is one step here: module SyncArena shows that a     *)
(* concurrent one is equivalent to an atomic one.                          *)
(***************************************************************************)
EXTENDS ArenaArith, Sequences, FiniteSets

CONSTANTS
  Arenas,       \* identities for the Arena values clients hold
  MaxArenas,    \* max_arenas
  MaxPlanes,    \* MAX_PLANES
  PlaneLists,   \* the plane tables a decoder may pass to FrameInner::new
  MaxHandles,   \* bound: Arc<ArenaPool> handles held by clients
  MaxClones     \* bound: clones of one Frame

Plane == [off : Nat, len : Nat]

ASSUME PoolAssumption ==
  /\ MaxArenas \in Nat
  /\ MaxPlanes \in Nat
  /\ MaxHandles \in Nat \ {0}
  /\ MaxClones \in Nat \ {0}
  /\ IsFiniteSet(Arenas)
  /\ PlaneLists \subseteq Seq(Plane)

Buffers == 1 .. MaxArenas   \* a buffer is named by the order of its allocation
NoBuffer == 0

VARIABLES
  handles,   \* strong Arc<ArenaPool> handles held by clients
  idle,      \* PoolInner.idle, a stack
  total,     \* PoolInner.total_allocated
  heap,      \* buffers allocated and not yet freed
  content,   \* whose writes a buffer shows: an arena, or Zero
  pc,        \* where each arena is in its life
  buf,       \* the buffer each arena owns
  cursor,    \* its bump cursor
  clones,    \* strong count of the Frame that owns it
  planes     \* plane_offsets of that Frame

poolVars == <<handles, idle, total, heap>>
vars == <<poolVars, content, pc, buf, cursor, clones, planes>>

CONSTANT Zero   \* the content of a buffer nobody wrote to since it was zeroed

\* "arena": owned by a client; "frame": frozen into a Frame; "drop" .. "unref":
\* inside Arena::drop; "free": the pool is gone, the buffer is to be freed.
Points == {"none", "arena", "frame", "drop", "zero", "push", "unref", "free"}

\* Arc<ArenaPool> strong handles: the clients', and the one each running
\* Arena::drop holds after its upgrade.  The pool lives while there is one.
Upgraded == {a \in Arenas : pc[a] \in {"zero", "push", "unref"}}
PoolAlive == handles > 0 \/ Upgraded # {}

Held == {a \in Arenas : buf[a] # NoBuffer}
IdleSet == {idle[i] : i \in DOMAIN idle}

-----------------------------------------------------------------------------
Init ==
  /\ handles = 1
  /\ idle = <<>>
  /\ total = 0
  /\ heap = {}
  /\ content = [b \in Buffers |-> Zero]
  /\ pc = [a \in Arenas |-> "none"]
  /\ buf = [a \in Arenas |-> NoBuffer]
  /\ cursor = [a \in Arenas |-> 0]
  /\ clones = [a \in Arenas |-> 0]
  /\ planes = [a \in Arenas |-> <<>>]

\* The arena lease() builds around a buffer.
NewArena(a, b) ==
  /\ pc' = [pc EXCEPT ![a] = "arena"]
  /\ buf' = [buf EXCEPT ![a] = b]
  /\ cursor' = [cursor EXCEPT ![a] = 0]
  /\ UNCHANGED <<clones, planes>>

\* Bug: the idle buffer is handed out without being popped.
LeaseIdlePeek(a) ==
  /\ pc[a] = "none" /\ handles > 0
  /\ idle # <<>>
  /\ NewArena(a, idle[Len(idle)])
  /\ UNCHANGED <<poolVars, content>>

\* lease(): reuse the most recently returned buffer ...
LeaseIdle(a) ==
  /\ pc[a] = "none" /\ handles > 0
  /\ idle # <<>>
  /\ NewArena(a, idle[Len(idle)])
  /\ idle' = SubSeq(idle, 1, Len(idle) - 1)
  /\ UNCHANGED <<handles, total, heap, content>>

\* ... or grow the pool.  When neither is possible lease() fails and changes
\* nothing.
LeaseGrow(a) ==
  /\ pc[a] = "none" /\ handles > 0
  /\ idle = <<>>
  /\ total < MaxArenas
  /\ total' = total + 1
  /\ heap' = heap \union {total + 1}
  /\ content' = [content EXCEPT ![total + 1] = Zero]
  /\ NewArena(a, total + 1)
  /\ UNCHANGED <<handles, idle>>

\* alloc, then the client fills the slice.  A refused alloc changes nothing.
AllocAndWrite(a, r) ==
  /\ pc[a] = "arena"
  /\ ~ SizeOverflows(r) /\ Fits(cursor[a], r)
  /\ cursor' = [cursor EXCEPT ![a] = Hi(cursor[a], r)]
  /\ content' = IF BytesOf(r) = 0 THEN content
                ELSE [content EXCEPT ![buf[a]] = a]
  /\ UNCHANGED <<poolVars, pc, buf, clones, planes>>

ResetArena(a) ==
  /\ pc[a] = "arena"
  /\ cursor' = [cursor EXCEPT ![a] = 0]
  /\ UNCHANGED <<poolVars, content, pc, buf, clones, planes>>

\* Bug: the planes are checked against the buffer, not the used region.
ValidPlanesInCap(a, ps) ==
  /\ Len(ps) <= MaxPlanes
  /\ \A i \in DOMAIN ps : ps[i].off + ps[i].len <= Cap

\* The checks of FrameInner::new.
ValidPlanes(a, ps) ==
  /\ Len(ps) <= MaxPlanes
  /\ \A i \in DOMAIN ps :
       /\ ps[i].off + ps[i].len < UsizeMod
       /\ ps[i].off + ps[i].len <= cursor[a]

\* FrameInner::new consumes the arena: on InvalidData it is dropped.
Freeze(a, ps) ==
  /\ pc[a] = "arena"
  /\ IF ValidPlanes(a, ps)
       THEN /\ pc' = [pc EXCEPT ![a] = "frame"]
            /\ clones' = [clones EXCEPT ![a] = 1]
            /\ planes' = [planes EXCEPT ![a] = ps]
       ELSE /\ pc' = [pc EXCEPT ![a] = "drop"]
            /\ UNCHANGED <<clones, planes>>
  /\ UNCHANGED <<poolVars, content, buf, cursor>>

CloneFrame(a) ==
  /\ pc[a] = "frame"
  /\ clones[a] < MaxClones
  /\ clones' = [clones EXCEPT ![a] = @ + 1]
  /\ UNCHANGED <<poolVars, content, pc, buf, cursor, planes>>

\* Bug: any clone's drop tears the frame down.
DropCloneEager(a) ==
  /\ pc[a] = "frame"
  /\ clones' = [clones EXCEPT ![a] = 0]
  /\ pc' = [pc EXCEPT ![a] = "drop"]
  /\ planes' = [planes EXCEPT ![a] = <<>>]
  /\ UNCHANGED <<poolVars, content, buf, cursor>>

\* Dropping the last clone drops FrameInner and so its arena.
DropClone(a) ==
  /\ pc[a] = "frame"
  /\ clones' = [clones EXCEPT ![a] = @ - 1]
  /\ IF clones[a] = 1
       THEN /\ pc' = [pc EXCEPT ![a] = "drop"]
            /\ planes' = [planes EXCEPT ![a] = <<>>]
       ELSE UNCHANGED <<pc, planes>>
  /\ UNCHANGED <<poolVars, content, buf, cursor>>

DropArena(a) ==
  /\ pc[a] = "arena"
  /\ pc' = [pc EXCEPT ![a] = "drop"]
  /\ UNCHANGED <<poolVars, content, buf, cursor, clones, planes>>

-----------------------------------------------------------------------------
(* Arena::drop and ArenaPool::release, one action per step another thread   *)
(* can interleave with.                                                     *)

\* Bug: no branch for a pool that is gone.
UpgradeOnly(a) ==
  /\ pc[a] = "drop" /\ PoolAlive
  /\ pc' = [pc EXCEPT ![a] = "zero"]
  /\ UNCHANGED <<poolVars, content, buf, cursor, clones, planes>>

\* self.pool.upgrade()
Upgrade(a) ==
  /\ pc[a] = "drop"
  /\ pc' = [pc EXCEPT ![a] = IF PoolAlive THEN "zero" ELSE "free"]
  /\ UNCHANGED <<poolVars, content, buf, cursor, clones, planes>>

\* Bug: the buffer goes back as it is.
ZeroSkipped(a) ==
  /\ pc[a] = "zero"
  /\ pc' = [pc EXCEPT ![a] = "push"]
  /\ UNCHANGED <<poolVars, content, buf, cursor, clones, planes>>

\* buffer.zero(), before the lock is taken
ZeroBuffer(a) ==
  /\ pc[a] = "zero"
  /\ content' = [content EXCEPT ![buf[a]] = Zero]
  /\ pc' = [pc EXCEPT ![a] = "push"]
  /\ UNCHANGED <<poolVars, buf, cursor, clones, planes>>

\* Bug: the buffer is freed instead, and total_allocated still counts it.
PushFreed(a) ==
  /\ pc[a] = "push"
  /\ heap' = heap \ {buf[a]}
  /\ buf' = [buf EXCEPT ![a] = NoBuffer]
  /\ pc' = [pc EXCEPT ![a] = "unref"]
  /\ UNCHANGED <<handles, idle, total, content, cursor, clones, planes>>

\* inner.idle.push(buffer).  The lock cannot be poisoned: nothing that runs
\* under it unwinds.
PushIdle(a) ==
  /\ pc[a] = "push"
  /\ idle' = Append(idle, buf[a])
  /\ buf' = [buf EXCEPT ![a] = NoBuffer]
  /\ pc' = [pc EXCEPT ![a] = "unref"]
  /\ UNCHANGED <<handles, total, heap, content, cursor, clones, planes>>

\* The last strong handle drops PoolInner, which frees the idle buffers.
FreeIdleIfLast ==
  IF PoolAlive' THEN UNCHANGED <<heap, idle>>
                ELSE heap' = heap \ IdleSet /\ idle' = <<>>

\* The upgraded handle goes out of scope.
Unref(a) ==
  /\ pc[a] = "unref"
  /\ pc' = [pc EXCEPT ![a] = "none"]
  /\ cursor' = [cursor EXCEPT ![a] = 0]
  /\ UNCHANGED <<handles, total, content, buf, clones, planes>>
  /\ FreeIdleIfLast

\* Bug: a release that finds the pool gone forgets the buffer.
FreeForgotten(a) ==
  /\ pc[a] = "free"
  /\ buf' = [buf EXCEPT ![a] = NoBuffer]
  /\ pc' = [pc EXCEPT ![a] = "none"]
  /\ cursor' = [cursor EXCEPT ![a] = 0]
  /\ UNCHANGED <<poolVars, content, clones, planes>>

\* upgrade() failed: the buffer is freed here.
FreeBuffer(a) ==
  /\ pc[a] = "free"
  /\ heap' = heap \ {buf[a]}
  /\ buf' = [buf EXCEPT ![a] = NoBuffer]
  /\ pc' = [pc EXCEPT ![a] = "none"]
  /\ cursor' = [cursor EXCEPT ![a] = 0]
  /\ UNCHANGED <<handles, idle, total, content, clones, planes>>

-----------------------------------------------------------------------------
\* Clients clone and drop their Arc<ArenaPool>.
CloneHandle ==
  /\ handles > 0 /\ handles < MaxHandles
  /\ handles' = handles + 1
  /\ UNCHANGED <<idle, total, heap, content, pc, buf, cursor, clones, planes>>

DropHandle ==
  /\ handles > 0
  /\ handles' = handles - 1
  /\ UNCHANGED <<total, content, pc, buf, cursor, clones, planes>>
  /\ FreeIdleIfLast

DropStep(a) == Upgrade(a) \/ ZeroBuffer(a) \/ PushIdle(a) \/ Unref(a) \/ FreeBuffer(a)

Next ==
  \/ CloneHandle
  \/ DropHandle
  \/ \E a \in Arenas :
       \/ LeaseIdle(a)
       \/ LeaseGrow(a)
       \/ \E r \in Requests : AllocAndWrite(a, r)
       \/ ResetArena(a)
       \/ \E ps \in PlaneLists : Freeze(a, ps)
       \/ CloneFrame(a)
       \/ DropClone(a)
       \/ DropArena(a)
       \/ Upgrade(a)
       \/ ZeroBuffer(a)
       \/ PushIdle(a)
       \/ Unref(a)
       \/ FreeBuffer(a)

\* A running destructor runs to its end; nothing obliges a client to drop.
Fairness == \A a \in Arenas : WF_vars(DropStep(a))

Spec == Init /\ [][Next]_vars

FairSpec == Spec /\ Fairness

-----------------------------------------------------------------------------
\* The shape of the state; an arena owns a buffer from lease to push or free.
TypeOK ==
  /\ handles \in 0 .. MaxHandles
  /\ idle \in Seq(Buffers)
  /\ total \in 0 .. MaxArenas
  /\ heap \subseteq Buffers
  /\ content \in [Buffers -> Arenas \union {Zero}]
  /\ pc \in [Arenas -> Points]
  /\ buf \in [Arenas -> Buffers \union {NoBuffer}]
  /\ cursor \in [Arenas -> 0 .. Cap]
  /\ clones \in [Arenas -> 0 .. MaxClones]
  /\ planes \in [Arenas -> Seq(Plane)]
  /\ \A a \in Arenas : buf[a] = NoBuffer <=> pc[a] \in {"none", "unref"}

\* No buffer has two owners: not two arenas, not an arena and the idle list,
\* and it is not on the idle list twice (a double release would do that).
OneOwner ==
  /\ \A a, b \in Held : a # b => buf[a] # buf[b]
  /\ \A i, j \in DOMAIN idle : i # j => idle[i] # idle[j]
  /\ \A a \in Held : buf[a] \notin IdleSet

\* Every live buffer has an owner and every owner's buffer is live: nothing
\* leaks when pool, arenas and frames die in any order, nothing is used after
\* its memory is freed.
HeapAccounted == heap = IdleSet \union {buf[a] : a \in Held}

\* While the pool lives, total_allocated counts exactly its live buffers, so
\* a lease is refused only when MaxArenas arenas are checked out.
LeaseAvailable ==
  handles > 0 /\ Cardinality(Held) < MaxArenas
    => idle # <<>> \/ total < MaxArenas

\* An arena's buffer shows only its own writes, and an idle one shows none:
\* no lease sees the bytes of an earlier one.
NoStaleBytes ==
  /\ \A b \in IdleSet : content[b] = Zero
  /\ \A a \in Held : content[buf[a]] \in {Zero, a}

\* The plane ranges of a Frame stay inside the region its arena handed out,
\* as the unsafe block of FrameInner::plane assumes.
PlanesInUsedRegion ==
  \A a \in Arenas : pc[a] = "frame" =>
    /\ Len(planes[a]) <= MaxPlanes
    /\ \A i \in DOMAIN planes[a] : planes[a][i].off + planes[a][i].len <= cursor[a]

\* As long as any clone of a Frame exists its bytes and its planes never
\* change and its buffer stays out of the pool.
FrameFrozen ==
  [][\A a \in Arenas :
       pc[a] = "frame" /\ clones[a] + clones'[a] > 1 =>
         /\ buf'[a] = buf[a] /\ buf[a] \in heap'
         /\ content'[buf[a]] = content[buf[a]]
         /\ planes'[a] = planes[a]]_vars

\* Every drop that starts ends with the buffer back in the pool or freed.
DropCompletes == \A a \in Arenas : pc[a] = "drop" ~> pc[a] = "none"

\* The pool is a counting semaphore over checked-out arenas, where an arena
\* counts until its destructor has pushed or freed the buffer.
Semaphore == INSTANCE LeaseSemaphore WITH out <- Held
ImplementsSemaphore == Semaphore!Spec
=============================================================================
