----------------------------- MODULE ArenaArith -----------------------------
(***************************************************************************)
(* The address arithmetic of one bump allocation, shared by both arenas    *)
(* of the crate (src/arena/mod.rs and src/arena/sync.rs).                  *)
(*                                                                         *)
(* alloc::<T>(count) is a request [size, align, count]: size_of::<T>(),    *)
(* align_of::<T>() and the element count.  A usize holds 0 .. UsizeMod-1   *)
(* and every checked_* operation fails exactly when its mathematical       *)
(* result leaves that range.                                               *)
(***************************************************************************)
EXTENDS Integers

CONSTANTS
  Cap,        \* capacity of the arena in bytes (cap_per_arena)
  UsizeMod,   \* 2^64 in the code: the first value a usize cannot hold
  Requests    \* the alloc calls a client may make

Request == [size : Nat, align : Nat \ {0}, count : Nat]

ASSUME CapAssumption == Cap \in Nat /\ UsizeMod \in Nat /\ Cap < UsizeMod
ASSUME RequestsAssumption == Requests \subseteq Request

\* elem_size.checked_mul(count)
BytesOf(r) == r.size * r.count
SizeOverflows(r) == BytesOf(r) >= UsizeMod

\* Bug: the rounding is forgotten.
AlignUpForgotten(n, align) == n

\* m & !mask with mask = align - 1.  A Rust alignment is a power of two, so
\* clearing the low bits of m subtracts m % align.
AlignUp(n, align) == (n + (align - 1)) - ((n + (align - 1)) % align)
AlignOverflows(n, align) == n + (align - 1) >= UsizeMod

\* The byte range [lo, hi) that r claims when the bump cursor is at c.
Lo(c, r) == AlignUp(c, r.align)

\* Bug: a plain addition, which wraps in a release build, for the checked_add.
HiWrapped(c, r) == (Lo(c, r) + BytesOf(r)) % UsizeMod

Hi(c, r) == Lo(c, r) + BytesOf(r)

\* The three checks between reading the cursor and claiming the range.
Fits(c, r) ==
  /\ ~ AlignOverflows(c, r.align)
  /\ Hi(c, r) < UsizeMod
  /\ Hi(c, r) <= Cap

\* A slice handed out for r at cursor c.
Slice == [lo : Nat, hi : Nat, align : Nat \ {0}]
SliceAt(c, r) == [lo |-> Lo(c, r), hi |-> Hi(c, r), align |-> r.align]
=============================================================================
