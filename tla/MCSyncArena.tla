----------------------------- MODULE MCSyncArena -----------------------------
(***************************************************************************)
(* Small instances of SyncArena.  The requests cover a byte, an aligned    *)
(* pair that needs padding, an empty slice, one whose size overflows a     *)
(* usize and one whose alignment does.                                     *)
(***************************************************************************)
EXTENDS SyncArena

Req(size, align, count) == [size |-> size, align |-> align, count |-> count]

MCRequests ==
  { Req(1, 1, 1),    \* alloc::<u8>(1)
    Req(2, 2, 1),    \* alloc::<u16>(1)
    Req(0, 4, 1),    \* a zero-sized type that still aligns the cursor
    Req(3, 1, 1),    \* alloc::<[u8; 3]>(1): ends beyond UsizeMod = 5 from 2
    Req(4, 1, 2) }   \* size_of * count overflows

RaceRequests == { Req(1, 1, 1), Req(4, 1, 1) }
=============================================================================
