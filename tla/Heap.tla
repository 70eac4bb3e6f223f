-------------------------------- MODULE Heap --------------------------------
(***************************************************************************)
(* What core/buddy.c promises to xmalloc's callers: a heap of blocks, each *)
(* a power of two and aligned to its size, handed out at the lowest place  *)
(* that is free.                                                           *)
(***************************************************************************)
EXTENDS Integers, FiniteSetsExt

CONSTANTS POOL_SIZE, MIN_BLOCK, NULL

VARIABLES
  live,   \* the blocks that are allocated: records with off and size
  asked,  \* the size the last call asked for (NULL after buddy_free)
  ret     \* and what it got

hvars == <<live, asked, ret>>

\* The block sizes there are.
Sizes == {MIN_BLOCK * 2^k : k \in 0..POOL_SIZE} \cap (MIN_BLOCK..POOL_SIZE)

Overlap(b, c) == b.off < c.off + c.size /\ c.off < b.off + b.size

\* The places where a block of size s could be put.
Places(s) ==
  {o \in 0..(POOL_SIZE - s) :
     o % s = 0 /\ \A b \in live : ~Overlap([off |-> o, size |-> s], b)}

HeapInit == live = {} /\ asked = NULL /\ ret = NULL

\* A request fails only if no aligned place of its size is free at all.
Alloc(n) ==
  LET S == {s \in Sizes : s >= n} IN
  /\ asked' = n
  /\ IF n = 0 \/ S = {} \/ Places(Min(S)) = {}
     THEN ret' = NULL /\ UNCHANGED live
     ELSE /\ ret' = Min(Places(Min(S)))
          /\ live' = live \cup {[off |-> ret', size |-> Min(S)]}

\* An address that is not the start of an allocated block is ignored.
Free(o) ==
  /\ asked' = NULL /\ ret' = NULL
  /\ live' = {b \in live : b.off # o}

HeapNext == \/ \E n \in 0..(POOL_SIZE + 1) : Alloc(n)
            \/ \E o \in 0..(POOL_SIZE - 1) : Free(o)

HeapSpec == HeapInit /\ [][HeapNext]_hvars
=============================================================================
