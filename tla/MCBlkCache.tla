---------------------------- MODULE MCBlkCache ----------------------------
(* BlkCache for TLC.                                                       *)
EXTENDS BlkCache, TLC

CONSTANTS d1, d2, l1, l2, l3

MCBlocks == {<<d1, l1>>, <<d1, l2>>, <<d2, l3>>}
Symmetry == Permutations(Data) \cup Permutations({l1, l2})
=============================================================================
