------------------------------- MODULE MCSysio -------------------------------
(* A library file of one byte that is built in, and one on the disk. *)
EXTENDS Sysio, TLC

MCTextLen  == [p \in {"lib"} |-> 1]
MCOffsets  == {-1, 1}
MCSymmetry == Permutations(Streams)
=============================================================================
