------------------------------ MODULE MCKernel ------------------------------
(* Kernel for TLC: the root and a file in it.                               *)
EXTENDS Kernel

CONSTANT a

MCPaths == {<<>>, <<a>>}
=============================================================================
