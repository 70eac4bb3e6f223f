------------------------------ MODULE MCSched ------------------------------
(* Every process has the priority proc_create gives, 128.                   *)
EXTENDS SchedTurns

MCPriority == [p \in Procs |-> 128]
=============================================================================
