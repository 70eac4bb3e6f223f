----------------------------- MODULE MCRegIpc -----------------------------
(* RegIpc for TLC: the forked processes and the messages are alike.        *)
EXTENDS RegIpc

Symmetry == Permutations(Msgs) \cup Permutations(Procs \ {FirstProc})

\* Two states are one for TLC when they differ only in what an exited process
\* was doing and what went through its queues: only processes that are alive
\* take steps, and the properties speak of no others.
Living(f) == [p \in alive |-> f[p]]
View == <<alive, exited, queue, pipe, Living(pc), Living(sent), Living(rcvd),
          written, read, writers, readers, sends>>
=============================================================================
