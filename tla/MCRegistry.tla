----------------------------- MODULE MCRegistry -----------------------------
(* Registry for TLC: two names, and calls over paths some of which are    *)
(* below others.                                                           *)
EXTENDS Registry

CONSTANTS a, b, plain

MCTop == <<a>>
MCNames == {a, b}
Written == {<<a>>, <<a, a>>, <<a, b>>, <<b, b>>}
Dropped == {<<a>>, <<a, b>>}
Moved == {<<a>>, <<a, Empty>>}
Landing == {<<b>>, <<a, b>>, <<b, Empty>>}

\* A path over another, over one below it, over one above it.
Over == {[s |-> <<a>>, d |-> <<b>>], [s |-> <<a>>, d |-> <<a, b>>], [s |-> <<a, b>>, d |-> <<a>>]}
Itself == [s |-> <<a>>, d |-> <<a>>]

MCCalls ==
  [op : {"set"}, p : Written, v : Values] \cup [op : {"delete"}, p : Dropped]
  \cup [op : {"move"}, s : Moved, d : Landing]
  \cup {[op |-> "mount", s |-> o.s, d |-> o.d, before |-> w] : o \in Over, w \in BOOLEAN}
  \cup {[op |-> "bind", s |-> o.s, d |-> o.d] : o \in Over}
  \cup {[op |-> "unmount", s |-> o.s, d |-> o.d] : o \in Over \cup {Itself}}
  \cup {[op |-> "unmount all", d |-> <<b>>]}
=============================================================================
