----------------------------- MODULE SchedTurns -----------------------------
(***************************************************************************)
(* Sched with the turns of the processes written down, to say what the     *)
(* order of a queue is for.  A process has a turn when sched_tick makes it *)
(* the current one.                                                        *)
(***************************************************************************)
EXTENDS Sched

\* History: <<p, q>> is in passed when p was given a turn while q, of the same
\* level, was in its life and not current, and q has not been given one since.
VARIABLE passed

\* The processes that wait for a turn while p is given one.
Waiting(p) == {q \in Procs \ {p} : Live(q) /\ prio_level(q) = prio_level(p)}

Turns ==
  LET p == g_current_proc' IN
  passed' = IF p = g_current_proc \/ p = None THEN passed
            ELSE {w \in passed : w[2] # p} \cup {<<p, q>> : q \in Waiting(p)}

TurnsInit == Init /\ passed = {}
TurnsNext == Next /\ Turns
TurnsSpec == TurnsInit /\ [][TurnsNext]_<<vars, passed>>

----------------------------------------------------------------------------
\* Properties

\* No overtaking: a process is not given a second turn while another of its
\* level, which lived all along, has had none in between, whatever blocks, wakes,
\* yields and exits in the meantime.  It is about the order in which sched_add,
\* sched_remove and the rotation in sched_pick_next keep a level.  (That a turn
\* comes at all is not claimed: only the head of a level is looked at.)
NoOvertaking ==
  [][\A q \in Procs :
       g_current_proc' # g_current_proc /\ Live(q) => <<g_current_proc', q>> \notin passed
    ]_<<vars, passed>>

=============================================================================
