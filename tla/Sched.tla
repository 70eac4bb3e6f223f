------------------------------- MODULE Sched -------------------------------
(***************************************************************************)
(* The process table and the scheduler: kernel/proc.c, kernel/sched.c and  *)
(* the context switch of kernel/ctx_amd64.S / ctx_arm64.S.                 *)
(*                                                                         *)
(* A process control block (NexsProc) is a member of Procs; its pid is its *)
(* identity.  Every level queue is the sequence that s_queues[l] and the   *)
(* next pointers spell.  One action is one call of the public API: none of *)
(* them overlaps the timer interrupt here (sched_add and sched_remove do   *)
(* not mask it; that interleaving is outside this module).                 *)
(*                                                                         *)
(* What runs on the CPU is kept apart from g_current_proc: a thread of     *)
(* control is named after the process whose entry point it started at, and *)
(* Boot is the thread that was running before any process existed.  The    *)
(* timer interrupt is acknowledged (LAPIC EOI on amd64, timer rearm on     *)
(* arm64) after its callback returns, so a thread switched out inside the  *)
(* callback still owes the acknowledgement when it is resumed.             *)
(***************************************************************************)
EXTENDS Integers, Sequences, SequencesExt

CONSTANTS
  Procs,         \* the control blocks proc_create can allocate
  Paths,         \* the registry paths a process can wait on
  Priority,      \* p->priority; proc_create sets it to 128 for every process
  PublishEvery,  \* publish_state writes on one tick out of this many (64)
  None,          \* NULL
  Boot           \* the thread that calls the kernel before the first switch

ASSUME PriorityAssumption == Priority \in [Procs -> 0..255]
ASSUME PublishAssumption == PublishEvery \in Nat \ {0}
ASSUME DistinctAssumption == /\ None \notin Procs
                             /\ Boot \notin Procs
                             /\ None \notin Paths

VARIABLES
  queue,      \* s_queues / s_tails / next: level -> sequence of processes
  s_counts,   \* s_counts[level]
  s_total,    \* s_total
  s_tick,     \* s_tick modulo PublishEvery
  published,  \* /sys/sched/runqueue_depth and /sys/sched/current_pid
  state,      \* p->state; "UNUSED" before proc_create
  wait_path,  \* p->wait_path; None stands for the empty string
  g_current_proc,
  ctx,        \* p->ctx: the thread whose registers are saved there
  cpu,        \* the thread that is running
  irq_open,   \* a timer interrupt was taken and not acknowledged yet
  in_isr,     \* the threads switched out inside the timer's callback
  reg_state,  \* the registry key /proc/<pid>/state
  exited      \* history: the processes proc_destroy has been called on

qvars == <<queue, s_counts, s_total>>
vars == <<queue, s_counts, s_total, s_tick, published, state, wait_path,
          g_current_proc, ctx, cpu, irq_open, in_isr, reg_state, exited>>

SCHED_LEVELS == 8
Levels == 0..(SCHED_LEVELS - 1)
prio_level(p) == (Priority[p] * SCHED_LEVELS) \div 256

ProcStates == {"UNUSED", "RUNNING", "READY", "BLOCKED", "ZOMBIE"}
RegStates == {"none", "ready", "blocked", "zombie"}
Threads == Procs \cup {Boot}

TypeOK ==
  /\ queue \in [Levels -> Seq(Procs)]
  /\ s_counts \in [Levels -> Nat]
  /\ s_total \in Int
  /\ s_tick \in 0..(PublishEvery - 1)
  /\ published \in [runqueue_depth : Int, current_pid : Procs \cup {None}]
  /\ state \in [Procs -> ProcStates]
  /\ wait_path \in [Procs -> Paths \cup {None}]
  /\ g_current_proc \in Procs \cup {None}
  /\ ctx \in [Procs -> Threads]
  /\ cpu \in Threads
  /\ irq_open \in BOOLEAN
  /\ in_isr \subseteq Threads
  /\ reg_state \in [Procs -> RegStates]
  /\ exited \subseteq Procs

\* sched_init, before the first process: the timer is not running yet.
Init ==
  /\ queue = [l \in Levels |-> <<>>]
  /\ s_counts = [l \in Levels |-> 0]
  /\ s_total = 0
  /\ s_tick = 0
  /\ published = [runqueue_depth |-> 0, current_pid |-> None]
  /\ state = [p \in Procs |-> "UNUSED"]
  /\ wait_path = [p \in Procs |-> None]
  /\ g_current_proc = None
  /\ ctx = [p \in Procs |-> p]
  /\ cpu = Boot
  /\ irq_open = FALSE
  /\ in_isr = {}
  /\ reg_state = [p \in Procs |-> "none"]
  /\ exited = {}

----------------------------------------------------------------------------
\* Helpers

Queued(p) == \E i \in DOMAIN queue[prio_level(p)] : queue[prio_level(p)][i] = p

\* The control blocks whose life has begun and not ended.
Live(p) == state[p] # "UNUSED" /\ p \notin exited

\* sched_find walks every level; proc_by_pid is this.
sched_find(p) == \E l \in Levels : \E i \in DOMAIN queue[l] : queue[l][i] = p

\* The queue side of sched_add: append at the tail of p's level.
sched_add(p) ==
  LET l == prio_level(p) IN
  /\ queue' = [queue EXCEPT ![l] = Append(@, p)]
  /\ s_counts' = [s_counts EXCEPT ![l] = @ + 1]
  /\ s_total' = s_total + 1

Index(q, p) == CHOOSE i \in DOMAIN q : q[i] = p

\* Slips of sched_remove: the link is cut before it is copied; the total is
\* forgotten.
sched_remove_cuts_tail(p) ==
  LET l == prio_level(p) IN
  /\ queue' = [queue EXCEPT ![l] = SubSeq(@, 1, Index(@, p) - 1)]
  /\ s_counts' = [s_counts EXCEPT ![l] = @ - 1]
  /\ s_total' = s_total - 1

sched_remove_keeps_total(p) ==
  LET l == prio_level(p) IN
  /\ queue' = [queue EXCEPT ![l] = RemoveAt(@, Index(@, p))]
  /\ s_counts' = [s_counts EXCEPT ![l] = @ - 1]
  /\ UNCHANGED s_total

\* sched_remove: unlink p from its level; a process that is not there is
\* left alone, counters included.
sched_remove(p) ==
  LET l == prio_level(p) IN
  IF Queued(p)
  THEN /\ queue' = [queue EXCEPT ![l] = RemoveAt(@, Index(@, p))]
       /\ s_counts' = [s_counts EXCEPT ![l] = @ - 1]
       /\ s_total' = s_total - 1
  ELSE UNCHANGED qvars

\* Only the head of a level is looked at.
HeadReady(st, l) == queue[l] # <<>> /\ st[Head(queue[l])] = "READY"

\* The level sched_pick_next takes its process from.
Picked(st) == {l \in Levels : /\ HeadReady(st, l)
                              /\ \A k \in Levels : k < l => ~HeadReady(st, k)}

\* The head goes to the tail of its level (and, as a slip, behind the next one).
Rotate_behind_next(q) ==
  IF Len(q) < 2 THEN q ELSE <<q[2], q[1]>> \o SubSeq(q, 3, Len(q))
Rotate(q) == Append(Tail(q), Head(q))

\* publish_state, run before the pick: s_tick has just been incremented.
publish_state ==
  /\ s_tick' = (s_tick + 1) % PublishEvery
  /\ published' =
       IF s_tick' # 0 THEN published
       ELSE [runqueue_depth |-> s_total,
             current_pid |-> IF g_current_proc # None THEN g_current_proc
                             ELSE published.current_pid]

\* A slip of the call: the arguments of ctx_switch exchanged.
ctx_switch_swapped(prev, next) ==
  /\ ctx' = [ctx EXCEPT ![next] = cpu]
  /\ cpu' = ctx[prev]

\* ctx_switch(prev->ctx, next->ctx): save the running thread, load the other.
ctx_switch(prev, next) ==
  /\ ctx' = [ctx EXCEPT ![prev] = cpu]
  /\ cpu' = ctx[next]

\* sched_tick's bookkeeping for the process next; st is p->state at the call.
\* The outgoing process is made READY whatever state it was in.
SwitchTo(next, st) ==
  LET prev == g_current_proc IN
  /\ g_current_proc' = next
  /\ IF prev # None
     THEN /\ state' = [st EXCEPT ![next] = "RUNNING", ![prev] = "READY"]
          /\ ctx_switch(prev, next)
     ELSE /\ state' = [st EXCEPT ![next] = "RUNNING"]
          /\ UNCHANGED <<ctx, cpu>>      \* nothing is loaded

\* What the switch does to the interrupt: the outgoing thread keeps the
\* acknowledgement it owes, the incoming one pays its own as it leaves its ISR.
Acknowledge(inIsr) ==
  IF g_current_proc' = g_current_proc \/ g_current_proc = None
  THEN UNCHANGED <<irq_open, in_isr>>
  ELSE LET owing == IF inIsr THEN in_isr \cup {cpu} ELSE in_isr IN
       /\ in_isr' = owing \ {cpu'}
       /\ irq_open' = ((irq_open \/ inIsr) /\ cpu' \notin owing)

\* sched_tick, entered with the process states st, from the timer's interrupt
\* service routine or not.
sched_tick(st, inIsr) ==
  /\ publish_state
  /\ \/ /\ Picked(st) = {}
        /\ state' = st
        /\ UNCHANGED <<queue, g_current_proc, ctx, cpu>>
     \/ \E l \in Picked(st) :
          /\ queue' = [queue EXCEPT ![l] = Rotate(@)]
          /\ LET next == Head(queue[l]) IN
             IF next = g_current_proc
             THEN state' = st /\ UNCHANGED <<g_current_proc, ctx, cpu>>
             ELSE SwitchTo(next, st)
  /\ Acknowledge(inIsr)
  /\ UNCHANGED <<s_counts, s_total>>

----------------------------------------------------------------------------
\* Actions: one per operation of nexs_proc.h

proc_create(p) ==
  /\ state[p] = "UNUSED"
  /\ sched_add(p)
  /\ state' = [state EXCEPT ![p] = "READY"]
  /\ ctx' = [ctx EXCEPT ![p] = p]
  /\ reg_state' = [reg_state EXCEPT ![p] = "ready"]
  /\ UNCHANGED <<s_tick, published, wait_path, g_current_proc, cpu,
                 irq_open, in_isr, exited>>

\* A slip of proc_destroy: the process is never taken off its queue.
proc_destroy_stays_queued(p) ==
  /\ sched_find(p)
  /\ state' = [state EXCEPT ![p] = "ZOMBIE"]
  /\ reg_state' = [reg_state EXCEPT ![p] = "zombie"]
  /\ exited' = exited \cup {p}
  /\ UNCHANGED <<queue, s_counts, s_total, s_tick, published, wait_path,
                 g_current_proc, ctx, cpu, irq_open, in_isr>>

\* sys_exit, its only caller, looks the process up with sched_find first.
\* g_current_proc keeps pointing at the process when it is the current one.
proc_destroy(p) ==
  /\ sched_find(p)
  /\ sched_remove(p)
  /\ state' = [state EXCEPT ![p] = "ZOMBIE"]
  /\ reg_state' = [reg_state EXCEPT ![p] = "zombie"]
  /\ exited' = exited \cup {p}
  /\ UNCHANGED <<s_tick, published, wait_path, g_current_proc, ctx, cpu,
                 irq_open, in_isr>>

\* Called by the current process: mark it blocked, then yield.
proc_block(w) ==
  LET p == g_current_proc IN
  /\ p # None
  /\ wait_path' = [wait_path EXCEPT ![p] = w]
  /\ reg_state' = [reg_state EXCEPT ![p] = "blocked"]
  /\ sched_tick([state EXCEPT ![p] = "BLOCKED"], FALSE)
  /\ UNCHANGED exited

\* proc_yield, sched_yield: a voluntary tick.
proc_yield ==
  /\ sched_tick(state, FALSE)
  /\ UNCHANGED <<wait_path, reg_state, exited>>

\* A slip of the interrupt path: the timer nests before it is acknowledged.
timer_isr_nests ==
  /\ sched_tick(state, TRUE)
  /\ UNCHANGED <<wait_path, reg_state, exited>>

\* The timer interrupt: delivered only once the last one is acknowledged.
timer_isr ==
  /\ ~irq_open
  /\ sched_tick(state, TRUE)
  /\ UNCHANGED <<wait_path, reg_state, exited>>

\* proc_unblock_by_msg: the scan sees only the processes in the queues.
sched_unblock_waiting(w) ==
  LET woken == {p \in Procs : sched_find(p) /\ state[p] = "BLOCKED" /\ wait_path[p] = w} IN
  /\ state' = [p \in Procs |-> IF p \in woken THEN "READY" ELSE state[p]]
  /\ wait_path' = [p \in Procs |-> IF p \in woken THEN None ELSE wait_path[p]]
  /\ UNCHANGED <<queue, s_counts, s_total, s_tick, published, g_current_proc,
                 ctx, cpu, irq_open, in_isr, reg_state, exited>>

Next ==
  \/ \E p \in Procs : proc_create(p) \/ proc_destroy(p)
  \/ \E w \in Paths : proc_block(w) \/ sched_unblock_waiting(w)
  \/ proc_yield
  \/ timer_isr

Spec == Init /\ [][Next]_vars

----------------------------------------------------------------------------
\* Properties

\* Every process between proc_create and proc_destroy is in the queue of its
\* own level exactly once, whatever rotations, removals and blocks happened in
\* between, and a destroyed one is in none (sched_add, sched_remove and the
\* rotation in sched_pick_next all relink the same list).
QueueHoldsLive ==
  /\ \A l \in Levels : IsInjective(queue[l])
  /\ \A l \in Levels : \A i \in DOMAIN queue[l] :
       Live(queue[l][i]) /\ prio_level(queue[l][i]) = l
  /\ \A p \in Procs : Live(p) => Queued(p)

\* The counter of a level agrees with its list: sched_remove must leave it alone
\* for a process it does not find.
LevelCounts == \A l \in Levels : s_counts[l] = Len(queue[l])

\* No two processes can resume the same thread, and none can resume the thread
\* that is running: every saved context but the current process's (which is
\* stale) is a different thread, none of them on the CPU.  This is what
\* ctx_switch must keep true across the first switch, which saves the boot
\* thread into the first process's context.
ContextsExclusive ==
  LET Parked == {p \in Procs : p # g_current_proc} IN
  /\ \A p, q \in Parked : ctx[p] = ctx[q] => p = q
  /\ \A p \in Parked : ctx[p] # cpu

\* At most one process is RUNNING and it is the current one: sched_tick must
\* take the state back from the process it switches away from.
RunningIsCurrent == \A p \in Procs : state[p] = "RUNNING" => p = g_current_proc

\* A consequence of sched_tick making the outgoing process READY: a process is
\* BLOCKED only while it is still the current one (no other head was READY).
\* The wake-up scan of sched_unblock_waiting therefore never has more than one
\* process to find.
BlockedIsCurrent == \A p \in Procs : state[p] = "BLOCKED" => p = g_current_proc

\* An open timer interrupt is owed by exactly one suspended thread, and the
\* thread on the CPU never owes one: the acknowledgement is neither lost nor
\* given twice by the switches of sched_tick.
AckOwedOnce ==
  /\ irq_open <=> in_isr # {}
  /\ \A t, u \in in_isr : t = u
  /\ cpu \notin in_isr

\* A destroyed process that has lost the CPU never gets it back, although
\* sched_tick may have reset its state from ZOMBIE to READY.
DestroyedStaysOff ==
  [][\A p \in exited : p # g_current_proc => p # g_current_proc']_vars

=============================================================================
