------------------------------- MODULE RegIpc -------------------------------
(***************************************************************************)
(* The message queues of the registry, registry/reg_ipc.c, in hosted mode: *)
(* several processes made by rfork (sys/sysproc.c), each with its own copy *)
(* of the registry, and the pipes that reg_ipc_enable_pipes puts under the *)
(* queues after a fork.                                                    *)
(*                                                                         *)
(* A serialised value is written with several write calls and read with    *)
(* several read calls (pipe_serialize_value, pipe_deserialize_value): it   *)
(* is PARTS pieces here, each taken in or given out by the kernel at once. *)
(* A pipe is named after the process and the path it was made for.         *)
(***************************************************************************)
EXTENDS Integers, Sequences, SequencesExt, FiniteSets

CONSTANTS
  Procs, Paths, Msgs,
  FirstProc,   \* the process that forks the others
  MaxCount,    \* q->max_count (MSG_QUEUE_SIZE, 64)
  PARTS,       \* write calls per value
  PipeCap,     \* pieces a pipe takes before write blocks
  NoQueue, NoPipe, Garbage,
  MaxSends     \* bound: calls of reg_ipc_send

ASSUME ProcAssumption == FirstProc \in Procs
ASSUME SizeAssumption == /\ MaxCount \in Nat \ {0} /\ PARTS \in Nat \ {0}
                         /\ PipeCap \in Nat \ {0} /\ MaxSends \in Nat
ASSUME GarbageAssumption == Garbage \notin Msgs

Pipes == Procs \X Paths
Queues == [msgs : Seq(Msgs), pipe : Pipes \cup {NoPipe}]

\* The null handle of a path without a queue, the -1 of a queue without a pipe.
ASSUME NoneAssumption == NoPipe \notin Pipes /\ NoQueue \notin Queues

VARIABLES
  alive,    \* the processes that have been forked and have not exited
  exited,   \* the processes that have
  queue,    \* process -> path -> its RegIpcQueue
  pipe,     \* pipe -> the pieces in it
  pc,       \* process -> the call it is in
  sent,     \* history: process -> path -> messages put into the queue it has
  rcvd,     \* history: process -> path -> messages taken out of it
  written,  \* history: pipe -> the messages written to it, in order
  read,     \* history: pipe -> the messages read from it
  writers, readers,  \* history: pipe -> the processes that used it
  sends     \* number of calls of reg_ipc_send

vars == <<alive, exited, queue, pipe, pc, sent, rcvd, written, read, writers, readers, sends>>

Idle == [op |-> "idle"]

Init ==
  /\ alive = {FirstProc} /\ exited = {}
  /\ queue = [p \in Procs |-> [k \in Paths |-> NoQueue]]
  /\ pipe = [f \in Pipes |-> <<>>]
  /\ pc = [p \in Procs |-> Idle]
  /\ sent = [p \in Procs |-> [k \in Paths |-> <<>>]]
  /\ rcvd = sent
  /\ written = [f \in Pipes |-> <<>>] /\ read = written
  /\ writers = [f \in Pipes |-> {}] /\ readers = writers
  /\ sends = 0

----------------------------------------------------------------------------
HasQueue(p, k) == queue[p][k] # NoQueue
UsePipe(p, k) == HasQueue(p, k) /\ queue[p][k].pipe # NoPipe
NewQueue == [msgs |-> <<>>, pipe |-> NoPipe]
Ready(p) == p \in alive /\ pc[p] = Idle

\* pipe_serialize_value
Serialised(m) == [i \in 1..PARTS |-> <<m, i>>]

\* pipe_deserialize_value of PARTS pieces: the message they are the pieces of,
\* or whatever pieces of different messages make together.
Deserialised(got) ==
  IF \E m \in Msgs : got = Serialised(m) THEN got[1][1] ELSE Garbage

\* reg_ipc_init_queue: a queue that is there already is left alone.
reg_ipc_init_queue(p, k) ==
  /\ Ready(p) /\ ~HasQueue(p, k)
  /\ queue' = [queue EXCEPT ![p][k] = NewQueue]
  /\ UNCHANGED <<alive, exited, pipe, pc, sent, rcvd, written, read, writers, readers, sends>>

Full(q) == Len(q.msgs) >= MaxCount

\* reg_ipc_send to a queue in memory, made if there is none.
reg_ipc_send_memory(p, k, m) ==
  LET q == IF HasQueue(p, k) THEN queue[p][k] ELSE NewQueue IN
  /\ Ready(p) /\ ~UsePipe(p, k) /\ sends < MaxSends
  /\ ~Full(q)
  /\ queue' = [queue EXCEPT ![p][k] = [q EXCEPT !.msgs = Append(@, m)]]
  /\ sent' = [sent EXCEPT ![p][k] = Append(@, m)]
  /\ sends' = sends + 1
  /\ UNCHANGED <<alive, exited, pipe, pc, rcvd, written, read, writers, readers>>

\* reg_ipc_send to a pipe begins.
reg_ipc_send_pipe(p, k, m) ==
  /\ Ready(p) /\ UsePipe(p, k) /\ sends < MaxSends
  /\ pc' = [pc EXCEPT ![p] = [op |-> "send", path |-> k, msg |-> m, part |-> 1]]
  /\ sends' = sends + 1
  /\ UNCHANGED <<alive, exited, queue, pipe, sent, rcvd, written, read, writers, readers>>

\* pipe_write_all: one piece; write blocks while the pipe is full.
pipe_write_all(p) ==
  LET c == pc[p]
      f == queue[p][c.path].pipe IN
  /\ p \in alive /\ c.op = "send"
  /\ Len(pipe[f]) < PipeCap
  /\ pipe' = [pipe EXCEPT ![f] = Append(@, <<c.msg, c.part>>)]
  /\ writers' = [writers EXCEPT ![f] = @ \cup {p}]
  /\ written' = IF c.part = 1 THEN [written EXCEPT ![f] = Append(@, c.msg)] ELSE written
  /\ IF c.part < PARTS
     THEN pc' = [pc EXCEPT ![p].part = @ + 1] /\ UNCHANGED sent
     ELSE /\ pc' = [pc EXCEPT ![p] = Idle]
          /\ sent' = [sent EXCEPT ![p][c.path] = Append(@, c.msg)]
  /\ UNCHANGED <<alive, exited, queue, rcvd, read, readers, sends>>

\* reg_ipc_recv from a queue in memory.
reg_ipc_recv_memory(p, k) ==
  /\ Ready(p) /\ HasQueue(p, k) /\ ~UsePipe(p, k)
  /\ queue[p][k].msgs # <<>>
  /\ queue' = [queue EXCEPT ![p][k].msgs = Tail(@)]
  /\ rcvd' = [rcvd EXCEPT ![p][k] = Append(@, Head(queue[p][k].msgs))]
  /\ UNCHANGED <<alive, exited, pipe, pc, sent, written, read, writers, readers, sends>>

\* A slip of reg_ipc_recv: the pipe is not polled first.
reg_ipc_recv_pipe_no_poll(p, k) ==
  /\ Ready(p) /\ UsePipe(p, k)
  /\ pc' = [pc EXCEPT ![p] = [op |-> "recv", path |-> k, got |-> <<>>]]
  /\ UNCHANGED <<alive, exited, queue, pipe, sent, rcvd, written, read, writers, readers, sends>>

\* reg_ipc_recv from a pipe begins: poll says there is something to read.
reg_ipc_recv_pipe(p, k) ==
  /\ Ready(p) /\ UsePipe(p, k)
  /\ pipe[queue[p][k].pipe] # <<>>
  /\ pc' = [pc EXCEPT ![p] = [op |-> "recv", path |-> k, got |-> <<>>]]
  /\ UNCHANGED <<alive, exited, queue, pipe, sent, rcvd, written, read, writers, readers, sends>>

\* A slip of the read loop: it takes one piece too few.
Complete_short(got) == Len(got) = PARTS - 1
Complete(got) == Len(got) = PARTS

\* pipe_read_all: one piece; read blocks while the pipe is empty.
pipe_read_all(p) ==
  LET c == pc[p]
      f == queue[p][c.path].pipe
      got == Append(c.got, Head(pipe[f])) IN
  /\ p \in alive /\ c.op = "recv"
  /\ pipe[f] # <<>>
  /\ pipe' = [pipe EXCEPT ![f] = Tail(@)]
  /\ readers' = [readers EXCEPT ![f] = @ \cup {p}]
  /\ IF Complete(got)
     THEN /\ pc' = [pc EXCEPT ![p] = Idle]
          /\ rcvd' = [rcvd EXCEPT ![p][c.path] = Append(@, Deserialised(got))]
          /\ read' = [read EXCEPT ![f] = Append(@, Deserialised(got))]
     ELSE pc' = [pc EXCEPT ![p].got = got] /\ UNCHANGED <<rcvd, read>>
  /\ UNCHANGED <<alive, exited, queue, sent, written, writers, sends>>

\* nexs_rfork: the child gets a copy of the registry and of the descriptors;
\* both still have to call reg_ipc_enable_pipes.
nexs_rfork(p, c) ==
  /\ Ready(p)
  /\ c \notin alive \cup exited
  /\ alive' = alive \cup {c}
  /\ queue' = [queue EXCEPT ![c] = queue[p]]
  /\ sent' = [sent EXCEPT ![c] = sent[p]] /\ rcvd' = [rcvd EXCEPT ![c] = rcvd[p]]
  /\ pc' = [pc EXCEPT ![p] = [op |-> "fork"], ![c] = [op |-> "fork"]]
  /\ UNCHANGED <<exited, pipe, written, read, writers, readers, sends>>

\* The queues of p that are still in memory.
InMemory(p) == {k \in Paths : HasQueue(p, k) /\ ~UsePipe(p, k)}

\* A slip: the queue is emptied and its messages are not written to the pipe.
Drained_lost(msgs) == <<>>

\* The messages of a queue as the pieces written to its new pipe.
Drained(msgs) ==
  [i \in 1..(Len(msgs) * PARTS) |->
     Serialised(msgs[((i - 1) \div PARTS) + 1])[((i - 1) % PARTS) + 1]]

\* reg_ipc_enable_pipes in one process, the walk over its whole registry: a
\* pipe for every queue in memory and its messages into it, except where pipe()
\* fails.  The pipes are new, nobody reads them: one that cannot take all the
\* messages blocks the walk for good.
reg_ipc_enable_pipes(p) ==
  \E S \in SUBSET InMemory(p) :
    LET Upgraded(f) == f[1] = p /\ f[2] \in S IN
    /\ p \in alive /\ pc[p].op = "fork"
    /\ \A k \in S : Len(queue[p][k].msgs) * PARTS <= PipeCap
    /\ pipe' = [f \in Pipes |-> IF Upgraded(f) THEN Drained(queue[p][f[2]].msgs) ELSE pipe[f]]
    /\ written' = [f \in Pipes |-> IF Upgraded(f) THEN queue[p][f[2]].msgs ELSE written[f]]
    /\ queue' = [queue EXCEPT ![p] = [k \in Paths |->
                   IF k \in S THEN [msgs |-> <<>>, pipe |-> <<p, k>>] ELSE @[k]]]
    /\ pc' = [pc EXCEPT ![p] = Idle]
    /\ UNCHANGED <<alive, exited, sent, rcvd, read, writers, readers, sends>>

\* A process ends, by nexs_exits or at any point by a signal (nexs_alarm).
\* It may leave half a message behind.
exits(p) ==
  /\ p \in alive /\ p # FirstProc
  /\ alive' = alive \ {p} /\ exited' = exited \cup {p}
  /\ UNCHANGED <<queue, pipe, pc, sent, rcvd, written, read, writers, readers, sends>>

Next ==
  \E p \in Procs :
    \/ \E k \in Paths : \/ reg_ipc_init_queue(p, k)
                        \/ reg_ipc_recv_memory(p, k)
                        \/ reg_ipc_recv_pipe(p, k)
                        \/ \E m \in Msgs : \/ reg_ipc_send_memory(p, k, m)
                                           \/ reg_ipc_send_pipe(p, k, m)
    \/ pipe_write_all(p)
    \/ pipe_read_all(p)
    \/ \E c \in Procs : nexs_rfork(p, c)
    \/ reg_ipc_enable_pipes(p)
    \/ exits(p)

Spec == Init /\ [][Next]_vars

----------------------------------------------------------------------------
\* Properties

\* No other process ever had the pipe of this queue.
Private(p, k) ==
  UsePipe(p, k) => \A c \in Procs \ {p} :
                     ~(UsePipe(c, k) /\ queue[c][k].pipe = queue[p][k].pipe)

\* The messages in a process's queue, in memory or whole in its pipe.
InFlight(p, k, s) ==
  IF UsePipe(p, k) THEN pipe[queue[p][k].pipe] = Drained(s) ELSE queue[p][k].msgs = s

\* A process gets back what it sent, once and in order, also when the queue
\* moves from memory to a pipe at a fork in between: what was sent is what was
\* received followed by what is in the queue, as long as no other process
\* shares the pipe.
PrivateFifo ==
  \A p \in alive, k \in Paths :
    pc[p] = Idle /\ HasQueue(p, k) /\ Private(p, k) =>
      /\ Len(rcvd[p][k]) <= Len(sent[p][k])
      /\ rcvd[p][k] = SubSeq(sent[p][k], 1, Len(rcvd[p][k]))
      /\ InFlight(p, k, SubSeq(sent[p][k], Len(rcvd[p][k]) + 1, Len(sent[p][k])))

\* Messages on a pipe that two processes share are not torn as long as one of
\* them writes and one reads: the reader gets what was written, in order.  (The
\* pieces of two writers, or for two readers, interleave.)
OneWriterOneReader ==
  \A f \in Pipes :
    Cardinality(writers[f]) <= 1 /\ Cardinality(readers[f]) <= 1 =>
      IsPrefix(read[f], written[f])

\* On a pipe nobody shares, a reg_ipc_recv that began never has to wait: poll
\* saw a message that is there whole.
PrivateRecvCompletes ==
  \A p \in alive :
    pc[p].op = "recv" /\ Private(p, pc[p].path) =>
      Len(pipe[queue[p][pc[p].path].pipe]) >= PARTS - Len(pc[p].got)

=============================================================================
