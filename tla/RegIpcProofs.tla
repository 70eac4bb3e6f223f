---------------------------- MODULE RegIpcProofs ----------------------------
(***************************************************************************)
(* Proofs about RegIpc, for any processes, paths and messages, any number  *)
(* of pieces per value and any size of the queues and of the pipes.        *)
(***************************************************************************)
EXTENDS RegIpc, SequenceTheorems, FiniteSetTheorems, TLAPS

----------------------------------------------------------------------------
\* Pieces

\* The number of pieces of n messages.
Pieces(n) == n * PARTS

\* Arithmetic of pieces: one message more is PARTS pieces more.
LEMMA PiecesFacts ==
  /\ PARTS \in Nat /\ PARTS > 0 /\ Pieces(0) = 0
  /\ \A n \in Nat : Pieces(n) \in Nat /\ Pieces(n + 1) = Pieces(n) + PARTS
<1>1. PARTS \in Nat /\ PARTS > 0
  BY SizeAssumption
<1>2. ASSUME NEW n \in Nat
      PROVE  n * PARTS \in Nat /\ (n + 1) * PARTS = n * PARTS + PARTS
  BY <1>1
<1> QED
  BY <1>1, <1>2 DEF Pieces

\* A number of pieces is a natural number.
LEMMA PiecesType == \A n \in Nat : Pieces(n) \in Nat
BY PiecesFacts

\* More messages are more pieces.
LEMMA PiecesMonotone ==
  ASSUME NEW m \in Nat, NEW n \in Nat, m < n
  PROVE  Pieces(m) + PARTS <= Pieces(n)
<1>1. PARTS \in Nat /\ PARTS > 0
  BY SizeAssumption
<1> DEFINE d == n - (m + 1)
<1>2. d \in Nat /\ n = (m + 1) + d
  OBVIOUS
<1> HIDE DEF d
<1>3. d * PARTS \in Nat /\ m * PARTS \in Nat
  BY <1>1, <1>2
<1>4. ((m + 1) + d) * PARTS = m * PARTS + PARTS + d * PARTS
  BY <1>1, <1>2
<1> QED
  BY <1>1, <1>2, <1>3, <1>4 DEF Pieces

\* A piece's place in the stream says which message it is of and which of its pieces it is.
LEMMA SplitUnique ==
  ASSUME NEW r \in Nat, NEW s \in Nat, NEW i \in 1..PARTS, NEW j \in 1..PARTS,
         Pieces(r) + i = Pieces(s) + j
  PROVE  r = s /\ i = j
<1>1. ~(r < s)
  BY PiecesMonotone, PiecesFacts
<1>2. ~(s < r)
  BY PiecesMonotone, PiecesFacts
<1>3. r = s
  BY <1>1, <1>2
<1> QED
  BY <1>3, PiecesFacts

\* Every place in the stream of n messages is a piece of one of them.
LEMMA SplitExists ==
  ASSUME NEW n \in Nat, NEW x \in 1..Pieces(n)
  PROVE  /\ (x - 1) \div PARTS \in 0..(n - 1)
         /\ ((x - 1) % PARTS) + 1 \in 1..PARTS
         /\ x = Pieces((x - 1) \div PARTS) + (((x - 1) % PARTS) + 1)
<1> DEFINE r == (x - 1) \div PARTS  y == (x - 1) % PARTS
<1>0. PARTS \in Nat /\ PARTS > 0 /\ Pieces(n) \in Nat
  BY PiecesFacts
<1>1. x - 1 \in Nat /\ x \in Nat
  BY <1>0
<1>2. x - 1 = PARTS * r + y /\ r \in Nat /\ y \in 0..(PARTS - 1)
  BY <1>0, <1>1
<1> HIDE DEF r, y
<1>3. x = Pieces(r) + (y + 1)
  BY <1>0, <1>1, <1>2 DEF Pieces
<1>4. r < n
  <2> SUFFICES ASSUME ~(r < n) PROVE FALSE
    OBVIOUS
  <2>1. r = n \/ n < r
    BY <1>2
  <2>2. Pieces(n) <= Pieces(r)
    BY <2>1, <1>2, PiecesMonotone, PiecesFacts
  <2> QED
    BY <2>2, <1>2, <1>3, PiecesFacts
<1>5. r \in 0..(n - 1) /\ y + 1 \in 1..PARTS
  BY <1>0, <1>2, <1>4
<1> QED
  BY <1>3, <1>5 DEF r, y

\* A piece: which message it is of, and which of its pieces.
PieceSet == Msgs \X (1..PARTS)

\* pipe_serialize_value makes PARTS pieces, numbered in order.
LEMMA SerialisedFacts ==
  ASSUME NEW m \in Msgs
  PROVE  /\ Serialised(m) \in Seq(PieceSet) /\ Len(Serialised(m)) = PARTS
         /\ \A j \in 1..PARTS : Serialised(m)[j] = <<m, j>>
BY PiecesFacts DEF Serialised, PieceSet

\* Drained is the messages' pieces one after the other.
LEMMA DrainedFacts ==
  ASSUME NEW s \in Seq(Msgs)
  PROVE  /\ Drained(s) \in Seq(PieceSet) /\ Len(Drained(s)) = Pieces(Len(s))
         /\ \A r \in 0..(Len(s) - 1), j \in 1..PARTS :
              Drained(s)[Pieces(r) + j] = <<s[r + 1], j>>
<1> DEFINE n == Len(s)
           At(i) == <<s[((i - 1) \div PARTS) + 1], ((i - 1) % PARTS) + 1>>
<1>0. n \in Nat /\ Pieces(n) \in Nat
  BY PiecesFacts
<1>1. ASSUME NEW i \in 1..Pieces(n)
      PROVE  Serialised(s[((i - 1) \div PARTS) + 1])[((i - 1) % PARTS) + 1] = At(i) /\ At(i) \in PieceSet
  <2>1. (i - 1) \div PARTS \in 0..(n - 1) /\ ((i - 1) % PARTS) + 1 \in 1..PARTS
    BY SplitExists, <1>0
  <2>2. s[((i - 1) \div PARTS) + 1] \in Msgs
    BY <2>1, ElementOfSeq, <1>0
  <2> QED
    BY <2>1, <2>2, SerialisedFacts DEF PieceSet
<1>2. Drained(s) = [i \in 1..Pieces(n) |-> At(i)]
  BY <1>1 DEF Drained, Pieces
<1>3. Drained(s) \in Seq(PieceSet) /\ Len(Drained(s)) = Pieces(n)
  BY <1>0, <1>1, <1>2
<1>4. ASSUME NEW r \in 0..(n - 1), NEW j \in 1..PARTS
      PROVE  Drained(s)[Pieces(r) + j] = <<s[r + 1], j>>
  <2> DEFINE i == Pieces(r) + j
  <2>1. Pieces(r) \in Nat /\ Pieces(r) + PARTS <= Pieces(n)
    <3>1. r \in Nat /\ r < n
      BY <1>0
    <3> HIDE DEF n
    <3> QED
      BY <1>0, <3>1, PiecesFacts, PiecesMonotone
  <2>2. i \in 1..Pieces(n)
    <3>1. j \in Nat /\ 1 <= j /\ j <= PARTS /\ PARTS \in Nat
      BY PiecesFacts
    <3> HIDE DEF n
    <3> QED
      BY <3>1, <2>1, <1>0
  <2>3. Drained(s)[i] = At(i)
    BY <1>2, <2>2
  <2>4. /\ (i - 1) \div PARTS \in 0..(n - 1) /\ ((i - 1) % PARTS) + 1 \in 1..PARTS
        /\ i = Pieces((i - 1) \div PARTS) + (((i - 1) % PARTS) + 1)
    BY SplitExists, <1>0, <2>2
  <2>5. (i - 1) \div PARTS = r /\ ((i - 1) % PARTS) + 1 = j
    BY <2>4, SplitUnique, <1>0
  <2> QED
    BY <2>3, <2>5
<1> QED
  BY <1>3, <1>4

----------------------------------------------------------------------------
\* The inductive invariant

\* What a process can be in: a send with the pieces before part written, a receive
\* with less than a message taken, the time between a fork and the pipes, or nothing.
SendCalls == [op : {"send"}, path : Paths, msg : Msgs, part : 1..PARTS]
RecvCalls == {c \in [op : {"recv"}, path : Paths, got : Seq(PieceSet)] : Len(c.got) < PARTS}
Calls == {Idle, [op |-> "fork"]} \cup SendCalls \cup RecvCalls
Values == Msgs \cup {Garbage}

\* The types of the variables; only finitely many processes have used a pipe.
TypeOK ==
  /\ alive \subseteq Procs /\ exited \subseteq Procs
  /\ queue \in [Procs -> [Paths -> Queues \cup {NoQueue}]]
  /\ pipe \in [Pipes -> Seq(PieceSet)]
  /\ pc \in [Procs -> Calls]
  /\ sent \in [Procs -> [Paths -> Seq(Msgs)]]
  /\ rcvd \in [Procs -> [Paths -> Seq(Values)]]
  /\ written \in [Pipes -> Seq(Msgs)] /\ read \in [Pipes -> Seq(Values)]
  /\ writers \in [Pipes -> SUBSET Procs] /\ readers \in [Pipes -> SUBSET Procs]
  /\ \A f \in Pipes : IsFiniteSet(writers[f]) /\ IsFiniteSet(readers[f])

\* The pipe under the queue of p at k, if any.
PipeOf(p, k) == IF queue[p][k] = NoQueue THEN NoPipe ELSE queue[p][k].pipe

\* A process is on f from its call on, and has pieces of a message of f out.
SendsOn(p, f) == pc[p].op = "send" /\ PipeOf(p, pc[p].path) = f
RecvsOn(p, f) == pc[p].op = "recv" /\ PipeOf(p, pc[p].path) = f
MidSend(p, f) == SendsOn(p, f) /\ pc[p].part > 1
MidRecv(p, f) == RecvsOn(p, f) /\ pc[p].got # <<>>

\* A process that has not been forked has nothing.
Unborn ==
  \A c \in Procs \ (alive \cup exited) :
    pc[c] = Idle /\ \A k \in Paths : queue[c][k] = NoQueue

\* Only who has a pipe is in a call on one.
CallsOnPipes ==
  \A p \in Procs : pc[p].op \in {"send", "recv"} => PipeOf(p, pc[p].path) # NoPipe

\* Whoever has a pipe at k has it from the process it was made for, which keeps it.
PipesOwned ==
  \A p \in Procs, k \in Paths :
    PipeOf(p, k) # NoPipe =>
      \E o \in Procs : PipeOf(p, k) = <<o, k>> /\ PipeOf(o, k) = <<o, k>>

\* A pipe that has not been made is empty and unused.
NotMade(o, k) == PipeOf(o, k) # <<o, k>>
Unused(f) == /\ pipe[f] = <<>> /\ written[f] = <<>> /\ read[f] = <<>>
             /\ writers[f] = {} /\ readers[f] = {}
PipesNew == \A o \in Procs, k \in Paths : NotMade(o, k) => Unused(<<o, k>>)

\* The histories of users are those of processes that have the pipe, and hold
\* everybody who is in the middle of a message.
UsersKnown ==
  /\ \A o \in Procs, k \in Paths, q \in Procs :
       q \in writers[<<o, k>>] \/ q \in readers[<<o, k>>] => PipeOf(q, k) = <<o, k>>
  /\ \A f \in Pipes, q \in Procs :
       (MidSend(q, f) => q \in writers[f]) /\ (MidRecv(q, f) => q \in readers[f])

\* At most one element.
Single(S) == \A a, b \in S : a = b

\* Of a pipe with content pp, on which w was written and rd read: the pieces of
\* w are those of rd, taken more that a reader holds, those in the pipe, and owed
\* more that a writer has not written yet.
Stream(w, rd, pp, taken, owed) ==
  /\ Pieces(Len(rd)) + taken + Len(pp) + owed = Pieces(Len(w))
  /\ Len(rd) <= Len(w)
  /\ \A i \in 1..Len(rd) : rd[i] = w[i]
  /\ \A r \in 0..(Len(w) - 1), j \in 1..PARTS, i \in 1..Len(pp) :
       Pieces(r) + j = Pieces(Len(rd)) + taken + i => pp[i] = <<w[r + 1], j>>

\* A process in the middle of a message on f writes the last one begun, and owes
\* its pieces from part on; without such a process nothing is owed.
Writing(f, owed) ==
  /\ \A q \in Procs :
       MidSend(q, f) => /\ owed = PARTS - pc[q].part + 1
                        /\ Len(written[f]) > 0
                        /\ written[f][Len(written[f])] = pc[q].msg
  /\ owed > 0 => \E q \in Procs : MidSend(q, f)

\* A process in the middle of a message on f holds the first pieces of the next
\* message to be read; without such a process nothing is taken.
Reading(f, taken) ==
  /\ \A q \in Procs :
       MidRecv(q, f) =>
         /\ taken = Len(pc[q].got)
         /\ Len(read[f]) < Len(written[f])
         /\ \A j \in 1..Len(pc[q].got) : pc[q].got[j] = <<written[f][Len(read[f]) + 1], j>>
  /\ taken > 0 => \E q \in Procs : MidRecv(q, f)

\* With one writer and one reader, a pipe holds what was written and not read.
InOrder(f) ==
  Single(writers[f]) /\ Single(readers[f]) =>
    \E taken, owed \in 0..(PARTS - 1) :
      /\ Stream(written[f], read[f], pipe[f], taken, owed)
      /\ Writing(f, owed) /\ Reading(f, taken)
PipesInOrder == \A f \in Pipes : InOrder(f)

\* A queue in memory holds what was sent and not received.
MemoryFifo ==
  \A p \in Procs, k \in Paths :
    /\ queue[p][k] = NoQueue => sent[p][k] = <<>> /\ rcvd[p][k] = <<>>
    /\ queue[p][k] # NoQueue /\ PipeOf(p, k) = NoPipe =>
         sent[p][k] = rcvd[p][k] \o queue[p][k].msgs

\* Nobody but p has the pipe of p at k.
Alone(p, k) == PipeOf(p, k) = <<p, k>> /\ \A c \in Procs : PipeOf(c, k) = <<p, k>> => c = p

\* What p has sent to its queue, the message it is in the middle of included.
Begun(p, k) ==
  IF MidSend(p, <<p, k>>) THEN Append(sent[p][k], pc[p].msg) ELSE sent[p][k]

\* On a pipe of its own, what a process sent and received is what went through
\* the pipe, after the same o messages that went through the memory before.
Linked(s, r, w, rd) ==
  \E o \in 0..Len(r) :
    /\ Len(s) = o + Len(w) /\ Len(r) = o + Len(rd)
    /\ \A i \in 1..o : r[i] = s[i]
    /\ \A i \in 1..Len(w) : s[o + i] = w[i]
    /\ \A i \in 1..Len(rd) : r[o + i] = rd[i]
PrivateLinked ==
  \A p \in Procs, k \in Paths :
    Alone(p, k) => Linked(Begun(p, k), rcvd[p][k], written[<<p, k>>], read[<<p, k>>])

\* Who began to receive, alone on the pipe, has a piece or finds one.
Polled ==
  \A p \in Procs, k \in Paths :
    p \in alive /\ RecvsOn(p, <<p, k>>) /\ Alone(p, k) =>
      Len(pc[p].got) + Len(pipe[<<p, k>>]) > 0

\* The inductive invariant.
IInv ==
  /\ TypeOK /\ Unborn /\ CallsOnPipes /\ PipesOwned /\ PipesNew /\ UsersKnown
  /\ PipesInOrder /\ MemoryFifo /\ PrivateLinked /\ Polled

----------------------------------------------------------------------------
\* Calls and pipes

\* A pipe is named after a process and a path, and is not the missing one.
LEMMA PipeIsPipe ==
  /\ \A o \in Procs, k \in Paths : <<o, k>> \in Pipes /\ <<o, k>> # NoPipe
  /\ \A f \in Pipes : f # NoPipe
BY NoneAssumption DEF Pipes

\* No queue is the null handle.
LEMMA QueueNone == \A q \in Queues : q # NoQueue
BY NoneAssumption

\* reg_ipc_init_queue makes an empty queue without a pipe.
LEMMA NewQueueType == NewQueue \in Queues /\ NewQueue.pipe = NoPipe /\ NewQueue.msgs = <<>>
BY DEF NewQueue, Queues

\* What the op of a call says about its other fields.
LEMMA CallFacts ==
  ASSUME NEW c \in Calls
  PROVE  /\ c.op = "send" => /\ c \in SendCalls /\ c.path \in Paths /\ c.msg \in Msgs
                             /\ c.part \in 1..PARTS
         /\ c.op = "recv" => /\ c \in RecvCalls /\ c.path \in Paths /\ c.got \in Seq(PieceSet)
                             /\ Len(c.got) < PARTS
         /\ c.op = "fork" => c = [op |-> "fork"]
         /\ c.op = "idle" => c = Idle
         /\ c.op \in {"send", "recv", "fork", "idle"}
BY DEF Calls, SendCalls, RecvCalls, Idle

\* The idle state of a process is a call like the others.
LEMMA IdleFacts == Idle \in Calls /\ Idle.op = "idle"
BY DEF Idle, Calls

\* The calls, named.
SendCall(k, m, n) == [op |-> "send", path |-> k, msg |-> m, part |-> n]
RecvCall(k, g) == [op |-> "recv", path |-> k, got |-> g]
ForkCall == [op |-> "fork"]

\* The fields of a process inside reg_ipc_send.
LEMMA SendCallFacts ==
  ASSUME NEW k \in Paths, NEW m \in Msgs, NEW n \in 1..PARTS
  PROVE  /\ SendCall(k, m, n) \in Calls
         /\ SendCall(k, m, n).op = "send" /\ SendCall(k, m, n).path = k
         /\ SendCall(k, m, n).msg = m /\ SendCall(k, m, n).part = n
BY DEF Calls, SendCalls, SendCall

\* The fields of a process inside reg_ipc_recv.
LEMMA RecvCallFacts ==
  ASSUME NEW k \in Paths, NEW g \in Seq(PieceSet), Len(g) < PARTS
  PROVE  /\ RecvCall(k, g) \in Calls
         /\ RecvCall(k, g).op = "recv" /\ RecvCall(k, g).path = k /\ RecvCall(k, g).got = g
BY DEF Calls, RecvCalls, RecvCall

\* The state of a process between nexs_rfork and reg_ipc_enable_pipes.
LEMMA ForkCallFacts == ForkCall \in Calls /\ ForkCall.op = "fork"
BY DEF Calls, ForkCall

\* A call with one field changed, as pipe_write_all and pipe_read_all change it.
LEMMA NextPart ==
  ASSUME NEW c \in SendCalls, NEW n \in 1..PARTS
  PROVE  /\ c = SendCall(c.path, c.msg, c.part)
         /\ [c EXCEPT !.part = n] = SendCall(c.path, c.msg, n)
BY DEF SendCalls, SendCall

\* The same for the pieces that pipe_read_all has taken.
LEMMA NextGot ==
  ASSUME NEW c \in RecvCalls, NEW g
  PROVE  /\ c = RecvCall(c.path, c.got)
         /\ [c EXCEPT !.got = g] = RecvCall(c.path, g)
BY DEF RecvCalls, RecvCall

\* What HasQueue and UsePipe say about the queue and the pipe under it.
LEMMA QueueType ==
  ASSUME TypeOK, NEW p \in Procs, NEW k \in Paths
  PROVE  /\ queue[p][k] = NoQueue \/ queue[p][k] \in Queues
         /\ HasQueue(p, k) => /\ queue[p][k].msgs \in Seq(Msgs)
                              /\ queue[p][k].pipe \in Pipes \cup {NoPipe}
         /\ PipeOf(p, k) \in Pipes \cup {NoPipe}
         /\ UsePipe(p, k) <=> PipeOf(p, k) # NoPipe
         /\ UsePipe(p, k) => HasQueue(p, k) /\ queue[p][k].pipe = PipeOf(p, k)
         /\ HasQueue(p, k) => queue[p][k].pipe = PipeOf(p, k)
BY DEF TypeOK, Queues, HasQueue, UsePipe, PipeOf

\* pipe_write_all and pipe_read_all work on the pipe of the call.
LEMMA CallPipe ==
  ASSUME TypeOK, CallsOnPipes, PipesOwned, NEW p \in Procs, pc[p].op \in {"send", "recv"}
  PROVE  /\ pc[p].path \in Paths
         /\ queue[p][pc[p].path].pipe = PipeOf(p, pc[p].path)
         /\ PipeOf(p, pc[p].path) \in Pipes
         /\ \E o \in Procs : /\ PipeOf(p, pc[p].path) = <<o, pc[p].path>>
                             /\ PipeOf(o, pc[p].path) = <<o, pc[p].path>>
<1>1. pc[p] \in Calls
  BY DEF TypeOK
<1>2. pc[p].path \in Paths
  BY <1>1, CallFacts
<1>3. PipeOf(p, pc[p].path) # NoPipe
  BY DEF CallsOnPipes
<1>4. UsePipe(p, pc[p].path) /\ PipeOf(p, pc[p].path) \in Pipes
  BY <1>2, <1>3, QueueType
<1> QED
  BY <1>2, <1>3, <1>4, QueueType DEF PipesOwned

----------------------------------------------------------------------------
\* What the actions do to the queues and the pipes under them

\* The queue of p at k becomes x.
SetsQueue(p, k, x) == queue' = [queue EXCEPT ![p][k] = x]

\* The queue of p at k becomes x, on the pipe it was on.
LEMMA QueueStep ==
  ASSUME TypeOK, NEW p \in Procs, NEW k \in Paths, NEW x \in Queues,
         x.pipe = PipeOf(p, k),
         SetsQueue(p, k, x)
  PROVE  /\ queue' \in [Procs -> [Paths -> Queues \cup {NoQueue}]]
         /\ queue'[p][k] = x
         /\ \A q \in Procs, j \in Paths : q # p \/ j # k => queue'[q][j] = queue[q][j]
         /\ \A q \in Procs, j \in Paths : PipeOf(q, j)' = PipeOf(q, j)
<1>1. queue' \in [Procs -> [Paths -> Queues \cup {NoQueue}]]
  BY DEF TypeOK, SetsQueue
<1>2. queue'[p][k] = x
  BY DEF TypeOK, SetsQueue
<1>3. \A q \in Procs, j \in Paths : q # p \/ j # k => queue'[q][j] = queue[q][j]
  BY DEF TypeOK, SetsQueue
<1>4. ASSUME NEW q \in Procs, NEW j \in Paths
      PROVE  PipeOf(q, j)' = PipeOf(q, j)
  <2>1. CASE q = p /\ j = k
    BY <1>2, <2>1, QueueNone DEF PipeOf
  <2>2. CASE q # p \/ j # k
    BY <1>3, <2>2 DEF PipeOf
  <2> QED
    BY <2>1, <2>2
<1> QED
  BY <1>1, <1>2, <1>3, <1>4

\* reg_ipc_init_queue changes one queue and no pipe.
LEMMA InitQueueStep ==
  ASSUME TypeOK, NEW p \in Procs, NEW k \in Paths, reg_ipc_init_queue(p, k)
  PROVE  /\ queue[p][k] = NoQueue /\ queue'[p][k] = NewQueue
         /\ \A q \in Procs, j \in Paths : q # p \/ j # k => queue'[q][j] = queue[q][j]
         /\ \A q \in Procs, j \in Paths : PipeOf(q, j)' = PipeOf(q, j)
         /\ TypeOK'
<1>1. queue[p][k] = NoQueue /\ PipeOf(p, k) = NoPipe
  BY DEF reg_ipc_init_queue, HasQueue, PipeOf
<1>2. SetsQueue(p, k, NewQueue)
  BY DEF reg_ipc_init_queue, SetsQueue
<1>3. /\ queue'[p][k] = NewQueue
      /\ queue' \in [Procs -> [Paths -> Queues \cup {NoQueue}]]
      /\ \A q \in Procs, j \in Paths : q # p \/ j # k => queue'[q][j] = queue[q][j]
      /\ \A q \in Procs, j \in Paths : PipeOf(q, j)' = PipeOf(q, j)
  <2>1. NewQueue \in Queues /\ NewQueue.pipe = PipeOf(p, k)
    BY <1>1, NewQueueType
  <2> QED
    BY <1>2, <2>1, QueueStep, Zenon
<1>4. TypeOK'
  BY <1>3 DEF TypeOK, reg_ipc_init_queue
<1> QED
  BY <1>1, <1>3, <1>4

\* reg_ipc_send in memory appends to one queue and to its history.
LEMMA SendMemoryStep ==
  ASSUME TypeOK, NEW p \in Procs, NEW k \in Paths, NEW m \in Msgs, reg_ipc_send_memory(p, k, m)
  PROVE  /\ PipeOf(p, k) = NoPipe
         /\ \E x \in Queues :
              /\ queue'[p][k] = x
              /\ queue[p][k] = NoQueue => x.msgs = Append(<<>>, m)
              /\ queue[p][k] # NoQueue => x.msgs = Append(queue[p][k].msgs, m)
         /\ \A q \in Procs, j \in Paths : q # p \/ j # k => queue'[q][j] = queue[q][j]
         /\ \A q \in Procs, j \in Paths : PipeOf(q, j)' = PipeOf(q, j)
         /\ sent'[p][k] = Append(sent[p][k], m)
         /\ \A q \in Procs, j \in Paths : q # p \/ j # k => sent'[q][j] = sent[q][j]
         /\ TypeOK'
<1> DEFINE q0 == IF HasQueue(p, k) THEN queue[p][k] ELSE NewQueue
           x == [q0 EXCEPT !.msgs = Append(@, m)]
<1>1. PipeOf(p, k) = NoPipe
  BY QueueType DEF reg_ipc_send_memory
<1>2. q0 \in Queues /\ q0.pipe = NoPipe /\ q0.msgs \in Seq(Msgs)
  BY <1>1, QueueType, NewQueueType DEF HasQueue, Queues
<1>3. SetsQueue(p, k, x)
  BY DEF SetsQueue, reg_ipc_send_memory
<1>4. /\ queue[p][k] = NoQueue => q0.msgs = <<>>
      /\ queue[p][k] # NoQueue => q0.msgs = queue[p][k].msgs
  BY NewQueueType DEF HasQueue
<1> HIDE DEF q0
<1>5. x \in Queues /\ x.pipe = NoPipe /\ x.msgs = Append(q0.msgs, m)
  BY <1>2 DEF Queues
<1> HIDE DEF x
<1>6. /\ queue'[p][k] = x
      /\ queue' \in [Procs -> [Paths -> Queues \cup {NoQueue}]]
      /\ \A q \in Procs, j \in Paths : q # p \/ j # k => queue'[q][j] = queue[q][j]
      /\ \A q \in Procs, j \in Paths : PipeOf(q, j)' = PipeOf(q, j)
  <2>1. x.pipe = PipeOf(p, k)
    BY <1>1, <1>5
  <2> QED
    BY <1>3, <1>5, <2>1, QueueStep, Zenon
<1>7. sent' = [sent EXCEPT ![p][k] = Append(@, m)]
  BY DEF reg_ipc_send_memory
<1>8. /\ sent'[p][k] = Append(sent[p][k], m)
      /\ \A q \in Procs, j \in Paths : q # p \/ j # k => sent'[q][j] = sent[q][j]
      /\ sent' \in [Procs -> [Paths -> Seq(Msgs)]]
  BY <1>7 DEF TypeOK
<1>9. TypeOK'
  BY <1>6, <1>8 DEF TypeOK, reg_ipc_send_memory
<1> QED
  BY <1>1, <1>4, <1>5, <1>6, <1>8, <1>9

\* reg_ipc_recv in memory takes the head of one queue.
LEMMA RecvMemoryStep ==
  ASSUME TypeOK, NEW p \in Procs, NEW k \in Paths, reg_ipc_recv_memory(p, k)
  PROVE  /\ PipeOf(p, k) = NoPipe /\ queue[p][k] # NoQueue
         /\ queue[p][k].msgs \in Seq(Msgs) /\ queue[p][k].msgs # <<>>
         /\ queue'[p][k] # NoQueue /\ queue'[p][k].msgs = Tail(queue[p][k].msgs)
         /\ \A q \in Procs, j \in Paths : q # p \/ j # k => queue'[q][j] = queue[q][j]
         /\ \A q \in Procs, j \in Paths : PipeOf(q, j)' = PipeOf(q, j)
         /\ rcvd'[p][k] = Append(rcvd[p][k], Head(queue[p][k].msgs))
         /\ \A q \in Procs, j \in Paths : q # p \/ j # k => rcvd'[q][j] = rcvd[q][j]
         /\ TypeOK'
<1> DEFINE q0 == queue[p][k]
           x == [q0 EXCEPT !.msgs = Tail(@)]
<1>1. PipeOf(p, k) = NoPipe /\ queue[p][k] # NoQueue
  BY QueueType DEF reg_ipc_recv_memory, HasQueue
<1>2. q0 \in Queues /\ q0.pipe = NoPipe /\ q0.msgs \in Seq(Msgs) /\ q0.msgs # <<>>
  BY <1>1, QueueType DEF HasQueue, reg_ipc_recv_memory
<1>3. SetsQueue(p, k, x)
  BY DEF SetsQueue, reg_ipc_recv_memory, TypeOK
<1>4. Tail(q0.msgs) \in Seq(Msgs) /\ Head(q0.msgs) \in Msgs
  BY <1>2
<1>5. x \in Queues /\ x.pipe = NoPipe /\ x.msgs = Tail(q0.msgs)
  BY <1>2, <1>4 DEF Queues
<1>6. /\ queue'[p][k] = x
      /\ queue' \in [Procs -> [Paths -> Queues \cup {NoQueue}]]
      /\ \A q \in Procs, j \in Paths : q # p \/ j # k => queue'[q][j] = queue[q][j]
      /\ \A q \in Procs, j \in Paths : PipeOf(q, j)' = PipeOf(q, j)
  <2>1. x.pipe = PipeOf(p, k)
    BY <1>1, <1>5
  <2> HIDE DEF x
  <2> QED
    BY <1>3, <1>5, <2>1, QueueStep, Zenon
<1>7. rcvd' = [rcvd EXCEPT ![p][k] = Append(@, Head(q0.msgs))]
  BY DEF reg_ipc_recv_memory
<1>8. /\ rcvd'[p][k] = Append(rcvd[p][k], Head(q0.msgs))
      /\ \A q \in Procs, j \in Paths : q # p \/ j # k => rcvd'[q][j] = rcvd[q][j]
      /\ rcvd' \in [Procs -> [Paths -> Seq(Values)]]
  BY <1>4, <1>7 DEF TypeOK, Values
<1>9. TypeOK'
  BY <1>6, <1>8 DEF TypeOK, reg_ipc_recv_memory
<1> QED
  BY <1>1, <1>2, <1>5, <1>6, <1>8, <1>9, QueueNone

----------------------------------------------------------------------------
\* What the actions do to the calls

\* The call of p becomes c.
SetsCall(p, c) == pc' = [pc EXCEPT ![p] = c]

\* Only the process that is in the call changes its state.
LEMMA CallStep ==
  ASSUME TypeOK, NEW p \in Procs, NEW c \in Calls, SetsCall(p, c)
  PROVE  /\ pc' \in [Procs -> Calls] /\ pc'[p] = c
         /\ \A q \in Procs : q # p => pc'[q] = pc[q]
BY DEF TypeOK, SetsCall

\* reg_ipc_send on a pipe begins with the first piece.
LEMMA SendPipeStep ==
  ASSUME TypeOK, NEW p \in Procs, NEW k \in Paths, NEW m \in Msgs, reg_ipc_send_pipe(p, k, m)
  PROVE  /\ pc[p] = Idle /\ p \in alive /\ PipeOf(p, k) # NoPipe
         /\ pc'[p] = SendCall(k, m, 1)
         /\ \A q \in Procs : q # p => pc'[q] = pc[q]
         /\ TypeOK'
<1>1. pc[p] = Idle /\ p \in alive /\ PipeOf(p, k) # NoPipe
  BY QueueType DEF reg_ipc_send_pipe, Ready
<1>2. SendCall(k, m, 1) \in Calls
  BY SendCallFacts, PiecesFacts
<1>3. SetsCall(p, SendCall(k, m, 1))
  BY DEF reg_ipc_send_pipe, SetsCall, SendCall
<1>4. /\ pc' \in [Procs -> Calls] /\ pc'[p] = SendCall(k, m, 1)
      /\ \A q \in Procs : q # p => pc'[q] = pc[q]
  BY <1>2, <1>3, CallStep
<1>5. TypeOK'
  BY <1>4 DEF TypeOK, reg_ipc_send_pipe
<1> QED
  BY <1>1, <1>4, <1>5

\* reg_ipc_recv on a pipe begins when poll has found something.
LEMMA RecvPipeStep ==
  ASSUME TypeOK, NEW p \in Procs, NEW k \in Paths, reg_ipc_recv_pipe(p, k)
  PROVE  /\ pc[p] = Idle /\ p \in alive /\ PipeOf(p, k) # NoPipe
         /\ pipe[PipeOf(p, k)] # <<>>
         /\ pc'[p] = RecvCall(k, <<>>)
         /\ \A q \in Procs : q # p => pc'[q] = pc[q]
         /\ TypeOK'
<1>1. /\ pc[p] = Idle /\ p \in alive /\ PipeOf(p, k) # NoPipe
      /\ pipe[PipeOf(p, k)] # <<>>
  BY QueueType DEF reg_ipc_recv_pipe, Ready
<1>2. RecvCall(k, <<>>) \in Calls
  <2>1. <<>> \in Seq(PieceSet) /\ Len(<<>>) < PARTS
    BY PiecesFacts
  <2> QED
    BY <2>1, RecvCallFacts
<1>3. SetsCall(p, RecvCall(k, <<>>))
  BY DEF reg_ipc_recv_pipe, SetsCall, RecvCall
<1>4. /\ pc' \in [Procs -> Calls] /\ pc'[p] = RecvCall(k, <<>>)
      /\ \A q \in Procs : q # p => pc'[q] = pc[q]
  BY <1>2, <1>3, CallStep
<1>5. TypeOK'
  BY <1>4 DEF TypeOK, reg_ipc_recv_pipe
<1> QED
  BY <1>1, <1>4, <1>5

\* pipe_write_all of p puts piece n of message m of path k into the pipe of o.
Writes(p, o, k, m, n) ==
  /\ p \in alive /\ pc[p] = SendCall(k, m, n)
  /\ PipeOf(p, k) = <<o, k>> /\ PipeOf(o, k) = <<o, k>>
  /\ pipe' = [pipe EXCEPT ![<<o, k>>] = Append(@, <<m, n>>)]
  /\ writers' = [writers EXCEPT ![<<o, k>>] = @ \cup {p}]
  /\ IF n = 1 THEN written' = [written EXCEPT ![<<o, k>>] = Append(@, m)] ELSE written' = written
  /\ \A q \in Procs : q # p => pc'[q] = pc[q]
  /\ \/ n < PARTS /\ pc'[p] = SendCall(k, m, n + 1) /\ sent' = sent
     \/ n = PARTS /\ pc'[p] = Idle /\ sent' = [sent EXCEPT ![p][k] = Append(@, m)]
  /\ UNCHANGED <<alive, exited, queue, rcvd, read, readers>>

\* Every pipe_write_all writes one piece of one message to the pipe of its call.
LEMMA WriteStep ==
  ASSUME TypeOK, CallsOnPipes, PipesOwned, NEW p \in Procs, pipe_write_all(p)
  PROVE  /\ TypeOK'
         /\ \E o \in Procs, k \in Paths, m \in Msgs, n \in 1..PARTS : Writes(p, o, k, m, n)
<1> DEFINE c == pc[p]  k == c.path  m == c.msg  n == c.part  f == PipeOf(p, k)
<1>1. c \in Calls /\ c.op = "send" /\ p \in alive
  BY DEF TypeOK, pipe_write_all
<1>2. c \in SendCalls /\ k \in Paths /\ m \in Msgs /\ n \in 1..PARTS
  BY <1>1, CallFacts
<1>3. PICK o \in Procs : f = <<o, k>> /\ PipeOf(o, k) = <<o, k>>
  BY <1>1, CallPipe
<1>4. f \in Pipes /\ queue[p][k].pipe = f
  BY <1>1, CallPipe
<1>5. c = SendCall(k, m, n)
  BY <1>2, NextPart
<1>6. /\ pipe' = [pipe EXCEPT ![f] = Append(@, <<m, n>>)]
      /\ writers' = [writers EXCEPT ![f] = @ \cup {p}]
      /\ IF n = 1 THEN written' = [written EXCEPT ![f] = Append(@, m)] ELSE written' = written
      /\ UNCHANGED <<alive, exited, queue, rcvd, read, readers>>
  BY <1>4 DEF pipe_write_all
<1>7. \/ n < PARTS /\ SetsCall(p, SendCall(k, m, n + 1)) /\ sent' = sent
      \/ n = PARTS /\ SetsCall(p, Idle) /\ sent' = [sent EXCEPT ![p][k] = Append(@, m)]
  <2>1. CASE n < PARTS
    <3>1. pc' = [pc EXCEPT ![p].part = @ + 1] /\ sent' = sent
      BY <2>1 DEF pipe_write_all
    <3>2. pc' = [pc EXCEPT ![p] = [c EXCEPT !.part = n + 1]]
      BY <3>1
    <3>3. n + 1 \in 1..PARTS
      BY <1>2, <2>1, PiecesFacts
    <3>4. [c EXCEPT !.part = n + 1] = SendCall(k, m, n + 1)
      BY <1>2, <3>3, NextPart
    <3> QED
      BY <2>1, <3>1, <3>2, <3>4 DEF SetsCall
  <2>2. CASE ~(n < PARTS)
    <3>1. pc' = [pc EXCEPT ![p] = Idle] /\ sent' = [sent EXCEPT ![p][k] = Append(@, m)]
      BY <2>2 DEF pipe_write_all
    <3>2. n = PARTS
      BY <1>2, <2>2, PiecesFacts
    <3> QED
      BY <3>1, <3>2 DEF SetsCall
  <2> QED
    BY <2>1, <2>2
<1>8. /\ pc' \in [Procs -> Calls] /\ \A q \in Procs : q # p => pc'[q] = pc[q]
      /\ sent' \in [Procs -> [Paths -> Seq(Msgs)]]
      /\ \/ n < PARTS /\ pc'[p] = SendCall(k, m, n + 1) /\ sent' = sent
         \/ n = PARTS /\ pc'[p] = Idle /\ sent' = [sent EXCEPT ![p][k] = Append(@, m)]
  <2>1. CASE n < PARTS /\ SetsCall(p, SendCall(k, m, n + 1)) /\ sent' = sent
    <3>1. n + 1 \in 1..PARTS
      BY <1>2, <2>1, PiecesFacts
    <3>2. SendCall(k, m, n + 1) \in Calls
      BY <1>2, <3>1, SendCallFacts
    <3>3. pc' \in [Procs -> Calls] /\ pc'[p] = SendCall(k, m, n + 1) /\ \A q \in Procs : q # p => pc'[q] = pc[q]
      BY <2>1, <3>2, CallStep
    <3> QED
      BY <2>1, <3>3 DEF TypeOK
  <2>2. CASE n = PARTS /\ SetsCall(p, Idle) /\ sent' = [sent EXCEPT ![p][k] = Append(@, m)]
    <3>1. pc' \in [Procs -> Calls] /\ pc'[p] = Idle /\ \A q \in Procs : q # p => pc'[q] = pc[q]
      BY <2>2, IdleFacts, CallStep
    <3>2. sent' \in [Procs -> [Paths -> Seq(Msgs)]]
      BY <1>2, <2>2 DEF TypeOK
    <3> QED
      BY <2>2, <3>1, <3>2
  <2> QED
    BY <1>7, <2>1, <2>2
<1>9. TypeOK'
  <2> HIDE DEF c, k, m, n, f
  <2>1. pipe' \in [Pipes -> Seq(PieceSet)]
    <3>1. <<m, n>> \in PieceSet
      BY <1>2 DEF PieceSet
    <3> QED
      BY <1>4, <1>6, <3>1 DEF TypeOK
  <2>2. written' \in [Pipes -> Seq(Msgs)]
    <3>1. written[f] \in Seq(Msgs)
      BY <1>4 DEF TypeOK
    <3>2. Append(written[f], m) \in Seq(Msgs)
      BY <1>2, <3>1, AppendProperties
    <3>3. CASE written' = written
      BY <3>3 DEF TypeOK
    <3>4. CASE written' = [written EXCEPT ![f] = Append(@, m)]
      BY <1>4, <3>2, <3>4 DEF TypeOK
    <3> QED
      BY <1>6, <3>3, <3>4
  <2>3. writers' \in [Pipes -> SUBSET Procs] /\ \A g \in Pipes : IsFiniteSet(writers'[g])
    <3>1. IsFiniteSet(writers[f] \cup {p})
      BY <1>4, FS_AddElement DEF TypeOK
    <3> QED
      BY <1>4, <1>6, <3>1 DEF TypeOK
  <2> QED
    BY <1>6, <1>8, <2>1, <2>2, <2>3 DEF TypeOK
<1>10. Writes(p, o, k, m, n)
  BY <1>1, <1>3, <1>5, <1>6, <1>8 DEF Writes
<1> QED
  BY <1>2, <1>9, <1>10

\* What pieces make together is a message or Garbage.
LEMMA DeserialisedType ==
  ASSUME NEW got
  PROVE  Deserialised(got) \in Values
<1>1. CASE \E m \in Msgs : got = Serialised(m)
  <2>1. PICK m \in Msgs : got = Serialised(m)
    BY <1>1
  <2>2. 1 \in 1..PARTS
    BY PiecesFacts
  <2>3. got[1] = <<m, 1>>
    BY <2>1, <2>2, SerialisedFacts
  <2> QED
    BY <1>1, <2>3 DEF Deserialised, Values
<1>2. CASE ~(\E m \in Msgs : got = Serialised(m))
  BY <1>2 DEF Deserialised, Values
<1> QED
  BY <1>1, <1>2

\* The pieces of one message make that message.
LEMMA DeserialisedIs ==
  ASSUME NEW m \in Msgs, NEW got \in Seq(PieceSet), Len(got) = PARTS,
         \A j \in 1..PARTS : got[j] = <<m, j>>
  PROVE  Deserialised(got) = m
<1>1. got = Serialised(m)
  <2>1. \A j \in 1..Len(got) : got[j] = Serialised(m)[j]
    BY SerialisedFacts
  <2> QED
    BY <2>1, SerialisedFacts, SeqEqual
<1>2. got[1] = <<m, 1>>
  <2>1. 1 \in 1..PARTS
    BY PiecesFacts
  <2> QED
    BY <2>1
<1> QED
  BY <1>1, <1>2 DEF Deserialised

\* pipe_read_all of p, with pieces g, takes one out of the pipe of o.
Taken(g, f) == Append(g, Head(pipe[f]))
Reads(p, o, k, g) ==
  /\ p \in alive /\ pc[p] = RecvCall(k, g) /\ Len(g) < PARTS
  /\ PipeOf(p, k) = <<o, k>> /\ PipeOf(o, k) = <<o, k>>
  /\ pipe[<<o, k>>] # <<>>
  /\ pipe' = [pipe EXCEPT ![<<o, k>>] = Tail(@)]
  /\ readers' = [readers EXCEPT ![<<o, k>>] = @ \cup {p}]
  /\ \A q \in Procs : q # p => pc'[q] = pc[q]
  /\ LET t == Taken(g, <<o, k>>) IN
     \/ Len(t) < PARTS /\ pc'[p] = RecvCall(k, t) /\ rcvd' = rcvd /\ read' = read
     \/ /\ Len(t) = PARTS /\ pc'[p] = Idle
        /\ rcvd' = [rcvd EXCEPT ![p][k] = Append(@, Deserialised(t))]
        /\ read' = [read EXCEPT ![<<o, k>>] = Append(@, Deserialised(t))]
  /\ UNCHANGED <<alive, exited, queue, sent, written, writers>>

\* Every pipe_read_all takes one piece from the pipe of its call.
LEMMA ReadStep ==
  ASSUME TypeOK, CallsOnPipes, PipesOwned, NEW p \in Procs, pipe_read_all(p)
  PROVE  /\ TypeOK'
         /\ \E o \in Procs, k \in Paths, g \in Seq(PieceSet) : Reads(p, o, k, g)
<1> DEFINE c == pc[p]  k == c.path  g == c.got  f == PipeOf(p, k)  t == Taken(g, f)
<1>1. c \in Calls /\ c.op = "recv" /\ p \in alive
  BY DEF TypeOK, pipe_read_all
<1>2. c \in RecvCalls /\ k \in Paths /\ g \in Seq(PieceSet) /\ Len(g) < PARTS
  BY <1>1, CallFacts
<1>3. PICK o \in Procs : f = <<o, k>> /\ PipeOf(o, k) = <<o, k>>
  BY <1>1, CallPipe
<1>4. f \in Pipes /\ queue[p][k].pipe = f
  BY <1>1, CallPipe
<1>5. c = RecvCall(k, g)
  BY <1>2, NextGot
<1>6. /\ pipe[f] # <<>>
      /\ pipe' = [pipe EXCEPT ![f] = Tail(@)]
      /\ readers' = [readers EXCEPT ![f] = @ \cup {p}]
      /\ UNCHANGED <<alive, exited, queue, sent, written, writers>>
  BY <1>4 DEF pipe_read_all
<1>7. pipe[f] \in Seq(PieceSet) /\ Tail(pipe[f]) \in Seq(PieceSet) /\ Head(pipe[f]) \in PieceSet
  <2> HIDE DEF f
  <2>1. pipe[f] \in Seq(PieceSet)
    BY <1>4 DEF TypeOK
  <2> QED
    BY <1>6, <2>1, HeadTailProperties
<1>8. t \in Seq(PieceSet) /\ Len(t) = Len(g) + 1 /\ Len(t) <= PARTS
  <2> HIDE DEF c, k, g, f
  <2>1. t \in Seq(PieceSet) /\ Len(t) = Len(g) + 1
    BY <1>2, <1>7, AppendProperties DEF Taken
  <2>2. Len(g) \in Nat /\ PARTS \in Nat
    BY <1>2, PiecesFacts
  <2> QED
    BY <1>2, <2>1, <2>2
<1>9. /\ Complete(t) => /\ SetsCall(p, Idle)
                        /\ rcvd' = [rcvd EXCEPT ![p][k] = Append(@, Deserialised(t))]
                        /\ read' = [read EXCEPT ![f] = Append(@, Deserialised(t))]
      /\ ~Complete(t) => /\ pc' = [pc EXCEPT ![p].got = t]
                         /\ rcvd' = rcvd /\ read' = read
  BY <1>4 DEF pipe_read_all, Taken, SetsCall
<1>10. /\ pc' \in [Procs -> Calls] /\ \A q \in Procs : q # p => pc'[q] = pc[q]
       /\ rcvd' \in [Procs -> [Paths -> Seq(Values)]] /\ read' \in [Pipes -> Seq(Values)]
       /\ \/ Len(t) < PARTS /\ pc'[p] = RecvCall(k, t) /\ rcvd' = rcvd /\ read' = read
          \/ /\ Len(t) = PARTS /\ pc'[p] = Idle
             /\ rcvd' = [rcvd EXCEPT ![p][k] = Append(@, Deserialised(t))]
             /\ read' = [read EXCEPT ![f] = Append(@, Deserialised(t))]
  <2>1. CASE Complete(t)
    <3>1. pc' \in [Procs -> Calls] /\ pc'[p] = Idle /\ \A q \in Procs : q # p => pc'[q] = pc[q]
      BY <1>9, <2>1, IdleFacts, CallStep
    <3>2. Deserialised(t) \in Values
      BY DeserialisedType
    <3>3. Append(rcvd[p][k], Deserialised(t)) \in Seq(Values) /\ Append(read[f], Deserialised(t)) \in Seq(Values)
      <4> HIDE DEF f, t, k
      <4>1. rcvd[p][k] \in Seq(Values) /\ read[f] \in Seq(Values)
        BY <1>2, <1>4 DEF TypeOK
      <4>2. \A s \in Seq(Values), v \in Values : Append(s, v) \in Seq(Values)
        OBVIOUS
      <4> QED
        BY <3>2, <4>1, <4>2, Zenon
    <3>4. rcvd' \in [Procs -> [Paths -> Seq(Values)]]
      <4> HIDE DEF c, k, g, f, t
      <4>1. rcvd' = [rcvd EXCEPT ![p][k] = Append(rcvd[p][k], Deserialised(t))]
        BY <1>9, <2>1
      <4> QED
        BY <1>2, <3>3, <4>1 DEF TypeOK
    <3>5. read' \in [Pipes -> Seq(Values)]
      BY <1>4, <1>9, <2>1, <3>3 DEF TypeOK
    <3> QED
      BY <1>9, <2>1, <3>1, <3>4, <3>5 DEF Complete
  <2>2. CASE ~Complete(t)
    <3>1. Len(t) < PARTS
      <4> HIDE DEF t
      <4>1. Len(t) \in Nat /\ Len(t) <= PARTS
        BY <1>8
      <4>2. PARTS \in Nat
        BY PiecesFacts
      <4>3. Len(t) # PARTS
        BY <2>2 DEF Complete
      <4> QED
        BY <4>1, <4>2, <4>3
    <3>2. pc' = [pc EXCEPT ![p] = [c EXCEPT !.got = t]]
      BY <1>9, <2>2
    <3>3. [c EXCEPT !.got = t] = RecvCall(k, t)
      BY <1>2, NextGot
    <3>4. RecvCall(k, t) \in Calls /\ SetsCall(p, RecvCall(k, t))
      BY <1>2, <1>8, <3>1, <3>2, <3>3, RecvCallFacts DEF SetsCall
    <3>5. pc' \in [Procs -> Calls] /\ pc'[p] = RecvCall(k, t) /\ \A q \in Procs : q # p => pc'[q] = pc[q]
      BY <3>4, CallStep
    <3> QED
      BY <1>9, <2>2, <3>1, <3>5 DEF TypeOK
  <2> QED
    BY <2>1, <2>2
<1>11. TypeOK'
  <2> HIDE DEF c, k, g, f, t
  <2>1. pipe' \in [Pipes -> Seq(PieceSet)]
    BY <1>4, <1>6, <1>7 DEF TypeOK
  <2>2. readers' \in [Pipes -> SUBSET Procs] /\ \A h \in Pipes : IsFiniteSet(readers'[h])
    <3>1. IsFiniteSet(readers[f] \cup {p})
      BY <1>4, FS_AddElement DEF TypeOK
    <3> QED
      BY <1>4, <1>6, <3>1 DEF TypeOK
  <2> QED
    BY <1>6, <1>10, <2>1, <2>2 DEF TypeOK
<1>12. Reads(p, o, k, g)
  BY <1>1, <1>2, <1>3, <1>5, <1>6, <1>10 DEF Reads
<1> QED
  BY <1>2, <1>11, <1>12

\* nexs_rfork makes c a copy of p.
LEMMA ForkStep ==
  ASSUME TypeOK, Unborn, NEW p \in Procs, NEW c \in Procs, nexs_rfork(p, c)
  PROVE  /\ p # c /\ p \in alive /\ c \notin alive \cup exited /\ alive' = alive \cup {c}
         /\ pc[p] = Idle /\ pc[c] = Idle /\ pc'[p] = ForkCall /\ pc'[c] = ForkCall
         /\ \A q \in Procs : q # p /\ q # c => pc'[q] = pc[q]
         /\ queue'[c] = queue[p] /\ sent'[c] = sent[p] /\ rcvd'[c] = rcvd[p]
         /\ \A q \in Procs : q # c =>
              queue'[q] = queue[q] /\ sent'[q] = sent[q] /\ rcvd'[q] = rcvd[q]
         /\ \A k \in Paths : PipeOf(c, k) = NoPipe /\ PipeOf(c, k)' = PipeOf(p, k)
         /\ \A q \in Procs, k \in Paths : q # c => PipeOf(q, k)' = PipeOf(q, k)
         /\ TypeOK'
<1>1. p # c /\ p \in alive /\ c \notin alive \cup exited /\ alive' = alive \cup {c} /\ pc[p] = Idle
  BY DEF nexs_rfork, Ready
<1>2. pc[c] = Idle /\ \A k \in Paths : queue[c][k] = NoQueue
  BY <1>1 DEF Unborn
<1>3. /\ queue'[c] = queue[p] /\ sent'[c] = sent[p] /\ rcvd'[c] = rcvd[p]
      /\ queue' \in [Procs -> [Paths -> Queues \cup {NoQueue}]]
      /\ sent' \in [Procs -> [Paths -> Seq(Msgs)]]
      /\ rcvd' \in [Procs -> [Paths -> Seq(Values)]]
      /\ \A q \in Procs : q # c =>
              queue'[q] = queue[q] /\ sent'[q] = sent[q] /\ rcvd'[q] = rcvd[q]
  BY DEF nexs_rfork, TypeOK
<1>4. \A k \in Paths : PipeOf(c, k) = NoPipe /\ PipeOf(c, k)' = PipeOf(p, k)
  BY <1>2, <1>3 DEF PipeOf
<1>5. \A q \in Procs, k \in Paths : q # c => PipeOf(q, k)' = PipeOf(q, k)
  BY <1>3 DEF PipeOf
<1>6. pc' = [pc EXCEPT ![p] = ForkCall, ![c] = ForkCall]
  BY DEF nexs_rfork, ForkCall
<1>7. /\ pc'[p] = ForkCall /\ pc'[c] = ForkCall
      /\ \A q \in Procs : q # p /\ q # c => pc'[q] = pc[q]
      /\ pc' \in [Procs -> Calls]
  BY <1>1, <1>6, ForkCallFacts DEF TypeOK
<1>8. TypeOK'
  BY <1>1, <1>3, <1>7 DEF TypeOK, nexs_rfork
<1> QED
  BY <1>1, <1>2, <1>3, <1>4, <1>5, <1>7, <1>8

\* reg_ipc_enable_pipes of p puts pipes under its queues at S.
Upgrades(p, S) ==
  /\ p \in alive /\ pc[p].op = "fork" /\ pc'[p] = Idle
  /\ \A q \in Procs : q # p => pc'[q] = pc[q]
  /\ S \subseteq Paths
  /\ \A k \in S : /\ queue[p][k] # NoQueue /\ PipeOf(p, k) = NoPipe /\ PipeOf(p, k)' = <<p, k>>
                  /\ queue[p][k].msgs \in Seq(Msgs)
                  /\ pipe'[<<p, k>>] = Drained(queue[p][k].msgs)
                  /\ written'[<<p, k>>] = queue[p][k].msgs
                  /\ queue'[p][k] # NoQueue
  /\ \A q \in Procs, k \in Paths : q # p \/ k \notin S =>
       /\ PipeOf(q, k)' = PipeOf(q, k) /\ queue'[q][k] = queue[q][k]
       /\ pipe'[<<q, k>>] = pipe[<<q, k>>] /\ written'[<<q, k>>] = written[<<q, k>>]
  /\ UNCHANGED <<alive, exited, sent, rcvd, read, writers, readers>>

\* Every reg_ipc_enable_pipes makes pipes for some queues of its process.
LEMMA UpgradeStep ==
  ASSUME TypeOK, NEW p \in Procs, reg_ipc_enable_pipes(p)
  PROVE  TypeOK' /\ \E S : Upgrades(p, S)
<1>1. PICK S \in SUBSET InMemory(p) :
        /\ p \in alive /\ pc[p].op = "fork"
        /\ pipe' = [f \in Pipes |-> IF f[1] = p /\ f[2] \in S
                                    THEN Drained(queue[p][f[2]].msgs) ELSE pipe[f]]
        /\ written' = [f \in Pipes |-> IF f[1] = p /\ f[2] \in S
                                       THEN queue[p][f[2]].msgs ELSE written[f]]
        /\ queue' = [queue EXCEPT ![p] = [k \in Paths |->
                       IF k \in S THEN [msgs |-> <<>>, pipe |-> <<p, k>>] ELSE @[k]]]
        /\ pc' = [pc EXCEPT ![p] = Idle]
        /\ UNCHANGED <<alive, exited, sent, rcvd, read, writers, readers>>
  BY DEF reg_ipc_enable_pipes
<1> DEFINE x(k) == [msgs |-> <<>>, pipe |-> <<p, k>>]
<1>2. S \subseteq Paths /\ \A k \in S : HasQueue(p, k) /\ ~UsePipe(p, k)
  BY DEF InMemory
<1>3. \A k \in S : /\ queue[p][k] # NoQueue /\ PipeOf(p, k) = NoPipe
                   /\ queue[p][k].msgs \in Seq(Msgs)
  BY <1>2, QueueType DEF HasQueue
<1>4. \A k \in Paths : x(k) \in Queues /\ x(k) # NoQueue /\ x(k).pipe = <<p, k>>
  <2> TAKE k \in Paths
  <2>1. x(k) \in Queues
    BY PipeIsPipe DEF Queues
  <2> QED
    BY <2>1, QueueNone, Zenon
<1>5. /\ queue' \in [Procs -> [Paths -> Queues \cup {NoQueue}]]
      /\ \A k \in S : queue'[p][k] = x(k)
      /\ \A q \in Procs, k \in Paths : q # p \/ k \notin S => queue'[q][k] = queue[q][k]
  <2> HIDE DEF x
  <2>1. queue' = [queue EXCEPT ![p] = [k \in Paths |-> IF k \in S THEN x(k) ELSE queue[p][k]]]
    BY <1>1 DEF x
  <2>2. [k \in Paths |-> IF k \in S THEN x(k) ELSE queue[p][k]] \in [Paths -> Queues \cup {NoQueue}]
    BY <1>4 DEF TypeOK
  <2> QED
    BY <1>2, <2>1, <2>2 DEF TypeOK
<1>6. \A k \in S : queue'[p][k] # NoQueue /\ PipeOf(p, k)' = <<p, k>>
  <2> HIDE DEF x
  <2> QED
    BY <1>2, <1>4, <1>5 DEF PipeOf
<1>7. \A q \in Procs, k \in Paths : q # p \/ k \notin S => PipeOf(q, k)' = PipeOf(q, k)
  BY <1>5 DEF PipeOf
<1>8. /\ \A k \in S : /\ pipe'[<<p, k>>] = Drained(queue[p][k].msgs)
                      /\ written'[<<p, k>>] = queue[p][k].msgs
      /\ \A q \in Procs, k \in Paths : q # p \/ k \notin S =>
           pipe'[<<q, k>>] = pipe[<<q, k>>] /\ written'[<<q, k>>] = written[<<q, k>>]
  BY <1>1, <1>2, PipeIsPipe
<1>9. pipe' \in [Pipes -> Seq(PieceSet)] /\ written' \in [Pipes -> Seq(Msgs)]
  <2>1. ASSUME NEW f \in Pipes, f[1] = p, f[2] \in S
        PROVE  Drained(queue[p][f[2]].msgs) \in Seq(PieceSet) /\ queue[p][f[2]].msgs \in Seq(Msgs)
    BY <1>3, <2>1, DrainedFacts
  <2> QED
    BY <1>1, <2>1 DEF TypeOK
<1>10. /\ pc' \in [Procs -> Calls] /\ pc'[p] = Idle /\ \A q \in Procs : q # p => pc'[q] = pc[q]
  BY <1>1, IdleFacts DEF TypeOK
<1>11. TypeOK'
  <2>1. UNCHANGED <<alive, exited, sent, rcvd, read, writers, readers>>
    BY <1>1
  <2> QED
    <3>1. alive' \subseteq Procs /\ exited' \subseteq Procs
      BY <2>1 DEF TypeOK
    <3>2. /\ sent' \in [Procs -> [Paths -> Seq(Msgs)]]
          /\ rcvd' \in [Procs -> [Paths -> Seq(Values)]]
          /\ read' \in [Pipes -> Seq(Values)]
      BY <2>1 DEF TypeOK
    <3>3. /\ writers' \in [Pipes -> SUBSET Procs] /\ readers' \in [Pipes -> SUBSET Procs]
          /\ \A f \in Pipes : IsFiniteSet(writers'[f]) /\ IsFiniteSet(readers'[f])
      BY <2>1 DEF TypeOK
    <3> QED
      BY <3>1, <3>2, <3>3, <1>5, <1>9, <1>10 DEF TypeOK
<1>12. Upgrades(p, S)
  <2> HIDE DEF x
  <2>1. /\ p \in alive /\ pc[p].op = "fork" /\ S \subseteq Paths
        /\ UNCHANGED <<alive, exited, sent, rcvd, read, writers, readers>>
    BY <1>1, <1>2
  <2>2. \A k \in S : /\ queue[p][k] # NoQueue /\ PipeOf(p, k) = NoPipe /\ PipeOf(p, k)' = <<p, k>>
                     /\ queue[p][k].msgs \in Seq(Msgs)
                     /\ pipe'[<<p, k>>] = Drained(queue[p][k].msgs)
                     /\ written'[<<p, k>>] = queue[p][k].msgs
                     /\ queue'[p][k] # NoQueue
    BY <1>3, <1>6, <1>8, Zenon
  <2>3. \A q \in Procs, k \in Paths : q # p \/ k \notin S =>
           /\ PipeOf(q, k)' = PipeOf(q, k) /\ queue'[q][k] = queue[q][k]
           /\ pipe'[<<q, k>>] = pipe[<<q, k>>] /\ written'[<<q, k>>] = written[<<q, k>>]
    BY <1>5, <1>7, <1>8, Zenon
  <2> QED
    BY <1>10, <2>1, <2>2, <2>3, Zenon DEF Upgrades
<1> QED
  BY <1>11, <1>12

----------------------------------------------------------------------------
\* Streams

\* The numbers in Stream are natural numbers.
LEMMA StreamTypes ==
  ASSUME NEW w \in Seq(Msgs), NEW rd \in Seq(Values), NEW pp \in Seq(PieceSet)
  PROVE  /\ Len(w) \in Nat /\ Len(rd) \in Nat /\ Len(pp) \in Nat
         /\ Pieces(Len(w)) \in Nat /\ Pieces(Len(rd)) \in Nat
         /\ PARTS \in Nat /\ PARTS > 0
<1>1. Len(w) \in Nat /\ Len(rd) \in Nat /\ Len(pp) \in Nat
  OBVIOUS
<1> QED
  BY <1>1, PiecesFacts

\* A pipe just made holds the pieces of the messages drained into it.
LEMMA StreamDrained ==
  ASSUME NEW s \in Seq(Msgs)
  PROVE  Stream(s, <<>>, Drained(s), 0, 0)
<1> DEFINE d == Drained(s)
<1>1. /\ d \in Seq(PieceSet) /\ Len(d) = Pieces(Len(s))
      /\ \A r \in 0..(Len(s) - 1), j \in 1..PARTS : d[Pieces(r) + j] = <<s[r + 1], j>>
  BY DrainedFacts
<1> HIDE DEF d
<1>2. Len(s) \in Nat /\ Pieces(Len(s)) \in Nat /\ Pieces(0) = 0
  BY PiecesFacts
<1>3. ASSUME NEW r \in 0..(Len(s) - 1), NEW j \in 1..PARTS, NEW i \in 1..Len(d), Pieces(r) + j = i
      PROVE  d[i] = <<s[r + 1], j>>
  BY <1>1, <1>3
<1>4. \A r \in 0..(Len(s) - 1), j \in 1..PARTS, i \in 1..Len(d) :
        Pieces(r) + j = Pieces(Len(<<>>)) + 0 + i => d[i] = <<s[r + 1], j>>
  <2>1. \A i \in 1..Len(d) : Pieces(Len(<<>>)) + 0 + i = i
    BY <1>1, <1>2
  <2> QED
    BY <1>3, <2>1
<1> QED
  BY <1>1, <1>2, <1>4 DEF Stream, d

\* The first piece of a message is written when no other message is unfinished.
LEMMA StreamFirst ==
  ASSUME NEW w \in Seq(Msgs), NEW rd \in Seq(Values), NEW pp \in Seq(PieceSet),
         NEW taken \in 0..(PARTS - 1), NEW m \in Msgs, Stream(w, rd, pp, taken, 0)
  PROVE  Stream(Append(w, m), rd, Append(pp, <<m, 1>>), taken, PARTS - 1)
<1> DEFINE w2 == Append(w, m)  p2 == Append(pp, <<m, 1>>)
<1>1. /\ Len(w) \in Nat /\ Len(rd) \in Nat /\ Len(pp) \in Nat
      /\ Pieces(Len(w)) \in Nat /\ Pieces(Len(rd)) \in Nat /\ PARTS \in Nat /\ PARTS > 0
  BY StreamTypes
<1>2. <<m, 1>> \in PieceSet
  BY <1>1 DEF PieceSet
<1>3. /\ Len(w2) = Len(w) + 1 /\ w2[Len(w) + 1] = m /\ \A i \in 1..Len(w) : w2[i] = w[i]
      /\ Len(p2) = Len(pp) + 1 /\ p2[Len(pp) + 1] = <<m, 1>> /\ \A i \in 1..Len(pp) : p2[i] = pp[i]
  BY <1>2, AppendProperties
<1> HIDE DEF w2, p2
<1>4. Pieces(Len(w2)) = Pieces(Len(w)) + PARTS
  BY <1>1, <1>3, PiecesFacts
<1>5. /\ Pieces(Len(rd)) + taken + Len(pp) = Pieces(Len(w))
      /\ Len(rd) <= Len(w) /\ \A i \in 1..Len(rd) : rd[i] = w[i]
  BY <1>1 DEF Stream
<1>6. Pieces(Len(rd)) + taken + Len(p2) + (PARTS - 1) = Pieces(Len(w2))
  BY <1>1, <1>3, <1>4, <1>5
<1>7. Len(rd) <= Len(w2) /\ \A i \in 1..Len(rd) : rd[i] = w2[i]
  BY <1>1, <1>3, <1>5
<1>8. ASSUME NEW r \in 0..(Len(w2) - 1), NEW j \in 1..PARTS, NEW i \in 1..Len(p2),
             Pieces(r) + j = Pieces(Len(rd)) + taken + i
      PROVE  p2[i] = <<w2[r + 1], j>>
  <2>0. r \in Nat /\ r <= Len(w) /\ Pieces(r) \in Nat
    BY <1>1, <1>3, PiecesFacts
  <2>1. CASE i = Len(pp) + 1
    <3>1. Pieces(r) + j = Pieces(Len(w)) + 1
      BY <1>1, <1>5, <1>8, <2>1
    <3>2. r = Len(w) /\ j = 1
      BY <1>1, <2>0, <3>1, SplitUnique
    <3> QED
      BY <1>3, <2>1, <3>2
  <2>2. CASE i # Len(pp) + 1
    <3>1. i \in 1..Len(pp)
      BY <1>1, <1>3, <2>2
    <3>2. r < Len(w)
      <4>1. Pieces(r) + j <= Pieces(Len(w))
        BY <1>1, <1>5, <1>8, <3>1
      <4>2. r # Len(w)
        BY <1>1, <2>0, <4>1
      <4> QED
        BY <1>1, <2>0, <4>2
    <3>3. pp[i] = <<w[r + 1], j>>
      <4>1. r \in 0..(Len(w) - 1)
        BY <1>1, <2>0, <3>2
      <4> QED
        BY <1>8, <3>1, <4>1 DEF Stream
    <3>4. r + 1 \in 1..Len(w)
      BY <1>1, <2>0, <3>2
    <3> QED
      BY <1>3, <3>1, <3>3, <3>4
  <2> QED
    BY <2>1, <2>2
<1> QED
  BY <1>6, <1>7, <1>8 DEF Stream, w2, p2

\* A further piece of the message that is unfinished.
LEMMA StreamMore ==
  ASSUME NEW w \in Seq(Msgs), NEW rd \in Seq(Values), NEW pp \in Seq(PieceSet),
         NEW taken \in 0..(PARTS - 1), NEW n \in 1..PARTS,
         Stream(w, rd, pp, taken, PARTS - n + 1), Len(w) > 0
  PROVE  Stream(w, rd, Append(pp, <<w[Len(w)], n>>), taken, PARTS - n)
<1> DEFINE m == w[Len(w)]  p2 == Append(pp, <<m, n>>)
<1>1. /\ Len(w) \in Nat /\ Len(rd) \in Nat /\ Len(pp) \in Nat
      /\ Pieces(Len(w)) \in Nat /\ Pieces(Len(rd)) \in Nat /\ PARTS \in Nat /\ PARTS > 0
  BY StreamTypes
<1>2. <<m, n>> \in PieceSet
  BY <1>1, ElementOfSeq DEF PieceSet
<1>3. /\ Len(p2) = Len(pp) + 1 /\ p2[Len(pp) + 1] = <<m, n>> /\ \A i \in 1..Len(pp) : p2[i] = pp[i]
  BY <1>2, AppendProperties
<1> HIDE DEF m, p2
<1>4. Len(w) - 1 \in Nat /\ Pieces(Len(w) - 1) \in Nat /\ Pieces(Len(w)) = Pieces(Len(w) - 1) + PARTS
  <2>1. Len(w) - 1 \in Nat /\ (Len(w) - 1) + 1 = Len(w)
    BY <1>1
  <2> QED
    BY <2>1, PiecesFacts
<1>5. Pieces(Len(rd)) + taken + Len(pp) + (PARTS - n + 1) = Pieces(Len(w))
  BY DEF Stream
<1>6. Pieces(Len(rd)) + taken + Len(p2) + (PARTS - n) = Pieces(Len(w))
  BY <1>1, <1>3, <1>5
<1>7. Len(rd) <= Len(w) /\ \A i \in 1..Len(rd) : rd[i] = w[i]
  BY DEF Stream
<1>8. ASSUME NEW r \in 0..(Len(w) - 1), NEW j \in 1..PARTS, NEW i \in 1..Len(p2),
             Pieces(r) + j = Pieces(Len(rd)) + taken + i
      PROVE  p2[i] = <<w[r + 1], j>>
  <2>1. CASE i = Len(pp) + 1
    <3>0. r \in Nat /\ Pieces(r) \in Nat
      <4>1. r \in Nat
        BY <1>1
      <4> QED
        BY <4>1, PiecesType
    <3>1. Pieces(r) + j = Pieces(Len(w) - 1) + n
      <4> DEFINE P == Pieces(Len(rd))  Q == Pieces(Len(w) - 1)  R == Pieces(r)  l == Len(pp)
      <4>1. /\ P \in Nat /\ Q \in Nat /\ R \in Nat /\ l \in Nat /\ PARTS \in Nat
            /\ taken \in Nat /\ n \in Nat /\ j \in Nat
        BY <1>1, <1>4, <3>0
      <4>2. P + taken + l + (PARTS - n + 1) = Q + PARTS /\ R + j = P + taken + (l + 1)
        BY <1>4, <1>5, <1>8, <2>1
      <4> HIDE DEF P, Q, R, l
      <4>3. R + j = Q + n
        BY <4>1, <4>2
      <4> QED
        BY <4>3 DEF Q, R
    <3>2. r = Len(w) - 1 /\ j = n
      BY <1>4, <3>0, <3>1, SplitUnique
    <3> QED
      BY <1>1, <1>3, <2>1, <3>2 DEF m
  <2>2. CASE i # Len(pp) + 1
    <3>1. i \in 1..Len(pp)
      BY <1>1, <1>3, <2>2
    <3> QED
      BY <1>3, <1>8, <3>1 DEF Stream
  <2> QED
    BY <2>1, <2>2
<1> QED
  BY <1>6, <1>7, <1>8 DEF Stream, m, p2

\* What comes out of a pipe first is the next piece of the message being read.
LEMMA StreamHead ==
  ASSUME NEW w \in Seq(Msgs), NEW rd \in Seq(Values), NEW pp \in Seq(PieceSet),
         NEW taken \in 0..(PARTS - 1), NEW owed \in 0..(PARTS - 1),
         Stream(w, rd, pp, taken, owed), pp # <<>>
  PROVE  /\ Len(rd) < Len(w) /\ w[Len(rd) + 1] \in Msgs
         /\ Head(pp) = <<w[Len(rd) + 1], taken + 1>>
<1>1. /\ Len(w) \in Nat /\ Len(rd) \in Nat /\ Len(pp) \in Nat
      /\ Pieces(Len(w)) \in Nat /\ Pieces(Len(rd)) \in Nat /\ PARTS \in Nat /\ PARTS > 0
  BY StreamTypes
<1>2. Len(pp) > 0 /\ Head(pp) = pp[1]
  BY <1>1
<1>3. /\ Pieces(Len(rd)) + taken + Len(pp) + owed = Pieces(Len(w))
      /\ Len(rd) <= Len(w)
  BY DEF Stream
<1>4. Len(rd) < Len(w)
  <2>1. Pieces(Len(rd)) # Pieces(Len(w))
    BY <1>1, <1>2, <1>3
  <2>2. Len(rd) # Len(w)
    BY <2>1
  <2> QED
    BY <1>1, <1>3, <2>2
<1>5. Len(rd) \in 0..(Len(w) - 1) /\ taken + 1 \in 1..PARTS /\ 1 \in 1..Len(pp)
  BY <1>1, <1>2, <1>4
<1>6. Pieces(Len(rd)) + (taken + 1) = Pieces(Len(rd)) + taken + 1
  BY <1>1
<1>7. pp[1] = <<w[Len(rd) + 1], taken + 1>>
  BY <1>5, <1>6 DEF Stream
<1>8. w[Len(rd) + 1] \in Msgs
  <2>1. Len(rd) + 1 \in 1..Len(w)
    BY <1>1, <1>4
  <2> QED
    BY <2>1, ElementOfSeq
<1> QED
  BY <1>2, <1>4, <1>7, <1>8

\* A piece that is not the last of its message is taken out.
LEMMA StreamTake ==
  ASSUME NEW w \in Seq(Msgs), NEW rd \in Seq(Values), NEW pp \in Seq(PieceSet),
         NEW taken \in 0..(PARTS - 1), NEW owed \in 0..(PARTS - 1),
         Stream(w, rd, pp, taken, owed), pp # <<>>
  PROVE  Stream(w, rd, Tail(pp), taken + 1, owed)
<1> DEFINE p2 == Tail(pp)
<1>1. /\ Len(w) \in Nat /\ Len(rd) \in Nat /\ Len(pp) \in Nat
      /\ Pieces(Len(w)) \in Nat /\ Pieces(Len(rd)) \in Nat /\ PARTS \in Nat /\ PARTS > 0
  BY StreamTypes
<1>2. Len(p2) = Len(pp) - 1 /\ \A i \in 1..Len(p2) : p2[i] = pp[i + 1]
  BY HeadTailProperties
<1>3. Len(p2) \in Nat
  BY <1>1, <1>2, EmptySeq
<1> HIDE DEF p2
<1>4. /\ Pieces(Len(rd)) + (taken + 1) + Len(p2) + owed = Pieces(Len(w))
      /\ Len(rd) <= Len(w) /\ \A i \in 1..Len(rd) : rd[i] = w[i]
  BY <1>1, <1>2 DEF Stream
<1>5. ASSUME NEW r \in 0..(Len(w) - 1), NEW j \in 1..PARTS, NEW i \in 1..Len(p2),
             Pieces(r) + j = Pieces(Len(rd)) + (taken + 1) + i
      PROVE  p2[i] = <<w[r + 1], j>>
  <2>1. i + 1 \in 1..Len(pp)
    BY <1>1, <1>2, <1>3
  <2>2. Pieces(r) + j = Pieces(Len(rd)) + taken + (i + 1)
    BY <1>1, <1>5
  <2> QED
    BY <1>2, <2>1, <2>2 DEF Stream
<1> QED
  BY <1>4, <1>5 DEF Stream, p2

\* The last piece of a message is taken out and the message is read.
LEMMA StreamLast ==
  ASSUME NEW w \in Seq(Msgs), NEW rd \in Seq(Values), NEW pp \in Seq(PieceSet),
         NEW owed \in 0..(PARTS - 1),
         Stream(w, rd, pp, PARTS - 1, owed), pp # <<>>
  PROVE  Stream(w, Append(rd, w[Len(rd) + 1]), Tail(pp), 0, owed)
<1> DEFINE p2 == Tail(pp)  m == w[Len(rd) + 1]  r2 == Append(rd, m)
<1>1. /\ Len(w) \in Nat /\ Len(rd) \in Nat /\ Len(pp) \in Nat
      /\ Pieces(Len(w)) \in Nat /\ Pieces(Len(rd)) \in Nat /\ PARTS \in Nat /\ PARTS > 0
  BY StreamTypes
<1>2. PARTS - 1 \in 0..(PARTS - 1)
  BY <1>1
<1>3. Len(rd) < Len(w) /\ m \in Msgs
  BY <1>2, StreamHead
<1>4. Stream(w, rd, p2, PARTS, owed)
  <2>1. Stream(w, rd, p2, (PARTS - 1) + 1, owed)
    BY <1>2, StreamTake
  <2> QED
    BY <1>1, <2>1
<1>5. Len(p2) \in Nat
  BY HeadTailProperties
<1>6. Len(r2) = Len(rd) + 1 /\ r2[Len(rd) + 1] = m /\ \A i \in 1..Len(rd) : r2[i] = rd[i]
  BY <1>3, AppendProperties DEF Values
<1> HIDE DEF p2, r2
<1>7. Pieces(Len(r2)) = Pieces(Len(rd)) + PARTS
  BY <1>1, <1>6, PiecesFacts
<1>8. Pieces(Len(r2)) + 0 + Len(p2) + owed = Pieces(Len(w))
  BY <1>1, <1>4, <1>5, <1>7 DEF Stream
<1>9. Len(r2) <= Len(w)
  BY <1>1, <1>3, <1>6
<1>10. ASSUME NEW i \in 1..Len(r2) PROVE r2[i] = w[i]
  <2>1. CASE i = Len(rd) + 1
    BY <1>6, <2>1
  <2>2. CASE i # Len(rd) + 1
    <3>1. i \in 1..Len(rd)
      BY <1>1, <1>6, <2>2
    <3> QED
      BY <1>6, <3>1 DEF Stream
  <2> QED
    BY <2>1, <2>2
<1>11. ASSUME NEW r \in 0..(Len(w) - 1), NEW j \in 1..PARTS, NEW i \in 1..Len(p2),
              Pieces(r) + j = Pieces(Len(r2)) + 0 + i
       PROVE  p2[i] = <<w[r + 1], j>>
  <2>1. Pieces(r) + j = Pieces(Len(rd)) + PARTS + i
    BY <1>1, <1>5, <1>7, <1>11
  <2> QED
    BY <1>4, <2>1 DEF Stream
<1> QED
  BY <1>8, <1>9, <1>10, <1>11 DEF Stream, p2, r2

\* Between messages, a pipe holds the messages written and not read.
LEMMA StreamBetween ==
  ASSUME NEW w \in Seq(Msgs), NEW rd \in Seq(Values), NEW pp \in Seq(PieceSet),
         Stream(w, rd, pp, 0, 0)
  PROVE  /\ SubSeq(w, Len(rd) + 1, Len(w)) \in Seq(Msgs)
         /\ pp = Drained(SubSeq(w, Len(rd) + 1, Len(w)))
<1> DEFINE s == SubSeq(w, Len(rd) + 1, Len(w))  d == Drained(s)
<1>1. /\ Len(w) \in Nat /\ Len(rd) \in Nat /\ Len(pp) \in Nat /\ Len(rd) <= Len(w)
      /\ Pieces(Len(w)) \in Nat /\ Pieces(Len(rd)) \in Nat /\ PARTS \in Nat /\ PARTS > 0
  BY StreamTypes DEF Stream
<1>2. /\ s \in Seq(Msgs) /\ Len(s) = Len(w) - Len(rd)
      /\ \A i \in 1..Len(s) : s[i] = w[Len(rd) + i]
  <2>1. \A i \in (Len(rd) + 1)..Len(w) : w[i] \in Msgs
    BY <1>1, ElementOfSeq
  <2>2. /\ s \in Seq(Msgs)
        /\ Len(s) = IF Len(rd) + 1 <= Len(w) THEN Len(w) - (Len(rd) + 1) + 1 ELSE 0
        /\ \A i \in 1..(Len(w) - (Len(rd) + 1) + 1) : s[i] = w[(Len(rd) + 1) + i - 1]
    BY <1>1, <2>1, SubSeqProperties
  <2> HIDE DEF s
  <2>3. Len(s) = Len(w) - Len(rd)
    BY <1>1, <2>2
  <2>4. ASSUME NEW i \in 1..Len(s) PROVE s[i] = w[Len(rd) + i]
    <3>1. i \in 1..(Len(w) - (Len(rd) + 1) + 1) /\ (Len(rd) + 1) + i - 1 = Len(rd) + i
      BY <1>1, <2>3
    <3> QED
      BY <2>2, <3>1
  <2> QED
    BY <2>2, <2>3, <2>4
<1> HIDE DEF s
<1>3. /\ d \in Seq(PieceSet) /\ Len(d) = Pieces(Len(s))
      /\ \A r \in 0..(Len(s) - 1), j \in 1..PARTS : d[Pieces(r) + j] = <<s[r + 1], j>>
  BY <1>2, DrainedFacts
<1> HIDE DEF d
<1>4. ASSUME NEW r \in Nat
      PROVE  Pieces(Len(rd) + r) = Pieces(Len(rd)) + Pieces(r)
  BY <1>1 DEF Pieces
<1>5. Len(s) \in Nat /\ Pieces(Len(s)) \in Nat /\ Len(rd) + Len(s) = Len(w)
  <2>1. Len(s) \in Nat /\ Len(rd) + Len(s) = Len(w)
    BY <1>1, <1>2
  <2> QED
    BY <2>1, PiecesFacts
<1>6. Len(pp) = Len(d)
  <2>1. Pieces(Len(w)) = Pieces(Len(rd)) + Pieces(Len(s))
    BY <1>4, <1>5
  <2> QED
    BY <1>1, <1>3, <1>5, <2>1 DEF Stream
<1>7. ASSUME NEW i \in 1..Len(pp) PROVE pp[i] = d[i]
  <2>1. PICK r \in 0..(Len(s) - 1), j \in 1..PARTS : i = Pieces(r) + j
    <3>1. i \in 1..Pieces(Len(s))
      BY <1>3, <1>6
    <3> QED
      BY <1>5, <3>1, SplitExists
  <2>2. r \in Nat /\ Pieces(r) \in Nat
    BY <1>5, <2>1, PiecesFacts
  <2>3. d[i] = <<s[r + 1], j>>
    BY <1>3, <2>1
  <2>4. s[r + 1] = w[Len(rd) + (r + 1)]
    BY <1>2, <1>5
  <2>5. Len(rd) + r \in 0..(Len(w) - 1)
    BY <1>1, <1>5
  <2>6. Pieces(Len(rd) + r) + j = Pieces(Len(rd)) + 0 + i
    <3>1. Pieces(Len(rd) + r) = Pieces(Len(rd)) + Pieces(r)
      BY <1>4, <2>2
    <3>2. j \in Nat
      BY <1>1
    <3> QED
      BY <1>1, <2>1, <2>2, <3>1, <3>2
  <2>7. pp[i] = <<w[(Len(rd) + r) + 1], j>>
    BY <2>5, <2>6 DEF Stream
  <2>8. Len(rd) + (r + 1) = (Len(rd) + r) + 1
    BY <1>1, <2>2
  <2> QED
    BY <2>3, <2>4, <2>7, <2>8
<1>8. pp = d
  BY <1>3, <1>6, <1>7, SeqEqual
<1> QED
  BY <1>2, <1>8 DEF s, d

\* When nothing is owed, a message of which a piece is there is there whole.
LEMMA StreamWhole ==
  ASSUME NEW w \in Seq(Msgs), NEW rd \in Seq(Values), NEW pp \in Seq(PieceSet),
         NEW taken \in 0..(PARTS - 1), Stream(w, rd, pp, taken, 0), taken + Len(pp) > 0
  PROVE  Len(pp) >= PARTS - taken
<1>1. /\ Len(w) \in Nat /\ Len(rd) \in Nat /\ Len(pp) \in Nat
      /\ Pieces(Len(w)) \in Nat /\ Pieces(Len(rd)) \in Nat /\ PARTS \in Nat /\ PARTS > 0
  BY StreamTypes
<1>2. Pieces(Len(rd)) + taken + Len(pp) = Pieces(Len(w)) /\ Len(rd) <= Len(w)
  BY <1>1 DEF Stream
<1>3. Len(rd) # Len(w)
  <2>1. Pieces(Len(rd)) # Pieces(Len(w))
    BY <1>1, <1>2
  <2> QED
    BY <2>1
<1>4. Len(rd) < Len(w)
  BY <1>1, <1>2, <1>3
<1>5. Pieces(Len(rd)) + PARTS <= Pieces(Len(w))
  BY <1>1, <1>4, PiecesMonotone
<1> QED
  BY <1>1, <1>2, <1>5

----------------------------------------------------------------------------
\* Steps that leave a pipe and the messages under way on it alone

\* A call with pieces of a message out.
InHand(c) == (c.op = "send" /\ c.part > 1) \/ (c.op = "recv" /\ c.got # <<>>)

\* Nobody's message on f gets further.
KeepsHands(f) ==
  \A q \in Procs : /\ MidSend(q, f)' <=> MidSend(q, f)
                   /\ MidRecv(q, f)' <=> MidRecv(q, f)
                   /\ MidSend(q, f) \/ MidRecv(q, f) => pc'[q] = pc[q]

\* Nothing of f changes.
KeepsPipe(f) == /\ pipe'[f] = pipe[f] /\ written'[f] = written[f] /\ read'[f] = read[f]
                /\ writers'[f] = writers[f] /\ readers'[f] = readers[f]

\* No process gets or loses a pipe.
KeepsPipes == \A q \in Procs, k \in Paths : PipeOf(q, k)' = PipeOf(q, k)

\* A call that has just begun, or none, has no piece in hand.
LEMMA InHandFacts ==
  ASSUME NEW k \in Paths, NEW m \in Msgs
  PROVE  ~InHand(Idle) /\ ~InHand(ForkCall) /\ ~InHand(SendCall(k, m, 1)) /\ ~InHand(RecvCall(k, <<>>))
BY DEF InHand, Idle, ForkCall, SendCall, RecvCall

\* Whose call and pipes stay, or who has nothing in hand, does not count.
LEMMA HandStays ==
  ASSUME TypeOK, NEW q \in Procs, NEW f \in Pipes,
         \/ pc'[q] = pc[q] /\ \A k \in Paths : PipeOf(q, k)' = PipeOf(q, k)
         \/ ~InHand(pc[q]) /\ ~InHand(pc'[q])
  PROVE  /\ MidSend(q, f)' <=> MidSend(q, f)
         /\ MidRecv(q, f)' <=> MidRecv(q, f)
         /\ MidSend(q, f) \/ MidRecv(q, f) => pc'[q] = pc[q]
<1>1. CASE pc'[q] = pc[q] /\ \A k \in Paths : PipeOf(q, k)' = PipeOf(q, k)
  <2>1. CASE pc[q].op \in {"send", "recv"}
    <3>1. pc[q] \in Calls
      BY DEF TypeOK
    <3>2. PICK k \in Paths : k = pc[q].path
      BY <2>1, <3>1, CallFacts
    <3>3. PipeOf(q, pc[q].path) = PipeOf(q, k) /\ PipeOf(q, pc[q].path)' = PipeOf(q, k)'
      BY <1>1, <3>2 DEF PipeOf
    <3> QED
      BY <1>1, <3>2, <3>3 DEF MidSend, MidRecv, SendsOn, RecvsOn
  <2>2. CASE pc[q].op \notin {"send", "recv"}
    BY <1>1, <2>2 DEF MidSend, MidRecv, SendsOn, RecvsOn
  <2> QED
    BY <2>1, <2>2
<1>2. CASE ~InHand(pc[q]) /\ ~InHand(pc'[q])
  BY <1>2 DEF InHand, MidSend, MidRecv, SendsOn, RecvsOn
<1> QED
  BY <1>1, <1>2

\* A step that leaves a pipe and the hands on it alone leaves its order alone.
LEMMA InOrderFrame ==
  ASSUME NEW f \in Pipes, KeepsPipe(f), KeepsHands(f), InOrder(f)
  PROVE  InOrder(f)'
<1> SUFFICES ASSUME Single(writers'[f]) /\ Single(readers'[f])
             PROVE  \E taken, owed \in 0..(PARTS - 1) :
                      /\ Stream(written'[f], read'[f], pipe'[f], taken, owed)
                      /\ Writing(f, owed)' /\ Reading(f, taken)'
  BY DEF InOrder
<1>1. PICK taken \in 0..(PARTS - 1), owed \in 0..(PARTS - 1) :
        Stream(written[f], read[f], pipe[f], taken, owed) /\ Writing(f, owed) /\ Reading(f, taken)
  BY DEF InOrder, KeepsPipe
<1>2. Stream(written'[f], read'[f], pipe'[f], taken, owed)
  BY <1>1 DEF KeepsPipe
<1>3. Writing(f, owed)'
  BY <1>1 DEF Writing, KeepsPipe, KeepsHands
<1>4. Reading(f, taken)'
  BY <1>1 DEF Reading, KeepsPipe, KeepsHands
<1> QED
  BY <1>2, <1>3, <1>4

\* A step that gives no process another pipe keeps the owners.
LEMMA PipesOwnedFrame ==
  ASSUME PipesOwned, KeepsPipes
  PROVE  PipesOwned'
BY DEF PipesOwned, KeepsPipes

\* A step that touches no pipe.
Quiet ==
  /\ UNCHANGED <<pipe, written, read, writers, readers>> /\ KeepsPipes
  /\ \A q \in Procs : pc'[q] = pc[q] \/ (~InHand(pc[q]) /\ ~InHand(pc'[q]))

\* Such a step keeps what the invariant says of pipes.
LEMMA QuietStep ==
  ASSUME TypeOK, PipesOwned, PipesNew, UsersKnown, PipesInOrder, Quiet
  PROVE  /\ PipesOwned' /\ PipesNew' /\ UsersKnown' /\ PipesInOrder'
         /\ \A p \in Procs, k \in Paths : Alone(p, k)' <=> Alone(p, k)
         /\ \A f \in Pipes : KeepsHands(f) /\ KeepsPipe(f)
<1>0. KeepsPipes
  BY DEF Quiet
<1>1. ASSUME NEW f \in Pipes PROVE KeepsHands(f) /\ KeepsPipe(f)
  <2>1. KeepsPipe(f)
    BY DEF KeepsPipe, Quiet
  <2>2. ASSUME NEW q \in Procs
        PROVE  \/ pc'[q] = pc[q] /\ \A k \in Paths : PipeOf(q, k)' = PipeOf(q, k)
               \/ ~InHand(pc[q]) /\ ~InHand(pc'[q])
    BY DEF Quiet, KeepsPipes
  <2>3. KeepsHands(f)
    BY <2>2, HandStays DEF KeepsHands
  <2> QED
    BY <2>1, <2>3
<1>2. PipesOwned'
  BY <1>0, PipesOwnedFrame
<1>3. PipesNew'
  BY <1>0, <1>1, PipeIsPipe DEF PipesNew, NotMade, Unused, KeepsPipe, KeepsPipes
<1>4. UsersKnown'
  <2>1. \A o \in Procs, k \in Paths, q \in Procs :
          q \in writers'[<<o, k>>] \/ q \in readers'[<<o, k>>] => PipeOf(q, k)' = <<o, k>>
    BY <1>0, <1>1, PipeIsPipe DEF UsersKnown, KeepsPipe, KeepsPipes
  <2>2. \A f \in Pipes, q \in Procs :
          (MidSend(q, f)' => q \in writers'[f]) /\ (MidRecv(q, f)' => q \in readers'[f])
    BY <1>1 DEF UsersKnown, KeepsPipe, KeepsHands
  <2> QED
    BY <2>1, <2>2 DEF UsersKnown
<1>5. PipesInOrder'
  BY <1>1, InOrderFrame DEF PipesInOrder
<1>6. \A p \in Procs, k \in Paths : Alone(p, k)' <=> Alone(p, k)
  BY <1>0 DEF Alone, KeepsPipes
<1> QED
  BY <1>1, <1>2, <1>3, <1>4, <1>5, <1>6

----------------------------------------------------------------------------
\* The link between a process's messages and its pipe

\* A message begun on the private pipe keeps the link.
LEMMA LinkedWrite ==
  ASSUME NEW s \in Seq(Msgs), NEW r \in Seq(Values), NEW w \in Seq(Msgs), NEW rd \in Seq(Values),
         NEW m \in Msgs, Linked(s, r, w, rd)
  PROVE  Linked(Append(s, m), r, Append(w, m), rd)
<1> DEFINE s2 == Append(s, m)  w2 == Append(w, m)
<1>1. PICK o \in 0..Len(r) :
        /\ Len(s) = o + Len(w) /\ Len(r) = o + Len(rd)
        /\ \A i \in 1..o : r[i] = s[i]
        /\ \A i \in 1..Len(w) : s[o + i] = w[i]
        /\ \A i \in 1..Len(rd) : r[o + i] = rd[i]
  BY DEF Linked
<1>2. Len(s) \in Nat /\ Len(r) \in Nat /\ Len(w) \in Nat /\ Len(rd) \in Nat
  OBVIOUS
<1>3. /\ Len(s2) = Len(s) + 1 /\ s2[Len(s) + 1] = m /\ \A i \in 1..Len(s) : s2[i] = s[i]
      /\ Len(w2) = Len(w) + 1 /\ w2[Len(w) + 1] = m /\ \A i \in 1..Len(w) : w2[i] = w[i]
  BY AppendProperties
<1> HIDE DEF s2, w2
<1>4. \A i \in 1..o : r[i] = s2[i]
  BY <1>1, <1>2, <1>3
<1>5. ASSUME NEW i \in 1..Len(w2) PROVE s2[o + i] = w2[i]
  <2>1. CASE i = Len(w) + 1
    BY <1>1, <1>2, <1>3, <2>1
  <2>2. CASE i # Len(w) + 1
    <3>1. i \in 1..Len(w)
      BY <1>2, <1>3, <2>2
    <3>2. o + i \in 1..Len(s)
      BY <1>1, <1>2, <3>1
    <3> QED
      BY <1>1, <1>3, <3>1, <3>2
  <2> QED
    BY <2>1, <2>2
<1>6. Len(s2) = o + Len(w2)
  BY <1>1, <1>2, <1>3
<1> QED
  BY <1>1, <1>4, <1>5, <1>6 DEF Linked, s2, w2

\* A message received from the private pipe keeps the link.
LEMMA LinkedRead ==
  ASSUME NEW s \in Seq(Msgs), NEW r \in Seq(Values), NEW w \in Seq(Msgs), NEW rd \in Seq(Values),
         NEW v \in Values, Linked(s, r, w, rd)
  PROVE  Linked(s, Append(r, v), w, Append(rd, v))
<1> DEFINE r2 == Append(r, v)  d2 == Append(rd, v)
<1>1. PICK o \in 0..Len(r) :
        /\ Len(s) = o + Len(w) /\ Len(r) = o + Len(rd)
        /\ \A i \in 1..o : r[i] = s[i]
        /\ \A i \in 1..Len(w) : s[o + i] = w[i]
        /\ \A i \in 1..Len(rd) : r[o + i] = rd[i]
  BY DEF Linked
<1>2. Len(s) \in Nat /\ Len(r) \in Nat /\ Len(w) \in Nat /\ Len(rd) \in Nat
  OBVIOUS
<1>3. /\ Len(r2) = Len(r) + 1 /\ r2[Len(r) + 1] = v /\ \A i \in 1..Len(r) : r2[i] = r[i]
      /\ Len(d2) = Len(rd) + 1 /\ d2[Len(rd) + 1] = v /\ \A i \in 1..Len(rd) : d2[i] = rd[i]
  BY AppendProperties
<1> HIDE DEF r2, d2
<1>4. o \in 0..Len(r2) /\ Len(r2) = o + Len(d2)
  BY <1>1, <1>2, <1>3
<1>5. \A i \in 1..o : r2[i] = s[i]
  BY <1>1, <1>2, <1>3
<1>6. ASSUME NEW i \in 1..Len(d2) PROVE r2[o + i] = d2[i]
  <2>1. CASE i = Len(rd) + 1
    BY <1>1, <1>2, <1>3, <2>1
  <2>2. CASE i # Len(rd) + 1
    <3>1. i \in 1..Len(rd) /\ o + i \in 1..Len(r)
      BY <1>1, <1>2, <1>3, <2>2
    <3> QED
      BY <1>1, <1>3, <3>1
  <2> QED
    BY <2>1, <2>2
<1> QED
  BY <1>1, <1>4, <1>5, <1>6 DEF Linked, r2, d2

\* A pipe made for a queue starts linked: the messages that were received before are behind it.
LEMMA LinkedMade ==
  ASSUME NEW s \in Seq(Msgs), NEW r \in Seq(Values), NEW w \in Seq(Msgs), s = r \o w
  PROVE  Linked(s, r, w, <<>>)
<1> DEFINE V == Msgs \cup Values
<1>1. r \in Seq(V) /\ w \in Seq(V)
  BY SeqMonotonic
<1>2. /\ Len(s) = Len(r) + Len(w)
      /\ \A i \in 1..Len(r) + Len(w) : s[i] = IF i <= Len(r) THEN r[i] ELSE w[i - Len(r)]
  BY <1>1, ConcatProperties
<1>3. Len(r) \in Nat /\ Len(w) \in Nat /\ Len(<<>>) = 0
  OBVIOUS
<1>4. \A i \in 1..Len(r) : r[i] = s[i]
  BY <1>2, <1>3
<1>5. ASSUME NEW i \in 1..Len(w) PROVE s[Len(r) + i] = w[i]
  <2>1. Len(r) + i \in 1..Len(r) + Len(w) /\ ~(Len(r) + i <= Len(r)) /\ (Len(r) + i) - Len(r) = i
    BY <1>3
  <2> QED
    BY <1>2, <2>1
<1>6. Len(r) \in 0..Len(r) /\ Len(r) = Len(r) + Len(<<>>) /\ \A i \in 1..Len(<<>>) : FALSE
  BY <1>3
<1> QED
  BY <1>2, <1>4, <1>5, <1>6 DEF Linked

\* A step that leaves the pipe and the messages of p at k alone.
LEMMA LinkedFrame ==
  ASSUME NEW p \in Procs, NEW k \in Paths, KeepsPipe(<<p, k>>), KeepsHands(<<p, k>>),
         sent'[p][k] = sent[p][k], rcvd'[p][k] = rcvd[p][k],
         Linked(Begun(p, k), rcvd[p][k], written[<<p, k>>], read[<<p, k>>])
  PROVE  Linked(Begun(p, k)', rcvd'[p][k], written'[<<p, k>>], read'[<<p, k>>])
<1>1. Begun(p, k)' = Begun(p, k)
  BY DEF Begun, KeepsHands
<1> QED
  BY <1>1 DEF KeepsPipe

\* The messages a process has begun to send are messages.
LEMMA BegunType ==
  ASSUME TypeOK, NEW p \in Procs, NEW k \in Paths
  PROVE  Begun(p, k) \in Seq(Msgs)
<1>1. pc[p] \in Calls /\ sent[p][k] \in Seq(Msgs)
  BY DEF TypeOK
<1>2. MidSend(p, <<p, k>>) => pc[p].msg \in Msgs
  BY <1>1, CallFacts DEF MidSend, SendsOn
<1> QED
  BY <1>1, <1>2, AppendProperties DEF Begun

----------------------------------------------------------------------------
\* pipe_write_all preserves the invariant

\* What the rest of the system sees of a write: the calls, the pipes but one.
LEMMA WriteFrame ==
  ASSUME TypeOK, NEW p \in Procs, NEW o \in Procs, NEW k \in Paths, NEW m \in Msgs,
         NEW n \in 1..PARTS, Writes(p, o, k, m, n)
  PROVE  /\ KeepsPipes
         /\ \A g \in Pipes : g # <<o, k>> => KeepsPipe(g) /\ KeepsHands(g)
         /\ pc[p].op = "send" /\ ~RecvsOn(p, <<o, k>>) /\ ~MidRecv(p, <<o, k>>)
         /\ pc'[p].op \in {"send", "idle"} /\ ~MidRecv(p, <<o, k>>)'
         /\ MidSend(p, <<o, k>>) <=> n > 1
         /\ MidSend(p, <<o, k>>)' <=> n < PARTS
         /\ n < PARTS => pc'[p].op = "send" /\ pc'[p].path = k /\ pc'[p].msg = m /\ pc'[p].part = n + 1
         /\ pc[p].msg = m /\ pc[p].part = n
<1> DEFINE f == <<o, k>>
<1>1. KeepsPipes
  BY DEF KeepsPipes, PipeOf, Writes
<1>2. /\ pc[p].op = "send" /\ pc[p].path = k /\ pc[p].msg = m /\ pc[p].part = n
      /\ PipeOf(p, k) = f /\ PipeOf(p, k)' = f
  BY <1>1, SendCallFacts DEF Writes, KeepsPipes
<1>3. /\ n < PARTS => pc'[p].op = "send" /\ pc'[p].path = k /\ pc'[p].msg = m /\ pc'[p].part = n + 1
      /\ n = PARTS => pc'[p].op = "idle"
      /\ n < PARTS \/ n = PARTS
  <2>1. CASE n < PARTS
    <3>1. n + 1 \in 1..PARTS /\ n # PARTS
      BY <2>1, PiecesFacts
    <3>2. pc'[p] = SendCall(k, m, n + 1)
      BY <3>1 DEF Writes
    <3> QED
      BY <2>1, <3>1, <3>2, SendCallFacts
  <2>2. CASE n = PARTS
    <3>1. ~(n < PARTS)
      BY <2>2, PiecesFacts
    <3>2. pc'[p] = Idle
      BY <3>1 DEF Writes
    <3> QED
      BY <2>2, <3>1, <3>2, IdleFacts
  <2>3. n < PARTS \/ n = PARTS
    BY PiecesFacts
  <2> QED
    BY <2>1, <2>2, <2>3
<1>4. MidSend(p, f) <=> n > 1
  BY <1>2 DEF MidSend, SendsOn
<1>5. MidSend(p, f)' <=> n < PARTS
  <2>1. CASE n < PARTS
    <3>1. pc'[p].part > 1
      BY <1>3, <2>1
    <3> QED
      BY <1>2, <1>3, <2>1, <3>1 DEF MidSend, SendsOn, PipeOf
  <2>2. CASE n = PARTS
    <3>1. pc'[p].op # "send" /\ ~(n < PARTS)
      BY <1>3, <2>2, PiecesFacts
    <3> QED
      BY <3>1 DEF MidSend, SendsOn
  <2> QED
    BY <1>3, <2>1, <2>2
<1>6. ASSUME NEW g \in Pipes, g # f PROVE KeepsPipe(g) /\ KeepsHands(g)
  <2>1. KeepsPipe(g)
    <3>1. pipe'[g] = pipe[g] /\ writers'[g] = writers[g] /\ readers'[g] = readers[g] /\ read'[g] = read[g]
      BY <1>6 DEF Writes, TypeOK
    <3>2. written'[g] = written[g]
      BY <1>6 DEF Writes, TypeOK
    <3> QED
      BY <3>1, <3>2 DEF KeepsPipe
  <2>2. ASSUME NEW q \in Procs, q # p
        PROVE  /\ MidSend(q, g)' <=> MidSend(q, g)
               /\ MidRecv(q, g)' <=> MidRecv(q, g)
               /\ MidSend(q, g) \/ MidRecv(q, g) => pc'[q] = pc[q]
    <3>1. pc'[q] = pc[q] /\ \A j \in Paths : PipeOf(q, j)' = PipeOf(q, j)
      BY <1>1, <2>2 DEF Writes, KeepsPipes
    <3> QED
      BY <3>1, HandStays
  <2>3. ~MidSend(p, g) /\ ~MidRecv(p, g)
    BY <1>2, <1>6 DEF MidSend, MidRecv, SendsOn, RecvsOn
  <2>4. ~MidSend(p, g)' /\ ~MidRecv(p, g)'
    <3>1. CASE n < PARTS
      BY <1>2, <1>3, <1>6, <3>1 DEF MidSend, MidRecv, SendsOn, RecvsOn, PipeOf
    <3>2. CASE n = PARTS
      BY <1>3, <3>2 DEF MidSend, MidRecv, SendsOn, RecvsOn
    <3> QED
      BY <1>3, <3>1, <3>2
  <2>5. KeepsHands(g)
    BY <2>2, <2>3, <2>4 DEF KeepsHands
  <2> QED
    BY <2>1, <2>5
<1>7. ~RecvsOn(p, f) /\ ~MidRecv(p, f) /\ ~MidRecv(p, f)' /\ pc'[p].op \in {"send", "idle"}
  BY <1>2, <1>3 DEF MidRecv, RecvsOn
<1> QED
  BY <1>1, <1>2, <1>3, <1>4, <1>5, <1>6, <1>7

\* pipe_write_all keeps the order of the pipe it writes to.
LEMMA WriteInOrder ==
  ASSUME TypeOK, TypeOK', UsersKnown, PipesInOrder, NEW p \in Procs, NEW o \in Procs, NEW k \in Paths,
         NEW m \in Msgs, NEW n \in 1..PARTS, Writes(p, o, k, m, n)
  PROVE  InOrder(<<o, k>>)'
<1>0. PICK f \in Pipes : f = <<o, k>>
  BY PipeIsPipe
<1> SUFFICES ASSUME Single(writers'[f]), Single(readers'[f])
             PROVE  \E taken, owed \in 0..(PARTS - 1) :
                      /\ Stream(written'[f], read'[f], pipe'[f], taken, owed)
                      /\ Writing(f, owed)' /\ Reading(f, taken)'
  BY <1>0 DEF InOrder
<1>1. /\ writers'[f] = writers[f] \cup {p} /\ readers'[f] = readers[f] /\ read'[f] = read[f]
      /\ pipe'[f] = Append(pipe[f], <<m, n>>)
      /\ n = 1 => written'[f] = Append(written[f], m)
      /\ n # 1 => written'[f] = written[f]
  BY <1>0 DEF Writes, TypeOK
<1>2. /\ written[f] \in Seq(Msgs) /\ read[f] \in Seq(Values) /\ pipe[f] \in Seq(PieceSet)
      /\ Len(written[f]) \in Nat /\ Len(read[f]) \in Nat /\ PARTS \in Nat /\ PARTS > 0
  <2>1. written[f] \in Seq(Msgs) /\ read[f] \in Seq(Values) /\ pipe[f] \in Seq(PieceSet)
    BY DEF TypeOK
  <2> QED
    BY <2>1, StreamTypes
<1>3. Single(writers[f]) /\ Single(readers[f]) /\ \A q \in writers[f] : q = p
  BY <1>1 DEF Single
<1>4. PICK taken \in 0..(PARTS - 1), owed \in 0..(PARTS - 1) :
        Stream(written[f], read[f], pipe[f], taken, owed) /\ Writing(f, owed) /\ Reading(f, taken)
  BY <1>3 DEF PipesInOrder, InOrder
<1>5. \A q \in Procs : MidSend(q, f) => q = p
  BY <1>3 DEF UsersKnown
<1>6. /\ MidSend(p, f) <=> n > 1
      /\ MidSend(p, f)' <=> n < PARTS
      /\ n < PARTS => pc'[p].msg = m /\ pc'[p].part = n + 1
      /\ pc[p].msg = m /\ pc[p].part = n
      /\ ~MidRecv(p, f) /\ ~MidRecv(p, f)'
  BY <1>0, WriteFrame
<1>7. ASSUME NEW q \in Procs, q # p
      PROVE  /\ ~MidSend(q, f)'
             /\ MidRecv(q, f)' <=> MidRecv(q, f)
             /\ pc'[q] = pc[q]
  <2>1. pc'[q] = pc[q] /\ \A j \in Paths : PipeOf(q, j)' = PipeOf(q, j)
    BY <1>7, WriteFrame DEF Writes, KeepsPipes
  <2> QED
    BY <1>5, <1>7, <2>1, HandStays
<1>8. Reading(f, taken)'
  <2>1. ASSUME NEW q \in Procs, MidRecv(q, f)'
        PROVE  /\ taken = Len(pc'[q].got)
               /\ Len(read'[f]) < Len(written'[f])
               /\ \A j \in 1..Len(pc'[q].got) :
                    pc'[q].got[j] = <<written'[f][Len(read'[f]) + 1], j>>
    <3>1. q # p /\ MidRecv(q, f) /\ pc'[q] = pc[q]
      BY <1>6, <1>7, <2>1
    <3>2. /\ taken = Len(pc[q].got) /\ Len(read[f]) < Len(written[f])
          /\ \A j \in 1..Len(pc[q].got) : pc[q].got[j] = <<written[f][Len(read[f]) + 1], j>>
      BY <1>4, <3>1 DEF Reading
    <3>3. Len(written[f]) <= Len(written'[f]) /\ written'[f][Len(read[f]) + 1] = written[f][Len(read[f]) + 1]
      <4>1. CASE n = 1
        <5> DEFINE w == written[f]  r == Len(read[f]) + 1
        <5>1. r \in 1..Len(w)
          BY <1>2, <3>2
        <5>2. written'[f] = Append(w, m)
          BY <1>1, <4>1
        <5>3. w \in Seq(Msgs) /\ Len(w) \in Nat
          BY <1>2
        <5> HIDE DEF w, r
        <5>4. Len(Append(w, m)) = Len(w) + 1 /\ Append(w, m)[r] = w[r]
          BY <5>1, <5>3, AppendProperties
        <5>5. Len(w) <= Len(written'[f]) /\ written'[f][r] = w[r]
          BY <5>2, <5>3, <5>4
        <5> QED
          BY <5>5 DEF w, r
      <4>2. CASE n # 1
        BY <1>1, <1>2, <4>2
      <4> QED
        BY <4>1, <4>2
    <3>4. Len(written'[f]) \in Nat
      BY DEF TypeOK
    <3>5. Len(read[f]) < Len(written'[f])
      BY <1>2, <3>2, <3>3, <3>4
    <3>6. \A j \in 1..Len(pc[q].got) : pc[q].got[j] = <<written'[f][Len(read[f]) + 1], j>>
      BY <3>2, <3>3
    <3>7. read'[f] = read[f]
      BY <1>1
    <3>8. taken = Len(pc[q].got) /\ pc'[q] = pc[q]
      BY <3>1, <3>2
    <3> QED
      BY <3>5, <3>6, <3>7, <3>8
  <2>2. taken > 0 => \E q \in Procs : MidRecv(q, f)'
    BY <1>4, <1>6, <1>7 DEF Reading
  <2> QED
    BY <2>1, <2>2 DEF Reading
<1>9. CASE n = 1
  <2>1. owed = 0
    <3>1. ~(\E q \in Procs : MidSend(q, f))
      BY <1>5, <1>6, <1>9
    <3>2. ~(owed > 0)
      BY <1>4, <3>1 DEF Writing
    <3> QED
      BY <1>2, <3>2
  <2>2. Stream(written'[f], read'[f], pipe'[f], taken, PARTS - 1)
    BY <1>1, <1>2, <1>4, <1>9, <2>1, StreamFirst
  <2>3. Writing(f, PARTS - 1)'
    <3>1. Len(written'[f]) = Len(written[f]) + 1 /\ written'[f][Len(written[f]) + 1] = m
      BY <1>1, <1>2, <1>9, AppendProperties
    <3>2. ASSUME NEW q \in Procs, MidSend(q, f)'
          PROVE  /\ PARTS - 1 = PARTS - pc'[q].part + 1
                 /\ Len(written'[f]) > 0
                 /\ written'[f][Len(written'[f])] = pc'[q].msg
      <4>1. q = p
        BY <1>7, <3>2
      <4>2. pc'[p].part = 2 /\ pc'[p].msg = m
        BY <1>6, <1>9, <3>2, <4>1
      <4> QED
        BY <1>2, <3>1, <4>1, <4>2
    <3>3. PARTS - 1 > 0 => \E q \in Procs : MidSend(q, f)'
      BY <1>2, <1>6, <1>9
    <3> QED
      BY <3>2, <3>3 DEF Writing
  <2>4. PARTS - 1 \in 0..(PARTS - 1)
    BY <1>2
  <2> QED
    BY <1>8, <2>2, <2>3, <2>4
<1>10. CASE n # 1
  <2>0. n > 1 /\ n \in Nat /\ n <= PARTS
    BY <1>2, <1>10
  <2>1. owed = PARTS - n + 1 /\ Len(written[f]) > 0 /\ written[f][Len(written[f])] = m
    BY <1>4, <1>6, <2>0 DEF Writing
  <2>2. Stream(written'[f], read'[f], pipe'[f], taken, PARTS - n)
    <3>1. Stream(written[f], read[f], pipe[f], taken, PARTS - n + 1)
      BY <1>4, <2>1
    <3>2. Stream(written[f], read[f], Append(pipe[f], <<written[f][Len(written[f])], n>>), taken, PARTS - n)
      BY <1>2, <2>1, <3>1, StreamMore
    <3> QED
      BY <1>1, <1>10, <2>1, <3>2
  <2>3. Writing(f, PARTS - n)'
    <3>1. ASSUME NEW q \in Procs, MidSend(q, f)'
          PROVE  /\ PARTS - n = PARTS - pc'[q].part + 1
                 /\ Len(written'[f]) > 0
                 /\ written'[f][Len(written'[f])] = pc'[q].msg
      <4>1. q = p
        BY <1>7, <3>1
      <4>2. pc'[p].part = n + 1 /\ pc'[p].msg = m
        BY <1>6, <3>1, <4>1
      <4> QED
        BY <1>1, <1>2, <1>10, <2>0, <2>1, <4>1, <4>2
    <3>2. PARTS - n > 0 => \E q \in Procs : MidSend(q, f)'
      BY <1>2, <1>6, <2>0
    <3> QED
      BY <3>1, <3>2 DEF Writing
  <2>4. PARTS - n \in 0..(PARTS - 1)
    BY <1>2, <2>0
  <2> QED
    BY <1>8, <2>2, <2>3, <2>4
<1> QED
  BY <1>9, <1>10

\* What two processes that are alone on their pipes need not fear from a third.
LEMMA AloneFrame ==
  ASSUME KeepsPipes, NEW p \in Procs, NEW k \in Paths
  PROVE  Alone(p, k)' <=> Alone(p, k)
BY DEF Alone, KeepsPipes

\* The parts about who has a pipe, when all but one pipe are left alone and p
\* joins the users of that one, which it has.
LEMMA UsersFrame ==
  ASSUME TypeOK, TypeOK', PipesNew, UsersKnown, KeepsPipes,
         NEW p \in Procs, NEW o \in Procs, NEW k \in Paths,
         PipeOf(p, k) = <<o, k>>, PipeOf(o, k) = <<o, k>>,
         \A g \in Pipes : g # <<o, k>> => KeepsPipe(g) /\ KeepsHands(g),
         writers'[<<o, k>>] \subseteq writers[<<o, k>>] \cup {p},
         readers'[<<o, k>>] \subseteq readers[<<o, k>>] \cup {p},
         \A q \in Procs : /\ MidSend(q, <<o, k>>)' => q \in writers'[<<o, k>>]
                          /\ MidRecv(q, <<o, k>>)' => q \in readers'[<<o, k>>]
  PROVE  PipesNew' /\ UsersKnown'
<1>1. PipesNew'
  <2> SUFFICES ASSUME NEW x \in Procs, NEW j \in Paths, NotMade(x, j)'
               PROVE  Unused(<<x, j>>)'
    BY DEF PipesNew
  <2>1. PipeOf(x, j) # <<x, j>>
    BY DEF NotMade, KeepsPipes
  <2>2. <<x, j>> # <<o, k>>
    BY <2>1
  <2>3. KeepsPipe(<<x, j>>)
    BY <2>2, PipeIsPipe
  <2> QED
    BY <2>1, <2>3 DEF PipesNew, NotMade, Unused, KeepsPipe
<1>2. ASSUME NEW x \in Procs, NEW j \in Paths, NEW q \in Procs,
             q \in writers'[<<x, j>>] \/ q \in readers'[<<x, j>>]
      PROVE  PipeOf(q, j)' = <<x, j>>
  <2>1. CASE <<x, j>> = <<o, k>>
    <3>1. q = p \/ q \in writers[<<o, k>>] \/ q \in readers[<<o, k>>]
      BY <1>2, <2>1
    <3>2. x = o /\ j = k
      BY <2>1
    <3>3. PipeOf(q, k) = <<o, k>>
      BY <3>1 DEF UsersKnown
    <3> QED
      BY <3>2, <3>3 DEF KeepsPipes
  <2>2. CASE <<x, j>> # <<o, k>>
    <3>1. KeepsPipe(<<x, j>>)
      BY <2>2, PipeIsPipe
    <3>2. q \in writers[<<x, j>>] \/ q \in readers[<<x, j>>]
      BY <1>2, <3>1 DEF KeepsPipe
    <3>3. PipeOf(q, j) = <<x, j>>
      BY <3>2 DEF UsersKnown
    <3> QED
      BY <3>3 DEF KeepsPipes
  <2> QED
    BY <2>1, <2>2
<1>3. ASSUME NEW g \in Pipes, NEW q \in Procs
      PROVE  (MidSend(q, g)' => q \in writers'[g]) /\ (MidRecv(q, g)' => q \in readers'[g])
  <2>1. CASE g = <<o, k>>
    BY <2>1
  <2>2. CASE g # <<o, k>>
    <3>1. KeepsPipe(g) /\ KeepsHands(g)
      BY <2>2
    <3> QED
      BY <3>1 DEF KeepsPipe, KeepsHands, UsersKnown
  <2> QED
    BY <2>1, <2>2
<1> QED
  BY <1>1, <1>2, <1>3 DEF UsersKnown

\* The queues in memory, when the queues stay and only what went through a pipe grows.
LEMMA MemoryFrame ==
  ASSUME TypeOK, MemoryFifo, queue' = queue, KeepsPipes, NEW p \in Procs, NEW k \in Paths,
         PipeOf(p, k) # NoPipe,
         \A q \in Procs, j \in Paths : q # p \/ j # k =>
           sent'[q][j] = sent[q][j] /\ rcvd'[q][j] = rcvd[q][j]
  PROVE  MemoryFifo'
<1> SUFFICES ASSUME NEW q \in Procs, NEW j \in Paths
             PROVE  /\ queue'[q][j] = NoQueue => sent'[q][j] = <<>> /\ rcvd'[q][j] = <<>>
                    /\ queue'[q][j] # NoQueue /\ PipeOf(q, j)' = NoPipe =>
                         sent'[q][j] = rcvd'[q][j] \o queue'[q][j].msgs
  BY DEF MemoryFifo
<1>1. CASE q = p /\ j = k
  <2>1. queue[p][k] # NoQueue
    BY DEF PipeOf
  <2>2. PipeOf(p, k)' # NoPipe
    BY DEF KeepsPipes
  <2> QED
    BY <1>1, <2>1, <2>2
<1>2. CASE q # p \/ j # k
  <2>1. sent'[q][j] = sent[q][j] /\ rcvd'[q][j] = rcvd[q][j] /\ PipeOf(q, j)' = PipeOf(q, j)
    BY <1>2 DEF KeepsPipes
  <2> QED
    BY <2>1 DEF MemoryFifo
<1> QED
  BY <1>1, <1>2

\* pipe_write_all preserves the invariant.
LEMMA WritePreserves ==
  ASSUME IInv, TypeOK', NEW p \in Procs, NEW o \in Procs, NEW k \in Paths, NEW m \in Msgs,
         NEW n \in 1..PARTS, Writes(p, o, k, m, n)
  PROVE  IInv'
<1> DEFINE f == <<o, k>>
<1>0. /\ TypeOK /\ Unborn /\ CallsOnPipes /\ PipesOwned /\ PipesNew /\ UsersKnown
      /\ PipesInOrder /\ MemoryFifo /\ PrivateLinked /\ Polled
  BY DEF IInv
<1>1. /\ KeepsPipes
      /\ \A g \in Pipes : g # f => KeepsPipe(g) /\ KeepsHands(g)
      /\ pc[p].op = "send" /\ ~RecvsOn(p, f)
      /\ pc'[p].op \in {"send", "idle"} /\ ~MidRecv(p, f)'
      /\ MidSend(p, f) <=> n > 1
      /\ MidSend(p, f)' <=> n < PARTS
      /\ n < PARTS => pc'[p].op = "send" /\ pc'[p].path = k /\ pc'[p].msg = m
      /\ pc[p].msg = m
  BY <1>0, WriteFrame
<1>2. /\ p \in alive /\ alive' = alive /\ exited' = exited /\ queue' = queue /\ rcvd' = rcvd
      /\ PipeOf(p, k) = f /\ PipeOf(o, k) = f /\ f \in Pipes /\ f # NoPipe
      /\ \A q \in Procs : q # p => pc'[q] = pc[q]
  BY PipeIsPipe DEF Writes
<1>3. /\ writers'[f] = writers[f] \cup {p} /\ readers'[f] = readers[f] /\ read'[f] = read[f]
      /\ pipe'[f] = Append(pipe[f], <<m, n>>)
      /\ n = 1 => written'[f] = Append(written[f], m)
      /\ n # 1 => written'[f] = written[f]
  BY <1>0, <1>2 DEF Writes, TypeOK
<1>4. n < PARTS \/ n = PARTS
  BY PiecesFacts
<1>5. /\ \A q \in Procs, j \in Paths : q # p \/ j # k => sent'[q][j] = sent[q][j]
      /\ n = PARTS => sent'[p][k] = Append(sent[p][k], m)
      /\ n < PARTS => sent' = sent
  <2>1. n < PARTS => ~(n = PARTS)
    BY PiecesFacts
  <2>2. CASE n < PARTS
    <3>1. sent' = sent
      BY <2>1, <2>2 DEF Writes
    <3> QED
      BY <2>1, <2>2, <3>1
  <2>3. CASE n = PARTS
    <3>1. sent' = [sent EXCEPT ![p][k] = Append(@, m)]
      BY <2>1, <2>3 DEF Writes
    <3>2. /\ sent'[p][k] = Append(sent[p][k], m)
          /\ \A q \in Procs, j \in Paths : q # p \/ j # k => sent'[q][j] = sent[q][j]
      BY <1>0, <3>1 DEF TypeOK
    <3> QED
      BY <2>1, <2>3, <3>2
  <2> QED
    BY <1>4, <2>2, <2>3
<1>6. Unborn'
  BY <1>0, <1>2 DEF Unborn
<1>7. CallsOnPipes'
  <2> SUFFICES ASSUME NEW q \in Procs, pc'[q].op \in {"send", "recv"}
               PROVE  PipeOf(q, pc[q].path)' # NoPipe
    BY DEF CallsOnPipes
  <2>1. CASE q = p
    <3>1. pc'[p].path = k
      BY <1>1, <1>4, <2>1, PiecesFacts, IdleFacts DEF Writes
    <3> QED
      BY <1>2, <2>1, <3>1 DEF PipeOf
  <2>2. CASE q # p
    BY <1>0, <1>2, <2>2 DEF CallsOnPipes, PipeOf
  <2> QED
    BY <2>1, <2>2
<1>8. PipesOwned'
  BY <1>0, <1>1, PipesOwnedFrame
<1>9. PipesNew' /\ UsersKnown'
  <2>1. ASSUME NEW q \in Procs
        PROVE  /\ MidSend(q, f)' => q \in writers'[f]
               /\ MidRecv(q, f)' => q \in readers'[f]
    <3>1. CASE q = p
      BY <1>1, <1>3, <3>1
    <3>2. CASE q # p
      <4>1. pc'[q] = pc[q] /\ \A j \in Paths : PipeOf(q, j)' = PipeOf(q, j)
        BY <1>1, <1>2, <3>2 DEF KeepsPipes
      <4>2. (MidSend(q, f)' <=> MidSend(q, f)) /\ (MidRecv(q, f)' <=> MidRecv(q, f))
        BY <1>0, <1>2, <4>1, HandStays
      <4> QED
        BY <1>0, <1>2, <1>3, <4>2 DEF UsersKnown
    <3> QED
      BY <3>1, <3>2
  <2>2. writers'[f] \subseteq writers[f] \cup {p} /\ readers'[f] \subseteq readers[f] \cup {p}
    BY <1>3
  <2> QED
    BY <1>0, <1>1, <1>2, <2>1, <2>2, UsersFrame
<1>10. PipesInOrder'
  <2>1. ASSUME NEW g \in Pipes, g # f PROVE InOrder(g)'
    <3>1. KeepsPipe(g) /\ KeepsHands(g) /\ InOrder(g)
      BY <1>0, <1>1, <2>1 DEF PipesInOrder
    <3> QED
      BY <3>1, InOrderFrame
  <2>2. InOrder(f)'
    BY <1>0, WriteInOrder
  <2> QED
    BY <2>1, <2>2 DEF PipesInOrder
<1>11. MemoryFifo'
  <2>1. \A q \in Procs, j \in Paths : q # p \/ j # k =>
           sent'[q][j] = sent[q][j] /\ rcvd'[q][j] = rcvd[q][j]
    BY <1>2, <1>5
  <2> QED
    BY <1>0, <1>1, <1>2, <2>1, MemoryFrame
<1>12. PrivateLinked'
  <2> SUFFICES ASSUME NEW q \in Procs, NEW j \in Paths, Alone(q, j)'
               PROVE  Linked(Begun(q, j)', rcvd'[q][j], written'[<<q, j>>], read'[<<q, j>>])
    BY DEF PrivateLinked
  <2>1. Alone(q, j) /\ Linked(Begun(q, j), rcvd[q][j], written[<<q, j>>], read[<<q, j>>])
    BY <1>0, <1>1, AloneFrame DEF PrivateLinked
  <2>2. CASE <<q, j>> # f
    <3>1. KeepsPipe(<<q, j>>) /\ KeepsHands(<<q, j>>)
      BY <1>1, <2>2, PipeIsPipe
    <3>2. q # p \/ j # k
      BY <1>2, <2>1, <2>2 DEF Alone
    <3>3. sent'[q][j] = sent[q][j] /\ rcvd'[q][j] = rcvd[q][j]
      BY <1>2, <1>5, <3>2
    <3> QED
      BY <2>1, <3>1, <3>3, LinkedFrame
  <2>3. CASE <<q, j>> = f
    <3>1. q = o /\ j = k /\ q = p
      BY <1>2, <2>1, <2>3 DEF Alone
    <3>2. Begun(p, k) = IF n > 1 THEN Append(sent[p][k], m) ELSE sent[p][k]
      BY <1>1, <3>1 DEF Begun
    <3>3. Begun(p, k)' = Append(sent[p][k], m)
      <4>1. CASE n < PARTS
        BY <1>1, <1>5, <3>1, <4>1 DEF Begun
      <4>2. CASE n = PARTS
        <5>1. ~(n < PARTS)
          BY <4>2, PiecesFacts
        <5> QED
          BY <1>1, <1>5, <3>1, <4>2, <5>1 DEF Begun
      <4> QED
        BY <1>4, <4>1, <4>2
    <3>4. CASE n = 1
      <4>1. Begun(p, k)' = Append(Begun(p, k), m)
        BY <3>2, <3>3, <3>4
      <4>2. written'[f] = Append(written[f], m) /\ read'[f] = read[f] /\ rcvd'[p][k] = rcvd[p][k]
        BY <1>2, <1>3, <3>4
      <4>3. /\ Begun(p, k) \in Seq(Msgs) /\ rcvd[p][k] \in Seq(Values)
            /\ written[f] \in Seq(Msgs) /\ read[f] \in Seq(Values)
        BY <1>0, <1>2, BegunType DEF TypeOK
      <4>4. Linked(Begun(p, k), rcvd[p][k], written[f], read[f])
        BY <2>1, <3>1
      <4>5. Linked(Append(Begun(p, k), m), rcvd[p][k], Append(written[f], m), read[f])
        BY <4>3, <4>4, LinkedWrite
      <4> QED
        BY <3>1, <4>1, <4>2, <4>5
    <3>5. CASE n # 1
      <4>1. n > 1
        BY <3>5
      <4>2. Begun(p, k)' = Begun(p, k)
        BY <3>2, <3>3, <4>1
      <4>3. written'[f] = written[f] /\ read'[f] = read[f] /\ rcvd'[p][k] = rcvd[p][k]
        BY <1>2, <1>3, <3>5
      <4> QED
        BY <2>1, <3>1, <4>2, <4>3
    <3> QED
      BY <3>4, <3>5
  <2> QED
    BY <2>2, <2>3
<1>13. Polled'
  <2> SUFFICES ASSUME NEW q \in Procs, NEW j \in Paths, q \in alive', RecvsOn(q, <<q, j>>)', Alone(q, j)'
               PROVE  Len(pc'[q].got) + Len(pipe'[<<q, j>>]) > 0
    BY DEF Polled
  <2>1. q # p
    BY <1>1 DEF RecvsOn
  <2>2. pc'[q] = pc[q] /\ q \in alive /\ Alone(q, j)
    BY <1>1, <1>2, <2>1, AloneFrame
  <2>3. RecvsOn(q, <<q, j>>)
    BY <1>2, <2>2 DEF RecvsOn, PipeOf
  <2>4. <<q, j>> # f
    BY <1>2, <2>1, <2>2 DEF Alone
  <2>5. KeepsPipe(<<q, j>>)
    BY <1>1, <2>4, PipeIsPipe
  <2>6. Len(pc[q].got) + Len(pipe[<<q, j>>]) > 0
    BY <1>0, <2>2, <2>3 DEF Polled
  <2> QED
    BY <2>2, <2>5, <2>6 DEF KeepsPipe
<1> QED
  BY <1>6, <1>7, <1>8, <1>9, <1>10, <1>11, <1>12, <1>13 DEF IInv

----------------------------------------------------------------------------
\* pipe_read_all preserves the invariant

\* What pipe_read_all leaves alone, and the two ways it ends.
LEMMA ReadFrame ==
  ASSUME TypeOK, NEW p \in Procs, NEW o \in Procs, NEW k \in Paths, NEW g \in Seq(PieceSet),
         Reads(p, o, k, g)
  PROVE  LET t == Taken(g, <<o, k>>) IN
         /\ KeepsPipes
         /\ \A h \in Pipes : h # <<o, k>> => KeepsPipe(h) /\ KeepsHands(h)
         /\ t \in Seq(PieceSet) /\ Len(t) = Len(g) + 1 /\ Len(t) \in Nat
         /\ \A i \in 1..Len(g) : t[i] = g[i]
         /\ t[Len(g) + 1] = Head(pipe[<<o, k>>])
         /\ pc[p].op = "recv" /\ pc[p].path = k /\ pc[p].got = g
         /\ RecvsOn(p, <<o, k>>) /\ (MidRecv(p, <<o, k>>) <=> g # <<>>)
         /\ ~MidSend(p, <<o, k>>) /\ ~MidSend(p, <<o, k>>)'
         /\ \/ /\ Len(t) < PARTS /\ pc'[p].op = "recv" /\ pc'[p].path = k /\ pc'[p].got = t
               /\ MidRecv(p, <<o, k>>)' /\ rcvd' = rcvd /\ read' = read
            \/ /\ Len(t) = PARTS /\ pc'[p].op = "idle" /\ ~MidRecv(p, <<o, k>>)'
               /\ rcvd' = [rcvd EXCEPT ![p][k] = Append(@, Deserialised(t))]
               /\ read' = [read EXCEPT ![<<o, k>>] = Append(@, Deserialised(t))]
<1> DEFINE f == <<o, k>>  t == Taken(g, f)
<1>1. KeepsPipes
  BY DEF KeepsPipes, PipeOf, Reads
<1>2. f \in Pipes /\ pipe[f] \in Seq(PieceSet) /\ pipe[f] # <<>> /\ Len(g) \in Nat /\ Len(g) < PARTS
  BY PipeIsPipe DEF Reads, TypeOK
<1>3. Head(pipe[f]) \in PieceSet
  BY <1>2, HeadTailProperties
<1>4. /\ t \in Seq(PieceSet) /\ Len(t) = Len(g) + 1
      /\ \A i \in 1..Len(g) : t[i] = g[i]
      /\ t[Len(g) + 1] = Head(pipe[f])
  BY <1>3, AppendProperties DEF Taken
<1>5. /\ pc[p].op = "recv" /\ pc[p].path = k /\ pc[p].got = g
      /\ PipeOf(p, k) = f /\ PipeOf(p, k)' = f
  BY <1>1, <1>2, RecvCallFacts DEF Reads, KeepsPipes
<1>6. Len(t) \in Nat /\ t # <<>>
  BY <1>2, <1>4
<1>7. \/ /\ Len(t) < PARTS /\ pc'[p] = RecvCall(k, t) /\ rcvd' = rcvd /\ read' = read
      \/ /\ Len(t) = PARTS /\ pc'[p] = Idle
         /\ rcvd' = [rcvd EXCEPT ![p][k] = Append(@, Deserialised(t))]
         /\ read' = [read EXCEPT ![f] = Append(@, Deserialised(t))]
  BY DEF Reads
<1> HIDE DEF t
<1>8. \/ /\ Len(t) < PARTS /\ pc'[p].op = "recv" /\ pc'[p].path = k /\ pc'[p].got = t
         /\ MidRecv(p, f)' /\ ~MidSend(p, f)' /\ rcvd' = rcvd /\ read' = read
      \/ /\ Len(t) = PARTS /\ pc'[p].op = "idle" /\ ~MidRecv(p, f)' /\ ~MidSend(p, f)'
         /\ rcvd' = [rcvd EXCEPT ![p][k] = Append(@, Deserialised(t))]
         /\ read' = [read EXCEPT ![f] = Append(@, Deserialised(t))]
  <2>1. CASE Len(t) < PARTS /\ pc'[p] = RecvCall(k, t) /\ rcvd' = rcvd /\ read' = read
    <3>1. pc'[p].op = "recv" /\ pc'[p].path = k /\ pc'[p].got = t
      BY <1>4, <2>1, RecvCallFacts
    <3>2. MidRecv(p, f)' /\ ~MidSend(p, f)'
      BY <1>5, <1>6, <3>1 DEF MidRecv, MidSend, RecvsOn, SendsOn, PipeOf
    <3> QED
      BY <2>1, <3>1, <3>2
  <2>2. CASE /\ Len(t) = PARTS /\ pc'[p] = Idle
             /\ rcvd' = [rcvd EXCEPT ![p][k] = Append(@, Deserialised(t))]
             /\ read' = [read EXCEPT ![f] = Append(@, Deserialised(t))]
    <3>1. pc'[p].op = "idle"
      BY <2>2, IdleFacts
    <3>2. ~MidRecv(p, f)' /\ ~MidSend(p, f)'
      BY <3>1 DEF MidRecv, MidSend, RecvsOn, SendsOn
    <3> QED
      BY <2>2, <3>1, <3>2
  <2> QED
    BY <1>7, <2>1, <2>2
<1>9. RecvsOn(p, f) /\ (MidRecv(p, f) <=> g # <<>>) /\ ~MidSend(p, f)
  BY <1>5 DEF RecvsOn, MidRecv, MidSend, SendsOn
<1>10. ASSUME NEW h \in Pipes, h # f PROVE KeepsPipe(h) /\ KeepsHands(h)
  <2>1. KeepsPipe(h)
    <3>1. pipe'[h] = pipe[h] /\ writers'[h] = writers[h] /\ readers'[h] = readers[h] /\ written'[h] = written[h]
      BY <1>10 DEF Reads, TypeOK
    <3>2. read'[h] = read[h]
      BY <1>8, <1>10 DEF TypeOK
    <3> QED
      BY <3>1, <3>2 DEF KeepsPipe
  <2>2. ASSUME NEW q \in Procs, q # p
        PROVE  /\ MidSend(q, h)' <=> MidSend(q, h)
               /\ MidRecv(q, h)' <=> MidRecv(q, h)
               /\ MidSend(q, h) \/ MidRecv(q, h) => pc'[q] = pc[q]
    <3>1. pc'[q] = pc[q] /\ \A j \in Paths : PipeOf(q, j)' = PipeOf(q, j)
      BY <1>1, <2>2 DEF Reads, KeepsPipes
    <3> QED
      BY <3>1, HandStays
  <2>3. ~MidSend(p, h) /\ ~MidRecv(p, h)
    BY <1>5, <1>10 DEF MidSend, MidRecv, SendsOn, RecvsOn
  <2>4. ~MidSend(p, h)' /\ ~MidRecv(p, h)'
    <3>1. CASE pc'[p].op = "recv" /\ pc'[p].path = k
      BY <1>5, <1>10, <3>1 DEF MidSend, MidRecv, SendsOn, RecvsOn, PipeOf
    <3>2. CASE pc'[p].op = "idle"
      BY <3>2 DEF MidSend, MidRecv, SendsOn, RecvsOn
    <3> QED
      BY <1>8, <3>1, <3>2
  <2>5. KeepsHands(h)
    BY <2>2, <2>3, <2>4 DEF KeepsHands
  <2> QED
    BY <2>1, <2>5
<1> QED
  BY <1>1, <1>4, <1>5, <1>6, <1>8, <1>9, <1>10 DEF t

\* pipe_read_all keeps the order of the pipe it reads from.
LEMMA ReadInOrder ==
  ASSUME TypeOK, TypeOK', UsersKnown, PipesInOrder, NEW p \in Procs, NEW o \in Procs, NEW k \in Paths,
         NEW g \in Seq(PieceSet), Reads(p, o, k, g)
  PROVE  InOrder(<<o, k>>)'
<1> DEFINE t == Taken(g, <<o, k>>)
<1>0. PICK f \in Pipes : f = <<o, k>>
  BY PipeIsPipe
<1> SUFFICES ASSUME Single(writers'[f]), Single(readers'[f])
             PROVE  \E taken, owed \in 0..(PARTS - 1) :
                      /\ Stream(written'[f], read'[f], pipe'[f], taken, owed)
                      /\ Writing(f, owed)' /\ Reading(f, taken)'
  BY <1>0 DEF InOrder
<1>1. /\ readers'[f] = readers[f] \cup {p} /\ writers'[f] = writers[f] /\ written'[f] = written[f]
      /\ pipe'[f] = Tail(pipe[f]) /\ pipe[f] # <<>>
  BY <1>0 DEF Reads, TypeOK
<1>2. written[f] \in Seq(Msgs) /\ read[f] \in Seq(Values) /\ pipe[f] \in Seq(PieceSet)
  BY DEF TypeOK
<1>3. /\ Len(written[f]) \in Nat /\ Len(read[f]) \in Nat /\ PARTS \in Nat /\ PARTS > 0
      /\ Len(g) \in Nat /\ Len(g) < PARTS
  BY <1>2, StreamTypes DEF Reads
<1>4. Single(writers[f]) /\ Single(readers[f]) /\ \A q \in readers[f] : q = p
  BY <1>1 DEF Single
<1>5. PICK taken \in 0..(PARTS - 1), owed \in 0..(PARTS - 1) :
        Stream(written[f], read[f], pipe[f], taken, owed) /\ Writing(f, owed) /\ Reading(f, taken)
  BY <1>4 DEF PipesInOrder, InOrder
<1>6. \A q \in Procs : MidRecv(q, f) => q = p
  BY <1>4 DEF UsersKnown
<1>7. /\ t \in Seq(PieceSet) /\ Len(t) = Len(g) + 1
      /\ \A i \in 1..Len(g) : t[i] = g[i]
      /\ t[Len(g) + 1] = Head(pipe[f])
      /\ pc[p].got = g /\ (MidRecv(p, f) <=> g # <<>>)
      /\ ~MidSend(p, f) /\ ~MidSend(p, f)'
      /\ \/ Len(t) < PARTS /\ pc'[p].got = t /\ MidRecv(p, f)' /\ read' = read
         \/ /\ Len(t) = PARTS /\ ~MidRecv(p, f)'
            /\ read' = [read EXCEPT ![<<o, k>>] = Append(@, Deserialised(t))]
  <2>1. /\ t \in Seq(PieceSet) /\ Len(t) = Len(g) + 1
        /\ \A i \in 1..Len(g) : t[i] = g[i]
        /\ t[Len(g) + 1] = Head(pipe[<<o, k>>])
    <3>1. t \in Seq(PieceSet) /\ Len(t) = Len(g) + 1
      BY ReadFrame
    <3>2. \A i \in 1..Len(g) : t[i] = g[i]
      BY ReadFrame
    <3>3. t[Len(g) + 1] = Head(pipe[<<o, k>>])
      BY ReadFrame
    <3> QED
      BY <3>1, <3>2, <3>3
  <2>2. /\ pc[p].got = g /\ (MidRecv(p, <<o, k>>) <=> g # <<>>)
        /\ ~MidSend(p, <<o, k>>) /\ ~MidSend(p, <<o, k>>)'
    BY ReadFrame
  <2>3. \/ Len(t) < PARTS /\ pc'[p].got = t /\ MidRecv(p, <<o, k>>)' /\ read' = read
        \/ /\ Len(t) = PARTS /\ ~MidRecv(p, <<o, k>>)'
           /\ read' = [read EXCEPT ![<<o, k>>] = Append(@, Deserialised(t))]
    BY ReadFrame
  <2> HIDE DEF t
  <2>4. /\ MidRecv(p, <<o, k>>) <=> MidRecv(p, f)
        /\ MidSend(p, <<o, k>>) <=> MidSend(p, f)
        /\ MidRecv(p, <<o, k>>)' <=> MidRecv(p, f)'
        /\ MidSend(p, <<o, k>>)' <=> MidSend(p, f)'
    BY <1>0
  <2> QED
    BY <1>0, <2>1, <2>2, <2>3, <2>4
<1> HIDE DEF t
<1>8. ASSUME NEW q \in Procs, q # p
      PROVE  /\ ~MidRecv(q, f)'
             /\ MidSend(q, f)' <=> MidSend(q, f)
             /\ pc'[q] = pc[q]
  <2>1. pc'[q] = pc[q] /\ \A j \in Paths : PipeOf(q, j)' = PipeOf(q, j)
    BY <1>8, ReadFrame DEF Reads, KeepsPipes
  <2> QED
    BY <1>6, <1>8, <2>1, HandStays
\* What p holds is what the stream says is taken.
<1>9. taken = Len(g)
  <2>1. CASE g # <<>>
    BY <1>5, <1>7, <2>1 DEF Reading
  <2>2. CASE g = <<>>
    <3>1. ~(\E q \in Procs : MidRecv(q, f))
      BY <1>6, <1>7, <2>2
    <3>2. ~(taken > 0)
      BY <1>5, <3>1 DEF Reading
    <3> QED
      BY <1>3, <2>2, <3>2
  <2> QED
    BY <2>1, <2>2
<1>10. PICK m \in Msgs : m = written[f][Len(read[f]) + 1]
  BY <1>1, <1>2, <1>5, StreamHead
<1>11. Len(read[f]) < Len(written[f]) /\ Head(pipe[f]) = <<m, taken + 1>>
  BY <1>1, <1>2, <1>5, <1>10, StreamHead
<1>12. ASSUME NEW j \in 1..Len(t) PROVE t[j] = <<m, j>>
  <2>1. CASE j = Len(g) + 1
    BY <1>7, <1>9, <1>11, <2>1
  <2>2. CASE j # Len(g) + 1
    <3>1. j \in 1..Len(g)
      BY <1>3, <1>7, <2>2
    <3>2. g # <<>>
      BY <1>3, <3>1
    <3>3. g[j] = <<m, j>>
      BY <1>5, <1>7, <1>10, <3>1, <3>2 DEF Reading
    <3> QED
      BY <1>7, <3>1, <3>3
  <2> QED
    BY <2>1, <2>2
<1>13. Writing(f, owed)'
  BY <1>1, <1>5, <1>7, <1>8 DEF Writing
<1>14. CASE Len(t) < PARTS /\ pc'[p].got = t /\ MidRecv(p, f)' /\ read' = read
  <2>1. Stream(written'[f], read'[f], pipe'[f], taken + 1, owed)
    BY <1>1, <1>2, <1>5, <1>14, StreamTake
  <2>2. Reading(f, taken + 1)'
    <3>1. ASSUME NEW q \in Procs, MidRecv(q, f)'
          PROVE  /\ taken + 1 = Len(pc'[q].got)
                 /\ Len(read'[f]) < Len(written'[f])
                 /\ \A j \in 1..Len(pc'[q].got) :
                      pc'[q].got[j] = <<written'[f][Len(read'[f]) + 1], j>>
      <4>1. q = p
        BY <1>8, <3>1
      <4>2. pc'[q].got = t /\ read'[f] = read[f] /\ written'[f] = written[f]
        BY <1>1, <1>14, <4>1
      <4>3. taken + 1 = Len(t)
        BY <1>7, <1>9
      <4> QED
        BY <1>10, <1>11, <1>12, <4>2, <4>3
    <3>2. \E q \in Procs : MidRecv(q, f)'
      BY <1>14
    <3> QED
      BY <3>1, <3>2 DEF Reading
  <2>3. taken + 1 \in 0..(PARTS - 1)
    BY <1>3, <1>7, <1>9, <1>14
  <2> QED
    BY <1>13, <2>1, <2>2, <2>3
<1>15. CASE /\ Len(t) = PARTS /\ ~MidRecv(p, f)'
            /\ read' = [read EXCEPT ![<<o, k>>] = Append(@, Deserialised(t))]
  <2>1. Deserialised(t) = m
    BY <1>7, <1>12, <1>15, DeserialisedIs
  <2>2. read'[f] = Append(read[f], m)
    BY <1>0, <1>15, <2>1 DEF TypeOK
  <2>3. taken = PARTS - 1
    BY <1>3, <1>7, <1>9, <1>15
  <2>4. Stream(written'[f], read'[f], pipe'[f], 0, owed)
    <3>1. Stream(written[f], Append(read[f], written[f][Len(read[f]) + 1]), Tail(pipe[f]), 0, owed)
      BY <1>1, <1>2, <1>5, <2>3, StreamLast
    <3> QED
      BY <1>1, <1>10, <2>2, <3>1
  <2>5. Reading(f, 0)'
    BY <1>8, <1>15 DEF Reading
  <2>6. 0 \in 0..(PARTS - 1)
    BY <1>3
  <2> QED
    BY <1>13, <2>4, <2>5, <2>6
<1> QED
  BY <1>7, <1>14, <1>15

\* pipe_read_all preserves the invariant.
LEMMA ReadPreserves ==
  ASSUME IInv, TypeOK', NEW p \in Procs, NEW o \in Procs, NEW k \in Paths,
         NEW g \in Seq(PieceSet), Reads(p, o, k, g)
  PROVE  IInv'
<1> DEFINE f == <<o, k>>  t == Taken(g, f)
<1>0. /\ TypeOK /\ Unborn /\ CallsOnPipes /\ PipesOwned /\ PipesNew /\ UsersKnown
      /\ PipesInOrder /\ MemoryFifo /\ PrivateLinked /\ Polled
  BY DEF IInv
<1>1. /\ KeepsPipes
      /\ \A h \in Pipes : h # f => KeepsPipe(h) /\ KeepsHands(h)
      /\ Len(t) = Len(g) + 1 /\ Len(t) \in Nat
      /\ ~MidSend(p, f) /\ ~MidSend(p, f)'
      /\ \/ /\ Len(t) < PARTS /\ pc'[p].op = "recv" /\ pc'[p].path = k /\ pc'[p].got = t
            /\ MidRecv(p, f)' /\ rcvd' = rcvd /\ read' = read
         \/ /\ Len(t) = PARTS /\ pc'[p].op = "idle" /\ ~MidRecv(p, f)'
            /\ rcvd' = [rcvd EXCEPT ![p][k] = Append(@, Deserialised(t))]
            /\ read' = [read EXCEPT ![f] = Append(@, Deserialised(t))]
  BY <1>0, ReadFrame
<1>2. /\ p \in alive /\ alive' = alive /\ exited' = exited /\ queue' = queue /\ sent' = sent
      /\ PipeOf(p, k) = f /\ PipeOf(o, k) = f /\ f \in Pipes /\ f # NoPipe
      /\ \A q \in Procs : q # p => pc'[q] = pc[q]
  BY PipeIsPipe DEF Reads
<1>3. /\ readers'[f] = readers[f] \cup {p} /\ writers'[f] = writers[f] /\ written'[f] = written[f]
  BY <1>0, <1>2 DEF Reads, TypeOK
<1>4. Len(g) \in Nat
  OBVIOUS
<1> HIDE DEF t
<1>5. /\ \A q \in Procs, j \in Paths : q # p \/ j # k => rcvd'[q][j] = rcvd[q][j]
      /\ \/ rcvd'[p][k] = rcvd[p][k] /\ read'[f] = read[f]
         \/ /\ rcvd'[p][k] = Append(rcvd[p][k], Deserialised(t))
            /\ read'[f] = Append(read[f], Deserialised(t))
  <2>1. CASE rcvd' = rcvd /\ read' = read
    BY <2>1
  <2>2. CASE /\ rcvd' = [rcvd EXCEPT ![p][k] = Append(@, Deserialised(t))]
             /\ read' = [read EXCEPT ![f] = Append(@, Deserialised(t))]
    <3>1. /\ \A q \in Procs, j \in Paths : q # p \/ j # k => rcvd'[q][j] = rcvd[q][j]
          /\ rcvd'[p][k] = Append(rcvd[p][k], Deserialised(t))
      BY <1>0, <2>2 DEF TypeOK
    <3>2. read'[f] = Append(read[f], Deserialised(t))
      BY <1>0, <1>2, <2>2 DEF TypeOK
    <3> QED
      BY <3>1, <3>2
  <2> QED
    BY <1>1, <2>1, <2>2
<1>6. Unborn'
  BY <1>0, <1>2 DEF Unborn
<1>7. CallsOnPipes'
  <2> SUFFICES ASSUME NEW q \in Procs, pc'[q].op \in {"send", "recv"}
               PROVE  PipeOf(q, pc[q].path)' # NoPipe
    BY DEF CallsOnPipes
  <2>1. CASE q = p
    <3>1. pc'[p].path = k
      BY <1>1, <2>1
    <3> QED
      BY <1>2, <2>1, <3>1 DEF PipeOf
  <2>2. CASE q # p
    BY <1>0, <1>2, <2>2 DEF CallsOnPipes, PipeOf
  <2> QED
    BY <2>1, <2>2
<1>8. PipesOwned'
  BY <1>0, <1>1, PipesOwnedFrame
<1>9. ASSUME NEW q \in Procs, q # p
      PROVE  (MidSend(q, f)' <=> MidSend(q, f)) /\ (MidRecv(q, f)' <=> MidRecv(q, f))
  <2>1. pc'[q] = pc[q] /\ \A j \in Paths : PipeOf(q, j)' = PipeOf(q, j)
    BY <1>1, <1>2, <1>9 DEF KeepsPipes
  <2> QED
    BY <1>0, <1>2, <2>1, HandStays
<1>10. PipesNew' /\ UsersKnown'
  <2>1. ASSUME NEW q \in Procs
        PROVE  /\ MidSend(q, f)' => q \in writers'[f]
               /\ MidRecv(q, f)' => q \in readers'[f]
    <3>1. CASE q = p
      BY <1>1, <1>3, <3>1
    <3>2. CASE q # p
      BY <1>0, <1>2, <1>3, <1>9, <3>2 DEF UsersKnown
    <3> QED
      BY <3>1, <3>2
  <2>2. writers'[f] \subseteq writers[f] \cup {p} /\ readers'[f] \subseteq readers[f] \cup {p}
    BY <1>3
  <2> QED
    BY <1>0, <1>1, <1>2, <2>1, <2>2, UsersFrame
<1>11. PipesInOrder'
  <2>1. ASSUME NEW h \in Pipes, h # f PROVE InOrder(h)'
    <3>1. KeepsPipe(h) /\ KeepsHands(h) /\ InOrder(h)
      BY <1>0, <1>1, <2>1 DEF PipesInOrder
    <3> QED
      BY <3>1, InOrderFrame
  <2>2. InOrder(f)'
    BY <1>0, ReadInOrder
  <2> QED
    BY <2>1, <2>2 DEF PipesInOrder
<1>12. MemoryFifo'
  <2>1. \A q \in Procs, j \in Paths : q # p \/ j # k =>
           sent'[q][j] = sent[q][j] /\ rcvd'[q][j] = rcvd[q][j]
    BY <1>2, <1>5
  <2> QED
    BY <1>0, <1>1, <1>2, <2>1, MemoryFrame
<1>13. PrivateLinked'
  <2> SUFFICES ASSUME NEW q \in Procs, NEW j \in Paths, Alone(q, j)'
               PROVE  Linked(Begun(q, j)', rcvd'[q][j], written'[<<q, j>>], read'[<<q, j>>])
    BY DEF PrivateLinked
  <2>1. Alone(q, j) /\ Linked(Begun(q, j), rcvd[q][j], written[<<q, j>>], read[<<q, j>>])
    BY <1>0, <1>1, AloneFrame DEF PrivateLinked
  <2>2. CASE <<q, j>> # f
    <3>1. KeepsPipe(<<q, j>>) /\ KeepsHands(<<q, j>>)
      BY <1>1, <2>2, PipeIsPipe
    <3>2. q # p \/ j # k
      BY <1>2, <2>1, <2>2 DEF Alone
    <3>3. sent'[q][j] = sent[q][j] /\ rcvd'[q][j] = rcvd[q][j]
      BY <1>2, <1>5, <3>2
    <3> QED
      BY <2>1, <3>1, <3>3, LinkedFrame
  <2>3. CASE <<q, j>> = f
    <3>1. q = o /\ j = k /\ q = p
      BY <1>2, <2>1, <2>3 DEF Alone
    <3>2. Begun(p, k)' = Begun(p, k)
      BY <1>1, <1>2, <3>1 DEF Begun
    <3>3. CASE rcvd'[p][k] = rcvd[p][k] /\ read'[f] = read[f]
      BY <1>3, <2>1, <3>1, <3>2, <3>3
    <3>4. CASE /\ rcvd'[p][k] = Append(rcvd[p][k], Deserialised(t))
               /\ read'[f] = Append(read[f], Deserialised(t))
      <4>1. Deserialised(t) \in Values
        BY DeserialisedType
      <4>2. /\ Begun(p, k) \in Seq(Msgs) /\ rcvd[p][k] \in Seq(Values)
            /\ written[f] \in Seq(Msgs) /\ read[f] \in Seq(Values)
        BY <1>0, <1>2, BegunType DEF TypeOK
      <4>3. Linked(Begun(p, k), rcvd[p][k], written[f], read[f])
        BY <2>1, <3>1
      <4>4. Linked(Begun(p, k), Append(rcvd[p][k], Deserialised(t)), written[f],
                   Append(read[f], Deserialised(t)))
        BY <4>1, <4>2, <4>3, LinkedRead
      <4> QED
        BY <1>3, <3>1, <3>2, <3>4, <4>4
    <3> QED
      BY <1>5, <3>3, <3>4
  <2> QED
    BY <2>2, <2>3
<1>14. Polled'
  <2> SUFFICES ASSUME NEW q \in Procs, NEW j \in Paths, q \in alive', RecvsOn(q, <<q, j>>)', Alone(q, j)'
               PROVE  Len(pc'[q].got) + Len(pipe'[<<q, j>>]) > 0
    BY DEF Polled
  <2>0. pipe'[<<q, j>>] \in Seq(PieceSet)
    BY PipeIsPipe DEF TypeOK
  <2>1. CASE q = p
    <3>1. pc'[p].got = t
      BY <1>1, <2>1 DEF RecvsOn
    <3>2. Len(t) > 0 /\ Len(t) \in Nat /\ Len(pipe'[<<q, j>>]) \in Nat
      BY <1>1, <1>4, <2>0
    <3> QED
      BY <2>1, <3>1, <3>2
  <2>2. CASE q # p
    <3>1. pc'[q] = pc[q] /\ q \in alive /\ Alone(q, j)
      BY <1>1, <1>2, <2>2, AloneFrame
    <3>2. RecvsOn(q, <<q, j>>)
      BY <1>2, <3>1 DEF RecvsOn, PipeOf
    <3>3. <<q, j>> # f
      BY <1>2, <2>2, <3>1 DEF Alone
    <3>4. KeepsPipe(<<q, j>>)
      BY <1>1, <3>3, PipeIsPipe
    <3>5. Len(pc[q].got) + Len(pipe[<<q, j>>]) > 0
      BY <1>0, <3>1, <3>2 DEF Polled
    <3> QED
      BY <3>1, <3>4, <3>5 DEF KeepsPipe
  <2> QED
    BY <2>1, <2>2
<1> QED
  BY <1>6, <1>7, <1>8, <1>10, <1>11, <1>12, <1>13, <1>14 DEF IInv

----------------------------------------------------------------------------
\* The actions that touch no pipe preserve the invariant

\* A sum with a positive part is positive.
LEMMA SumPositive == \A a, b \in Nat : b > 0 => a + b > 0
OBVIOUS

\* Everything but Unborn and MemoryFifo, for a step that touches no pipe: the
\* histories of queues in memory may grow, and who begins to receive finds
\* something in the pipe.
LEMMA QuietPreserves ==
  ASSUME IInv, TypeOK', Quiet,
         \A q \in Procs, j \in Paths : PipeOf(q, j) # NoPipe =>
           sent'[q][j] = sent[q][j] /\ rcvd'[q][j] = rcvd[q][j],
         \A q \in Procs : \/ pc'[q] = pc[q]
                          \/ pc'[q].op \notin {"send", "recv"}
                          \/ \E j \in Paths : pc'[q].path = j /\ PipeOf(q, j) # NoPipe,
         \A q \in Procs : q \in alive' => q \in alive,
         \A q \in Procs : \/ pc'[q] = pc[q]
                          \/ pc'[q].op # "recv"
                          \/ \E j \in Paths : pc'[q].path = j /\ pipe[PipeOf(q, j)] # <<>>
  PROVE  CallsOnPipes' /\ PipesOwned' /\ PipesNew' /\ UsersKnown' /\ PipesInOrder'
         /\ PrivateLinked' /\ Polled'
<1>0. /\ TypeOK /\ Unborn /\ CallsOnPipes /\ PipesOwned /\ PipesNew /\ UsersKnown
      /\ PipesInOrder /\ MemoryFifo /\ PrivateLinked /\ Polled /\ KeepsPipes
  BY DEF IInv, Quiet
<1>1. /\ PipesOwned' /\ PipesNew' /\ UsersKnown' /\ PipesInOrder'
      /\ \A p \in Procs, k \in Paths : Alone(p, k)' <=> Alone(p, k)
      /\ \A f \in Pipes : KeepsHands(f) /\ KeepsPipe(f)
  BY <1>0, QuietStep
<1>2. CallsOnPipes'
  <2> SUFFICES ASSUME NEW q \in Procs, pc'[q].op \in {"send", "recv"}
               PROVE  PipeOf(q, pc[q].path)' # NoPipe
    BY DEF CallsOnPipes
  <2>1. pc'[q] \in Calls
    BY DEF TypeOK
  <2>2. PICK j \in Paths : j = pc'[q].path
    BY <2>1, CallFacts
  <2>3. PipeOf(q, j) # NoPipe
    BY <1>0, <2>2 DEF CallsOnPipes
  <2>4. PipeOf(q, j)' # NoPipe
    BY <1>0, <2>3 DEF KeepsPipes
  <2> QED
    BY <2>2, <2>4 DEF PipeOf
<1>3. PrivateLinked'
  <2> SUFFICES ASSUME NEW p \in Procs, NEW k \in Paths, Alone(p, k)'
               PROVE  Linked(Begun(p, k)', rcvd'[p][k], written'[<<p, k>>], read'[<<p, k>>])
    BY DEF PrivateLinked
  <2>1. Alone(p, k) /\ Linked(Begun(p, k), rcvd[p][k], written[<<p, k>>], read[<<p, k>>])
    BY <1>0, <1>1 DEF PrivateLinked
  <2>2. sent'[p][k] = sent[p][k] /\ rcvd'[p][k] = rcvd[p][k]
    BY <2>1, PipeIsPipe DEF Alone
  <2>3. KeepsHands(<<p, k>>) /\ KeepsPipe(<<p, k>>)
    BY <1>1, PipeIsPipe
  <2> QED
    BY <2>1, <2>2, <2>3, LinkedFrame
<1>4. Polled'
  <2> SUFFICES ASSUME NEW p \in Procs, NEW k \in Paths, p \in alive', RecvsOn(p, <<p, k>>)', Alone(p, k)'
               PROVE  Len(pc'[p].got) + Len(pipe'[<<p, k>>]) > 0
    BY DEF Polled
  <2>1. p \in alive /\ Alone(p, k) /\ pipe'[<<p, k>>] = pipe[<<p, k>>] /\ pc'[p].op = "recv"
    BY <1>1, PipeIsPipe DEF KeepsPipe, RecvsOn
  <2>2. pc'[p] \in Calls
    BY DEF TypeOK
  <2>3. PICK j \in Paths : j = pc'[p].path
    BY <2>1, <2>2, CallFacts
  <2>4. PipeOf(p, j)' = <<p, k>>
    BY <2>3 DEF RecvsOn, PipeOf
  <2>5. PipeOf(p, j) = <<p, k>>
    BY <1>0, <2>4 DEF KeepsPipes
  <2>6. CASE pc'[p] = pc[p]
    <3>1. RecvsOn(p, <<p, k>>)
      BY <2>1, <2>3, <2>5, <2>6 DEF RecvsOn
    <3>2. Len(pc[p].got) + Len(pipe[<<p, k>>]) > 0
      BY <1>0, <2>1, <3>1 DEF Polled
    <3>3. pc'[p].got = pc[p].got
      BY <2>6
    <3>4. pipe'[<<p, k>>] = pipe[<<p, k>>]
      BY <2>1
    <3> QED
      BY <3>2, <3>3, <3>4, Zenon
  <2>7. CASE pc'[p] # pc[p]
    <3>1. pipe[<<p, k>>] # <<>>
      BY <2>1, <2>3, <2>5, <2>7
    <3>2. pipe[<<p, k>>] \in Seq(PieceSet) /\ pc'[p].got \in Seq(PieceSet)
      BY <1>0, <2>1, <2>2, PipeIsPipe, CallFacts DEF TypeOK
    <3>3. Len(pipe[<<p, k>>]) > 0 /\ Len(pipe[<<p, k>>]) \in Nat /\ Len(pc'[p].got) \in Nat
      BY <3>1, <3>2, EmptySeq
    <3>4. Len(pc'[p].got) + Len(pipe[<<p, k>>]) > 0
      BY <3>3, SumPositive, Zenon
    <3>5. pipe'[<<p, k>>] = pipe[<<p, k>>]
      BY <2>1
    <3> QED
      BY <3>4, <3>5, Zenon
  <2> QED
    BY <2>6, <2>7
<1> QED
  BY <1>1, <1>2, <1>3, <1>4

\* Concatenation and the ends of a queue.
GrowsAtTheEnd(s, t, v) == Append(s \o t, v) = s \o Append(t, v)

\* A message put into the queue is put behind all that was sent.
LEMMA ConcatAppend ==
  ASSUME NEW V, NEW s \in Seq(V), NEW t \in Seq(V), NEW v \in V
  PROVE  GrowsAtTheEnd(s, t, v)
<1>1. Append(t, v) = t \o <<v>> /\ Append(s \o t, v) = (s \o t) \o <<v>>
  BY AppendIsConcat, ConcatProperties
<1>2. <<v>> \in Seq(V)
  OBVIOUS
<1> QED
  BY <1>1, <1>2, ConcatAssociative DEF GrowsAtTheEnd

\* The head of the queue is the next message after those received.
LEMMA ConcatHead ==
  ASSUME NEW V, NEW a \in Seq(V), NEW b \in Seq(V), b # <<>>
  PROVE  a \o b = Append(a, Head(b)) \o Tail(b)
<1>1. Head(b) \in V /\ Tail(b) \in Seq(V) /\ <<Head(b)>> \in Seq(V)
  BY HeadTailProperties
<1>2. b = <<Head(b)>> \o Tail(b)
  <2> DEFINE c == <<Head(b)>> \o Tail(b)
  <2>1. Len(Tail(b)) = Len(b) - 1 /\ Len(b) \in Nat /\ Len(b) > 0 /\ Len(<<Head(b)>>) = 1
    BY HeadTailProperties, EmptySeq
  <2>2. /\ c \in Seq(V) /\ Len(c) = 1 + Len(Tail(b))
        /\ \A i \in 1..(1 + Len(Tail(b))) : c[i] = IF i <= 1 THEN <<Head(b)>>[i] ELSE Tail(b)[i - 1]
    BY <1>1, <2>1, ConcatProperties
  <2> HIDE DEF c
  <2>3. Len(c) = Len(b)
    BY <2>1, <2>2
  <2>4. ASSUME NEW i \in 1..Len(b) PROVE c[i] = b[i]
    <3>1. CASE i = 1
      <4>1. 1 \in 1..(1 + Len(Tail(b)))
        BY <2>1
      <4>2. c[1] = Head(b)
        BY <2>2, <4>1
      <4> QED
        BY <3>1, <4>2
    <3>2. CASE i # 1
      <4>1. i \in 1..(1 + Len(Tail(b))) /\ ~(i <= 1) /\ i - 1 \in 1..Len(Tail(b)) /\ (i - 1) + 1 = i
        BY <2>1, <3>2
      <4>2. c[i] = Tail(b)[i - 1]
        BY <2>2, <4>1
      <4>3. Tail(b)[i - 1] = b[(i - 1) + 1]
        BY <4>1, HeadTailProperties
      <4> QED
        BY <4>1, <4>2, <4>3
    <3> QED
      BY <3>1, <3>2
  <2>5. c = b
    BY <2>2, <2>3, <2>4, SeqEqual
  <2> QED
    BY <2>5 DEF c
<1>3. Append(a, Head(b)) = a \o <<Head(b)>>
  BY <1>1, AppendIsConcat
<1> QED
  BY <1>1, <1>2, <1>3, ConcatAssociative

\* reg_ipc_init_queue preserves the invariant.
LEMMA InitQueuePreserves ==
  ASSUME IInv, NEW p \in Procs, NEW k \in Paths, reg_ipc_init_queue(p, k)
  PROVE  IInv'
<1>0. TypeOK /\ Unborn /\ MemoryFifo
  BY DEF IInv
<1>1. /\ queue[p][k] = NoQueue /\ queue'[p][k] = NewQueue
      /\ \A q \in Procs, j \in Paths : q # p \/ j # k => queue'[q][j] = queue[q][j]
      /\ KeepsPipes /\ TypeOK'
  BY <1>0, InitQueueStep DEF KeepsPipes
<1>2. /\ UNCHANGED <<alive, exited, pipe, pc, sent, rcvd, written, read, writers, readers>>
      /\ p \in alive
  BY DEF reg_ipc_init_queue, Ready
<1>3. Quiet
  BY <1>1, <1>2 DEF Quiet
<1>4. /\ CallsOnPipes' /\ PipesOwned' /\ PipesNew' /\ UsersKnown' /\ PipesInOrder'
      /\ PrivateLinked' /\ Polled'
  BY <1>1, <1>2, <1>3, QuietPreserves
<1>5. Unborn'
  BY <1>0, <1>1, <1>2 DEF Unborn
<1>6. MemoryFifo'
  <2> SUFFICES ASSUME NEW q \in Procs, NEW j \in Paths
               PROVE  /\ queue'[q][j] = NoQueue => sent'[q][j] = <<>> /\ rcvd'[q][j] = <<>>
                      /\ queue'[q][j] # NoQueue /\ PipeOf(q, j)' = NoPipe =>
                           sent'[q][j] = rcvd'[q][j] \o queue'[q][j].msgs
    BY DEF MemoryFifo
  <2>1. CASE q = p /\ j = k
    <3>1. queue'[p][k] # NoQueue /\ queue'[p][k].msgs = <<>>
      BY <1>1, NewQueueType, QueueNone
    <3>2. sent'[p][k] = <<>> /\ rcvd'[p][k] = <<>>
      BY <1>0, <1>1, <1>2 DEF MemoryFifo
    <3>3. <<>> \o <<>> = <<>>
      OBVIOUS
    <3> QED
      BY <2>1, <3>1, <3>2, <3>3
  <2>2. CASE q # p \/ j # k
    BY <1>0, <1>1, <1>2, <2>2 DEF MemoryFifo, KeepsPipes
  <2> QED
    BY <2>1, <2>2
<1> QED
  BY <1>1, <1>4, <1>5, <1>6 DEF IInv

\* reg_ipc_send to a queue in memory preserves the invariant.
LEMMA SendMemoryPreserves ==
  ASSUME IInv, NEW p \in Procs, NEW k \in Paths, NEW m \in Msgs, reg_ipc_send_memory(p, k, m)
  PROVE  IInv'
<1>0. TypeOK /\ Unborn /\ MemoryFifo
  BY DEF IInv
<1>1. PICK x \in Queues :
        /\ queue'[p][k] = x
        /\ queue[p][k] = NoQueue => x.msgs = Append(<<>>, m)
        /\ queue[p][k] # NoQueue => x.msgs = Append(queue[p][k].msgs, m)
  BY <1>0, SendMemoryStep
<1>2. /\ PipeOf(p, k) = NoPipe
      /\ \A q \in Procs, j \in Paths : q # p \/ j # k => queue'[q][j] = queue[q][j]
      /\ KeepsPipes /\ TypeOK'
      /\ sent'[p][k] = Append(sent[p][k], m)
      /\ \A q \in Procs, j \in Paths : q # p \/ j # k => sent'[q][j] = sent[q][j]
  BY <1>0, SendMemoryStep DEF KeepsPipes
<1>3. /\ UNCHANGED <<alive, exited, pipe, pc, rcvd, written, read, writers, readers>>
      /\ p \in alive
  BY DEF reg_ipc_send_memory, Ready
<1>4. Quiet
  BY <1>2, <1>3 DEF Quiet
<1>5. /\ CallsOnPipes' /\ PipesOwned' /\ PipesNew' /\ UsersKnown' /\ PipesInOrder'
      /\ PrivateLinked' /\ Polled'
  <2>1. \A q \in Procs, j \in Paths : PipeOf(q, j) # NoPipe =>
           sent'[q][j] = sent[q][j] /\ rcvd'[q][j] = rcvd[q][j]
    BY <1>2, <1>3
  <2> QED
    BY <1>2, <1>3, <1>4, <2>1, QuietPreserves
<1>6. Unborn'
  BY <1>0, <1>2, <1>3 DEF Unborn
<1>7. MemoryFifo'
  <2> SUFFICES ASSUME NEW q \in Procs, NEW j \in Paths
               PROVE  /\ queue'[q][j] = NoQueue => sent'[q][j] = <<>> /\ rcvd'[q][j] = <<>>
                      /\ queue'[q][j] # NoQueue /\ PipeOf(q, j)' = NoPipe =>
                           sent'[q][j] = rcvd'[q][j] \o queue'[q][j].msgs
    BY DEF MemoryFifo
  <2>1. CASE q = p /\ j = k
    <3> DEFINE a == rcvd[p][k]  W == Msgs \cup Values
    <3>1. queue'[p][k] # NoQueue
      BY <1>1, QueueNone
    <3>2. a \in Seq(W) /\ m \in W
      BY <1>0, SeqMonotonic DEF TypeOK
    <3>3. CASE queue[p][k] = NoQueue
      <4>1. sent[p][k] = <<>> /\ a = <<>>
        BY <1>0, <3>3 DEF MemoryFifo
      <4>2. sent'[p][k] = Append(<<>>, m) /\ rcvd'[p][k] = <<>> /\ queue'[p][k].msgs = Append(<<>>, m)
        BY <1>1, <1>2, <1>3, <3>3, <4>1
      <4>3. <<>> \o Append(<<>>, m) = Append(<<>>, m)
        OBVIOUS
      <4> QED
        BY <2>1, <3>1, <4>2, <4>3
    <3>4. CASE queue[p][k] # NoQueue
      <4> DEFINE b == queue[p][k].msgs
      <4>1. b \in Seq(W)
        <5>1. b \in Seq(Msgs)
          BY <1>0, <3>4, QueueType DEF HasQueue
        <5> QED
          BY <5>1, SeqMonotonic
      <4>2. sent[p][k] = a \o b
        BY <1>0, <1>2, <3>4 DEF MemoryFifo
      <4>3. sent'[p][k] = Append(a \o b, m) /\ rcvd'[p][k] = a /\ queue'[p][k].msgs = Append(b, m)
        BY <1>1, <1>2, <1>3, <3>4, <4>2
      <4> HIDE DEF a, b, W
      <4>4. Append(a \o b, m) = a \o Append(b, m)
        <5>1. GrowsAtTheEnd(a, b, m)
          BY <3>2, <4>1, ConcatAppend
        <5> QED
          BY <5>1 DEF GrowsAtTheEnd
      <4> QED
        BY <2>1, <3>1, <4>3, <4>4
    <3> QED
      BY <3>3, <3>4
  <2>2. CASE q # p \/ j # k
    <3>1. /\ queue'[q][j] = queue[q][j] /\ sent'[q][j] = sent[q][j] /\ rcvd'[q][j] = rcvd[q][j]
          /\ PipeOf(q, j)' = PipeOf(q, j)
      BY <1>2, <1>3, <2>2 DEF KeepsPipes
    <3> QED
      BY <1>0, <3>1 DEF MemoryFifo
  <2> QED
    BY <2>1, <2>2
<1> QED
  BY <1>2, <1>5, <1>6, <1>7 DEF IInv

\* reg_ipc_recv from a queue in memory preserves the invariant.
LEMMA RecvMemoryPreserves ==
  ASSUME IInv, NEW p \in Procs, NEW k \in Paths, reg_ipc_recv_memory(p, k)
  PROVE  IInv'
<1>0. TypeOK /\ Unborn /\ MemoryFifo
  BY DEF IInv
<1> DEFINE b == queue[p][k].msgs  a == rcvd[p][k]
<1>1. /\ PipeOf(p, k) = NoPipe /\ queue[p][k] # NoQueue
      /\ b \in Seq(Msgs) /\ b # <<>>
      /\ queue'[p][k] # NoQueue /\ queue'[p][k].msgs = Tail(b)
      /\ \A q \in Procs, j \in Paths : q # p \/ j # k => queue'[q][j] = queue[q][j]
      /\ KeepsPipes /\ TypeOK'
      /\ rcvd'[p][k] = Append(a, Head(b))
      /\ \A q \in Procs, j \in Paths : q # p \/ j # k => rcvd'[q][j] = rcvd[q][j]
  BY <1>0, RecvMemoryStep DEF KeepsPipes
<1>2. /\ UNCHANGED <<alive, exited, pipe, pc, sent, written, read, writers, readers>>
      /\ p \in alive
  BY DEF reg_ipc_recv_memory, Ready
<1>3. Quiet
  BY <1>1, <1>2 DEF Quiet
<1>4. /\ CallsOnPipes' /\ PipesOwned' /\ PipesNew' /\ UsersKnown' /\ PipesInOrder'
      /\ PrivateLinked' /\ Polled'
  <2>1. \A q \in Procs, j \in Paths : PipeOf(q, j) # NoPipe =>
           sent'[q][j] = sent[q][j] /\ rcvd'[q][j] = rcvd[q][j]
    BY <1>1, <1>2
  <2> QED
    BY <1>1, <1>2, <1>3, <2>1, QuietPreserves
<1>5. Unborn'
  BY <1>0, <1>1, <1>2 DEF Unborn
<1>6. MemoryFifo'
  <2> SUFFICES ASSUME NEW q \in Procs, NEW j \in Paths
               PROVE  /\ queue'[q][j] = NoQueue => sent'[q][j] = <<>> /\ rcvd'[q][j] = <<>>
                      /\ queue'[q][j] # NoQueue /\ PipeOf(q, j)' = NoPipe =>
                           sent'[q][j] = rcvd'[q][j] \o queue'[q][j].msgs
    BY DEF MemoryFifo
  <2>1. CASE q = p /\ j = k
    <3> DEFINE V == Msgs \cup Values
    <3>1. a \in Seq(V) /\ b \in Seq(V)
      <4>1. a \in Seq(Values)
        BY <1>0 DEF TypeOK
      <4> QED
        BY <1>1, <4>1, SeqMonotonic
    <3>2. sent'[p][k] = a \o b
      BY <1>0, <1>1, <1>2 DEF MemoryFifo
    <3>3. b # <<>> /\ rcvd'[p][k] = Append(a, Head(b)) /\ queue'[p][k].msgs = Tail(b) /\ queue'[p][k] # NoQueue
      BY <1>1
    <3> HIDE DEF a, b, V
    <3>4. a \o b = Append(a, Head(b)) \o Tail(b)
      BY <3>1, <3>3, ConcatHead
    <3> QED
      BY <2>1, <3>2, <3>3, <3>4
  <2>2. CASE q # p \/ j # k
    <3>1. /\ queue'[q][j] = queue[q][j] /\ sent'[q][j] = sent[q][j] /\ rcvd'[q][j] = rcvd[q][j]
          /\ PipeOf(q, j)' = PipeOf(q, j)
      BY <1>1, <1>2, <2>2 DEF KeepsPipes
    <3> QED
      BY <1>0, <3>1 DEF MemoryFifo
  <2> QED
    BY <2>1, <2>2
<1> QED
  BY <1>1, <1>4, <1>5, <1>6 DEF IInv

\* Queues and histories untouched, a queue in memory holds what it held.
LEMMA MemoryStays ==
  ASSUME MemoryFifo, UNCHANGED <<queue, sent, rcvd>>
  PROVE  MemoryFifo'
BY DEF MemoryFifo, PipeOf

\* reg_ipc_send on a pipe, up to its first write, preserves the invariant.
LEMMA SendPipePreserves ==
  ASSUME IInv, NEW p \in Procs, NEW k \in Paths, NEW m \in Msgs, reg_ipc_send_pipe(p, k, m)
  PROVE  IInv'
<1>0. TypeOK /\ Unborn /\ MemoryFifo
  BY DEF IInv
<1>1. /\ pc[p] = Idle /\ p \in alive /\ PipeOf(p, k) # NoPipe
      /\ pc'[p] = SendCall(k, m, 1)
      /\ \A q \in Procs : q # p => pc'[q] = pc[q]
      /\ TypeOK'
  BY <1>0, SendPipeStep
<1>2. UNCHANGED <<alive, exited, queue, pipe, sent, rcvd, written, read, writers, readers>>
  BY DEF reg_ipc_send_pipe
<1>3. KeepsPipes
  BY <1>2 DEF KeepsPipes, PipeOf
<1>4. pc'[p].op = "send" /\ pc'[p].path = k
  <2>1. 1 \in 1..PARTS
    BY SizeAssumption
  <2> QED
    BY <1>1, <2>1, SendCallFacts
<1>5. Quiet
  <2>1. ~InHand(pc[p]) /\ ~InHand(pc'[p])
    BY <1>1, InHandFacts
  <2> QED
    BY <1>1, <1>2, <1>3, <2>1 DEF Quiet
<1>6. /\ CallsOnPipes' /\ PipesOwned' /\ PipesNew' /\ UsersKnown' /\ PipesInOrder'
      /\ PrivateLinked' /\ Polled'
  <2>1. \A q \in Procs, j \in Paths : PipeOf(q, j) # NoPipe =>
           sent'[q][j] = sent[q][j] /\ rcvd'[q][j] = rcvd[q][j]
    BY <1>2
  <2>2. \A q \in Procs : \/ pc'[q] = pc[q]
                         \/ pc'[q].op \notin {"send", "recv"}
                         \/ \E j \in Paths : pc'[q].path = j /\ PipeOf(q, j) # NoPipe
    BY <1>1, <1>4
  <2>3. \A q \in Procs : \/ pc'[q] = pc[q]
                         \/ pc'[q].op # "recv"
                         \/ \E j \in Paths : pc'[q].path = j /\ pipe[PipeOf(q, j)] # <<>>
    BY <1>1, <1>4
  <2>4. \A q \in Procs : q \in alive' => q \in alive
    BY <1>2
  <2> QED
    BY <1>1, <1>5, <2>1, <2>2, <2>3, <2>4, QuietPreserves
<1>7. Unborn'
  BY <1>0, <1>1, <1>2 DEF Unborn
<1>8. MemoryFifo'
  BY <1>0, <1>2, MemoryStays
<1> QED
  BY <1>1, <1>6, <1>7, <1>8 DEF IInv

\* reg_ipc_recv on a pipe, up to its first read, preserves the invariant.
LEMMA RecvPipePreserves ==
  ASSUME IInv, NEW p \in Procs, NEW k \in Paths, reg_ipc_recv_pipe(p, k)
  PROVE  IInv'
<1>0. TypeOK /\ Unborn /\ MemoryFifo
  BY DEF IInv
<1>1. /\ pc[p] = Idle /\ p \in alive /\ PipeOf(p, k) # NoPipe /\ pipe[PipeOf(p, k)] # <<>>
      /\ pc'[p] = RecvCall(k, <<>>)
      /\ \A q \in Procs : q # p => pc'[q] = pc[q]
      /\ TypeOK'
  BY <1>0, RecvPipeStep
<1>2. UNCHANGED <<alive, exited, queue, pipe, sent, rcvd, written, read, writers, readers>>
  BY DEF reg_ipc_recv_pipe
<1>3. KeepsPipes
  BY <1>2 DEF KeepsPipes, PipeOf
<1>4. pc'[p].path = k
  BY <1>1 DEF RecvCall
<1>5. Quiet
  <2>1. ~InHand(pc[p]) /\ ~InHand(pc'[p])
    BY <1>1 DEF InHand, Idle, RecvCall
  <2> QED
    BY <1>1, <1>2, <1>3, <2>1 DEF Quiet
<1>6. /\ CallsOnPipes' /\ PipesOwned' /\ PipesNew' /\ UsersKnown' /\ PipesInOrder'
      /\ PrivateLinked' /\ Polled'
  <2>1. \A q \in Procs, j \in Paths : PipeOf(q, j) # NoPipe =>
           sent'[q][j] = sent[q][j] /\ rcvd'[q][j] = rcvd[q][j]
    BY <1>2
  <2>2. \A q \in Procs : \/ pc'[q] = pc[q]
                         \/ pc'[q].op \notin {"send", "recv"}
                         \/ \E j \in Paths : pc'[q].path = j /\ PipeOf(q, j) # NoPipe
    BY <1>1, <1>4
  <2>3. \A q \in Procs : \/ pc'[q] = pc[q]
                         \/ pc'[q].op # "recv"
                         \/ \E j \in Paths : pc'[q].path = j /\ pipe[PipeOf(q, j)] # <<>>
    BY <1>1, <1>4
  <2>4. \A q \in Procs : q \in alive' => q \in alive
    BY <1>2
  <2> QED
    BY <1>1, <1>5, <2>1, <2>2, <2>3, <2>4, QuietPreserves
<1>7. Unborn'
  BY <1>0, <1>1, <1>2 DEF Unborn
<1>8. MemoryFifo'
  BY <1>0, <1>2, MemoryStays
<1> QED
  BY <1>1, <1>6, <1>7, <1>8 DEF IInv

\* A process that ends leaves its pipes and what it was doing as they are: it
\* stays a user of them for good.
LEMMA ExitPreserves ==
  ASSUME IInv, NEW p \in Procs, exits(p)
  PROVE  IInv'
<1>0. TypeOK /\ Unborn /\ MemoryFifo
  BY DEF IInv
<1>1. /\ alive' = alive \ {p} /\ exited' = exited \cup {p} /\ p \in alive
      /\ UNCHANGED <<queue, pipe, pc, sent, rcvd, written, read, writers, readers>>
  BY DEF exits
<1>2. TypeOK'
  BY <1>0, <1>1 DEF TypeOK
<1>3. KeepsPipes
  BY <1>1 DEF KeepsPipes, PipeOf
<1>4. Quiet
  BY <1>1, <1>3 DEF Quiet
<1>5. /\ CallsOnPipes' /\ PipesOwned' /\ PipesNew' /\ UsersKnown' /\ PipesInOrder'
      /\ PrivateLinked' /\ Polled'
  BY <1>1, <1>2, <1>4, QuietPreserves
<1>6. Unborn'
  BY <1>0, <1>1 DEF Unborn
<1>7. MemoryFifo'
  BY <1>0, <1>1, MemoryStays
<1> QED
  BY <1>2, <1>5, <1>6, <1>7 DEF IInv

\* A step that changes nothing preserves the invariant.
LEMMA StutterPreserves ==
  ASSUME IInv, UNCHANGED vars
  PROVE  IInv'
<1>0. TypeOK /\ Unborn /\ MemoryFifo
  BY DEF IInv
<1>1. UNCHANGED <<alive, exited, queue, pipe, pc, sent, rcvd, written, read, writers, readers>>
  BY DEF vars
<1>2. TypeOK' /\ Unborn' /\ MemoryFifo'
  <2>1. TypeOK'
    BY <1>0, <1>1 DEF TypeOK
  <2>2. Unborn'
    BY <1>0, <1>1 DEF Unborn
  <2> QED
    BY <1>0, <1>1, <2>1, <2>2, MemoryStays
<1>3. KeepsPipes
  BY <1>1 DEF KeepsPipes, PipeOf
<1>4. Quiet
  BY <1>1, <1>3 DEF Quiet
<1>5. /\ CallsOnPipes' /\ PipesOwned' /\ PipesNew' /\ UsersKnown' /\ PipesInOrder'
      /\ PrivateLinked' /\ Polled'
  BY <1>1, <1>2, <1>4, QuietPreserves
<1> QED
  BY <1>2, <1>5 DEF IInv

\* The child gets every queue and every pipe of its parent, so no pipe that the
\* parent has is anybody's own afterwards.
LEMMA ForkPreserves ==
  ASSUME IInv, NEW p \in Procs, NEW c \in Procs, nexs_rfork(p, c)
  PROVE  IInv'
<1>0. /\ TypeOK /\ Unborn /\ CallsOnPipes /\ PipesOwned /\ PipesNew /\ UsersKnown
      /\ PipesInOrder /\ MemoryFifo /\ PrivateLinked /\ Polled
  BY DEF IInv
<1>1. /\ p # c /\ p \in alive /\ c \notin alive \cup exited /\ alive' = alive \cup {c}
      /\ pc[p] = Idle /\ pc[c] = Idle /\ pc'[p] = ForkCall /\ pc'[c] = ForkCall
      /\ \A q \in Procs : q # p /\ q # c => pc'[q] = pc[q]
      /\ queue'[c] = queue[p] /\ sent'[c] = sent[p] /\ rcvd'[c] = rcvd[p]
      /\ \A q \in Procs : q # c =>
           queue'[q] = queue[q] /\ sent'[q] = sent[q] /\ rcvd'[q] = rcvd[q]
      /\ \A k \in Paths : PipeOf(c, k) = NoPipe /\ PipeOf(c, k)' = PipeOf(p, k)
      /\ \A q \in Procs, k \in Paths : q # c => PipeOf(q, k)' = PipeOf(q, k)
      /\ TypeOK'
  BY <1>0, ForkStep
<1>2. UNCHANGED <<exited, pipe, written, read, writers, readers>>
  BY DEF nexs_rfork
<1>3. \A f \in Pipes : KeepsPipe(f) /\ KeepsHands(f)
  <2> SUFFICES ASSUME NEW f \in Pipes
               PROVE  KeepsPipe(f) /\ KeepsHands(f)
    OBVIOUS
  <2>1. ASSUME NEW q \in Procs
        PROVE  \/ pc'[q] = pc[q] /\ \A k \in Paths : PipeOf(q, k)' = PipeOf(q, k)
               \/ ~InHand(pc[q]) /\ ~InHand(pc'[q])
    <3>1. ~InHand(Idle) /\ ~InHand(ForkCall)
      BY DEF InHand, Idle, ForkCall
    <3> QED
      BY <1>1, <3>1
  <2>2. KeepsHands(f)
    BY <1>0, <2>1, HandStays DEF KeepsHands
  <2> QED
    BY <1>2, <2>2 DEF KeepsPipe
<1>4. \A q \in Procs, k \in Paths :
        /\ PipeOf(q, k) # NoPipe => q # c
        /\ PipeOf(q, k)' = <<q, k>> => q # c /\ PipeOf(q, k) = <<q, k>>
  <2> SUFFICES ASSUME NEW q \in Procs, NEW k \in Paths
               PROVE  /\ PipeOf(q, k) # NoPipe => q # c
                      /\ PipeOf(q, k)' = <<q, k>> => q # c /\ PipeOf(q, k) = <<q, k>>
    OBVIOUS
  <2>1. PipeOf(q, k) # NoPipe => q # c
    BY <1>1
  <2>2. ASSUME PipeOf(c, k)' = <<c, k>> PROVE FALSE
    <3>1. PipeOf(p, k) = <<c, k>> /\ <<c, k>> # NoPipe
      BY <1>1, <2>2, PipeIsPipe
    <3>2. PICK o \in Procs : PipeOf(p, k) = <<o, k>> /\ PipeOf(o, k) = <<o, k>>
      BY <1>0, <3>1 DEF PipesOwned
    <3>3. o = c
      BY <3>1, <3>2
    <3> QED
      BY <1>1, <3>1, <3>2, <3>3
  <2> QED
    BY <1>1, <2>1, <2>2
<1>5. Unborn'
  BY <1>0, <1>1, <1>2 DEF Unborn
<1>6. CallsOnPipes'
  <2> SUFFICES ASSUME NEW q \in Procs, pc'[q].op \in {"send", "recv"}
               PROVE  PipeOf(q, pc[q].path)' # NoPipe
    BY DEF CallsOnPipes
  <2>1. q # p /\ q # c
    BY <1>1, ForkCallFacts
  <2>2. pc'[q] = pc[q]
    BY <1>1, <2>1
  <2>3. pc[q] \in Calls
    BY <1>0 DEF TypeOK
  <2>4. pc[q].path \in Paths
    BY <2>2, <2>3, CallFacts
  <2>5. PipeOf(q, pc[q].path) # NoPipe
    BY <1>0, <2>2 DEF CallsOnPipes
  <2>6. PICK j \in Paths : j = pc[q].path /\ j = pc'[q].path
    BY <2>2, <2>4
  <2>7. PipeOf(q, j)' # NoPipe
    BY <1>1, <2>1, <2>5, <2>6
  <2> QED
    BY <2>6, <2>7 DEF PipeOf
<1>7. PipesOwned'
  <2> SUFFICES ASSUME NEW q \in Procs, NEW k \in Paths, PipeOf(q, k)' # NoPipe
               PROVE  \E o \in Procs : PipeOf(q, k)' = <<o, k>> /\ PipeOf(o, k)' = <<o, k>>
    BY DEF PipesOwned
  <2>1. PICK r \in Procs : PipeOf(r, k) = PipeOf(q, k)'
    BY <1>1
  <2>2. PICK o \in Procs : PipeOf(r, k) = <<o, k>> /\ PipeOf(o, k) = <<o, k>>
    BY <1>0, <2>1 DEF PipesOwned
  <2>3. PipeOf(o, k)' = <<o, k>>
    BY <1>1, <2>2, PipeIsPipe
  <2> QED
    BY <2>1, <2>2, <2>3
<1>8. PipesNew'
  <2> SUFFICES ASSUME NEW o \in Procs, NEW k \in Paths, NotMade(o, k)'
               PROVE  Unused(<<o, k>>)'
    BY DEF PipesNew
  <2>1. PipeOf(o, k)' # <<o, k>>
    BY DEF NotMade
  <2>2. PipeOf(o, k) # <<o, k>>
    BY <1>1, <2>1, PipeIsPipe
  <2> QED
    BY <1>0, <1>2, <2>2 DEF PipesNew, NotMade, Unused
<1>9. UsersKnown'
  <2>1. ASSUME NEW o \in Procs, NEW k \in Paths, NEW q \in Procs,
               q \in writers'[<<o, k>>] \/ q \in readers'[<<o, k>>]
        PROVE  PipeOf(q, k)' = <<o, k>>
    <3>1. PipeOf(q, k) = <<o, k>>
      BY <1>0, <1>2, <2>1 DEF UsersKnown
    <3> QED
      BY <1>1, <3>1, PipeIsPipe
  <2>2. ASSUME NEW f \in Pipes, NEW q \in Procs
        PROVE  (MidSend(q, f)' => q \in writers'[f]) /\ (MidRecv(q, f)' => q \in readers'[f])
    BY <1>0, <1>2, <1>3 DEF UsersKnown, KeepsHands
  <2> QED
    BY <2>1, <2>2 DEF UsersKnown
<1>10. PipesInOrder'
  BY <1>0, <1>3, InOrderFrame DEF PipesInOrder
<1>11. MemoryFifo'
  <2> SUFFICES ASSUME NEW q \in Procs, NEW j \in Paths
               PROVE  /\ queue'[q][j] = NoQueue => sent'[q][j] = <<>> /\ rcvd'[q][j] = <<>>
                      /\ queue'[q][j] # NoQueue /\ PipeOf(q, j)' = NoPipe =>
                           sent'[q][j] = rcvd'[q][j] \o queue'[q][j].msgs
    BY DEF MemoryFifo
  <2>1. PICK r \in Procs : /\ queue'[q][j] = queue[r][j] /\ sent'[q][j] = sent[r][j]
                           /\ rcvd'[q][j] = rcvd[r][j] /\ PipeOf(q, j)' = PipeOf(r, j)
    BY <1>1
  <2> QED
    BY <1>0, <2>1 DEF MemoryFifo
<1>12. \A q \in Procs, k \in Paths : Alone(q, k)' => q # c /\ Alone(q, k)
  <2> SUFFICES ASSUME NEW q \in Procs, NEW k \in Paths, Alone(q, k)'
               PROVE  q # c /\ Alone(q, k)
    OBVIOUS
  <2>1. /\ PipeOf(q, k)' = <<q, k>>
        /\ \A x \in Procs : PipeOf(x, k)' = <<q, k>> => x = q
    BY DEF Alone
  <2>2. q # c /\ PipeOf(q, k) = <<q, k>>
    BY <1>4, <2>1
  <2>3. ASSUME NEW x \in Procs, PipeOf(x, k) = <<q, k>> PROVE x = q
    <3>1. PipeOf(x, k)' = <<q, k>>
      BY <1>1, <2>3, PipeIsPipe
    <3> QED
      BY <2>1, <3>1
  <2> QED
    BY <2>2, <2>3 DEF Alone
<1>13. PrivateLinked'
  <2> SUFFICES ASSUME NEW q \in Procs, NEW k \in Paths, Alone(q, k)'
               PROVE  Linked(Begun(q, k)', rcvd'[q][k], written'[<<q, k>>], read'[<<q, k>>])
    BY DEF PrivateLinked
  <2>1. /\ q # c
        /\ Linked(Begun(q, k), rcvd[q][k], written[<<q, k>>], read[<<q, k>>])
    BY <1>0, <1>12 DEF PrivateLinked
  <2>2. sent'[q][k] = sent[q][k] /\ rcvd'[q][k] = rcvd[q][k]
    BY <1>1, <2>1
  <2>3. KeepsHands(<<q, k>>) /\ KeepsPipe(<<q, k>>)
    BY <1>3, PipeIsPipe
  <2> QED
    BY <2>1, <2>2, <2>3, LinkedFrame
<1>14. Polled'
  <2> SUFFICES ASSUME NEW q \in Procs, NEW k \in Paths,
                      q \in alive', RecvsOn(q, <<q, k>>)', Alone(q, k)'
               PROVE  Len(pc'[q].got) + Len(pipe'[<<q, k>>]) > 0
    BY DEF Polled
  <2>1. q # c /\ Alone(q, k)
    BY <1>12
  <2>2. pc'[q].op = "recv"
    BY DEF RecvsOn
  <2>3. pc'[q] = pc[q] /\ q \in alive
    BY <1>1, <2>1, <2>2, ForkCallFacts
  <2>4. pc[q] \in Calls
    BY <1>0 DEF TypeOK
  <2>5. PICK j \in Paths : j = pc[q].path
    BY <2>2, <2>3, <2>4, CallFacts
  <2>6. PipeOf(q, j)' = <<q, k>>
    BY <2>3, <2>5 DEF RecvsOn, PipeOf
  <2>7. PipeOf(q, j) = <<q, k>>
    BY <1>1, <2>1, <2>6
  <2>8. RecvsOn(q, <<q, k>>)
    BY <2>2, <2>3, <2>5, <2>7 DEF RecvsOn
  <2>9. Len(pc[q].got) + Len(pipe[<<q, k>>]) > 0
    BY <1>0, <2>1, <2>3, <2>8 DEF Polled
  <2>10. pipe'[<<q, k>>] = pipe[<<q, k>>]
    BY <1>2
  <2> QED
    BY <2>3, <2>9, <2>10, Zenon
<1> QED
  BY <1>1, <1>5, <1>6, <1>7, <1>8, <1>9, <1>10, <1>11, <1>13, <1>14 DEF IInv

\* reg_ipc_enable_pipes: the pipes it makes start with what was in the queues,
\* the others and the calls of the other processes are left alone.
LEMMA UpgradePreserves ==
  ASSUME IInv, TypeOK', NEW p \in Procs, NEW S, Upgrades(p, S)
  PROVE  IInv'
<1>0. /\ TypeOK /\ Unborn /\ CallsOnPipes /\ PipesOwned /\ PipesNew /\ UsersKnown
      /\ PipesInOrder /\ MemoryFifo /\ PrivateLinked /\ Polled
  BY DEF IInv
<1>1. /\ p \in alive /\ pc[p].op = "fork" /\ pc'[p] = Idle
      /\ \A q \in Procs : q # p => pc'[q] = pc[q]
      /\ S \subseteq Paths
      /\ \A k \in S : /\ queue[p][k] # NoQueue /\ PipeOf(p, k) = NoPipe /\ PipeOf(p, k)' = <<p, k>>
                      /\ queue[p][k].msgs \in Seq(Msgs)
                      /\ pipe'[<<p, k>>] = Drained(queue[p][k].msgs)
                      /\ written'[<<p, k>>] = queue[p][k].msgs
                      /\ queue'[p][k] # NoQueue
  BY DEF Upgrades
<1>2. \A q \in Procs, k \in Paths : q # p \/ k \notin S =>
        /\ PipeOf(q, k)' = PipeOf(q, k) /\ queue'[q][k] = queue[q][k]
        /\ pipe'[<<q, k>>] = pipe[<<q, k>>] /\ written'[<<q, k>>] = written[<<q, k>>]
  BY DEF Upgrades
<1>3. UNCHANGED <<alive, exited, sent, rcvd, read, writers, readers>>
  BY DEF Upgrades
<1>4. \A f \in Pipes : KeepsHands(f)
  <2> SUFFICES ASSUME NEW f \in Pipes
               PROVE  KeepsHands(f)
    OBVIOUS
  <2>1. ASSUME NEW q \in Procs
        PROVE  \/ pc'[q] = pc[q] /\ \A k \in Paths : PipeOf(q, k)' = PipeOf(q, k)
               \/ ~InHand(pc[q]) /\ ~InHand(pc'[q])
    <3>1. ~InHand(pc[p]) /\ ~InHand(pc'[p])
      BY <1>1 DEF InHand, Idle
    <3> QED
      BY <1>1, <1>2, <3>1
  <2> QED
    BY <1>0, <2>1, HandStays DEF KeepsHands
<1>5. ASSUME NEW q \in Procs, NEW k \in Paths, q # p \/ k \notin S
      PROVE  KeepsPipe(<<q, k>>)
  BY <1>2, <1>3, <1>5 DEF KeepsPipe
<1>6. ASSUME NEW q \in Procs, NEW k \in Paths, PipeOf(q, k) # NoPipe
      PROVE  (q # p \/ k \notin S) /\ PipeOf(q, k)' = PipeOf(q, k)
  BY <1>1, <1>2, <1>6
<1>7. ASSUME NEW k \in S
      PROVE  Unused(<<p, k>>) /\ k \in Paths
  <2>1. k \in Paths /\ PipeOf(p, k) # <<p, k>>
    BY <1>1, PipeIsPipe
  <2> QED
    BY <1>0, <2>1 DEF PipesNew, NotMade
<1>8. Unborn'
  <2> SUFFICES ASSUME NEW c \in Procs, c \notin alive' \cup exited'
               PROVE  pc'[c] = Idle /\ \A k \in Paths : queue'[c][k] = NoQueue
    BY DEF Unborn
  <2>1. c \notin alive \cup exited /\ c # p
    BY <1>1, <1>3
  <2>2. pc[c] = Idle /\ \A k \in Paths : queue[c][k] = NoQueue
    BY <1>0, <2>1 DEF Unborn
  <2> QED
    BY <1>1, <1>2, <2>1, <2>2
<1>9. CallsOnPipes'
  <2> SUFFICES ASSUME NEW q \in Procs, pc'[q].op \in {"send", "recv"}
               PROVE  PipeOf(q, pc[q].path)' # NoPipe
    BY DEF CallsOnPipes
  <2>1. pc'[q] = pc[q]
    BY <1>1, IdleFacts
  <2>2. pc[q] \in Calls
    BY <1>0 DEF TypeOK
  <2>3. PICK j \in Paths : j = pc[q].path /\ j = pc'[q].path
    BY <2>1, <2>2, CallFacts
  <2>4. PipeOf(q, j) # NoPipe
    BY <1>0, <2>1, <2>3 DEF CallsOnPipes
  <2>5. PipeOf(q, j)' # NoPipe
    BY <1>6, <2>4
  <2> QED
    BY <2>3, <2>5 DEF PipeOf
<1>10. PipesOwned'
  <2> SUFFICES ASSUME NEW q \in Procs, NEW k \in Paths, PipeOf(q, k)' # NoPipe
               PROVE  \E o \in Procs : PipeOf(q, k)' = <<o, k>> /\ PipeOf(o, k)' = <<o, k>>
    BY DEF PipesOwned
  <2>1. CASE q = p /\ k \in S
    BY <1>1, <2>1
  <2>2. CASE q # p \/ k \notin S
    <3>1. PipeOf(q, k)' = PipeOf(q, k)
      BY <1>2, <2>2
    <3>2. PICK o \in Procs : PipeOf(q, k) = <<o, k>> /\ PipeOf(o, k) = <<o, k>>
      BY <1>0, <3>1 DEF PipesOwned
    <3>3. PipeOf(o, k)' = <<o, k>>
      BY <1>6, <3>2, PipeIsPipe
    <3> QED
      BY <3>1, <3>2, <3>3
  <2> QED
    BY <2>1, <2>2
<1>11. PipesNew'
  <2> SUFFICES ASSUME NEW o \in Procs, NEW k \in Paths, NotMade(o, k)'
               PROVE  Unused(<<o, k>>)'
    BY DEF PipesNew
  <2>1. PipeOf(o, k)' # <<o, k>>
    BY DEF NotMade
  <2>2. o # p \/ k \notin S
    BY <1>1, <2>1
  <2>3. PipeOf(o, k) # <<o, k>>
    BY <1>2, <2>1, <2>2
  <2>4. Unused(<<o, k>>)
    BY <1>0, <2>3 DEF PipesNew, NotMade
  <2>5. KeepsPipe(<<o, k>>)
    BY <1>5, <2>2
  <2> QED
    BY <2>4, <2>5 DEF Unused, KeepsPipe
<1>12. UsersKnown'
  <2>1. ASSUME NEW o \in Procs, NEW k \in Paths, NEW q \in Procs,
               q \in writers'[<<o, k>>] \/ q \in readers'[<<o, k>>]
        PROVE  PipeOf(q, k)' = <<o, k>>
    <3>1. PipeOf(q, k) = <<o, k>>
      BY <1>0, <1>3, <2>1 DEF UsersKnown
    <3> QED
      BY <1>6, <3>1, PipeIsPipe
  <2>2. ASSUME NEW f \in Pipes, NEW q \in Procs
        PROVE  (MidSend(q, f)' => q \in writers'[f]) /\ (MidRecv(q, f)' => q \in readers'[f])
    BY <1>0, <1>3, <1>4 DEF UsersKnown, KeepsHands
  <2> QED
    BY <2>1, <2>2 DEF UsersKnown
<1>13. ASSUME NEW k \in S, NEW q \in Procs
       PROVE  ~MidSend(q, <<p, k>>)' /\ ~MidRecv(q, <<p, k>>)'
  <2>1. <<p, k>> \in Pipes /\ writers[<<p, k>>] = {} /\ readers[<<p, k>>] = {}
    BY <1>7, PipeIsPipe DEF Unused
  <2>2. ~MidSend(q, <<p, k>>) /\ ~MidRecv(q, <<p, k>>)
    BY <1>0, <2>1 DEF UsersKnown
  <2> QED
    BY <1>4, <2>1, <2>2 DEF KeepsHands
<1>14. PipesInOrder'
  <2> SUFFICES ASSUME NEW f \in Pipes
               PROVE  InOrder(f)'
    BY DEF PipesInOrder
  <2>1. PICK o \in Procs, k \in Paths : f = <<o, k>>
    BY DEF Pipes
  <2>2. CASE o # p \/ k \notin S
    <3>1. KeepsPipe(f) /\ KeepsHands(f) /\ InOrder(f)
      BY <1>0, <1>4, <1>5, <2>1, <2>2 DEF PipesInOrder
    <3> QED
      BY <3>1, InOrderFrame
  <2>3. CASE o = p /\ k \in S
    <3>1. PICK s \in Seq(Msgs) : s = queue[p][k].msgs
      BY <1>1, <2>3
    <3>2. written'[f] = s /\ pipe'[f] = Drained(s) /\ read'[f] = <<>>
      BY <1>1, <1>3, <1>7, <2>1, <2>3, <3>1 DEF Unused
    <3>3. Stream(written'[f], read'[f], pipe'[f], 0, 0)
      BY <3>2, StreamDrained
    <3>4. \A q \in Procs : ~MidSend(q, f)' /\ ~MidRecv(q, f)'
      BY <1>13, <2>1, <2>3
    <3>5. Writing(f, 0)' /\ Reading(f, 0)'
      BY <3>4 DEF Writing, Reading
    <3>6. 0 \in 0..(PARTS - 1)
      BY SizeAssumption
    <3> QED
      BY <3>3, <3>5, <3>6 DEF InOrder
  <2> QED
    BY <2>2, <2>3
<1>15. MemoryFifo'
  <2> SUFFICES ASSUME NEW q \in Procs, NEW j \in Paths
               PROVE  /\ queue'[q][j] = NoQueue => sent'[q][j] = <<>> /\ rcvd'[q][j] = <<>>
                      /\ queue'[q][j] # NoQueue /\ PipeOf(q, j)' = NoPipe =>
                           sent'[q][j] = rcvd'[q][j] \o queue'[q][j].msgs
    BY DEF MemoryFifo
  <2>1. CASE q = p /\ j \in S
    BY <1>1, <2>1, PipeIsPipe
  <2>2. CASE q # p \/ j \notin S
    <3>1. /\ queue'[q][j] = queue[q][j] /\ sent'[q][j] = sent[q][j] /\ rcvd'[q][j] = rcvd[q][j]
          /\ PipeOf(q, j)' = PipeOf(q, j)
      BY <1>2, <1>3, <2>2
    <3> QED
      BY <1>0, <3>1 DEF MemoryFifo
  <2> QED
    BY <2>1, <2>2
<1>16. ASSUME NEW q \in Procs, NEW k \in Paths, q # p \/ k \notin S, Alone(q, k)'
       PROVE  Alone(q, k)
  <2>1. /\ PipeOf(q, k)' = <<q, k>>
        /\ \A x \in Procs : PipeOf(x, k)' = <<q, k>> => x = q
    BY <1>16 DEF Alone
  <2>2. PipeOf(q, k) = <<q, k>>
    BY <1>2, <1>16, <2>1
  <2>3. ASSUME NEW x \in Procs, PipeOf(x, k) = <<q, k>> PROVE x = q
    <3>1. PipeOf(x, k)' = <<q, k>>
      BY <1>6, <2>3, PipeIsPipe
    <3> QED
      BY <2>1, <3>1
  <2> QED
    BY <2>2, <2>3 DEF Alone
<1>17. PrivateLinked'
  <2> SUFFICES ASSUME NEW q \in Procs, NEW k \in Paths, Alone(q, k)'
               PROVE  Linked(Begun(q, k)', rcvd'[q][k], written'[<<q, k>>], read'[<<q, k>>])
    BY DEF PrivateLinked
  <2>1. CASE q = p /\ k \in S
    <3>1. PICK s \in Seq(Msgs), r \in Seq(Values), w \in Seq(Msgs) :
            s = sent[p][k] /\ r = rcvd[p][k] /\ w = queue[p][k].msgs
      BY <1>0, <1>1, <2>1 DEF TypeOK
    <3>2. s = r \o w
      BY <1>0, <1>1, <2>1, <3>1 DEF MemoryFifo
    <3>3. Begun(p, k)' = s
      BY <1>3, <1>13, <2>1, <3>1 DEF Begun
    <3>4. rcvd'[p][k] = r /\ written'[<<p, k>>] = w /\ read'[<<p, k>>] = <<>>
      BY <1>1, <1>3, <1>7, <2>1, <3>1 DEF Unused
    <3>5. Linked(s, r, w, <<>>)
      BY <3>2, LinkedMade
    <3> QED
      BY <2>1, <3>3, <3>4, <3>5
  <2>2. CASE q # p \/ k \notin S
    <3>1. Linked(Begun(q, k), rcvd[q][k], written[<<q, k>>], read[<<q, k>>])
      BY <1>0, <1>16, <2>2 DEF PrivateLinked
    <3>2. sent'[q][k] = sent[q][k] /\ rcvd'[q][k] = rcvd[q][k]
      BY <1>3
    <3>3. KeepsHands(<<q, k>>) /\ KeepsPipe(<<q, k>>)
      BY <1>4, <1>5, <2>2, PipeIsPipe
    <3> QED
      BY <3>1, <3>2, <3>3, LinkedFrame
  <2> QED
    BY <2>1, <2>2
<1>18. Polled'
  <2> SUFFICES ASSUME NEW q \in Procs, NEW k \in Paths,
                      q \in alive', RecvsOn(q, <<q, k>>)', Alone(q, k)'
               PROVE  Len(pc'[q].got) + Len(pipe'[<<q, k>>]) > 0
    BY DEF Polled
  <2>1. pc'[q].op = "recv"
    BY DEF RecvsOn
  <2>2. q # p /\ pc'[q] = pc[q] /\ q \in alive
    BY <1>1, <1>3, <2>1, IdleFacts
  <2>3. Alone(q, k)
    BY <1>16, <2>2
  <2>4. pc[q] \in Calls
    BY <1>0 DEF TypeOK
  <2>5. PICK j \in Paths : j = pc[q].path
    BY <2>1, <2>2, <2>4, CallFacts
  <2>6. PipeOf(q, j)' = <<q, k>>
    BY <2>2, <2>5 DEF RecvsOn, PipeOf
  <2>7. PipeOf(q, j) = <<q, k>>
    BY <1>2, <2>2, <2>6
  <2>8. RecvsOn(q, <<q, k>>)
    BY <2>1, <2>2, <2>5, <2>7 DEF RecvsOn
  <2>9. Len(pc[q].got) + Len(pipe[<<q, k>>]) > 0
    BY <1>0, <2>2, <2>3, <2>8 DEF Polled
  <2>10. pipe'[<<q, k>>] = pipe[<<q, k>>]
    BY <1>2, <2>2
  <2> QED
    BY <2>2, <2>9, <2>10, Zenon
<1> QED
  BY <1>8, <1>9, <1>10, <1>11, <1>12, <1>14, <1>15, <1>17, <1>18 DEF IInv

----------------------------------------------------------------------------
\* The invariant holds

\* Before the first fork there is no queue and no pipe.
LEMMA InitIInv == Init => IInv
<1> SUFFICES ASSUME Init
             PROVE  IInv
  OBVIOUS
<1>1. /\ alive = {FirstProc} /\ exited = {}
      /\ queue = [p \in Procs |-> [k \in Paths |-> NoQueue]]
      /\ pipe = [f \in Pipes |-> <<>>]
      /\ pc = [p \in Procs |-> Idle]
      /\ sent = [p \in Procs |-> [k \in Paths |-> <<>>]]
      /\ rcvd = [p \in Procs |-> [k \in Paths |-> <<>>]]
      /\ written = [f \in Pipes |-> <<>>] /\ read = [f \in Pipes |-> <<>>]
      /\ writers = [f \in Pipes |-> {}] /\ readers = [f \in Pipes |-> {}]
  BY DEF Init
<1>2. \A q \in Procs, k \in Paths : PipeOf(q, k) = NoPipe
  BY <1>1 DEF PipeOf
<1>3. \A q \in Procs : pc[q] = Idle /\ pc[q].op = "idle"
  BY <1>1, IdleFacts
<1>4. TypeOK
  <2>1. pc \in [Procs -> Calls]
    BY <1>1, IdleFacts
  <2>2. \A f \in Pipes : IsFiniteSet(writers[f]) /\ IsFiniteSet(readers[f])
    BY <1>1, FS_EmptySet
  <2>3. /\ sent \in [Procs -> [Paths -> Seq(Msgs)]] /\ rcvd \in [Procs -> [Paths -> Seq(Values)]]
        /\ written \in [Pipes -> Seq(Msgs)] /\ read \in [Pipes -> Seq(Values)]
        /\ pipe \in [Pipes -> Seq(PieceSet)]
    BY <1>1
  <2>4. /\ alive \subseteq Procs /\ exited \subseteq Procs
        /\ queue \in [Procs -> [Paths -> Queues \cup {NoQueue}]]
        /\ writers \in [Pipes -> SUBSET Procs] /\ readers \in [Pipes -> SUBSET Procs]
    BY <1>1, ProcAssumption
  <2> QED
    BY <2>1, <2>2, <2>3, <2>4 DEF TypeOK
<1>5. Unborn /\ CallsOnPipes /\ PipesOwned
  BY <1>1, <1>2, <1>3 DEF Unborn, CallsOnPipes, PipesOwned
<1>6. \A f \in Pipes : Unused(f)
  BY <1>1 DEF Unused
<1>7. PipesNew
  BY <1>6, PipeIsPipe DEF PipesNew
<1>8. \A q \in Procs, f \in Pipes : ~MidSend(q, f) /\ ~MidRecv(q, f) /\ ~RecvsOn(q, f)
  BY <1>3 DEF MidSend, MidRecv, SendsOn, RecvsOn
<1>9. UsersKnown
  BY <1>6, <1>8, PipeIsPipe DEF UsersKnown, Unused
<1>10. PipesInOrder
  <2> SUFFICES ASSUME NEW f \in Pipes
               PROVE  InOrder(f)
    BY DEF PipesInOrder
  <2>1. Drained(<<>>) = <<>>
    <3>1. <<>> \in Seq(Msgs) /\ Len(<<>>) = 0
      OBVIOUS
    <3>2. Drained(<<>>) \in Seq(PieceSet) /\ Len(Drained(<<>>)) = Pieces(0)
      BY <3>1, DrainedFacts
    <3>3. Pieces(0) = 0
      BY PiecesFacts
    <3> QED
      BY <3>2, <3>3, EmptySeq
  <2>2. Stream(written[f], read[f], pipe[f], 0, 0)
    <3>1. Stream(<<>>, <<>>, Drained(<<>>), 0, 0)
      <4>1. \A s \in Seq(Msgs) : Stream(s, <<>>, Drained(s), 0, 0)
        BY StreamDrained
      <4>2. <<>> \in Seq(Msgs)
        OBVIOUS
      <4> QED
        BY <4>1, <4>2, Zenon
    <3>2. written[f] = <<>> /\ read[f] = <<>> /\ pipe[f] = <<>>
      BY <1>6 DEF Unused
    <3> QED
      BY <2>1, <3>1, <3>2
  <2>3. Writing(f, 0) /\ Reading(f, 0)
    BY <1>8 DEF Writing, Reading
  <2>4. 0 \in 0..(PARTS - 1)
    BY SizeAssumption
  <2> QED
    BY <2>2, <2>3, <2>4 DEF InOrder
<1>11. MemoryFifo
  BY <1>1 DEF MemoryFifo
<1>12. PrivateLinked /\ Polled
  BY <1>2, PipeIsPipe DEF PrivateLinked, Polled, Alone
<1> QED
  BY <1>4, <1>5, <1>7, <1>9, <1>10, <1>11, <1>12 DEF IInv

\* Every step of every process preserves the invariant.
LEMMA NextIInv == IInv /\ [Next]_vars => IInv'
<1> SUFFICES ASSUME IInv, [Next]_vars
             PROVE  IInv'
  OBVIOUS
<1>0. TypeOK /\ CallsOnPipes /\ PipesOwned
  BY DEF IInv
<1>1. ASSUME NEW p \in Procs, NEW k \in Paths, reg_ipc_init_queue(p, k)
      PROVE  IInv'
  BY <1>1, InitQueuePreserves
<1>2. ASSUME NEW p \in Procs, NEW k \in Paths, reg_ipc_recv_memory(p, k)
      PROVE  IInv'
  BY <1>2, RecvMemoryPreserves
<1>3. ASSUME NEW p \in Procs, NEW k \in Paths, reg_ipc_recv_pipe(p, k)
      PROVE  IInv'
  BY <1>3, RecvPipePreserves
<1>4. ASSUME NEW p \in Procs, NEW k \in Paths, NEW m \in Msgs, reg_ipc_send_memory(p, k, m)
      PROVE  IInv'
  BY <1>4, SendMemoryPreserves
<1>5. ASSUME NEW p \in Procs, NEW k \in Paths, NEW m \in Msgs, reg_ipc_send_pipe(p, k, m)
      PROVE  IInv'
  BY <1>5, SendPipePreserves
<1>6. ASSUME NEW p \in Procs, pipe_write_all(p)
      PROVE  IInv'
  <2>1. /\ TypeOK'
        /\ \E o \in Procs, k \in Paths, m \in Msgs, n \in 1..PARTS : Writes(p, o, k, m, n)
    BY <1>0, <1>6, WriteStep
  <2> QED
    BY <2>1, WritePreserves
<1>7. ASSUME NEW p \in Procs, pipe_read_all(p)
      PROVE  IInv'
  <2>1. /\ TypeOK'
        /\ \E o \in Procs, k \in Paths, g \in Seq(PieceSet) : Reads(p, o, k, g)
    BY <1>0, <1>7, ReadStep
  <2> QED
    BY <2>1, ReadPreserves
<1>8. ASSUME NEW p \in Procs, NEW c \in Procs, nexs_rfork(p, c)
      PROVE  IInv'
  BY <1>8, ForkPreserves
<1>9. ASSUME NEW p \in Procs, reg_ipc_enable_pipes(p)
      PROVE  IInv'
  <2>1. TypeOK' /\ \E S : Upgrades(p, S)
    BY <1>0, <1>9, UpgradeStep
  <2> QED
    BY <2>1, UpgradePreserves
<1>10. ASSUME NEW p \in Procs, exits(p)
       PROVE  IInv'
  BY <1>10, ExitPreserves
<1>11. CASE UNCHANGED vars
  BY <1>11, StutterPreserves
<1> QED
  BY <1>1, <1>2, <1>3, <1>4, <1>5, <1>6, <1>7, <1>8, <1>9, <1>10, <1>11 DEF Next

\* The inductive invariant holds in every reachable state: the types, who has which
\* pipe, and what is in the queues and the pipes against what was sent and received.
THEOREM Inductive == Spec => []IInv
BY InitIInv, NextIInv, PTL DEF Spec

----------------------------------------------------------------------------
\* One writer and one reader

\* A set of at most one element.
LEMMA AtMostOne ==
  ASSUME NEW S, IsFiniteSet(S), Cardinality(S) <= 1
  PROVE  Single(S)
<1> SUFFICES ASSUME NEW a \in S, NEW b \in S, a # b
             PROVE  FALSE
  BY DEF Single
<1>1. IsFiniteSet(S \ {a}) /\ Cardinality(S \ {a}) = Cardinality(S) - 1
  BY FS_RemoveElement
<1>2. Cardinality(S) \in Nat /\ Cardinality(S \ {a}) \in Nat
  BY <1>1, FS_CardinalityType
<1>3. Cardinality(S \ {a}) = 0
  BY <1>1, <1>2
<1>4. S \ {a} = {}
  BY <1>1, <1>3, FS_EmptySet
<1> QED
  BY <1>4

\* A sequence that agrees with another one as far as it goes is its start.
LEMMA StartIs ==
  ASSUME NEW V, NEW s \in Seq(V), NEW t \in Seq(V), Len(s) <= Len(t),
         \A i \in 1..Len(s) : s[i] = t[i]
  PROVE  SubSeq(t, 1, Len(s)) = s
<1> DEFINE u == SubSeq(t, 1, Len(s))
<1>1. Len(s) \in Nat /\ Len(t) \in Nat /\ 1 \in Int
  OBVIOUS
<1>2. \A i \in 1..Len(s) : t[i] \in V
  BY <1>1, ElementOfSeq
<1>3. /\ u \in Seq(V) /\ Len(u) = IF 1 <= Len(s) THEN Len(s) - 1 + 1 ELSE 0
      /\ \A i \in 1..(Len(s) - 1 + 1) : u[i] = t[1 + i - 1]
  BY <1>1, <1>2, SubSeqProperties
<1> HIDE DEF u
<1>4. Len(u) = Len(s)
  BY <1>1, <1>3
<1>5. ASSUME NEW i \in 1..Len(s) PROVE u[i] = s[i]
  <2>1. i \in 1..(Len(s) - 1 + 1) /\ 1 + i - 1 = i
    BY <1>1
  <2> QED
    BY <1>3, <2>1
<1>6. u = s
  BY <1>3, <1>4, <1>5, SeqEqual
<1> QED
  BY <1>6 DEF u

\* With one writer and one reader the invariant gives the order of the pipe.
LEMMA OrderedInvariant == IInv => OneWriterOneReader
<1> SUFFICES ASSUME IInv, NEW f \in Pipes,
                    Cardinality(writers[f]) <= 1, Cardinality(readers[f]) <= 1
             PROVE  IsPrefix(read[f], written[f])
  BY DEF OneWriterOneReader
<1>1. IsFiniteSet(writers[f]) /\ IsFiniteSet(readers[f])
  BY DEF IInv, TypeOK
<1>2. Single(writers[f]) /\ Single(readers[f])
  BY <1>1, AtMostOne
<1>3. PICK taken, owed \in 0..(PARTS - 1) : Stream(written[f], read[f], pipe[f], taken, owed)
  BY <1>2 DEF IInv, PipesInOrder, InOrder
<1> DEFINE w == written[f]  rd == read[f]
<1>4. /\ Len(rd) <= Len(w)
      /\ \A i \in 1..Len(rd) : rd[i] = w[i]
  BY <1>3 DEF Stream
<1>5. w \in Seq(Values) /\ rd \in Seq(Values)
  <2>1. w \in Seq(Msgs) /\ rd \in Seq(Values)
    BY DEF IInv, TypeOK
  <2> QED
    BY <2>1, SeqMonotonic DEF Values
<1> HIDE DEF w, rd
<1>6. SubSeq(w, 1, Len(rd)) = rd
  BY <1>4, <1>5, StartIs
<1>7. SubSeq(rd, 1, Len(rd)) = rd
  BY <1>5, SubSeqFull
<1>8. IsPrefix(rd, w)
  BY <1>4, <1>6, <1>7 DEF IsPrefix
<1> QED
  BY <1>8 DEF w, rd

\* Of a pipe that only one process writes and one reads, what was read is the
\* beginning of what was written, whatever the sizes and whoever exits when.
THEOREM OrderedOnPipes == Spec => []OneWriterOneReader
BY Inductive, OrderedInvariant, PTL

----------------------------------------------------------------------------
\* A queue that nobody shares

\* The two ends of a concatenation.
LEMMA ConcatParts ==
  ASSUME NEW V, NEW a \in Seq(V), NEW b \in Seq(V)
  PROVE  /\ Len(a) <= Len(a \o b)
         /\ SubSeq(a \o b, 1, Len(a)) = a
         /\ SubSeq(a \o b, Len(a) + 1, Len(a \o b)) = b
<1> DEFINE s == a \o b
<1>1. /\ Len(a) \in Nat /\ Len(b) \in Nat /\ s \in Seq(V) /\ Len(s) = Len(a) + Len(b)
      /\ \A i \in 1..(Len(a) + Len(b)) : s[i] = IF i <= Len(a) THEN a[i] ELSE b[i - Len(a)]
  BY ConcatProperties
<1> HIDE DEF s
<1>2. Len(a) <= Len(s)
  BY <1>1
<1>3. SubSeq(s, 1, Len(a)) = a
  <2>1. \A i \in 1..Len(a) : a[i] = s[i]
    BY <1>1
  <2> QED
    BY <1>1, <1>2, <2>1, StartIs
<1>4. SubSeq(s, Len(a) + 1, Len(s)) = b
  <2> DEFINE u == SubSeq(s, Len(a) + 1, Len(s))
  <2>1. Len(a) + 1 \in Int /\ Len(s) \in Int
    BY <1>1
  <2>2. \A i \in (Len(a) + 1)..Len(s) : s[i] \in V
    BY <1>1, ElementOfSeq
  <2>3. /\ u \in Seq(V)
        /\ Len(u) = IF Len(a) + 1 <= Len(s) THEN Len(s) - (Len(a) + 1) + 1 ELSE 0
        /\ \A i \in 1..(Len(s) - (Len(a) + 1) + 1) : u[i] = s[Len(a) + 1 + i - 1]
    BY <2>1, <2>2, SubSeqProperties
  <2> HIDE DEF u
  <2>4. Len(u) = Len(b)
    BY <1>1, <2>3
  <2>5. ASSUME NEW i \in 1..Len(b) PROVE u[i] = b[i]
    <3>1. /\ i \in 1..(Len(s) - (Len(a) + 1) + 1) /\ Len(a) + 1 + i - 1 = Len(a) + i
          /\ Len(a) + i \in 1..(Len(a) + Len(b)) /\ ~(Len(a) + i <= Len(a)) /\ Len(a) + i - Len(a) = i
      BY <1>1
    <3>2. u[i] = s[Len(a) + i]
      BY <2>3, <3>1
    <3>3. s[Len(a) + i] = b[i]
      <4> DEFINE x == Len(a) + i
      <4>1. x \in 1..(Len(a) + Len(b)) /\ ~(x <= Len(a)) /\ x - Len(a) = i
        BY <3>1
      <4> HIDE DEF x
      <4>2. s[x] = b[x - Len(a)]
        BY <1>1, <4>1
      <4> QED
        BY <4>1, <4>2 DEF x
    <3> QED
      BY <3>2, <3>3
  <2>6. u = b
    BY <2>3, <2>4, <2>5, SeqEqual
  <2> QED
    BY <2>6 DEF u
<1> QED
  BY <1>2, <1>3, <1>4 DEF s

\* What was sent is what was received followed by what is in the pipe.
LEMMA LinkedStream ==
  ASSUME NEW s \in Seq(Msgs), NEW r \in Seq(Values), NEW w \in Seq(Msgs), NEW rd \in Seq(Values),
         NEW pp, Linked(s, r, w, rd), Stream(w, rd, pp, 0, 0)
  PROVE  /\ Len(r) <= Len(s)
         /\ r = SubSeq(s, 1, Len(r))
         /\ SubSeq(s, Len(r) + 1, Len(s)) = SubSeq(w, Len(rd) + 1, Len(w))
<1>1. PICK o \in 0..Len(r) :
        /\ Len(s) = o + Len(w) /\ Len(r) = o + Len(rd)
        /\ \A i \in 1..o : r[i] = s[i]
        /\ \A i \in 1..Len(w) : s[o + i] = w[i]
        /\ \A i \in 1..Len(rd) : r[o + i] = rd[i]
  BY DEF Linked
<1>2. /\ Len(s) \in Nat /\ Len(r) \in Nat /\ Len(w) \in Nat /\ Len(rd) \in Nat /\ o \in Nat
  BY <1>1
<1>3. Len(rd) <= Len(w) /\ \A i \in 1..Len(rd) : rd[i] = w[i]
  BY DEF Stream
<1>4. Len(r) <= Len(s)
  BY <1>1, <1>2, <1>3
<1>5. ASSUME NEW i \in 1..Len(r) PROVE r[i] = s[i]
  <2>1. CASE i <= o
    <3>1. i \in 1..o
      BY <2>1, <1>2
    <3> QED
      BY <1>1, <3>1
  <2>2. CASE ~(i <= o)
    <3>1. i - o \in 1..Len(rd) /\ i - o \in 1..Len(w) /\ o + (i - o) = i
      BY <1>1, <1>2, <1>3, <2>2
    <3>2. r[o + (i - o)] = rd[i - o] /\ s[o + (i - o)] = w[i - o] /\ rd[i - o] = w[i - o]
      BY <1>1, <1>3, <3>1
    <3> QED
      BY <3>1, <3>2
  <2> QED
    BY <2>1, <2>2
<1>6. SubSeq(s, 1, Len(r)) = r
  <2>1. s \in Seq(Values)
    BY SeqMonotonic DEF Values
  <2> QED
    BY <1>4, <1>5, <2>1, StartIs
<1>7. SubSeq(s, Len(r) + 1, Len(s)) = SubSeq(w, Len(rd) + 1, Len(w))
  <2> DEFINE u == SubSeq(s, Len(r) + 1, Len(s))  v == SubSeq(w, Len(rd) + 1, Len(w))
  <2>1. Len(r) + 1 \in Int /\ Len(s) \in Int /\ Len(rd) + 1 \in Int /\ Len(w) \in Int
    BY <1>2
  <2>2. \A i \in (Len(r) + 1)..Len(s) : s[i] \in Msgs
    BY <1>2, ElementOfSeq
  <2>3. \A i \in (Len(rd) + 1)..Len(w) : w[i] \in Msgs
    BY <1>2, ElementOfSeq
  <2>4. /\ u \in Seq(Msgs)
        /\ Len(u) = IF Len(r) + 1 <= Len(s) THEN Len(s) - (Len(r) + 1) + 1 ELSE 0
        /\ \A i \in 1..(Len(s) - (Len(r) + 1) + 1) : u[i] = s[Len(r) + 1 + i - 1]
    BY <2>1, <2>2, SubSeqProperties
  <2>5. /\ v \in Seq(Msgs)
        /\ Len(v) = IF Len(rd) + 1 <= Len(w) THEN Len(w) - (Len(rd) + 1) + 1 ELSE 0
        /\ \A i \in 1..(Len(w) - (Len(rd) + 1) + 1) : v[i] = w[Len(rd) + 1 + i - 1]
    BY <2>1, <2>3, SubSeqProperties
  <2> HIDE DEF u, v
  <2>6. Len(u) = Len(w) - Len(rd) /\ Len(v) = Len(w) - Len(rd)
    BY <1>1, <1>2, <1>3, <2>4, <2>5
  <2>7. ASSUME NEW i \in 1..Len(v) PROVE u[i] = v[i]
    <3> DEFINE x == Len(rd) + i
    <3>1. /\ i \in 1..(Len(s) - (Len(r) + 1) + 1) /\ i \in 1..(Len(w) - (Len(rd) + 1) + 1)
          /\ Len(r) + 1 + i - 1 = o + x /\ Len(rd) + 1 + i - 1 = x /\ x \in 1..Len(w)
      BY <1>1, <1>2, <1>3, <2>6
    <3> HIDE DEF x
    <3>2. u[i] = s[o + x] /\ v[i] = w[x]
      BY <2>4, <2>5, <3>1
    <3> QED
      BY <1>1, <3>1, <3>2
  <2>8. u = v
    BY <2>4, <2>5, <2>6, <2>7, SeqEqual
  <2> QED
    BY <2>8 DEF u, v
<1> QED
  BY <1>4, <1>6, <1>7

\* A pipe that is private now was never anybody else's, so nobody else is known
\* to have used it and nobody else is in the middle of a message on it.
LEMMA PrivateIsAlone ==
  ASSUME IInv, NEW p \in Procs, NEW k \in Paths, UsePipe(p, k), Private(p, k)
  PROVE  /\ Alone(p, k) /\ queue[p][k].pipe = <<p, k>> /\ <<p, k>> \in Pipes
         /\ Single(writers[<<p, k>>]) /\ Single(readers[<<p, k>>])
         /\ \A q \in Procs : MidSend(q, <<p, k>>) \/ MidRecv(q, <<p, k>>) => q = p
<1>0. TypeOK /\ PipesOwned /\ UsersKnown
  BY DEF IInv
<1>1. PipeOf(p, k) # NoPipe /\ queue[p][k].pipe = PipeOf(p, k)
  BY <1>0, QueueType
<1>2. ASSUME NEW c \in Procs, PipeOf(c, k) = PipeOf(p, k) PROVE c = p
  <2>1. UsePipe(c, k) /\ queue[c][k].pipe = PipeOf(c, k)
    <3>1. UsePipe(c, k)
      BY <1>0, <1>1, <1>2, QueueType
    <3> QED
      BY <1>0, <3>1, QueueType
  <2> QED
    BY <1>1, <1>2, <2>1 DEF Private
<1>3. PICK o \in Procs : PipeOf(p, k) = <<o, k>> /\ PipeOf(o, k) = <<o, k>>
  BY <1>0, <1>1 DEF PipesOwned
<1>4. o = p
  BY <1>2, <1>3
<1>5. Alone(p, k)
  BY <1>2, <1>3, <1>4 DEF Alone
<1>6. <<p, k>> \in Pipes
  BY PipeIsPipe
<1>7. \A q \in Procs : q \in writers[<<p, k>>] \/ q \in readers[<<p, k>>] => q = p
  BY <1>0, <1>5 DEF UsersKnown, Alone
<1>8. writers[<<p, k>>] \subseteq Procs /\ readers[<<p, k>>] \subseteq Procs
  BY <1>0, <1>6 DEF TypeOK
<1>9. Single(writers[<<p, k>>]) /\ Single(readers[<<p, k>>])
  BY <1>7, <1>8 DEF Single
<1>10. \A q \in Procs : MidSend(q, <<p, k>>) \/ MidRecv(q, <<p, k>>) => q = p
  BY <1>0, <1>6, <1>7 DEF UsersKnown
<1> QED
  BY <1>1, <1>3, <1>4, <1>5, <1>6, <1>9, <1>10

\* On a queue nobody shares the invariant gives the order of its messages.
LEMMA FifoInvariant == IInv => PrivateFifo
<1> SUFFICES ASSUME IInv, NEW p \in alive, NEW k \in Paths,
                    pc[p] = Idle, HasQueue(p, k), Private(p, k)
             PROVE  /\ Len(rcvd[p][k]) <= Len(sent[p][k])
                    /\ rcvd[p][k] = SubSeq(sent[p][k], 1, Len(rcvd[p][k]))
                    /\ InFlight(p, k, SubSeq(sent[p][k], Len(rcvd[p][k]) + 1, Len(sent[p][k])))
  BY DEF PrivateFifo
<1>0. TypeOK /\ PipesInOrder /\ MemoryFifo /\ PrivateLinked
  BY DEF IInv
<1>1. p \in Procs
  BY <1>0 DEF TypeOK
<1>2. PICK s \in Seq(Msgs), r \in Seq(Values) : s = sent[p][k] /\ r = rcvd[p][k]
  BY <1>0, <1>1 DEF TypeOK
<1>3. CASE ~UsePipe(p, k)
  <2>1. PICK b \in Seq(Msgs) : b = queue[p][k].msgs
    BY <1>0, <1>1, QueueType
  <2>2. s = r \o b
    <3>1. queue[p][k] # NoQueue /\ PipeOf(p, k) = NoPipe
      BY <1>0, <1>1, <1>3, QueueType DEF HasQueue
    <3> QED
      BY <1>0, <1>1, <1>2, <2>1, <3>1 DEF MemoryFifo
  <2>3. b \in Seq(Values)
    BY SeqMonotonic DEF Values
  <2>4. /\ Len(r) <= Len(r \o b) /\ SubSeq(r \o b, 1, Len(r)) = r
        /\ SubSeq(r \o b, Len(r) + 1, Len(r \o b)) = b
    BY <2>3, ConcatParts
  <2>5. Len(r) <= Len(s) /\ r = SubSeq(s, 1, Len(r)) /\ SubSeq(s, Len(r) + 1, Len(s)) = b
    BY <2>2, <2>4
  <2> QED
    BY <1>2, <1>3, <2>1, <2>5 DEF InFlight
<1>4. CASE UsePipe(p, k)
  <2> DEFINE f == <<p, k>>
  <2>1. /\ Alone(p, k) /\ queue[p][k].pipe = f /\ f \in Pipes
        /\ Single(writers[f]) /\ Single(readers[f])
        /\ \A q \in Procs : MidSend(q, f) \/ MidRecv(q, f) => q = p
    BY <1>1, <1>4, PrivateIsAlone
  <2>2. ~MidSend(p, f) /\ ~MidRecv(p, f)
    BY IdleFacts DEF MidSend, MidRecv, SendsOn, RecvsOn
  <2>3. PICK taken, owed \in 0..(PARTS - 1) :
          /\ Stream(written[f], read[f], pipe[f], taken, owed)
          /\ Writing(f, owed) /\ Reading(f, taken)
    BY <1>0, <2>1 DEF PipesInOrder, InOrder
  <2>4. ~(owed > 0) /\ ~(taken > 0)
    BY <2>1, <2>2, <2>3 DEF Writing, Reading
  <2>5. owed = 0 /\ taken = 0
    BY <2>3, <2>4, SizeAssumption
  <2>6. PICK w \in Seq(Msgs), rd \in Seq(Values), pp \in Seq(PieceSet) :
          w = written[f] /\ rd = read[f] /\ pp = pipe[f]
    BY <1>0, <2>1 DEF TypeOK
  <2>7. Stream(w, rd, pp, 0, 0)
    BY <2>3, <2>5, <2>6
  <2>8. Linked(s, r, w, rd)
    <3>1. Linked(Begun(p, k), rcvd[p][k], written[f], read[f])
      BY <1>0, <1>1, <2>1 DEF PrivateLinked
    <3>2. Begun(p, k) = s
      BY <1>2, <2>2 DEF Begun
    <3> QED
      BY <1>2, <2>6, <3>1, <3>2
  <2>9. pp = Drained(SubSeq(w, Len(rd) + 1, Len(w)))
    BY <2>7, StreamBetween
  <2>10. /\ Len(r) <= Len(s) /\ r = SubSeq(s, 1, Len(r))
         /\ SubSeq(s, Len(r) + 1, Len(s)) = SubSeq(w, Len(rd) + 1, Len(w))
    BY <2>7, <2>8, LinkedStream
  <2>11. pipe[queue[p][k].pipe] = Drained(SubSeq(s, Len(r) + 1, Len(s)))
    BY <2>1, <2>6, <2>9, <2>10
  <2> QED
    BY <1>2, <1>4, <2>10, <2>11 DEF InFlight
<1> QED
  BY <1>3, <1>4

\* A process gets back what it sent, once and in order, from memory or from the
\* pipe that replaced it at a fork, while no other process shares the pipe.
THEOREM FifoOfPrivateQueues == Spec => []PrivateFifo
BY Inductive, FifoInvariant, PTL

\* On a queue nobody shares the invariant gives a whole message to who receives.
LEMMA RecvInvariant == IInv => PrivateRecvCompletes
<1> SUFFICES ASSUME IInv, NEW p \in alive, pc[p].op = "recv", Private(p, pc[p].path)
             PROVE  Len(pipe[queue[p][pc[p].path].pipe]) >= PARTS - Len(pc[p].got)
  BY DEF PrivateRecvCompletes
<1>0. TypeOK /\ CallsOnPipes /\ PipesInOrder /\ Polled
  BY DEF IInv
<1>1. p \in Procs /\ pc[p] \in Calls
  BY <1>0 DEF TypeOK
<1>2. PICK k \in Paths, g \in Seq(PieceSet) : k = pc[p].path /\ g = pc[p].got
  BY <1>1, CallFacts
<1>3. PipeOf(p, k) # NoPipe
  BY <1>0, <1>1, <1>2 DEF CallsOnPipes
<1>4. UsePipe(p, k)
  BY <1>0, <1>1, <1>3, QueueType
<1> DEFINE f == <<p, k>>
<1>5. /\ Alone(p, k) /\ queue[p][k].pipe = f /\ f \in Pipes
      /\ Single(writers[f]) /\ Single(readers[f])
      /\ \A q \in Procs : MidSend(q, f) \/ MidRecv(q, f) => q = p
  BY <1>1, <1>2, <1>4, PrivateIsAlone
<1>6. RecvsOn(p, f) /\ ~MidSend(p, f)
  BY <1>2, <1>5 DEF RecvsOn, MidSend, SendsOn, Alone
<1>7. PICK taken, owed \in 0..(PARTS - 1) :
        /\ Stream(written[f], read[f], pipe[f], taken, owed)
        /\ Writing(f, owed) /\ Reading(f, taken)
  BY <1>0, <1>5 DEF PipesInOrder, InOrder
<1>8. owed = 0
  <2>1. ~(owed > 0)
    BY <1>5, <1>6, <1>7 DEF Writing
  <2> QED
    BY <1>7, <2>1, SizeAssumption
<1>9. taken = Len(g)
  <2>1. CASE g = <<>>
    <3>1. ~MidRecv(p, f)
      BY <1>2, <2>1 DEF MidRecv
    <3>2. ~(taken > 0)
      BY <1>5, <1>7, <3>1 DEF Reading
    <3>3. Len(g) = 0
      BY <2>1
    <3> QED
      BY <1>7, <3>2, <3>3, SizeAssumption
  <2>2. CASE g # <<>>
    <3>1. MidRecv(p, f)
      BY <1>2, <1>6, <2>2 DEF MidRecv
    <3> QED
      BY <1>1, <1>2, <1>7, <3>1 DEF Reading
  <2> QED
    BY <2>1, <2>2
<1>10. PICK w \in Seq(Msgs), rd \in Seq(Values), pp \in Seq(PieceSet) :
         w = written[f] /\ rd = read[f] /\ pp = pipe[f]
  BY <1>0, <1>5 DEF TypeOK
<1>11. Stream(w, rd, pp, taken, 0)
  BY <1>7, <1>8, <1>10
<1>12. taken + Len(pp) > 0
  <2>1. Len(pc[p].got) + Len(pipe[f]) > 0
    BY <1>0, <1>1, <1>5, <1>6 DEF Polled
  <2> QED
    BY <1>2, <1>9, <1>10, <2>1, Zenon
<1>13. Len(pp) >= PARTS - taken
  BY <1>7, <1>11, <1>12, StreamWhole
<1>14. Len(pipe[queue[p][pc[p].path].pipe]) = Len(pp) /\ Len(pc[p].got) = taken
  BY <1>2, <1>5, <1>9, <1>10
<1> QED
  BY <1>13, <1>14, Zenon

\* A receive that poll let begin on a pipe nobody shares has the whole message
\* in front of it: it never blocks half way.
THEOREM PrivateRecvsComplete == Spec => []PrivateRecvCompletes
BY Inductive, RecvInvariant, PTL

=============================================================================
