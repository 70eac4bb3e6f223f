---------------------------- MODULE KernelProofs ----------------------------
(***************************************************************************)
(* Proofs about Kernel: the names of files, the answers to requests, and   *)
(* who holds which descriptor, for any number of processes, fids,          *)
(* descriptors, files and calls.                                           *)
(***************************************************************************)
EXTENDS Kernel, TLAPS, WellFoundedInduction, FiniteSetTheorems

-----------------------------------------------------------------------------
(* Names *)

\* Only the inodes that ino_alloc has given out have a name.
NamedAreMade ==
  /\ next_ino \in Nat \ {0}
  /\ inode_path = [i \in Inodes |-> inode_path[i]]
  /\ \A i \in Inodes : i = 0 \/ i >= next_ino => inode_path[i] = NoPath

NamesInv == NamedAreMade /\ PathsUnique

\* A set of numbers that is not empty has a least member.
LEMMA LeastNumber ==
  ASSUME NEW S \in SUBSET Nat, S # {}
  PROVE  \E i \in S : \A j \in S : i <= j
<1> DEFINE Less == {ss \in Nat \X Nat : ss[1] < ss[2]}
<1>1. PICK x \in S : \A y \in S : <<y, x>> \notin Less
  <2>1. IsWellFoundedOn(Less, Nat)
    BY NatLessThanWellFounded, Zenon DEF OpToRel
  <2> HIDE DEF Less
  <2> QED
    BY <2>1, WFMin, Zenon
<1>2. \A y \in S : ~ (y < x)
  BY <1>1
<1> QED
  BY <1>1, <1>2

\* path_to_ino that finds nothing: no inode has that name.
LEMMA NotFound ==
  ASSUME NamesInv, NEW p, p # NoPath, path_to_ino(p) = 0
  PROVE  \A i \in Inodes : inode_path[i] # p
<1> DEFINE named == {i \in 1..(next_ino - 1) : inode_path[i] = p}
<1>1. next_ino \in Nat \ {0}
  BY DEF NamesInv, NamedAreMade
<1>2. named = {}
  <2> SUFFICES ASSUME named # {} PROVE FALSE
    OBVIOUS
  <2>1. path_to_ino(p) = Min(named)
    BY DEF path_to_ino
  <2>2. Min(named) = CHOOSE x \in named : \A y \in named : x <= y
    BY DEF Min
  <2>3. named \in SUBSET Nat /\ 0 \notin named
    BY <1>1
  <2> HIDE DEF named
  <2>4. \E x \in named : \A y \in named : x <= y
    BY <2>3, LeastNumber
  <2>5. Min(named) \in named
    BY <2>2, <2>4
  <2> QED
    BY <2>1, <2>3, <2>5
<1>3. \A i \in Inodes : i \in 1..(next_ino - 1) \/ i = 0 \/ i >= next_ino
  BY <1>1, VfsAssumption DEF Inodes
<1> QED
  BY <1>2, <1>3 DEF NamesInv, NamedAreMade

\* A name that is published after it was not found is the only one.
LEMMA PublishedOnce ==
  ASSUME NamesInv, NEW p, path_to_ino(p) = 0, Publish(p)
  PROVE  NamesInv'
<1>1. /\ next_ino \in Inodes /\ next_ino \in Nat \ {0} /\ next_ino' = next_ino + 1
      /\ DOMAIN inode_path = Inodes
      /\ inode_path' = [inode_path EXCEPT ![next_ino] = p]
  BY VfsAssumption DEF NamesInv, NamedAreMade, Publish, Inodes
<1>2. inode_path'[next_ino] = p /\ \A i \in Inodes \ {next_ino} : inode_path'[i] = inode_path[i]
  BY <1>1 DEF NamesInv, NamedAreMade
<1>3. NamedAreMade'
  <2>1. \A i \in Inodes : i = 0 \/ i >= next_ino' => inode_path'[i] = NoPath
    <3> SUFFICES ASSUME NEW i \in Inodes, i = 0 \/ i >= next_ino'
                 PROVE  inode_path'[i] = NoPath
      OBVIOUS
    <3>1. i # next_ino /\ (i = 0 \/ i >= next_ino)
      BY <1>1, VfsAssumption DEF Inodes
    <3> QED
      BY <1>2, <3>1 DEF NamesInv, NamedAreMade
  <2>2. inode_path' = [i \in Inodes |-> inode_path'[i]]
    BY <1>1 DEF NamesInv, NamedAreMade
  <2> QED
    BY <1>1, <2>1, <2>2 DEF NamedAreMade
<1>4. PathsUnique'
  <2>1. CASE p = NoPath
    BY <1>2, <2>1 DEF NamesInv, PathsUnique
  <2>2. CASE p # NoPath
    <3>1. \A i \in Inodes : inode_path[i] # p
      BY <2>2, NotFound
    <3> QED
      BY <1>2, <3>1 DEF NamesInv, PathsUnique
  <2> QED
    BY <2>1, <2>2
<1> QED
  BY <1>3, <1>4 DEF NamesInv

\* Taking a name away leaves the others as they are.
LEMMA UnnamedOnce ==
  ASSUME NamesInv, NEW i, Unname(i)
  PROVE  NamesInv'
<1>1. /\ next_ino' = next_ino /\ DOMAIN inode_path = Inodes
      /\ inode_path' = [inode_path EXCEPT ![i] = NoPath]
  BY DEF NamesInv, NamedAreMade, Unname
<1>2. \A j \in Inodes : inode_path'[j] = inode_path[j] \/ inode_path'[j] = NoPath
  BY <1>1
<1>3. inode_path' = [j \in Inodes |-> inode_path'[j]]
  BY <1>1
<1>4. NamedAreMade'
  BY <1>1, <1>2, <1>3 DEF NamesInv, NamedAreMade
<1>5. PathsUnique'
  BY <1>2 DEF NamesInv, PathsUnique
<1> QED
  BY <1>4, <1>5 DEF NamesInv

\* What a step does to the names.
NameStep ==
  \/ UNCHANGED <<inode_path, next_ino>>
  \/ \E p : path_to_ino(p) = 0 /\ Publish(p)
  \/ \E i : Unname(i)

\* The calls of vfs.c, whoever makes them.
LEMMA OpenNames ==
  ASSUME NEW p, NEW creat, NEW r, vfs_open(p, creat, r)
  PROVE  NameStep
BY DEF vfs_open, inodes, vfs_vars, NameStep

\* No other call of vfs.c touches a name.
LEMMA OtherNames ==
  ASSUME NEW f, NEW n, NEW g, NEW r,
         vfs_read(f, n, r) \/ vfs_write(f, n, r) \/ vfs_close(f, r) \/ vfs_dup(f, n, r)
           \/ vfs_seek(f, n, g, r) \/ vfs_stat(f, r) \/ vfs_mount(r) \/ UNCHANGED vfs_vars
  PROVE  NameStep
BY DEF vfs_read, vfs_write, vfs_close, vfs_dup, vfs_seek, vfs_stat, vfs_mount, vfs_vars, inodes, NameStep

\* Every handler.
LEMMA HandlerNames ==
  ASSUME NEW m, NEW r, kmsg_handle(m, r)
  PROVE  NameStep
<1>1. CASE sys_open(m, r) \/ sys_create(m, r)
  BY <1>1, OpenNames DEF sys_open, sys_create
<1>2. CASE sys_dup(m, r) \/ sys_read(m, r) \/ sys_write(m, r) \/ sys_close(m, r)
             \/ sys_seek(m, r) \/ sys_stat(m, r)
  BY <1>2, OtherNames DEF sys_dup, sys_read, sys_write, sys_close, sys_seek, sys_stat
<1>3. CASE sys_mkdir(m, r)
  <2>1. CASE vfs_mkdir(m.arg0, r)
    BY <2>1 DEF vfs_mkdir, vfs_vars, NameStep
  <2>2. CASE SameFiles
    BY <2>2, OtherNames DEF SameFiles
  <2> QED
    BY <1>3, <2>1, <2>2 DEF sys_mkdir
<1>4. CASE sys_mount(m, r)
  BY <1>4, OtherNames DEF sys_mount, SameFiles
<1>5. CASE sys_remove(m, r)
  <2>1. CASE Unname(m.arg0)
    BY <2>1 DEF NameStep
  <2>2. CASE SameFiles
    BY <2>2, OtherNames DEF SameFiles
  <2> QED
    BY <1>5, <2>1, <2>2 DEF sys_remove
<1>6. CASE sys_fork(m, r) \/ sys_exit(m, r) \/ sys_other(r)
  BY <1>6, OtherNames DEF sys_fork, sys_exit, sys_other, SameFiles
<1> QED
  BY <1>1, <1>2, <1>3, <1>4, <1>5, <1>6 DEF kmsg_handle

\* Every 9P message.
LEMMA P9Names == p9_server_handle => NameStep
<1> SUFFICES ASSUME p9_server_handle PROVE NameStep
  OBVIOUS
<1>1. CASE \E m \in 12..P9_MSIZE : Tversion(m)
  BY <1>1 DEF Tversion, vfs_vars, NameStep
<1>2. CASE \E n \in FidNumbers : Tattach(n)
  BY <1>2 DEF Tattach, vfs_vars, NameStep
<1>3. CASE \E n, newfid \in FidNumbers, name \in Names \cup {DotDot} : Twalk(n, newfid, <<name>>)
  BY <1>3 DEF Twalk, vfs_vars, NameStep
<1>4. ASSUME NEW n \in FidNumbers, NEW r \in Results, NEW c \in BOOLEAN, Topen(n, c, r)
      PROVE  NameStep
  BY <1>4, OpenNames DEF Topen
<1>5. ASSUME NEW n \in FidNumbers, NEW r \in Results, NEW count, Tread(n, count, r) \/ Twrite(n, count, r)
      PROVE  NameStep
  BY <1>5, OtherNames DEF Tread, Twrite
<1>6. ASSUME NEW n \in FidNumbers, NEW r \in Results, Tclunk(n, r)
      PROVE  NameStep
  BY <1>6, OtherNames DEF Tclunk
<1> QED
  BY <1>1, <1>2, <1>3, <1>4, <1>5, <1>6 DEF p9_server_handle

\* Every step.
LEMMA NextNames == NamesInv /\ [Next]_vars => NamesInv'
<1> SUFFICES ASSUME NamesInv, [Next]_vars PROVE NamesInv'
  OBVIOUS
<1>1. NameStep
  <2>1. CASE dispatch
    <3>1. CASE Forget
      BY <3>1, OtherNames DEF Forget
    <3>2. CASE Answer
      BY <3>2, HandlerNames DEF Answer
    <3> QED
      BY <2>1, <3>1, <3>2 DEF dispatch
  <2>2. CASE p9_message
    BY <2>2, P9Names DEF p9_message
  <2>3. ASSUME NEW c \in Clients, client_send(c) PROVE NameStep
    <3>1. PICK verb, arg0, arg1, n, back : Request(c, verb, arg0, arg1, n, back)
      BY <2>3, Zenon DEF client_send
    <3>2. UNCHANGED vfs_vars
      BY <3>1 DEF Request
    <3> QED
      BY <3>2, OtherNames
  <2>4. ASSUME NEW c \in Clients, client_recv(c) PROVE NameStep
    BY <2>4, OtherNames DEF client_recv
  <2>5. CASE UNCHANGED vars
    BY <2>5, OtherNames DEF vars
  <2> QED
    BY <2>1, <2>2, <2>3, <2>4, <2>5 DEF Next
<1>2. CASE UNCHANGED <<inode_path, next_ino>>
  BY <1>2 DEF NamesInv, NamedAreMade, PathsUnique
<1> QED
  BY <1>1, <1>2, PublishedOnce, UnnamedOnce DEF NameStep

\* Two inodes never have the same name, however many processes and 9P
\* clients make, open and remove files.
THEOREM NamesAreUnique == Spec => []PathsUnique
<1>1. Init => NamesInv
  BY VfsAssumption DEF Init, vfs_init, NamesInv, NamedAreMade, PathsUnique, Inodes
<1>2. NamesInv => PathsUnique
  BY DEF NamesInv
<1> QED
  BY <1>1, <1>2, NextNames, PTL DEF Spec

-----------------------------------------------------------------------------
(* Answers *)

\* The places of a sequence whose members are in a set.
At(s, T) == {i \in DOMAIN s : s[i] \in T}

\* They are finitely many.
LEMMA FiniteAt ==
  ASSUME NEW S, NEW s \in Seq(S), NEW T
  PROVE  IsFiniteSet(At(s, T))
<1>1. Len(s) \in Nat /\ IsFiniteSet(1..Len(s))
  BY FS_Interval
<1>2. At(s, T) \in SUBSET (1..Len(s))
  BY DEF At
<1> QED
  BY <1>1, <1>2, FS_Subset

\* One more for a member of the set put behind.
LEMMA CountAppended ==
  ASSUME NEW S, NEW s \in Seq(S), NEW x \in S, NEW T
  PROVE  Cardinality(At(Append(s, x), T)) = Cardinality(At(s, T)) + (IF x \in T THEN 1 ELSE 0)
<1> DEFINE n == Len(s)
<1>1. n \in Nat /\ DOMAIN s = 1..n /\ DOMAIN Append(s, x) = 1..(n + 1)
  OBVIOUS
<1>2. \A i \in 1..n : Append(s, x)[i] = s[i]
  OBVIOUS
<1>3. Append(s, x)[n + 1] = x
  OBVIOUS
<1>4. IsFiniteSet(At(s, T))
  BY FiniteAt
<1>5. At(Append(s, x), T) = IF x \in T THEN At(s, T) \cup {n + 1} ELSE At(s, T)
  <2> HIDE DEF n
  <2>1. ASSUME NEW i \in 1..(n + 1)
        PROVE  Append(s, x)[i] \in T <=> IF i = n + 1 THEN x \in T ELSE i \in 1..n /\ s[i] \in T
    BY <1>1, <1>2, <1>3
  <2> QED
    BY <1>1, <2>1 DEF At
<1>6. n + 1 \notin At(s, T)
  BY <1>1 DEF At
<1>7. Cardinality(At(s, T)) \in Nat
  BY <1>4, FS_CardinalityType
<1>8. Cardinality(At(s, T) \cup {n + 1}) = Cardinality(At(s, T)) + 1
  BY <1>4, <1>6, FS_AddElement
<1> QED
  BY <1>4, <1>5, <1>7, <1>8

\* And one less when a member of it is taken from the front.
LEMMA CountTail ==
  ASSUME NEW S, NEW s \in Seq(S), s # <<>>, NEW T
  PROVE  Cardinality(At(s, T)) = Cardinality(At(Tail(s), T)) + (IF Head(s) \in T THEN 1 ELSE 0)
<1> DEFINE n == Len(s)
           rest == At(s, T) \ {1}
           next == [i \in At(Tail(s), T) |-> i + 1]
<1>1. n \in Nat \ {0} /\ DOMAIN s = 1..n /\ DOMAIN Tail(s) = 1..(n - 1) /\ Head(s) = s[1]
  OBVIOUS
<1>2. \A i \in 1..(n - 1) : Tail(s)[i] = s[i + 1]
  OBVIOUS
<1>3. IsFiniteSet(At(Tail(s), T))
  <2>1. Tail(s) \in Seq(S)
    OBVIOUS
  <2> QED
    BY <2>1, FiniteAt
<1>4. next \in Bijection(At(Tail(s), T), rest)
  <2> HIDE DEF n
  <2>1. \A i \in At(Tail(s), T) : i \in 1..(n - 1) /\ next[i] = i + 1 /\ next[i] \in rest
    BY <1>1, <1>2 DEF At
  <2>2. \A j \in rest : j - 1 \in At(Tail(s), T) /\ next[j - 1] = j
    <3> SUFFICES ASSUME NEW j \in rest PROVE j - 1 \in At(Tail(s), T) /\ next[j - 1] = j
      OBVIOUS
    <3>1. j \in 2..n /\ s[j] \in T
      BY <1>1 DEF At
    <3>2. j - 1 \in 1..(n - 1) /\ (j - 1) + 1 = j
      BY <1>1, <3>1
    <3> QED
      BY <1>1, <1>2, <3>1, <3>2 DEF At
  <2> HIDE DEF rest
  <2>3. next \in [At(Tail(s), T) -> rest]
    BY <2>1
  <2>4. \A i, j \in At(Tail(s), T) : next[i] = next[j] => i = j
    BY <2>1
  <2> HIDE DEF next
  <2> QED
    BY <2>2, <2>3, <2>4 DEF Bijection, Injection, Surjection, IsInjective
<1>5. IsFiniteSet(rest) /\ Cardinality(rest) = Cardinality(At(Tail(s), T))
  BY <1>3, <1>4, FS_Bijection DEF ExistsBijection
<1>6. At(s, T) = IF Head(s) \in T THEN rest \cup {1} ELSE rest
  BY <1>1 DEF At
<1>7. Cardinality(rest) \in Nat
  BY <1>5, FS_CardinalityType
<1>8. Cardinality(rest \cup {1}) = Cardinality(rest) + 1
  BY <1>5, FS_AddElement
<1> HIDE DEF rest
<1> QED
  BY <1>5, <1>6, <1>7, <1>8

\* The requests of c, among messages S, that can be decoded.
RequestsOf(S, c) == {x \in S : x[5] = c /\ Decodable(x)}

\* A client waits for no more than QUEUE answers, so that its queue has room
\* for each.
AnswersInv ==
  /\ \E S : inbox \in Seq(S) /\ \A x \in S : x[5] \in Clients
  /\ answers = [c \in Clients |-> answers[c]]
  /\ \A c \in Clients : \E S : answers[c] \in Seq(S)
  /\ waiting \in [Clients -> 0..QUEUE]
  /\ AnswersAccountedFor

\* The count of UnderWay is one of places.
LEMMA UnderWayAt ==
  ASSUME NEW S, inbox \in Seq(S), NEW c
  PROVE  UnderWay(c) = Len(answers[c]) + Cardinality(At(inbox, RequestsOf(S, c)))
<1>1. \A i \in DOMAIN inbox : inbox[i] \in S
  OBVIOUS
<1>2. At(inbox, RequestsOf(S, c)) = {i \in DOMAIN inbox : inbox[i][5] = c /\ Decodable(inbox[i])}
  BY <1>1 DEF At, RequestsOf
<1> QED
  BY <1>2 DEF UnderWay

\* The same for the next state.
LEMMA UnderWayAtNext ==
  ASSUME NEW S, inbox' \in Seq(S), NEW c \in Clients
  PROVE  UnderWay(c)' = Len(answers'[c]) + Cardinality(At(inbox', RequestsOf(S, c)))
<1>1. \A i \in DOMAIN inbox' : inbox'[i] \in S
  OBVIOUS
<1>2. At(inbox', RequestsOf(S, c)) = {i \in DOMAIN inbox' : inbox'[i][5] = c /\ Decodable(inbox'[i])}
  BY <1>1 DEF At, RequestsOf
<1> QED
  BY <1>2 DEF UnderWay

\* A request sent by a client is one more under way for it, if it can be
\* decoded.
LEMMA SendAccounted ==
  ASSUME AnswersInv, NEW c \in Clients, NEW verb, NEW arg0, NEW arg1, NEW n, NEW back,
         Request(c, verb, arg0, arg1, n, back)
  PROVE  AnswersInv'
<1> DEFINE text == kmsg_encode([verb |-> verb, arg0 |-> arg0, arg1 |-> arg1, n |-> n, sender_pid |-> c])
           good == Decodable(text)
<1>1. text[5] = c
  BY DEF kmsg_encode
<1>2. /\ inbox' = Append(inbox, text) /\ answers' = answers /\ waiting[c] < QUEUE
      /\ waiting' = IF good THEN [waiting EXCEPT ![c] = @ + 1] ELSE waiting
  BY DEF Request
<1> HIDE DEF text, good
<1>3. PICK S0 : inbox \in Seq(S0) /\ \A x \in S0 : x[5] \in Clients
  BY DEF AnswersInv
<1> DEFINE S == S0 \cup {text}
<1>4. inbox \in Seq(S) /\ text \in S /\ inbox' \in Seq(S) /\ \A x \in S : x[5] \in Clients
  BY <1>1, <1>2, <1>3
<1>5. waiting' \in [Clients -> 0..QUEUE]
  BY <1>2, QueueAssumption DEF AnswersInv
<1>6. ASSUME NEW d \in Clients PROVE UnderWay(d)' = waiting'[d]
  <2>1. (text \in RequestsOf(S, d)) <=> (d = c /\ good)
    BY <1>1, <1>4 DEF RequestsOf, good
  <2>2. Cardinality(At(inbox', RequestsOf(S, d)))
          = Cardinality(At(inbox, RequestsOf(S, d))) + (IF d = c /\ good THEN 1 ELSE 0)
    BY <1>2, <1>4, <2>1, CountAppended
  <2>3. UnderWay(d) = waiting[d] /\ waiting[d] \in Nat
    BY QueueAssumption DEF AnswersInv, AnswersAccountedFor
  <2>4. /\ UnderWay(d) = Len(answers[d]) + Cardinality(At(inbox, RequestsOf(S, d)))
        /\ UnderWay(d)' = Len(answers'[d]) + Cardinality(At(inbox', RequestsOf(S, d)))
    BY <1>4, UnderWayAt, UnderWayAtNext
  <2>5. Cardinality(At(inbox, RequestsOf(S, d))) \in Nat
    BY <1>4, FiniteAt, FS_CardinalityType
  <2>6. Len(answers[d]) \in Nat
    BY DEF AnswersInv
  <2>7. waiting'[d] = waiting[d] + (IF d = c /\ good THEN 1 ELSE 0)
    BY <1>2, <2>3 DEF AnswersInv
  <2> QED
    BY <1>2, <2>2, <2>3, <2>4, <2>5, <2>6, <2>7
<1>7. AnswersAccountedFor'
  BY <1>6 DEF AnswersAccountedFor
<1>8. \E T : inbox' \in Seq(T) /\ \A x \in T : x[5] \in Clients
  BY <1>4
<1> QED
  BY <1>2, <1>5, <1>7, <1>8 DEF AnswersInv

\* A message taken by the dispatcher is one less under way, and its answer
\* one more, for which there is room.
LEMMA DispatchAccounted ==
  ASSUME AnswersInv, dispatch
  PROVE  AnswersInv'
<1>1. PICK S : inbox \in Seq(S) /\ \A x \in S : x[5] \in Clients
  BY DEF AnswersInv
<1>2. inbox # <<>> /\ inbox' = Tail(inbox) /\ waiting' = waiting
  BY DEF dispatch, client_vars
<1> DEFINE c == Head(inbox)[5]
           good == Decodable(Head(inbox))
<1>3. inbox' \in Seq(S) /\ Head(inbox) \in S /\ c \in Clients
  BY <1>1, <1>2
<1>4. ASSUME NEW d \in Clients
      PROVE  /\ UnderWay(d) = waiting[d] /\ waiting[d] \in 0..QUEUE /\ Len(answers[d]) \in Nat
             /\ Cardinality(At(inbox', RequestsOf(S, d))) \in Nat
             /\ UnderWay(d) = Len(answers[d]) + Cardinality(At(inbox', RequestsOf(S, d)))
                                + (IF d = c /\ good THEN 1 ELSE 0)
             /\ UnderWay(d)' = Len(answers'[d]) + Cardinality(At(inbox', RequestsOf(S, d)))
  <2>1. Head(inbox) \in RequestsOf(S, d) <=> d = c /\ good
    BY <1>3 DEF RequestsOf
  <2>2. Cardinality(At(inbox, RequestsOf(S, d)))
          = Cardinality(At(inbox', RequestsOf(S, d))) + (IF d = c /\ good THEN 1 ELSE 0)
    BY <1>1, <1>2, <2>1, CountTail
  <2>3. Cardinality(At(inbox', RequestsOf(S, d))) \in Nat
    BY <1>3, FiniteAt, FS_CardinalityType
  <2>4. /\ UnderWay(d) = Len(answers[d]) + Cardinality(At(inbox, RequestsOf(S, d)))
        /\ UnderWay(d)' = Len(answers'[d]) + Cardinality(At(inbox', RequestsOf(S, d)))
    BY <1>1, <1>3, UnderWayAt, UnderWayAtNext
  <2>5. UnderWay(d) = waiting[d] /\ waiting[d] \in 0..QUEUE
    BY DEF AnswersInv, AnswersAccountedFor
  <2>6. Len(answers[d]) \in Nat
    BY DEF AnswersInv
  <2> HIDE DEF good, c
  <2> QED
    BY <2>2, <2>3, <2>4, <2>5, <2>6
<1>5. CASE Forget
  <2>1. ~ good /\ answers' = answers
    BY <1>5 DEF Forget
  <2>2. AnswersAccountedFor'
    BY <1>2, <1>4, <2>1 DEF AnswersAccountedFor
  <2> QED
    BY <1>1, <1>2, <1>3, <2>1, <2>2 DEF AnswersInv
<1>6. CASE Answer
  <2>1. PICK x : good /\ answers' = IF Len(answers[c]) < QUEUE
                                    THEN [answers EXCEPT ![c] = Append(@, x)] ELSE answers
    BY <1>6 DEF Answer, kmsg_decode
  <2> HIDE DEF good, c
  <2>2. Len(answers[c]) < QUEUE
    BY <1>3, <1>4, <2>1, QueueAssumption
  <2>3. /\ answers' = [d \in Clients |-> answers'[d]]
        /\ answers'[c] = Append(answers[c], x)
        /\ \A d \in Clients \ {c} : answers'[d] = answers[d]
    BY <1>3, <2>1, <2>2 DEF AnswersInv
  <2>4. PICK T : answers[c] \in Seq(T)
    BY <1>3 DEF AnswersInv
  <2>5. answers[c] \in Seq(T \cup {x})
    BY <2>4
  <2>6. answers'[c] \in Seq(T \cup {x}) /\ Len(answers'[c]) = Len(answers[c]) + 1
    BY <2>3, <2>5
  <2>7. \A d \in Clients : \E U : answers'[d] \in Seq(U)
    BY <2>3, <2>6 DEF AnswersInv
  <2>8. ASSUME NEW d \in Clients PROVE UnderWay(d)' = waiting'[d]
    <3>1. CASE d = c
      BY <1>2, <1>4, <2>1, <2>6, <3>1
    <3>2. CASE d # c
      <4>1. answers'[d] = answers[d] /\ waiting'[d] = waiting[d]
        BY <1>2, <2>3, <3>2
      <4>2. UnderWay(d) = Len(answers[d]) + Cardinality(At(inbox', RequestsOf(S, d)))
        BY <1>4, <3>2
      <4>3. UnderWay(d) = waiting[d] /\ UnderWay(d)' = Len(answers'[d]) + Cardinality(At(inbox', RequestsOf(S, d)))
        BY <1>4
      <4> QED
        BY <4>1, <4>2, <4>3
    <3> QED
      BY <3>1, <3>2
  <2>9. AnswersAccountedFor'
    BY <2>8 DEF AnswersAccountedFor
  <2> QED
    BY <1>1, <1>2, <1>3, <2>3, <2>7, <2>9 DEF AnswersInv
<1> QED
  BY <1>5, <1>6 DEF dispatch

\* A client that takes an answer waits for one less.
LEMMA RecvAccounted ==
  ASSUME AnswersInv, NEW c \in Clients, client_recv(c)
  PROVE  AnswersInv'
<1>1. /\ answers[c] # <<>> /\ answers' = [answers EXCEPT ![c] = Tail(@)]
      /\ waiting' = [waiting EXCEPT ![c] = @ - 1] /\ inbox' = inbox
  BY DEF client_recv
<1>2. PICK S : inbox \in Seq(S) /\ \A x \in S : x[5] \in Clients
  BY DEF AnswersInv
<1>3. PICK T : answers[c] \in Seq(T)
  BY DEF AnswersInv
<1>4. /\ answers'[c] = Tail(answers[c]) /\ answers'[c] \in Seq(T)
      /\ Len(answers'[c]) = Len(answers[c]) - 1 /\ Len(answers[c]) \in Nat \ {0}
      /\ \A d \in Clients \ {c} : answers'[d] = answers[d]
      /\ answers' = [d \in Clients |-> answers'[d]]
  <2>1. /\ answers'[c] = Tail(answers[c])
        /\ \A d \in Clients \ {c} : answers'[d] = answers[d]
        /\ answers' = [d \in Clients |-> answers'[d]]
    BY <1>1 DEF AnswersInv
  <2>2. /\ Tail(answers[c]) \in Seq(T) /\ Len(answers[c]) \in Nat \ {0}
        /\ Len(Tail(answers[c])) = Len(answers[c]) - 1
    BY <1>1, <1>3
  <2> QED
    BY <2>1, <2>2
<1>5. ASSUME NEW d \in Clients
      PROVE  UnderWay(d)' = waiting'[d] /\ waiting'[d] \in 0..QUEUE
  <2>1. /\ UnderWay(d) = Len(answers[d]) + Cardinality(At(inbox, RequestsOf(S, d)))
        /\ UnderWay(d)' = Len(answers'[d]) + Cardinality(At(inbox, RequestsOf(S, d)))
    BY <1>1, <1>2, UnderWayAt, UnderWayAtNext
  <2>2. Cardinality(At(inbox, RequestsOf(S, d))) \in Nat
    <3>1. IsFiniteSet(At(inbox, RequestsOf(S, d)))
      BY <1>2, FiniteAt
    <3> QED
      BY <3>1, FS_CardinalityType
  <2>3. UnderWay(d) = waiting[d] /\ waiting[d] \in 0..QUEUE /\ Len(answers[d]) \in Nat
    BY DEF AnswersInv, AnswersAccountedFor
  <2>4. waiting'[d] = IF d = c THEN waiting[d] - 1 ELSE waiting[d]
    BY <1>1 DEF AnswersInv
  <2>5. CASE d = c
    <3>1. Len(answers'[d]) = Len(answers[d]) - 1 /\ Len(answers[d]) \in Nat \ {0}
      BY <1>4, <2>5
    <3>2. waiting'[d] = waiting[d] - 1
      BY <2>4, <2>5
    <3> DEFINE k == Cardinality(At(inbox, RequestsOf(S, d)))
    <3>3. k \in Nat /\ waiting[d] = Len(answers[d]) + k /\ waiting[d] \in 0..QUEUE
          /\ UnderWay(d)' = Len(answers'[d]) + k
      BY <2>1, <2>2, <2>3
    <3> HIDE DEF k
    <3> QED
      BY <3>1, <3>2, <3>3, QueueAssumption
  <2>6. CASE d # c
    <3>1. answers'[d] = answers[d]
      BY <1>4, <2>6
    <3> QED
      BY <2>1, <2>3, <2>4, <2>6, <3>1
  <2> QED
    BY <2>5, <2>6
<1>6. AnswersAccountedFor'
  BY <1>5 DEF AnswersAccountedFor
<1>7. waiting' \in [Clients -> 0..QUEUE]
  BY <1>1, <1>5 DEF AnswersInv
<1>8. \A d \in Clients : \E U : answers'[d] \in Seq(U)
  BY <1>4 DEF AnswersInv
<1> QED
  BY <1>1, <1>2, <1>4, <1>6, <1>7, <1>8 DEF AnswersInv

\* Every step.
LEMMA NextAccounted == AnswersInv /\ [Next]_vars => AnswersInv'
<1> SUFFICES ASSUME AnswersInv, [Next]_vars PROVE AnswersInv'
  OBVIOUS
<1>1. CASE dispatch
  BY <1>1, DispatchAccounted
<1>2. ASSUME NEW c \in Clients, client_send(c) PROVE AnswersInv'
  <2>1. PICK verb, arg0, arg1, n, back : Request(c, verb, arg0, arg1, n, back)
    BY <1>2, Zenon DEF client_send
  <2> QED
    BY <2>1, SendAccounted
<1>3. ASSUME NEW c \in Clients, client_recv(c) PROVE AnswersInv'
  BY <1>3, RecvAccounted
<1>4. CASE p9_message \/ UNCHANGED vars
  <2>1. UNCHANGED <<inbox, answers, waiting>>
    BY <1>4 DEF p9_message, vars, msg_vars, client_vars
  <2>2. \A c : UnderWay(c)' = UnderWay(c)
    BY <2>1 DEF UnderWay
  <2> QED
    BY <2>1, <2>2 DEF AnswersInv, AnswersAccountedFor
<1> QED
  BY <1>1, <1>2, <1>3, <1>4 DEF Next

\* No answer is lost: a request that can be decoded is in the kernel's inbox,
\* or its answer is in the client's, until the client takes it, although the
\* dispatcher ignores whether the answer could be queued.
THEOREM NoAnswerIsLost == Spec => []AnswersAccountedFor
<1>1. Init => AnswersInv
  <2> SUFFICES ASSUME Init PROVE AnswersInv
    OBVIOUS
  <2>1. inbox = <<>> /\ answers = [c \in Clients |-> <<>>] /\ waiting = [c \in Clients |-> 0]
    BY DEF Init
  <2>2. \A c \in Clients : UnderWay(c) = 0
    BY <2>1, FS_EmptySet DEF UnderWay
  <2> QED
    BY <2>1, <2>2, QueueAssumption DEF AnswersInv, AnswersAccountedFor
<1>2. AnswersInv => AnswersAccountedFor
  BY DEF AnswersInv
<1> QED
  BY <1>1, <1>2, NextAccounted, PTL DEF Spec

-----------------------------------------------------------------------------
(* The descriptor table *)

\* The table is a function to records.
TableShape ==
  /\ fd_table = [f \in Fds |-> fd_table[f]]
  /\ \A f \in Fds : /\ fd_table[f].in_use \in BOOLEAN
                    /\ fd_table[f] = [in_use |-> fd_table[f].in_use, ino |-> fd_table[f].ino,
                                      pos |-> fd_table[f].pos]

\* What a step does to the table: it leaves a descriptor on its file, all of
\* them, all but one, or puts one into use that was not.
Same(f)      == fd_table'[f].in_use = fd_table[f].in_use /\ fd_table'[f].ino = fd_table[f].ino
AllSame      == \A f \in Fds : Same(f)
SameBut(r)   == \A f \in Fds \ {r} : Same(f)
Opens(r)     == r \in Fds /\ ~ fd_table[r].in_use /\ fd_table'[r].in_use /\ SameBut(r)

\* An entry is replaced by a record.
Put(r, u, i, p) == fd_table' = [fd_table EXCEPT ![r] = [in_use |-> u, ino |-> i, pos |-> p]]

\* An entry that is replaced by a record is the only one that changes.
LEMMA Replaced ==
  ASSUME TableShape, NEW r \in Fds, NEW u \in BOOLEAN, NEW i, NEW p, Put(r, u, i, p)
  PROVE  /\ TableShape' /\ SameBut(r)
         /\ fd_table'[r].in_use = u /\ fd_table'[r].ino = i
<1>1. /\ fd_table'[r] = [in_use |-> u, ino |-> i, pos |-> p]
      /\ \A f \in Fds \ {r} : fd_table'[f] = fd_table[f]
      /\ fd_table' = [f \in Fds |-> fd_table'[f]]
  BY DEF TableShape, Put
<1>2. /\ fd_table'[r].in_use = u /\ fd_table'[r].ino = i /\ fd_table'[r].pos = p
  BY <1>1
<1>3. TableShape'
  <2>1. ASSUME NEW f \in Fds
        PROVE  /\ fd_table'[f].in_use \in BOOLEAN
               /\ fd_table'[f] = [in_use |-> fd_table'[f].in_use, ino |-> fd_table'[f].ino,
                                  pos |-> fd_table'[f].pos]
    <3>1. CASE f = r
      BY <1>1, <1>2, <3>1
    <3>2. CASE f # r
      BY <1>1, <3>2 DEF TableShape
    <3> QED
      BY <3>1, <3>2
  <2> QED
    BY <1>1, <2>1 DEF TableShape
<1> QED
  BY <1>1, <1>2, <1>3 DEF SameBut, Same

\* The same entry, in use or not.
LEMMA Toggled ==
  ASSUME TableShape, NEW f \in Fds, NEW u
  PROVE  [fd_table[f] EXCEPT !.in_use = u]
           = [in_use |-> u, ino |-> fd_table[f].ino, pos |-> fd_table[f].pos]
BY DEF TableShape

\* A new position leaves every descriptor on its file.
LEMMA Moved ==
  ASSUME TableShape, NEW f \in Fds, NEW x, fd_table' = [fd_table EXCEPT ![f].pos = x]
  PROVE  TableShape' /\ AllSame
<1>1. fd_table' = [fd_table EXCEPT ![f] = [in_use |-> fd_table[f].in_use,
                                           ino |-> fd_table[f].ino, pos |-> x]]
  <2>1. [fd_table[f] EXCEPT !.pos = x] = [in_use |-> fd_table[f].in_use,
                                          ino |-> fd_table[f].ino, pos |-> x]
    BY DEF TableShape
  <2> QED
    BY <2>1
<1>2. PICK u, i : u \in BOOLEAN /\ u = fd_table[f].in_use /\ i = fd_table[f].ino
  BY DEF TableShape
<1>3. Put(f, u, i, x)
  BY <1>1, <1>2 DEF Put
<1>4. TableShape' /\ SameBut(f) /\ fd_table'[f].in_use = u /\ fd_table'[f].ino = i
  BY <1>2, <1>3, Replaced
<1> QED
  BY <1>2, <1>4 DEF SameBut, AllSame, Same

\* Nothing changes.
LEMMA Kept == TableShape /\ UNCHANGED fd_table => TableShape' /\ AllSame
BY DEF TableShape, AllSame, Same

\* FirstFree is a descriptor that is not in use, if there is one.
LEMMA FirstFreeIsFree ==
  ASSUME FirstFree # -1
  PROVE  FirstFree \in Fds /\ ~ fd_table[FirstFree].in_use
<1>1. FreeFds # {} /\ FirstFree = Min(FreeFds)
  BY DEF FirstFree
<1>2. FreeFds \in SUBSET Nat
  BY VfsAssumption DEF FreeFds, Fds
<1>3. Min(FreeFds) \in FreeFds
  BY <1>1, <1>2, LeastNumber DEF Min
<1> QED
  BY <1>1, <1>3 DEF FreeFds

\* fd_alloc, and what vfs_open makes of it.
LEMMA AllocTable ==
  ASSUME TableShape, NEW ino, NEW r, fd_alloc(ino, r)
  PROVE  TableShape' /\ ((r = -1 /\ AllSame) \/ (r # -1 /\ Opens(r)))
<1>1. CASE r = -1
  <2>1. UNCHANGED fd_table
    BY <1>1 DEF fd_alloc
  <2> QED
    BY <1>1, <2>1, Kept
<1>2. CASE r # -1
  <2>1. r \in Fds /\ ~ fd_table[r].in_use
    BY <1>2, FirstFreeIsFree DEF fd_alloc
  <2>2. Put(r, TRUE, ino, 0)
    BY <1>2 DEF fd_alloc, Put
  <2>3. TableShape' /\ SameBut(r) /\ fd_table'[r].in_use
    BY <2>1, <2>2, Replaced
  <2> QED
    BY <1>2, <2>1, <2>3 DEF Opens
<1> QED
  BY <1>1, <1>2

\* vfs_open: a file that is found or published, or none.
LEMMA OpenTable ==
  ASSUME TableShape, NEW p, NEW creat, NEW r, vfs_open(p, creat, r)
  PROVE  TableShape' /\ ((r = -1 /\ AllSame) \/ (r # -1 /\ Opens(r)))
<1>1. CASE \E ino : fd_alloc(ino, r)
  BY <1>1, AllocTable
<1>2. CASE r = -1 /\ UNCHANGED fd_table
  BY <1>2, Kept
<1>3. (\E ino : fd_alloc(ino, r)) \/ (r = -1 /\ UNCHANGED fd_table)
  BY DEF vfs_open, vfs_vars
<1> QED
  BY <1>1, <1>2, <1>3

\* The calls that move a descriptor within its file or do not touch it.
LEMMA EditTable ==
  ASSUME TableShape, NEW f, NEW n, NEW g, NEW r \in Int,
         vfs_read(f, n, r) \/ vfs_write(f, n, r) \/ vfs_seek(f, n, g, r) \/ vfs_stat(f, r)
           \/ vfs_mkdir(f, r) \/ vfs_mount(r) \/ Unname(f) \/ UNCHANGED vfs_vars
  PROVE  TableShape' /\ AllSame
<1>1. CASE UNCHANGED fd_table
  BY <1>1, Kept
<1>2. CASE f \in Fds /\ \E p : fd_table' = [fd_table EXCEPT ![f].pos = p]
  BY <1>2, Moved
<1> QED
  BY <1>1, <1>2 DEF vfs_read, vfs_write, vfs_seek, vfs_stat, vfs_mkdir, vfs_mount, Unname,
                    vfs_vars, fd_get

\* A descriptor is closed.
LEMMA CloseTable ==
  ASSUME TableShape, NEW f, NEW r, vfs_close(f, r)
  PROVE  TableShape' /\ SameBut(f)
<1>1. CASE UNCHANGED fd_table
  BY <1>1, Kept DEF AllSame, SameBut
<1>2. CASE f \in Fds /\ fd_table' = [fd_table EXCEPT ![f].in_use = FALSE]
  <2>1. \A u : [fd_table[f] EXCEPT !.in_use = u] = [in_use |-> u, ino |-> fd_table[f].ino,
                                                       pos |-> fd_table[f].pos]
    BY <1>2, Toggled
  <2>2. Put(f, FALSE, fd_table[f].ino, fd_table[f].pos)
    BY <1>2, <2>1 DEF Put
  <2>3. f \in Fds
    BY <1>2
  <2> QED
    BY <2>2, <2>3, Replaced
<1> QED
  BY <1>1, <1>2 DEF vfs_close, fd_get

\* A descriptor is duplicated: the copy is in use.
LEMMA DupTable ==
  ASSUME TableShape, NEW old, NEW new, NEW r, vfs_dup(old, new, r), new = -1 \/ old # new
  PROVE  /\ TableShape'
         /\ \/ r = -1 /\ AllSame
            \/ r # -1 /\ Opens(r)
            \/ new # -1 /\ r = new /\ r \in Fds /\ fd_table'[r].in_use /\ SameBut(r)
<1> DEFINE target == IF new = -1 THEN FirstFree ELSE new
           source == [fd_table[old] EXCEPT !.in_use = old # target \/ old \in Standard]
<1>1. CASE r = -1 /\ UNCHANGED vfs_vars
  BY <1>1, Kept DEF vfs_vars
<1>2. CASE fd_get(old) /\ target \in Fds /\ r = target /\ fd_table' = [fd_table EXCEPT ![target] = source]
  <2>1. r \in Fds /\ r # -1 /\ old \in Fds /\ fd_table[old].in_use
    BY <1>2, VfsAssumption DEF fd_get, Fds
  <2>2. old # target /\ (new = -1 => ~ fd_table[r].in_use)
    <3>1. CASE new = -1
      BY <1>2, <2>1, <3>1, FirstFreeIsFree
    <3>2. CASE new # -1
      BY <3>2
    <3> QED
      BY <3>1, <3>2
  <2>3. source = [in_use |-> TRUE, ino |-> fd_table[old].ino, pos |-> fd_table[old].pos]
    <3> old \in Fds
      BY <2>1
    <3>1. source = [fd_table[old] EXCEPT !.in_use = TRUE]
      BY <2>2
    <3>2. \A u : [fd_table[old] EXCEPT !.in_use = u]
                   = [in_use |-> u, ino |-> fd_table[old].ino, pos |-> fd_table[old].pos]
      BY Toggled
    <3> QED
      BY <3>1, <3>2
  <2>4. new # -1 => r = new
    BY <1>2
  <2> HIDE DEF source, target
  <2>5. Put(r, TRUE, fd_table[old].ino, fd_table[old].pos)
    BY <1>2, <2>3 DEF Put
  <2>6. TableShape' /\ SameBut(r) /\ fd_table'[r].in_use
    BY <2>1, <2>5, Replaced
  <2> QED
    BY <2>1, <2>2, <2>4, <2>6 DEF Opens
<1> QED
  BY <1>1, <1>2 DEF vfs_dup

-----------------------------------------------------------------------------
(* The fids *)

\* A fid, from its fields.
Fid(u, v, w, y, e, g) == [in_use |-> u, fid |-> v, path |-> w, fd |-> y, open |-> e, ino |-> g]
FieldsOf(x) == Fid(x.in_use, x.fid, x.path, x.fd, x.open, x.ino)

\* The fids are a function to records.
FidShape ==
  /\ fids = [s \in Slots |-> fids[s]]
  /\ \A s \in Slots : fids[s] = FieldsOf(fids[s])

\* A fid is replaced by a record, or stays as it was.
PutFid(s, a, b, c, d, e, g) ==
  fids' = [fids EXCEPT ![s] = Fid(a, b, c, d, e, g)]
SameFid(s) == fids'[s] = fids[s]
Shut(s)    == ~ (fids'[s].open /\ fids'[s].fd >= 0)

\* A fid that is replaced is the only one that changes.
LEMMA FidReplaced ==
  ASSUME FidShape, NEW s \in Slots, NEW a, NEW b, NEW c, NEW d, NEW e, NEW g,
         PutFid(s, a, b, c, d, e, g)
  PROVE  /\ FidShape' /\ \A t \in Slots \ {s} : SameFid(t)
         /\ fids'[s].fd = d /\ fids'[s].ino = g
<1>1. /\ fids' = [t \in Slots |-> fids'[t]]
      /\ fids'[s] = Fid(a, b, c, d, e, g)
      /\ \A t \in Slots \ {s} : fids'[t] = fids[t]
  BY DEF FidShape, PutFid
<1>2. /\ fids'[s] = FieldsOf(fids'[s])
      /\ fids'[s].fd = d /\ fids'[s].ino = g
  BY <1>1 DEF Fid, FieldsOf
<1>3. ASSUME NEW t \in Slots
      PROVE  fids'[t] = FieldsOf(fids'[t])
  <2>1. CASE t = s
    BY <1>2, <2>1
  <2>2. CASE t # s
    BY <1>1, <2>2 DEF FidShape
  <2> QED
    BY <2>1, <2>2
<1> QED
  BY <1>1, <1>2, <1>3 DEF FidShape, SameFid

\* A fid with a new number and path, or a new descriptor.
Renamed(x, a, b, c) == [x EXCEPT !.in_use = a, !.fid = b, !.path = c]
Reopened(x, a, b, c) == [x EXCEPT !.fd = a, !.open = b, !.ino = c]

\* The fields a fid has then.
LEMMA FidFields ==
  ASSUME NEW x, NEW u, NEW v, NEW w, NEW y, NEW e, NEW g, x = Fid(u, v, w, y, e, g),
         NEW a, NEW b, NEW c
  PROVE  /\ Renamed(x, a, b, c) = Fid(a, b, c, y, e, g)
         /\ Reopened(x, a, b, c) = Fid(u, v, w, a, b, c)
<1>1. Renamed(x, a, b, c) = Fid(a, b, c, y, e, g)
  <2> DEFINE p == [x EXCEPT !.in_use = a]
             q == [p EXCEPT !.fid = b]
             s == [q EXCEPT !.path = c]
  <2>1. s = Renamed(x, a, b, c)
    BY Zenon DEF Renamed
  <2>2. p = Fid(a, v, w, y, e, g)
    BY DEF Fid
  <2> HIDE DEF p
  <2>3. q = Fid(a, b, w, y, e, g)
    BY <2>2 DEF Fid
  <2> HIDE DEF q
  <2>4. s = Fid(a, b, c, y, e, g)
    BY <2>3 DEF Fid
  <2> HIDE DEF s
  <2> QED
    BY <2>1, <2>4, Zenon
<1>2. Reopened(x, a, b, c) = Fid(u, v, w, a, b, c)
  <2> DEFINE p == [x EXCEPT !.fd = a]
             q == [p EXCEPT !.open = b]
             s == [q EXCEPT !.ino = c]
  <2>1. s = Reopened(x, a, b, c)
    BY Zenon DEF Reopened
  <2>2. p = Fid(u, v, w, a, e, g)
    BY DEF Fid
  <2> HIDE DEF p
  <2>3. q = Fid(u, v, w, a, b, g)
    BY <2>2 DEF Fid
  <2> HIDE DEF q
  <2>4. s = Fid(u, v, w, a, b, c)
    BY <2>3 DEF Fid
  <2> HIDE DEF s
  <2> QED
    BY <2>1, <2>4, Zenon
<1> QED
  BY <1>1, <1>2, Zenon

\* A fid that is not in use has no descriptor.
LEMMA NoFidShape ==
  \E u, v, w, e, g : NoFid = Fid(u, v, w, -1, e, g)
<1>1. PICK v : v = CHOOSE n \in FidNumbers : TRUE
  OBVIOUS
<1>2. NoFid = Fid(FALSE, v, <<>>, -1, FALSE, 0)
  BY <1>1 DEF NoFid, Fid
<1>3. PICK u : u = FALSE
  OBVIOUS
<1>4. NoFid = Fid(u, v, <<>>, -1, u, 0)
  BY <1>2, <1>3
<1> QED
  BY <1>4

\* A slot that is found by a search is one.
LEMMA LeastSlot ==
  ASSUME NEW S \in SUBSET Slots, S # {}
  PROVE  Min(S) \in S
<1>1. S \in SUBSET Nat
  BY P9Assumption DEF Slots
<1> QED
  BY <1>1, LeastNumber DEF Min

\* fid_find returns a slot or 0.
LEMMA FoundSlot == \A n : fid_find(n) # 0 => fid_find(n) \in Slots
<1> SUFFICES ASSUME NEW n, fid_find(n) # 0 PROVE fid_find(n) \in Slots
  OBVIOUS
<1> DEFINE found == {s \in Slots : fids[s].in_use /\ fids[s].fid = n}
<1>1. found # {} /\ fid_find(n) = Min(found)
  BY DEF fid_find
<1>2. Min(found) \in found
  BY <1>1, LeastSlot
<1> QED
  BY <1>1, <1>2

\* A new fid is not open.
LEMMA AllocFid ==
  ASSUME FidShape, NEW n, NEW p, fids' = fid_alloc(n, p)
  PROVE  FidShape' /\ \A s \in Slots : SameFid(s) \/ Shut(s)
<1> DEFINE free == {s \in Slots : ~ fids[s].in_use}
<1>1. CASE free = {}
  <2>1. fids' = fids
    BY <1>1 DEF fid_alloc
  <2> QED
    BY <2>1 DEF FidShape, SameFid
<1>2. CASE free # {}
  <2>1. Min(free) \in Slots
    BY <1>2, LeastSlot
  <2>2. fids' = [fids EXCEPT ![Min(free)] = Renamed(NoFid, TRUE, n, p)]
    BY <1>2, Zenon DEF fid_alloc, Renamed
  <2>3. PICK s \in Slots : s = Min(free)
    BY <2>1
  <2> HIDE DEF free
  <2>4. PICK a : fids' = [fids EXCEPT ![s] = Renamed(NoFid, a, n, p)]
    BY <2>2, <2>3
  <2>5. PICK u, v, w, e, g : NoFid = Fid(u, v, w, -1, e, g)
    BY NoFidShape
  <2>6. Renamed(NoFid, a, n, p) = Fid(a, n, p, -1, e, g)
    BY <2>5, FidFields
  <2>7. PutFid(s, a, n, p, -1, e, g)
    BY <2>4, <2>6 DEF PutFid
  <2>8. FidShape' /\ (\A t \in Slots \ {s} : SameFid(t)) /\ fids'[s].fd = -1
    BY <2>7, FidReplaced
  <2> QED
    BY <2>8 DEF Shut
<1> QED
  BY <1>1, <1>2

\* What a message does: it leaves the descriptors and shuts some fids, or
\* opens a fid on a new descriptor, or closes that of a fid.
P9Step ==
  \/ AllSame /\ \A s \in Slots : SameFid(s) \/ Shut(s)
  \/ \E s \in Slots : /\ Opens(fids'[s].fd) /\ fids'[s].ino = fd_table'[fids'[s].fd].ino
                      /\ \A t \in Slots \ {s} : SameFid(t)
  \/ \E s \in Slots : /\ Opened(s) /\ SameBut(fids[s].fd) /\ Shut(s)
                      /\ \A t \in Slots \ {s} : SameFid(t)

\* Topen: the fid gets the descriptor, or is shut when there is none.
LEMMA TopenStep ==
  ASSUME TableShape, FidShape, NEW n, NEW creat, NEW r \in Results, Topen(n, creat, r)
  PROVE  TableShape' /\ FidShape' /\ P9Step
<1>1. PICK s \in Slots : s = fid_find(n)
  BY FoundSlot DEF Topen
<1> DEFINE i == IF r = -1 THEN 0 ELSE fd_table'[r].ino
<1>2. TableShape' /\ ((r = -1 /\ AllSame) \/ (r # -1 /\ Opens(r)))
  BY OpenTable DEF Topen
<1>3. PICK e : PutFid(s, fids[s].in_use, fids[s].fid, fids[s].path, r, e, i)
  <2>1. fids' = [fids EXCEPT ![s] = Reopened(fids[s], r, TRUE, i)]
    <3>1. fids' = [fids EXCEPT ![s].fd = r, ![s].open = TRUE, ![s].ino = i]
      BY <1>1 DEF Topen
    <3> QED
      BY <3>1 DEF FidShape, Reopened
  <2>2. PICK e : fids' = [fids EXCEPT ![s] = Reopened(fids[s], r, e, i)]
    BY <2>1
  <2> HIDE DEF i
  <2>3. Reopened(fids[s], r, e, i) = Fid(fids[s].in_use, fids[s].fid, fids[s].path, r, e, i)
    BY FidFields DEF FidShape, FieldsOf
  <2> QED
    BY <2>2, <2>3 DEF PutFid
<1>4. FidShape' /\ (\A t \in Slots \ {s} : SameFid(t)) /\ fids'[s].fd = r /\ fids'[s].ino = i
  BY <1>1, <1>3, FidReplaced
<1>5. CASE r = -1
  <2>1. Shut(s)
    BY <1>4, <1>5 DEF Shut
  <2> QED
    BY <1>1, <1>2, <1>4, <1>5, <2>1 DEF P9Step
<1>6. CASE r # -1
  BY <1>1, <1>2, <1>4, <1>6 DEF P9Step
<1> QED
  BY <1>5, <1>6

\* Tclunk: the descriptor is closed and the fid forgotten.
LEMMA TclunkStep ==
  ASSUME TableShape, FidShape, NEW n, NEW r \in Results, Tclunk(n, r)
  PROVE  TableShape' /\ FidShape' /\ P9Step
<1>1. PICK s \in Slots : s = fid_find(n)
  BY FoundSlot DEF Tclunk
<1>2. PICK u, v, w, e, g : PutFid(s, u, v, w, -1, e, g)
  <2>1. PICK u, v, w, e, g : NoFid = Fid(u, v, w, -1, e, g)
    BY NoFidShape
  <2> QED
    BY <1>1, <2>1 DEF PutFid, Tclunk
<1>3. IF Opened(s) THEN vfs_close(fids[s].fd, r) ELSE UNCHANGED vfs_vars
  BY <1>1 DEF Tclunk
<1>4. FidShape' /\ (\A t \in Slots \ {s} : SameFid(t)) /\ Shut(s)
  <2>1. FidShape' /\ (\A t \in Slots \ {s} : SameFid(t)) /\ fids'[s].fd = -1
    BY <1>2, FidReplaced
  <2> QED
    BY <2>1 DEF Shut
<1>5. CASE Opened(s)
  <2>1. TableShape' /\ SameBut(fids[s].fd)
    BY <1>3, <1>5, CloseTable
  <2> QED
    BY <1>1, <1>4, <1>5, <2>1 DEF P9Step
<1>6. CASE ~ Opened(s)
  <2>1. TableShape' /\ AllSame
    BY <1>3, <1>6, Kept DEF vfs_vars
  <2> QED
    BY <1>1, <1>4, <2>1 DEF P9Step
<1> QED
  BY <1>5, <1>6

\* Every message.
LEMMA P9Steps == TableShape /\ FidShape /\ p9_server_handle => TableShape' /\ FidShape' /\ P9Step
<1> SUFFICES ASSUME TableShape, FidShape, p9_server_handle
             PROVE  TableShape' /\ FidShape' /\ P9Step
  OBVIOUS
<1>1. CASE UNCHANGED <<fids, fd_table>>
  BY <1>1, Kept DEF FidShape, SameFid, P9Step
<1>2. CASE \E m \in 12..P9_MSIZE : Tversion(m)
  BY <1>1, <1>2 DEF Tversion, vfs_vars
<1>3. CASE UNCHANGED fd_table /\ \E n, p : fids' = fid_alloc(n, p)
  BY <1>3, AllocFid, Kept DEF P9Step
<1>4. CASE \E n \in FidNumbers : Tattach(n)
  BY <1>3, <1>4 DEF Tattach, vfs_vars
<1>5. CASE \E n, newfid \in FidNumbers, name \in Names \cup {DotDot} : Twalk(n, newfid, <<name>>)
  BY <1>3, <1>5 DEF Twalk, vfs_vars
<1>6. ASSUME NEW n \in FidNumbers, NEW r \in Results, NEW c \in BOOLEAN, Topen(n, c, r)
      PROVE  TableShape' /\ FidShape' /\ P9Step
  BY <1>6, TopenStep
<1>7. ASSUME NEW n \in FidNumbers, NEW r \in Results, NEW count, Tread(n, count, r) \/ Twrite(n, count, r)
      PROVE  TableShape' /\ FidShape' /\ P9Step
  <2>1. fids' = fids /\ \E f, k : vfs_read(f, k, r) \/ vfs_write(f, k, r)
    BY <1>7 DEF Tread, Twrite, p9_vars
  <2>2. r \in Int
    BY VfsAssumption DEF Results
  <2>3. TableShape' /\ AllSame
    BY <2>1, <2>2, EditTable
  <2> QED
    BY <2>1, <2>3 DEF FidShape, SameFid, P9Step
<1>8. ASSUME NEW n \in FidNumbers, NEW r \in Results, Tclunk(n, r)
      PROVE  TableShape' /\ FidShape' /\ P9Step
  BY <1>8, TclunkStep
<1> QED
  BY <1>2, <1>4, <1>5, <1>6, <1>7, <1>8 DEF p9_server_handle

-----------------------------------------------------------------------------
(* Holders *)

\* The request x gives the descriptor f back.
GivesBack(x, f) == f # -1 /\ ((x[1] = "close" /\ x[4] = f) \/ (x[1] = "dup" /\ x[3] = f))

\* Who has the descriptor f, on the inode i: a client (1, its pid, 0), an answer
\* under way (2, pid, place), a fid (3, 0, slot), or a request that gives it
\* back (4, 0, place), which has it on the file it is on.
ClientHas(a, b, f, i)  == b = 0 /\ a \in Clients /\ \E o \in held[a] : o.fd = f /\ o.ino = i
AnswerHas(a, b, f, i)  == /\ a \in Clients /\ b \in 1..Len(answers[a]) /\ answers[a][b] # AnswerNone
                          /\ answers[a][b].fd = f /\ answers[a][b].ino = i
FidHas(a, b, f, i)     == a = 0 /\ b \in Slots /\ Opened(b) /\ fids[b].fd = f /\ fids[b].ino = i
RequestHas(a, b, f, i) == /\ a = 0 /\ b \in 1..Len(inbox) /\ GivesBack(inbox[b], f)
                          /\ i = fd_table[f].ino

Has(k, a, b, f, i) ==
  \/ k = 1 /\ ClientHas(a, b, f, i)
  \/ k = 2 /\ AnswerHas(a, b, f, i)
  \/ k = 3 /\ FidHas(a, b, f, i)
  \/ k = 4 /\ RequestHas(a, b, f, i)

On(f, i) == f \in Fds /\ fd_table[f].in_use /\ fd_table[f].ino = i

\* What is held is open, on the file it was opened on, and has one holder.
HoldersLive == \A k, a, b, f, i : Has(k, a, b, f, i) => On(f, i)
OneHolder ==
  \A k, a, b, f, i, l, c, d, j :
    Has(k, a, b, f, i) /\ Has(l, c, d, f, j) => k = l /\ a = c /\ b = d

\* A request does not duplicate a descriptor onto itself.
RequestsApart == \A b \in 1..Len(inbox) :
                   inbox[b][1] = "dup" => inbox[b][3] = -1 \/ inbox[b][4] # inbox[b][3]

HeldShape ==
  /\ held = [c \in Clients |-> held[c]]
  /\ \A c \in Clients : \A o \in held[c] : o = [fd |-> o.fd, ino |-> o.ino]
AnswerShape ==
  \A c \in Clients : \A b \in 1..Len(answers[c]) :
    answers[c][b] = [fd |-> answers[c][b].fd, ino |-> answers[c][b].ino]

HoldInv ==
  /\ AnswersInv /\ TableShape /\ FidShape /\ HeldShape /\ AnswerShape
  /\ RequestsApart /\ HoldersLive /\ OneHolder

\* A client sends a request: what it gives back passes to the request.
LEMMA SendHolds ==
  ASSUME HoldInv, NEW c \in Clients, NEW verb, NEW arg0, NEW arg1, NEW n, NEW back,
         Request(c, verb, arg0, arg1, n, back), back \in SUBSET HeldFds(c),
         verb = "close" => n \in back,
         verb = "dup" => arg1 = -1 \/ (arg1 \in back /\ n # arg1)
  PROVE  HoldInv'
<1>1. AnswersInv'
  BY SendAccounted DEF HoldInv
<1> DEFINE x == kmsg_encode([verb |-> verb, arg0 |-> arg0, arg1 |-> arg1, n |-> n, sender_pid |-> c])
<1>2. x[1] = verb /\ x[3] = arg1 /\ x[4] = n
  BY DEF kmsg_encode
<1>3. /\ inbox' = Append(inbox, x)
      /\ held' = [held EXCEPT ![c] = {o \in @ : o.fd \notin back}]
      /\ UNCHANGED <<answers, fids, fd_table>>
  BY DEF Request, vfs_vars, p9_vars
<1> HIDE DEF x
<1>4. PICK S : inbox \in Seq(S)
  BY DEF HoldInv, AnswersInv
<1>5. /\ Len(inbox) \in Nat /\ Len(inbox') = Len(inbox) + 1
      /\ \A b \in 1..Len(inbox) : inbox'[b] = inbox[b]
      /\ inbox'[Len(inbox) + 1] = x
  <2>1. inbox \in Seq(S \cup {x}) /\ x \in S \cup {x}
    BY <1>4
  <2> QED
    BY <1>3, <2>1
<1>6. /\ \A a \in Clients \ {c} : held'[a] = held[a]
      /\ held'[c] = {o \in held[c] : o.fd \notin back}
      /\ held' = [a \in Clients |-> held'[a]]
  BY <1>3 DEF HoldInv, HeldShape
<1>7. HeldShape'
  <2>1. \A a \in Clients : held'[a] \in SUBSET held[a]
    BY <1>6
  <2> QED
    BY <1>6, <2>1 DEF HoldInv, HeldShape
<1>8. TableShape' /\ FidShape' /\ AnswerShape'
  BY <1>3 DEF HoldInv, TableShape, FidShape, AnswerShape
<1>9. RequestsApart'
  <2> SUFFICES ASSUME NEW b \in 1..Len(inbox'), inbox'[b][1] = "dup"
               PROVE  inbox'[b][3] = -1 \/ inbox'[b][4] # inbox'[b][3]
    BY DEF RequestsApart
  <2>1. CASE b = Len(inbox) + 1
    BY <1>2, <1>5, <2>1
  <2>2. CASE b \in 1..Len(inbox)
    BY <1>5, <2>2 DEF HoldInv, RequestsApart
  <2> QED
    BY <1>5, <2>1, <2>2
<1>10. \A f : GivesBack(x, f) => f \in back
  BY <1>2 DEF GivesBack
<1>11. \A f, i : On(f, i)' <=> On(f, i)
  BY <1>3 DEF On
<1>12. ASSUME NEW k, NEW a, NEW b, NEW f, NEW i, Has(k, a, b, f, i)'
       PROVE  \/ Has(k, a, b, f, i) /\ ~ (k = 1 /\ a = c /\ f \in back)
              \/ k = 4 /\ a = 0 /\ b = Len(inbox) + 1 /\ f \in back /\ Has(1, c, 0, f, i)
  <2>1. CASE k = 1 /\ ClientHas(a, b, f, i)'
    <3>1. PICK o \in held'[a] : o.fd = f /\ o.ino = i /\ b = 0 /\ a \in Clients
      BY <2>1 DEF ClientHas
    <3>2. o \in held[a] /\ (a = c => o.fd \notin back)
      BY <1>6, <3>1
    <3> QED
      BY <2>1, <3>1, <3>2 DEF Has, ClientHas
  <2>2. CASE k = 2 /\ AnswerHas(a, b, f, i)'
    BY <1>3, <2>2 DEF Has, AnswerHas
  <2>3. CASE k = 3 /\ FidHas(a, b, f, i)'
    BY <1>3, <2>3 DEF Has, FidHas, Opened
  <2>4. CASE k = 4 /\ RequestHas(a, b, f, i)'
    <3>1. a = 0 /\ b \in 1..(Len(inbox) + 1) /\ GivesBack(inbox'[b], f) /\ i = fd_table[f].ino
      BY <1>3, <1>5, <2>4 DEF RequestHas, GivesBack
    <3>2. CASE b \in 1..Len(inbox)
      BY <1>5, <2>4, <3>1, <3>2 DEF Has, RequestHas
    <3>3. CASE b = Len(inbox) + 1
      <4>1. f \in back
        BY <1>5, <1>10, <3>1, <3>3
      <4>2. PICK o \in held[c] : o.fd = f
        BY <4>1 DEF HeldFds
      <4>3. Has(1, c, 0, f, o.ino)
        BY <4>2 DEF Has, ClientHas
      <4>4. o.ino = i
        BY <3>1, <4>3 DEF HoldInv, HoldersLive, On
      <4> QED
        BY <2>4, <3>1, <3>3, <4>1, <4>3, <4>4
    <3> QED
      BY <1>5, <3>1, <3>2, <3>3
  <2> QED
    BY <1>12, <2>1, <2>2, <2>3, <2>4 DEF Has
<1>13. HoldersLive'
  BY <1>11, <1>12 DEF HoldInv, HoldersLive
<1>14. OneHolder'
  <2> SUFFICES ASSUME NEW k, NEW a, NEW b, NEW f, NEW i, NEW l, NEW d, NEW e, NEW j,
                      Has(k, a, b, f, i)', Has(l, d, e, f, j)'
               PROVE  k = l /\ a = d /\ b = e
    BY DEF OneHolder
  <2>1. \A k1, a1, b1, i1, l1, d1, e1, j1 :
          Has(k1, a1, b1, f, i1) /\ Has(l1, d1, e1, f, j1) => k1 = l1 /\ a1 = d1 /\ b1 = e1
    BY DEF HoldInv, OneHolder
  <2>2. \/ Has(k, a, b, f, i) /\ ~ (k = 1 /\ a = c /\ f \in back)
        \/ k = 4 /\ a = 0 /\ b = Len(inbox) + 1 /\ f \in back /\ Has(1, c, 0, f, i)
    BY <1>12
  <2>3. \/ Has(l, d, e, f, j) /\ ~ (l = 1 /\ d = c /\ f \in back)
        \/ l = 4 /\ d = 0 /\ e = Len(inbox) + 1 /\ f \in back /\ Has(1, c, 0, f, j)
    BY <1>12
  <2> QED
    BY <2>1, <2>2, <2>3
<1> QED
  BY <1>1, <1>7, <1>8, <1>9, <1>13, <1>14 DEF HoldInv

\* A client takes an answer: the descriptor passes to the client.
LEMMA RecvHolds ==
  ASSUME HoldInv, NEW c \in Clients, client_recv(c)
  PROVE  HoldInv'
<1>1. AnswersInv'
  BY RecvAccounted DEF HoldInv
<1>2. /\ answers[c] # <<>> /\ answers' = [answers EXCEPT ![c] = Tail(@)]
      /\ held' = IF Head(answers[c]) = AnswerNone THEN held
                 ELSE [held EXCEPT ![c] = @ \cup {Head(answers[c])}]
      /\ UNCHANGED <<inbox, fids, fd_table>>
  BY DEF client_recv, vfs_vars, p9_vars
<1>3. PICK T : answers[c] \in Seq(T)
  BY DEF HoldInv, AnswersInv
<1> DEFINE h == answers[c][1]
<1>4. /\ Len(answers[c]) \in Nat \ {0} /\ Len(answers'[c]) = Len(answers[c]) - 1
      /\ \A b \in 1..(Len(answers[c]) - 1) : answers'[c][b] = answers[c][b + 1]
      /\ Head(answers[c]) = h
  <2>1. answers'[c] = Tail(answers[c])
    BY <1>2 DEF HoldInv, AnswersInv
  <2>2. /\ Len(answers[c]) \in Nat \ {0} /\ Head(answers[c]) = answers[c][1]
        /\ Len(Tail(answers[c])) = Len(answers[c]) - 1
    BY <1>2, <1>3
  <2>3. \A b \in 1..(Len(answers[c]) - 1) : Tail(answers[c])[b] = answers[c][b + 1]
    BY <1>2, <1>3
  <2> HIDE DEF h
  <2> QED
    BY <2>1, <2>2, <2>3 DEF h
<1>5. \A a \in Clients \ {c} : answers'[a] = answers[a]
  BY <1>2 DEF HoldInv, AnswersInv
<1>6. h = [fd |-> h.fd, ino |-> h.ino]
  BY <1>4 DEF HoldInv, AnswerShape
<1>7. /\ \A a \in Clients \ {c} : held'[a] = held[a]
      /\ held'[c] = held[c] \/ (h # AnswerNone /\ held'[c] = held[c] \cup {h})
      /\ held' = [a \in Clients |-> held'[a]]
  BY <1>2, <1>4 DEF HoldInv, HeldShape
<1> HIDE DEF h
<1>8. HeldShape'
  <2>1. \A a \in Clients : \A o \in held'[a] : o \in held[a] \/ o = h
    BY <1>7
  <2> QED
    BY <1>6, <1>7, <2>1 DEF HoldInv, HeldShape
<1>9. AnswerShape'
  <2> SUFFICES ASSUME NEW a \in Clients, NEW b \in 1..Len(answers'[a])
               PROVE  answers'[a][b] = [fd |-> answers'[a][b].fd, ino |-> answers'[a][b].ino]
    BY DEF AnswerShape
  <2>1. CASE a = c
    <3>1. b \in 1..(Len(answers[c]) - 1) /\ b + 1 \in 1..Len(answers[c])
      BY <1>4, <2>1
    <3>2. answers'[a][b] = answers[c][b + 1]
      BY <1>4, <2>1, <3>1
    <3> QED
      BY <3>1, <3>2 DEF HoldInv, AnswerShape
  <2>2. CASE a # c
    BY <1>5, <2>2 DEF HoldInv, AnswerShape
  <2> QED
    BY <2>1, <2>2
<1>10. TableShape' /\ FidShape' /\ RequestsApart'
  BY <1>2 DEF HoldInv, TableShape, FidShape, RequestsApart
<1>11. \A f, i : On(f, i)' <=> On(f, i)
  BY <1>2 DEF On
<1>12. ASSUME NEW k, NEW a, NEW b, NEW f, NEW i, Has(k, a, b, f, i)'
       PROVE  \/ Has(k, a, b, f, i) /\ ~ (k = 2 /\ a = c)
              \/ k = 2 /\ a = c /\ b \in Nat \ {0} /\ Has(2, c, b + 1, f, i)
              \/ k = 1 /\ a = c /\ b = 0 /\ Has(2, c, 1, f, i)
  <2>1. CASE k = 1 /\ ClientHas(a, b, f, i)'
    <3>1. PICK o \in held'[a] : o.fd = f /\ o.ino = i /\ b = 0 /\ a \in Clients
      BY <2>1 DEF ClientHas
    <3>2. CASE o \in held[a]
      BY <2>1, <3>1, <3>2 DEF Has, ClientHas
    <3>3. CASE o \notin held[a]
      <4>1. a = c /\ o = h /\ h # AnswerNone
        BY <1>7, <3>1, <3>3
      <4>2. AnswerHas(c, 1, f, i)
        BY <1>4, <3>1, <4>1 DEF AnswerHas, h
      <4> QED
        BY <2>1, <3>1, <4>1, <4>2 DEF Has
    <3> QED
      BY <3>2, <3>3
  <2>2. CASE k = 2 /\ AnswerHas(a, b, f, i)'
    <3>1. /\ a \in Clients /\ b \in 1..Len(answers'[a]) /\ answers'[a][b] # AnswerNone
          /\ answers'[a][b].fd = f /\ answers'[a][b].ino = i
      BY <2>2 DEF AnswerHas, AnswerNone
    <3>2. CASE a = c
      <4>1. b \in 1..(Len(answers[c]) - 1) /\ b + 1 \in 1..Len(answers[c]) /\ b \in Nat \ {0}
        BY <1>4, <3>1, <3>2
      <4>2. answers'[a][b] = answers[c][b + 1]
        BY <1>4, <3>2, <4>1
      <4> QED
        BY <2>2, <3>1, <3>2, <4>1, <4>2 DEF Has, AnswerHas
    <3>3. CASE a # c
      BY <1>5, <2>2, <3>1, <3>3 DEF Has, AnswerHas
    <3> QED
      BY <3>2, <3>3
  <2>3. CASE k = 3 /\ FidHas(a, b, f, i)'
    BY <1>2, <2>3 DEF Has, FidHas, Opened
  <2>4. CASE k = 4 /\ RequestHas(a, b, f, i)'
    BY <1>2, <2>4 DEF Has, RequestHas, GivesBack
  <2> QED
    BY <1>12, <2>1, <2>2, <2>3, <2>4 DEF Has
<1>13. HoldersLive'
  BY <1>11, <1>12 DEF HoldInv, HoldersLive
<1>14. OneHolder'
  <2> SUFFICES ASSUME NEW k, NEW a, NEW b, NEW f, NEW i, NEW l, NEW d, NEW e, NEW j,
                      Has(k, a, b, f, i)', Has(l, d, e, f, j)'
               PROVE  k = l /\ a = d /\ b = e
    BY DEF OneHolder
  <2>1. \A k1, a1, b1, i1, l1, d1, e1, j1 :
          Has(k1, a1, b1, f, i1) /\ Has(l1, d1, e1, f, j1) => k1 = l1 /\ a1 = d1 /\ b1 = e1
    BY DEF HoldInv, OneHolder
  <2>2. \/ Has(k, a, b, f, i) /\ ~ (k = 2 /\ a = c)
        \/ k = 2 /\ a = c /\ b \in Nat \ {0} /\ Has(2, c, b + 1, f, i)
        \/ k = 1 /\ a = c /\ b = 0 /\ Has(2, c, 1, f, i)
    BY <1>12
  <2>3. \/ Has(l, d, e, f, j) /\ ~ (l = 2 /\ d = c)
        \/ l = 2 /\ d = c /\ e \in Nat \ {0} /\ Has(2, c, e + 1, f, j)
        \/ l = 1 /\ d = c /\ e = 0 /\ Has(2, c, 1, f, j)
    BY <1>12
  <2> HIDE DEF Has
  <2> QED
    BY <2>1, <2>2, <2>3
<1> QED
  BY <1>1, <1>8, <1>9, <1>10, <1>13, <1>14 DEF HoldInv

\* What a handler does to the table, and the descriptor its answer carries.
LEMMA HandlerTable ==
  ASSUME TableShape, NEW m, NEW r \in Results, kmsg_handle(m, r),
         m.verb = "dup" => m.arg1 = -1 \/ m.n # m.arg1
  PROVE  /\ TableShape'
         /\ \/ AllSame /\ Handed(m, r) = AnswerNone
            \/ Opens(r) /\ Handed(m, r) = [fd |-> r, ino |-> fd_table'[r].ino]
            \/ m.verb = "close" /\ SameBut(m.n) /\ Handed(m, r) = AnswerNone
            \/ /\ m.verb = "dup" /\ m.arg1 = r /\ r # -1 /\ r \in Fds /\ fd_table'[r].in_use
               /\ SameBut(r) /\ Handed(m, r) = [fd |-> r, ino |-> fd_table'[r].ino]
<1>1. r \in Int
  BY VfsAssumption DEF Results
<1>2. Handed(m, r) = IF m.verb \in {"open", "create", "dup"} /\ r # -1
                     THEN [fd |-> r, ino |-> fd_table'[r].ino] ELSE AnswerNone
  BY DEF Handed
<1>3. CASE m.verb \in {"open", "create"} /\ \E creat : vfs_open(m.arg0, creat, r)
  <2>1. TableShape' /\ ((r = -1 /\ AllSame) \/ (r # -1 /\ Opens(r)))
    BY <1>3, OpenTable
  <2> QED
    BY <1>2, <1>3, <2>1
<1>4. CASE m.verb = "dup" /\ vfs_dup(m.n, m.arg1, r)
  <2>1. /\ TableShape'
        /\ \/ r = -1 /\ AllSame
           \/ r # -1 /\ Opens(r)
           \/ m.arg1 # -1 /\ r = m.arg1 /\ r \in Fds /\ fd_table'[r].in_use /\ SameBut(r)
    BY <1>4, DupTable
  <2> QED
    BY <1>2, <1>4, <2>1
<1>5. CASE m.verb = "close" /\ vfs_close(m.n, r)
  <2>1. TableShape' /\ SameBut(m.n)
    BY <1>5, CloseTable
  <2> QED
    BY <1>2, <1>5, <2>1
<1>6. CASE m.verb \notin {"open", "create", "dup", "close"}
           /\ \E f, n, g : \/ vfs_read(f, n, r) \/ vfs_write(f, n, r) \/ vfs_seek(f, n, g, r)
                           \/ vfs_stat(f, r) \/ vfs_mkdir(f, r) \/ vfs_mount(r) \/ Unname(f)
                           \/ UNCHANGED vfs_vars
  <2>1. TableShape' /\ AllSame
    BY <1>1, <1>6, EditTable
  <2> QED
    BY <1>2, <1>6, <2>1
<1> HIDE DEF Handed
<1>7. \/ m.verb \in {"open", "create"} /\ \E creat : vfs_open(m.arg0, creat, r)
      \/ m.verb = "dup" /\ vfs_dup(m.n, m.arg1, r)
      \/ m.verb = "close" /\ vfs_close(m.n, r)
      \/ m.verb \notin {"open", "create", "dup", "close"}
           /\ \E f, n, g : \/ vfs_read(f, n, r) \/ vfs_write(f, n, r) \/ vfs_seek(f, n, g, r)
                           \/ vfs_stat(f, r) \/ vfs_mkdir(f, r) \/ vfs_mount(r) \/ Unname(f)
                           \/ UNCHANGED vfs_vars
  BY DEF kmsg_handle, sys_open, sys_create, sys_dup, sys_read, sys_write, sys_close, sys_seek,
         sys_stat, sys_mkdir, sys_mount, sys_remove, sys_fork, sys_exit, sys_other, SameFiles
<1> QED
  BY <1>3, <1>4, <1>5, <1>6, <1>7

\* The dispatcher in one form: the descriptor g is touched, which only the
\* message taken may have held, and the answer x to c carries g or nothing.
Served(g, c, x) ==
  /\ \A f \in Fds \ {g} : Same(f)
  /\ \A k, a, b, i : Has(k, a, b, g, i) => k = 4 /\ a = 0 /\ b = 1
  /\ \/ answers' = answers
     \/ answers' = [answers EXCEPT ![c] = Append(@, x)]
  /\ \/ x = AnswerNone
     \/ g \in Fds /\ fd_table'[g].in_use /\ x = [fd |-> g, ino |-> fd_table'[g].ino]

\* Every iteration of the dispatcher has that form.
LEMMA DispatchServes ==
  ASSUME HoldInv, dispatch
  PROVE  TableShape' /\ \E g, x : Served(g, Head(inbox)[5], x)
<1> DEFINE y == Head(inbox)
           m == kmsg_decode(y)
           c == Head(inbox)[5]
<1>1. inbox # <<>>
  BY DEF dispatch
<1>2. 1 \in 1..Len(inbox) /\ y = inbox[1]
  BY <1>1 DEF HoldInv, AnswersInv
<1>3. \A k, a, b, f, i : Has(k, a, b, f, i) => On(f, i)
  BY DEF HoldInv, HoldersLive
<1>4. \A k, a, b, f, i, l, d, e, j :
         Has(k, a, b, f, i) /\ Has(l, d, e, f, j) => k = l /\ a = d /\ b = e
  BY DEF HoldInv, OneHolder
<1>5. \A k, a, b, i : ~ Has(k, a, b, -1, i)
  BY <1>3, VfsAssumption DEF On, Fds
<1>6. CASE Forget
  <2>1. answers' = answers /\ UNCHANGED fd_table
    BY <1>6 DEF Forget, vfs_vars
  <2>2. TableShape' /\ AllSame
    BY <2>1, Kept DEF HoldInv
  <2>3. Served(-1, c, AnswerNone)
    BY <1>5, <2>1, <2>2 DEF Served, AllSame
  <2> QED
    BY <2>2, <2>3
<1>7. CASE Answer
  <2>1. PICK r \in Results :
          /\ kmsg_handle(m, r)
          /\ answers' = IF Len(answers[c]) < QUEUE
                        THEN [answers EXCEPT ![c] = Append(@, Handed(m, r))] ELSE answers
    BY <1>7 DEF Answer, kmsg_decode
  <2> DEFINE x == Handed(m, r)
  <2>2. answers' = answers \/ answers' = [answers EXCEPT ![c] = Append(@, x)]
    BY <2>1
  <2>3. m.verb = y[1] /\ m.arg1 = y[3] /\ m.n = y[4]
    BY DEF kmsg_decode
  <2>4. m.verb = "dup" => m.arg1 = -1 \/ m.n # m.arg1
    BY <1>2, <2>3 DEF HoldInv, RequestsApart
  <2> HIDE DEF x, m, y, c
  <2>5. /\ TableShape'
        /\ \/ AllSame /\ x = AnswerNone
           \/ Opens(r) /\ x = [fd |-> r, ino |-> fd_table'[r].ino]
           \/ m.verb = "close" /\ SameBut(m.n) /\ x = AnswerNone
           \/ /\ m.verb = "dup" /\ m.arg1 = r /\ r # -1 /\ r \in Fds /\ fd_table'[r].in_use
              /\ SameBut(r) /\ x = [fd |-> r, ino |-> fd_table'[r].ino]
    BY <2>1, <2>4, HandlerTable DEF HoldInv, x
  <2>6. ASSUME NEW f, GivesBack(y, f)
        PROVE  \A k, a, b, i : Has(k, a, b, f, i) => k = 4 /\ a = 0 /\ b = 1
    <3>1. Has(4, 0, 1, f, fd_table[f].ino)
      BY <1>2, <2>6 DEF Has, RequestHas
    <3> QED
      BY <1>4, <3>1
  <2>7. CASE AllSame /\ x = AnswerNone
    <3>1. Served(-1, c, x)
      BY <1>5, <2>2, <2>7 DEF Served, AllSame
    <3> QED
      BY <2>5, <3>1 DEF c, y
  <2>8. CASE Opens(r) /\ x = [fd |-> r, ino |-> fd_table'[r].ino]
    <3>1. \A k, a, b, i : ~ Has(k, a, b, r, i)
      BY <1>3, <2>8 DEF On, Opens
    <3>2. Served(r, c, x)
      BY <2>2, <2>8, <3>1 DEF Served, Opens, SameBut
    <3> QED
      BY <2>5, <3>2 DEF c, y
  <2>9. CASE m.verb = "close" /\ SameBut(m.n) /\ x = AnswerNone
    <3>1. \A k, a, b, i : Has(k, a, b, m.n, i) => k = 4 /\ a = 0 /\ b = 1
      BY <1>5, <2>3, <2>6, <2>9 DEF GivesBack
    <3>2. Served(m.n, c, x)
      BY <2>2, <2>9, <3>1 DEF Served, SameBut
    <3> QED
      BY <2>5, <3>2 DEF c, y
  <2>10. CASE /\ m.verb = "dup" /\ m.arg1 = r /\ r # -1 /\ r \in Fds /\ fd_table'[r].in_use
              /\ SameBut(r) /\ x = [fd |-> r, ino |-> fd_table'[r].ino]
    <3>1. \A k, a, b, i : Has(k, a, b, r, i) => k = 4 /\ a = 0 /\ b = 1
      BY <2>3, <2>6, <2>10 DEF GivesBack
    <3>2. Served(r, c, x)
      BY <2>2, <2>10, <3>1 DEF Served, SameBut
    <3> QED
      BY <2>5, <3>2 DEF c, y
  <2> QED
    BY <2>5, <2>7, <2>8, <2>9, <2>10
<1> QED
  BY <1>6, <1>7 DEF dispatch

\* The dispatcher takes a request: what it held is closed or passes to the answer.
LEMMA DispatchHolds ==
  ASSUME HoldInv, dispatch
  PROVE  HoldInv'
<1>1. AnswersInv'
  BY DispatchAccounted DEF HoldInv
<1>2. /\ inbox # <<>> /\ inbox' = Tail(inbox)
      /\ UNCHANGED <<held, fids>>
  BY DEF dispatch, client_vars, p9_vars
<1>3. PICK S : inbox \in Seq(S) /\ \A x \in S : x[5] \in Clients
  BY DEF HoldInv, AnswersInv
<1>4. /\ Len(inbox) \in Nat \ {0} /\ Len(inbox') = Len(inbox) - 1
      /\ Head(inbox)[5] \in Clients
  BY <1>2, <1>3
<1>5. \A b \in 1..(Len(inbox) - 1) : inbox'[b] = inbox[b + 1]
  BY <1>2, <1>3
<1>6. PICK c \in Clients : c = Head(inbox)[5]
  BY <1>4
<1>7. PICK g, x : Served(g, c, x)
  BY <1>6, DispatchServes
<1>8. TableShape' /\ FidShape' /\ HeldShape'
  BY <1>2, DispatchServes DEF HoldInv, FidShape, HeldShape
<1>9. PICK T : answers[c] \in Seq(T)
  BY DEF HoldInv, AnswersInv
<1>10. /\ \A a \in Clients : \A b \in 1..Len(answers[a]) : answers'[a][b] = answers[a][b]
       /\ \A a \in Clients : \/ Len(answers'[a]) = Len(answers[a])
                             \/ /\ a = c /\ Len(answers'[c]) = Len(answers[c]) + 1
                                /\ answers'[c][Len(answers[c]) + 1] = x
       /\ \A a \in Clients : Len(answers[a]) \in Nat
  <2>1. \A a \in Clients : Len(answers[a]) \in Nat
    BY DEF HoldInv, AnswersInv
  <2>2. CASE answers' = answers
    BY <2>1, <2>2
  <2>3. CASE answers' = [answers EXCEPT ![c] = Append(@, x)]
    <3>1. answers'[c] = Append(answers[c], x) /\ \A a \in Clients \ {c} : answers'[a] = answers[a]
      BY <2>3 DEF HoldInv, AnswersInv
    <3>2. answers[c] \in Seq(T \cup {x})
      BY <1>9
    <3>3. /\ Len(answers'[c]) = Len(answers[c]) + 1
          /\ answers'[c][Len(answers[c]) + 1] = x
          /\ \A b \in 1..Len(answers[c]) : answers'[c][b] = answers[c][b]
      BY <3>1, <3>2
    <3> QED
      BY <2>1, <3>1, <3>3
  <2> QED
    BY <1>7, <2>2, <2>3 DEF Served
<1>11. x = [fd |-> x.fd, ino |-> x.ino]
  BY <1>7 DEF Served, AnswerNone
<1>12. AnswerShape'
  <2> SUFFICES ASSUME NEW a \in Clients, NEW b \in 1..Len(answers'[a])
               PROVE  answers'[a][b] = [fd |-> answers'[a][b].fd, ino |-> answers'[a][b].ino]
    BY DEF AnswerShape
  <2>1. CASE b \in 1..Len(answers[a])
    BY <1>10, <2>1 DEF HoldInv, AnswerShape
  <2>2. CASE b \notin 1..Len(answers[a])
    <3>1. answers'[a][b] = x
      BY <1>10, <2>2
    <3> QED
      BY <1>11, <3>1
  <2> QED
    BY <2>1, <2>2
<1>13. RequestsApart'
  <2> SUFFICES ASSUME NEW b \in 1..Len(inbox'), inbox'[b][1] = "dup"
               PROVE  inbox'[b][3] = -1 \/ inbox'[b][4] # inbox'[b][3]
    BY DEF RequestsApart
  <2>1. b \in 1..(Len(inbox) - 1) /\ b + 1 \in 1..Len(inbox)
    BY <1>4
  <2> QED
    BY <1>5, <2>1 DEF HoldInv, RequestsApart
<1>14. \A k, a, b, f, i : Has(k, a, b, f, i) => On(f, i)
  BY DEF HoldInv, HoldersLive
<1>15. \A k, a, b, i : Has(k, a, b, g, i) => k = 4 /\ a = 0 /\ b = 1
  BY <1>7 DEF Served
<1>16. \A f, i : On(f, i) /\ f # g => On(f, i)' /\ fd_table'[f].ino = fd_table[f].ino
  BY <1>7 DEF Served, On, Same
<1>17. ASSUME NEW k, NEW a, NEW b, NEW f, NEW i, Has(k, a, b, f, i)'
       PROVE  \/ f # g /\ k # 4 /\ Has(k, a, b, f, i)
              \/ f # g /\ k = 4 /\ a = 0 /\ b \in Nat \ {0} /\ Has(4, 0, b + 1, f, i)
              \/ f = g /\ k = 2 /\ a = c /\ b = Len(answers[c]) + 1 /\ On(f, i)'
  <2>1. CASE k = 1 /\ ClientHas(a, b, f, i)'
    <3>1. Has(1, a, b, f, i)
      BY <1>2, <2>1 DEF Has, ClientHas
    <3> QED
      BY <1>15, <2>1, <3>1
  <2>2. CASE k = 2 /\ AnswerHas(a, b, f, i)'
    <3>1. /\ a \in Clients /\ b \in 1..Len(answers'[a]) /\ answers'[a][b] # AnswerNone
          /\ answers'[a][b].fd = f /\ answers'[a][b].ino = i
      BY <2>2 DEF AnswerHas, AnswerNone
    <3>2. CASE b \in 1..Len(answers[a])
      <4>1. Has(2, a, b, f, i)
        BY <1>10, <3>1, <3>2 DEF Has, AnswerHas
      <4> QED
        BY <1>15, <2>2, <4>1
    <3>3. CASE b \notin 1..Len(answers[a])
      <4>1. a = c /\ b = Len(answers[c]) + 1 /\ answers'[a][b] = x
        BY <1>10, <3>1, <3>3
      <4>2. g \in Fds /\ fd_table'[g].in_use /\ x = [fd |-> g, ino |-> fd_table'[g].ino]
        BY <1>7, <3>1, <4>1 DEF Served
      <4>3. f = g /\ i = fd_table'[g].ino
        BY <3>1, <4>1, <4>2
      <4> QED
        BY <2>2, <4>1, <4>2, <4>3 DEF On
    <3> QED
      BY <3>2, <3>3
  <2>3. CASE k = 3 /\ FidHas(a, b, f, i)'
    <3>1. Has(3, a, b, f, i)
      BY <1>2, <2>3 DEF Has, FidHas, Opened
    <3> QED
      BY <1>15, <2>3, <3>1
  <2>4. CASE k = 4 /\ RequestHas(a, b, f, i)'
    <3>1. a = 0 /\ b \in 1..Len(inbox') /\ GivesBack(inbox'[b], f) /\ i = fd_table'[f].ino
      BY <2>4 DEF RequestHas, GivesBack
    <3>2. b \in Nat \ {0} /\ b + 1 \in 1..Len(inbox) /\ b + 1 # 1 /\ inbox'[b] = inbox[b + 1]
      BY <1>4, <1>5, <3>1
    <3>3. Has(4, 0, b + 1, f, fd_table[f].ino)
      BY <3>1, <3>2 DEF Has, RequestHas
    <3>4. f # g /\ i = fd_table[f].ino
      BY <1>14, <1>15, <1>16, <3>1, <3>2, <3>3
    <3> QED
      BY <2>4, <3>1, <3>2, <3>3, <3>4
  <2> QED
    BY <1>17, <2>1, <2>2, <2>3, <2>4 DEF Has
<1>18. HoldersLive'
  BY <1>14, <1>16, <1>17 DEF HoldersLive
<1>19. OneHolder'
  <2> SUFFICES ASSUME NEW k, NEW a, NEW b, NEW f, NEW i, NEW l, NEW d, NEW e, NEW j,
                      Has(k, a, b, f, i)', Has(l, d, e, f, j)'
               PROVE  k = l /\ a = d /\ b = e
    BY DEF OneHolder
  <2>1. \A k1, a1, b1, i1, l1, d1, e1, j1 :
          Has(k1, a1, b1, f, i1) /\ Has(l1, d1, e1, f, j1) => k1 = l1 /\ a1 = d1 /\ b1 = e1
    BY DEF HoldInv, OneHolder
  <2>2. \/ f # g /\ k # 4 /\ Has(k, a, b, f, i)
        \/ f # g /\ k = 4 /\ a = 0 /\ b \in Nat \ {0} /\ Has(4, 0, b + 1, f, i)
        \/ f = g /\ k = 2 /\ a = c /\ b = Len(answers[c]) + 1
    BY <1>17
  <2>3. \/ f # g /\ l # 4 /\ Has(l, d, e, f, j)
        \/ f # g /\ l = 4 /\ d = 0 /\ e \in Nat \ {0} /\ Has(4, 0, e + 1, f, j)
        \/ f = g /\ l = 2 /\ d = c /\ e = Len(answers[c]) + 1
    BY <1>17
  <2> QED
    BY <2>1, <2>2, <2>3
<1> QED
  BY <1>1, <1>8, <1>12, <1>13, <1>18, <1>19 DEF HoldInv

\* A 9P message in one form: the descriptor g is touched, which only the fid s
\* may have held; the other fids stay or are shut, s also may get g.
P9Serves(g, s) ==
  /\ \A f \in Fds \ {g} : Same(f)
  /\ \A k, a, b, i : Has(k, a, b, g, i) => k = 3 /\ a = 0 /\ b = s
  /\ \A t \in Slots \ {s} : SameFid(t) \/ Shut(t)
  /\ s \in Slots => \/ Shut(s)
                    \/ /\ g \in Fds /\ fd_table'[g].in_use
                       /\ fids'[s].fd = g /\ fids'[s].ino = fd_table'[g].ino

\* Every message has that form.
LEMMA P9Served == HoldInv /\ P9Step => \E g, s : P9Serves(g, s)
<1> SUFFICES ASSUME HoldInv, P9Step PROVE \E g, s : P9Serves(g, s)
  OBVIOUS
<1>1. \A k, a, b, f, i : Has(k, a, b, f, i) => On(f, i)
  BY DEF HoldInv, HoldersLive
<1>2. CASE AllSame /\ \A s \in Slots : SameFid(s) \/ Shut(s)
  <2>1. \A k, a, b, i : ~ Has(k, a, b, -1, i)
    BY <1>1, VfsAssumption DEF On, Fds
  <2>2. 0 \notin Slots
    BY P9Assumption DEF Slots
  <2>3. P9Serves(-1, 0)
    BY <1>2, <2>1, <2>2 DEF P9Serves, AllSame
  <2> QED
    BY <2>3
<1>3. CASE \E s \in Slots : /\ Opens(fids'[s].fd) /\ fids'[s].ino = fd_table'[fids'[s].fd].ino
                            /\ \A t \in Slots \ {s} : SameFid(t)
  <2>1. PICK s \in Slots : /\ Opens(fids'[s].fd) /\ fids'[s].ino = fd_table'[fids'[s].fd].ino
                           /\ \A t \in Slots \ {s} : SameFid(t)
    BY <1>3
  <2>2. PICK g : g = fids'[s].fd
    OBVIOUS
  <2>3. \A k, a, b, i : ~ Has(k, a, b, g, i)
    BY <1>1, <2>1, <2>2 DEF On, Opens
  <2>4. P9Serves(g, s)
    BY <2>1, <2>2, <2>3 DEF P9Serves, Opens, SameBut
  <2> QED
    BY <2>4
<1>4. CASE \E s \in Slots : /\ Opened(s) /\ SameBut(fids[s].fd) /\ Shut(s)
                            /\ \A t \in Slots \ {s} : SameFid(t)
  <2>1. PICK s \in Slots : /\ Opened(s) /\ SameBut(fids[s].fd) /\ Shut(s)
                           /\ \A t \in Slots \ {s} : SameFid(t)
    BY <1>4
  <2>2. PICK g : g = fids[s].fd
    OBVIOUS
  <2>3. Has(3, 0, s, g, fids[s].ino)
    BY <2>1, <2>2 DEF Has, FidHas
  <2>4. \A k, a, b, i : Has(k, a, b, g, i) => k = 3 /\ a = 0 /\ b = s
    BY <2>3 DEF HoldInv, OneHolder
  <2>5. P9Serves(g, s)
    BY <2>1, <2>2, <2>4 DEF P9Serves, SameBut
  <2> QED
    BY <2>5
<1> QED
  BY <1>2, <1>3, <1>4 DEF P9Step

\* The 9P server: a fid gets a descriptor nobody has, or gives its own up.
LEMMA P9Holds ==
  ASSUME HoldInv, p9_message
  PROVE  HoldInv'
<1>1. UNCHANGED <<inbox, answers, held, waiting>>
  BY DEF p9_message, msg_vars
<1>2. TableShape' /\ FidShape' /\ P9Step
  BY P9Steps DEF HoldInv, p9_message
<1>3. PICK g, s : P9Serves(g, s)
  BY <1>2, P9Served
<1>4. AnswersInv'
  <2>1. \A c : UnderWay(c)' = UnderWay(c)
    BY <1>1 DEF UnderWay
  <2> QED
    BY <1>1, <2>1 DEF HoldInv, AnswersInv, AnswersAccountedFor
<1>5. HeldShape' /\ AnswerShape' /\ RequestsApart'
  BY <1>1 DEF HoldInv, HeldShape, AnswerShape, RequestsApart
<1>6. \A k, a, b, f, i : Has(k, a, b, f, i) => On(f, i)
  BY DEF HoldInv, HoldersLive
<1>7. \A k, a, b, i : Has(k, a, b, g, i) => k = 3 /\ a = 0 /\ b = s
  BY <1>3 DEF P9Serves
<1>8. \A f, i : On(f, i) /\ f # g => On(f, i)' /\ fd_table'[f].ino = fd_table[f].ino
  BY <1>3 DEF P9Serves, On, Same
<1>9. ASSUME NEW k, NEW a, NEW b, NEW f, NEW i, Has(k, a, b, f, i)'
      PROVE  \/ f # g /\ Has(k, a, b, f, i)
             \/ f = g /\ k = 3 /\ a = 0 /\ b = s /\ On(f, i)'
  <2>1. CASE k = 1 /\ ClientHas(a, b, f, i)'
    <3>1. Has(1, a, b, f, i)
      BY <1>1, <2>1 DEF Has, ClientHas
    <3> QED
      BY <1>7, <2>1, <3>1
  <2>2. CASE k = 2 /\ AnswerHas(a, b, f, i)'
    <3>1. Has(2, a, b, f, i)
      BY <1>1, <2>2 DEF Has, AnswerHas
    <3> QED
      BY <1>7, <2>2, <3>1
  <2>3. CASE k = 3 /\ FidHas(a, b, f, i)'
    <3>1. /\ a = 0 /\ b \in Slots /\ b # 0 /\ fids'[b].open /\ fids'[b].fd >= 0
          /\ fids'[b].fd = f /\ fids'[b].ino = i
      BY <2>3 DEF FidHas, Opened
    <3>2. ~ Shut(b)
      BY <3>1 DEF Shut
    <3>3. CASE b = s
      <4>1. /\ g \in Fds /\ fd_table'[g].in_use
            /\ fids'[s].fd = g /\ fids'[s].ino = fd_table'[g].ino
        BY <1>3, <3>1, <3>2, <3>3 DEF P9Serves
      <4> QED
        BY <2>3, <3>1, <3>3, <4>1 DEF On
    <3>4. CASE b # s
      <4>1. fids'[b] = fids[b]
        BY <1>3, <3>1, <3>2, <3>4 DEF P9Serves, SameFid
      <4>2. Has(3, a, b, f, i)
        BY <3>1, <4>1 DEF Has, FidHas, Opened
      <4> QED
        BY <1>7, <2>3, <3>4, <4>2
    <3> QED
      BY <3>3, <3>4
  <2>4. CASE k = 4 /\ RequestHas(a, b, f, i)'
    <3>1. a = 0 /\ b \in 1..Len(inbox) /\ GivesBack(inbox[b], f) /\ i = fd_table'[f].ino
      BY <1>1, <2>4 DEF RequestHas, GivesBack
    <3>2. Has(4, a, b, f, fd_table[f].ino)
      BY <3>1 DEF Has, RequestHas
    <3>3. f # g /\ i = fd_table[f].ino
      BY <1>6, <1>7, <1>8, <3>1, <3>2
    <3> QED
      BY <2>4, <3>2, <3>3
  <2> QED
    BY <1>9, <2>1, <2>2, <2>3, <2>4 DEF Has
<1>10. HoldersLive'
  BY <1>6, <1>8, <1>9 DEF HoldersLive
<1>11. OneHolder'
  <2> SUFFICES ASSUME NEW k, NEW a, NEW b, NEW f, NEW i, NEW l, NEW d, NEW e, NEW j,
                      Has(k, a, b, f, i)', Has(l, d, e, f, j)'
               PROVE  k = l /\ a = d /\ b = e
    BY DEF OneHolder
  <2>1. \A k1, a1, b1, i1, l1, d1, e1, j1 :
          Has(k1, a1, b1, f, i1) /\ Has(l1, d1, e1, f, j1) => k1 = l1 /\ a1 = d1 /\ b1 = e1
    BY DEF HoldInv, OneHolder
  <2>2. (f # g /\ Has(k, a, b, f, i)) \/ (f = g /\ k = 3 /\ a = 0 /\ b = s)
    BY <1>9
  <2>3. (f # g /\ Has(l, d, e, f, j)) \/ (f = g /\ l = 3 /\ d = 0 /\ e = s)
    BY <1>9
  <2> QED
    BY <2>1, <2>2, <2>3
<1> QED
  BY <1>2, <1>4, <1>5, <1>10, <1>11 DEF HoldInv

\* Every request a client sends meets the conditions of SendHolds.
LEMMA ClientSendHolds ==
  ASSUME HoldInv, NEW c \in Clients, client_send(c)
  PROVE  HoldInv'
<1>1. ASSUME NEW verb, NEW arg0, NEW arg1, NEW n, Request(c, verb, arg0, arg1, n, {}),
             verb # "close", verb = "dup" => arg1 = -1
      PROVE  HoldInv'
  BY <1>1, SendHolds
<1>2. ASSUME NEW f \in HeldFds(c), Request(c, "close", Filled, Filled, f, {f})
      PROVE  HoldInv'
  BY <1>2, SendHolds
<1>3. ASSUME NEW f \in HeldFds(c), NEW g \in HeldFds(c) \ {f}, Request(c, "dup", Filled, g, f, {g})
      PROVE  HoldInv'
  BY <1>3, SendHolds
<1> QED
  BY <1>1, <1>2, <1>3 DEF client_send

\* Initially nobody holds a descriptor.
LEMMA InitHolds == Init => HoldInv
<1> SUFFICES ASSUME Init PROVE HoldInv
  OBVIOUS
<1>1. /\ inbox = <<>> /\ answers = [c \in Clients |-> <<>>] /\ waiting = [c \in Clients |-> 0]
      /\ held = [c \in Clients |-> {}]
  BY DEF Init
<1>2. AnswersInv
  <2>1. \A c \in Clients : UnderWay(c) = 0
    BY <1>1, FS_EmptySet DEF UnderWay
  <2> QED
    BY <1>1, <2>1, QueueAssumption DEF AnswersInv, AnswersAccountedFor
<1>3. TableShape
  BY DEF Init, vfs_init, TableShape, Closed
<1>4. /\ fids = [s \in Slots |-> NoFid]
      /\ \E u, v, w, e, g : NoFid = Fid(u, v, w, -1, e, g)
  BY NoFidShape DEF Init, p9_server_init
<1>5. NoFid = FieldsOf(NoFid) /\ NoFid.fd = -1
  BY <1>4 DEF Fid, FieldsOf
<1>6. FidShape
  BY <1>4, <1>5 DEF FidShape
<1>7. \A k, a, b, f, i : ~ Has(k, a, b, f, i)
  <2>1. \A a, b, f, i : ~ ClientHas(a, b, f, i) /\ ~ AnswerHas(a, b, f, i) /\ ~ RequestHas(a, b, f, i)
    BY <1>1 DEF ClientHas, AnswerHas, RequestHas
  <2>2. \A a, b, f, i : ~ FidHas(a, b, f, i)
    BY <1>4, <1>5 DEF FidHas, Opened
  <2> QED
    BY <2>1, <2>2 DEF Has
<1>8. HeldShape /\ AnswerShape /\ RequestsApart
  BY <1>1 DEF HeldShape, AnswerShape, RequestsApart
<1> QED
  BY <1>2, <1>3, <1>6, <1>7, <1>8 DEF HoldInv, HoldersLive, OneHolder

\* Holdings and Has say the same of who holds what.
LEMMA HoldInvGives == HoldInv => HeldFdsKeepTheirFile
<1> SUFFICES ASSUME HoldInv PROVE HeldFdsKeepTheirFile
  OBVIOUS
<1> DEFINE Entry(a, b, f, i) == <<a, b, [fd |-> f, ino |-> i]>>
           Holding(h) == \E k, a, b, f, i : Has(k, a, b, f, i) /\ h = Entry(a, b, f, i)
<1>1. ASSUME NEW h \in Holdings PROVE Holding(h)
  <2>1. CASE h \in UNION {{<<c, 0, o>> : o \in held[c]} : c \in Clients}
    <3>1. PICK c \in Clients : h \in {<<c, 0, o>> : o \in held[c]}
      BY <2>1
    <3>2. PICK o \in held[c] : h = <<c, 0, o>>
      BY <3>1
    <3>3. h = Entry(c, 0, o.fd, o.ino)
      BY <3>2 DEF HoldInv, HeldShape
    <3>4. Has(1, c, 0, o.fd, o.ino)
      BY DEF Has, ClientHas
    <3> QED
      BY <3>3, <3>4
  <2>2. CASE h \in UNION {{<<c, b, answers[c][b]>> :
                             b \in {j \in DOMAIN answers[c] : answers[c][j] # AnswerNone}} : c \in Clients}
    <3>1. PICK c \in Clients :
            h \in {<<c, b, answers[c][b]>> : b \in {j \in DOMAIN answers[c] : answers[c][j] # AnswerNone}}
      BY <2>2
    <3>2. PICK b \in DOMAIN answers[c] : answers[c][b] # AnswerNone /\ h = <<c, b, answers[c][b]>>
      BY <3>1
    <3>3. b \in 1..Len(answers[c])
      BY DEF HoldInv, AnswersInv
    <3>4. h = Entry(c, b, answers[c][b].fd, answers[c][b].ino)
      BY <3>2, <3>3 DEF HoldInv, AnswerShape
    <3>5. Has(2, c, b, answers[c][b].fd, answers[c][b].ino)
      BY <3>2, <3>3 DEF Has, AnswerHas
    <3> QED
      BY <3>4, <3>5
  <2>3. CASE h \in {<<0, s, [fd |-> fids[s].fd, ino |-> fids[s].ino]>> : s \in {t \in Slots : Opened(t)}}
    <3>1. PICK s \in Slots : Opened(s) /\ h = Entry(0, s, fids[s].fd, fids[s].ino)
      BY <2>3
    <3>2. Has(3, 0, s, fids[s].fd, fids[s].ino)
      BY <3>1 DEF Has, FidHas
    <3> QED
      BY <3>1, <3>2
  <2> QED
    BY <2>1, <2>2, <2>3 DEF Holdings
<1>2. ASSUME NEW h \in Holdings
      PROVE  fd_table[h[3].fd].in_use /\ fd_table[h[3].fd].ino = h[3].ino
  <2>1. PICK k, a, b, f, i : Has(k, a, b, f, i) /\ h = Entry(a, b, f, i)
    BY <1>1
  <2>2. h[3].fd = f /\ h[3].ino = i
    BY <2>1
  <2> QED
    BY <2>1, <2>2 DEF HoldInv, HoldersLive, On
<1>3. ASSUME NEW h \in Holdings, NEW e \in Holdings, h[3].fd = e[3].fd
      PROVE  h = e
  <2>1. PICK k, a, b, f, i : Has(k, a, b, f, i) /\ h = Entry(a, b, f, i)
    BY <1>1
  <2>2. PICK l, c, d, g, j : Has(l, c, d, g, j) /\ e = Entry(c, d, g, j)
    BY <1>1
  <2>3. f = g
    <3>1. h[3].fd = f /\ e[3].fd = g
      BY <2>1, <2>2
    <3> QED
      BY <1>3, <3>1
  <2>4. a = c /\ b = d
    BY <2>1, <2>2, <2>3 DEF HoldInv, OneHolder
  <2>5. i = fd_table[f].ino /\ j = fd_table[f].ino
    BY <2>1, <2>2, <2>3 DEF HoldInv, HoldersLive, On
  <2> QED
    BY <2>1, <2>2, <2>3, <2>4, <2>5
<1> QED
  BY <1>2, <1>3 DEF HeldFdsKeepTheirFile

\* A descriptor given to a process or a fid stays open on its file, and nobody
\* else gets it, until its holder gives it back: also while the answer that
\* carries it is under way, whatever the others do in whatever order.
THEOREM DescriptorsKeepTheirFile == Spec => []HeldFdsKeepTheirFile
<1>1. HoldInv /\ [Next]_vars => HoldInv'
  <2> SUFFICES ASSUME HoldInv, [Next]_vars PROVE HoldInv'
    OBVIOUS
  <2>1. CASE dispatch
    BY <2>1, DispatchHolds
  <2>2. CASE p9_message
    BY <2>2, P9Holds
  <2>3. ASSUME NEW c \in Clients, client_send(c) PROVE HoldInv'
    BY <2>3, ClientSendHolds
  <2>4. ASSUME NEW c \in Clients, client_recv(c) PROVE HoldInv'
    BY <2>4, RecvHolds
  <2>5. CASE UNCHANGED vars
    <3>1. UNCHANGED <<inbox, answers, held, waiting, fids, fd_table>>
      BY <2>5 DEF vars, vfs_vars, p9_vars, msg_vars, client_vars
    <3>2. AnswersInv'
      BY <2>5, NextAccounted DEF HoldInv
    <3>3. TableShape' /\ FidShape' /\ HeldShape' /\ AnswerShape' /\ RequestsApart'
      BY <3>1 DEF HoldInv, TableShape, FidShape, HeldShape, AnswerShape, RequestsApart
    <3>4. \A k, a, b, f, i : (Has(k, a, b, f, i)' <=> Has(k, a, b, f, i)) /\ (On(f, i)' <=> On(f, i))
      BY <3>1 DEF Has, ClientHas, AnswerHas, FidHas, RequestHas, GivesBack, Opened, On
    <3>5. HoldersLive' /\ OneHolder'
      BY <3>4 DEF HoldInv, HoldersLive, OneHolder
    <3> QED
      BY <3>2, <3>3, <3>5 DEF HoldInv
  <2> QED
    BY <2>1, <2>2, <2>3, <2>4, <2>5 DEF Next
<1> QED
  BY <1>1, InitHolds, HoldInvGives, PTL DEF Spec

=============================================================================
