------------------------------- MODULE Kernel -------------------------------
(***************************************************************************)
(* System calls as messages: kernel/msg.c and kernel/syscall.c over        *)
(* kernel/vfs.c, with the 9P server (module P9) on the same descriptors.   *)
(*                                                                         *)
(* A process sends a request to /sys/kernel/inbox and the dispatcher       *)
(* answers into /proc/<pid>/inbox.  Neither loop is started by the code;   *)
(* both are modelled as what they do when they are.  A process closes,     *)
(* and duplicates onto, only the descriptors it was given, as programs do: *)
(* the table has no owner and the code does not check; it waits when QUEUE *)
(* of its requests are unanswered.                                         *)
(*                                                                         *)
(* The text of a message is the sequence of its five fields; arguments     *)
(* hold no ':' (strtok would split them) and may be empty.                 *)
(***************************************************************************)
EXTENDS P9

CONSTANTS
  Clients,       \* the processes that make system calls, some pids
  Admins,        \* those with RK_ADMIN in /proc/<pid>/caps
  MaxPid,        \* bound: processes made by fork
  INBOX, QUEUE,  \* messages the kernel's queue and a process's hold, 64 in the code
  Empty, Filled, \* an argument of no characters, and one nothing reads
  MaxCalls, Max9P  \* bounds: requests sent, 9P messages

ASSUME QueueAssumption == QUEUE \in Nat

O_CREAT == 64
AnswerNone == [fd |-> -1, ino |-> 0]

VARIABLES
  inbox,      \* /sys/kernel/inbox: encoded messages
  answers,    \* pid -> /proc/<pid>/inbox
  next_pid,   \* s_next_pid
  admins,     \* the pids with RK_ADMIN
  running,    \* the clients that have not been destroyed
  held,       \* client -> the [fd, ino] it was given and has not given back
  calls,      \* requests sent
  p9_calls,   \* 9P messages handled
  waiting     \* client -> requests it has had no answer to, the undecodable ones aside

msg_vars == <<inbox, answers, next_pid, admins, running>>
client_vars == <<held, calls, p9_calls, waiting>>
vars == <<vfs_vars, p9_vars, msg_vars, client_vars>>

Init ==
  /\ vfs_init /\ p9_server_init
  /\ inbox = <<>>
  /\ answers = [c \in Clients |-> <<>>]
  /\ next_pid = Max(Clients) + 1 /\ admins = Admins /\ running = Clients
  /\ held = [c \in Clients |-> {}]
  /\ calls = 0 /\ p9_calls = 0
  /\ waiting = [c \in Clients |-> 0]

----------------------------------------------------------------------------
kmsg_encode(m) == <<m.verb, m.arg0, m.arg1, m.n, m.sender_pid>>

\* strtok skips empty fields, so a message with one has too few.
Decodable(text) == \A i \in DOMAIN text : text[i] # Empty
kmsg_decode(text) ==
  [verb |-> text[1], arg0 |-> text[2], arg1 |-> text[3], n |-> text[4], sender_pid |-> text[5]]

caller_has_admin(pid) == pid \in admins

\* The handlers; r is the value the call returns, -1 for an error value.
SameProcs == UNCHANGED <<next_pid, admins, running>>
SameFiles == UNCHANGED vfs_vars

sys_open(m, r) == vfs_open(m.arg0, m.n = O_CREAT, r) /\ SameProcs
sys_create(m, r) == vfs_open(m.arg0, TRUE, r) /\ SameProcs
sys_dup(m, r) == vfs_dup(m.n, m.arg1, r) /\ SameProcs
sys_read(m, r) == vfs_read(m.n, 2, r) /\ SameProcs
sys_write(m, r) == vfs_write(m.n, m.arg1, r) /\ SameProcs
sys_close(m, r) == vfs_close(m.n, r) /\ SameProcs
sys_seek(m, r) == vfs_seek(m.n, m.arg0, m.arg1, r) /\ SameProcs
sys_stat(m, r) == vfs_stat(m.arg0, r) /\ SameProcs

sys_mkdir(m, r) ==
  /\ IF caller_has_admin(m.sender_pid) THEN vfs_mkdir(m.arg0, r) ELSE r = -1 /\ SameFiles
  /\ SameProcs

sys_mount(m, r) ==
  /\ IF caller_has_admin(m.sender_pid) THEN vfs_mount(r) ELSE r = -1 /\ SameFiles
  /\ SameProcs

\* The key removed is that of the path of an inode, the only ones of the
\* registry that the files depend on; the inode and its descriptors stay.
sys_remove(m, r) ==
  /\ r = IF caller_has_admin(m.sender_pid) THEN 0 ELSE -1
  /\ IF r = 0 THEN Unname(m.arg0) ELSE SameFiles
  /\ SameProcs

\* The child has the capabilities of the parent and no entry point.
sys_fork(m, r) ==
  /\ next_pid <= MaxPid /\ r = 0
  /\ next_pid' = next_pid + 1
  /\ admins' = IF caller_has_admin(m.sender_pid) THEN admins \cup {next_pid} ELSE admins
  /\ UNCHANGED running /\ SameFiles

sys_exit(m, r) ==
  /\ r = 0 /\ running' = running \ {m.sender_pid}
  /\ UNCHANGED <<next_pid, admins>> /\ SameFiles

\* Calls that change nothing modelled here: getpid, chdir, pipe, bind, sleep
\* and wait (a blocked process runs again at the next switch, see Sched).
sys_other(r) == r = 0 /\ SameFiles /\ SameProcs

kmsg_handle(m, r) ==
  \/ m.verb = "open" /\ sys_open(m, r)
  \/ m.verb = "create" /\ sys_create(m, r)
  \/ m.verb = "dup" /\ sys_dup(m, r)
  \/ m.verb = "read" /\ sys_read(m, r)
  \/ m.verb = "write" /\ sys_write(m, r)
  \/ m.verb = "close" /\ sys_close(m, r)
  \/ m.verb = "seek" /\ sys_seek(m, r)
  \/ m.verb = "stat" /\ sys_stat(m, r)
  \/ m.verb = "mkdir" /\ sys_mkdir(m, r)
  \/ m.verb = "mount" /\ sys_mount(m, r)
  \/ m.verb = "remove" /\ sys_remove(m, r)
  \/ m.verb = "fork" /\ sys_fork(m, r)
  \/ m.verb = "exit" /\ sys_exit(m, r)
  \/ m.verb = "getpid" /\ sys_other(r)

----------------------------------------------------------------------------
\* The descriptor an answer hands over, with the inode it then stands for.
Handed(m, r) ==
  IF m.verb \in {"open", "create", "dup"} /\ r # -1
  THEN [fd |-> r, ino |-> fd_table'[r].ino] ELSE AnswerNone

\* One iteration of the dispatcher: it takes a message, forgets one it cannot
\* decode, runs the handler and sends the result unless the queue is full.
\* What a client does between these steps it can as well do before or after.
Forget ==
  /\ ~Decodable(Head(inbox))
  /\ UNCHANGED <<answers, next_pid, admins, running, vfs_vars>>

\* Mutant: a call that fails is not answered.
Answer_errors_unsent ==
  LET m == kmsg_decode(Head(inbox))
      c == m.sender_pid
  IN /\ Decodable(Head(inbox))
     /\ \E r \in Results :
          /\ kmsg_handle(m, r)
          /\ answers' = IF r # -1
                        THEN [answers EXCEPT ![c] = Append(@, Handed(m, r))] ELSE answers

Answer ==
  LET m == kmsg_decode(Head(inbox))
      c == m.sender_pid
  IN /\ Decodable(Head(inbox))
     /\ \E r \in Results :
          /\ kmsg_handle(m, r)
          /\ answers' = IF Len(answers[c]) < QUEUE
                        THEN [answers EXCEPT ![c] = Append(@, Handed(m, r))] ELSE answers

dispatch ==
  /\ inbox # <<>>
  /\ inbox' = Tail(inbox)
  /\ Forget \/ Answer
  /\ UNCHANGED <<client_vars, p9_vars>>

\* A client sends a request; what it closes or duplicates onto it gives back.
Request(c, verb, arg0, arg1, n, back) ==
  LET text == kmsg_encode([verb |-> verb, arg0 |-> arg0, arg1 |-> arg1, n |-> n, sender_pid |-> c])
  IN /\ c \in running /\ calls < MaxCalls /\ waiting[c] < QUEUE
     /\ Len(inbox) < INBOX
     /\ inbox' = Append(inbox, text)
     /\ calls' = calls + 1
     /\ held' = [held EXCEPT ![c] = {o \in @ : o.fd \notin back}]
     /\ waiting' = IF Decodable(text) THEN [waiting EXCEPT ![c] = @ + 1] ELSE waiting
     /\ UNCHANGED <<answers, next_pid, admins, running, p9_calls, vfs_vars, p9_vars>>

HeldFds(c) == {o.fd : o \in held[c]}

NeverOpen == VFS_MAX_FD

client_send(c) ==
  \/ \E p \in Paths \ {<<>>} :
       \/ Request(c, "open", p, Filled, 0, {})
       \/ \E verb \in {"create", "stat", "mkdir", "mount"} : Request(c, verb, p, Filled, 0, {})
  \/ \E f \in HeldFds(c) \cup {0, NeverOpen} : Request(c, "read", Filled, Filled, f, {})
  \/ \E f \in HeldFds(c) \cup {1, NeverOpen} :
       Request(c, "write", Filled, 1, f, {}) \/ Request(c, "dup", Filled, -1, f, {})
  \/ \E f \in HeldFds(c) :
       \/ Request(c, "close", Filled, Filled, f, {f})
       \/ Request(c, "seek", 1, 1, f, {})
       \/ \E g \in HeldFds(c) \ {f} : Request(c, "dup", Filled, g, f, {g})
  \/ \E i \in 1..(next_ino - 1) : Request(c, "remove", i, Filled, 0, {})
  \/ \E verb \in {"fork", "exit"} : Request(c, verb, Filled, Filled, 0, {})
  \/ Request(c, "seek", 0, 0, NeverOpen, {})
  \/ Request(c, "getpid", Empty, Empty, 0, {})
  \/ Request(c, "getpid", Filled, Filled, 0, {})

client_recv(c) ==
  /\ c \in running /\ answers[c] # <<>>
  /\ answers' = [answers EXCEPT ![c] = Tail(@)]
  /\ held' = IF Head(answers[c]) = AnswerNone THEN held
             ELSE [held EXCEPT ![c] = @ \cup {Head(answers[c])}]
  /\ waiting' = [waiting EXCEPT ![c] = @ - 1]
  /\ UNCHANGED <<inbox, next_pid, admins, running, calls, p9_calls, vfs_vars, p9_vars>>

p9_message ==
  /\ p9_calls < Max9P
  /\ p9_server_handle
  /\ p9_calls' = p9_calls + 1
  /\ UNCHANGED <<msg_vars, held, calls, waiting>>

Next ==
  \/ dispatch \/ p9_message
  \/ \E c \in Clients : client_send(c) \/ client_recv(c)

Spec == Init /\ [][Next]_vars

----------------------------------------------------------------------------
\* Who has which descriptor: a client, an answer on its way to one, a fid.
Holdings ==
  (UNION {{<<c, 0, o>> : o \in held[c]} : c \in Clients})
  \cup (UNION {{<<c, k, answers[c][k]>> : k \in {j \in DOMAIN answers[c] : answers[c][j] # AnswerNone}}
               : c \in Clients})
  \cup {<<0, s, [fd |-> fids[s].fd, ino |-> fids[s].ino]>> : s \in {t \in Slots : Opened(t)}}

(* A descriptor given to a process or to a fid stays open on the file it   *)
(* was opened on, and nobody else's, until its holder closes it or         *)
(* duplicates over it: whatever the other processes and the 9P client open,*)
(* close, duplicate and remove meanwhile, and also while the answer that   *)
(* carries it is still on its way.                                         *)
HeldFdsKeepTheirFile ==
  /\ \A h \in Holdings : /\ fd_table[h[3].fd].in_use
                         /\ fd_table[h[3].fd].ino = h[3].ino
  /\ \A h, k \in Holdings : h # k => h[3].fd # k[3].fd

\* What is under way for a client: requests not yet answered, and answers.
UnderWay(c) ==
  Len(answers[c])
  + Cardinality({i \in DOMAIN inbox : inbox[i][5] = c /\ Decodable(inbox[i])})

(* Every request that can be decoded is answered once: a process that      *)
(* waits when it has QUEUE requests unanswered never loses an answer,      *)
(* although the dispatcher ignores the result of reg_ipc_send.             *)
AnswersAccountedFor == \A c \in Clients : UnderWay(c) = waiting[c]

=============================================================================
