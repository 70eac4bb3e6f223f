--------------------------------- MODULE P9 ---------------------------------
(***************************************************************************)
(* The 9P2000 server, fs/9p.c: the fids of its client and what each        *)
(* message does to them and to the descriptors of kernel/vfs.c.            *)
(*                                                                         *)
(* One action per message type that changes state; the replies carry no    *)
(* state.  A reply that does not fit in the buffer of the caller is still  *)
(* one whose message has taken effect, except for Tread.                   *)
(***************************************************************************)
EXTENDS Vfs

CONSTANTS
  FidNumbers,    \* the fids the client chooses
  P9_MAX_FIDS,   \* 64 in the code
  P9_MSIZE,      \* 8192
  DotDot         \* the name ".."

ASSUME P9Assumption == /\ P9_MAX_FIDS \in Nat \ {0}
                       /\ P9_MSIZE \in Nat /\ P9_MSIZE > 11
                       /\ <<>> \in Paths

Slots == 1..P9_MAX_FIDS
NoFid == [in_use |-> FALSE, fid |-> CHOOSE n \in FidNumbers : TRUE, path |-> <<>>,
          fd |-> -1, open |-> FALSE, ino |-> 0]

VARIABLES
  fids,    \* s_fids; ino is history: the inode the fid was opened on
  msize    \* s_msize

p9_vars == <<fids, msize>>

p9_server_init == fids = [s \in Slots |-> NoFid] /\ msize = P9_MSIZE

----------------------------------------------------------------------------
fid_find(n) ==
  LET found == {s \in Slots : fids[s].in_use /\ fids[s].fid = n}
  IN IF found = {} THEN 0 ELSE Min(found)

\* The number is not looked for among the fids in use.
fid_alloc(n, p) ==
  LET free == {s \in Slots : ~fids[s].in_use}
  IN IF free = {} THEN fids
     ELSE [fids EXCEPT ![Min(free)] = [NoFid EXCEPT !.in_use = TRUE, !.fid = n, !.path = p]]

\* One component of a walk: ".." cuts at the last '/', unless that is the
\* first one too, so the parent of "/a" is "/a".
Step(p, name) ==
  CASE name # DotDot -> Append(p, name)
    [] name = DotDot /\ Len(p) > 1 -> Front(p)
    [] OTHER -> p

Tversion(client_msize) ==
  /\ msize' = Min({client_msize, msize})
  /\ UNCHANGED <<fids, vfs_vars>>

Tattach(n) == fids' = fid_alloc(n, <<>>) /\ UNCHANGED <<msize, vfs_vars>>

Twalk(n, newfid, names) ==
  LET reached == FoldLeft(Step, fids[fid_find(n)].path, names) IN
  /\ fid_find(n) # 0 /\ newfid # n /\ reached \in Paths
  /\ fids' = fid_alloc(newfid, reached)
  /\ UNCHANGED <<msize, vfs_vars>>

\* A fid that is open already gets a second descriptor and forgets the first.
Topen(n, creat, r) ==
  LET s == fid_find(n) IN
  /\ s # 0
  /\ vfs_open(fids[s].path, creat, r)
  /\ fids' = [fids EXCEPT ![s].fd = r, ![s].open = TRUE,
                          ![s].ino = IF r = -1 THEN 0 ELSE fd_table'[r].ino]
  /\ UNCHANGED msize

Opened(s) == s # 0 /\ fids[s].open /\ fids[s].fd >= 0

Tread(n, count, r) ==
  /\ Opened(fid_find(n))
  /\ vfs_read(fids[fid_find(n)].fd, Min({count, msize - 11}), r)
  /\ UNCHANGED p9_vars

Twrite(n, count, r) ==
  /\ Opened(fid_find(n))
  /\ vfs_write(fids[fid_find(n)].fd, count, r)
  /\ UNCHANGED p9_vars

\* Mutant: the fid is not cleared.
Tclunk_keeps_fid(n, r) ==
  Opened(fid_find(n)) /\ vfs_close(fids[fid_find(n)].fd, r) /\ UNCHANGED p9_vars

Tclunk(n, r) ==
  LET s == fid_find(n) IN
  /\ s # 0
  /\ IF Opened(s) THEN vfs_close(fids[s].fd, r) ELSE r = 0 /\ UNCHANGED vfs_vars
  /\ fids' = [fids EXCEPT ![s] = NoFid]
  /\ UNCHANGED msize

Names == UNION {{p[i] : i \in DOMAIN p} : p \in Paths}

p9_server_handle ==
  \/ \E m \in 12..P9_MSIZE : Tversion(m)
  \/ \E n \in FidNumbers :
       \/ Tattach(n)
       \/ \E newfid \in FidNumbers, name \in Names \cup {DotDot} : Twalk(n, newfid, <<name>>)
       \/ \E r \in Results :
            \/ \E c \in BOOLEAN : Topen(n, c, r)
            \/ \E count \in 1..2 : Tread(n, count, r)
            \/ Twrite(n, 1, r)
            \/ Tclunk(n, r)
=============================================================================
