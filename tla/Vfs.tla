-------------------------------- MODULE Vfs ---------------------------------
(***************************************************************************)
(* Inodes, descriptors and mounts of the kernel, kernel/vfs.c.             *)
(*                                                                         *)
(* Every operation takes a last argument r, the value the C function       *)
(* returns: an action of a module that extends this one says               *)
(* \E r \in Results : vfs_open(p, c, r) /\ ... .  A file's data is its     *)
(* length; the flags of a descriptor and the mode of an inode are stored   *)
(* and never read by the code, so they are left out.                       *)
(***************************************************************************)
EXTENDS Integers, Sequences, FiniteSets, SequencesExt

CONSTANTS
  Paths, NoPath,
  VFS_MAX_FD,      \* 64 in the code
  VFS_MAX_MOUNTS,  \* 16
  MaxIno, MaxSize  \* bounds: inodes made, length of a file

ASSUME VfsAssumption == /\ VFS_MAX_FD \in Nat /\ VFS_MAX_FD > 3 /\ VFS_MAX_MOUNTS \in Nat
                        /\ MaxIno \in Nat /\ MaxIno > 2 /\ MaxSize \in Nat
                        /\ NoPath \notin Paths

Fds == 0..(VFS_MAX_FD - 1)
Standard == 0..2              \* stdin, stdout, stderr
Inodes == 0..MaxIno
Results == -1..(VFS_MAX_FD + MaxSize)
Closed == [in_use |-> FALSE, ino |-> 0, pos |-> 0]

VARIABLES
  fd_table,    \* s_fd_table, one for the whole system
  inode_path,  \* inode -> the path published under /vfs/inode/<ino>/path
  inode_size,  \* inode -> length of /vfs/inode/<ino>/data
  next_ino,    \* s_next_ino
  mounts       \* s_mount_count

vfs_vars == <<fd_table, inode_path, inode_size, next_ino, mounts>>
inodes == <<inode_path, inode_size, next_ino, mounts>>

\* The standard descriptors stand for the inodes 0, 1 and 2, of which 1 and 2
\* are also the first two that ino_alloc gives out.
vfs_init ==
  /\ fd_table = [f \in Fds |-> IF f \in Standard THEN [in_use |-> TRUE, ino |-> f, pos |-> 0]
                               ELSE Closed]
  /\ inode_path = [i \in Inodes |-> NoPath]
  /\ inode_size = [i \in Inodes |-> 0]
  /\ next_ino = 1
  /\ mounts = 0

----------------------------------------------------------------------------
fd_get(f) == f \in Fds /\ fd_table[f].in_use

FreeFds == {f \in Fds \ Standard : ~fd_table[f].in_use}
FirstFree == IF FreeFds = {} THEN -1 ELSE Min(FreeFds)

path_to_ino(p) ==
  LET named == {i \in 1..(next_ino - 1) : inode_path[i] = p}
  IN IF named = {} THEN 0 ELSE Min(named)

\* ino_alloc and ino_publish
Publish(p) ==
  /\ next_ino <= MaxIno
  /\ next_ino' = next_ino + 1
  /\ inode_path' = [inode_path EXCEPT ![next_ino] = p]
  /\ UNCHANGED <<inode_size, mounts>>

fd_alloc(ino, r) ==
  /\ r = FirstFree
  /\ fd_table' = IF r = -1 THEN fd_table
                 ELSE [fd_table EXCEPT ![r] = [in_use |-> TRUE, ino |-> ino, pos |-> 0]]

vfs_open(p, creat, r) ==
  LET ino == path_to_ino(p) IN
  \/ ino # 0 /\ fd_alloc(ino, r) /\ UNCHANGED inodes
  \/ ino = 0 /\ creat /\ Publish(p) /\ fd_alloc(next_ino, r)
  \/ ino = 0 /\ ~creat /\ r = -1 /\ UNCHANGED vfs_vars

\* What is typed is read from descriptor 0, whatever its entry says.
vfs_read(f, n, r) ==
  \/ f = 0 /\ r \in 0..n /\ UNCHANGED vfs_vars
  \/ f # 0 /\ ~fd_get(f) /\ r = -1 /\ UNCHANGED vfs_vars
  \/ /\ f # 0 /\ fd_get(f)
     /\ r = Max({0, Min({n, inode_size[fd_table[f].ino] - fd_table[f].pos})})
     /\ fd_table' = [fd_table EXCEPT ![f].pos = @ + r]
     /\ UNCHANGED inodes

\* The data goes to the end of the file, the position moves by its length.
vfs_write(f, n, r) ==
  \/ f \in {1, 2} /\ r = n /\ UNCHANGED vfs_vars
  \/ f \notin {1, 2} /\ ~fd_get(f) /\ r = -1 /\ UNCHANGED vfs_vars
  \/ /\ f \notin {1, 2} /\ fd_get(f) /\ r = n
     /\ inode_size[fd_table[f].ino] + n <= MaxSize
     /\ fd_table[f].pos + n <= MaxSize
     /\ inode_size' = [inode_size EXCEPT ![fd_table[f].ino] = @ + n]
     /\ fd_table' = [fd_table EXCEPT ![f].pos = @ + n]
     /\ UNCHANGED <<inode_path, next_ino, mounts>>

vfs_close(f, r) ==
  /\ r = IF f \in Standard \/ fd_get(f) THEN 0 ELSE -1
  /\ fd_table' = IF f \notin Standard /\ fd_get(f)
                 THEN [fd_table EXCEPT ![f].in_use = FALSE] ELSE fd_table
  /\ UNCHANGED inodes

\* The new descriptor is closed before the old entry is copied: onto itself,
\* the copy is that of a closed entry. A standard one is not closed but is
\* overwritten.
vfs_dup(old, new, r) ==
  LET target == IF new = -1 THEN FirstFree ELSE new
      source == [fd_table[old] EXCEPT !.in_use = old # target \/ old \in Standard]
  IN \/ (~fd_get(old) \/ target \notin Fds) /\ r = -1 /\ UNCHANGED vfs_vars
     \/ /\ fd_get(old) /\ target \in Fds /\ r = target
        /\ fd_table' = [fd_table EXCEPT ![target] = source]
        /\ UNCHANGED inodes

\* whence 2, from the end, counts from the start.
vfs_seek(f, offset, whence, r) ==
  LET at == IF whence = 1 THEN fd_table[f].pos + offset ELSE offset
  IN \/ (~fd_get(f) \/ whence \notin 0..2 \/ at < 0) /\ r = -1 /\ UNCHANGED vfs_vars
     \/ /\ fd_get(f) /\ whence \in 0..2 /\ at \in 0..MaxSize /\ r = at
        /\ fd_table' = [fd_table EXCEPT ![f].pos = at]
        /\ UNCHANGED inodes

vfs_stat(p, r) == r = (IF path_to_ino(p) = 0 THEN -1 ELSE 0) /\ UNCHANGED vfs_vars

\* Mutant: mkdir of an existing path makes a second inode.
vfs_mkdir_no_lookup(p, r) == r = 0 /\ Publish(p) /\ UNCHANGED fd_table

vfs_mkdir(p, r) ==
  /\ r = 0
  /\ \/ path_to_ino(p) # 0 /\ UNCHANGED vfs_vars
     \/ path_to_ino(p) = 0 /\ Publish(p) /\ UNCHANGED fd_table

\* The table is written and published and never read.
vfs_mount(r) ==
  \/ mounts = VFS_MAX_MOUNTS /\ r = -1 /\ UNCHANGED vfs_vars
  \/ /\ mounts < VFS_MAX_MOUNTS /\ r = 0 /\ mounts' = mounts + 1
     /\ UNCHANGED <<fd_table, inode_path, inode_size, next_ino>>

\* reg_delete of the key /vfs/inode/<ino>/path, as sys_remove makes it.
Unname(i) ==
  /\ inode_path' = [inode_path EXCEPT ![i] = NoPath]
  /\ UNCHANGED <<fd_table, inode_size, next_ino, mounts>>

----------------------------------------------------------------------------
(* Two inodes never carry the same path, in whatever order files are       *)
(* created, made directories and removed by several clients: every         *)
(* publication follows a failed path_to_ino.                               *)
PathsUnique ==
  \A i, j \in Inodes : i # j /\ inode_path[i] # NoPath => inode_path[i] # inode_path[j]

=============================================================================
