------------------------------ MODULE Journal ------------------------------
(***************************************************************************)
(* The write-ahead log of kernel/journal.c, on top of the block layer.     *)
(*                                                                         *)
(* The block layer is seen as the store BlockStore promises: content is    *)
(* what blk_read returns, durable what survives a crash, and a block may be *)
(* written back at any moment (BlkCache implements this).  A record is a   *)
(* header block and a data block; of a header only what journal_replay     *)
(* looks at is kept (s_seq is written and never read back).                *)
(*                                                                         *)
(* No code of the repository calls the journal yet.  The client here uses  *)
(* it as its interface asks: it logs a block before it writes it, inside a *)
(* transaction; boot is journal_init followed by journal_replay.           *)
(***************************************************************************)
EXTENDS Integers, Sequences, FiniteSetsExt

CONSTANTS
  Users,            \* the blocks that are not the journal's
  Data,
  Zero,             \* a block of zero bytes
  s_n_blocks,       \* records the journal holds
  CheckpointEvery,  \* commits between checkpoints (64)
  NoHdr,            \* a header block without JOURNAL_MAGIC
  MaxRecords,       \* bound: records written between two boots
  MaxCrashes        \* bound: crashes

ASSUME ZeroAssumption == Zero \in Data
ASSUME SizeAssumption == s_n_blocks \in Nat \ {0} /\ CheckpointEvery \in Nat \ {0}
ASSUME BoundAssumption == MaxRecords \in Nat /\ MaxCrashes \in Nat

Pos == 0..(s_n_blocks - 1)
Hdrs == [commit : {FALSE}, lba : Users] \cup {[commit |-> TRUE]}
ASSUME NoHdrAssumption == NoHdr \notin Hdrs

\* A disk: the users' blocks and the journal's header and data blocks.
Disks == [user : [Users -> Data], hdr : [Pos -> Hdrs \cup {NoHdr}], data : [Pos -> Data]]

\* A disk with one of its blocks overwritten.
PutUser(d, u, v) == [d EXCEPT !.user[u] = v]
PutHdr(d, i, h) == [d EXCEPT !.hdr[i] = h]
PutData(d, i, v) == [d EXCEPT !.data[i] = v]

VARIABLES
  content,         \* what blk_read returns
  durable,         \* what the device holds
  s_write_pos, s_in_txn, s_commit_count,
  phase,           \* "up", "sync" inside a checkpoint's blk_sync, or "replay"
                   \* while journal_replay runs
  replay_pos,      \* pos of journal_replay
  log,             \* history: the records of the open transaction
  before,          \* history: the users' blocks when it began
  target,          \* history, during a replay: what the crash left to restore
  records,         \* history: records written since boot
  crashes,         \* history: number of crashes
  faulted          \* history: a device read failed (bound: one per behaviour)

jvars == <<s_write_pos, s_in_txn, s_commit_count>>
history == <<log, before, target, records, crashes, faulted>>
vars == <<content, durable, s_write_pos, s_in_txn, s_commit_count, phase, replay_pos,
          log, before, target, records, crashes, faulted>>

Records == [pos : Pos, lba : Users, old : Data]

TypeOK ==
  /\ content \in Disks /\ durable \in Disks
  /\ s_write_pos \in 0..MaxRecords /\ s_in_txn \in BOOLEAN
  /\ s_commit_count \in 0..(CheckpointEvery - 1)
  /\ phase \in {"up", "sync", "replay"} /\ replay_pos \in 0..s_n_blocks
  /\ log \in Seq(Records) /\ before \in [Users -> Data] /\ target \in [Users -> Data]
  /\ records \in 0..MaxRecords /\ crashes \in 0..MaxCrashes /\ faulted \in BOOLEAN

----------------------------------------------------------------------------
\* What the records on a disk say

\* The positions journal_replay reaches on disk d.
Reached(d) == {i \in Pos : \A j \in 0..i : d.hdr[j] # NoHdr}

\* What restoring the records of d from position p on, in order, makes of
\* block u: the last record of u wins.
Restored(d, p, u) ==
  LET R == {i \in Reached(d) : i >= p /\ ~d.hdr[i].commit /\ d.hdr[i].lba = u}
  IN IF R = {} THEN d.user[u] ELSE d.data[Max(R)]

\* The users' blocks after a crash now and a complete replay.
AfterReplay == [u \in Users |-> Restored(durable, 0, u)]

\* The disk before the journal was ever used.
Blank(user) == [user |-> user, hdr |-> [i \in Pos |-> NoHdr], data |-> [i \in Pos |-> Zero]]

\* The value of before and target while they mean nothing.
NoUsers == [u \in Users |-> Zero]

Init ==
  /\ \E user \in [Users -> Data] : content = Blank(user)
  /\ before = NoUsers /\ target = NoUsers
  /\ durable = content
  /\ s_write_pos = 0 /\ s_in_txn = FALSE /\ s_commit_count = 0
  /\ phase = "up" /\ replay_pos = 0
  /\ log = <<>> /\ records = 0 /\ crashes = 0 /\ faulted = FALSE

----------------------------------------------------------------------------
\* The operations

\* journal_lba_hdr and journal_lba_data: two blocks per record, wrapping
\* around after s_n_blocks records.
Lba(pos) == pos % s_n_blocks

\* A slip of write_record: the data block is one record further.
write_record_shifted(pos, u, old) ==
  content' = PutData(PutHdr(content, Lba(pos), [commit |-> FALSE, lba |-> u]), Lba(pos + 1), old)

\* write_record of a block's old content.
write_record(pos, u, old) ==
  content' = PutData(PutHdr(content, Lba(pos), [commit |-> FALSE, lba |-> u]), Lba(pos), old)

journal_begin ==
  /\ phase = "up" /\ ~s_in_txn
  /\ s_in_txn' = TRUE
  /\ log' = <<>> /\ before' = content.user
  /\ UNCHANGED <<content, durable, s_write_pos, s_commit_count, phase, replay_pos,
                 target, records, crashes, faulted>>

\* A record of block u, whose content was read as old.
LogRecord(u, old) ==
  /\ write_record(s_write_pos, u, old)
  /\ log' = Append(log, [pos |-> Lba(s_write_pos), lba |-> u, old |-> old])
  /\ s_write_pos' = s_write_pos + 1
  /\ records' = records + 1
  /\ UNCHANGED <<durable, s_in_txn, s_commit_count, phase, replay_pos, before, target, crashes>>

\* A slip of journal_log: the block is read from the device, past the cache.
journal_log_past_cache(u) ==
  /\ phase = "up" /\ s_in_txn /\ records < MaxRecords
  /\ LogRecord(u, durable.user[u])
  /\ UNCHANGED faulted

\* The block's content is recorded, or zeros if the device cannot read it.
journal_log(u) ==
  /\ phase = "up" /\ s_in_txn /\ records < MaxRecords
  /\ \/ LogRecord(u, content.user[u]) /\ UNCHANGED faulted
     \/ LogRecord(u, Zero) /\ ~faulted /\ faulted' = TRUE

\* The client writes a block it has logged.
client_write(u, v) ==
  /\ phase = "up" /\ s_in_txn
  /\ \E i \in DOMAIN log : log[i].lba = u
  /\ content' = PutUser(content, u, v)
  /\ UNCHANGED <<durable, phase, replay_pos>> /\ UNCHANGED jvars /\ UNCHANGED history

\* The positions start over, and then blk_sync begins.
journal_checkpoint ==
  /\ s_write_pos' = 0 /\ s_commit_count' = 0
  /\ phase' = "sync"

\* blk_sync has written its blocks one by one, in the order of the cache's
\* buffers, which can be any: these are steps of write_back.  It returns when
\* none is left.
blk_sync_returns ==
  /\ phase = "sync" /\ durable = content
  /\ phase' = "up"
  /\ UNCHANGED <<content, durable, replay_pos>> /\ UNCHANGED jvars /\ UNCHANGED history

\* The commit record is a header alone; it never refers to a block.
journal_commit ==
  /\ phase = "up" /\ s_in_txn /\ records < MaxRecords
  /\ content' = PutHdr(content, Lba(s_write_pos), [commit |-> TRUE])
  /\ s_in_txn' = FALSE
  /\ \/ (s_commit_count + 1) % CheckpointEvery = 0 /\ journal_checkpoint
     \/ /\ (s_commit_count + 1) % CheckpointEvery # 0
        /\ s_write_pos' = s_write_pos + 1 /\ s_commit_count' = s_commit_count + 1
        /\ UNCHANGED phase
  /\ log' = <<>> /\ before' = NoUsers
  /\ records' = records + 1
  /\ UNCHANGED <<durable, replay_pos, target, crashes, faulted>>

\* The block layer writes one block back, whichever and whenever it likes.
write_back ==
  /\ \/ \E u \in Users : durable' = PutUser(durable, u, content.user[u])
     \/ \E i \in Pos : \/ durable' = PutHdr(durable, i, content.hdr[i])
                       \/ durable' = PutData(durable, i, content.data[i])
  /\ durable' # durable
  /\ UNCHANGED <<content, phase, replay_pos>> /\ UNCHANGED jvars /\ UNCHANGED history

\* A crash, the boot that follows it and journal_init, up to the call of
\* journal_replay.  A crash of a replay does not change what there is to restore.
Crash ==
  /\ crashes < MaxCrashes
  /\ content' = durable
  /\ s_write_pos' = 0 /\ s_in_txn' = FALSE /\ s_commit_count' = 0
  /\ phase' = "replay" /\ replay_pos' = 0
  /\ log' = <<>> /\ before' = NoUsers
  /\ target' = IF phase = "replay" THEN target ELSE AfterReplay
  /\ records' = 0
  /\ crashes' = crashes + 1
  /\ UNCHANGED <<durable, faulted>>

\* A slip of the restore: of two records of one block the first one wins.
RestoreRecord_first_wins(i) ==
  content' = IF \E j \in 0..(i - 1) : content.hdr[j] = content.hdr[i]
             THEN content
             ELSE PutUser(content, content.hdr[i].lba, content.data[i])

RestoreRecord(i) ==
  content' = PutUser(content, content.hdr[i].lba, content.data[i])

\* A slip of the loop: a commit record is passed over without counting it.
journal_replay_record_stuck ==
  /\ phase = "replay" /\ replay_pos < s_n_blocks
  /\ content.hdr[replay_pos] # NoHdr
  /\ ~content.hdr[replay_pos].commit
  /\ RestoreRecord(replay_pos)
  /\ replay_pos' = replay_pos + 1
  /\ UNCHANGED <<durable, phase, log, before, target, records, crashes, faulted>>
  /\ UNCHANGED jvars

\* One turn of journal_replay's loop.
journal_replay_record ==
  /\ phase = "replay" /\ replay_pos < s_n_blocks
  /\ content.hdr[replay_pos] # NoHdr
  /\ \/ /\ ~content.hdr[replay_pos].commit
        /\ RestoreRecord(replay_pos)
        /\ UNCHANGED faulted
     \/ content.hdr[replay_pos].commit /\ UNCHANGED <<content, faulted>>
     \/ \* the data block cannot be read: the record is skipped
        /\ ~content.hdr[replay_pos].commit /\ ~faulted
        /\ faulted' = TRUE
        /\ UNCHANGED content
  /\ replay_pos' = replay_pos + 1
  /\ UNCHANGED <<durable, phase, log, before, target, records, crashes>> /\ UNCHANGED jvars

\* The loop ends: at the end of the journal, at a block that is not a header,
\* or when a header cannot be read.
journal_replay_ends ==
  /\ phase = "replay"
  /\ \/ replay_pos = s_n_blocks /\ UNCHANGED faulted
     \/ /\ replay_pos < s_n_blocks
        /\ content.hdr[replay_pos] = NoHdr
        /\ UNCHANGED faulted
     \/ replay_pos < s_n_blocks /\ ~faulted /\ faulted' = TRUE
  /\ phase' = "up" /\ replay_pos' = 0
  /\ target' = NoUsers
  /\ UNCHANGED <<content, durable, log, before, records, crashes>>
  /\ UNCHANGED jvars

Next ==
  \/ journal_begin
  \/ \E u \in Users : journal_log(u) \/ \E v \in Data : client_write(u, v)
  \/ journal_commit
  \/ blk_sync_returns
  \/ write_back
  \/ Crash
  \/ journal_replay_record
  \/ journal_replay_ends

Spec == Init /\ [][Next]_vars

\* journal_replay is a loop that runs on: it takes its next turn.
FairSpec == Spec /\ WF_vars(journal_replay_record) /\ WF_vars(journal_replay_ends)

----------------------------------------------------------------------------
\* Properties

\* A crash during journal_replay, with any part of its writes on the device,
\* changes nothing of what the next journal_replay restores; and the one that is
\* running will restore just that.  (No device read failed.)
ReplayConverges ==
  phase = "replay" /\ ~faulted =>
    \A u \in Users : /\ AfterReplay[u] = target[u]
                     /\ Restored(content, replay_pos, u) = target[u]

\* The last s_n_blocks records of the open transaction are in the journal, each
\* header beside the data journal_log read for it: wrapping around never
\* overwrites a record of the open transaction before the journal is full of
\* them, and a checkpoint never does.
OpenTxnRecorded ==
  s_in_txn =>
    \A i \in DOMAIN log : i > Len(log) - s_n_blocks =>
      /\ content.hdr[log[i].pos] = [commit |-> FALSE, lba |-> log[i].lba]
      /\ content.data[log[i].pos] = log[i].old

\* The records in front of the write position are on the device as they were
\* written, and none has been overwritten by a lap around the journal.
RecordsOnDevice ==
  /\ s_write_pos <= s_n_blocks
  /\ \A j \in Pos : j < s_write_pos => /\ durable.hdr[j] = content.hdr[j]
                                       /\ durable.data[j] = content.data[j]

\* No record of u that an earlier boot, or the time before the last checkpoint,
\* left behind the write position is met by a replay.
NoStaleRecord(u) ==
  \A j \in Reached(durable) : j >= s_write_pos /\ ~durable.hdr[j].commit => durable.hdr[j].lba # u

\* What the undo log is for: once the records written since the boot or the last
\* checkpoint have reached the device, a crash takes a block that the open
\* transaction logged once back to what it was when the transaction began,
\* whatever part of the transaction's own writes, and of everything else, had
\* reached the device.  The block must have no stale record: replay would meet it
\* last.
OpenTxnUndone ==
  s_in_txn /\ RecordsOnDevice /\ ~faulted =>
    \A i \in DOMAIN log :
      (\A j \in DOMAIN log : log[j].lba = log[i].lba => j = i) /\ NoStaleRecord(log[i].lba)
        => AfterReplay[log[i].lba] = before[log[i].lba]

\* Replay ends: the machine comes up again after its last crash.
ReplayTerminates == phase = "replay" ~> phase = "up"

=============================================================================
