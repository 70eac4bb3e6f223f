--------------------------- MODULE JournalProofs ---------------------------
(***************************************************************************)
(* Proofs about Journal, for any blocks, any size of the journal and any   *)
(* bounds on records and crashes.                                          *)
(***************************************************************************)
EXTENDS Journal, WellFoundedInduction, TLAPS

----------------------------------------------------------------------------
\* Numbers

LEMMA PosType == \A i \in Pos : i \in Nat /\ i < s_n_blocks /\ s_n_blocks - i \in Nat
BY SizeAssumption DEF Pos

\* A nonempty set of numbers has a least one.
LEMMA LeastNumber ==
  ASSUME NEW T, T \subseteq Nat, T # {}
  PROVE  \E x \in T : \A y \in T : ~(y < x)
<1>1. PICK x \in T : \A y \in T : ~(<<y, x>> \in OpToRel(<, Nat))
  BY WFMin, NatLessThanWellFounded, Zenon
<1>2. \A i, j \in Nat : i < j => <<i, j>> \in OpToRel(<, Nat)
  BY DEF OpToRel
<1> QED
  BY <1>1, <1>2

\* A nonempty set of positions has a greatest one.
LEMMA MaxOfPositions ==
  ASSUME NEW S, S \subseteq Pos, S # {}
  PROVE  Max(S) \in S /\ \A y \in S : Max(S) >= y
<1> DEFINE T == {s_n_blocks - i : i \in S}
<1>1. T \subseteq Nat /\ T # {}
  BY PosType
<1> HIDE DEF T
<1>2. PICK x \in T : \A y \in T : ~(y < x)
  BY <1>1, LeastNumber
<1> USE DEF T
<1>3. \A y \in T : ~(y < x)
  BY <1>2
<1>4. PICK m \in S : x = s_n_blocks - m
  BY <1>2
<1>5. \A y \in S : m >= y
  <2> SUFFICES ASSUME NEW y \in S PROVE m >= y
    OBVIOUS
  <2>1. ~(s_n_blocks - y < s_n_blocks - m)
    BY <1>3, <1>4
  <2> QED
    BY <1>4, <2>1, PosType, SizeAssumption
<1> QED
  BY <1>4, <1>5 DEF Max

\* A number that bounds a set of positions and is one of them is its greatest.
LEMMA MaxIs ==
  ASSUME NEW S, S \subseteq Pos, NEW m \in S, \A y \in S : m >= y
  PROVE  Max(S) = m
<1>1. Max(S) \in S /\ Max(S) >= m
  BY MaxOfPositions
<1>2. m >= Max(S)
  BY <1>1
<1>3. m \in Int /\ Max(S) \in Int
  BY <1>1, PosType
<1> QED
  BY <1>1, <1>2, <1>3

LEMMA LbaType == \A w \in Nat : Lba(w) \in Pos
BY SizeAssumption DEF Lba, Pos

LEMMA LbaSmall == \A w \in Pos : Lba(w) = w
BY SizeAssumption DEF Lba, Pos

LEMMA DivMod ==
  ASSUME NEW a \in Nat, NEW n \in Nat, n > 0
  PROVE  /\ a = n * (a \div n) + (a % n)
         /\ a \div n \in Nat /\ a % n \in 0..(n - 1)
OBVIOUS

LEMMA SelfMod == ASSUME NEW n \in Nat, n > 0 PROVE n % n = 0
OBVIOUS

\* Fewer than s_n_blocks records apart, two records are in different places.
LEMMA LbaDistinct ==
  ASSUME NEW a \in Nat, NEW b \in Nat, a < b, b - a < s_n_blocks
  PROVE  Lba(a) # Lba(b)
<1> DEFINE n == s_n_blocks  qa == a \div n  qb == b \div n
<1>0. n \in Nat /\ n > 0
  BY SizeAssumption
<1>1. qa \in Nat /\ qb \in Nat /\ a % n \in 0..(n - 1) /\ b % n \in 0..(n - 1)
  BY <1>0, DivMod
<1>2. a = n * qa + (a % n) /\ b = n * qb + (b % n)
  BY <1>0, DivMod
<1> SUFFICES ASSUME a % n = b % n PROVE FALSE
  BY DEF Lba
<1> HIDE DEF qa, qb, n
<1>3. n * qb - n * qa = b - a
  BY <1>0, <1>1, <1>2
<1>4. n * (qb - qa) = b - a
  BY <1>0, <1>1, <1>3
<1>5. CASE qb - qa <= 0
  <2>1. n * (qb - qa) <= 0
    BY <1>0, <1>1, <1>5
  <2> QED
    BY <1>4, <2>1
<1>6. CASE qb - qa >= 1
  <2>1. n * (qb - qa) >= n
    BY <1>0, <1>1, <1>6
  <2> QED
    BY <1>0, <1>1, <1>4, <2>1 DEF n
<1> QED
  BY <1>1, <1>5, <1>6

----------------------------------------------------------------------------
\* Disks and records

LEMMA DataHdr ==
  ASSUME NEW u \in Users
  PROVE  /\ [commit |-> FALSE, lba |-> u] \in Hdrs
         /\ [commit |-> FALSE, lba |-> u].commit = FALSE
         /\ [commit |-> FALSE, lba |-> u].lba = u
BY DEF Hdrs

LEMMA CommitHdr == [commit |-> TRUE] \in Hdrs /\ [commit |-> TRUE].commit = TRUE
BY DEF Hdrs

LEMMA HdrCases ==
  ASSUME NEW h \in Hdrs
  PROVE  h.commit \in BOOLEAN /\ (~h.commit => h.lba \in Users)
<1>1. CASE h \in [commit : {FALSE}, lba : Users]
  BY <1>1
<1>2. CASE h = [commit |-> TRUE]
  BY <1>2
<1> QED
  BY <1>1, <1>2 DEF Hdrs

LEMMA DiskParts ==
  ASSUME NEW d \in Disks
  PROVE  /\ d.user \in [Users -> Data] /\ d.hdr \in [Pos -> Hdrs \cup {NoHdr}]
         /\ d.data \in [Pos -> Data]
         /\ d = [user |-> d.user, hdr |-> d.hdr, data |-> d.data]
BY DEF Disks

LEMMA DiskOf ==
  ASSUME NEW f \in [Users -> Data], NEW h \in [Pos -> Hdrs \cup {NoHdr}], NEW x \in [Pos -> Data]
  PROVE  [user |-> f, hdr |-> h, data |-> x] \in Disks
BY DEF Disks

\* What each of the three ways to change a disk leaves alone.
LEMMA PutUserEffect ==
  ASSUME NEW d \in Disks, NEW u \in Users, NEW v \in Data
  PROVE  /\ PutUser(d, u, v) \in Disks
         /\ PutUser(d, u, v).hdr = d.hdr /\ PutUser(d, u, v).data = d.data
         /\ PutUser(d, u, v).user = [d.user EXCEPT ![u] = v]
<1> DEFINE f == [d.user EXCEPT ![u] = v]
           e == PutUser(d, u, v)
<1>1. d.user \in [Users -> Data] /\ d.hdr \in [Pos -> Hdrs \cup {NoHdr}] /\ d.data \in [Pos -> Data]
  BY DiskParts
<1>2. f \in [Users -> Data] /\ e = [d EXCEPT !.user = f]
  BY <1>1 DEF PutUser
<1> HIDE DEF f, e
<1>3. e = [user |-> f, hdr |-> d.hdr, data |-> d.data]
  BY <1>2 DEF Disks
<1>4. [user |-> f, hdr |-> d.hdr, data |-> d.data] \in Disks
  BY <1>1, <1>2, DiskOf
<1>5. e.hdr = d.hdr /\ e.data = d.data /\ e.user = f
  BY <1>3
<1> QED
  BY <1>3, <1>4, <1>5 DEF e, f

LEMMA PutHdrEffect ==
  ASSUME NEW d \in Disks, NEW i \in Pos, NEW v \in Hdrs \cup {NoHdr}
  PROVE  /\ PutHdr(d, i, v) \in Disks
         /\ PutHdr(d, i, v).user = d.user /\ PutHdr(d, i, v).data = d.data
         /\ PutHdr(d, i, v).hdr = [d.hdr EXCEPT ![i] = v]
<1> DEFINE f == [d.hdr EXCEPT ![i] = v]
           e == PutHdr(d, i, v)
<1>1. d.user \in [Users -> Data] /\ d.hdr \in [Pos -> Hdrs \cup {NoHdr}] /\ d.data \in [Pos -> Data]
  BY DiskParts
<1>2. f \in [Pos -> Hdrs \cup {NoHdr}] /\ e = [d EXCEPT !.hdr = f]
  BY <1>1 DEF PutHdr
<1> HIDE DEF f, e
<1>3. e = [user |-> d.user, hdr |-> f, data |-> d.data]
  BY <1>2 DEF Disks
<1>4. [user |-> d.user, hdr |-> f, data |-> d.data] \in Disks
  BY <1>1, <1>2, DiskOf
<1>5. e.user = d.user /\ e.data = d.data /\ e.hdr = f
  BY <1>3
<1> QED
  BY <1>3, <1>4, <1>5 DEF e, f

LEMMA PutDataEffect ==
  ASSUME NEW d \in Disks, NEW i \in Pos, NEW v \in Data
  PROVE  /\ PutData(d, i, v) \in Disks
         /\ PutData(d, i, v).user = d.user /\ PutData(d, i, v).hdr = d.hdr
         /\ PutData(d, i, v).data = [d.data EXCEPT ![i] = v]
<1> DEFINE f == [d.data EXCEPT ![i] = v]
           e == PutData(d, i, v)
<1>1. d.user \in [Users -> Data] /\ d.hdr \in [Pos -> Hdrs \cup {NoHdr}] /\ d.data \in [Pos -> Data]
  BY DiskParts
<1>2. f \in [Pos -> Data] /\ e = [d EXCEPT !.data = f]
  BY <1>1 DEF PutData
<1> HIDE DEF f, e
<1>3. e = [user |-> d.user, hdr |-> d.hdr, data |-> f]
  BY <1>2 DEF Disks
<1>4. [user |-> d.user, hdr |-> d.hdr, data |-> f] \in Disks
  BY <1>1, <1>2, DiskOf
<1>5. e.user = d.user /\ e.hdr = d.hdr /\ e.data = f
  BY <1>3
<1> QED
  BY <1>3, <1>4, <1>5 DEF e, f

----------------------------------------------------------------------------
\* What a replay restores

\* The records of block u that a replay of disk d meets from position p on.
RecordsOf(d, p, u) == {i \in Reached(d) : i >= p /\ ~d.hdr[i].commit /\ d.hdr[i].lba = u}

LEMMA RecordsArePositions == \A d, p, u : RecordsOf(d, p, u) \subseteq Pos
BY DEF RecordsOf, Reached

LEMMA RestoredIs ==
  \A d, p, u : Restored(d, p, u) = IF RecordsOf(d, p, u) = {} THEN d.user[u]
                                   ELSE d.data[Max(RecordsOf(d, p, u))]
BY DEF Restored, RecordsOf

LEMMA RestoredType ==
  ASSUME NEW d \in Disks, NEW p, NEW u \in Users
  PROVE  Restored(d, p, u) \in Data
<1>1. CASE RecordsOf(d, p, u) = {}
  BY <1>1, RestoredIs, DiskParts
<1>2. CASE RecordsOf(d, p, u) # {}
  <2>1. Max(RecordsOf(d, p, u)) \in Pos
    BY <1>2, RecordsArePositions, MaxOfPositions
  <2> QED
    BY <1>2, <2>1, RestoredIs, DiskParts
<1> QED
  BY <1>1, <1>2

\* Disks with the same journal restore the same, if the block is the same or
\* has a record.
LEMMA RestoredFrame ==
  ASSUME NEW d, NEW e, NEW p, NEW u, d.hdr = e.hdr, d.data = e.data,
         d.user[u] = e.user[u] \/ RecordsOf(d, p, u) # {}
  PROVE  Restored(d, p, u) = Restored(e, p, u)
<1>1. RecordsOf(d, p, u) = RecordsOf(e, p, u)
  BY DEF RecordsOf, Reached
<1> QED
  BY <1>1, RestoredIs

\* One turn of the loop at position p: a record of another block, or a commit
\* record, is none of u's.
LEMMA TurnSkips ==
  ASSUME NEW d \in Disks, NEW p \in Pos, NEW u,
         d.hdr[p] # NoHdr, d.hdr[p].commit \/ d.hdr[p].lba # u
  PROVE  RecordsOf(d, p, u) = RecordsOf(d, p + 1, u)
<1>1. ASSUME NEW i \in Pos, i # p PROVE i >= p <=> i >= p + 1
  BY <1>1, PosType
<1>2. p \notin RecordsOf(d, p, u) /\ p \notin RecordsOf(d, p + 1, u)
  BY DEF RecordsOf
<1>3. ASSUME NEW i \in Pos PROVE i \in RecordsOf(d, p, u) <=> i \in RecordsOf(d, p + 1, u)
  <2>1. CASE i = p
    BY <1>2, <2>1
  <2>2. CASE i # p
    BY <1>1, <2>2 DEF RecordsOf
  <2> QED
    BY <2>1, <2>2
<1> QED
  BY <1>3, RecordsArePositions

\* A record of u: restoring it now changes nothing of the end result.
LEMMA TurnRestores ==
  ASSUME NEW d \in Disks, NEW e, NEW p \in Pos, NEW u \in Users,
         \A j \in Pos : j <= p => d.hdr[j] # NoHdr,
         ~d.hdr[p].commit, d.hdr[p].lba = u,
         e.hdr = d.hdr, e.data = d.data, e.user[u] = d.data[p]
  PROVE  Restored(e, p + 1, u) = Restored(d, p, u)
<1> DEFINE R == RecordsOf(d, p, u)
           Q == RecordsOf(d, p + 1, u)
<1>1. Q = RecordsOf(e, p + 1, u)
  BY DEF RecordsOf, Reached
<1>2. p \in Reached(d)
  <2>1. ASSUME NEW j \in 0..p PROVE j \in Pos /\ j <= p
    BY <2>1, PosType, SizeAssumption DEF Pos
  <2> QED
    BY <2>1 DEF Reached
<1>3. p \in R /\ R \subseteq Pos /\ Q \subseteq Pos
  <2>1. p >= p
    BY PosType
  <2>2. p \in R
    BY <1>2, <2>1 DEF RecordsOf
  <2> QED
    BY <2>2, RecordsArePositions
<1>4. \A i \in Pos : i \in Q <=> i \in R /\ i # p
  <2> SUFFICES ASSUME NEW i \in Pos PROVE i \in Q <=> i \in R /\ i # p
    OBVIOUS
  <2>1. i >= p + 1 <=> i >= p /\ i # p
    BY PosType
  <2> QED
    BY <2>1 DEF RecordsOf
<1>5. \A i \in R : i >= p
  BY DEF RecordsOf
<1> HIDE DEF R, Q
<1>6. CASE Q = {}
  <2>1. \A i \in R : p >= i
    BY <1>3, <1>4, <1>6, PosType
  <2>2. Max(R) = p
    BY <1>3, <2>1, MaxIs
  <2> QED
    BY <1>1, <1>3, <1>6, <2>2, RestoredIs DEF R
<1>7. CASE Q # {}
  <2>1. Max(Q) \in Q /\ \A i \in Q : Max(Q) >= i
    BY <1>3, <1>7, MaxOfPositions
  <2>2. Max(Q) \in R /\ Max(Q) >= p
    BY <1>3, <1>4, <1>5, <2>1
  <2>3. \A i \in R : Max(Q) >= i
    BY <1>3, <1>4, <2>1, <2>2
  <2>4. Max(R) = Max(Q)
    BY <1>3, <2>2, <2>3, MaxIs
  <2> QED
    BY <1>1, <1>3, <1>7, <2>4, RestoredIs DEF R
<1> QED
  BY <1>6, <1>7

----------------------------------------------------------------------------
\* The invariant

\* The write position counts records of this boot.
WithinRecords == s_write_pos <= records

\* During a replay the journal's blocks are those of the device, no transaction
\* is open, and what the loop has passed were headers.
ReplayState ==
  phase = "replay" =>
    /\ ~s_in_txn
    /\ content.hdr = durable.hdr /\ content.data = durable.data
    /\ \A j \in Pos : j < replay_pos => content.hdr[j] # NoHdr

\* The open transaction's records are the last ones before the write position.
LogPlaces ==
  s_in_txn =>
    /\ Len(log) <= s_write_pos
    /\ \A i \in DOMAIN log : log[i].pos = Lba(s_write_pos - Len(log) + i - 1)

\* There is no gap before the write position.
Filled == \A j \in Pos : j < s_write_pos => content.hdr[j] # NoHdr

\* A block that was not logged has not changed since the transaction began, and
\* the first record of a block holds what it was then.
LoggedOld ==
  s_in_txn /\ ~faulted =>
    /\ \A u \in Users : (\A j \in DOMAIN log : log[j].lba # u) => content.user[u] = before[u]
    /\ \A i \in DOMAIN log :
         (\A j \in DOMAIN log : j < i => log[j].lba # log[i].lba) => log[i].old = before[log[i].lba]

IInv ==
  /\ TypeOK
  /\ WithinRecords
  /\ ReplayState
  /\ ReplayConverges
  /\ LogPlaces
  /\ Filled
  /\ OpenTxnRecorded
  /\ LoggedOld

\* ReplayConverges as a statement about two disks and a position.
Converging(c, d, p, t) ==
  \A u \in Users : Restored(d, 0, u) = t[u] /\ Restored(c, p, u) = t[u]

LEMMA ConvergesIs ==
  ReplayConverges <=>
    (phase = "replay" /\ ~faulted => Converging(content, durable, replay_pos, target))
BY DEF ReplayConverges, Converging, AfterReplay

LEMMA ConvergesIsNext ==
  ReplayConverges' <=>
    (phase' = "replay" /\ ~faulted' => Converging(content', durable', replay_pos', target'))
BY DEF ReplayConverges, Converging, AfterReplay

LEMMA InitIInv == Init => IInv
<1> SUFFICES ASSUME Init PROVE IInv
  OBVIOUS
<1>1. PICK user \in [Users -> Data] : content = Blank(user)
  BY DEF Init
<1>2. content \in Disks
  <2>1. [i \in Pos |-> NoHdr] \in [Pos -> Hdrs \cup {NoHdr}] /\ [i \in Pos |-> Zero] \in [Pos -> Data]
    BY ZeroAssumption
  <2> QED
    BY <1>1, <2>1, DiskOf DEF Blank
<1>3. NoUsers \in [Users -> Data]
  BY ZeroAssumption DEF NoUsers
<1>4. TypeOK
  <2>1. log \in Seq(Records)
    BY DEF Init
  <2>2. /\ s_write_pos \in 0..MaxRecords /\ s_commit_count \in 0..(CheckpointEvery - 1)
        /\ replay_pos \in 0..s_n_blocks /\ records \in 0..MaxRecords /\ crashes \in 0..MaxCrashes
    BY SizeAssumption, BoundAssumption DEF Init
  <2>3. /\ durable = content /\ before = NoUsers /\ target = NoUsers /\ phase = "up"
        /\ s_in_txn = FALSE /\ faulted = FALSE
    BY DEF Init
  <2> QED
    BY <1>2, <1>3, <2>1, <2>2, <2>3 DEF TypeOK
<1>5. WithinRecords /\ ReplayState /\ LogPlaces /\ OpenTxnRecorded /\ LoggedOld /\ ReplayConverges
  BY DEF Init, WithinRecords, ReplayState, LogPlaces, OpenTxnRecorded, LoggedOld, ReplayConverges
<1>6. Filled
  BY PosType DEF Init, Filled
<1> QED
  BY <1>4, <1>5, <1>6 DEF IInv

LEMMA BeginStep ==
  ASSUME IInv, journal_begin
  PROVE  IInv'
<1>1. phase = "up" /\ phase' = "up" /\ s_in_txn' = TRUE /\ log' = <<>> /\ before' = content.user
  BY DEF journal_begin
<1>2. UNCHANGED <<content, durable, s_write_pos, s_commit_count, replay_pos, target, records, crashes, faulted>>
  BY DEF journal_begin
<1>3. TypeOK'
  <2>1. log' \in Seq(Records) /\ before' \in [Users -> Data]
    BY <1>1, DiskParts DEF IInv, TypeOK
  <2> QED
    BY <1>1, <1>2, <2>1 DEF IInv, TypeOK
<1>4. WithinRecords' /\ Filled'
  BY <1>2 DEF IInv, WithinRecords, Filled
<1>5. ReplayState' /\ ReplayConverges'
  BY <1>1 DEF ReplayState, ReplayConverges
<1>6. LogPlaces'
  BY <1>1, <1>2 DEF LogPlaces, IInv, TypeOK
<1>7. OpenTxnRecorded' /\ LoggedOld'
  BY <1>1, <1>2 DEF OpenTxnRecorded, LoggedOld
<1> QED
  BY <1>3, <1>4, <1>5, <1>6, <1>7 DEF IInv

LEMMA ClientWriteStep ==
  ASSUME IInv, NEW u \in Users, NEW v \in Data, client_write(u, v)
  PROVE  IInv'
<1>1. /\ phase = "up" /\ s_in_txn
      /\ \E i \in DOMAIN log : log[i].lba = u
      /\ content' = PutUser(content, u, v)
  BY DEF client_write
<1>2. UNCHANGED <<durable, phase, replay_pos, s_write_pos, s_in_txn, s_commit_count,
                  log, before, target, records, crashes, faulted>>
  BY DEF client_write, jvars, history
<1>3. /\ content' \in Disks /\ content'.hdr = content.hdr /\ content'.data = content.data
      /\ content'.user = [content.user EXCEPT ![u] = v]
  BY <1>1, PutUserEffect DEF IInv, TypeOK
<1>4. TypeOK'
  BY <1>2, <1>3 DEF IInv, TypeOK
<1>5. WithinRecords' /\ Filled' /\ LogPlaces'
  BY <1>2, <1>3 DEF IInv, WithinRecords, Filled, LogPlaces
<1>6. ReplayState' /\ ReplayConverges'
  BY <1>1, <1>2 DEF ReplayState, ReplayConverges
<1>7. OpenTxnRecorded'
  BY <1>2, <1>3 DEF IInv, OpenTxnRecorded
<1>8. LoggedOld'
  <2>1. \A w \in Users : w # u => content'.user[w] = content.user[w]
    BY <1>3, DiskParts DEF IInv, TypeOK
  <2> QED
    BY <1>1, <1>2, <2>1 DEF IInv, LoggedOld
<1> QED
  BY <1>4, <1>5, <1>6, <1>7, <1>8 DEF IInv

\* A record is written: by journal_log with old data, by journal_commit as a
\* commit record.  What the header position w holds afterwards, and the others.
LEMMA FilledStep ==
  ASSUME IInv, NEW h \in Hdrs, content'.hdr = [content.hdr EXCEPT ![Lba(s_write_pos)] = h],
         s_write_pos' = s_write_pos + 1
  PROVE  Filled'
<1>1. content.hdr \in [Pos -> Hdrs \cup {NoHdr}] /\ s_write_pos \in Nat
  BY DiskParts, BoundAssumption DEF IInv, TypeOK
<1>2. h # NoHdr
  BY NoHdrAssumption
<1> SUFFICES ASSUME NEW j \in Pos, j < s_write_pos + 1 PROVE content'.hdr[j] # NoHdr
  BY DEF Filled
<1>3. CASE j < s_write_pos
  BY <1>1, <1>2, <1>3 DEF IInv, Filled
<1>4. CASE ~(j < s_write_pos)
  <2>1. j = s_write_pos
    BY <1>1, <1>4, PosType
  <2>2. Lba(s_write_pos) = j
    BY <2>1, LbaSmall
  <2> QED
    BY <1>1, <1>2, <2>2
<1> QED
  BY <1>3, <1>4

LEMMA LogRecordStep ==
  ASSUME IInv, phase = "up", s_in_txn, records < MaxRecords,
         NEW u \in Users, NEW old \in Data, LogRecord(u, old),
         faulted' \in BOOLEAN, faulted => faulted', faulted' \/ old = content.user[u]
  PROVE  IInv'
<1> DEFINE w == s_write_pos
           L == Len(log)
           l == Lba(w)
           h == [commit |-> FALSE, lba |-> u]
           r == [pos |-> l, lba |-> u, old |-> old]
<1>1. /\ content' = PutData(PutHdr(content, l, h), l, old)
      /\ log' = Append(log, r)
      /\ s_write_pos' = w + 1 /\ records' = records + 1
      /\ UNCHANGED <<durable, s_in_txn, s_commit_count, phase, replay_pos, before, target, crashes>>
  BY DEF LogRecord, write_record
<1>2. w \in Nat /\ L \in Nat /\ l \in Pos /\ h \in Hdrs /\ r \in Records
  <2>1. w \in Nat
    BY BoundAssumption DEF IInv, TypeOK
  <2>2. l \in Pos
    BY <2>1, LbaType
  <2>3. r \in Records
    BY <2>2 DEF Records
  <2>4. L \in Nat
    BY DEF IInv, TypeOK
  <2> QED
    BY <2>1, <2>2, <2>3, <2>4, DataHdr
<1>3. r.pos = l /\ r.lba = u /\ r.old = old
  OBVIOUS
<1>4. h.commit = FALSE /\ h.lba = u
  OBVIOUS
<1> HIDE DEF l, r
<1>5. /\ content' \in Disks /\ content'.user = content.user
      /\ content'.hdr = [content.hdr EXCEPT ![l] = h]
      /\ content'.data = [content.data EXCEPT ![l] = old]
  <2> DEFINE c == PutHdr(content, l, h)
  <2> HIDE DEF h
  <2>1. /\ c \in Disks /\ c.user = content.user /\ c.data = content.data
        /\ c.hdr = [content.hdr EXCEPT ![l] = h]
    BY <1>2, PutHdrEffect DEF IInv, TypeOK
  <2>2. content' = PutData(c, l, old)
    BY <1>1
  <2> HIDE DEF c
  <2> QED
    BY <1>2, <2>1, <2>2, PutDataEffect
<1>6. content.hdr \in [Pos -> Hdrs \cup {NoHdr}] /\ content.data \in [Pos -> Data]
  BY DiskParts DEF IInv, TypeOK
<1>7. /\ log' \in Seq(Records) /\ Len(log') = L + 1 /\ log'[L + 1] = r
      /\ \A i \in DOMAIN log : i \in 1..L /\ i \in DOMAIN log' /\ log'[i] = log[i]
      /\ \A i \in DOMAIN log' : i \in DOMAIN log \/ i = L + 1
  BY <1>1, <1>2 DEF IInv, TypeOK
<1> HIDE DEF h
<1>8. TypeOK'
  <2>1. s_write_pos' \in 0..MaxRecords /\ records' \in 0..MaxRecords
    BY <1>1, BoundAssumption DEF IInv, TypeOK, WithinRecords
  <2> QED
    BY <1>1, <1>5, <1>7, <2>1 DEF IInv, TypeOK
<1>9. WithinRecords'
  BY <1>1, BoundAssumption DEF IInv, TypeOK, WithinRecords
<1>10. ReplayState' /\ ReplayConverges'
  BY <1>1 DEF ReplayState, ReplayConverges
<1>11. Filled'
  BY <1>1, <1>2, <1>5, FilledStep DEF l
<1>12. L <= w /\ \A i \in DOMAIN log : log[i].pos = Lba(w - L + i - 1)
  BY DEF IInv, LogPlaces
<1>13. LogPlaces'
  <2>1. Len(log') <= s_write_pos'
    BY <1>1, <1>2, <1>7, <1>12
  <2>2. ASSUME NEW i \in DOMAIN log' PROVE log'[i].pos = Lba(s_write_pos' - Len(log') + i - 1)
    <3>1. CASE i \in DOMAIN log
      <4>1. s_write_pos' - Len(log') + i - 1 = w - L + i - 1
        BY <1>1, <1>2, <1>7, <3>1
      <4> QED
        BY <1>7, <1>12, <3>1, <4>1
    <3>2. CASE i = L + 1
      <4>1. s_write_pos' - Len(log') + i - 1 = w
        BY <1>1, <1>2, <1>7, <3>2
      <4> QED
        BY <1>3, <1>7, <3>2, <4>1 DEF l
    <3> QED
      BY <1>7, <3>1, <3>2
  <2> QED
    BY <2>1, <2>2 DEF LogPlaces
<1>14. OpenTxnRecorded'
  <2> SUFFICES ASSUME NEW i \in DOMAIN log', i > Len(log') - s_n_blocks
               PROVE  /\ content'.hdr[log'[i].pos] = [commit |-> FALSE, lba |-> log'[i].lba]
                      /\ content'.data[log'[i].pos] = log'[i].old
    BY DEF OpenTxnRecorded
  <2>1. CASE i = L + 1
    BY <1>2, <1>3, <1>5, <1>6, <1>7, <2>1 DEF h
  <2>2. CASE i \in DOMAIN log
    <3>1. i \in 1..L /\ i > L - s_n_blocks
      BY <1>2, <1>7, <2>2, SizeAssumption
    <3>2. /\ content.hdr[log[i].pos] = [commit |-> FALSE, lba |-> log[i].lba]
          /\ content.data[log[i].pos] = log[i].old
      BY <2>2, <3>1 DEF IInv, OpenTxnRecorded
    <3> DEFINE a == w - L + i - 1
    <3>3. a \in Nat /\ a < w /\ w - a < s_n_blocks
      BY <1>2, <1>7, <1>12, <3>1, SizeAssumption
    <3>4. log[i].pos = Lba(a)
      BY <1>12, <2>2
    <3> HIDE DEF a
    <3>5. log[i].pos # l /\ log[i].pos \in Pos
      BY <1>2, <3>3, <3>4, LbaDistinct, LbaType DEF l
    <3>6. /\ content'.hdr[log[i].pos] = content.hdr[log[i].pos]
          /\ content'.data[log[i].pos] = content.data[log[i].pos]
      BY <1>5, <1>6, <3>5
    <3>7. log'[i] = log[i]
      BY <1>7, <2>2
    <3> QED
      BY <3>2, <3>6, <3>7
  <2> QED
    BY <1>7, <2>1, <2>2
<1>15. LoggedOld'
  <2> SUFFICES ASSUME ~faulted' PROVE LoggedOld'
    BY DEF LoggedOld
  <2>1. ~faulted /\ old = content.user[u]
    OBVIOUS
  <2>2. ASSUME NEW x \in Users, \A j \in DOMAIN log' : log'[j].lba # x
        PROVE  content'.user[x] = before'[x]
    BY <1>1, <1>5, <1>7, <2>1, <2>2 DEF IInv, LoggedOld
  <2>3. ASSUME NEW i \in DOMAIN log', \A j \in DOMAIN log' : j < i => log'[j].lba # log'[i].lba
        PROVE  log'[i].old = before'[log'[i].lba]
    <3>1. CASE i \in DOMAIN log
      BY <1>1, <1>7, <2>1, <2>3, <3>1 DEF IInv, LoggedOld
    <3>2. CASE i = L + 1
      <4>1. \A j \in DOMAIN log : log[j].lba # u
        <5> SUFFICES ASSUME NEW j \in DOMAIN log PROVE log[j].lba # u
          OBVIOUS
        <5>1. j \in DOMAIN log' /\ j < i /\ log'[j] = log[j]
          BY <1>2, <1>7, <3>2
        <5> QED
          BY <1>3, <1>7, <2>3, <3>2, <5>1
      <4>2. content.user[u] = before[u]
        BY <2>1, <4>1 DEF IInv, LoggedOld
      <4> QED
        BY <1>1, <1>3, <1>7, <2>1, <3>2, <4>2
    <3> QED
      BY <1>7, <3>1, <3>2
  <2> QED
    BY <2>2, <2>3 DEF LoggedOld
<1> QED
  BY <1>8, <1>9, <1>10, <1>11, <1>13, <1>14, <1>15 DEF IInv

LEMMA CommitStep ==
  ASSUME IInv, journal_commit
  PROVE  IInv'
<1> DEFINE h == [commit |-> TRUE]
<1>1. /\ phase = "up" /\ s_in_txn /\ records < MaxRecords
      /\ content' = PutHdr(content, Lba(s_write_pos), h)
      /\ s_in_txn' = FALSE /\ log' = <<>> /\ before' = NoUsers /\ records' = records + 1
      /\ UNCHANGED <<durable, replay_pos, target, crashes, faulted>>
  BY DEF journal_commit
<1>2. \/ s_write_pos' = 0 /\ s_commit_count' = 0 /\ phase' = "sync"
      \/ /\ (s_commit_count + 1) % CheckpointEvery # 0
         /\ s_write_pos' = s_write_pos + 1 /\ s_commit_count' = s_commit_count + 1
         /\ phase' = phase
  BY DEF journal_commit, journal_checkpoint
<1>3. s_write_pos \in Nat /\ Lba(s_write_pos) \in Pos
  BY LbaType, BoundAssumption DEF IInv, TypeOK
<1>4. h \in Hdrs
  BY CommitHdr
<1> HIDE DEF h
<1>5. /\ content' \in Disks
      /\ content'.hdr = [content.hdr EXCEPT ![Lba(s_write_pos)] = h]
  BY <1>1, <1>3, <1>4, PutHdrEffect DEF IInv, TypeOK
<1>6. s_commit_count' \in 0..(CheckpointEvery - 1)
  <2>1. CASE s_commit_count' = 0
    BY <2>1, SizeAssumption
  <2>2. CASE (s_commit_count + 1) % CheckpointEvery # 0 /\ s_commit_count' = s_commit_count + 1
    <3>1. s_commit_count + 1 # CheckpointEvery
      BY <2>2, SizeAssumption, SelfMod
    <3> QED
      BY <2>2, <3>1, SizeAssumption DEF IInv, TypeOK
  <2> QED
    BY <1>2, <2>1, <2>2
<1>7. records' \in 0..MaxRecords /\ s_write_pos' \in 0..MaxRecords /\ s_write_pos' <= records'
  BY <1>1, <1>2, BoundAssumption DEF IInv, TypeOK, WithinRecords
<1>8. TypeOK'
  <2>1. phase' \in {"up", "sync"}
    BY <1>1, <1>2
  <2>2. log' \in Seq(Records) /\ before' \in [Users -> Data]
    BY <1>1, ZeroAssumption DEF NoUsers
  <2> QED
    BY <1>1, <1>5, <1>6, <1>7, <2>1, <2>2 DEF IInv, TypeOK
<1>9. Filled'
  <2>1. CASE s_write_pos' = 0
    BY <2>1, PosType DEF Filled
  <2>2. CASE s_write_pos' = s_write_pos + 1
    BY <1>4, <1>5, <2>2, FilledStep
  <2> QED
    BY <1>2, <2>1, <2>2
<1>10. ReplayState' /\ ReplayConverges' /\ LogPlaces' /\ OpenTxnRecorded' /\ LoggedOld'
  BY <1>1, <1>2 DEF ReplayState, ReplayConverges, LogPlaces, OpenTxnRecorded, LoggedOld
<1> QED
  BY <1>7, <1>8, <1>9, <1>10 DEF IInv, WithinRecords

\* The blk_sync of a checkpoint returns.
LEMMA SyncReturnsStep ==
  ASSUME IInv, blk_sync_returns
  PROVE  IInv'
<1>1. /\ phase' = "up"
      /\ UNCHANGED <<content, durable, replay_pos, s_write_pos, s_in_txn, s_commit_count,
                     log, before, target, records, crashes, faulted>>
  BY DEF blk_sync_returns, jvars, history
<1>2. TypeOK' /\ WithinRecords' /\ Filled'
  BY <1>1 DEF IInv, TypeOK, WithinRecords, Filled
<1>3. ReplayState' /\ ReplayConverges'
  BY <1>1 DEF ReplayState, ReplayConverges
<1>4. LogPlaces' /\ OpenTxnRecorded' /\ LoggedOld'
  BY <1>1 DEF IInv, LogPlaces, OpenTxnRecorded, LoggedOld
<1> QED
  BY <1>2, <1>3, <1>4 DEF IInv

\* One block reaches the device.
LEMMA WriteBackStep ==
  ASSUME IInv, write_back
  PROVE  IInv'
<1>1. UNCHANGED <<content, phase, replay_pos, s_write_pos, s_in_txn, s_commit_count,
                  log, before, target, records, crashes, faulted>>
  BY DEF write_back, jvars, history
<1>2. content.user \in [Users -> Data] /\ content.hdr \in [Pos -> Hdrs \cup {NoHdr}] /\ content.data \in [Pos -> Data]
  BY DiskParts DEF IInv, TypeOK
<1>3. durable \in Disks /\ durable.hdr \in [Pos -> Hdrs \cup {NoHdr}] /\ durable.data \in [Pos -> Data]
  BY DiskParts DEF IInv, TypeOK
<1>4. \/ \E u \in Users : durable' = PutUser(durable, u, content.user[u])
      \/ \E i \in Pos : durable' = PutHdr(durable, i, content.hdr[i])
      \/ \E i \in Pos : durable' = PutData(durable, i, content.data[i])
  BY DEF write_back
<1>5. /\ durable' \in Disks
      /\ content.hdr = durable.hdr /\ content.data = durable.data
           => durable'.hdr = durable.hdr /\ durable'.data = durable.data
      /\ \A u \in Users : durable'.user[u] \in {durable.user[u], content.user[u]}
  <2>1. ASSUME NEW u \in Users, durable' = PutUser(durable, u, content.user[u]) PROVE <1>5
    <3>1. /\ durable' \in Disks /\ durable'.hdr = durable.hdr /\ durable'.data = durable.data
          /\ durable'.user = [durable.user EXCEPT ![u] = content.user[u]]
      BY <1>2, <1>3, <2>1, PutUserEffect
    <3> QED
      BY <1>3, <3>1, DiskParts
  <2>2. ASSUME NEW i \in Pos, durable' = PutHdr(durable, i, content.hdr[i]) PROVE <1>5
    <3> DEFINE h == content.hdr[i]
    <3>0. h \in Hdrs \cup {NoHdr} /\ durable' = PutHdr(durable, i, h)
      BY <1>2, <2>2
    <3> HIDE DEF h
    <3>1. /\ durable' \in Disks /\ durable'.user = durable.user /\ durable'.data = durable.data
          /\ durable'.hdr = [durable.hdr EXCEPT ![i] = h]
      <4>1. durable \in Disks
        BY <1>3
      <4> QED
        BY <3>0, <4>1, PutHdrEffect
    <3> QED
      BY <1>3, <3>1 DEF h
  <2>3. ASSUME NEW i \in Pos, durable' = PutData(durable, i, content.data[i]) PROVE <1>5
    <3>1. /\ durable' \in Disks /\ durable'.user = durable.user /\ durable'.hdr = durable.hdr
          /\ durable'.data = [durable.data EXCEPT ![i] = content.data[i]]
      BY <1>2, <1>3, <2>3, PutDataEffect
    <3> QED
      BY <1>3, <3>1
  <2> QED
    BY <1>4, <2>1, <2>2, <2>3
<1>6. TypeOK'
  BY <1>1, <1>5 DEF IInv, TypeOK
<1>7. WithinRecords' /\ LogPlaces' /\ Filled' /\ OpenTxnRecorded' /\ LoggedOld'
  BY <1>1 DEF IInv, WithinRecords, LogPlaces, Filled, OpenTxnRecorded, LoggedOld
<1>8. ReplayState'
  BY <1>1, <1>5 DEF IInv, ReplayState
<1>9. ReplayConverges'
  <2> SUFFICES ASSUME phase = "replay", ~faulted, NEW u \in Users
               PROVE  Restored(durable', 0, u) = target[u]
    BY <1>1, ConvergesIs, ConvergesIsNext DEF IInv, Converging
  <2>1. content.hdr = durable.hdr /\ content.data = durable.data
    BY DEF IInv, ReplayState
  <2>2. durable'.hdr = durable.hdr /\ durable'.data = durable.data
    BY <1>5, <2>1
  <2>3. Restored(durable, 0, u) = target[u] /\ Restored(content, replay_pos, u) = target[u]
    BY ConvergesIs DEF IInv, Converging
  <2>4. CASE durable'.user[u] = durable.user[u] \/ RecordsOf(durable, 0, u) # {}
    BY <2>2, <2>3, <2>4, RestoredFrame
  <2>5. CASE durable'.user[u] = content.user[u] /\ RecordsOf(durable, 0, u) = {}
    <3>1. RecordsOf(durable', 0, u) = {} /\ RecordsOf(content, replay_pos, u) = {}
      <4>1. replay_pos \in Nat
        BY SizeAssumption DEF IInv, TypeOK
      <4>2. \A i \in RecordsOf(content, replay_pos, u) : i \in RecordsOf(durable, 0, u)
        BY <2>1, <4>1, PosType DEF RecordsOf, Reached
      <4> QED
        BY <2>2, <2>5, <4>2 DEF RecordsOf, Reached
    <3> QED
      BY <2>3, <2>5, <3>1, RestoredIs
  <2> QED
    BY <1>5, <2>4, <2>5
<1> QED
  BY <1>6, <1>7, <1>8, <1>9 DEF IInv

\* A crash: what there is to restore is what the device says, or, if a replay was
\* running, still what the crash before it left.
LEMMA CrashStep ==
  ASSUME IInv, Crash
  PROVE  IInv'
<1>1. /\ content' = durable /\ durable' = durable
      /\ s_write_pos' = 0 /\ s_in_txn' = FALSE /\ s_commit_count' = 0
      /\ phase' = "replay" /\ replay_pos' = 0 /\ log' = <<>> /\ before' = NoUsers
      /\ target' = (IF phase = "replay" THEN target ELSE AfterReplay)
      /\ records' = 0 /\ crashes < MaxCrashes /\ crashes' = crashes + 1
      /\ faulted' = faulted
  BY DEF Crash
<1>2. AfterReplay \in [Users -> Data]
  BY RestoredType DEF AfterReplay, IInv, TypeOK
<1>3. TypeOK'
  <2>1. /\ s_write_pos' \in 0..MaxRecords /\ s_commit_count' \in 0..(CheckpointEvery - 1)
        /\ replay_pos' \in 0..s_n_blocks /\ records' \in 0..MaxRecords
        /\ crashes' \in 0..MaxCrashes
    BY <1>1, SizeAssumption, BoundAssumption DEF IInv, TypeOK
  <2>2. log' \in Seq(Records) /\ before' \in [Users -> Data]
    BY <1>1, ZeroAssumption DEF NoUsers
  <2>3. target' \in [Users -> Data]
    BY <1>1, <1>2 DEF IInv, TypeOK
  <2> QED
    BY <1>1, <2>1, <2>2, <2>3 DEF IInv, TypeOK
<1>4. WithinRecords' /\ LogPlaces' /\ OpenTxnRecorded' /\ LoggedOld'
  BY <1>1 DEF WithinRecords, LogPlaces, OpenTxnRecorded, LoggedOld
<1>5. Filled' /\ ReplayState'
  BY <1>1, PosType DEF Filled, ReplayState
<1>6. ReplayConverges'
  <2> SUFFICES ASSUME ~faulted, NEW u \in Users
               PROVE  Restored(durable, 0, u) = target'[u]
    BY <1>1, ConvergesIsNext DEF Converging
  <2>1. CASE phase # "replay"
    BY <1>1, <2>1 DEF AfterReplay
  <2>2. CASE phase = "replay"
    BY <1>1, <2>2, ConvergesIs DEF IInv, Converging
  <2> QED
    BY <2>1, <2>2 DEF IInv, TypeOK
<1> QED
  BY <1>3, <1>4, <1>5, <1>6 DEF IInv

\* One turn of the replay loop.
LEMMA TurnStep ==
  ASSUME IInv, journal_replay_record
  PROVE  IInv'
<1> DEFINE p == replay_pos
           h == content.hdr[p]
<1>1. /\ phase = "replay" /\ p < s_n_blocks /\ h # NoHdr /\ replay_pos' = p + 1
      /\ UNCHANGED <<durable, phase, s_write_pos, s_in_txn, s_commit_count,
                     log, before, target, records, crashes>>
  BY DEF journal_replay_record, jvars
<1>2. \/ ~h.commit /\ content' = PutUser(content, h.lba, content.data[p]) /\ faulted' = faulted
      \/ h.commit /\ content' = content /\ faulted' = faulted
      \/ faulted' = TRUE /\ content' = content
  BY DEF journal_replay_record, RestoreRecord
<1>3. p \in Pos /\ p \in Nat
  BY <1>1, SizeAssumption DEF IInv, TypeOK, Pos
<1>4. content \in Disks /\ durable \in Disks
  BY DEF IInv, TypeOK
<1>5. h \in Hdrs /\ content.data[p] \in Data
  BY <1>1, <1>3, <1>4, DiskParts
<1>6. ~s_in_txn /\ content.hdr = durable.hdr /\ content.data = durable.data
  BY <1>1 DEF IInv, ReplayState
<1>7. \A j \in Pos : j <= p => content.hdr[j] # NoHdr
  <2> SUFFICES ASSUME NEW j \in Pos, j <= p PROVE content.hdr[j] # NoHdr
    OBVIOUS
  <2>1. CASE j = p
    BY <1>1, <2>1
  <2>2. CASE j # p
    <3>1. j < p
      BY <1>3, <2>2, PosType
    <3> QED
      BY <1>1, <3>1 DEF IInv, ReplayState
  <2> QED
    BY <2>1, <2>2
<1> HIDE DEF h, p
<1>8. ASSUME ~h.commit, content' = PutUser(content, h.lba, content.data[p])
      PROVE  /\ content' \in Disks /\ content'.hdr = content.hdr /\ content'.data = content.data
             /\ content'.user = [content.user EXCEPT ![h.lba] = content.data[p]]
             /\ h.lba \in Users
  BY <1>4, <1>5, <1>8, HdrCases, PutUserEffect
<1>9. content' \in Disks /\ content'.hdr = content.hdr /\ content'.data = content.data
  BY <1>2, <1>4, <1>8
<1>10. TypeOK'
  <2>1. replay_pos' \in 0..s_n_blocks
    BY <1>1, <1>3, SizeAssumption
  <2>2. faulted' \in BOOLEAN
    BY <1>2 DEF IInv, TypeOK
  <2> QED
    BY <1>1, <1>9, <2>1, <2>2 DEF IInv, TypeOK
<1>11. WithinRecords' /\ LogPlaces' /\ OpenTxnRecorded' /\ LoggedOld'
  BY <1>1, <1>6 DEF IInv, WithinRecords, LogPlaces, OpenTxnRecorded, LoggedOld
<1>12. Filled'
  BY <1>1, <1>9 DEF IInv, Filled
<1>13. ReplayState'
  <2>1. \A j \in Pos : j < p + 1 => j <= p
    BY <1>3, PosType
  <2> QED
    BY <1>1, <1>6, <1>7, <1>9, <2>1 DEF ReplayState
<1>14. ReplayConverges'
  <2> SUFFICES ASSUME ~faulted', NEW u \in Users
               PROVE  Restored(durable, 0, u) = target[u] /\ Restored(content', p + 1, u) = target[u]
    BY <1>1, ConvergesIsNext DEF Converging
  <2>1. ~faulted
    BY <1>2
  <2>2. Restored(durable, 0, u) = target[u] /\ Restored(content, p, u) = target[u]
    BY <1>1, <2>1, ConvergesIs DEF IInv, Converging, p
  <2>3. CASE h.commit \/ h.lba # u
    <3>1. RecordsOf(content, p, u) = RecordsOf(content, p + 1, u)
      BY <1>1, <1>3, <1>4, <2>3, TurnSkips DEF h
    <3>2. content'.user[u] = content.user[u]
      BY <1>2, <1>4, <1>8, <2>3, DiskParts
    <3>3. Restored(content, p + 1, u) = target[u]
      BY <2>2, <3>1, RestoredIs
    <3> QED
      BY <1>9, <2>2, <3>2, <3>3, RestoredFrame
  <2>4. CASE ~h.commit /\ h.lba = u
    <3>1. content' = PutUser(content, h.lba, content.data[p])
      BY <1>2, <2>4
    <3>2. content'.user[u] = content.data[p]
      BY <1>4, <1>8, <2>4, <3>1, DiskParts
    <3> QED
      BY <1>3, <1>4, <1>7, <1>9, <2>2, <2>4, <3>2, TurnRestores DEF h
  <2> QED
    BY <2>3, <2>4
<1> QED
  BY <1>10, <1>11, <1>12, <1>13, <1>14 DEF IInv

LEMMA EndStep ==
  ASSUME IInv, journal_replay_ends
  PROVE  IInv'
<1>1. /\ phase = "replay" /\ phase' = "up" /\ replay_pos' = 0 /\ target' = NoUsers
      /\ UNCHANGED <<content, durable, s_write_pos, s_in_txn, s_commit_count,
                     log, before, records, crashes>>
      /\ faulted' = faulted \/ faulted' = TRUE
  BY DEF journal_replay_ends, jvars
<1>2. ~s_in_txn
  BY <1>1 DEF IInv, ReplayState
<1>3. TypeOK'
  <2>1. replay_pos' \in 0..s_n_blocks /\ target' \in [Users -> Data]
    BY <1>1, SizeAssumption, ZeroAssumption DEF NoUsers
  <2>2. faulted' \in BOOLEAN
    BY <1>1 DEF IInv, TypeOK
  <2> QED
    BY <1>1, <2>1, <2>2 DEF IInv, TypeOK
<1>4. WithinRecords' /\ Filled'
  BY <1>1 DEF IInv, WithinRecords, Filled
<1>5. ReplayState' /\ ReplayConverges' /\ LogPlaces' /\ OpenTxnRecorded' /\ LoggedOld'
  BY <1>1, <1>2 DEF ReplayState, ReplayConverges, LogPlaces, OpenTxnRecorded, LoggedOld
<1> QED
  BY <1>3, <1>4, <1>5 DEF IInv

LEMMA LogStep ==
  ASSUME IInv, NEW u \in Users, journal_log(u)
  PROVE  IInv'
<1>1. phase = "up" /\ s_in_txn /\ records < MaxRecords
  BY DEF journal_log
<1>2. content.user[u] \in Data
  BY DiskParts DEF IInv, TypeOK
<1>3. CASE LogRecord(u, content.user[u]) /\ UNCHANGED faulted
  <2>1. faulted' \in BOOLEAN /\ (faulted => faulted')
    BY <1>3 DEF IInv, TypeOK
  <2> QED
    BY <1>1, <1>2, <1>3, <2>1, LogRecordStep
<1>4. CASE LogRecord(u, Zero) /\ faulted' = TRUE
  BY <1>1, <1>4, ZeroAssumption, LogRecordStep
<1> QED
  BY <1>3, <1>4 DEF journal_log

LEMMA NextIInv == IInv /\ [Next]_vars => IInv'
<1> SUFFICES ASSUME IInv, [Next]_vars PROVE IInv'
  OBVIOUS
<1>1. CASE UNCHANGED vars
  BY <1>1 DEF vars, IInv, TypeOK, WithinRecords, ReplayState, ReplayConverges, LogPlaces,
     Filled, OpenTxnRecorded, LoggedOld, AfterReplay
<1> QED
  BY <1>1, BeginStep, LogStep, ClientWriteStep, CommitStep, SyncReturnsStep, WriteBackStep, CrashStep,
     TurnStep, EndStep DEF Next

\* The inductive invariant holds in every reachable state.
THEOREM JournalInvariant == Spec => []IInv
BY InitIInv, NextIInv, PTL DEF Spec

\* The journal's state stays well typed, for any size of the journal.
THEOREM JournalTypeOK == Spec => []TypeOK
<1>1. IInv => TypeOK
  BY DEF IInv
<1> QED
  BY <1>1, JournalInvariant, PTL

\* However often journal_replay is cut off by a crash, and whatever part of its
\* writes has reached the device, the next one restores the same.
THEOREM JournalReplay == Spec => []ReplayConverges
<1>1. IInv => ReplayConverges
  BY DEF IInv
<1> QED
  BY <1>1, JournalInvariant, PTL

\* Wrapping around never tears or loses one of the last s_n_blocks records of
\* the open transaction.
THEOREM JournalRecords == Spec => []OpenTxnRecorded
<1>1. IInv => OpenTxnRecorded
  BY DEF IInv
<1> QED
  BY <1>1, JournalInvariant, PTL

\* The record of a block that was logged once is the last one of the block a
\* replay meets, and holds what the block was when the transaction began.
LEMMA Undone == IInv => OpenTxnUndone
<1> SUFFICES ASSUME IInv, s_in_txn, RecordsOnDevice, ~faulted, NEW i \in DOMAIN log,
                    \A j \in DOMAIN log : log[j].lba = log[i].lba => j = i,
                    NoStaleRecord(log[i].lba)
             PROVE  AfterReplay[log[i].lba] = before[log[i].lba]
  BY DEF OpenTxnUndone
<1> DEFINE w == s_write_pos
           L == Len(log)
           u == log[i].lba
           q == w - L + i - 1
<1>1. /\ w \in Nat /\ L \in Nat /\ L <= w /\ w <= s_n_blocks /\ s_n_blocks \in Nat
      /\ DOMAIN log = 1..L /\ i \in 1..L
  BY SizeAssumption, BoundAssumption DEF IInv, TypeOK, LogPlaces, RecordsOnDevice
<1>2. u \in Users
  <2>1. log[i] \in Records
    BY <1>1 DEF IInv, TypeOK
  <2> QED
    BY <2>1 DEF Records
<1>3. \A k \in 1..L : w - L + k - 1 \in Pos /\ log[k].pos = w - L + k - 1
  <2> SUFFICES ASSUME NEW k \in 1..L PROVE w - L + k - 1 \in Pos /\ log[k].pos = w - L + k - 1
    OBVIOUS
  <2>1. w - L + k - 1 \in Pos
    BY <1>1 DEF Pos
  <2>2. log[k].pos = Lba(w - L + k - 1)
    BY <1>1 DEF IInv, LogPlaces
  <2> QED
    BY <2>1, <2>2, LbaSmall
<1>4. \A k \in 1..L : /\ content.hdr[w - L + k - 1] = [commit |-> FALSE, lba |-> log[k].lba]
                      /\ content.data[w - L + k - 1] = log[k].old
  <2> SUFFICES ASSUME NEW k \in 1..L
               PROVE  /\ content.hdr[w - L + k - 1] = [commit |-> FALSE, lba |-> log[k].lba]
                      /\ content.data[w - L + k - 1] = log[k].old
    OBVIOUS
  <2>1. k > L - s_n_blocks
    BY <1>1
  <2> QED
    BY <1>1, <1>3, <2>1 DEF IInv, OpenTxnRecorded
<1>5. log[i].old = before[u]
  <2>1. \A j \in DOMAIN log : j < i => log[j].lba # u
    BY <1>1
  <2> QED
    BY <2>1 DEF IInv, LoggedOld
<1>6. \A j \in Pos : j < w => durable.hdr[j] = content.hdr[j] /\ durable.data[j] = content.data[j]
  BY DEF RecordsOnDevice
<1>7. q \in Pos /\ q < w /\ durable.hdr[q].commit = FALSE /\ durable.hdr[q].lba = u /\ durable.data[q] = before[u]
  <2>1. q \in Pos /\ q < w
    BY <1>1, <1>3
  <2>2. durable.hdr[q] = [commit |-> FALSE, lba |-> u] /\ durable.data[q] = log[i].old
    BY <1>1, <1>4, <1>6, <2>1
  <2> HIDE DEF q, u
  <2> QED
    BY <1>5, <2>1, <2>2
<1>8. q \in Reached(durable)
  <2>1. ASSUME NEW j \in 0..q PROVE durable.hdr[j] # NoHdr
    <3>1. j \in Pos /\ j < w
      BY <1>1, <1>7, <2>1, PosType DEF Pos
    <3> QED
      BY <1>6, <3>1 DEF IInv, Filled
  <2> QED
    BY <1>7, <2>1 DEF Reached
<1>9. q \in RecordsOf(durable, 0, u)
  BY <1>7, <1>8, PosType DEF RecordsOf
<1>10. ASSUME NEW y \in RecordsOf(durable, 0, u) PROVE q >= y
  <2>1. y \in Pos /\ y \in Reached(durable) /\ durable.hdr[y].lba = u /\ ~durable.hdr[y].commit
    BY DEF RecordsOf, Reached
  <2>2. ~(y >= w)
    BY <2>1 DEF NoStaleRecord
  <2>3. y < w
    BY <1>1, <2>1, <2>2, PosType
  <2> DEFINE k == y - w + L + 1
  <2>4. ASSUME y > q PROVE FALSE
    <3>1. k \in 1..L /\ k > i /\ w - L + k - 1 = y
      BY <1>1, <2>1, <2>3, <2>4, PosType
    <3> HIDE DEF k
    <3>2. durable.hdr[y] = [commit |-> FALSE, lba |-> log[k].lba]
      BY <1>4, <1>6, <2>1, <2>3, <3>1
    <3>3. log[k].lba = u
      BY <2>1, <3>2
    <3> QED
      BY <1>1, <3>1, <3>3
  <2> QED
    BY <1>7, <2>1, <2>4, PosType
<1> HIDE DEF q, u
<1>11. Max(RecordsOf(durable, 0, u)) = q
  BY <1>9, <1>10, RecordsArePositions, MaxIs
<1>12. Restored(durable, 0, u) = before[u]
  BY <1>7, <1>9, <1>11, RestoredIs
<1> QED
  BY <1>2, <1>12 DEF AfterReplay, u

\* Once its records are on the device a crash takes back the open transaction,
\* block by block, wherever no stale record of the block is left.
THEOREM JournalUndo == Spec => []OpenTxnUndone
BY Undone, JournalInvariant, PTL
=============================================================================
