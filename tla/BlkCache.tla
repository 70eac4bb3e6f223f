----------------------------- MODULE BlkCache -----------------------------
(***************************************************************************)
(* The buffer cache of kernel/blk.c: BLK_CACHE buffers in front of up to   *)
(* BLK_MAX_DEVS registered devices, write-back, least recently used        *)
(* eviction that prefers clean buffers.                                    *)
(*                                                                         *)
(* A device is external: it is known by the read and write functions the   *)
(* driver registered (either may be NULL) and its block contents.  The     *)
(* devices in Faulty may fail a call; blk.c ignores the result of write.   *)
(* last_access stamps are kept as the order they induce.                   *)
(***************************************************************************)
EXTENDS Integers, Sequences

CONSTANTS
  Devs, Data,
  Blocks,        \* the blocks that are used: pairs <<dev, lba>>
  BLK_CACHE,     \* number of buffers (256)
  BLK_MAX_DEVS,  \* size of s_devs (8)
  Faulty,        \* the devices whose calls may fail
  Err,           \* the result -1
  Empty          \* a buffer with valid = 0

ASSUME CacheAssumption == BLK_CACHE \in Nat \ {0} /\ BLK_MAX_DEVS \in Nat
ASSUME BlocksAssumption == \A b \in Blocks : b[1] \in Devs
ASSUME FaultyAssumption == Faulty \subseteq Devs
ASSUME ErrAssumption == Err \notin Data

Buffers == [blk : Blocks, data : Data, dirty : BOOLEAN]
ASSUME EmptyAssumption == Empty \notin Buffers

VARIABLES
  s_cache,    \* slot -> buffer
  older,      \* pairs of valid slots <<s, t>>: last_access of s < that of t
  s_devs,     \* the registered devices, in order
  disk,       \* block -> what the device holds
  reg_dirty,  \* the registry keys /dev/blk/<dev>/<lba>/dirty that hold 1
  call        \* history: the last read or write, with the value it returned or wrote

vars == <<s_cache, older, s_devs, disk, reg_dirty, call>>

Slots == 1..BLK_CACHE
DevOf(b) == b[1]

BlkDevs == [dev_id : Devs, read : BOOLEAN, write : BOOLEAN]
Calls == {<<>>} \cup ({"read"} \X Blocks \X (Data \cup {Err})) \cup ({"write"} \X Blocks \X Data)

TypeOK ==
  /\ s_cache \in [Slots -> Buffers \cup {Empty}]
  /\ older \subseteq Slots \X Slots
  /\ s_devs \in Seq(BlkDevs) /\ Len(s_devs) <= BLK_MAX_DEVS
  /\ disk \in [Blocks -> Data]
  /\ reg_dirty \subseteq Blocks
  /\ call \in Calls

\* blk_init on a machine whose devices hold anything.
Init ==
  /\ s_cache = [s \in Slots |-> Empty]
  /\ older = {}
  /\ s_devs = <<>>
  /\ disk \in [Blocks -> Data]
  /\ reg_dirty = {}
  /\ call = <<>>

----------------------------------------------------------------------------
Valid(s) == s_cache[s] # Empty
Holds(s, b) == Valid(s) /\ s_cache[s].blk = b
Cached(b) == \E s \in Slots : Holds(s, b)

\* blk_find_dev: entry i is the first one with the id.
blk_find_dev(d, i) ==
  s_devs[i].dev_id = d /\ \A j \in 1..(i - 1) : s_devs[j].dev_id # d

Readable(d) == \E i \in DOMAIN s_devs : blk_find_dev(d, i) /\ s_devs[i].read
Writable(d) == \E i \in DOMAIN s_devs : blk_find_dev(d, i) /\ s_devs[i].write

\* The slots a flush hands to a device: dirty, and the device has a writer.
Flushable(S) ==
  {s \in S : Valid(s) /\ s_cache[s].dirty /\ Writable(DevOf(s_cache[s].blk))}

\* The devices take the flushed buffers in; a faulty one may drop some.
DeviceWrites(S) ==
  \E taken \in SUBSET S :
    /\ \A s \in S \ taken : DevOf(s_cache[s].blk) \in Faulty
    /\ disk' = [b \in Blocks |->
                  IF \E s \in taken : s_cache[s].blk = b
                  THEN s_cache[CHOOSE s \in taken : s_cache[s].blk = b].data
                  ELSE disk[b]]

\* last_access of s is smaller than that of t.
Older(s, t) == <<s, t>> \in older

\* cache_evict returns s: the first invalid slot, else the one that wins the
\* loop's comparison against every other (clean before dirty, then the oldest).
cache_evict(s) ==
  IF \E t \in Slots : ~Valid(t)
  THEN ~Valid(s) /\ \A t \in Slots : ~Valid(t) => s <= t
  ELSE \A t \in Slots : t # s =>
         \/ ~s_cache[s].dirty /\ s_cache[t].dirty
         \/ s_cache[s].dirty = s_cache[t].dirty /\ Older(s, t)

\* s_access_clock is incremented and stamped on slot s: every other valid slot
\* is older now.
Stamped(s) == {<<t, s>> : t \in {t \in Slots : Valid(t)} \ {s}}

Touch(s) == older' = {e \in older : e[1] # s /\ e[2] # s} \cup Stamped(s)

\* A slip of the insertion: the evicted buffer is not flushed.
Replace_no_flush(buf) ==
  \E s \in Slots :
    /\ cache_evict(s)
    /\ s_cache' = [s_cache EXCEPT ![s] = buf]
    /\ Touch(s)
    /\ UNCHANGED disk

\* A miss: evict a slot, flush it (its dirty registry key is left as it is)
\* and put the buffer buf in.
Replace(buf) ==
  \E s \in Slots :
    /\ cache_evict(s)
    /\ DeviceWrites(Flushable({s}))
    /\ s_cache' = [s_cache EXCEPT ![s] = buf]
    /\ Touch(s)

----------------------------------------------------------------------------

blk_register_dev(d, r, w) ==
  /\ s_devs' = IF Len(s_devs) >= BLK_MAX_DEVS THEN s_devs
               ELSE Append(s_devs, [dev_id |-> d, read |-> r, write |-> w])
  /\ call' = <<>>
  /\ UNCHANGED <<s_cache, older, disk, reg_dirty>>

blk_read_hit(b) ==
  \E s \in Slots :
    /\ Holds(s, b)
    /\ call' = <<"read", b, s_cache[s].data>>
    /\ Touch(s)
    /\ UNCHANGED <<s_cache, s_devs, disk, reg_dirty>>

blk_read_fails(b) ==
  /\ ~Cached(b)
  /\ ~Readable(DevOf(b)) \/ DevOf(b) \in Faulty
  /\ call' = <<"read", b, Err>>
  /\ UNCHANGED <<s_cache, older, s_devs, disk, reg_dirty>>

blk_read_miss(b) ==
  /\ ~Cached(b)
  /\ Readable(DevOf(b))
  /\ call' = <<"read", b, disk[b]>>
  /\ Replace([blk |-> b, data |-> disk[b], dirty |-> FALSE])
  /\ UNCHANGED <<s_devs, reg_dirty>>

\* A slip of blk_write: the cache is not searched first.
blk_write_no_find(b, v) ==
  /\ Replace([blk |-> b, data |-> v, dirty |-> TRUE])
  /\ reg_dirty' = reg_dirty \cup {b}
  /\ call' = <<"write", b, v>>
  /\ UNCHANGED s_devs

blk_write(b, v) ==
  /\ \/ \E s \in Slots :
          /\ Holds(s, b)
          /\ s_cache' = [s_cache EXCEPT ![s].data = v, ![s].dirty = TRUE]
          /\ Touch(s)
          /\ UNCHANGED disk
     \/ ~Cached(b) /\ Replace([blk |-> b, data |-> v, dirty |-> TRUE])
  /\ reg_dirty' = reg_dirty \cup {b}
  /\ call' = <<"write", b, v>>
  /\ UNCHANGED s_devs

\* Slips of blk_sync: dirty is cleared whether or not the device has a writer;
\* the registry keys of all blocks are cleared.
blk_sync_unwritten ==
  LET S == Flushable(Slots) IN
  /\ DeviceWrites(S)
  /\ s_cache' = [s \in Slots |-> IF Valid(s) THEN [s_cache[s] EXCEPT !.dirty = FALSE]
                                 ELSE s_cache[s]]
  /\ reg_dirty' = reg_dirty \ {s_cache[s].blk : s \in S}
  /\ call' = <<>>
  /\ UNCHANGED <<older, s_devs>>

blk_sync_all_keys ==
  LET S == Flushable(Slots) IN
  /\ DeviceWrites(S)
  /\ s_cache' = [s \in Slots |-> IF s \in S THEN [s_cache[s] EXCEPT !.dirty = FALSE]
                                 ELSE s_cache[s]]
  /\ reg_dirty' = {}
  /\ call' = <<>>
  /\ UNCHANGED <<older, s_devs>>

blk_sync ==
  LET S == Flushable(Slots) IN
  /\ DeviceWrites(S)
  /\ s_cache' = [s \in Slots |-> IF s \in S THEN [s_cache[s] EXCEPT !.dirty = FALSE]
                                 ELSE s_cache[s]]
  /\ reg_dirty' = reg_dirty \ {s_cache[s].blk : s \in S}
  /\ call' = <<>>
  /\ UNCHANGED <<older, s_devs>>

\* The machine loses power and boots again: memory and registry are gone.
Reboot ==
  /\ s_cache' = [s \in Slots |-> Empty]
  /\ older' = {}
  /\ s_devs' = <<>>
  /\ reg_dirty' = {}
  /\ call' = <<>>
  /\ UNCHANGED disk

Next ==
  \/ \E d \in Devs, r, w \in BOOLEAN : blk_register_dev(d, r, w)
  \/ \E b \in Blocks : \/ blk_read_hit(b)
                       \/ blk_read_fails(b)
                       \/ blk_read_miss(b)
                       \/ \E v \in Data : blk_write(b, v)
  \/ blk_sync
  \/ Reboot

Spec == Init /\ [][Next]_vars

----------------------------------------------------------------------------
\* Properties

\* The cache never holds a block twice: blk_read and blk_write insert only what
\* cache_find did not find, and the evicted slot is not the block itself.
CacheUnique ==
  \A s, t \in Slots : Valid(s) /\ Valid(t) /\ s_cache[s].blk = s_cache[t].blk => s = t

\* A clean buffer equals its device's block unless the device drops writes:
\* whatever cleared dirty had really written the data.
CleanIsOnDevice ==
  \A s \in Slots :
    Valid(s) /\ ~s_cache[s].dirty /\ DevOf(s_cache[s].blk) \notin Faulty
      => s_cache[s].data = disk[s_cache[s].blk]

\* The registry never calls a dirty buffer clean (the converse fails: eviction
\* flushes a block and leaves its key at 1).
DirtyKeyCovers == \A s \in Slots : Valid(s) /\ s_cache[s].dirty => s_cache[s].blk \in reg_dirty

\* The stamps order the valid slots totally: no two buffers were last used at
\* the same time, so cache_evict's choice is never ambiguous.
StampsDistinct ==
  LET V == {s \in Slots : Valid(s)} IN
  /\ older \subseteq V \X V
  /\ \A s, t \in V : s # t => (Older(s, t) <=> ~Older(t, s))
  /\ \A s, t, r \in V : Older(s, t) /\ Older(t, r) => Older(s, r)

\* Refinement: the cache in front of the devices is a block store.
ContentOf(b) ==
  IF Cached(b) THEN s_cache[CHOOSE s \in Slots : Holds(s, b)].data ELSE disk[b]

Content == [b \in Blocks |-> ContentOf(b)]

\* The devices a caller can rely on.
Working == {d \in Devs \ Faulty : Readable(d) /\ Writable(d)}

Store == INSTANCE BlockStore WITH content <- Content, durable <- disk, working <- Working

\* Every call of the block layer is a step of BlockStore: a value written to a
\* block is what a later read of it returns, through any eviction, sync or
\* registration, and is lost only in a crash or to a device that does not work;
\* after blk_sync a working device holds all that was written to it.
ImplementsStore == Store!StoreSpec
=============================================================================
