--------------------------- MODULE BlkCacheProofs ---------------------------
(***************************************************************************)
(* Proofs about BlkCache: its invariants and that it implements BlockStore,*)
(* for any number of buffers, devices and blocks.                          *)
(***************************************************************************)
EXTENDS BlkCache, TLAPS

IInv ==
  /\ TypeOK
  /\ CacheUnique
  /\ CleanIsOnDevice
  /\ DirtyKeyCovers
  /\ StampsDistinct

\* The forms of a recorded call.
LEMMA CallTypes ==
  /\ <<>> \in Calls
  /\ \A b \in Blocks, x \in Data \cup {Err} : <<"read", b, x>> \in Calls
  /\ \A b \in Blocks, v \in Data : <<"write", b, v>> \in Calls
BY DEF Calls

----------------------------------------------------------------------------
\* What a flush does to the devices

\* Flushing the slots S changes only blocks those slots hold, to the buffered
\* data, and every one of them on a device that is not faulty.
LEMMA FlushDisk ==
  ASSUME TypeOK, CacheUnique, NEW S \in SUBSET Slots, \A s \in S : Valid(s),
         DeviceWrites(S)
  PROVE  /\ disk' \in [Blocks -> Data]
         /\ \A b \in Blocks : disk'[b] # disk[b] => \E s \in S : Holds(s, b)
         /\ \A s \in S : \/ disk'[s_cache[s].blk] = s_cache[s].data
                         \/ /\ DevOf(s_cache[s].blk) \in Faulty
                            /\ disk'[s_cache[s].blk] = disk[s_cache[s].blk]
<1>1. PICK taken \in SUBSET S :
        /\ \A s \in S \ taken : DevOf(s_cache[s].blk) \in Faulty
        /\ disk' = [b \in Blocks |->
                      IF \E s \in taken : s_cache[s].blk = b
                      THEN s_cache[CHOOSE s \in taken : s_cache[s].blk = b].data
                      ELSE disk[b]]
  BY DEF DeviceWrites
<1>2. \A s \in S : s_cache[s] \in Buffers
  BY DEF TypeOK, Valid
<1>3. ASSUME NEW b \in Blocks, NEW s \in taken, s_cache[s].blk = b
      PROVE  disk'[b] = s_cache[s].data
  <2> DEFINE c == CHOOSE t \in taken : s_cache[t].blk = b
  <2>1. c \in taken /\ s_cache[c].blk = b
    BY <1>3
  <2>2. c = s
    BY <1>1, <1>3, <2>1 DEF CacheUnique
  <2> QED
    BY <1>1, <1>3, <2>2
<1>4. \A b \in Blocks : ~(\E s \in taken : s_cache[s].blk = b) => disk'[b] = disk[b]
  BY <1>1
<1>5. disk' \in [Blocks -> Data]
  <2>1. \A b \in Blocks : disk'[b] \in Data
    <3> SUFFICES ASSUME NEW b \in Blocks PROVE disk'[b] \in Data
      OBVIOUS
    <3>1. CASE \E s \in taken : s_cache[s].blk = b
      BY <1>2, <1>3, <3>1 DEF Buffers
    <3>2. CASE ~(\E s \in taken : s_cache[s].blk = b)
      BY <1>4, <3>2 DEF TypeOK
    <3> QED
      BY <3>1, <3>2
  <2> QED
    BY <1>1, <2>1
<1>6. \A b \in Blocks : disk'[b] # disk[b] => \E s \in S : Holds(s, b)
  BY <1>4 DEF Holds
<1>7. ASSUME NEW s \in S
      PROVE  \/ disk'[s_cache[s].blk] = s_cache[s].data
             \/ /\ DevOf(s_cache[s].blk) \in Faulty
                /\ disk'[s_cache[s].blk] = disk[s_cache[s].blk]
  <2>1. s_cache[s].blk \in Blocks
    BY <1>2 DEF Buffers
  <2>2. CASE \E t \in taken : s_cache[t].blk = s_cache[s].blk
    <3>1. s \in taken
      BY <2>2 DEF CacheUnique
    <3> QED
      BY <1>3, <2>1, <3>1
  <2>3. CASE ~(\E t \in taken : s_cache[t].blk = s_cache[s].blk)
    BY <1>1, <1>4, <2>1, <2>3
  <2> QED
    BY <2>2, <2>3
<1> QED
  BY <1>5, <1>6, <1>7

\* A slot that holds a block is the one ContentOf finds.
LEMMA ContentOfHeld ==
  ASSUME CacheUnique, NEW b, NEW s \in Slots, Holds(s, b)
  PROVE  ContentOf(b) = s_cache[s].data
<1> DEFINE c == CHOOSE t \in Slots : Holds(t, b)
<1>1. c \in Slots /\ Holds(c, b)
  OBVIOUS
<1>2. c = s
  BY <1>1 DEF CacheUnique, Holds
<1> QED
  BY <1>2 DEF ContentOf, Cached

----------------------------------------------------------------------------
\* The invariant

\* Inserting a buffer for a block that is not cached.
LEMMA ReplaceStep ==
  ASSUME IInv, NEW buf \in Buffers, ~Cached(buf.blk), Replace(buf),
         ~buf.dirty => buf.data = disk[buf.blk],
         reg_dirty \subseteq reg_dirty', reg_dirty' \subseteq Blocks,
         buf.dirty => buf.blk \in reg_dirty',
         UNCHANGED s_devs, call' \in Calls
  PROVE  IInv'
<1>1. PICK s \in Slots :
        /\ cache_evict(s)
        /\ DeviceWrites(Flushable({s}))
        /\ s_cache' = [s_cache EXCEPT ![s] = buf]
        /\ Touch(s)
  BY DEF Replace
<1>2. /\ s_cache'[s] = buf
      /\ \A t \in Slots \ {s} : s_cache'[t] = s_cache[t]
      /\ s_cache' \in [Slots -> Buffers \cup {Empty}]
      /\ buf # Empty
  BY <1>1, EmptyAssumption DEF IInv, TypeOK
<1>3. /\ Valid(s)'
      /\ \A t \in Slots \ {s} : Valid(t)' <=> Valid(t)
  BY <1>2 DEF Valid
<1>4. /\ disk' \in [Blocks -> Data]
      /\ \A b \in Blocks : disk'[b] # disk[b] => Holds(s, b)
  <2>1. Flushable({s}) \in SUBSET Slots /\ \A t \in Flushable({s}) : Valid(t) /\ t = s
    BY DEF Flushable
  <2> QED
    BY <1>1, <2>1, FlushDisk DEF IInv
<1>5. TypeOK'
  <2>1. older' \subseteq Slots \X Slots
    BY <1>1 DEF Touch, Stamped, IInv, TypeOK
  <2> QED
    BY <1>2, <1>4, <2>1 DEF IInv, TypeOK
<1>6. CacheUnique'
  BY <1>2, <1>3 DEF IInv, CacheUnique, Cached, Holds, Valid
<1>7. CleanIsOnDevice'
  <2> SUFFICES ASSUME NEW t \in Slots, Valid(t)', ~s_cache'[t].dirty,
                      DevOf(s_cache'[t].blk) \notin Faulty
               PROVE  s_cache'[t].data = disk'[s_cache'[t].blk]
    BY DEF CleanIsOnDevice
  <2>1. CASE t = s
    <3>1. ~Holds(s, buf.blk) /\ buf.blk \in Blocks
      BY DEF Cached, Buffers
    <3> QED
      BY <1>2, <1>4, <2>1, <3>1
  <2>2. CASE t # s
    <3>1. Valid(t) /\ s_cache[t].data = disk[s_cache[t].blk] /\ s_cache'[t] = s_cache[t]
      BY <1>2, <1>3, <2>2 DEF IInv, CleanIsOnDevice
    <3>2. ~Holds(s, s_cache[t].blk)
      BY <2>2, <3>1 DEF IInv, CacheUnique, Holds
    <3>3. s_cache[t].blk \in Blocks
      BY <3>1 DEF IInv, TypeOK, Valid, Buffers
    <3> QED
      BY <1>4, <3>1, <3>2, <3>3
  <2> QED
    BY <2>1, <2>2
<1>8. DirtyKeyCovers'
  BY <1>2, <1>3 DEF IInv, DirtyKeyCovers
<1>9. StampsDistinct'
  <2> DEFINE V == {t \in Slots : Valid(t)}
             W == V \cup {s}
  <2>1. {t \in Slots : Valid(t)'} = W
    BY <1>3
  <2>2. older' = {e \in older : e[1] # s /\ e[2] # s} \cup {<<t, s>> : t \in V \ {s}}
    BY <1>1 DEF Touch, Stamped
  <2>3. /\ older \subseteq V \X V
        /\ \A x, t \in V : x # t => (<<x, t>> \in older <=> <<t, x>> \notin older)
        /\ \A x, t, r \in V : <<x, t>> \in older /\ <<t, r>> \in older => <<x, r>> \in older
    BY DEF IInv, StampsDistinct, Older
  <2> HIDE DEF V
  <2>4. \A x, y : <<x, y>> \in older' <=>
          \/ <<x, y>> \in older /\ x # s /\ y # s
          \/ x \in V \ {s} /\ y = s
    BY <2>2
  <2>5. older' \subseteq W \X W
    BY <2>2, <2>3
  <2>6. \A x, t \in W : x # t => (<<x, t>> \in older' <=> <<t, x>> \notin older')
    BY <2>3, <2>4
  <2>7. \A x, t, r \in W : <<x, t>> \in older' /\ <<t, r>> \in older' => <<x, r>> \in older'
    BY <2>3, <2>4
  <2> QED
    BY <2>1, <2>5, <2>6, <2>7 DEF StampsDistinct, Older
<1> QED
  BY <1>5, <1>6, <1>7, <1>8, <1>9 DEF IInv

\* Stamping a slot that was valid already keeps the stamps a total order.
LEMMA TouchStep ==
  ASSUME IInv, NEW s \in Slots, Valid(s), Touch(s),
         \A t \in Slots : Valid(t)' <=> Valid(t)
  PROVE  StampsDistinct' /\ older' \subseteq Slots \X Slots
<1> DEFINE V == {t \in Slots : Valid(t)}
<1>1. {t \in Slots : Valid(t)'} = V
  OBVIOUS
<1>2. older' = {e \in older : e[1] # s /\ e[2] # s} \cup {<<t, s>> : t \in V \ {s}}
  BY DEF Touch, Stamped
<1>3. /\ older \subseteq V \X V
      /\ \A x, t \in V : x # t => (<<x, t>> \in older <=> <<t, x>> \notin older)
      /\ \A x, t, r \in V : <<x, t>> \in older /\ <<t, r>> \in older => <<x, r>> \in older
  BY DEF IInv, StampsDistinct, Older
<1>4. s \in V /\ V \subseteq Slots
  OBVIOUS
<1> HIDE DEF V
<1>5. \A x, y : <<x, y>> \in older' <=>
        \/ <<x, y>> \in older /\ x # s /\ y # s
        \/ x \in V \ {s} /\ y = s
  BY <1>2
<1>6. older' \subseteq V \X V
  BY <1>2, <1>3, <1>4
<1>7. \A x, t \in V : x # t => (<<x, t>> \in older' <=> <<t, x>> \notin older')
  BY <1>3, <1>5
<1>8. \A x, t, r \in V : <<x, t>> \in older' /\ <<t, r>> \in older' => <<x, r>> \in older'
  BY <1>3, <1>5
<1> QED
  BY <1>1, <1>4, <1>6, <1>7, <1>8 DEF StampsDistinct, Older

LEMMA InitIInv == Init => IInv
<1> SUFFICES ASSUME Init PROVE IInv
  OBVIOUS
<1>1. \A s \in Slots : ~Valid(s)
  BY DEF Init, Valid
<1>2. TypeOK
  BY CacheAssumption, CallTypes DEF Init, TypeOK, Slots
<1>3. StampsDistinct
  BY <1>1 DEF Init, StampsDistinct
<1> QED
  BY <1>1, <1>2, <1>3 DEF IInv, CacheUnique, CleanIsOnDevice, DirtyKeyCovers

\* A hit of blk_write: the buffer changes in place.
LEMMA WriteHitStep ==
  ASSUME IInv, NEW b \in Blocks, NEW v \in Data, NEW s \in Slots, Holds(s, b),
         s_cache' = [s_cache EXCEPT ![s].data = v, ![s].dirty = TRUE],
         Touch(s), UNCHANGED <<disk, s_devs>>,
         reg_dirty' = reg_dirty \cup {b}, call' \in Calls
  PROVE  IInv'
<1>1. s_cache[s] \in Buffers /\ s_cache[s].blk = b
  BY DEF IInv, TypeOK, Holds, Valid
<1>2. s_cache'[s] = [blk |-> b, data |-> v, dirty |-> TRUE]
  BY <1>1 DEF IInv, TypeOK, Buffers
<1>3. /\ \A t \in Slots \ {s} : s_cache'[t] = s_cache[t]
      /\ DOMAIN s_cache' = Slots
  BY DEF IInv, TypeOK
<1>4. s_cache'[s] \in Buffers
  <2>1. [blk |-> b, data |-> v, dirty |-> TRUE] \in Buffers
    BY DEF Buffers
  <2> QED
    BY <1>2, <2>1
<1>5. s_cache' \in [Slots -> Buffers \cup {Empty}]
  BY <1>3, <1>4 DEF IInv, TypeOK
<1>6. \A t \in Slots : Valid(t)' <=> Valid(t)
  BY <1>3, <1>4, EmptyAssumption DEF Valid, Holds
<1>7. StampsDistinct' /\ older' \subseteq Slots \X Slots
  BY <1>6, TouchStep DEF Holds
<1>8. \A t \in Slots : Valid(t) => s_cache'[t].blk = s_cache[t].blk
  BY <1>1, <1>2, <1>3
<1>9. TypeOK'
  BY <1>5, <1>7 DEF IInv, TypeOK
<1>10. CacheUnique'
  BY <1>6, <1>8 DEF IInv, CacheUnique
<1>11. CleanIsOnDevice'
  BY <1>2, <1>3, <1>6 DEF IInv, CleanIsOnDevice
<1>12. DirtyKeyCovers'
  BY <1>2, <1>3, <1>6 DEF IInv, DirtyKeyCovers
<1> QED
  BY <1>7, <1>9, <1>10, <1>11, <1>12 DEF IInv

LEMMA SyncStep ==
  ASSUME IInv, blk_sync
  PROVE  IInv'
<1> DEFINE S == Flushable(Slots)
<1>1. /\ DeviceWrites(S)
      /\ s_cache' = [s \in Slots |-> IF s \in S THEN [s_cache[s] EXCEPT !.dirty = FALSE]
                                     ELSE s_cache[s]]
      /\ reg_dirty' = reg_dirty \ {s_cache[s].blk : s \in S}
      /\ call' = <<>> /\ UNCHANGED <<older, s_devs>>
  BY DEF blk_sync
<1>2. S \in SUBSET Slots /\ \A s \in S : Valid(s)
  BY DEF Flushable
<1> HIDE DEF S
<1>3. /\ disk' \in [Blocks -> Data]
      /\ \A b \in Blocks : disk'[b] # disk[b] => \E s \in S : Holds(s, b)
      /\ \A s \in S : \/ disk'[s_cache[s].blk] = s_cache[s].data
                      \/ /\ DevOf(s_cache[s].blk) \in Faulty
                         /\ disk'[s_cache[s].blk] = disk[s_cache[s].blk]
  BY <1>1, <1>2, FlushDisk DEF IInv
<1>4. \A s \in Slots : Valid(s) => s_cache[s] \in Buffers
  BY DEF IInv, TypeOK, Valid
<1>5. \A s \in S : /\ s_cache'[s] \in Buffers
                   /\ s_cache'[s].blk = s_cache[s].blk
                   /\ s_cache'[s].data = s_cache[s].data
                   /\ ~s_cache'[s].dirty
  BY <1>1, <1>2, <1>4 DEF Buffers
<1>6. \A s \in Slots \ S : s_cache'[s] = s_cache[s]
  BY <1>1
<1>7. s_cache' \in [Slots -> Buffers \cup {Empty}]
  BY <1>1, <1>5, <1>6 DEF IInv, TypeOK
<1>8. \A t \in Slots : Valid(t)' <=> Valid(t)
  BY <1>2, <1>5, <1>6, EmptyAssumption DEF Valid
<1>9. \A t \in Slots : Valid(t) => s_cache'[t].blk = s_cache[t].blk /\ s_cache'[t].data = s_cache[t].data
  BY <1>5, <1>6
<1>10. TypeOK'
  BY <1>1, <1>3, <1>7, CallTypes DEF IInv, TypeOK
<1>11. CacheUnique'
  BY <1>8, <1>9 DEF IInv, CacheUnique
<1>12. CleanIsOnDevice'
  <2> SUFFICES ASSUME NEW t \in Slots, Valid(t)', ~s_cache'[t].dirty,
                      DevOf(s_cache'[t].blk) \notin Faulty
               PROVE  s_cache'[t].data = disk'[s_cache'[t].blk]
    BY DEF CleanIsOnDevice
  <2>1. Valid(t)
    BY <1>8
  <2>2. CASE t \in S
    BY <1>3, <1>9, <2>1, <2>2
  <2>3. CASE t \notin S
    <3>1. s_cache[t].data = disk[s_cache[t].blk] /\ s_cache'[t] = s_cache[t]
      BY <1>6, <2>1, <2>3 DEF IInv, CleanIsOnDevice
    <3>2. ~(\E s \in S : Holds(s, s_cache[t].blk))
      BY <1>2, <2>1, <2>3 DEF IInv, CacheUnique, Holds
    <3>3. s_cache[t].blk \in Blocks
      BY <1>4, <2>1 DEF Buffers
    <3> QED
      BY <1>3, <3>1, <3>2, <3>3
  <2> QED
    BY <2>2, <2>3
<1>13. DirtyKeyCovers'
  <2> SUFFICES ASSUME NEW t \in Slots, Valid(t)', s_cache'[t].dirty
               PROVE  s_cache'[t].blk \in reg_dirty'
    BY DEF DirtyKeyCovers
  <2>1. t \notin S /\ Valid(t) /\ s_cache'[t] = s_cache[t]
    BY <1>5, <1>6, <1>8
  <2>2. s_cache[t].blk \in reg_dirty
    BY <2>1 DEF IInv, DirtyKeyCovers
  <2>3. \A s \in S : s_cache[s].blk # s_cache[t].blk
    BY <1>2, <2>1 DEF IInv, CacheUnique
  <2> QED
    BY <1>1, <2>1, <2>2, <2>3
<1>14. StampsDistinct'
  <2>1. {t \in Slots : Valid(t)'} = {t \in Slots : Valid(t)}
    BY <1>8
  <2> QED
    BY <1>1, <2>1 DEF IInv, StampsDistinct, Older
<1> QED
  BY <1>10, <1>11, <1>12, <1>13, <1>14 DEF IInv

\* The cache, the devices' contents and the registry keys are left alone.
LEMMA SameCacheStep ==
  ASSUME IInv, UNCHANGED <<s_cache, older, disk, reg_dirty>>, TypeOK'
  PROVE  IInv'
BY DEF IInv, CacheUnique, CleanIsOnDevice, DirtyKeyCovers, StampsDistinct, Valid, Older

LEMMA RegisterType ==
  ASSUME TypeOK, NEW d \in Devs, NEW r \in BOOLEAN, NEW w \in BOOLEAN,
         blk_register_dev(d, r, w)
  PROVE  TypeOK'
<1>1. CASE Len(s_devs) >= BLK_MAX_DEVS
  BY <1>1, CallTypes DEF blk_register_dev, TypeOK
<1>2. CASE ~(Len(s_devs) >= BLK_MAX_DEVS)
  <2> DEFINE e == [dev_id |-> d, read |-> r, write |-> w]
  <2>1. e \in BlkDevs
    BY DEF BlkDevs
  <2>2. s_devs' = Append(s_devs, e)
    BY <1>2 DEF blk_register_dev
  <2> HIDE DEF e
  <2>3. s_devs' \in Seq(BlkDevs) /\ Len(s_devs') <= BLK_MAX_DEVS
    BY <1>2, <2>1, <2>2, CacheAssumption DEF TypeOK
  <2> QED
    BY <2>3, CallTypes DEF TypeOK, blk_register_dev
<1> QED
  BY <1>1, <1>2

LEMMA NextIInv == IInv /\ [Next]_vars => IInv'
<1> SUFFICES ASSUME IInv, [Next]_vars PROVE IInv'
  OBVIOUS
<1>1. ASSUME NEW d \in Devs, NEW r \in BOOLEAN, NEW w \in BOOLEAN, blk_register_dev(d, r, w)
      PROVE  IInv'
  BY <1>1, RegisterType, SameCacheStep DEF IInv, blk_register_dev
<1>2. ASSUME NEW b \in Blocks, blk_read_hit(b) PROVE IInv'
  <2>1. PICK s \in Slots : /\ Holds(s, b)
                           /\ call' = <<"read", b, s_cache[s].data>>
                           /\ Touch(s)
                           /\ UNCHANGED <<s_cache, s_devs, disk, reg_dirty>>
    BY <1>2 DEF blk_read_hit
  <2>2. call' \in Calls
    <3>1. s_cache[s].data \in Data
      BY <2>1 DEF IInv, TypeOK, Holds, Valid, Buffers
    <3> QED
      BY <2>1, <3>1, CallTypes
  <2>3. StampsDistinct' /\ older' \subseteq Slots \X Slots
    <3>1. \A t \in Slots : Valid(t)' <=> Valid(t)
      BY <2>1 DEF Valid
    <3> QED
      BY <2>1, <3>1, TouchStep DEF Holds
  <2>4. TypeOK'
    BY <2>1, <2>2, <2>3 DEF IInv, TypeOK
  <2> QED
    BY <2>1, <2>3, <2>4 DEF IInv, CacheUnique, CleanIsOnDevice, DirtyKeyCovers, Valid
<1>3. ASSUME NEW b \in Blocks, blk_read_fails(b) PROVE IInv'
  <2>1. TypeOK'
    BY <1>3, CallTypes DEF IInv, TypeOK, blk_read_fails
  <2> QED
    BY <1>3, <2>1, SameCacheStep DEF blk_read_fails
<1>4. ASSUME NEW b \in Blocks, blk_read_miss(b) PROVE IInv'
  <2> DEFINE buf == [blk |-> b, data |-> disk[b], dirty |-> FALSE]
  <2>1. buf \in Buffers /\ buf.blk = b /\ buf.data = disk[b] /\ ~buf.dirty
    BY DEF IInv, TypeOK, Buffers
  <2>2. /\ ~Cached(b) /\ Replace(buf) /\ UNCHANGED <<s_devs, reg_dirty>>
        /\ call' \in Calls
    BY <1>4, CallTypes DEF blk_read_miss, IInv, TypeOK
  <2>3. reg_dirty' \subseteq Blocks
    BY <2>2 DEF IInv, TypeOK
  <2> HIDE DEF buf
  <2> QED
    BY <2>1, <2>2, <2>3, ReplaceStep
<1>5. ASSUME NEW b \in Blocks, NEW v \in Data, blk_write(b, v) PROVE IInv'
  <2>1. reg_dirty' = reg_dirty \cup {b} /\ call' \in Calls /\ UNCHANGED s_devs
    BY <1>5, CallTypes DEF blk_write
  <2>2. CASE \E s \in Slots :
               /\ Holds(s, b)
               /\ s_cache' = [s_cache EXCEPT ![s].data = v, ![s].dirty = TRUE]
               /\ Touch(s)
               /\ UNCHANGED disk
    BY <2>1, <2>2, WriteHitStep
  <2>3. CASE ~Cached(b) /\ Replace([blk |-> b, data |-> v, dirty |-> TRUE])
    <3> DEFINE buf == [blk |-> b, data |-> v, dirty |-> TRUE]
    <3>1. buf \in Buffers /\ buf.blk = b /\ buf.dirty
      BY DEF Buffers
    <3>2. ~Cached(b) /\ Replace(buf)
      BY <2>3
    <3>3. /\ reg_dirty \subseteq reg_dirty' /\ reg_dirty' \subseteq Blocks
          /\ b \in reg_dirty'
      BY <2>1 DEF IInv, TypeOK
    <3> HIDE DEF buf
    <3> QED
      BY <2>1, <3>1, <3>2, <3>3, ReplaceStep
  <2> QED
    BY <1>5, <2>2, <2>3 DEF blk_write
<1>6. ASSUME Reboot PROVE IInv'
  <2>1. \A s \in Slots : ~Valid(s)'
    BY <1>6 DEF Reboot, Valid
  <2>2. TypeOK'
    BY <1>6, CacheAssumption, CallTypes DEF Reboot, TypeOK, IInv
  <2>3. StampsDistinct'
    BY <1>6, <2>1 DEF Reboot, StampsDistinct
  <2> QED
    BY <2>1, <2>2, <2>3 DEF IInv, CacheUnique, CleanIsOnDevice, DirtyKeyCovers
<1>7. CASE UNCHANGED vars
  <2>1. TypeOK'
    BY <1>7 DEF IInv, TypeOK, vars
  <2> QED
    BY <1>7, <2>1, SameCacheStep DEF vars
<1> QED
  BY <1>1, <1>2, <1>3, <1>4, <1>5, <1>6, <1>7, SyncStep DEF Next

\* The inductive invariant holds in every reachable state.
THEOREM BlkInvariant == Spec => []IInv
BY InitIInv, NextIInv, PTL DEF Spec

\* The five invariants that MCBlkCache.cfg checks on two buffers hold for any
\* number of buffers, devices, blocks and values.
THEOREM BlkTypeOK == Spec => []TypeOK
<1>1. IInv => TypeOK
  BY DEF IInv
<1> QED
  BY <1>1, BlkInvariant, PTL

\* No block is cached twice (cache_find before every insertion).
THEOREM BlkCacheUnique == Spec => []CacheUnique
<1>1. IInv => CacheUnique
  BY DEF IInv
<1> QED
  BY <1>1, BlkInvariant, PTL

\* A clean buffer is what a device that does not drop writes holds.
THEOREM BlkCleanIsOnDevice == Spec => []CleanIsOnDevice
<1>1. IInv => CleanIsOnDevice
  BY DEF IInv
<1> QED
  BY <1>1, BlkInvariant, PTL

\* The registry's dirty key covers every dirty buffer.
THEOREM BlkDirtyKeyCovers == Spec => []DirtyKeyCovers
<1>1. IInv => DirtyKeyCovers
  BY DEF IInv
<1> QED
  BY <1>1, BlkInvariant, PTL

\* The access stamps order the valid buffers totally.
THEOREM BlkStampsDistinct == Spec => []StampsDistinct
<1>1. IInv => StampsDistinct
  BY DEF IInv
<1> QED
  BY <1>1, BlkInvariant, PTL

----------------------------------------------------------------------------
\* The refinement: what each step does to the abstract contents

\* ContentOfHeld in the state after a step.
LEMMA ContentOfHeldNext ==
  ASSUME CacheUnique', NEW b, NEW s \in Slots, Holds(s, b)'
  PROVE  ContentOf(b)' = s_cache'[s].data
<1> DEFINE c == CHOOSE t \in Slots : s_cache'[t] # Empty /\ s_cache'[t].blk = b
<1>1. c \in Slots /\ s_cache'[c] # Empty /\ s_cache'[c].blk = b
  BY DEF Holds, Valid
<1>2. c = s
  BY <1>1 DEF CacheUnique, Holds, Valid
<1> QED
  BY <1>2 DEF ContentOf, Cached, Holds, Valid

\* A block that has the same buffers before and after, or none, keeps its
\* content if the device's copy is the same.
LEMMA ContentKept ==
  ASSUME CacheUnique, CacheUnique', NEW b \in Blocks, disk'[b] = disk[b],
         \A s \in Slots : Holds(s, b)' <=> Holds(s, b),
         \A s \in Slots : Holds(s, b) => s_cache'[s].data = s_cache[s].data
  PROVE  ContentOf(b)' = ContentOf(b)
<1>1. CASE Cached(b)
  BY <1>1, ContentOfHeld, ContentOfHeldNext DEF Cached
<1>2. CASE ~Cached(b)
  BY <1>2 DEF Cached, ContentOf
<1> QED
  BY <1>1, <1>2

\* What a miss does to the store: the new block reads as what was inserted,
\* and of the others only one on a device that does not work can change.
LEMMA ReplaceContent ==
  ASSUME IInv, IInv', NEW buf \in Buffers, ~Cached(buf.blk), Replace(buf)
  PROVE  /\ ContentOf(buf.blk)' = buf.data
         /\ \A b \in Blocks : disk'[b] \in {disk[b], ContentOf(b)}
         /\ \A b \in Blocks : b # buf.blk =>
              \/ ContentOf(b)' = ContentOf(b)
              \/ ContentOf(b)' = disk'[b] /\ DevOf(b) \notin Working
<1>1. PICK s \in Slots :
        /\ cache_evict(s)
        /\ DeviceWrites(Flushable({s}))
        /\ s_cache' = [s_cache EXCEPT ![s] = buf]
  BY DEF Replace
<1>2. /\ s_cache'[s] = buf
      /\ \A t \in Slots \ {s} : s_cache'[t] = s_cache[t]
      /\ buf # Empty
  BY <1>1, EmptyAssumption DEF IInv, TypeOK
<1>3. Flushable({s}) \in SUBSET Slots /\ \A t \in Flushable({s}) : Valid(t) /\ t = s
  BY DEF Flushable
<1>4. /\ \A b \in Blocks : disk'[b] # disk[b] => Holds(s, b) /\ s \in Flushable({s})
      /\ s \in Flushable({s}) =>
           \/ disk'[s_cache[s].blk] = s_cache[s].data
           \/ /\ DevOf(s_cache[s].blk) \in Faulty
              /\ disk'[s_cache[s].blk] = disk[s_cache[s].blk]
  BY <1>1, <1>3, FlushDisk DEF IInv
<1>5. ContentOf(buf.blk)' = buf.data
  <2>1. Holds(s, buf.blk)'
    BY <1>2 DEF Holds, Valid
  <2> QED
    BY <1>2, <2>1, ContentOfHeldNext DEF IInv
<1>6. ASSUME NEW b \in Blocks, ~Holds(s, b)
      PROVE  disk'[b] = disk[b] /\ (b # buf.blk => ContentOf(b)' = ContentOf(b))
  <2>1. disk'[b] = disk[b]
    BY <1>4, <1>6
  <2>2. ASSUME b # buf.blk PROVE ContentOf(b)' = ContentOf(b)
    <3>1. \A t \in Slots : Holds(t, b)' <=> Holds(t, b)
      BY <1>2, <1>6, <2>2 DEF Holds, Valid
    <3>2. \A t \in Slots : Holds(t, b) => s_cache'[t].data = s_cache[t].data
      BY <1>2, <1>6
    <3> QED
      BY <2>1, <3>1, <3>2, ContentKept DEF IInv
  <2> QED
    BY <2>1, <2>2
<1>7. ASSUME NEW b \in Blocks, Holds(s, b)
      PROVE  /\ disk'[b] \in {disk[b], ContentOf(b)}
             /\ ContentOf(b)' = disk'[b]
             /\ disk'[b] = ContentOf(b) \/ DevOf(b) \notin Working
  <2>1. ContentOf(b) = s_cache[s].data /\ s_cache[s].blk = b /\ Valid(s)
    BY <1>7, ContentOfHeld DEF IInv, Holds
  <2>2. b # buf.blk
    BY <1>7 DEF Cached
  <2>3. ~Cached(b)'
    BY <1>2, <1>7, <2>1, <2>2 DEF Cached, Holds, Valid, IInv, CacheUnique
  <2>4. ContentOf(b)' = disk'[b]
    BY <2>3 DEF ContentOf
  <2>5. CASE s \in Flushable({s})
    BY <1>4, <2>1, <2>4, <2>5 DEF Working
  <2>6. CASE s \notin Flushable({s})
    <3>1. disk'[b] = disk[b]
      BY <1>4, <2>6
    <3>2. ~s_cache[s].dirty \/ ~Writable(DevOf(b))
      BY <2>1, <2>6 DEF Flushable
    <3>3. s_cache[s].data = disk[b] \/ DevOf(b) \in Faulty \/ ~Writable(DevOf(b))
      BY <2>1, <3>2 DEF IInv, CleanIsOnDevice
    <3> QED
      BY <2>1, <2>4, <3>1, <3>3 DEF Working
  <2> QED
    BY <2>5, <2>6
<1> QED
  BY <1>5, <1>6, <1>7

\* What blk_sync does to the store: nothing a reader can see.
LEMMA SyncContent ==
  ASSUME IInv, IInv', blk_sync
  PROVE  \A b \in Blocks : /\ disk'[b] \in {disk[b], ContentOf(b)}
                           /\ ContentOf(b)' = ContentOf(b)
<1> DEFINE S == Flushable(Slots)
<1>1. /\ DeviceWrites(S)
      /\ s_cache' = [s \in Slots |-> IF s \in S THEN [s_cache[s] EXCEPT !.dirty = FALSE]
                                     ELSE s_cache[s]]
  BY DEF blk_sync
<1>2. S \in SUBSET Slots /\ \A s \in S : Valid(s)
  BY DEF Flushable
<1> HIDE DEF S
<1>3. /\ \A b \in Blocks : disk'[b] # disk[b] => \E s \in S : Holds(s, b)
      /\ \A s \in S : \/ disk'[s_cache[s].blk] = s_cache[s].data
                      \/ disk'[s_cache[s].blk] = disk[s_cache[s].blk]
  BY <1>1, <1>2, FlushDisk DEF IInv
<1>4. \A s \in Slots : /\ Valid(s)' <=> Valid(s)
                       /\ Valid(s) => /\ s_cache'[s].blk = s_cache[s].blk
                                      /\ s_cache'[s].data = s_cache[s].data
  <2> SUFFICES ASSUME NEW s \in Slots
               PROVE  /\ Valid(s)' <=> Valid(s)
                      /\ Valid(s) => /\ s_cache'[s].blk = s_cache[s].blk
                                     /\ s_cache'[s].data = s_cache[s].data
    OBVIOUS
  <2>1. CASE s \in S
    <3>1. s_cache[s] \in Buffers /\ s_cache'[s] = [s_cache[s] EXCEPT !.dirty = FALSE]
      BY <1>1, <1>2, <2>1 DEF IInv, TypeOK, Valid
    <3>2. s_cache'[s] \in Buffers
      BY <3>1 DEF Buffers
    <3> QED
      BY <1>2, <2>1, <3>1, <3>2, EmptyAssumption DEF Valid, Buffers
  <2>2. CASE s \notin S
    BY <1>1, <2>2 DEF Valid
  <2> QED
    BY <2>1, <2>2
<1> SUFFICES ASSUME NEW b \in Blocks
             PROVE  disk'[b] \in {disk[b], ContentOf(b)} /\ ContentOf(b)' = ContentOf(b)
  OBVIOUS
<1>5. CASE Cached(b)
  <2>1. PICK s \in Slots : Holds(s, b)
    BY <1>5 DEF Cached
  <2>2. Holds(s, b)' /\ s_cache'[s].data = s_cache[s].data
    BY <1>4, <2>1 DEF Holds
  <2>3. ContentOf(b) = s_cache[s].data /\ ContentOf(b)' = s_cache[s].data
    BY <2>1, <2>2, ContentOfHeld, ContentOfHeldNext DEF IInv
  <2>4. ASSUME disk'[b] # disk[b] PROVE disk'[b] = s_cache[s].data
    <3>1. PICK t \in S : Holds(t, b)
      BY <1>3, <2>4
    <3>2. t = s
      BY <1>2, <2>1, <3>1 DEF IInv, CacheUnique, Holds
    <3> QED
      BY <1>3, <2>4, <3>1, <3>2 DEF Holds
  <2> QED
    BY <2>3, <2>4
<1>6. CASE ~Cached(b)
  <2>1. \A s \in Slots : ~Holds(s, b) /\ ~Holds(s, b)'
    BY <1>4, <1>6 DEF Cached, Holds
  <2>2. disk'[b] = disk[b]
    BY <1>2, <1>3, <2>1
  <2> QED
    BY <1>6, <2>1, <2>2 DEF ContentOf, Cached
<1> QED
  BY <1>5, <1>6

\* After blk_sync a device that works holds all that was written to it: a dirty
\* buffer of it is flushed, a clean one is on it already.
LEMMA SyncDurable ==
  ASSUME IInv, IInv', blk_sync
  PROVE  \A b \in Blocks : DevOf(b) \in Working => disk'[b] = ContentOf(b)
<1> SUFFICES ASSUME NEW b \in Blocks, DevOf(b) \in Working
             PROVE  disk'[b] = ContentOf(b)
  OBVIOUS
<1>1. disk'[b] \in {disk[b], ContentOf(b)}
  BY SyncContent
<1>2. DevOf(b) \notin Faulty /\ Writable(DevOf(b))
  BY DEF Working
<1>3. CASE ~Cached(b)
  BY <1>1, <1>3 DEF ContentOf
<1>4. ASSUME NEW s \in Slots, Holds(s, b) PROVE disk'[b] = ContentOf(b)
  <2>1. ContentOf(b) = s_cache[s].data
    BY <1>4, ContentOfHeld DEF IInv
  <2>2. CASE ~s_cache[s].dirty
    BY <1>1, <1>2, <1>4, <2>1, <2>2 DEF IInv, CleanIsOnDevice, Holds
  <2>3. CASE s_cache[s].dirty
    <3> DEFINE S == Flushable(Slots)
    <3>1. s \in S /\ S \in SUBSET Slots /\ \A t \in S : Valid(t)
      BY <1>2, <1>4, <2>3 DEF Flushable, Holds
    <3>2. DeviceWrites(S)
      BY DEF blk_sync
    <3> HIDE DEF S
    <3>3. \/ disk'[s_cache[s].blk] = s_cache[s].data
          \/ DevOf(s_cache[s].blk) \in Faulty
      BY <3>1, <3>2, FlushDisk DEF IInv
    <3> QED
      BY <1>2, <1>4, <2>1, <3>3 DEF Holds
  <2> QED
    BY <2>2, <2>3
<1> QED
  BY <1>3, <1>4 DEF Cached

\* Registering a device takes no device away: blk_find_dev still finds the
\* first entry of an id that had one.
LEMMA RegisterKeeps ==
  ASSUME TypeOK, NEW d \in Devs, NEW r \in BOOLEAN, NEW w \in BOOLEAN,
         blk_register_dev(d, r, w)
  PROVE  Working \subseteq Working'
<1> DEFINE e == [dev_id |-> d, read |-> r, write |-> w]
<1>1. CASE s_devs' = s_devs
  BY <1>1 DEF Working, Readable, Writable, blk_find_dev
<1>2. CASE s_devs' = Append(s_devs, e)
  <2> HIDE DEF e
  <2>1. s_devs \in Seq(BlkDevs)
    BY DEF TypeOK
  <2>2. /\ DOMAIN s_devs = 1..Len(s_devs) /\ Len(s_devs) \in Nat
        /\ DOMAIN s_devs' = 1..(Len(s_devs) + 1)
        /\ \A i \in 1..Len(s_devs) : s_devs'[i] = s_devs[i]
    BY <1>2, <2>1
  <2>3. \A x : \A i \in 1..Len(s_devs) : blk_find_dev(x, i) => blk_find_dev(x, i)'
    BY <2>2 DEF blk_find_dev
  <2>4. \A i \in 1..Len(s_devs) : i \in DOMAIN s_devs'
    BY <2>2
  <2>5. \A x : (Readable(x) => Readable(x)') /\ (Writable(x) => Writable(x)')
    BY <2>2, <2>3, <2>4 DEF Readable, Writable
  <2> QED
    BY <2>5 DEF Working
<1> QED
  BY <1>1, <1>2 DEF blk_register_dev

LEMMA ContentType ==
  ASSUME IInv
  PROVE  \A b \in Blocks : ContentOf(b) \in Data
<1> SUFFICES ASSUME NEW b \in Blocks PROVE ContentOf(b) \in Data
  OBVIOUS
<1>1. CASE Cached(b)
  <2>1. PICK s \in Slots : Holds(s, b)
    BY <1>1 DEF Cached
  <2>2. s_cache[s] \in Buffers
    BY <2>1 DEF IInv, TypeOK, Holds, Valid
  <2> QED
    BY <2>1, <2>2, ContentOfHeld DEF IInv, Buffers
<1>2. CASE ~Cached(b)
  BY <1>2 DEF ContentOf, IInv, TypeOK
<1> QED
  BY <1>1, <1>2

LEMMA ContentTypeNext ==
  ASSUME IInv'
  PROVE  \A b \in Blocks : ContentOf(b)' \in Data
<1> SUFFICES ASSUME NEW b \in Blocks PROVE ContentOf(b)' \in Data
  OBVIOUS
<1>1. CASE Cached(b)'
  <2>1. PICK s \in Slots : Holds(s, b)'
    BY <1>1 DEF Cached
  <2>2. s_cache'[s] \in Buffers
    BY <2>1 DEF IInv, TypeOK, Holds, Valid
  <2> QED
    BY <2>1, <2>2, ContentOfHeldNext DEF IInv, Buffers
<1>2. CASE ~Cached(b)'
  BY <1>2 DEF ContentOf, IInv, TypeOK
<1> QED
  BY <1>1, <1>2

\* A step whose effect on every block is allowed by WriteBack is one.
LEMMA WriteBackStep ==
  ASSUME IInv, IInv', NEW view,
         \A b \in Blocks : disk'[b] \in {disk[b], ContentOf(b)},
         \A b \in Blocks : \/ ContentOf(b)' = view[b]
                           \/ ContentOf(b)' = disk'[b] /\ DevOf(b) \notin Working
  PROVE  Store!WriteBack(view)
<1>1. /\ Content' \in [Blocks -> Data]
      /\ \A b \in Blocks : Content'[b] = ContentOf(b)'
      /\ \A b \in Blocks : Content[b] = ContentOf(b)
  BY ContentTypeNext DEF Content
<1>2. disk' \in [Blocks -> Data]
  BY DEF IInv, TypeOK
<1> QED
  BY <1>1, <1>2 DEF Store!WriteBack, Store!DevOf, DevOf

LEMMA SameContent ==
  ASSUME CacheUnique, CacheUnique', UNCHANGED <<s_cache, disk>>
  PROVE  Content' = Content /\ \A b \in Blocks : ContentOf(b)' = ContentOf(b)
<1>1. \A b \in Blocks : ContentOf(b)' = ContentOf(b)
  <2> SUFFICES ASSUME NEW b \in Blocks PROVE ContentOf(b)' = ContentOf(b)
    OBVIOUS
  <2>1. \A s \in Slots : Holds(s, b)' <=> Holds(s, b)
    BY DEF Holds, Valid
  <2> QED
    BY <2>1, ContentKept
<1> QED
  BY <1>1 DEF Content

LEMMA SameWorking ==
  ASSUME UNCHANGED s_devs
  PROVE  Working' = Working
BY DEF Working, Readable, Writable, blk_find_dev

LEMMA RefineInit == Init => Store!StoreInit
<1> SUFFICES ASSUME Init PROVE Store!StoreInit
  OBVIOUS
<1>1. \A b \in Blocks : ContentOf(b) = disk[b]
  BY DEF Init, ContentOf, Cached, Holds, Valid
<1>2. Content = disk
  BY <1>1 DEF Content, Init
<1>3. Working = {}
  BY DEF Working, Readable, Init
<1> QED
  BY <1>2, <1>3 DEF Init, Store!StoreInit

LEMMA RefineNext == IInv /\ IInv' /\ [Next]_vars => [Store!StoreNext]_(Store!svars)
<1> SUFFICES ASSUME IInv, IInv', [Next]_vars
             PROVE  Store!StoreNext \/ UNCHANGED <<Content, disk, Working, call>>
  BY DEF Store!svars
<1> USE DEF IInv
<1>0. \A b \in Blocks : Content[b] = ContentOf(b)
  BY DEF Content
<1>1. ASSUME NEW d \in Devs, NEW r \in BOOLEAN, NEW w \in BOOLEAN, blk_register_dev(d, r, w)
      PROVE  Store!Attach
  <2>1. UNCHANGED <<s_cache, disk>> /\ call' = <<>>
    BY <1>1 DEF blk_register_dev
  <2>2. Working \subseteq Working' /\ Working' \subseteq Devs
    BY <1>1, RegisterKeeps DEF Working
  <2> QED
    BY <2>1, <2>2, SameContent DEF Store!Attach
<1>2. ASSUME NEW b \in Blocks, blk_read_hit(b) PROVE Store!Read(b)
  <2>1. /\ UNCHANGED <<s_cache, disk, s_devs>>
        /\ \E s \in Slots : Holds(s, b) /\ call' = <<"read", b, s_cache[s].data>>
    BY <1>2 DEF blk_read_hit
  <2>2. call' = <<"read", b, Content[b]>>
    BY <1>0, <2>1, ContentOfHeld
  <2>3. Store!WriteBack(Content)
    BY <1>0, <2>1, SameContent, WriteBackStep
  <2> QED
    BY <2>1, <2>2, <2>3, SameWorking DEF Store!Read
<1>3. ASSUME NEW b \in Blocks, blk_read_fails(b) PROVE Store!Read(b)
  <2>1. /\ UNCHANGED <<s_cache, disk, s_devs>>
        /\ call' = <<"read", b, Err>> /\ DevOf(b) \notin Working
    BY <1>3 DEF blk_read_fails, Working
  <2>2. Store!WriteBack(Content)
    BY <1>0, <2>1, SameContent, WriteBackStep
  <2> QED
    BY <2>1, <2>2, SameWorking DEF Store!Read, Store!DevOf, DevOf
<1>4. ASSUME NEW b \in Blocks, blk_read_miss(b) PROVE Store!Read(b)
  <2> DEFINE buf == [blk |-> b, data |-> disk[b], dirty |-> FALSE]
  <2>1. buf \in Buffers /\ buf.blk = b /\ buf.data = disk[b]
    BY DEF TypeOK, Buffers
  <2>2. ~Cached(b) /\ Replace(buf) /\ UNCHANGED s_devs /\ call' = <<"read", b, disk[b]>>
    BY <1>4 DEF blk_read_miss
  <2> HIDE DEF buf
  <2>3. /\ ContentOf(b)' = disk[b]
        /\ \A c \in Blocks : disk'[c] \in {disk[c], ContentOf(c)}
        /\ \A c \in Blocks : c # b =>
             \/ ContentOf(c)' = ContentOf(c)
             \/ ContentOf(c)' = disk'[c] /\ DevOf(c) \notin Working
    BY <2>1, <2>2, ReplaceContent
  <2>4. ContentOf(b) = disk[b]
    BY <2>2 DEF ContentOf
  <2>5. Store!WriteBack(Content)
    BY <1>0, <2>3, <2>4, WriteBackStep
  <2> QED
    BY <1>0, <2>2, <2>4, <2>5, SameWorking DEF Store!Read
<1>5. ASSUME NEW b \in Blocks, NEW v \in Data, blk_write(b, v) PROVE Store!Write(b, v)
  <2> DEFINE view == [Content EXCEPT ![b] = v]
  <2>1. view[b] = v /\ \A c \in Blocks : c # b => view[c] = ContentOf(c)
    BY DEF Content
  <2> HIDE DEF view
  <2>2. call' = <<"write", b, v>> /\ UNCHANGED s_devs
    BY <1>5 DEF blk_write
  <2>3. Store!WriteBack(view)
    <3>1. CASE \E s \in Slots :
                 /\ Holds(s, b)
                 /\ s_cache' = [s_cache EXCEPT ![s].data = v, ![s].dirty = TRUE]
                 /\ UNCHANGED disk
      <4>1. PICK s \in Slots :
              /\ Holds(s, b)
              /\ s_cache' = [s_cache EXCEPT ![s].data = v, ![s].dirty = TRUE]
              /\ UNCHANGED disk
        BY <3>1
      <4>2. s_cache[s] \in Buffers /\ s_cache[s].blk = b
        BY <4>1 DEF TypeOK, Holds, Valid
      <4>3. s_cache'[s] = [blk |-> b, data |-> v, dirty |-> TRUE]
        BY <4>1, <4>2 DEF TypeOK, Buffers
      <4>4. [blk |-> b, data |-> v, dirty |-> TRUE] \in Buffers
        BY DEF Buffers
      <4>5. Holds(s, b)' /\ s_cache'[s].data = v
        <5>1. s_cache'[s] # Empty
          BY <4>3, <4>4, EmptyAssumption
        <5>2. s_cache'[s].blk = b /\ s_cache'[s].data = v
          BY <4>3
        <5> QED
          BY <5>1, <5>2 DEF Holds, Valid
      <4>6. ContentOf(b)' = v
        BY <4>5, ContentOfHeldNext
      <4>7. ASSUME NEW c \in Blocks, c # b PROVE ContentOf(c)' = ContentOf(c)
        <5>1. \A t \in Slots : t # s => s_cache'[t] = s_cache[t]
          BY <4>1 DEF TypeOK
        <5>2. ~Holds(s, c) /\ ~Holds(s, c)'
          BY <4>1, <4>5, <4>7 DEF Holds
        <5>3. \A t \in Slots : Holds(t, c)' <=> Holds(t, c)
          BY <5>1, <5>2 DEF Holds, Valid
        <5>4. \A t \in Slots : Holds(t, c) => s_cache'[t].data = s_cache[t].data
          BY <5>1, <5>2
        <5> QED
          BY <4>1, <5>3, <5>4, ContentKept
      <4> QED
        BY <2>1, <4>1, <4>6, <4>7, WriteBackStep
    <3>2. CASE ~Cached(b) /\ Replace([blk |-> b, data |-> v, dirty |-> TRUE])
      <4> DEFINE buf == [blk |-> b, data |-> v, dirty |-> TRUE]
      <4>1. buf \in Buffers /\ buf.blk = b /\ buf.data = v
        BY DEF Buffers
      <4>2. ~Cached(b) /\ Replace(buf)
        BY <3>2
      <4> HIDE DEF buf
      <4> QED
        BY <2>1, <4>1, <4>2, ReplaceContent, WriteBackStep
    <3> QED
      BY <1>5, <3>1, <3>2 DEF blk_write
  <2> QED
    BY <2>2, <2>3, SameWorking DEF Store!Write, view
<1>6. ASSUME blk_sync PROVE Store!Sync
  <2>1. Store!WriteBack(Content)
    BY <1>0, <1>6, SyncContent, WriteBackStep
  <2>2. call' = <<>> /\ UNCHANGED s_devs
    BY <1>6 DEF blk_sync
  <2>3. \A b \in Blocks : DevOf(b) \in Working => disk'[b] = Content[b]
    BY <1>0, <1>6, SyncDurable
  <2> QED
    BY <2>1, <2>2, <2>3, SameWorking DEF Store!Sync, Store!DevOf, DevOf
<1>7. ASSUME Reboot PROVE Store!Crash
  <2>1. \A b \in Blocks : ContentOf(b)' = disk[b]
    BY <1>7 DEF Reboot, ContentOf, Cached, Holds, Valid
  <2>2. Content' = disk
    BY <2>1 DEF Content, TypeOK
  <2>3. Working' = {}
    BY <1>7 DEF Reboot, Working, Readable
  <2> QED
    BY <1>7, <2>2, <2>3 DEF Reboot, Store!Crash
<1>8. CASE UNCHANGED vars
  BY <1>8, SameContent, SameWorking DEF vars
<1> QED
  BY <1>1, <1>2, <1>3, <1>4, <1>5, <1>6, <1>7, <1>8 DEF Next, Store!StoreNext

\* The cache in front of the devices implements BlockStore: a reader sees the
\* last value written through any eviction, sync or registration.
THEOREM BlkRefinesStore == Spec => ImplementsStore
<1>1. Spec => Store!StoreInit /\ [][Store!StoreNext]_(Store!svars)
  BY RefineInit, RefineNext, BlkInvariant, PTL DEF Spec
<1> QED
  BY <1>1, PTL DEF ImplementsStore, Store!StoreSpec
=============================================================================
