---------------------------- MODULE BlockStore ----------------------------
(***************************************************************************)
(* What the block layer (kernel/blk.c) promises to its callers: a store of *)
(* blocks in front of devices.  A read returns the last value written, and *)
(* only a crash or a device that does not work can take a value away.      *)
(*                                                                         *)
(* content is what a reader sees, durable what the devices hold.  Write-   *)
(* back is free to happen at any step: the store never says when.          *)
(***************************************************************************)
CONSTANTS Devs, Blocks, Data, Err

VARIABLES
  content,  \* block -> the value blk_read would return
  durable,  \* block -> the value on the device
  working,  \* the devices that read and write without fail
  call      \* the last read or write, with the value it returned or wrote

svars == <<content, durable, working, call>>

DevOf(b) == b[1]

StoreInit ==
  /\ content = durable
  /\ durable \in [Blocks -> Data]
  /\ working = {}
  /\ call = <<>>

\* At any step some blocks may be written back, and a device that does not
\* work may drop what it was given: the reader then sees the device again.
WriteBack(view) ==
  /\ durable' \in [Blocks -> Data]
  /\ content' \in [Blocks -> Data]
  /\ \A b \in Blocks : durable'[b] \in {durable[b], content[b]}
  /\ \A b \in Blocks : \/ content'[b] = view[b]
                       \/ content'[b] = durable'[b] /\ DevOf(b) \notin working

Read(b) ==
  /\ \/ call' = <<"read", b, content[b]>>
     \/ call' = <<"read", b, Err>> /\ DevOf(b) \notin working
  /\ WriteBack(content)
  /\ UNCHANGED working

Write(b, v) ==
  /\ call' = <<"write", b, v>>
  /\ WriteBack([content EXCEPT ![b] = v])
  /\ UNCHANGED working

\* What was written to a working device is on it now.
Sync ==
  /\ WriteBack(content)
  /\ \A b \in Blocks : DevOf(b) \in working => durable'[b] = content[b]
  /\ call' = <<>>
  /\ UNCHANGED working

\* A device is registered: it may start to work, and never stops.
Attach ==
  /\ working \subseteq working' /\ working' \subseteq Devs
  /\ call' = <<>>
  /\ UNCHANGED <<content, durable>>

\* Power is lost: what was not durable is gone and the devices are detached.
Crash ==
  /\ content' = durable
  /\ working' = {}
  /\ call' = <<>>
  /\ UNCHANGED durable

StoreNext ==
  \/ \E b \in Blocks : Read(b) \/ \E v \in Data : Write(b, v)
  \/ Sync
  \/ Attach
  \/ Crash

StoreSpec == StoreInit /\ [][StoreNext]_svars
=============================================================================
