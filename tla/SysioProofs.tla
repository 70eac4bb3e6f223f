----------------------------- MODULE SysioProofs -----------------------------
(***************************************************************************)
(* Proofs about Sysio: its invariants, for any number of descriptors,      *)
(* streams, files and calls.                                               *)
(***************************************************************************)
EXTENDS Sysio, TLAPS, WellFoundedInduction, FiniteSetTheorems

StdNames == {Std[i] : i \in 0 .. 2}
Fps      == Streams \cup StdNames \cup {None}
Texts    == DOMAIN TextLen \cup {None}
Names    == Paths \cup PipeEnds \cup StdNames \cup {""}
Entry    == [fp : Fps, path : Names, in_use : BOOLEAN, emb_src : Texts, emb_pos : Nat]
Tables   == [Fds -> Entry]

TypeOK ==
  /\ fds \in Tables
  /\ open \subseteq Streams \cup StdNames
  /\ keys \in [Fds -> Names \cup {None}]
  /\ shared \subseteq Streams \cup StdNames
  /\ running \in BOOLEAN

\* The place is in the text also in an entry that is not in use: nexs_pipe
\* takes such an entry with its text.
PlacesInTexts ==
  \A fd \in Fds : fds[fd].emb_src # None => fds[fd].emb_pos \in 0 .. TextLen[fds[fd].emb_src]

PathOfText ==
  \A fd \in Fds : fds[fd].in_use /\ fds[fd].emb_src # None =>
    fds[fd].path \in {fds[fd].emb_src} \cup PipeEnds

TextInv == TypeOK /\ PlacesInTexts /\ PathOfText
ListInv == TypeOK /\ ListedAsOpened

\* Descriptor fd of the table t holds the stream s.
Has(t, fd, s) == t[fd].in_use /\ t[fd].fp = s

\* OneHolder without cardinalities.
AtMostOne == \A s \in Streams \ shared : \A f, g \in Fds : Has(fds, f, s) /\ Has(fds, g, s) => f = g
OpenIsHeld == \A s \in Streams \ shared : s \in open <=> \E f \in Fds : Has(fds, f, s)

\* Only dup brings a stream of its own to 0, 1 or 2, or takes theirs away.
LowHigh ==
  \A f \in Fds : fds[f].in_use /\ fds[f].fp \notin shared =>
    IF f < 3 THEN fds[f].fp \notin Streams ELSE fds[f].fp \notin StdNames

Stopped == ~ running => shared # {}

HolderInv == TypeOK /\ AtMostOne /\ OpenIsHeld /\ LowHigh /\ Stopped

-----------------------------------------------------------------------------
(* What the table operators do *)

\* A set of numbers that is not empty has a least member.
LEMMA LeastNumber ==
  ASSUME NEW S \in SUBSET Nat, S # {}
  PROVE  \E i \in S : \A j \in S : i <= j
<1> DEFINE Less == {ss \in Nat \X Nat : ss[1] < ss[2]}
<1>1. PICK x \in S : \A y \in S : <<y, x>> \notin Less
  <2>1. IsWellFoundedOn(Less, Nat)
    BY NatLessThanWellFounded, Zenon DEF OpToRel
  <2> HIDE DEF Less
  <2> QED
    BY <2>1, WFMin, Zenon
<1>2. \A y \in S : ~ (y < x)
  BY <1>1
<1> QED
  BY <1>1, <1>2

\* fd_alloc finds an entry behind the standard ones that is not in use.
LEMMA Allocated ==
  ASSUME NEW t \in Tables, fd_alloc(t) >= 0
  PROVE  /\ fd_alloc(t) \in Fds /\ fd_alloc(t) \in 3 .. NEXS_MAX_FDS - 1
         /\ ~ t[fd_alloc(t)].in_use
<1> DEFINE free == {i \in 3 .. NEXS_MAX_FDS - 1 : ~ t[i].in_use}
<1>1. free # {} /\ fd_alloc(t) = CHOOSE i \in free : \A j \in free : i <= j
  BY DEF fd_alloc
<1>2. free \in SUBSET Nat
  BY DescriptorsAssumption
<1>3. \E i \in free : \A j \in free : i <= j
  <2> HIDE DEF free
  <2> QED
    BY <1>1, <1>2, LeastNumber
<1>4. fd_alloc(t) \in free
  BY <1>1, <1>3
<1> QED
  BY <1>4, DescriptorsAssumption DEF Fds

\* It returns an integer in any case.
LEMMA AllocatedInt ==
  ASSUME NEW t \in Tables
  PROVE  fd_alloc(t) \in Int
<1> DEFINE free == {i \in 3 .. NEXS_MAX_FDS - 1 : ~ t[i].in_use}
<1>1. CASE free = {}
  BY <1>1 DEF fd_alloc
<1>2. CASE free # {}
  <2>1. fd_alloc(t) = CHOOSE i \in free : \A j \in free : i <= j
    BY <1>2 DEF fd_alloc
  <2>2. free \in SUBSET Nat
    BY DescriptorsAssumption
  <2>3. fd_alloc(t) \in free
    <3> HIDE DEF free
    <3>1. \E i \in free : \A j \in free : i <= j
      BY <1>2, <2>2, LeastNumber
    <3> QED
      BY <2>1, <3>1
  <2> QED
    BY <2>2, <2>3
<1> QED
  BY <1>1, <1>2

\* The descriptors behind the standard ones are those from 3 on.
LEMMA BehindStandard == \A fd \in Fds : fd >= 3 <=> fd \notin 0 .. 2
BY DescriptorsAssumption DEF Fds

\* An entry that is taken by open or create.
LEMMA OpenedEntry ==
  ASSUME NEW t \in Tables, NEW fd \in Fds, NEW fp \in Fps, NEW p \in Names, NEW text \in Texts
  PROVE  LET u == Opened(t, fd, fp, p, text) IN
         /\ u \in Tables /\ \A g \in Fds \ {fd} : u[g] = t[g]
         /\ u[fd].in_use /\ u[fd].fp = fp /\ u[fd].path = p
         /\ u[fd].emb_src = text /\ u[fd].emb_pos = 0
BY DEF Opened, Tables, Entry

\* One that is taken by pipe.
LEMMA PipedEntry ==
  ASSUME NEW t \in Tables, NEW fd \in Fds, NEW s \in Streams, NEW p \in PipeEnds
  PROVE  LET u == Piped(t, fd, s, p) IN
         /\ u \in Tables /\ \A g \in Fds \ {fd} : u[g] = t[g]
         /\ u[fd].in_use /\ u[fd].fp = s /\ u[fd].path = p
         /\ u[fd].emb_src = t[fd].emb_src /\ u[fd].emb_pos = t[fd].emb_pos
BY DEF Piped, Tables, Entry, Fps, Names

\* One that is closed.
LEMMA ClosedEntry ==
  ASSUME NEW t \in Tables, NEW fd \in Fds
  PROVE  LET u == Closed(t, fd) IN
         /\ u \in Tables /\ \A g \in Fds \ {fd} : u[g] = t[g]
         /\ ~ u[fd].in_use /\ u[fd].fp = None /\ u[fd].path = ""
         /\ u[fd].emb_src = t[fd].emb_src /\ u[fd].emb_pos = t[fd].emb_pos
BY DEF Closed, Tables, Entry, Fps, Names

-----------------------------------------------------------------------------
(* What the calls do *)

\* Descriptor fd is taken for the stream fp or the text, under the path p.
Takes(fd, fp, text, p) ==
  /\ fd >= 3 /\ ~ fds[fd].in_use
  /\ fds' = Opened(fds, fd, fp, p, text)
  /\ keys' = [keys EXCEPT ![fd] = p]
  /\ \/ fp = None /\ text = p /\ open' = open
     \/ fp \in Streams \ open /\ text = None /\ open' = open \cup {fp}
  /\ shared' = shared /\ running' = running

\* Descriptor old is copied: e, which goes to descriptor "to", is its entry
\* or, when both are the same, what is left of it once it is closed.
Copies(old, to, e) ==
  /\ fds[old].in_use
  /\ fds' \in Tables /\ fds'[to] = e /\ \A g \in Fds \ {to} : fds'[g] = fds[g]
  /\ \/ e = fds[old]
     \/ /\ old = to /\ ~ e.in_use /\ e.fp = None /\ e.path = ""
        /\ e.emb_src = fds[to].emb_src /\ e.emb_pos = fds[to].emb_pos
  /\ keys' = [keys EXCEPT ![to] = e.path]
  /\ shared' = shared \cup ({e.fp} \ {None})
  /\ IF to >= 3 /\ fds[to].in_use /\ fds[to].fp # None
     THEN fclose(fds[to].fp)
     ELSE open' = open /\ running' = running

\* open and create take an entry that is not in use, for a text or for a
\* stream that was not open.
LEMMA OpenEffect ==
  ASSUME TypeOK, NEW p \in Paths, nexs_open(p) \/ nexs_create(p)
  PROVE  \E fd \in Fds, fp \in Streams \cup {None}, text \in Texts : Takes(fd, fp, text, p)
<1> DEFINE fd == fd_alloc(fds)
<1>1. fd >= 0
  BY DEF nexs_open, nexs_create
<1>2. fd \in Fds /\ fd >= 3 /\ ~ fds[fd].in_use
  BY <1>1, Allocated, DescriptorsAssumption DEF TypeOK
<1>3. keys' = [keys EXCEPT ![fd] = p] /\ shared' = shared /\ running' = running
  BY DEF nexs_open, nexs_create, Listed
<1>4. CASE p \in DOMAIN TextLen /\ fds' = Opened(fds, fd, None, p, p) /\ open' = open
  <2>1. p \in Texts /\ None \in Streams \cup {None}
    BY <1>4 DEF Texts
  <2> HIDE DEF fd
  <2> QED
    BY <1>2, <1>3, <1>4, <2>1 DEF Takes
<1>5. CASE \E s \in Streams : fopen(s) /\ fds' = OpenedFile(fds, fd, s, p)
  <2>1. PICK s \in Streams : fopen(s) /\ fds' = OpenedFile(fds, fd, s, p)
    BY <1>5
  <2>2. s \in Streams \ open /\ open' = open \cup {s} /\ fds' = Opened(fds, fd, s, p, None)
    BY <2>1 DEF fopen, OpenedFile
  <2>3. None \in Texts /\ s \in Streams \cup {None}
    BY DEF Texts
  <2> HIDE DEF fd
  <2> QED
    BY <1>2, <1>3, <2>2, <2>3 DEF Takes
<1> QED
  BY <1>4, <1>5 DEF nexs_open, nexs_create

\* dup: entry "to" becomes e, which is the old entry or, when both are the
\* same, the entry that was just closed.
LEMMA DupEffect ==
  ASSUME TypeOK, NEW old \in Fds, NEW new \in Fds \cup {-1}, nexs_dup(old, new)
  PROVE  \E to \in Fds, e \in Entry : Copies(old, to, e)
<1> DEFINE to     == IF new < 0 THEN fd_alloc(fds) ELSE new
           closes == to >= 3 /\ fds[to].in_use
           before == IF closes THEN Closed(fds, to) ELSE fds
<1>1. /\ fds[old].in_use /\ to >= 0
      /\ IF closes THEN Release(to) ELSE UNCHANGED <<open, running>>
      /\ fds' = [before EXCEPT ![to] = before[old]]
      /\ keys' = [keys EXCEPT ![to] = before[old].path]
      /\ shared' = shared \cup ({before[old].fp} \ {None})
  BY DEF nexs_dup, Listed
<1>2. to \in Fds
  BY <1>1, Allocated DEF TypeOK
<1> HIDE DEF to
<1>3. /\ before \in Tables /\ \A g \in Fds \ {to} : before[g] = fds[g]
      /\ \/ before[to] = fds[to]
         \/ /\ ~ before[to].in_use /\ before[to].fp = None /\ before[to].path = ""
            /\ before[to].emb_src = fds[to].emb_src /\ before[to].emb_pos = fds[to].emb_pos
  BY <1>2, ClosedEntry DEF TypeOK
<1>4. IF to >= 3 /\ fds[to].in_use /\ fds[to].fp # None
      THEN fclose(fds[to].fp)
      ELSE open' = open /\ running' = running
  BY <1>1 DEF Release
<1> HIDE DEF before
<1>5. before[old] \in Entry /\ fds' \in Tables /\ fds'[to] = before[old]
      /\ \A g \in Fds \ {to} : fds'[g] = fds[g]
  BY <1>1, <1>2, <1>3 DEF Tables
<1>6. \/ before[old] = fds[old]
      \/ /\ old = to /\ ~ before[old].in_use /\ before[old].fp = None /\ before[old].path = ""
         /\ before[old].emb_src = fds[to].emb_src /\ before[old].emb_pos = fds[to].emb_pos
  BY <1>3
<1> QED
  BY <1>1, <1>2, <1>4, <1>5, <1>6 DEF Copies

\* close gives the entry and its stream back.
LEMMA CloseEffect ==
  ASSUME TypeOK, NEW fd \in Fds, nexs_close(fd)
  PROVE  /\ fds[fd].in_use /\ fds' = Closed(fds, fd)
         /\ keys' = [keys EXCEPT ![fd] = None] /\ shared' = shared
         /\ IF fd >= 3 /\ fds[fd].fp # None THEN fclose(fds[fd].fp)
            ELSE open' = open /\ running' = running
BY DEF nexs_close, Listed, Release

\* pipe takes two entries that are not in use for two streams that were not
\* open, or leaves an entry not in use as it was but for its stream and path.
LEMMA PipeEffect ==
  ASSUME TypeOK, nexs_pipe
  PROVE  /\ keys' = keys /\ shared' = shared /\ running' = running
         /\ fds' \in Tables
         /\ \E f0 \in Fds : f0 >= 3 /\ ~ fds[f0].in_use /\
            /\ fds'[f0].emb_src = fds[f0].emb_src /\ fds'[f0].emb_pos = fds[f0].emb_pos
            /\ \/ /\ ~ fds'[f0].in_use /\ open' = open
                  /\ \A g \in Fds \ {f0} : fds'[g] = fds[g]
               \/ \E f1 \in Fds \ {f0}, r, w \in Streams \ open :
                    /\ f1 >= 3 /\ ~ fds[f1].in_use /\ r # w /\ open' = open \cup {r, w}
                    /\ fds'[f1].emb_src = fds[f1].emb_src /\ fds'[f1].emb_pos = fds[f1].emb_pos
                    /\ fds'[f0].in_use /\ fds'[f0].fp = r /\ fds'[f0].path \in PipeEnds
                    /\ fds'[f1].in_use /\ fds'[f1].fp = w /\ fds'[f1].path \in PipeEnds
                    /\ \A g \in Fds \ {f0, f1} : fds'[g] = fds[g]
<1> DEFINE f0  == fd_alloc(fds)
           One(r) == Piped(fds, f0, r, "/dev/pipe/r")
<1>1. PICK r, w \in Streams \ open :
        /\ r # w /\ f0 >= 0
        /\ IF fd_alloc(One(r)) < 0
           THEN fds' = [One(r) EXCEPT ![f0].in_use = FALSE] /\ open' = open
           ELSE fds' = Piped(One(r), fd_alloc(One(r)), w, "/dev/pipe/w")
                /\ open' = open \cup {r, w}
        /\ UNCHANGED <<keys, shared, dups, running>>
  BY Zenon DEF nexs_pipe
<1> DEFINE one == One(r)
           f1  == fd_alloc(one)
<1>2. fds \in Tables
  BY DEF TypeOK
<1>3. f0 \in Fds /\ f0 >= 3 /\ ~ fds[f0].in_use
  BY <1>1, <1>2, Allocated, DescriptorsAssumption
<1>4. "/dev/pipe/r" \in PipeEnds /\ "/dev/pipe/w" \in PipeEnds
  BY DEF PipeEnds
<1> HIDE DEF f0
<1>5. /\ one \in Tables /\ \A g \in Fds \ {f0} : one[g] = fds[g]
      /\ one[f0].in_use /\ one[f0].fp = r /\ one[f0].path = "/dev/pipe/r"
      /\ one[f0].emb_src = fds[f0].emb_src /\ one[f0].emb_pos = fds[f0].emb_pos
  BY <1>2, <1>3, <1>4, PipedEntry
<1> HIDE DEF One
<1>6. CASE f1 < 0
  <2>1. fds' = [one EXCEPT ![f0].in_use = FALSE] /\ open' = open
    BY <1>1, <1>6
  <2> HIDE DEF one
  <2>2. /\ fds' \in Tables /\ ~ fds'[f0].in_use
        /\ \A g \in Fds \ {f0} : fds'[g] = one[g]
        /\ fds'[f0].emb_src = one[f0].emb_src /\ fds'[f0].emb_pos = one[f0].emb_pos
    BY <2>1, <1>3, <1>5 DEF Tables, Entry
  <2> QED
    BY <1>1, <1>3, <1>5, <2>1, <2>2
<1>7. CASE ~ (f1 < 0)
  <2>1. fds' = Piped(one, f1, w, "/dev/pipe/w") /\ open' = open \cup {r, w}
    BY <1>1, <1>7
  <2> HIDE DEF one
  <2>2. f1 \in Fds /\ f1 >= 3 /\ ~ one[f1].in_use
    <3>1. f1 \in Int
      BY <1>5, AllocatedInt
    <3> QED
      BY <1>5, <1>7, <3>1, Allocated, DescriptorsAssumption
  <2> HIDE DEF f1
  <2>3. /\ fds' \in Tables /\ \A g \in Fds \ {f1} : fds'[g] = one[g]
        /\ fds'[f1].in_use /\ fds'[f1].fp = w /\ fds'[f1].path = "/dev/pipe/w"
        /\ fds'[f1].emb_src = one[f1].emb_src /\ fds'[f1].emb_pos = one[f1].emb_pos
    BY <1>4, <1>5, <2>1, <2>2, PipedEntry
  <2>4. f1 # f0
    BY <1>5, <2>2
  <2>5. /\ fds'[f0].emb_src = fds[f0].emb_src /\ fds'[f0].emb_pos = fds[f0].emb_pos
        /\ f1 >= 3 /\ ~ fds[f1].in_use
        /\ fds'[f1].emb_src = fds[f1].emb_src /\ fds'[f1].emb_pos = fds[f1].emb_pos
        /\ fds'[f0].in_use /\ fds'[f0].fp = r /\ fds'[f0].path \in PipeEnds
        /\ fds'[f1].in_use /\ fds'[f1].fp = w /\ fds'[f1].path \in PipeEnds
        /\ \A g \in Fds \ {f0, f1} : fds'[g] = fds[g]
    BY <1>3, <1>4, <1>5, <2>2, <2>3, <2>4
  <2>6. \E ff1 \in Fds \ {f0}, rr, ww \in Streams \ open :
          /\ ff1 >= 3 /\ ~ fds[ff1].in_use /\ rr # ww /\ open' = open \cup {rr, ww}
          /\ fds'[ff1].emb_src = fds[ff1].emb_src /\ fds'[ff1].emb_pos = fds[ff1].emb_pos
          /\ fds'[f0].in_use /\ fds'[f0].fp = rr /\ fds'[f0].path \in PipeEnds
          /\ fds'[ff1].in_use /\ fds'[ff1].fp = ww /\ fds'[ff1].path \in PipeEnds
          /\ \A g \in Fds \ {f0, ff1} : fds'[g] = fds[g]
    BY <1>1, <2>1, <2>2, <2>4, <2>5, Zenon
  <2> QED
    BY <1>1, <1>3, <2>3, <2>5, <2>6
<1> QED
  BY <1>6, <1>7

\* Reading and seeking move the place in a text, and no further than its end.
LEMMA PlaceEffect ==
  ASSUME TypeOK, NEW fd \in Fds,
         \/ \E n \in Counts : nexs_pread(fd, n)
         \/ \E offset \in Offsets, whence \in 0 .. 2 : nexs_seek(fd, offset, whence)
  PROVE  \E pos \in Nat :
           /\ fds[fd].emb_src # None
           /\ fds' = [fds EXCEPT ![fd].emb_pos = pos]
           /\ pos <= TextLen[fds[fd].emb_src] \/ pos <= fds[fd].emb_pos
           /\ open' = open /\ keys' = keys /\ shared' = shared /\ running' = running
<1> DEFINE e   == fds[fd]
           len == TextLen[e.emb_src]
<1>1. e.emb_src # None
  BY DEF nexs_pread, nexs_seek
<1>2. e.emb_pos \in Nat /\ len \in Nat
  BY <1>1, DescriptorsAssumption DEF TypeOK, Tables, Entry, Texts
<1>3. CASE \E n \in Counts : nexs_pread(fd, n)
  <2>1. PICK n \in Counts : nexs_pread(fd, n)
    BY <1>3
  <2> DEFINE left == len - e.emb_pos
             pos  == e.emb_pos + IF n < left THEN n ELSE left
  <2>2. n \in Nat
    BY DescriptorsAssumption
  <2>3. pos \in Nat /\ pos <= len
    <3> HIDE DEF e
    <3> HIDE DEF len
    <3> QED
      BY <1>2, <2>2
  <2>4. fds' = [fds EXCEPT ![fd].emb_pos = pos]
    BY <2>1 DEF nexs_pread
  <2>5. open' = open /\ keys' = keys /\ shared' = shared /\ running' = running
    BY <2>1 DEF nexs_pread
  <2> HIDE DEF pos
  <2> QED
    BY <1>1, <2>3, <2>4, <2>5
<1>4. CASE \E offset \in Offsets, whence \in 0 .. 2 : nexs_seek(fd, offset, whence)
  <2>1. PICK offset \in Offsets, whence \in 0 .. 2 : nexs_seek(fd, offset, whence)
    BY <1>4
  <2> DEFINE to  == offset + CASE whence = 0 -> 0 [] whence = 1 -> e.emb_pos
                        [] whence = 2 -> TextLen[e.emb_src]
             pos == IF to < 0 THEN 0 ELSE IF to > len THEN len ELSE to
  <2>2. offset \in Int
    BY DescriptorsAssumption
  <2>3. to \in Int
    <3> HIDE DEF e
    <3> QED
      BY <1>2, <2>2
  <2>4. pos \in Nat /\ pos <= len
    <3> HIDE DEF to
    <3> HIDE DEF len
    <3> QED
      BY <1>2, <2>3
  <2>5. fds' = [fds EXCEPT ![fd].emb_pos = pos]
    BY <2>1, Zenon DEF nexs_seek
  <2>6. open' = open /\ keys' = keys /\ shared' = shared /\ running' = running
    BY <2>1 DEF nexs_seek
  <2> HIDE DEF pos
  <2> QED
    BY <1>1, <2>4, <2>5, <2>6
<1> QED
  BY <1>3, <1>4

-----------------------------------------------------------------------------
(* Types *)

\* Closing a stream keeps the types of what is open and running.
LEMMA FcloseTypes ==
  ASSUME TypeOK, NEW s, fclose(s)
  PROVE  open' \subseteq Streams \cup StdNames /\ running' \in BOOLEAN
BY DEF TypeOK, fclose

\* At the start.
LEMMA InitTypes == Init => TypeOK
<1> SUFFICES ASSUME Init PROVE TypeOK
  OBVIOUS
<1>1. \A i \in 0 .. 2 : Std[i] \in StdNames
  BY Zenon DEF StdNames
<1>2. \A fd \in Fds : fd < 3 => fd \in 0 .. 2
  BY DEF Fds
<1>3. sysio_init \in Tables
  <2>1. \A fd \in Fds : sysio_init[fd] \in Entry
    <3> SUFFICES ASSUME NEW fd \in Fds PROVE sysio_init[fd] \in Entry
      OBVIOUS
    <3>1. CASE fd < 3
      <4>1. sysio_init[fd] = [fp |-> Std[fd], path |-> Std[fd], in_use |-> TRUE,
                              emb_src |-> None, emb_pos |-> 0]
        BY <3>1 DEF sysio_init
      <4>2. Std[fd] \in Fps /\ Std[fd] \in Names
        BY <3>1, <1>1, <1>2 DEF Fps, Names
      <4> QED
        BY <4>1, <4>2 DEF Entry, Texts
    <3>2. CASE ~ (fd < 3)
      BY <3>2 DEF sysio_init, Entry, Texts, Fps, Names
    <3> QED
      BY <3>1, <3>2
  <2>2. sysio_init = [fd \in Fds |-> sysio_init[fd]]
    BY DEF sysio_init
  <2> HIDE DEF sysio_init
  <2> QED
    BY <2>1, <2>2, Zenon DEF Tables
<1>4. open \subseteq Streams \cup StdNames
  BY DEF Init, StdNames
<1> QED
  BY <1>3, <1>4 DEF Init, TypeOK

\* Every step keeps the types.
LEMMA NextTypes == TypeOK /\ [Next]_vars => TypeOK'
<1> SUFFICES ASSUME TypeOK, [Next]_vars PROVE TypeOK'
  OBVIOUS
<1>1. ASSUME NEW p \in Paths, nexs_open(p) \/ nexs_create(p) PROVE TypeOK'
  <2>1. PICK fd \in Fds, fp \in Streams \cup {None}, text \in Texts : Takes(fd, fp, text, p)
    BY <1>1, OpenEffect
  <2> USE DEF Takes
  <2>2. p \in Names /\ fp \in Fps
    BY DEF Names, Fps
  <2>3. fds' \in Tables
    BY <2>1, <2>2, OpenedEntry DEF TypeOK
  <2> QED
    BY <2>1, <2>2, <2>3 DEF TypeOK
<1>2. ASSUME NEW fd \in Fds, nexs_close(fd) PROVE TypeOK'
  <2>1. fds \in Tables /\ fds' = Closed(fds, fd)
    BY <1>2, CloseEffect DEF TypeOK
  <2>2. fds' \in Tables
    BY <2>1, ClosedEntry
  <2> QED
    BY <1>2, <2>2, CloseEffect, FcloseTypes DEF TypeOK
<1>3. ASSUME NEW fd \in Fds,
             \/ \E n \in Counts : nexs_pread(fd, n)
             \/ \E offset \in Offsets, whence \in 0 .. 2 : nexs_seek(fd, offset, whence)
      PROVE  TypeOK'
  <2>1. PICK pos \in Nat :
          /\ fds' = [fds EXCEPT ![fd].emb_pos = pos]
          /\ open' = open /\ keys' = keys /\ shared' = shared /\ running' = running
    BY <1>3, PlaceEffect
  <2>2. fds' \in Tables
    BY <2>1 DEF TypeOK, Tables, Entry
  <2> QED
    BY <2>1, <2>2 DEF TypeOK
<1>4. ASSUME NEW old \in Fds, NEW new \in Fds \cup {-1}, nexs_dup(old, new) PROVE TypeOK'
  <2>1. PICK to \in Fds, e \in Entry : Copies(old, to, e)
    BY <1>4, DupEffect, Zenon
  <2> USE DEF Copies
  <2>2. e.path \in Names /\ e.fp \in Fps
    BY DEF Entry
  <2>3. open' \subseteq Streams \cup StdNames /\ running' \in BOOLEAN
    BY <2>1, FcloseTypes DEF TypeOK
  <2>4. shared' \subseteq Streams \cup StdNames
    BY <2>1, <2>2 DEF TypeOK, Fps
  <2> QED
    BY <2>1, <2>2, <2>3, <2>4 DEF TypeOK
<1>5. ASSUME nexs_pipe PROVE TypeOK'
  <2>1. /\ keys' = keys /\ shared' = shared /\ running' = running /\ fds' \in Tables
        /\ open' = open \/ \E r, w \in Streams : open' = open \cup {r, w}
    BY <1>5, PipeEffect
  <2> QED
    BY <2>1 DEF TypeOK
<1>6. ASSUME UNCHANGED vars PROVE TypeOK'
  BY <1>6 DEF vars, TypeOK
<1> QED
  BY <1>1, <1>2, <1>3, <1>4, <1>5, <1>6 DEF Next, Call

\* The types hold in every state of the program.
THEOREM DescriptorsTyped == Spec => []TypeOK
BY InitTypes, NextTypes, PTL DEF Spec

-----------------------------------------------------------------------------
(* What is listed *)

\* The keys of entries that are not in use say nothing.
LEMMA UnusedUnlisted ==
  ASSUME ListedAsOpened, NEW fd \in Fds, ~ fds[fd].in_use
  PROVE  keys[fd] \in {None, ""}
BY DEF ListedAsOpened, Used

\* Every call keeps the list right.
LEMMA NextListed == ListInv /\ [Next]_vars => ListInv'
<1> SUFFICES ASSUME ListInv, [Next]_vars PROVE ListInv'
  OBVIOUS
<1>t. TypeOK /\ ListedAsOpened /\ TypeOK'
  BY NextTypes DEF ListInv
<1>w. \A fd \in Fds :
        /\ keys[fd] \notin {None, ""} => fds[fd].in_use /\ keys[fd] = fds[fd].path
        /\ fds[fd].in_use /\ fd >= 3 /\ keys[fd] # fds[fd].path => fds[fd].path \in PipeEnds
  BY <1>t, BehindStandard, Zenon DEF ListedAsOpened, Used
<1>s. SUFFICES
        \A fd \in Fds :
          /\ keys'[fd] \notin {None, ""} => fds'[fd].in_use /\ keys'[fd] = fds'[fd].path
          /\ fds'[fd].in_use /\ fd >= 3 /\ keys'[fd] # fds'[fd].path
               => fds'[fd].path \in PipeEnds
  BY <1>t, BehindStandard, Zenon DEF ListInv, ListedAsOpened, Used
<1> DEFINE Goal == \A fd \in Fds :
          /\ keys'[fd] \notin {None, ""} => fds'[fd].in_use /\ keys'[fd] = fds'[fd].path
          /\ fds'[fd].in_use /\ fd >= 3 /\ keys'[fd] # fds'[fd].path
               => fds'[fd].path \in PipeEnds
<1>1. ASSUME NEW p \in Paths, nexs_open(p) \/ nexs_create(p) PROVE Goal
  <2>1. PICK fd \in Fds, fp \in Streams \cup {None}, text \in Texts : Takes(fd, fp, text, p)
    BY <1>1, <1>t, OpenEffect
  <2> USE DEF Takes
  <2>2. p \in Names /\ fp \in Fps
    BY DEF Names, Fps
  <2>3. fds'[fd].in_use /\ fds'[fd].path = p /\ \A g \in Fds \ {fd} : fds'[g] = fds[g]
    BY <1>t, <2>1, <2>2, OpenedEntry DEF TypeOK
  <2>4. keys'[fd] = p /\ \A g \in Fds \ {fd} : keys'[g] = keys[g]
    BY <1>t, <2>1 DEF TypeOK
  <2> QED
    BY <1>w, <2>3, <2>4
<1>2. ASSUME NEW fd \in Fds, nexs_close(fd) PROVE Goal
  <2>c. fds \in Tables /\ fds' = Closed(fds, fd)
    BY <1>2, <1>t, CloseEffect DEF TypeOK
  <2>1. ~ fds'[fd].in_use /\ \A g \in Fds \ {fd} : fds'[g] = fds[g]
    BY <2>c, ClosedEntry
  <2>2. keys'[fd] = None /\ \A g \in Fds \ {fd} : keys'[g] = keys[g]
    BY <1>2, <1>t, CloseEffect DEF TypeOK
  <2> QED
    BY <1>w, <2>1, <2>2
<1>3. ASSUME NEW fd \in Fds,
             \/ \E n \in Counts : nexs_pread(fd, n)
             \/ \E offset \in Offsets, whence \in 0 .. 2 : nexs_seek(fd, offset, whence)
      PROVE  Goal
  <2>1. PICK pos \in Nat : fds' = [fds EXCEPT ![fd].emb_pos = pos] /\ keys' = keys
    BY <1>3, <1>t, PlaceEffect
  <2>2. \A g \in Fds : fds'[g].in_use = fds[g].in_use /\ fds'[g].path = fds[g].path
    BY <1>t, <2>1 DEF TypeOK, Tables, Entry
  <2> QED
    BY <1>w, <2>1, <2>2
<1>4. ASSUME NEW old \in Fds, NEW new \in Fds \cup {-1}, nexs_dup(old, new) PROVE Goal
  <2>1. PICK to \in Fds, e \in Entry : Copies(old, to, e)
    BY <1>4, <1>t, DupEffect, Zenon
  <2> USE DEF Copies
  <2>2. keys'[to] = e.path /\ \A g \in Fds \ {to} : keys'[g] = keys[g]
    BY <1>t, <2>1 DEF TypeOK
  <2> QED
    BY <1>w, <2>1, <2>2
<1>5. ASSUME nexs_pipe PROVE Goal
  <2>1. keys' = keys
    BY <1>5, <1>t, PipeEffect
  <2>2. \A g \in Fds : \/ fds'[g] = fds[g]
                       \/ ~ fds[g].in_use /\ (fds'[g].in_use => fds'[g].path \in PipeEnds)
    BY <1>5, <1>t, PipeEffect
  <2>3. \A g \in Fds : ~ fds[g].in_use => keys[g] \in {None, ""}
    BY <1>t, UnusedUnlisted
  <2> QED
    BY <1>w, <2>1, <2>2, <2>3
<1>6. ASSUME UNCHANGED vars PROVE Goal
  BY <1>6, <1>w DEF vars
<1> QED
  BY <1>1, <1>2, <1>3, <1>4, <1>5, <1>6, <1>s DEF Next, Call

\* /sys/fd lists exactly the descriptors of files that are open, under their
\* paths.
THEOREM ListIsRight == Spec => []ListedAsOpened
<1>1. Init => ListInv
  <2> SUFFICES Init => ListedAsOpened
    BY InitTypes, Zenon DEF ListInv
  <2> SUFFICES ASSUME Init PROVE ListedAsOpened
    OBVIOUS
  <2>1. \A fd \in Fds : keys[fd] = None
    BY DEF Init
  <2>2. \A fd \in Fds : fds[fd].in_use => fd \in 0 .. 2
    <3>1. \A fd \in Fds : fds[fd].in_use = (fd < 3)
      BY DEF Init, sysio_init
    <3>2. \A fd \in Fds : fd < 3 => ~ (fd >= 3)
      BY DescriptorsAssumption DEF Fds
    <3> QED
      BY <3>1, <3>2, BehindStandard, Zenon
  <2> QED
    BY <2>1, <2>2, Zenon DEF ListedAsOpened, Used
<1>2. ListInv => ListedAsOpened
  BY DEF ListInv
<1> QED
  BY <1>1, <1>2, NextListed, PTL DEF Spec

-----------------------------------------------------------------------------
(* Texts *)

\* Every call keeps the places in the texts and the texts with their paths.
LEMMA NextTexts == TextInv /\ [Next]_vars => TextInv'
<1> SUFFICES ASSUME TextInv, [Next]_vars PROVE TextInv'
  OBVIOUS
<1>t. TypeOK /\ TypeOK' /\ PlacesInTexts /\ PathOfText
  BY NextTypes DEF TextInv
<1> DEFINE Right(e) ==
      e.emb_src # None =>
        /\ e.emb_pos \in 0 .. TextLen[e.emb_src]
        /\ e.in_use => e.path \in {e.emb_src} \cup PipeEnds
<1>w. \A fd \in Fds : Right(fds[fd])
  BY <1>t DEF PlacesInTexts, PathOfText
<1>s. SUFFICES \A fd \in Fds : Right(fds'[fd])
  BY <1>t DEF TextInv, PlacesInTexts, PathOfText
<1>1. ASSUME NEW p \in Paths, nexs_open(p) \/ nexs_create(p)
      PROVE  \A fd \in Fds : Right(fds'[fd])
  <2>1. PICK fd \in Fds, fp \in Streams \cup {None}, text \in Texts : Takes(fd, fp, text, p)
    BY <1>1, <1>t, OpenEffect
  <2> USE DEF Takes
  <2>2. p \in Names /\ fp \in Fps
    BY DEF Names, Fps
  <2>3. /\ fds'[fd].path = p /\ fds'[fd].emb_src = text /\ fds'[fd].emb_pos = 0
        /\ \A g \in Fds \ {fd} : fds'[g] = fds[g]
    BY <1>t, <2>1, <2>2, OpenedEntry DEF TypeOK
  <2>4. text # None => TextLen[text] \in Nat
    BY DescriptorsAssumption DEF Texts
  <2>5. Right(fds'[fd])
    BY <2>1, <2>3, <2>4
  <2> QED
    BY <1>w, <2>3, <2>5
<1>2. ASSUME NEW fd \in Fds, nexs_close(fd) PROVE \A g \in Fds : Right(fds'[g])
  <2>c. fds \in Tables /\ fds' = Closed(fds, fd)
    BY <1>2, <1>t, CloseEffect DEF TypeOK
  <2>1. /\ ~ fds'[fd].in_use /\ fds'[fd].emb_src = fds[fd].emb_src
        /\ fds'[fd].emb_pos = fds[fd].emb_pos
        /\ \A g \in Fds \ {fd} : fds'[g] = fds[g]
    BY <2>c, ClosedEntry
  <2> QED
    BY <1>w, <2>1
<1>3. ASSUME NEW fd \in Fds,
             \/ \E n \in Counts : nexs_pread(fd, n)
             \/ \E offset \in Offsets, whence \in 0 .. 2 : nexs_seek(fd, offset, whence)
      PROVE  \A g \in Fds : Right(fds'[g])
  <2>1. PICK pos \in Nat :
          /\ fds[fd].emb_src # None /\ fds' = [fds EXCEPT ![fd].emb_pos = pos]
          /\ pos <= TextLen[fds[fd].emb_src] \/ pos <= fds[fd].emb_pos
    BY <1>3, <1>t, PlaceEffect
  <2>2. \A g \in Fds : /\ fds'[g].in_use = fds[g].in_use /\ fds'[g].path = fds[g].path
                       /\ fds'[g].emb_src = fds[g].emb_src
                       /\ g # fd => fds'[g].emb_pos = fds[g].emb_pos
    BY <1>t, <2>1 DEF TypeOK, Tables, Entry
  <2>3. fds'[fd].emb_pos = pos
    BY <1>t, <2>1 DEF TypeOK, Tables, Entry
  <2>4. TextLen[fds[fd].emb_src] \in Nat
    BY <1>t, <2>1, DescriptorsAssumption DEF TypeOK, Tables, Entry, Texts
  <2>5. pos \in 0 .. TextLen[fds[fd].emb_src]
    BY <1>w, <2>1, <2>4
  <2> QED
    BY <1>w, <2>2, <2>3, <2>5
<1>4. ASSUME NEW old \in Fds, NEW new \in Fds \cup {-1}, nexs_dup(old, new)
      PROVE  \A fd \in Fds : Right(fds'[fd])
  <2>1. PICK to \in Fds, e \in Entry : Copies(old, to, e)
    BY <1>4, <1>t, DupEffect, Zenon
  <2> USE DEF Copies
  <2> QED
    BY <1>w, <2>1
<1>5. ASSUME nexs_pipe PROVE \A fd \in Fds : Right(fds'[fd])
  <2>1. \A g \in Fds :
          \/ fds'[g] = fds[g]
          \/ /\ fds'[g].emb_src = fds[g].emb_src /\ fds'[g].emb_pos = fds[g].emb_pos
             /\ fds'[g].in_use => fds'[g].path \in PipeEnds
    BY <1>5, <1>t, PipeEffect
  <2> QED
    BY <1>w, <2>1
<1>6. ASSUME UNCHANGED vars PROVE \A fd \in Fds : Right(fds'[fd])
  BY <1>6, <1>w DEF vars
<1> QED
  BY <1>1, <1>2, <1>3, <1>4, <1>5, <1>6, <1>s DEF Next, Call

\* The descriptor of a file that reads from a text reads from that of its own path.
\* The ends of pipes, which may have kept the text of a file, are not covered.
THEOREM FilesReadTheirText == Spec => []TextOfItsPath
<1>1. Init => TextInv
  <2> SUFFICES ASSUME Init PROVE PlacesInTexts /\ PathOfText
    BY InitTypes DEF TextInv
  <2> QED
    BY DEF Init, sysio_init, PlacesInTexts, PathOfText
<1>2. TextInv => TextOfItsPath
  BY DEF TextInv, PlacesInTexts, PathOfText, TextOfItsPath, Used
<1> QED
  BY <1>1, <1>2, NextTexts, PTL DEF Spec

-----------------------------------------------------------------------------
(* Streams *)

\* What closing s does to the other streams.
LEMMA FcloseEffect ==
  ASSUME NEW s, fclose(s)
  PROVE  /\ s \notin open'
         /\ \A r : r # s => (r \in open' <=> r \in open)
         /\ s \in open => running' = running
BY DEF fclose

\* A stream that dup has not copied and that a descriptor in use holds is
\* open, or it is one of the standard streams.
LEMMA HeldIsOpen ==
  ASSUME HolderInv, NEW fd \in Fds, fds[fd].in_use, fd >= 3, fds[fd].fp # None,
         fds[fd].fp \notin shared
  PROVE  fds[fd].fp \in Streams /\ fds[fd].fp \in open
<1>1. fds[fd].fp \in Fps
  BY DEF HolderInv, TypeOK, Tables, Entry
<1>2. fds[fd].fp \notin StdNames
  BY DescriptorsAssumption DEF HolderInv, LowHigh, Fds
<1>3. fds[fd].fp \in Streams \ shared
  BY <1>1, <1>2 DEF Fps
<1>4. Has(fds, fd, fds[fd].fp)
  BY DEF Has
<1> QED
  BY <1>3, <1>4 DEF HolderInv, OpenIsHeld

\* 0, 1 and 2 hold no stream of their own.
LEMMA LowHoldsNone ==
  ASSUME HolderInv, NEW s \in Streams \ shared, NEW fd \in Fds, Has(fds, fd, s)
  PROVE  fd >= 3
BY DescriptorsAssumption DEF HolderInv, LowHigh, Has, Fds

\* The addresses of streams are not the names of the standard ones.
LEMMA NoneApart == None \notin Streams /\ None \notin StdNames /\ Streams \cap StdNames = {}
BY NamesAssumption DEF StdNames

\* Giving an entry back: descriptor fd loses what it held, its stream is
\* closed when it is one of fopen or fdopen, and the others keep theirs.
LEMMA GivenBack ==
  ASSUME HolderInv, NEW fd \in Fds, fds[fd].in_use,
         shared \subseteq shared', TypeOK',
         \A g \in Fds \ {fd} : fds'[g] = fds[g],
         ~ fds'[fd].in_use \/ fds'[fd].fp \in shared' \/ fds'[fd].fp = None,
         IF fd >= 3 /\ fds[fd].fp # None THEN fclose(fds[fd].fp)
         ELSE open' = open /\ running' = running,
         running
  PROVE  HolderInv'
<1> DEFINE x == fds[fd].fp
<1>1. \A s \in Streams \ shared' : ~ Has(fds', fd, s)
  BY NoneApart DEF Has
<1>2. \A g \in Fds \ {fd} : \A s : Has(fds', g, s) <=> Has(fds, g, s)
  BY DEF Has
<1>3. AtMostOne'
  <2> SUFFICES ASSUME NEW s \in Streams \ shared', NEW f \in Fds, NEW g \in Fds,
                      Has(fds', f, s), Has(fds', g, s)
               PROVE  f = g
    BY DEF AtMostOne
  <2>1. Has(fds, f, s) /\ Has(fds, g, s)
    BY <1>1, <1>2
  <2>2. s \in Streams \ shared
    OBVIOUS
  <2> QED
    BY <2>1, <2>2 DEF HolderInv, AtMostOne
<1>4. LowHigh'
  <2> SUFFICES ASSUME NEW f \in Fds, fds'[f].in_use, fds'[f].fp \notin shared'
               PROVE  IF f < 3 THEN fds'[f].fp \notin Streams ELSE fds'[f].fp \notin StdNames
    BY DEF LowHigh
  <2>1. CASE f = fd
    BY <2>1, NoneApart
  <2>2. CASE f # fd
    BY <2>2 DEF HolderInv, LowHigh
  <2> QED
    BY <2>1, <2>2
<1>5. Stopped'
  <2> SUFFICES ASSUME ~ running', shared' = {} PROVE FALSE
    BY DEF Stopped
  <2>1. fd >= 3 /\ x # None /\ fclose(x) /\ x \notin shared
    OBVIOUS
  <2>2. x \in open
    BY <2>1, HeldIsOpen
  <2> QED
    BY <2>1, <2>2, FcloseEffect
<1>6. OpenIsHeld'
  <2> SUFFICES ASSUME NEW s \in Streams \ shared'
               PROVE  s \in open' <=> \E f \in Fds : Has(fds', f, s)
    BY DEF OpenIsHeld
  <2>0. s \in Streams \ shared
    OBVIOUS
  <2>1. CASE Has(fds, fd, s)
    <3>1. fd >= 3 /\ x = s /\ x # None
      BY <2>0, <2>1, LowHoldsNone, NoneApart DEF Has
    <3>2. s \notin open'
      BY <3>1, FcloseEffect
    <3>3. \A g \in Fds \ {fd} : ~ Has(fds, g, s)
      BY <2>0, <2>1 DEF HolderInv, AtMostOne
    <3> QED
      BY <1>1, <1>2, <3>2, <3>3
  <2>2. CASE ~ Has(fds, fd, s)
    <3>1. x # s
      BY <2>2 DEF Has
    <3>2. s \in open' <=> s \in open
      BY <3>1, FcloseEffect
    <3>3. s \in open <=> \E f \in Fds : Has(fds, f, s)
      BY <2>0 DEF HolderInv, OpenIsHeld
    <3> QED
      BY <1>1, <1>2, <2>2, <3>2, <3>3
  <2> QED
    BY <2>1, <2>2
<1> QED
  BY <1>3, <1>4, <1>5, <1>6 DEF HolderInv

\* Every call keeps the holders.
LEMMA NextHolders == HolderInv /\ Next => HolderInv'
<1> SUFFICES ASSUME HolderInv, Next PROVE HolderInv'
  OBVIOUS
<1>t. TypeOK /\ TypeOK' /\ fds \in Tables /\ running
  BY NextTypes DEF HolderInv, TypeOK, Next
<1>1. ASSUME NEW p \in Paths, nexs_open(p) \/ nexs_create(p) PROVE HolderInv'
  <2>1. PICK fd \in Fds, fp \in Streams \cup {None}, text \in Texts : Takes(fd, fp, text, p)
    BY <1>1, <1>t, OpenEffect
  <2>2. p \in Names /\ fp \in Fps
    BY DEF Names, Fps
  <2>3. /\ fds'[fd].in_use /\ fds'[fd].fp = fp /\ \A g \in Fds \ {fd} : fds'[g] = fds[g]
    BY <1>t, <2>1, <2>2, OpenedEntry DEF Takes
  <2>4. /\ fd >= 3 /\ ~ fds[fd].in_use /\ shared' = shared /\ running' = running
        /\ \A s \in Streams : s \in open' <=> s \in open \/ s = fp
        /\ fp # None => fp \notin open
    BY <2>1, NoneApart DEF Takes
  <2>5. \A s : /\ Has(fds', fd, s) <=> s = fp
               /\ ~ Has(fds, fd, s)
               /\ \A g \in Fds \ {fd} : Has(fds', g, s) <=> Has(fds, g, s)
    BY <2>3, <2>4 DEF Has
  <2>6. OpenIsHeld'
    BY <2>4, <2>5 DEF HolderInv, OpenIsHeld
  <2>7. AtMostOne'
    <3>1. \A s \in Streams \ shared : s = fp => \A g \in Fds : ~ Has(fds, g, s)
      BY <2>4, NoneApart DEF HolderInv, OpenIsHeld
    <3> QED
      BY <2>4, <2>5, <3>1 DEF HolderInv, AtMostOne
  <2>8. LowHigh'
    BY <2>3, <2>4, NoneApart, DescriptorsAssumption DEF HolderInv, LowHigh, Fds
  <2> QED
    BY <1>t, <2>4, <2>6, <2>7, <2>8 DEF HolderInv, Stopped
<1>2. ASSUME NEW fd \in Fds, nexs_close(fd) PROVE HolderInv'
  <2>1. /\ fds[fd].in_use /\ fds' = Closed(fds, fd) /\ shared' = shared
        /\ IF fd >= 3 /\ fds[fd].fp # None THEN fclose(fds[fd].fp)
           ELSE open' = open /\ running' = running
    BY <1>2, <1>t, CloseEffect
  <2>2. ~ fds'[fd].in_use /\ \A g \in Fds \ {fd} : fds'[g] = fds[g]
    BY <1>t, <2>1, ClosedEntry
  <2> QED
    BY <1>t, <2>1, <2>2, GivenBack
<1>3. ASSUME NEW fd \in Fds,
             \/ \E n \in Counts : nexs_pread(fd, n)
             \/ \E offset \in Offsets, whence \in 0 .. 2 : nexs_seek(fd, offset, whence)
      PROVE  HolderInv'
  <2>1. PICK pos \in Nat :
          /\ fds' = [fds EXCEPT ![fd].emb_pos = pos]
          /\ open' = open /\ shared' = shared /\ running' = running
    BY <1>3, <1>t, PlaceEffect
  <2>2. \A g \in Fds : fds'[g].in_use = fds[g].in_use /\ fds'[g].fp = fds[g].fp
    BY <1>t, <2>1 DEF Tables, Entry
  <2>3. AtMostOne' /\ OpenIsHeld'
    BY <2>1, <2>2 DEF HolderInv, AtMostOne, OpenIsHeld, Has
  <2>4. LowHigh' /\ Stopped'
    BY <2>1, <2>2 DEF HolderInv, LowHigh, Stopped
  <2> QED
    BY <1>t, <2>3, <2>4 DEF HolderInv
<1>4. ASSUME NEW old \in Fds, NEW new \in Fds \cup {-1}, nexs_dup(old, new) PROVE HolderInv'
  <2>1. PICK to \in Fds, e \in Entry : Copies(old, to, e)
    BY <1>4, <1>t, DupEffect, Zenon
  <2>2. /\ fds'[to] = e /\ \A g \in Fds \ {to} : fds'[g] = fds[g]
        /\ shared \subseteq shared' /\ (e.fp = None \/ e.fp \in shared')
    BY <2>1 DEF Copies
  <2>3. CASE fds[to].in_use
    <3>1. IF to >= 3 /\ fds[to].fp # None THEN fclose(fds[to].fp)
          ELSE open' = open /\ running' = running
      BY <2>1, <2>3 DEF Copies
    <3> QED
      BY <1>t, <2>2, <2>3, <3>1, GivenBack
  <2>4. CASE ~ fds[to].in_use
    <3>1. open' = open /\ running' = running
      BY <2>1, <2>4 DEF Copies
    <3>2. \A s \in Streams \ shared' : ~ Has(fds', to, s) /\ ~ Has(fds, to, s)
      BY <2>2, <2>4, NoneApart DEF Has
    <3>3. \A g \in Fds \ {to} : \A s : Has(fds', g, s) <=> Has(fds, g, s)
      BY <2>2 DEF Has
    <3>4. AtMostOne'
      <4> SUFFICES ASSUME NEW s \in Streams \ shared', NEW f \in Fds, NEW g \in Fds,
                          Has(fds', f, s), Has(fds', g, s)
                   PROVE  f = g
        BY DEF AtMostOne
      <4>1. Has(fds, f, s) /\ Has(fds, g, s)
        BY <3>2, <3>3
      <4>2. s \in Streams \ shared
        BY <2>2
      <4> QED
        BY <4>1, <4>2 DEF HolderInv, AtMostOne
    <3>5. OpenIsHeld'
      BY <2>2, <3>1, <3>2, <3>3 DEF HolderInv, OpenIsHeld
    <3>6. LowHigh'
      BY <2>2, NoneApart DEF HolderInv, LowHigh
    <3> QED
      BY <1>t, <3>1, <3>4, <3>5, <3>6 DEF HolderInv, Stopped
  <2> QED
    BY <2>3, <2>4
<1>5. ASSUME nexs_pipe PROVE HolderInv'
  <2>1. shared' = shared /\ running' = running
    BY <1>5, <1>t, PipeEffect
  <2>2. CASE \E f0 \in Fds : /\ ~ fds[f0].in_use /\ ~ fds'[f0].in_use /\ open' = open
                             /\ \A g \in Fds \ {f0} : fds'[g] = fds[g]
    <3>1. \A g \in Fds : \A s : Has(fds', g, s) <=> Has(fds, g, s)
      BY <2>2 DEF Has
    <3>2. AtMostOne'
      BY <2>1, <3>1 DEF HolderInv, AtMostOne
    <3>3. OpenIsHeld'
      BY <2>1, <2>2, <3>1 DEF HolderInv, OpenIsHeld
    <3>4. LowHigh'
      BY <2>1, <2>2 DEF HolderInv, LowHigh
    <3> QED
      BY <1>t, <2>1, <3>2, <3>3, <3>4 DEF HolderInv, Stopped
  <2>3. CASE \E f0 \in Fds : \E f1 \in Fds \ {f0}, r, w \in Streams \ open :
                /\ f0 >= 3 /\ f1 >= 3 /\ ~ fds[f0].in_use /\ ~ fds[f1].in_use
                /\ r # w /\ open' = open \cup {r, w}
                /\ fds'[f0].in_use /\ fds'[f0].fp = r
                /\ fds'[f1].in_use /\ fds'[f1].fp = w
                /\ \A g \in Fds \ {f0, f1} : fds'[g] = fds[g]
    <3>0. PICK f0 \in Fds : \E f1 \in Fds \ {f0}, r, w \in Streams \ open :
                /\ f0 >= 3 /\ f1 >= 3 /\ ~ fds[f0].in_use /\ ~ fds[f1].in_use
                /\ r # w /\ open' = open \cup {r, w}
                /\ fds'[f0].in_use /\ fds'[f0].fp = r
                /\ fds'[f1].in_use /\ fds'[f1].fp = w
                /\ \A g \in Fds \ {f0, f1} : fds'[g] = fds[g]
      BY <2>3
    <3>1. PICK f1 \in Fds \ {f0}, r, w \in Streams \ open :
                /\ f0 >= 3 /\ f1 >= 3 /\ ~ fds[f0].in_use /\ ~ fds[f1].in_use
                /\ r # w /\ open' = open \cup {r, w}
                /\ fds'[f0].in_use /\ fds'[f0].fp = r
                /\ fds'[f1].in_use /\ fds'[f1].fp = w
                /\ \A g \in Fds \ {f0, f1} : fds'[g] = fds[g]
      BY <3>0
    <3>2. \A s : /\ Has(fds', f0, s) <=> s = r
                 /\ Has(fds', f1, s) <=> s = w
                 /\ ~ Has(fds, f0, s) /\ ~ Has(fds, f1, s)
                 /\ \A g \in Fds \ {f0, f1} : Has(fds', g, s) <=> Has(fds, g, s)
      BY <3>1 DEF Has
    <3>3. \A s \in Streams \ shared : s \in {r, w} => \A g \in Fds : ~ Has(fds, g, s)
      BY <3>1 DEF HolderInv, OpenIsHeld
    <3>4. OpenIsHeld'
      <4> SUFFICES ASSUME NEW s \in Streams \ shared
                   PROVE  s \in open' <=> \E f \in Fds : Has(fds', f, s)
        BY <2>1 DEF OpenIsHeld
      <4>1. s \in open <=> \E f \in Fds : Has(fds, f, s)
        BY DEF HolderInv, OpenIsHeld
      <4>2. s \in open' <=> s \in open \/ s = r \/ s = w
        BY <3>1
      <4>3. (\E f \in Fds : Has(fds', f, s)) <=>
              s = r \/ s = w \/ \E f \in Fds : Has(fds, f, s)
        BY <3>2
      <4> QED
        BY <4>1, <4>2, <4>3
    <3>5. AtMostOne'
      <4> SUFFICES ASSUME NEW s \in Streams \ shared, NEW f \in Fds, NEW g \in Fds,
                          Has(fds', f, s), Has(fds', g, s)
                   PROVE  f = g
        BY <2>1 DEF AtMostOne
      <4>1. CASE s = r \/ s = w
        BY <4>1, <3>1, <3>2, <3>3
      <4>2. CASE s # r /\ s # w
        BY <4>2, <3>2 DEF HolderInv, AtMostOne
      <4> QED
        BY <4>1, <4>2
    <3>6. LowHigh'
      <4> SUFFICES ASSUME NEW f \in Fds, fds'[f].in_use, fds'[f].fp \notin shared
                   PROVE  IF f < 3 THEN fds'[f].fp \notin Streams ELSE fds'[f].fp \notin StdNames
        BY <2>1 DEF LowHigh
      <4>1. CASE f \in {f0, f1}
        <5>1. fds'[f].fp \in Streams /\ f >= 3 /\ f \in Int
          BY <4>1, <3>1, DescriptorsAssumption DEF Fds
        <5> QED
          BY <5>1, NoneApart
      <4>2. CASE f \notin {f0, f1}
        BY <4>2, <3>1 DEF HolderInv, LowHigh
      <4> QED
        BY <4>1, <4>2
    <3> QED
      BY <1>t, <2>1, <3>4, <3>5, <3>6 DEF HolderInv, Stopped
  <2> QED
    BY <1>5, <1>t, <2>2, <2>3, PipeEffect
<1> QED
  BY <1>1, <1>2, <1>3, <1>4, <1>5 DEF Next, Call

\* At the start each standard stream is held by its descriptor alone, and
\* no other stream is open.
LEMMA InitHolders == Init => HolderInv
<1> SUFFICES ASSUME Init PROVE HolderInv
  OBVIOUS
<1>1. TypeOK
  BY InitTypes
<1>2. \A fd \in Fds : fds[fd].in_use = (fd < 3) /\ (fd < 3 => fds[fd].fp = Std[fd])
  BY DEF Init, sysio_init
<1>3. \A fd \in Fds : fd < 3 => fd \in 0 .. 2
  BY DEF Fds
<1>4. \A fd \in Fds : fds[fd].in_use => fds[fd].fp \in StdNames /\ fd < 3
  BY <1>2, <1>3 DEF StdNames
<1>5. \A s \in Streams : s \notin open /\ \A f \in Fds : ~ Has(fds, f, s)
  BY <1>4, NoneApart DEF Has, Init, StdNames
<1> QED
  BY <1>1, <1>4, <1>5, NoneApart DEF Init, HolderInv, AtMostOne, OpenIsHeld, LowHigh, Stopped

\* What HolderInv says, with the number of holders.
LEMMA HoldersCounted == HolderInv => OneHolder
<1> SUFFICES ASSUME HolderInv PROVE OneHolder
  OBVIOUS
<1>1. ASSUME NEW s \in Streams \ shared
      PROVE  Cardinality(Holders(s)) = IF s \in open THEN 1 ELSE 0
  <2>1. Holders(s) = {f \in Fds : Has(fds, f, s)}
    BY DEF Holders, Used, Has
  <2>2. CASE s \in open
    <3>1. PICK f \in Fds : Has(fds, f, s)
      BY <2>2 DEF HolderInv, OpenIsHeld
    <3>2. Holders(s) = {f}
      BY <2>1, <3>1 DEF HolderInv, AtMostOne
    <3> QED
      BY <2>2, <3>2, FS_Singleton
  <2>3. CASE s \notin open
    <3>1. Holders(s) = {}
      BY <2>1, <2>3 DEF HolderInv, OpenIsHeld
    <3> QED
      BY <2>3, <3>1, FS_EmptySet
  <2> QED
    BY <2>2, <2>3
<1> QED
  BY <1>1 DEF HolderInv, Stopped, OneHolder

\* A stream that dup has not copied is open exactly while one descriptor in
\* use holds it, and the program is not aborted for closing one twice.
THEOREM StreamsHaveOneHolder == Spec => []OneHolder
<1>1. HolderInv /\ UNCHANGED vars => HolderInv'
  BY DEF vars, HolderInv, TypeOK, AtMostOne, OpenIsHeld, LowHigh, Stopped
<1>2. HolderInv /\ [Next]_vars => HolderInv'
  BY <1>1, NextHolders
<1> QED
  BY <1>2, InitHolders, HoldersCounted, PTL DEF Spec

=============================================================================
