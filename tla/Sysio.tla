-------------------------------- MODULE Sysio --------------------------------
(***************************************************************************)
(* The file descriptors of the hosted runtime (g_fd_table of               *)
(* src/sys/sysio.c) as the built-in functions open, create, close, read,   *)
(* seek, dup and pipe use them.                                            *)
(*                                                                         *)
(* An entry is in use or not, and has a path; its bytes come from a stream *)
(* of the C library (fp) or from a text the program was built with         *)
(* (emb_src, emb_pos), and pread looks at the text first.  The registry    *)
(* lists the descriptors under /sys/fd.  A stream is the address of its    *)
(* FILE, which fclose frees and a later fopen may get again; what a stream *)
(* delivers is the C library's concern and is left out.                    *)
(***************************************************************************)
EXTENDS Integers, FiniteSets

CONSTANTS NEXS_MAX_FDS,
          Paths,       \* names of files
          TextLen,     \* the length of each embedded text, by its path
          Streams,     \* the addresses fopen and fdopen may return
          Offsets,     \* the offsets given to seek
          Counts,      \* how many bytes are read at once
          MaxDups,     \* a bound: how often dup is called
          None

ASSUME DescriptorsAssumption ==
  /\ NEXS_MAX_FDS \in Nat /\ NEXS_MAX_FDS > 3
  /\ DOMAIN TextLen \subseteq Paths /\ TextLen \in [DOMAIN TextLen -> Nat]
  /\ Offsets \subseteq Int /\ Counts \subseteq Nat

VARIABLES fds,      \* g_fd_table
          open,     \* the streams that are open
          keys,     \* the values under /sys/fd, None where there is no key
          shared,   \* history: the streams dup has copied
          dups,     \* how often dup has been called
          running   \* FALSE when the C library has aborted the program
vars == <<fds, open, keys, shared, dups, running>>

Fds      == 0 .. NEXS_MAX_FDS - 1
Std      == [i \in 0 .. 2 |-> CASE i = 0 -> "stdin" [] i = 1 -> "stdout" [] i = 2 -> "stderr"]
PipeEnds == {"/dev/pipe/r", "/dev/pipe/w"}

\* Addresses, names and None are told apart.
ASSUME NamesAssumption ==
  /\ None \notin Streams \cup Paths \cup PipeEnds \cup {Std[i] : i \in 0 .. 2} \cup {""}
  /\ \A i \in 0 .. 2 : Std[i] \notin Streams

fd_alloc(t) == LET free == {i \in 3 .. NEXS_MAX_FDS - 1 : ~ t[i].in_use}
               IN  IF free = {} THEN -1 ELSE CHOOSE i \in free : \A j \in free : i <= j

-----------------------------------------------------------------------------
(* Entries *)

Opened(t, fd, fp, p, text) ==
  [t EXCEPT ![fd] = [fp |-> fp, path |-> p, in_use |-> TRUE,
                     emb_src |-> text, emb_pos |-> 0]]

\* Mutant: a file of the disk takes an entry as a pipe does.
OpenedFile_keeps_text(t, fd, s, p) ==
  [t EXCEPT ![fd] = [@ EXCEPT !.fp = s, !.path = p, !.in_use = TRUE]]

OpenedFile(t, fd, s, p) == Opened(t, fd, s, p, None)

\* A pipe takes what the entry had of a text before.
Piped(t, fd, s, end) ==
  [t EXCEPT ![fd] = [@ EXCEPT !.fp = s, !.path = end, !.in_use = TRUE]]
\* The text of an entry stays in it.
Closed(t, fd) ==
  [t EXCEPT ![fd] = [@ EXCEPT !.fp = None, !.path = "", !.in_use = FALSE]]

\* fclose of a stream that is not open is undefined: it may do nothing that
\* is seen here, or end the program.
fclose(s) == \/ s \in open /\ open' = open \ {s} /\ UNCHANGED running
             \/ s \notin open /\ UNCHANGED open /\ running' \in BOOLEAN
\* The standard streams are not closed through 0, 1 and 2.
Release(fd) == IF fd >= 3 /\ fds[fd].fp # None THEN fclose(fds[fd].fp)
               ELSE UNCHANGED <<open, running>>

\* fopen that succeeds.  It depends on the disk and the mode whether it does,
\* and a call of open or create that fails changes nothing.
fopen(s) == s \in Streams \ open /\ open' = open \cup {s}

-----------------------------------------------------------------------------
(* The calls *)

sysio_init ==
  [fd \in Fds |->
     [fp      |-> IF fd < 3 THEN Std[fd] ELSE None,
      path    |-> IF fd < 3 THEN Std[fd] ELSE "",
      in_use  |-> fd < 3, emb_src |-> None, emb_pos |-> 0]]

Init == /\ fds = sysio_init
        /\ open = {Std[i] : i \in 0 .. 2}
        /\ keys = [fd \in Fds |-> None]
        /\ shared = {}
        /\ dups = 0
        /\ running = TRUE

\* Mutant: a descriptor that is closed stays listed.
Listed_for_good(fd, p) == keys' = IF p = None THEN keys ELSE [keys EXCEPT ![fd] = p]

Listed(fd, p) == keys' = [keys EXCEPT ![fd] = p]

nexs_open(p) ==
  LET fd == fd_alloc(fds) IN
  /\ fd >= 0
  /\ Listed(fd, p)
  /\ \/ /\ p \in DOMAIN TextLen
        /\ fds' = Opened(fds, fd, None, p, p)
        /\ UNCHANGED open
     \/ /\ p \notin DOMAIN TextLen
        /\ \E s \in Streams : fopen(s) /\ fds' = OpenedFile(fds, fd, s, p)
  /\ UNCHANGED <<shared, dups, running>>

\* create does not look for an embedded text.
nexs_create(p) ==
  LET fd == fd_alloc(fds) IN
  /\ fd >= 0
  /\ Listed(fd, p)
  /\ \E s \in Streams : fopen(s) /\ fds' = OpenedFile(fds, fd, s, p)
  /\ UNCHANGED <<shared, dups, running>>

nexs_close(fd) ==
  /\ fds[fd].in_use
  /\ Release(fd)
  /\ fds' = Closed(fds, fd)
  /\ Listed(fd, None)
  /\ UNCHANGED <<shared, dups>>

\* Reading changes only the place in a text, and only without an offset.
nexs_pread(fd, n) ==
  LET e == fds[fd] IN
  /\ e.in_use /\ e.emb_src # None
  /\ LET left == TextLen[e.emb_src] - e.emb_pos
     IN  fds' = [fds EXCEPT ![fd].emb_pos = @ + IF n < left THEN n ELSE left]
  /\ UNCHANGED <<open, keys, shared, dups, running>>

nexs_seek(fd, offset, whence) ==
  LET e   == fds[fd]
      to  == offset + CASE whence = 0 -> 0 [] whence = 1 -> e.emb_pos
                        [] whence = 2 -> TextLen[e.emb_src]
  IN  /\ e.in_use /\ e.emb_src # None
      /\ fds' = [fds EXCEPT ![fd].emb_pos =
                   IF to < 0 THEN 0
                   ELSE IF to > TextLen[e.emb_src] THEN TextLen[e.emb_src] ELSE to]
      /\ UNCHANGED <<open, keys, shared, dups, running>>

\* The entry is copied after the one it goes to was closed, and that may
\* have been the same.
nexs_dup(old, new) ==
  LET to     == IF new < 0 THEN fd_alloc(fds) ELSE new
      closes == to >= 3 /\ fds[to].in_use
      before == IF closes THEN Closed(fds, to) ELSE fds
  IN  /\ fds[old].in_use /\ to >= 0 /\ dups < MaxDups
      /\ IF closes THEN Release(to) ELSE UNCHANGED <<open, running>>
      /\ fds' = [before EXCEPT ![to] = before[old]]
      /\ Listed(to, before[old].path)
      /\ shared' = shared \cup ({before[old].fp} \ {None})
      /\ dups' = dups + 1

\* Mutant: the reading end stays open when there is no entry for the other.
nexs_pipe_leaks ==
  \E r, w \in Streams \ open :
    LET fd0 == fd_alloc(fds)
        one == Piped(fds, fd0, r, "/dev/pipe/r")
        fd1 == fd_alloc(one)
    IN  /\ r # w /\ fd0 >= 0
        /\ IF fd1 < 0
           THEN fds' = [one EXCEPT ![fd0].in_use = FALSE] /\ open' = open \cup {r}
           ELSE fds' = Piped(one, fd1, w, "/dev/pipe/w") /\ open' = open \cup {r, w}
        /\ UNCHANGED <<keys, shared, dups, running>>

\* The two ends are not listed.  When there is an entry for one of them
\* only, it is given back, and the stream with it.
nexs_pipe ==
  \E r, w \in Streams \ open :
    LET fd0 == fd_alloc(fds)
        one == Piped(fds, fd0, r, "/dev/pipe/r")
        fd1 == fd_alloc(one)
    IN  /\ r # w /\ fd0 >= 0
        /\ IF fd1 < 0
           THEN fds' = [one EXCEPT ![fd0].in_use = FALSE] /\ open' = open
           ELSE fds' = Piped(one, fd1, w, "/dev/pipe/w") /\ open' = open \cup {r, w}
        /\ UNCHANGED <<keys, shared, dups, running>>

Call == \/ \E p \in Paths : nexs_open(p) \/ nexs_create(p)
        \/ \E fd \in Fds : nexs_close(fd)
        \/ \E fd \in Fds, n \in Counts : nexs_pread(fd, n)
        \/ \E fd \in Fds, offset \in Offsets, whence \in 0 .. 2 :
             nexs_seek(fd, offset, whence)
        \/ \E old \in Fds, new \in Fds \cup {-1} : nexs_dup(old, new)
        \/ nexs_pipe

Next == running /\ Call

Spec == Init /\ [][Next]_vars

-----------------------------------------------------------------------------
(* Properties *)

Used       == {fd \in Fds : fds[fd].in_use}
Holders(s) == {fd \in Used : fds[fd].fp = s}

\* A path listed under /sys/fd is the path of a descriptor that is open, and
\* every one of a file is listed, whatever was closed, copied over or failed.
ListedAsOpened ==
  /\ \A fd \in Fds : keys[fd] \notin {None, ""} =>
       fd \in Used /\ keys[fd] = fds[fd].path
  /\ \A fd \in Used \ (0 .. 2) : keys[fd] # fds[fd].path => fds[fd].path \in PipeEnds

\* A stream that dup has not copied is open as long as one descriptor holds
\* it, and no longer: it is neither lost nor used after it was closed.
\* Streams are counted nowhere, and after dup both may be.
OneHolder ==
  /\ \A s \in Streams \ shared : Cardinality(Holders(s)) = IF s \in open THEN 1 ELSE 0
  /\ ~ running => shared # {}

\* The text the descriptor of a file reads from, which goes before its stream,
\* is the one its path names, although nexs_close leaves the text in the entry;
\* and a place is always in its text.  The ends of pipes are not covered: an end
\* that nexs_pipe puts into an entry with a text keeps it, and is read from it.
TextOfItsPath ==
  \A fd \in Used : fds[fd].emb_src # None =>
    /\ fds[fd].path \in {fds[fd].emb_src} \cup PipeEnds
    /\ fds[fd].emb_pos \in 0 .. TextLen[fds[fd].emb_src]
=============================================================================
