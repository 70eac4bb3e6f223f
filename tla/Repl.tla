-------------------------------- MODULE Repl --------------------------------
(***************************************************************************)
(* The prompt (nexs_repl of src/runtime/main.c) on a terminal: a line is   *)
(* read by the line editor, remembered and run, and then the next is read. *)
(* The terminal is in raw mode while a line is read; a command may put it  *)
(* into raw mode for itself (rawon and rawoff of src/sys/sysio.c), and     *)
(* each of the two keeps the mode it found and a flag of its own.          *)
(*                                                                         *)
(* What is typed comes in bursts: the keys of a burst are read without a   *)
(* pause between their bytes, and after it there is one that makes the     *)
(* reads inside an escape sequence time out.                               *)
(***************************************************************************)
EXTENDS LineEdit

CONSTANTS LINE_SIZE,   \* the bytes of the array line that nexs_repl reads into (1024)
          Bursts,      \* sequences of keys typed in one go
          Bytes,       \* the bytes of each character that can be typed
          Encoding,    \* the byte sequences a terminal may send for each other key
          ExitLines,   \* ":exit" and ":q"
          Pasts,       \* the lines entered before, oldest first
          MaxBursts    \* a bound: how many bursts are typed

\* A terminal sends whole characters, and the lines before were typed on one.
ASSUME TypingAssumption ==
  /\ NEXS_LINE_BUFSIZE \in Nat /\ NEXS_LINE_HISTORY \in Nat \ {0}
  /\ LINE_SIZE \in Nat \ {0}
  /\ \A ks \in Bursts : ks \in Seq(DOMAIN Bytes \cup DOMAIN Encoding)
  /\ \A c \in DOMAIN Bytes : Bytes[c] \in Written
  /\ \A k \in DOMAIN Encoding : Encoding[k] \subseteq Written
  /\ \A past \in Pasts : past \in Seq(Written)

VARIABLES le,      \* the line editor
          tty,     \* the mode of the terminal and what was kept of it
          mode,    \* "editing", "running" a command, "over", or "torn"
          typed    \* how many bursts have been typed
vars == <<le, tty, mode, typed>>

-----------------------------------------------------------------------------
(* The terminal *)

\* nexs_line_raw_on and nexs_line_raw_off
nexs_line_raw_on(t) ==
  IF t.line_raw THEN t
  ELSE [t EXCEPT !.line_orig = t.attr, !.attr = "raw", !.line_raw = TRUE]
nexs_line_raw_off(t) ==
  IF ~ t.line_raw THEN t ELSE [t EXCEPT !.attr = t.line_orig, !.line_raw = FALSE]

\* Mutant: rawon keeps the mode again when it is already on.
bi_rawon_twice(t) == [t EXCEPT !.sys_orig = t.attr, !.attr = "raw", !.sys_raw = TRUE]

bi_rawon(t) ==
  IF t.sys_raw THEN t
  ELSE [t EXCEPT !.sys_orig = t.attr, !.attr = "raw", !.sys_raw = TRUE]
bi_rawoff(t) ==
  IF ~ t.sys_raw THEN t ELSE [t EXCEPT !.attr = t.sys_orig, !.sys_raw = FALSE]

-----------------------------------------------------------------------------
(* Reading a line *)

\* The beginning of nexs_line_read.
Begin(e) == nexs_line_render([e EXCEPT !.buf = << >>, !.pos = 0, !.hist_nav = -1])

\* The loop of nexs_line_read over the bytes of a burst: the editor, and how
\* the line ended if it did.  Leaving raw mode discards the bytes that were
\* not read.
ReadKey(r) ==
  LET key == nexs_key_read(r.rest)
  IN  CASE key.code = "ENTER" -> [r EXCEPT !.ends = "entered"]
        [] key.code = "CTRL_C" \/ (key.code = "EOF" /\ r.le.buf = << >>) ->
             [r EXCEPT !.ends = "stopped"]
        [] OTHER -> [r EXCEPT !.le = edit_key(@, key), !.rest = key.rest]
nexs_line_read(e, in) ==
  LET read[n \in 0 .. Len(in)] ==
        IF n = 0 THEN ReadKey([le |-> e, ends |-> "no", rest |-> in])
        ELSE LET r == read[n - 1]
             IN  IF r.ends # "no" \/ r.rest = << >> THEN r ELSE ReadKey(r)
  IN  read[Len(in)]

\* What nexs_line_read copies out of a line: as many bytes as there is room
\* for before the NUL, characters or not.
Copied(s) == SubSeq(s, 1, IF Len(s) < LINE_SIZE THEN Len(s) ELSE LINE_SIZE - 1)

nexs_trim(s) ==
  LET inked == {i \in DOMAIN s : s[i] # Blank}
  IN  IF inked = {} THEN << >> ELSE SubSeq(s, First(inked), Final(inked))

\* What a burst of keys may be in bytes.
Spelling(k)   == IF k \in DOMAIN Bytes THEN {Bytes[k]} ELSE Encoding[k]
Spellings(ks) ==
  LET of[n \in 0 .. Len(ks)] ==
        IF n = 0 THEN {<< >>} ELSE {s \o b : s \in of[n - 1], b \in Spelling(ks[n])}
  IN  of[Len(ks)]

\* The editor when the lines of past have been entered.
Remembering(past) ==
  LET of[n \in 0 .. Len(past)] ==
        IF n = 0 THEN nexs_line_init ELSE nexs_line_add_history(of[n - 1], past[n])
  IN  of[Len(past)]

Init == /\ \E past \in Pasts : le = Begin(Remembering(past))
        /\ tty = nexs_line_raw_on([attr |-> "cooked", line_raw |-> FALSE,
                                   line_orig |-> "cooked", sys_raw |-> FALSE,
                                   sys_orig |-> "cooked"])
        /\ mode = "editing"
        /\ typed = 0

\* A burst is typed and read.  A line of blanks is read again, an entered
\* one is remembered before anything else is done with it, and what is
\* remembered and run is the copy.  A copy that ends inside a character is run
\* and remembered too, but the model follows the program no further then.
Edit ==
  /\ mode = "editing"
  /\ typed < MaxBursts
  /\ typed' = typed + 1
  /\ \E ks \in Bursts : \E in \in Spellings(ks) :
       LET r    == nexs_line_read(le, in)
           copy == Copied(r.le.buf)
           line == nexs_trim(copy)
           off  == nexs_line_raw_off(tty)
       IN  \/ r.ends = "no" /\ le' = r.le /\ UNCHANGED <<tty, mode>>
           \/ r.ends = "stopped" /\ le' = r.le /\ tty' = off /\ mode' = "over"
           \/ /\ r.ends = "entered" /\ ~ Whole(copy)
              /\ le' = r.le /\ tty' = off /\ mode' = "torn"
           \/ /\ r.ends = "entered" /\ Whole(copy) /\ line = << >>
              /\ le' = Begin(r.le) /\ tty' = nexs_line_raw_on(off) /\ UNCHANGED mode
           \/ /\ r.ends = "entered" /\ Whole(copy) /\ line # << >>
              /\ le' = nexs_line_add_history(r.le, line)
              /\ tty' = off
              /\ mode' = IF line \in ExitLines THEN "over" ELSE "running"

\* The command may change the mode of the terminal, and ends.
Command == /\ mode = "running"
           /\ tty' \in {bi_rawon(tty), bi_rawoff(tty)}
           /\ UNCHANGED <<le, mode, typed>>
Prompt  == /\ mode = "running"
           /\ le' = Begin(le)
           /\ tty' = nexs_line_raw_on(tty)
           /\ mode' = "editing"
           /\ UNCHANGED typed

Next == Edit \/ Command \/ Prompt

Spec == Init /\ [][Next]_vars

-----------------------------------------------------------------------------
(* Properties *)

\* Wherever the keys took it, and whether the line was written again or the
\* cursor only moved, the terminal's cursor is before the character that
\* the next key will act on.
CursorOnScreen ==
  mode = "editing" => le.col = visual_cols(SubSeq(le.buf, 1, le.pos))

\* A line is read in raw mode, and a command, or the shell after the last
\* one, finds the terminal as it was before the program, unless a command
\* has asked for raw mode and not given it back.
TerminalGivenBack ==
  IF mode = "editing" THEN tty.attr = "raw"
  ELSE tty.attr = IF tty.sys_raw THEN "raw" ELSE "cooked"

\* The characters that bytes are, <<"?">> if they are not whole ones.
Texts      == UNION {[1 .. n -> DOMAIN Bytes] : n \in 0 .. NEXS_LINE_BUFSIZE - 1}
Encoded(t) == FlattenSeq([i \in DOMAIN t |-> Bytes[t[i]]])
Table      == [s \in {Encoded(t) : t \in Texts} |-> CHOOSE t \in Texts : Encoded(t) = s]
Decoded(s) == IF s \in DOMAIN Table THEN Table[s] ELSE <<"?">>

\* The characters, the cursor between them and the history are those of
\* EditedLine: bytes, escape sequences and the ring are not to be noticed, but
\* for the lines that are remembered and run cut at LINE_SIZE - 1 bytes.
\* (Nothing is claimed of Ctrl+D, see EditedLine, and of what comes after a line
\* that was cut inside a character.)
Line == INSTANCE EditedLine WITH
  Characters <- DOMAIN Bytes,
  Space  <- CHOOSE c \in DOMAIN Bytes : Bytes[c] = <<Blank>>,
  Size   <- [c \in DOMAIN Bytes |-> Len(Bytes[c])],
  Room   <- NEXS_LINE_BUFSIZE,
  Length <- LINE_SIZE,
  Depth  <- NEXS_LINE_HISTORY,
  Finals <- {Decoded(s) : s \in ExitLines},
  Pasts  <- {[i \in 1 .. Min({Len(p), NEXS_LINE_HISTORY}) |->
                Decoded(p[Len(p) + 1 - i])] : p \in Pasts},
  text   <- Decoded(le.buf),
  cursor <- Len(Decoded(SubSeq(le.buf, 1, le.pos))),
  past   <- [i \in 1 .. le.hist_count |-> Decoded(le.history[Slot(le, i - 1)])],
  at     <- le.hist_nav + 1,
  draft  <- Decoded(le.hist_saved),
  killed <- Decoded(le.kill_buf),
  mode   <- mode

ImplementsLine == Line!Spec
=============================================================================
