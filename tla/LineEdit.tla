------------------------------ MODULE LineEdit ------------------------------
(***************************************************************************)
(* The line editor of the prompt (src/runtime/nexs_line.c): the bytes of   *)
(* the terminal are put together to keys, and every key changes the line.  *)
(*                                                                         *)
(* A text is the sequence of its bytes in UTF-8 and pos is how many bytes  *)
(* are before the cursor.  The editor is a record le: buf and pos; the     *)
(* ring history with hist_head and hist_count; hist_nav and hist_saved;    *)
(* kill_buf; and col, the column the terminal's cursor was left in,        *)
(* counted from the prompt.  Lines are taken to fit into the terminal's    *)
(* width.                                                                  *)
(***************************************************************************)
EXTENDS Integers, Sequences, FiniteSets, SequencesExt

CONSTANTS NEXS_LINE_BUFSIZE, NEXS_LINE_HISTORY

Blank == 32
Esc   == 27
First(S) == CHOOSE i \in S : \A j \in S : i <= j
Final(S) == CHOOSE i \in S : \A j \in S : j <= i

-----------------------------------------------------------------------------
(* UTF-8 *)

utf8_seq_len(c) == IF c \div 32 = 6 THEN 2 ELSE IF c \div 16 = 14 THEN 3
                   ELSE IF c \div 8 = 30 THEN 4 ELSE 1
Continues(c) == c \div 64 = 2

\* The code point at byte i, and the columns it takes.
utf8_decode(s, i) ==
  LET n    == utf8_seq_len(s[i])
      more(k, x) == (x * 64) + (s[i + k] % 64)
  IN  IF n = 1 \/ i + n - 1 > Len(s) THEN s[i]
      ELSE IF n = 2 THEN more(1, s[i] % 32)
      ELSE IF n = 3 THEN more(2, more(1, s[i] % 16))
      ELSE more(3, more(2, more(1, s[i] % 8)))
utf8_col_width(cp) ==
  IF cp \in 4352 .. 40959 \/ cp \in 63744 .. 65535 \/ cp >= 131072 THEN 2 ELSE 1

visual_cols(s) ==
  LET from[i \in 1 .. Len(s) + 1] ==
        IF i > Len(s) THEN 0
        ELSE LET n == utf8_seq_len(s[i])
             IN  utf8_col_width(utf8_decode(s, i)) + from[IF i + n - 1 > Len(s) THEN i + 1 ELSE i + n]
  IN  from[1]

utf8_next(s, pos) == IF pos >= Len(s) THEN pos ELSE pos + utf8_seq_len(s[pos + 1])

utf8_prev(s, pos) ==
  IF pos <= 0 THEN 0
  ELSE Final({0} \cup {p \in 1 .. pos - 1 : ~ Continues(s[p + 1])})

\* After each first byte of a character come the others it calls for.
Whole(s) ==
  \A i \in DOMAIN s : LET n == utf8_seq_len(s[i]) IN
    i + n - 1 <= Len(s) /\ \A j \in i + 1 .. i + n - 1 : Continues(s[j])
Written == {s \in Seq(0 .. 255) : Whole(s)}

-----------------------------------------------------------------------------
(* Keys *)

Key(code, utf8, rest) == [code |-> code, utf8 |-> utf8, rest |-> rest]

Arrows  == [b \in {65, 66, 67, 68, 70, 72} |->
              CASE b = 65 -> "UP" [] b = 66 -> "DOWN" [] b = 67 -> "RIGHT"
                [] b = 68 -> "LEFT" [] b = 70 -> "END" [] b = 72 -> "HOME"]
Tildes  == [b \in {51, 52, 53, 54} |->
              CASE b = 51 -> "DELETE" [] b = 52 -> "END"
                [] b = 53 -> "PGUP" [] b = 54 -> "PGDN"]
Shifted == [b \in {65, 66, 67, 68} |->
              CASE b = 65 -> "UP" [] b = 66 -> "DOWN"
                [] b = 67 -> "WORD_RIGHT" [] b = 68 -> "WORD_LEFT"]
Controlled == [b \in {67, 68} |-> IF b = 67 THEN "WORD_RIGHT" ELSE "WORD_LEFT"]

\* The control characters; those that do the same share a name.
Controls == [b \in {1, 2, 3, 4, 5, 6, 8, 9, 10, 11, 12, 13, 14, 16, 18, 20, 21,
                    23, 25, 127} |->
  CASE b = 1  -> "HOME"      [] b = 2  -> "LEFT"     [] b = 3  -> "CTRL_C"
    [] b = 4  -> "CTRL_D"    [] b = 5  -> "END"      [] b = 6  -> "RIGHT"
    [] b \in {8, 127} -> "BACKSPACE"                 [] b = 9  -> "TAB"
    [] b \in {10, 13} -> "ENTER"                     [] b = 11 -> "KILL_END"
    [] b = 12 -> "CLEAR"     [] b = 14 -> "DOWN"     [] b = 16 -> "UP"
    [] b = 18 -> "CTRL_R"    [] b = 20 -> "TRANSPOSE" [] b = 21 -> "KILL_ALL"
    [] b = 23 -> "KILL_WORD" [] b = 25 -> "YANK"]

\* The bytes that came without a pause.  A byte that is not there is -1: the
\* reads inside an escape sequence time out, and the first read of a key
\* then finds the end of the input.
Byte(in, i)  == IF i <= Len(in) THEN in[i] ELSE -1
After(in, i) == SubSeq(in, i, Len(in))
Nothing(in, i) == Key("NONE", << >>, After(in, i))
Lookup(table, in, i) == IF Byte(in, i) \in DOMAIN table
                        THEN Key(table[Byte(in, i)], << >>, After(in, i + 1))
                        ELSE Nothing(in, i + 1)

\* An unknown sequence is read up to a letter or a tilde.
Absorb(in, i) ==
  LET ends == {j \in i .. Len(in) :
                 in[j] \in (65 .. 90) \cup (97 .. 122) \cup {126}}
  IN  Nothing(in, IF ends = {} THEN Len(in) + 1 ELSE First(ends) + 1)

\* ESC [ 1 ; modifier direction, and ESC [ 1 ~
Modified(in) ==
  IF Byte(in, 4) = 126 THEN Key("HOME", << >>, After(in, 5))
  ELSE IF Byte(in, 4) # 59 THEN Nothing(in, 5)
  ELSE CASE Byte(in, 5) = 50 -> Lookup(Shifted, in, 6)
         [] Byte(in, 5) = 53 -> Lookup(Controlled, in, 6)
         [] OTHER            -> Nothing(in, 7)

\* ESC [ digit ~
Tilde(in) == IF Byte(in, 3) \in DOMAIN Tildes /\ Byte(in, 4) = 126
             THEN Key(Tildes[Byte(in, 3)], << >>, After(in, 5))
             ELSE Absorb(in, 5)

CSI(in) ==
  CASE Byte(in, 3) = -1             -> Key("ESC", << >>, << >>)
    [] Byte(in, 3) \in DOMAIN Arrows -> Lookup(Arrows, in, 3)
    [] Byte(in, 3) = 49             -> Modified(in)
    [] Byte(in, 3) \in 50 .. 54     -> Tilde(in)
    [] OTHER                        -> Absorb(in, 4)
SS3(in) == Lookup(Arrows, in, 3)
EscapeSequence(in) ==
  CASE Byte(in, 2) = 91 -> CSI(in)
    [] Byte(in, 2) = 79 -> SS3(in)
    [] OTHER            -> Key("ESC", << >>, After(in, 3))

\* A character, in as many bytes as the first one says.
Character(in) ==
  LET n == utf8_seq_len(in[1]) IN Key("CHAR", SubSeq(in, 1, n), After(in, n + 1))

nexs_key_read(in) ==
  IF in = << >> THEN Key("EOF", << >>, << >>)
  ELSE IF in[1] = Esc THEN EscapeSequence(in)
  ELSE IF in[1] \in DOMAIN Controls THEN Lookup(Controls, in, 1)
  ELSE Character(in)

-----------------------------------------------------------------------------
(* Editing *)

Cut(s, from, to) == SubSeq(s, 1, from) \o SubSeq(s, to + 1, Len(s))

\* One step from p: over a character forward or back, or over a byte back;
\* and the byte the loops of the code look at before they take it.
Step(s, p, how) == CASE how = "next" -> utf8_next(s, p)
                     [] how = "prev" -> utf8_prev(s, p)
                     [] how = "byte" -> p - 1
Ahead(p, how) == IF how = "next" THEN p + 1 ELSE p

\* Where p comes to over bytes that are blanks, or that are not.
\* (A character cut off at the end of s reaches up to three bytes further.)
Skip(s, p, blank, how) ==
  LET to[q \in 0 .. Len(s) + 3] ==
        LET i == Ahead(q, how) IN
        IF i \in DOMAIN s /\ (s[i] = Blank) = blank THEN to[Step(s, q, how)] ELSE q
  IN  to[p]
OverWord(s, p, how) == Skip(s, Skip(s, p, TRUE, how), FALSE, how)

insert_chars(le, s) ==
  IF Len(le.buf) + Len(s) >= NEXS_LINE_BUFSIZE THEN le
  ELSE [le EXCEPT !.buf = SubSeq(@, 1, le.pos) \o s \o SubSeq(@, le.pos + 1, Len(@)),
                  !.pos = @ + Len(s)]
delete_char_before(le) ==
  LET prev == utf8_prev(le.buf, le.pos)
  IN  [le EXCEPT !.buf = Cut(@, prev, le.pos), !.pos = prev]
delete_char_at(le) ==
  [le EXCEPT !.buf = Cut(@, le.pos, utf8_next(@, le.pos))]
kill_to_end(le) ==
  IF le.pos >= Len(le.buf) THEN le
  ELSE [le EXCEPT !.kill_buf = SubSeq(le.buf, le.pos + 1, Len(le.buf)),
                  !.buf = SubSeq(@, 1, le.pos)]
kill_all(le) == [le EXCEPT !.kill_buf = le.buf, !.buf = << >>, !.pos = 0]
kill_word_back(le) ==
  LET p == OverWord(le.buf, le.pos, "byte") IN
  IF p = le.pos THEN le
  ELSE [le EXCEPT !.kill_buf = SubSeq(le.buf, p + 1, le.pos),
                  !.buf = Cut(@, p, le.pos), !.pos = p]
yank(le) == insert_chars(le, le.kill_buf)
transpose_chars(le) ==
  LET p1 == utf8_prev(le.buf, le.pos)
      p0 == utf8_prev(le.buf, p1)
  IN  IF le.pos < 2 THEN le
      ELSE [le EXCEPT !.buf = SubSeq(@, 1, p0) \o SubSeq(@, p1 + 1, le.pos)
                              \o SubSeq(@, p0 + 1, p1) \o SubSeq(@, le.pos + 1, Len(@))]

-----------------------------------------------------------------------------
(* The history *)

nexs_line_init ==
  [ buf |-> << >>, pos |-> 0, history |-> [i \in 0 .. NEXS_LINE_HISTORY - 1 |-> << >>],
    hist_head |-> 0, hist_count |-> 0, hist_nav |-> -1, hist_saved |-> << >>,
    kill_buf |-> << >>, col |-> 0 ]

Slot(le, nav) == (le.hist_head - 1 - nav + NEXS_LINE_HISTORY) % NEXS_LINE_HISTORY

\* Mutant: the ring is never thought to be full.
nexs_line_add_history_unbounded(le, line) ==
  IF line = << >> THEN le
  ELSE [le EXCEPT !.history[le.hist_head] = line,
                  !.hist_head = (@ + 1) % NEXS_LINE_HISTORY,
                  !.hist_count = @ + 1]

nexs_line_add_history(le, line) ==
  IF line = << >> \/ (le.hist_count > 0 /\ le.history[Slot(le, 0)] = line) THEN le
  ELSE [le EXCEPT !.history[le.hist_head] = line,
                  !.hist_head = (@ + 1) % NEXS_LINE_HISTORY,
                  !.hist_count = IF @ < NEXS_LINE_HISTORY THEN @ + 1 ELSE @]

Show(le, line) == [le EXCEPT !.buf = line, !.pos = Len(line)]
\* The line that was being written is kept when the history is entered.
Leave(le)       == IF le.hist_nav = -1 THEN [le EXCEPT !.hist_saved = le.buf] ELSE le
Recall(le, nav) == Show([le EXCEPT !.hist_nav = nav], le.history[Slot(le, nav)])

\* dir is 1 for an older line and -1 for a newer one.
history_nav(le, dir) ==
  LET nav  == le.hist_nav + dir
      left == Leave(le)
  IN  IF le.hist_count = 0 THEN le
      ELSE IF nav < 0 THEN Show([left EXCEPT !.hist_nav = -1], left.hist_saved)
      ELSE IF nav >= le.hist_count THEN left
      ELSE Recall(left, nav)

page_up(le) == IF le.hist_count = 0 THEN le ELSE Recall(Leave(le), le.hist_count - 1)

-----------------------------------------------------------------------------
(* What a key does to the line *)

\* nexs_line_render: the whole line is written and the cursor moved back
\* over what is after it.
nexs_line_render(le) ==
  [le EXCEPT !.col = visual_cols(le.buf)
                     - visual_cols(SubSeq(le.buf, le.pos + 1, Len(le.buf)))]

\* Left and right move the cursor without writing the line again.
\* Mutant: they count every character as one column.
MoveLeft_one_column(le) ==
  LET prev == utf8_prev(le.buf, le.pos)
  IN  [le EXCEPT !.pos = prev, !.col = IF prev = le.pos THEN @ ELSE @ - 1]

MoveLeft(le) ==
  LET prev == utf8_prev(le.buf, le.pos)
  IN  [le EXCEPT !.pos = prev, !.col = @ - visual_cols(SubSeq(le.buf, prev + 1, le.pos))]
MoveRight(le) ==
  LET next == utf8_next(le.buf, le.pos)
  IN  [le EXCEPT !.pos = next, !.col = @ + visual_cols(SubSeq(le.buf, le.pos + 1, next))]
MoveTo(le, p) == [le EXCEPT !.pos = p]

\* The part of nexs_line_read for keys that do not end the line.
edit_key(le, key) ==
  LET k == key.code IN
  CASE k = "LEFT"  -> MoveLeft(le)
    [] k = "RIGHT" -> MoveRight(le)
    [] k \in {"ESC", "NONE", "TAB", "CTRL_D", "CTRL_R"} -> le
    [] OTHER -> nexs_line_render(
         CASE k = "CHAR"       -> insert_chars(le, key.utf8)
           [] k = "HOME"       -> MoveTo(le, 0)
           [] k = "END"        -> MoveTo(le, Len(le.buf))
           [] k = "WORD_LEFT"  -> MoveTo(le, OverWord(le.buf, le.pos, "prev"))
           [] k = "WORD_RIGHT" -> MoveTo(le, OverWord(le.buf, le.pos, "next"))
           [] k = "UP"         -> history_nav(le, 1)
           [] k \in {"DOWN", "PGDN"} -> history_nav(le, -1)
           [] k = "PGUP"       -> page_up(le)
           [] k = "BACKSPACE"  -> delete_char_before(le)
           [] k \in {"DELETE", "EOF"} -> delete_char_at(le)
           [] k = "KILL_END"   -> kill_to_end(le)
           [] k = "KILL_ALL"   -> kill_all(le)
           [] k = "KILL_WORD"  -> kill_word_back(le)
           [] k = "YANK"       -> yank(le)
           [] k = "TRANSPOSE"  -> transpose_chars(le)
           [] k = "CLEAR"      -> le)

=============================================================================
