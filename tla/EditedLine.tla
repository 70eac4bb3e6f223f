----------------------------- MODULE EditedLine -----------------------------
(***************************************************************************)
(* What the line editor promises, in characters and lines with no bytes,   *)
(* rings or escape sequences in sight: a line with a cursor between two of *)
(* its characters, the lines entered before, newest first, the line that   *)
(* was left to look at them, and what was last killed.                     *)
(***************************************************************************)
EXTENDS Integers, Sequences, FiniteSets, SequencesExt

CONSTANTS Characters, Space,   \* what can be typed, the blank among it
          Size,        \* the bytes of each character
          Room,        \* a line is shorter than this many bytes
          Length,      \* and when it is entered, it is cut to fewer than this many
          Depth,       \* how many lines are remembered
          Bursts,      \* keys typed in one go
          Finals,      \* the lines that end the session
          Pasts        \* what may have been entered before

VARIABLES text, cursor, past, at, draft, killed, mode
line == <<text, cursor, past, at, draft, killed>>

State == [text |-> text, cursor |-> cursor, past |-> past, at |-> at,
          draft |-> draft, killed |-> killed, mode |-> mode]

BytesOf(t) == FoldLeft(LAMBDA n, c : n + Size[c], 0, t)
Greatest(S) == CHOOSE i \in S : \A j \in S : j <= i
Smallest(S) == CHOOSE i \in S : \A j \in S : i <= j
Without(t, from, to) == SubSeq(t, 1, from) \o SubSeq(t, to + 1, Len(t))
Insert(t, i, u) == SubSeq(t, 1, i) \o u \o SubSeq(t, i + 1, Len(t))

\* The words of a line begin and end at these places of the cursor.
Starts(t) == {i \in 0 .. Len(t) - 1 : t[i + 1] # Space /\ (i = 0 \/ t[i] = Space)}
Ends(t)   == {i \in 1 .. Len(t) : t[i] # Space /\ (i = Len(t) \/ t[i + 1] = Space)}
WordBefore(t, c) == Greatest({0} \cup {i \in Starts(t) : i < c})
WordAfter(t, c)  == Smallest({Len(t)} \cup {i \in Ends(t) : i > c})

Move(s, c) == [s EXCEPT !.cursor = c]
Write(s, t, c) == [s EXCEPT !.text = t, !.cursor = c]
Type(s, u) == IF BytesOf(s.text) + BytesOf(u) >= Room THEN s
              ELSE Write(s, Insert(s.text, s.cursor, u), s.cursor + Len(u))
Kill(s, from, to) ==
  IF from = to THEN s
  ELSE [Write(s, Without(s.text, from, to), from) EXCEPT
          !.killed = SubSeq(s.text, from + 1, to)]
\* Line i of the past, or the line that was left when i is 0.
Visit(s, i) ==
  LET left == IF s.at = 0 THEN [s EXCEPT !.draft = s.text] ELSE s
      to   == IF i = 0 THEN left.draft ELSE s.past[i]
  IN  IF s.past = << >> THEN s ELSE [Write(left, to, Len(to)) EXCEPT !.at = i]

Trimmed(t) ==
  LET inked == {i \in DOMAIN t : t[i] # Space}
  IN  IF inked = {} THEN << >> ELSE SubSeq(t, Smallest(inked), Greatest(inked))

Fresh(s)  == [s EXCEPT !.text = << >>, !.cursor = 0, !.at = 0, !.mode = "editing"]

\* The characters of t that fit whole; and whether the cut is inside one more.
Fitting(t) == SubSeq(t, 1, Greatest({n \in 0 .. Len(t) : BytesOf(SubSeq(t, 1, n)) < Length}))
Torn(t)    == BytesOf(t) >= Length /\ BytesOf(Fitting(t)) # Length - 1

\* A line is entered: it is remembered unless it is empty or was entered
\* last, and it is run or ends the session.
Remembered(past_, t) == IF past_ # << >> /\ Head(past_) = t THEN past_
                        ELSE SubSeq(<<t>> \o past_, 1, IF Len(past_) < Depth
                                                       THEN Len(past_) + 1 ELSE Depth)
Enter(s) ==
  LET t == Trimmed(Fitting(s.text)) IN
  IF Torn(s.text) THEN [s EXCEPT !.mode = "torn"]
  ELSE IF t = << >> THEN Fresh(s)
  ELSE [s EXCEPT !.past = Remembered(@, t),
                 !.mode = IF t \in Finals THEN "over" ELSE "running"]

Press(s, k) ==
  LET n == Len(s.text)
      c == s.cursor
  IN  CASE k \in Characters    -> Type(s, <<k>>)
        [] k = "LEFT"          -> Move(s, IF c = 0 THEN 0 ELSE c - 1)
        [] k = "RIGHT"         -> Move(s, IF c = n THEN n ELSE c + 1)
        [] k = "HOME"          -> Move(s, 0)
        [] k = "END"           -> Move(s, n)
        [] k = "WORD_LEFT"     -> Move(s, WordBefore(s.text, c))
        [] k = "WORD_RIGHT"    -> Move(s, WordAfter(s.text, c))
        [] k = "BACKSPACE"     -> IF c = 0 THEN s
                                  ELSE Write(s, Without(s.text, c - 1, c), c - 1)
        [] k = "DELETE" \/ (k = "EOF" /\ n > 0) ->
             IF c = n THEN s ELSE Write(s, Without(s.text, c, c + 1), c)
        [] k = "KILL_END"      -> Kill(s, c, n)
        [] k = "KILL_WORD"     -> Kill(s, WordBefore(s.text, c), c)
        [] k = "KILL_ALL"      -> [Write(s, << >>, 0) EXCEPT !.killed = s.text]
        [] k = "YANK"          -> Type(s, s.killed)
        [] k = "TRANSPOSE"     -> IF c < 2 THEN s
             ELSE Write(s, [s.text EXCEPT ![c - 1] = s.text[c], ![c] = s.text[c - 1]], c)
        [] k = "UP"            -> IF s.at = Len(s.past) THEN s ELSE Visit(s, s.at + 1)
        [] k \in {"DOWN", "PGDN"} -> Visit(s, IF s.at = 0 THEN 0 ELSE s.at - 1)
        [] k = "PGUP"          -> Visit(s, Len(s.past))
        [] k = "ENTER"         -> Enter(s)
        [] k = "CTRL_C" \/ (k = "EOF" /\ n = 0) -> [s EXCEPT !.mode = "over"]
        [] OTHER               -> s      \* TAB, ESC and CLEAR

\* The keys of a burst act until one of them ends the line: what was typed
\* ahead of the next prompt is lost.
Pressed(s, ks) ==
  LET last == {i \in DOMAIN ks : ks[i] \in {"ENTER", "CTRL_C"}} \cup {Len(ks)}
  IN  FoldLeft(Press, s, SubSeq(ks, 1, Smallest(last)))

\* Ctrl+D: nexs_line.h and the comments of nexs_line.c give it the meaning of the
\* end of the input, and the code ignores it.  Both are allowed here.
Meanings(ks) == {[i \in DOMAIN ks |-> IF ks[i] = "CTRL_D" THEN k ELSE ks[i]] : k \in {"EOF", "ESC"}}

Becomes(s) == /\ text' = s.text /\ cursor' = s.cursor /\ past' = s.past
              /\ at' = s.at /\ draft' = s.draft /\ killed' = s.killed
              /\ mode' = s.mode

Init == /\ text = << >> /\ cursor = 0 /\ past \in Pasts
        /\ at = 0 /\ draft = << >> /\ killed = << >> /\ mode = "editing"

Edit == /\ mode = "editing"
        /\ \E ks \in Bursts, s \in {State} :
             \E t \in {Pressed(s, m) : m \in Meanings(ks)} : Becomes(t)
\* A command that was entered may end, and the next line begin.
Prompt == mode = "running" /\ Becomes(Fresh(State))

Next == Edit \/ Prompt

Spec == Init /\ [][Next]_<<line, mode>>
=============================================================================
