------------------------------- MODULE Lexer -------------------------------
(***************************************************************************)
(* The scanner of the NEXS language (src/lang/lexer.c), as a function from *)
(* a source text to its tokens.  A text is a sequence of characters, a     *)
(* character a string of length one.  The scanner keeps a position and a   *)
(* line; here the token records the positions it was read from instead,    *)
(* and the line is left out.  Texts are shorter than MAX_STR_LEN, so the   *)
(* internal buffer never fills before a token ends.                        *)
(***************************************************************************)
EXTENDS Integers, Sequences, SequencesExt

CONSTANTS Letters,    \* the characters isalpha accepts
          Digits,     \* those isdigit accepts: a function to their values
          NAME_LEN    \* the size of the text buffer of a token

Newline == "\n"
Quote   == "\""
Escape  == "\\"
Blanks  == {" ", "\t", "\r"}
WordStart == Letters \cup {"_"}
WordChars == WordStart \cup DOMAIN Digits

\* The kind a reserved word has; a word that is not in the domain is a name.
keywords == [ fn |-> "fn", ret |-> "ret", if |-> "if", else |-> "else",
              loop |-> "loop", break |-> "break", cont |-> "cont",
              continue |-> "cont", del |-> "del", out |-> "out", reg |-> "reg",
              ls |-> "ls", import |-> "import", proc |-> "proc", and |-> "&&",
              or |-> "||", not |-> "!", true |-> "true", false |-> "false",
              nil |-> "nil", cd |-> "cd", pwd |-> "pwd", ptr |-> "ptr",
              deref |-> "deref", sendmessage |-> "sendmessage",
              receivemessage |-> "receivemessage", msgpending |-> "msgpending" ]

\* What an escaped character of a string literal stands for.
Escapes == [ n |-> "\n", r |-> "\r", t |-> "\t", b |-> "BS", e |-> "ESC" ]

\* Characters that are a token alone, and those a second one may extend.
Singles == {"+", "-", "*", "%", ".", "[", "]", "{", "}", "(", ")", ","}
Paired  == [ c \in {"=", "!", "<", ">", "&", "|"} |->
               IF c \in {"&", "|"} THEN c ELSE "=" ]

Spelled(cs) == FoldLeft(LAMBDA text, c : text \o c, "", cs)

\* The first position from i on whose character is not in S.
RunEnd(src, i, S) ==
  CHOOSE j \in i .. Len(src) + 1 :
    /\ j <= Len(src) => src[j] \notin S
    /\ \A k \in i .. j - 1 : src[k] \in S

\* make_tok: the text of a token is cut to its buffer.  cs is the text,
\* the token was read from positions from .. to - 1.
make_tok(kind, cs, from, to) ==
  [ k |-> kind, s |-> Spelled(SubSeq(cs, 1, IF Len(cs) < NAME_LEN THEN Len(cs)
                                            ELSE NAME_LEN - 1)),
    n |-> 0, from |-> from, to |-> to ]

\* Mutants: blanks are not skipped; the slash keeps the digits after it.
lexer_skip_comments(src, i) ==
  IF i <= Len(src) /\ src[i] = "#"
  THEN CHOOSE e \in i .. Len(src) + 1 :
         /\ e <= Len(src) => src[e] = Newline
         /\ \A k \in i .. e - 1 : src[k] # Newline
  ELSE i
Slash_keeps_digits(src, i) ==
  LET to == RunEnd(src, i + 1, WordChars \cup {"/"}) IN
  IF to = i + 1 \/ src[i + 1] \in WordStart
  THEN make_tok("PATH", SubSeq(src, i, to - 1), i, to)
  ELSE make_tok("/", <<"/">>, i, to)

\* lexer_skip_ws: blanks, then a comment up to the end of its line.
lexer_skip_ws(src, i) ==
  LET j == RunEnd(src, i, Blanks) IN
  IF j <= Len(src) /\ src[j] = "#"
  THEN CHOOSE e \in j .. Len(src) + 1 :
         /\ e <= Len(src) => src[e] = Newline
         /\ \A k \in j .. e - 1 : src[k] # Newline
  ELSE j

\* A string literal opened at i: its decoded characters and where it ends.
\* An escaped 0 ends the text, since the buffer is copied as a C string;
\* a literal that is not closed runs to the end of the source.
StringLiteral(src, i) ==
  LET read[k \in i + 1 .. Len(src) + 2] ==
        IF k > Len(src) THEN [cs |-> << >>, to |-> Len(src) + 1]
        ELSE IF src[k] = Quote THEN [cs |-> << >>, to |-> k + 1]
        ELSE LET esc  == src[k] = Escape /\ k < Len(src)
                 ch   == IF ~esc THEN src[k]
                         ELSE IF src[k + 1] \in DOMAIN Escapes
                              THEN Escapes[src[k + 1]] ELSE src[k + 1]
                 rest == read[IF esc THEN k + 2 ELSE k + 1]
             IN  [ cs |-> IF esc /\ ch = "0" THEN << >> ELSE <<ch>> \o rest.cs,
                   to |-> rest.to ]
      lit == read[i + 1]
  IN  make_tok("STR", lit.cs, i, lit.to)

\* atoll: the value of the leading digits of cs.
Decimal(cs) ==
  LET lead == SubSeq(cs, 1, RunEnd(cs, 1, DOMAIN Digits) - 1)
  IN  FoldLeft(LAMBDA v, c : 10 * v + Digits[c], 0, lead)

\* A number at i, whose sign, if it has one, is the character at i.
Number(src, i) ==
  LET to == RunEnd(src, i + 1, DOMAIN Digits \cup {"."})
      cs == SubSeq(src, i, to - 1)
      tok == make_tok(IF "." \in ToSet(cs) THEN "FLOAT" ELSE "INT", cs, i, to)
  IN  [tok EXCEPT !.n = IF cs[1] = "-" THEN -Decimal(Tail(cs)) ELSE Decimal(cs)]

\* A slash at i: a registry path when it is alone or a name follows it.
Slash(src, i) ==
  LET to == RunEnd(src, i + 1, WordChars \cup {"/"}) IN
  IF to = i + 1 \/ src[i + 1] \in WordStart
  THEN make_tok("PATH", SubSeq(src, i, to - 1), i, to)
  ELSE make_tok("/", <<"/">>, i, i + 1)

Word(src, i) ==
  LET to == RunEnd(src, i, WordChars)
      w  == Spelled(SubSeq(src, i, to - 1))
  IN  make_tok(IF w \in DOMAIN keywords THEN keywords[w] ELSE "IDENT",
               SubSeq(src, i, to - 1), i, to)

\* Any other character: one of the operators, or the end of the file.
Operator(src, i) ==
  LET c    == src[i]
      long == /\ c \in DOMAIN Paired
              /\ i < Len(src)
              /\ src[i + 1] = Paired[c]
  IN  IF long THEN make_tok(c \o src[i + 1], <<c, src[i + 1]>>, i, i + 2)
      ELSE IF c \in Singles \cup {"=", "!", "<", ">"}
           THEN make_tok(c, <<c>>, i, i + 1)
           ELSE make_tok("EOF", <<c>>, i, i + 1)

\* lexer_next from position i.
lexer_next(src, i) ==
  LET j == lexer_skip_ws(src, i)
      c == src[j]
  IN  IF j > Len(src) THEN make_tok("EOF", << >>, j, j)
      ELSE IF c = Newline THEN make_tok("NL", <<c>>, j, j + 1)
      ELSE IF c = Quote THEN StringLiteral(src, j)
      ELSE IF \/ c \in DOMAIN Digits
              \/ c = "-" /\ (j < Len(src) /\ src[j + 1] \in DOMAIN Digits)
           THEN Number(src, j)
      ELSE IF c = "/" THEN Slash(src, j)
      ELSE IF c \in WordStart THEN Word(src, j)
      ELSE Operator(src, j)

\* The tokens of a text, up to and with the first one of kind EOF.
Lex(src) ==
  LET up(t, rest)  == IF t.k = "EOF" THEN <<t>> ELSE <<t>> \o rest[t.to]
      from[i \in 1 .. Len(src) + 1] == up(lexer_next(src, i), from)
  IN  from[1]
=============================================================================
