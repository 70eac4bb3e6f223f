------------------------------- MODULE Syntax -------------------------------
(***************************************************************************)
(* Source texts of the NEXS language as they are typed, and what the       *)
(* scanner and the parser make of every one of them.  The states are the   *)
(* texts: short ones of any characters, which exercise the scanner, and    *)
(* longer ones of whole words, which exercise the parser.                  *)
(***************************************************************************)
EXTENDS Parser, Strings

CONSTANTS Chars, MaxChars,   \* what short texts are made of, and how short
          Words, MaxWords    \* the words that may follow each first word

VARIABLES text,    \* the characters of the source
          words    \* its words, when it was typed in words
vars == <<text, words>>

\* The front half of eval_str: the program that a text is, and whether the
\* parser accepted it.
Program(src) == parse_program(Lex(src))

\* The source with words ws, a blank after each.
Joined(ws) == FlattenSeq([i \in DOMAIN ws |-> Append(ws[i], " ")])

Init == text = << >> /\ words = << >>

TypeChar == /\ words = << >>
            /\ Len(text) < MaxChars
            /\ \E c \in Chars : text' = Append(text, c)
            /\ UNCHANGED words

TypeWord == /\ text = Joined(words)
            /\ Len(words) < MaxWords
            /\ \E w \in IF words = << >> THEN DOMAIN Words ELSE Words[words[1]] :
                 words' = Append(words, w)
            /\ text' = Joined(words')

Next == TypeChar \/ TypeWord

Spec == Init /\ [][Next]_vars

\* Bounds the search: the parser has not given up before the end.
Viable == words # << >> =>
            LET prog == Program(text) IN
            prog.st = "ok" \/ Len(prog.left) = 1

-----------------------------------------------------------------------------
(* The syntax, from the other side: how a tree is written. *)

Sym(k)       == [k |-> k, s |-> k, n |-> 0]
Text(k, s)   == [k |-> k, s |-> s, n |-> 0]
NameTok(s)   == Text(IF s \in DOMAIN keywords THEN keywords[s] ELSE "IDENT", s)
Between(l, body, r) == <<Sym(l)>> \o body \o <<Sym(r)>>
Separated(parts, sep) ==
  FlattenSeq([i \in DOMAIN parts |->
                IF i = 1 THEN parts[i] ELSE <<Sym(sep)>> \o parts[i]])

\* An expression, with parentheses where precedence asks for them; the
\* keyword reg alone is how an absent operand is written.
RECURSIVE ShowExpr(_)
ShowExpr(n) ==
  LET prec == binop_prec(Sym(n.s))
      operand(m, min) ==
        IF m.k = "binop" /\ binop_prec(Sym(m.s)) < min
        THEN Between("(", ShowExpr(m), ")") ELSE ShowExpr(m)
  IN  CASE n.k = "NULL"  -> <<Sym("reg")>>
        [] n.k = "index" -> <<NameTok(n.s)>> \o Between("[", ShowExpr(n.c[1]), "]")
        [] n.k = "call"  -> <<NameTok(n.s)>> \o
             Between("(", Separated([i \in DOMAIN n.c |-> ShowExpr(n.c[i])], ","), ")")
        [] n.k = "reg"   -> <<Text("PATH", n.s)>>
        [] n.k = "ls"    -> <<Sym("ls")>>
        [] n.k \in {"receivemessage", "msgpending", "deref"}
                         -> <<Sym(n.k), Text("PATH", n.s)>>
        [] n.k = "unop"  -> <<Sym("!")>> \o operand(n.c[1], 7)
        [] n.k = "binop" -> operand(n.c[1], prec) \o <<Sym(n.s)>>
                              \o operand(n.c[2], prec + 1)
        [] OTHER         -> <<[k |-> n.k, s |-> n.s, n |-> n.n]>>

\* A statement; the ones a line cannot start with are in parentheses.
RECURSIVE ShowStmt(_)
ShowStmt(n) ==
  LET path  == IF n.s = "" THEN << >> ELSE <<Text("STR", n.s)>>
      lines == [i \in DOMAIN n.c |-> ShowStmt(n.c[i])]
      paren == Between("(", ShowExpr(n), ")")
  IN  CASE n.k \in {"program", "params"} -> Separated(lines, "NL")
        [] n.k = "block"    -> Between("{", Separated(lines, "NL"), "}")
        [] n.k = "binop" \/ (n.k = "call" /\ n.s = "ls") -> paren
        [] n.k = "fn"       -> <<Sym("fn"), NameTok(n.s)>> \o
             Between("(", FlattenSeq([i \in DOMAIN n.c[1].c |-> ShowExpr(n.c[1].c[i])]), ")")
               \o ShowStmt(n.c[2])
        [] n.k = "if"       -> <<Sym("if")>> \o ShowExpr(n.c[1]) \o ShowStmt(n.c[2])
             \o (IF n.c[3] = NULL THEN << >> ELSE <<Sym("else")>> \o ShowStmt(n.c[3]))
        [] n.k = "loop"     -> <<Sym("loop")>> \o ShowStmt(n.c[1])
        [] n.k = "ret"      -> <<Sym("ret")>> \o
             (IF n.c[1] = NULL THEN << >> ELSE ShowExpr(n.c[1]))
        [] n.k = "out"      -> <<Sym("out")>> \o ShowExpr(n.c[1])
        [] n.k = "del"      -> <<Sym("del"), NameTok(n.s)>>
                                 \o Between("[", ShowExpr(n.c[1]), "]")
        [] n.k = "ls"       -> <<Sym("ls")>> \o path
        [] n.k = "cd"       -> <<Sym("cd")>> \o
             (IF n.c = << >> THEN path ELSE ShowExpr(n.c[1]))
        [] n.k = "reg"      -> <<Sym("reg"), Text("PATH", n.s)>>
        [] n.k = "regset"   -> <<Sym("reg"), Text("PATH", n.s), Sym("=")>>
                                 \o ShowExpr(n.c[1])
        [] n.k = "sendmessage" -> <<Sym(n.k), Text("PATH", n.s)>> \o ShowExpr(n.c[1])
        [] n.k = "ptr"      -> <<Sym("ptr"), Text("PATH", n.s), Sym("="),
                                 Text("PATH", n.c[1].s)>>
        [] n.k = "assign"   -> <<NameTok(n.s), Sym("=")>> \o ShowExpr(n.c[1])
        [] n.k = "indexset" -> <<NameTok(n.s)>> \o Between("[", ShowExpr(n.c[1]), "]")
                                 \o <<Sym("=")>> \o ShowExpr(n.c[2])
        [] OTHER            -> ShowExpr(n)

-----------------------------------------------------------------------------
(* Properties *)

\* The string builtins agree with each other on every text and separator:
\* what split takes apart arr_join puts together, no piece contains the
\* separator, replace joins the two pieces around a separator that occurs once
\* with another, lines_of is split at newlines but for an empty last line,
\* substr cuts a text in two with nothing lost from either end, and trim leaves
\* what lies inside.  (Of a text with more separators nothing is claimed: the
\* README has replace change them all, its own comment and code the first.)
StringsComeApartAndTogether ==
  words = << >> =>
    /\ \A i, j \in DOMAIN text : i <= j =>
         LET sep    == SubSeq(text, i, j)
             pieces == builtin_split(text, sep)
         IN  /\ builtin_arr_join(pieces, sep) = text
             /\ \A k \in DOMAIN pieces : ~ builtin_contains(pieces[k], sep)
             /\ Len(pieces) = 2 =>
                  builtin_replace(text, sep, <<"a", "a">>) = builtin_arr_join(pieces, <<"a", "a">>)
    /\ LET lines == builtin_split(text, <<Newline>>)
       IN  /\ lines # << >>
           /\ builtin_lines_of(text) = IF Last(lines) = << >> THEN Front(lines) ELSE lines
    /\ \A k \in 0 .. Len(text) :
         /\ builtin_substr(text, 0, k) \o builtin_substr(text, k, Len(text)) = text
         /\ k > 0 => builtin_substr(text, -k, k) = builtin_substr(text, Len(text) - k, k)
    /\ \E k, n \in 0 .. Len(text) : builtin_trim(text) = builtin_substr(text, k, n)
    /\ builtin_trim(text) # << >> =>
         {Head(builtin_trim(text)), Last(builtin_trim(text))} \cap Spaces = {}

\* What lies before token i of toks, and whether the tokens cover the text.
Gap(toks, i) == SubSeq(text, IF i = 1 THEN 1 ELSE toks[i - 1].to, toks[i].from - 1)
Comment(g)   == /\ g # << >> /\ g[1] \in Blanks \cup {"#"} /\ "#" \in ToSet(g)
                /\ \A j \in DOMAIN g : g[j] # Newline
Covering(toks) ==
  \A i \in DOMAIN toks :
    /\ i > 1 => toks[i - 1].to <= toks[i].from
    /\ ToSet(Gap(toks, i)) \subseteq Blanks \/ Comment(Gap(toks, i))
    /\ (toks[i].k # "STR" /\ toks[i].to - toks[i].from < NAME_LEN) =>
         toks[i].s = Spelled(SubSeq(text, toks[i].from, toks[i].to - 1))

\* Whatever is typed, the tokens the scanner returns cover the text in
\* order: what lies between two of them is blank or comment, and a token
\* that is not a literal is the characters it was read from.  It is about
\* the positions lexer_next moves over in every one of its branches.
TokensCoverTheText == Covering(Lex(text))

\* The text of toks with a blank before each, and whether two sequences of
\* tokens say the same.
Spaced(toks) ==
  FlattenSeq([i \in DOMAIN toks |->
    LET spelling == SubSeq(text, toks[i].from, toks[i].to - 1)
    IN  IF i = 1 \/ spelling = << >> THEN spelling ELSE <<" ">> \o spelling])
Alike(toks, again) ==
  /\ Len(again) = Len(toks)
  /\ \A i \in DOMAIN toks :
       /\ toks[i].s = again[i].s
       /\ toks[i].k = again[i].k \/ {toks[i].k, again[i].k} = {"/", "PATH"}

\* Blanks between tokens carry no meaning: a text written again with one
\* between every two tokens of it has the same tokens.  A slash that only
\* a digit kept from being a path counts as that path, as binop_prec has it.
BlanksCarryNoMeaning == Alike(Lex(text), Lex(Spaced(Lex(text))))

Accepted(prog, n) == prog.st = "ok" /\ prog.n = n
ParsesBack(prog)  == prog.st = "ok" =>
  Accepted(parse_program(Append(ShowStmt(prog.n), Sym("EOF"))), prog.n)

\* An accepted program, written out with only the parentheses precedence
\* and association ask for, parses to the tree it was written from: no two
\* trees are written alike, and the parser groups as the table says.
WrittenTreesParseBack ==
  words # << >> => ParsesBack(Program(text))

MessageCallIn(toks) ==
  \E i \in 1 .. Len(toks) - 1 :
    /\ toks[i].k \in {"sendmessage", "receivemessage", "msgpending", "ls"}
    /\ toks[i + 1].k = "("

\* The parser comes to an end on every text but those with a call form of
\* a message keyword, or of ls in an expression: the argument loops of
\* those look at no error (parser.c:192, :299, :329, :676).
OnlyMessageCallsHang == Program(text).st = "hang" => MessageCallIn(Lex(text))

\* The ways to cut a text into two at a newline, both parts accepted.
Cuts == { i \in DOMAIN words :
            /\ words[i] = <<Newline>>
            /\ Program(Joined(SubSeq(words, 1, i - 1))).st = "ok"
            /\ Program(Joined(SubSeq(words, i + 1, Len(words)))).st = "ok" }
Before(i) == Program(Joined(SubSeq(words, 1, i - 1))).n.c
After(i)  == Program(Joined(SubSeq(words, i + 1, Len(words)))).n.c
Appended(i) == Accepted(Program(text), Node("program", "", Before(i) \o After(i)))

\* An if that may still be followed by its else.
RECURSIVE Open(_)
Open(n) == n.k = "if" /\ (n.c[3] = NULL \/ Open(n.c[3]))

\* Two programs, one after the other on lines of their own, are the program
\* of the statements of both, unless the first ends in an if without else.
LinesStandAlone ==
  \A i \in Cuts : ~ (Before(i) # << >> /\ Open(Last(Before(i)))) => Appended(i)

=============================================================================
