----------------------------- MODULE MCSession -----------------------------
(* A vocabulary of lines for small sessions. *)
EXTENDS Session

MCPaths == [ p \in {"/env", "/env/k", "/env/p"} |->
               [ abs |-> TRUE,
                 names |-> CASE p = "/env" -> <<"env">> [] p = "/env/k" -> <<"env", "k">>
                             [] p = "/env/p" -> <<"env", "p">> ] ]
MCDigits == [d \in {"0"} |-> 0]
Numbers  == [ w \in {"0", "1", "2", "3", "5", "7"} |->
                CASE w = "0" -> 0 [] w = "1" -> 1 [] w = "2" -> 2
                  [] w = "3" -> 3 [] w = "5" -> 5 [] w = "7" -> 7 ]
Texts    == [ w \in {"'/env/k"} |-> "/env/k" ]
Marks == {"NL", "(", ")", "[", "]", "{", "}", "=", "==", "<", ">", "+", "-", "!", "&&"}

\* The token a word is, and the line that words are.
Token(w) ==
  [ k |-> IF w \in DOMAIN Numbers THEN "INT"
          ELSE IF w \in DOMAIN Texts THEN "STR"
          ELSE IF w \in DOMAIN MCPaths THEN "PATH"
          ELSE IF w \in Marks THEN w
          ELSE IF w \in DOMAIN keywords THEN keywords[w] ELSE "IDENT",
    s |-> IF w \in DOMAIN Texts THEN Texts[w] ELSE w,
    n |-> IF w \in DOMAIN Numbers THEN Numbers[w] ELSE 0 ]
Line(ws) == Append([i \in DOMAIN ws |-> Token(ws[i])], [k |-> "EOF", s |-> "", n |-> 0])

MCGlobals   == {"g", "r"}
MCFunctions == {"f", "h", "u"}
MCPlainLines ==
  { Line(<<"g", "=", "1">>),
    Line(<<"r", "=", "f", "(", "2", ")">>),
    Line(<<"r", "=", "f", "(", "5", ")">>),
    Line(<<"h", "(", ")">>),
    Line(<<"r", "=", "u", "(", "7", "3", ")", "+", "u", "(", "0", ")">>),
    \* f sets the global g when there is one, and else a local of its own
    Line(<<"fn", "f", "(", "n", ")", "{", "x", "=", "n", "NL", "g", "=", "g", "+", "x", "NL",
           "if", "x", ">", "3", "{", "break", "}", "NL", "ret", "x", "}">>),
    Line(<<"fn", "f", "(", "n", ")", "{", "g", "=", "n", "NL", "if", "n", "<", "1",
           "{", "ret", "0", "}", "NL", "r", "=", "f", "(", "n", "-", "1", ")", "NL",
           "ret", "n", "+", "r", "}">>),
    \* h fails in its loop when there is no g, and ends in another directory
    Line(<<"fn", "h", "(", ")", "{", "loop", "{", "g", "=", "g", "+", "1", "NL",
           "if", "g", ">", "3", "{", "break", "}", "NL", "cont", "}", "NL",
           "r", "=", "g", "NL", "cd", "/env", "}">>),
    \* u has parameters named as globals, and calls f
    Line(<<"fn", "u", "(", "g", "r", ")", "{", "g", "=", "g", "+", "1", "NL",
           "f", "(", "r", ")", "NL", "ret", "g", "}">>) }

MCOtherLines ==
  { Line(<<"a", "[", "1", "]", "=", "5">>),
    Line(<<"a", "[", "0", "]", "=", "b">>),
    Line(<<"b", "=", "a">>),
    Line(<<"del", "a", "[", "0", "]">>),
    Line(<<"a", "=", "3">>),
    Line(<<"b", "=", "mk", "(", "a", ")">>),
    Line(<<"b", "[", "0", "]", "=", "nope">>),
    Line(<<"fn", "mk", "(", "e", ")", "{", "v", "=", "arr_create_anon", "(", ")", "NL",
           "arr_ins", "(", "v", "0", "e", ")", "NL", "ret", "v", "}">>),
    Line(<<"reg", "/env/k", "=", "b">>),
    Line(<<"sendmessage", "/env/k", "b">>),
    Line(<<"b", "=", "receivemessage", "/env/k">>),
    Line(<<"ptr", "/env/p", "=", "/env/k">>),
    Line(<<"b", "=", "deref", "/env/p">>),
    Line(<<"reg_set", "(", "'/env/k", "reg", "/env/k", "==", "nil", ")">>),
    Line(<<"reg_del", "(", "'/env/k", ")">>),
    Line(<<"arr_del", "(", "b", "0", ")">>) }

\* Lines that put an array behind another item, delete that item, and write
\* the place the array had.
MCSlotLines ==
  { Line(<<"b", "=", "arr_create_anon", "(", ")">>),
    Line(<<"a", "[", "1", "]", "=", "b">>),
    Line(<<"arr_del", "(", "a", "0", ")">>),
    Line(<<"a", "[", "1", "]", "=", "5">>),
    Line(<<"b", "=", "3">>) }
=============================================================================
