------------------------------ MODULE MCSyntax ------------------------------
(* Small alphabets and vocabularies for the front end. *)
EXTENDS Syntax

MCLetters == {"a", "f", "n", "r", "e", "t", "i", "l", "s", "o", "p", "u"}
MCDigits  == [d \in {"0", "1"} |-> IF d = "0" THEN 0 ELSE 1]
MCChars   == {"n", "0", "1", "-", "/", "\"", "\\", " ", "\n", "#", "=", "&", "."}

a     == <<"a">>
lpar  == <<"(">>
rpar  == <<")">>
lbr   == <<"{">>
rbr   == <<"}">>
plus  == <<"+">>
slash == <<"/">>
equal == <<"=", "=">>
set   == <<"=">>
nl    == <<"\n">>
if    == <<"i", "f">>
else  == <<"e", "l", "s", "e">>
fn    == <<"f", "n">>
ret   == <<"r", "e", "t">>
out   == <<"o", "u", "t">>
ls    == <<"l", "s">>

\* Each first word leads into one part of the grammar.
MCWords ==
  [ w \in {out, lpar, a, if, fn, nl} |->
      CASE w = out  -> {a, plus, slash, equal, lpar, rpar, <<"!">>, ls}
        [] w = lpar -> {a, plus, equal, rpar, nl}
        [] w = a    -> {a, <<"1">>, set, lpar, rpar, <<"[">>, <<"]">>, nl, plus}
        [] w = if   -> {a, lbr, rbr, nl, else, if}
        [] w = fn   -> {a, lpar, rpar, lbr, rbr, ret, nl, plus}
        [] w = nl   -> {out, a, nl, rbr, ret} ]
=============================================================================
