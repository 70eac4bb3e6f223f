------------------------------ MODULE Strings ------------------------------
(***************************************************************************)
(* The builtins that work on strings (src/lang/builtins.c).  A string is   *)
(* the sequence of its characters, no longer than the buffers (MAX_STR_LEN *)
(* characters) the code copies it through.                                 *)
(***************************************************************************)
EXTENDS Integers, Sequences, SequencesExt

Spaces == {" ", "\t", "\n", "\r"}

\* strstr: where sub begins in s, 0 when it does not.
strstr(s, sub) ==
  LET at == {i \in 1 .. Len(s) - Len(sub) + 1 :
               SubSeq(s, i, i + Len(sub) - 1) = sub}
  IN  IF at = {} THEN 0 ELSE CHOOSE i \in at : \A j \in at : i <= j

From(s, i) == SubSeq(s, i, Len(s))

\* substr: a negative start counts from the end, and both are clamped.
builtin_substr(s, start, count) ==
  LET from == IF start >= 0 THEN start
              ELSE IF Len(s) + start < 0 THEN 0 ELSE Len(s) + start
  IN  SubSeq(s, from + 1, IF count > Len(s) - from THEN Len(s) ELSE from + count)

builtin_contains(s, sub) == strstr(s, sub) # 0

RECURSIVE builtin_trim(_)
builtin_trim(s) == IF s # << >> /\ Head(s) \in Spaces THEN builtin_trim(Tail(s))
                   ELSE IF s # << >> /\ Last(s) \in Spaces THEN builtin_trim(Front(s))
                   ELSE s

\* Mutant: what is left is a piece only when it is not empty.
RECURSIVE builtin_split_no_empty_end(_, _)
builtin_split_no_empty_end(s, sep) ==
  LET i == strstr(s, sep) IN
  IF s = << >> THEN << >>
  ELSE IF i = 0 THEN <<s>>
  ELSE <<SubSeq(s, 1, i - 1)>> \o builtin_split_no_empty_end(From(s, i + Len(sep)), sep)

\* split: the pieces between separators, the empty ones too; one for each
\* character when the separator is empty.
RECURSIVE builtin_split(_, _)
builtin_split(s, sep) ==
  LET i == strstr(s, sep) IN
  IF sep = << >> THEN [k \in DOMAIN s |-> <<s[k]>>]
  ELSE IF i = 0 THEN <<s>>
  ELSE <<SubSeq(s, 1, i - 1)>> \o builtin_split(From(s, i + Len(sep)), sep)

\* replace: the first place only, as the comment of the function says; the
\* README says "Replace all occurrences".
builtin_replace(s, old, new) ==
  LET i == strstr(s, old) IN
  IF old = << >> \/ i = 0 THEN s
  ELSE SubSeq(s, 1, i - 1) \o new \o From(s, i + Len(old))

\* lines_of: the lines, without an empty one after the last newline.
RECURSIVE builtin_lines_of(_)
builtin_lines_of(s) ==
  LET i == strstr(s, <<"\n">>) IN
  IF s = << >> THEN << >>
  ELSE IF i = 0 THEN <<s>>
  ELSE <<SubSeq(s, 1, i - 1)>> \o builtin_lines_of(From(s, i + 1))

\* arr_join
builtin_arr_join(pieces, sep) ==
  IF pieces = << >> THEN << >>
  ELSE Head(pieces) \o FlattenSeq([i \in 1 .. Len(pieces) - 1 |-> sep \o pieces[i + 1]])
=============================================================================
