------------------------------- MODULE Values -------------------------------
(***************************************************************************)
(* The values of the NEXS language and their operators                     *)
(* (src/core/value.c).  A value is its type, a number (an integer, a truth *)
(* value, the identity of an array or the index of a function) and a text  *)
(* (a string, a message or a registry path).  Floating point is left out,  *)
(* integers stay far from 64 bits, and no text used as a number starts     *)
(* with a digit.                                                           *)
(***************************************************************************)
EXTENDS Integers, Sequences, TLC

Value(t, n, s) == [t |-> t, n |-> n, s |-> s]
val_nil     == Value("nil", 0, "")
val_int(n)  == Value("int", n, "")
val_bool(b) == Value("bool", IF b THEN 1 ELSE 0, "")
val_str(s)  == Value("str", 0, s)
val_arr(id) == Value("arr", id, "")
val_fn_idx(i) == Value("fn", i, "")
val_ptr(s)  == Value("ptr", 0, s)
val_err(s)  == Value("err", 0, s)

val_is_truthy(v) ==
  CASE v.t \in {"nil", "err"}  -> FALSE
    [] v.t \in {"bool", "int"} -> v.n # 0
    [] v.t = "str"             -> v.s # ""
    [] OTHER                   -> TRUE

\* Arrays, functions and errors equal nothing, themselves included.
val_equal(a, b) == a.t = b.t /\ a.t \notin {"arr", "fn", "err"} /\ a = b

val_to_int(v) == IF v.t \in {"int", "bool"} THEN v.n ELSE 0

\* The text of an operand of a concatenation.
Concatenated(v) ==
  CASE v.t = "str"  -> v.s
    [] v.t = "int"  -> ToString(v.n)
    [] v.t = "bool" -> IF v.n = 1 THEN "true" ELSE "false"
    [] v.t = "nil"  -> "nil"
    [] OTHER        -> "<" \o v.t \o ">"

\* Division truncates toward zero, and the remainder has the sign of a.
Magnitude(n)   == IF n < 0 THEN -n ELSE n
Quotient(a, b) == LET q == Magnitude(a) \div Magnitude(b)
                  IN  IF (a < 0) = (b < 0) THEN q ELSE -q

val_add(a, b) == IF "str" \in {a.t, b.t}
                 THEN val_str(Concatenated(a) \o Concatenated(b))
                 ELSE val_int(val_to_int(a) + val_to_int(b))
val_div(a, b) == IF val_to_int(b) = 0 THEN val_err("division by zero")
                 ELSE val_int(Quotient(val_to_int(a), val_to_int(b)))
val_mod(a, b) == LET m == val_to_int(a)
                     d == val_to_int(b)
                 IN  IF d = 0 THEN val_err("modulo by zero")
                     ELSE val_int(m - d * Quotient(m, d))

\* The value of a binary operator; both operands are always evaluated.
Binop(op, a, b) ==
  LET m == val_to_int(a)
      n == val_to_int(b)
  IN  CASE op = "+"  -> val_add(a, b)
        [] op = "-"  -> val_int(m - n)
        [] op = "*"  -> val_int(m * n)
        [] op = "/"  -> val_div(a, b)
        [] op = "%"  -> val_mod(a, b)
        [] op = "==" -> val_bool(val_equal(a, b))
        [] op = "!=" -> val_bool(~ val_equal(a, b))
        [] op = "<"  -> val_bool(m < n)
        [] op = ">"  -> val_bool(m > n)
        [] op = "<=" -> val_bool(m <= n)
        [] op = ">=" -> val_bool(m >= n)
        [] op = "&&" -> val_bool(val_is_truthy(a) /\ val_is_truthy(b))
        [] op = "||" -> val_bool(val_is_truthy(a) \/ val_is_truthy(b))

val_not(v) == val_bool(~ val_is_truthy(v))
=============================================================================
