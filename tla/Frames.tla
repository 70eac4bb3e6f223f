------------------------------- MODULE Frames -------------------------------
(***************************************************************************)
(* What a user of the NEXS language is promised of variables and calls,    *)
(* with no registry in sight: there are global variables and, in a call,   *)
(* the local ones of that call; a name is the local variable if there is   *)
(* one and else the global one; an assignment to a name that is neither    *)
(* makes a variable, local in a call and global outside.  The parameters   *)
(* are local, a call ends with its locals forgotten, and a declaration     *)
(* replaces the function of its name.  Arrays and the registry are not     *)
(* part of it.                                                             *)
(***************************************************************************)
EXTENDS Parser, Values

CONSTANTS MAX_CALL_DEPTH,
          Inputs     \* the lines a user may type, as tokens

VARIABLES env,    \* the global variables: a function from names to values
          funs    \* the functions: from names to parameters and body

None == [x \in {} |-> x]
At(s, sig, v) == [s |-> s, sig |-> sig, v |-> v]
Done(s, v)    == At(s, "none", v)
After(a, k(_, _)) == IF a.sig = "none" THEN k(a.s, a.v) ELSE a

Set(f, x, v) == (x :> v) @@ f

\* A name inside a call, or outside when s.depth is 0.
Get(s, x) == IF x \in DOMAIN s.locals THEN Done(s, s.locals[x])
             ELSE IF x \in DOMAIN s.env THEN Done(s, s.env[x])
             ELSE At(s, "err", val_nil)
Put(s, x, v) ==
  IF x \in DOMAIN s.locals \/ (s.depth > 0 /\ x \notin DOMAIN s.env)
  THEN [s EXCEPT !.locals = Set(@, x, v)]
  ELSE [s EXCEPT !.env = Set(@, x, v)]

RECURSIVE Meaning(_, _), Block(_, _, _), Arguments(_, _, _), Repeat(_, _)

\* A call: its locals are its parameters, then those of the caller again.
Enter(s, f, args) ==
  LET locals == [x \in {f.params[i].s : i \in DOMAIN f.params} |->
                   LET i == CHOOSE j \in DOMAIN f.params : f.params[j].s = x
                   IN  IF i <= Len(args) THEN args[i] ELSE val_nil]
      r == Block([s EXCEPT !.locals = locals, !.depth = @ + 1], f.body.c, val_nil)
      back == [r.s EXCEPT !.locals = s.locals, !.depth = s.depth]
  IN  CASE r.sig = "err" -> At(back, "err", val_nil)
        [] r.sig = "ret" -> Done(back, r.v)
        [] OTHER         -> Done(back, val_nil)

Meaning(s, n) ==
  LET sub(i) == Meaning(s, n.c[i]) IN
  CASE n.k = "INT"    -> Done(s, val_int(n.n))
    [] n.k = "STR"    -> Done(s, val_str(n.s))
    [] n.k \in {"true", "false"} -> Done(s, val_bool(n.k = "true"))
    [] n.k = "IDENT"  -> Get(s, n.s)
    [] n.k = "binop"  -> After(sub(1), LAMBDA t, a :
                           After(Meaning(t, n.c[2]), LAMBDA u, b :
                             Done(u, Binop(n.s, a, b))))
    [] n.k = "unop"   -> After(sub(1), LAMBDA t, a : Done(t, val_not(a)))
    [] n.k = "assign" -> After(sub(1), LAMBDA t, a : Done(Put(t, n.s, a), a))
    [] n.k = "fn"     -> Done([s EXCEPT !.funs =
                           Set(@, n.s, [params |-> n.c[1].c, body |-> n.c[2]])], val_nil)
    [] n.k = "call"   -> LET a == Arguments(s, n.c, << >>) IN
                         IF a.sig # "none" THEN At(a.s, a.sig, val_nil)
                         ELSE IF n.s \notin DOMAIN a.s.funs \/ a.s.depth >= MAX_CALL_DEPTH
                         THEN At(a.s, "err", val_nil)
                         ELSE Enter(a.s, a.s.funs[n.s], a.v)
    [] n.k = "if"     -> After(sub(1), LAMBDA t, a :
                           Meaning(t, n.c[IF val_is_truthy(a) THEN 2 ELSE 3]))
    [] n.k = "loop"   -> Repeat(s, n.c[1])
    [] n.k \in {"break", "cont"} -> At(s, n.k, val_nil)
    [] n.k = "ret"    -> After(sub(1), LAMBDA t, a : At(t, "ret", a))
    [] n.k \in {"program", "block"} -> Block(s, n.c, val_nil)
    [] OTHER          -> Done(s, val_nil)

Block(s, ns, last) ==
  IF ns = << >> THEN Done(s, last)
  ELSE After(Meaning(s, Head(ns)), LAMBDA t, a : Block(t, Tail(ns), a))

Arguments(s, ns, vs) ==
  IF ns = << >> THEN Done(s, vs)
  ELSE After(Meaning(s, Head(ns)), LAMBDA t, a : Arguments(t, Tail(ns), Append(vs, a)))

Repeat(s, body) ==
  LET r == Meaning(s, body) IN
  CASE r.sig = "break"         -> Done(r.s, val_nil)
    [] r.sig \in {"ret", "err"} -> r
    [] OTHER                   -> Repeat(r.s, body)

Init == env = None /\ funs = None

Line(toks) ==
  LET r == Meaning([env |-> env, funs |-> funs, locals |-> None, depth |-> 0],
                   parse_program(toks).n)
  IN  env' = r.s.env /\ funs' = r.s.funs

Next == \E toks \in Inputs : Line(toks)

Spec == Init /\ [][Next]_<<env, funs>>
=============================================================================
