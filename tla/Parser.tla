------------------------------- MODULE Parser -------------------------------
(***************************************************************************)
(* The recursive-descent parser of the NEXS language (src/lang/parser.c).  *)
(* A parser p is the tokens it has not read, the current one first, and    *)
(* its status; every parse_* operator returns the parser it leaves, .p,    *)
(* and the tree it built, .n, which is NULL where the code returns NULL.   *)
(*                                                                         *)
(* A tree is a record of its kind, its text (a name, a path or an          *)
(* operator), its number and its children.  The two spellings of and, or   *)
(* and not are one kind of token, as the code treats them alike.  Status   *)
(* "hang" stands for a loop of the parser that no longer reads tokens.     *)
(***************************************************************************)
EXTENDS Lexer

CONSTANT MAX_PARAMS    \* parameters of a function, arguments of a call

Node(k, s, c) == [k |-> k, s |-> s, n |-> 0, c |-> c]
Leaf(t)       == [k |-> t.k, s |-> t.s, n |-> t.n, c |-> << >>]
NULL          == Node("NULL", "", << >>)

Cur(p)     == Head(p.toks)
Has(p, k)  == Cur(p).k = k
parser_advance(p) == [p EXCEPT !.toks = Tail(@)]
Fail(p)    == IF p.st = "ok" THEN [p EXCEPT !.st = "error"] ELSE p
Result(p, n) == [p |-> p, n |-> n]
Rejected(p)  == Result(Fail(p), NULL)

\* parser_expect, for the places that only need to know it was there.
parser_expect(p, k) == IF Has(p, k) THEN parser_advance(p) ELSE Fail(p)

parser_skip_newlines(p) ==
  LET i == CHOOSE j \in DOMAIN p.toks :
             /\ p.toks[j].k # "NL"
             /\ \A l \in 1 .. j - 1 : p.toks[l].k = "NL"
  IN  [p EXCEPT !.toks = SubSeq(@, i, Len(@))]

SkipComma(p) == IF Has(p, ",") THEN parser_advance(p) ELSE p

\* A slash alone is scanned as a path, and divides as the slash does.
binop_prec(t) ==
  CASE t.k = "||"                           -> 1
    [] t.k = "&&"                           -> 2
    [] t.k \in {"==", "!="}                 -> 3
    [] t.k \in {"<", ">", "<=", ">="}       -> 4
    [] t.k \in {"+", "-"}                   -> 5
    [] t.k \in {"*", "/", "%"}              -> 6
    [] t.k = "PATH" /\ t.s = "/"            -> 6
    [] OTHER                                -> 0
binop_name(t) == IF t.k = "PATH" THEN "/" ELSE t.k

\* A keyword followed by a path.
PathNode(p, kind) ==
  IF Has(p, "PATH") THEN Result(parser_advance(p), Node(kind, Cur(p).s, << >>))
                    ELSE Rejected(p)

RECURSIVE parse(_, _, _), Climb(_, _), CallArgs(_, _), MessageArgs(_, _),
          Statements(_, _), Params(_, _)

\* parse_binop and parse_primary refer to each other, and parse_stmt to
\* itself, through parse.
parse_expr(p) == parse("binop", 1, p)

\* Mutants: every call reads its arguments as message calls do; operators
\* of one level group to the right; ret looks for a value on the next line.
CallArgs_unchecked(p, ns) == MessageArgs(p, ns)
Climb_to_the_right(e, min) ==
  LET op == Cur(e.p) IN
  IF binop_prec(op) < min THEN e
  ELSE LET r == parse("binop", binop_prec(op), parser_advance(e.p)) IN
       IF r.n = NULL THEN Result(r.p, e.n)
       ELSE Climb(Result(r.p, Node("binop", binop_name(op), <<e.n, r.n>>)), min)
RetStmt_next_line(p) ==
  LET e == IF Cur(p).k \in {"}", "EOF"} THEN Result(p, NULL)
           ELSE parse_expr(p)
  IN  Result(e.p, Node("ret", "", <<e.n>>))


\* The arguments of a call: the loop ends at the first that has no tree.
\* Arguments beyond MAX_PARAMS are read and left out.
CallArgs(p, ns) ==
  IF Cur(p).k \in {")", "EOF"} \/ p.st # "ok" THEN [p |-> p, ns |-> ns]
  ELSE LET e == parse_expr(p) IN
       IF e.n = NULL THEN [p |-> e.p, ns |-> ns]
       ELSE CallArgs(SkipComma(e.p),
                     IF Len(ns) < MAX_PARAMS THEN Append(ns, e.n) ELSE ns)

\* The arguments of sendmessage(..), receivemessage(..), msgpending(..) and
\* of ls(..) in an expression: the loop looks at no error, and once
\* MAX_PARAMS arguments are taken it reads nothing but commas.
MessageArgs(p, ns) ==
  IF Cur(p).k \in {")", "EOF"} THEN [p |-> p, ns |-> ns]
  ELSE IF Len(ns) < MAX_PARAMS
  THEN LET e == parse_expr(p) IN MessageArgs(SkipComma(e.p), Append(ns, e.n))
  ELSE IF Has(p, ",") THEN MessageArgs(parser_advance(p), ns)
  ELSE [p |-> [toks |-> <<Last(p.toks)>>, st |-> "hang"], ns |-> ns]

\* The call once its arguments are read.
Call(name, args) ==
  IF Has(args.p, ")")
  THEN Result(parser_advance(args.p), Node("call", name, args.ns))
  ELSE Rejected(args.p)

\* receivemessage and msgpending, as a statement or in an expression.
MessageRead(p) ==
  LET t == Cur(p)
      q == parser_advance(p)
  IN  IF Has(q, "(") THEN Call(t.k, MessageArgs(parser_advance(q), << >>))
      ELSE PathNode(q, t.k)

\* name[..] and name(..) in an expression, or the name alone.
Named(p) ==
  LET t == Cur(p)
      q == parser_advance(p)
  IN  IF Has(q, "[")
      THEN LET e == parse_expr(parser_advance(q)) IN
           IF e.n = NULL THEN e
           ELSE IF Has(e.p, "]")
           THEN Result(parser_advance(e.p), Node("index", t.s, <<e.n>>))
           ELSE Rejected(e.p)
      ELSE IF Has(q, "(") THEN Call(t.s, CallArgs(parser_advance(q), << >>))
      ELSE Result(q, Leaf(t))

parse_primary(p) ==
  LET t == Cur(p)
      q == parser_advance(p)
  IN  CASE t.k \in {"INT", "FLOAT", "STR", "true", "false", "nil", "pwd"}
             -> Result(q, Leaf(t))
        [] t.k = "ls"
             -> IF Has(q, "(")
                THEN Call("ls", MessageArgs(parser_advance(q), << >>))
                ELSE Result(q, Node("ls", "/", << >>))
        [] t.k = "IDENT" -> Named(p)
        [] t.k = "reg"
             -> IF Has(q, "PATH") THEN PathNode(q, "reg") ELSE Result(q, NULL)
        [] t.k = "PATH"  -> PathNode(p, "reg")
        [] t.k = "("
             -> LET e == parse_expr(q)
                IN  Result(parser_expect(e.p, ")"), e.n)
        [] t.k = "!"
             -> LET e == parse("primary", 0, q)
                IN  Result(e.p, Node("unop", "!", <<e.n>>))
        [] t.k \in {"receivemessage", "msgpending"} -> MessageRead(p)
        [] t.k = "deref" -> PathNode(q, "deref")
        [] OTHER         -> Rejected(p)

\* Precedence climbing: the operators of at least min that follow e.n.
\* An operator whose right operand has no tree is dropped.
Climb(e, min) ==
  LET op == Cur(e.p) IN
  IF binop_prec(op) < min THEN e
  ELSE LET r == parse("binop", binop_prec(op) + 1, parser_advance(e.p)) IN
       IF r.n = NULL THEN Result(r.p, e.n)
       ELSE Climb(Result(r.p, Node("binop", binop_name(op), <<e.n, r.n>>)), min)

parse_binop(p, min) ==
  LET left == parse("primary", 0, p) IN
  IF left.n = NULL THEN left ELSE Climb(left, min)

\* The statements of a block: nothing need end one but the next.
Statements(p, ns) ==
  IF Cur(p).k \in {"}", "EOF"} \/ p.st # "ok" THEN [p |-> p, ns |-> ns]
  ELSE LET e == parse("stmt", 0, p) IN
       Statements(parser_skip_newlines(e.p),
                  IF e.n = NULL THEN ns ELSE Append(ns, e.n))

parse_block(p) ==
  IF ~ Has(p, "{") THEN Rejected(p)
  ELSE LET body == Statements(parser_skip_newlines(parser_advance(p)), << >>)
       IN  Result(parser_expect(body.p, "}"), Node("block", "", body.ns))

\* The names between the parentheses of a declaration.
Params(p, ns) ==
  IF Has(p, "IDENT") /\ Len(ns) < MAX_PARAMS
  THEN Params(SkipComma(parser_advance(p)), Append(ns, Leaf(Cur(p))))
  ELSE [p |-> p, ns |-> ns]

\* fn name(params) { body }
FnDecl(p) ==
  LET q == parser_advance(p) IN
  IF Cur(p).k \notin {"IDENT", "ls"} \/ ~ Has(q, "(")
  THEN Rejected(IF Cur(p).k \in {"IDENT", "ls"} THEN q ELSE p)
  ELSE LET ps == Params(parser_advance(q), << >>) IN
       IF ~ Has(ps.p, ")") THEN Rejected(ps.p)
       ELSE LET body == parse_block(parser_advance(ps.p))
            IN  Result(body.p, Node("fn", Cur(p).s,
                                    <<Node("params", "", ps.ns), body.n>>))

\* if cond { .. } [else { .. } | else if ..].  The newlines after the first
\* block are read to look for the else, whether there is one or not.  One
\* operator for each part that is read.
ElsePart(q) ==
  IF ~ Has(q, "else") THEN Result(q, NULL)
  ELSE IF Has(parser_advance(q), "if") THEN parse("stmt", 0, parser_advance(q))
  ELSE parse_block(parser_advance(q))
Conditional(cond, then, els) == Result(els.p, Node("if", "", <<cond.n, then.n, els.n>>))
Branches(cond, then) == Conditional(cond, then, ElsePart(parser_skip_newlines(then.p)))
IfCondition(cond)    == Branches(cond, parse_block(cond.p))
IfStmt(p)            == IfCondition(parse_expr(p))

RetStmt(p) ==
  LET e == IF Cur(p).k \in {"NL", "}", "EOF"} THEN Result(p, NULL)
           ELSE parse_expr(p)
  IN  Result(e.p, Node("ret", "", <<e.n>>))

\* del name[..]
DelStmt(p) ==
  LET q == parser_advance(p) IN
  IF ~ Has(p, "IDENT") THEN Rejected(p)
  ELSE IF ~ Has(q, "[") THEN Rejected(q)
  ELSE LET e == parse_expr(parser_advance(q)) IN
       IF Has(e.p, "]")
       THEN Result(parser_advance(e.p), Node("del", Cur(p).s, <<e.n>>))
       ELSE Rejected(e.p)

LsStmt(p) ==
  IF Has(p, "(") THEN Call("ls", CallArgs(parser_advance(p), << >>))
  ELSE IF Cur(p).k \in {"PATH", "STR", "IDENT"}
  THEN Result(parser_advance(p), Node("ls", Cur(p).s, << >>))
  ELSE Result(p, Node("ls", "", << >>))

CdStmt(p) ==
  IF Cur(p).k \in {"PATH", "STR", "IDENT"}
  THEN Result(parser_advance(p), Node("cd", Cur(p).s, << >>))
  ELSE LET e == parse_expr(p) IN Result(e.p, Node("cd", "", <<e.n>>))

\* reg /path and reg /path = expr
RegStmt(p) ==
  LET q == parser_advance(p) IN
  IF ~ Has(p, "PATH") THEN Rejected(p)
  ELSE IF ~ Has(q, "=") THEN PathNode(p, "reg")
  ELSE LET e == parse_expr(parser_advance(q))
       IN  Result(e.p, Node("regset", Cur(p).s, <<e.n>>))

\* sendmessage /path expr and sendmessage(path, expr)
SendStmt(p) ==
  IF Has(p, "(") THEN Call("sendmessage", MessageArgs(parser_advance(p), << >>))
  ELSE IF ~ Has(p, "PATH") THEN Rejected(p)
  ELSE LET e == parse_expr(parser_advance(p))
       IN  Result(e.p, Node("sendmessage", Cur(p).s, <<e.n>>))

\* ptr /path = /target
PtrStmt(p) ==
  LET q == parser_advance(p)
      r == parser_advance(q)
  IN  IF ~ Has(p, "PATH") THEN Rejected(p)
      ELSE IF ~ Has(q, "=") THEN Rejected(q)
      ELSE LET target == PathNode(r, "reg") IN
           IF target.n = NULL THEN target
           ELSE Result(target.p, Node("ptr", Cur(p).s, <<target.n>>))

\* name = expr, name[..] = expr, name[..], name(..) or name: nothing that
\* follows is read as the rest of an expression.
NameStmt(p) ==
  LET t == Cur(p)
      q == parser_advance(p)
  IN  IF Has(q, "[")
      THEN LET idx == parse_expr(parser_advance(q))
               r   == parser_advance(idx.p)
           IN  IF ~ Has(idx.p, "]") THEN Rejected(idx.p)
               ELSE IF ~ Has(r, "=") THEN Result(r, Node("index", t.s, <<idx.n>>))
               ELSE LET e == parse_expr(parser_advance(r))
                    IN  Result(e.p, Node("indexset", t.s, <<idx.n, e.n>>))
      ELSE IF Has(q, "=")
      THEN LET e == parse_expr(parser_advance(q))
           IN  Result(e.p, Node("assign", t.s, <<e.n>>))
      ELSE Named(p)

parse_stmt(p0) ==
  LET p == parser_skip_newlines(p0)
      k == Cur(p).k
      q == parser_advance(p)
  IN  CASE k = "fn"    -> FnDecl(q)
        [] k = "if"    -> IfStmt(q)
        [] k = "loop"  -> LET b == parse_block(q)
                          IN  Result(b.p, Node("loop", "", <<b.n>>))
        [] k \in {"break", "cont", "pwd"} -> Result(q, Leaf(Cur(p)))
        [] k = "ret"   -> RetStmt(q)
        [] k = "out"   -> LET e == parse_expr(q)
                          IN  Result(e.p, Node("out", "", <<e.n>>))
        [] k = "del"   -> DelStmt(q)
        [] k = "ls"    -> LsStmt(q)
        [] k = "cd"    -> CdStmt(q)
        [] k = "reg"   -> RegStmt(q)
        [] k = "sendmessage" -> SendStmt(q)
        [] k \in {"receivemessage", "msgpending"} -> MessageRead(p)
        [] k = "ptr"   -> PtrStmt(q)
        [] k = "deref" -> PathNode(q, "deref")
        [] k = "IDENT" -> NameStmt(p)
        [] OTHER       -> parse_expr(p)

\* The rules that refer to each other.
parse(rule, min, p) ==
  CASE rule = "stmt"    -> parse_stmt(p)
    [] rule = "binop"   -> parse_binop(p, min)
    [] rule = "primary" -> parse_primary(p)

\* The statements of a program, each of which must end its line.
RECURSIVE Lines(_, _), LineEnd(_, _)
Lines(p, ns) ==
  IF Has(p, "EOF") \/ p.st # "ok" THEN [p |-> p, ns |-> ns]
  ELSE LineEnd(parse("stmt", 0, p), ns)

LineEnd(e, ns) ==
  Lines(parser_skip_newlines(IF e.n # NULL /\ Cur(e.p).k \notin {"NL", "EOF", "}"}
                             THEN Fail(e.p) ELSE e.p),
        IF e.n = NULL THEN ns ELSE Append(ns, e.n))

ProgramOf(r) == [st |-> r.p.st, left |-> r.p.toks, n |-> Node("program", "", r.ns)]
parse_program(toks) ==
  ProgramOf(Lines(parser_skip_newlines([toks |-> toks, st |-> "ok"]), << >>))
=============================================================================
