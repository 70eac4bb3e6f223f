-------------------------------- MODULE Eval --------------------------------
(***************************************************************************)
(* The tree-walking evaluator (src/lang/eval.c) with its table of          *)
(* functions (src/lang/fn_table.c), the arrays and their reference counts  *)
(* (src/core/dynarray.c, val_free and val_clone of src/core/value.c) and   *)
(* the part of the registry it keeps its variables in: a variable is the   *)
(* key of its name under the scope of the call.                            *)
(*                                                                         *)
(* The interpreter is a record st: reg, a function from registry paths to  *)
(* values; queues, the messages waiting at its keys; arrs, the allocated   *)
(* arrays; named, the arrays known by name; fns, the table of functions;   *)
(* scope, the current directory; depth, the calls running; ctr, the scopes *)
(* made so far; and tree, taken: the tree being evaluated (0 for the       *)
(* program itself, else the function whose body it is) and the             *)
(* declarations of it whose body the table has taken over.  An evaluation  *)
(* returns the interpreter, a signal and a value, which is a reference of  *)
(* its own when it is an array.                                            *)
(*                                                                         *)
(* Left out: what is printed, queues that are pipes (RegIpc), the access   *)
(* rights and mounts of the registry (Registry), and names cut to the      *)
(* buffers.                                                                *)
(***************************************************************************)
EXTENDS Parser, Values, FiniteSets

CONSTANTS MAX_CALL_DEPTH, MAX_FN_DEFS, MSG_QUEUE_SIZE,
          Paths    \* the names of each path text, and whether it is absolute

Ok(st, v)          == [st |-> st, sig |-> "none", v |-> v]
err_result(st, s)  == [st |-> st, sig |-> "err", v |-> val_err(s)]
Signal(st, sig)    == [st |-> st, sig |-> sig, v |-> val_nil]

-----------------------------------------------------------------------------
(* Arrays *)

\* An array is its reference count, its size, and the places of its buffer
\* that were ever written: the items are the first size of them, and what
\* lies behind is what earlier operations left there.
NoArray == 0
Live(st, id)  == id \in DOMAIN st.arrs
Items(st, id) == IF Live(st, id) THEN SubSeq(st.arrs[id].slots, 1, st.arrs[id].size)
                 ELSE << >>

\* Place i of a buffer, counted from 0, and the buffer with v in it.
Slot(slots, i)   == IF i < Len(slots) THEN slots[i + 1] ELSE val_nil
Put(slots, i, v) == [j \in 1 .. IF i < Len(slots) THEN Len(slots) ELSE i + 1 |->
                       IF j = i + 1 THEN v ELSE Slot(slots, j - 1)]

\* val_clone: one more reference to an array.
val_clone(st, v) ==
  IF v.t = "arr" /\ Live(st, v.n)
  THEN [st EXCEPT !.arrs[v.n].rc = @ + 1] ELSE st

\* val_free, arr_unref and arr_free: the last reference frees the array and
\* the references its items are.
RECURSIVE val_free(_, _)
val_free(st, v) ==
  IF v.t # "arr" \/ ~ Live(st, v.n) THEN st
  ELSE IF st.arrs[v.n].rc > 1 THEN [st EXCEPT !.arrs[v.n].rc = @ - 1]
  ELSE FoldLeft(val_free,
         [st EXCEPT !.arrs = [id \in DOMAIN @ \ {v.n} |-> @[id]]],
         Items(st, v.n))

\* arr_create_anon: the identity of an array is the least one not in use.
FreshId(st) == CHOOSE id \in 1 .. Cardinality(DOMAIN st.arrs) + 1 :
                 /\ ~ Live(st, id)
                 /\ \A i \in 1 .. id - 1 : Live(st, i)
arr_create(st) == [st EXCEPT !.arrs = FreshId(st) :> [rc |-> 1, size |-> 0, slots |-> << >>] @@ @]

arr_get(st, name) == IF name \in DOMAIN st.named THEN st.named[name] ELSE NoArray
arr_get_or_create(st, name) ==
  IF name \in DOMAIN st.named THEN st
  ELSE [arr_create(st) EXCEPT !.named = name :> FreshId(st) @@ @]

\* arr_set: what lies at the place is freed, an item or not.
arr_set(st, id, i, v) ==
  LET s1 == val_clone(val_free(st, Slot(st.arrs[id].slots, i)), v)
  IN  [s1 EXCEPT !.arrs[id].slots = Put(@, i, v),
                 !.arrs[id].size  = IF i < @ THEN @ ELSE i + 1]

\* arr_delete: the item becomes nil.
arr_delete(st, id, i) ==
  IF i >= Len(Items(st, id)) THEN st
  ELSE [val_free(st, Items(st, id)[i + 1]) EXCEPT !.arrs[id].slots[i + 1] = val_nil]

-----------------------------------------------------------------------------
(* The registry, as far as variables go *)

NoKey == << >>
reg_lookup(st, path) == path \in DOMAIN st.reg
InScope(st, name) == Append(st.scope, name)

\* reg_resolve: the scope and its ancestors, then /fn and /sys.
reg_resolve(st, name) ==
  LET outward == [i \in 1 .. Len(st.scope) + 1 |->
                    Append(SubSeq(st.scope, 1, Len(st.scope) + 1 - i), name)]
      found   == SelectSeq(outward \o << <<"fn", name>>, <<"sys", name>> >>,
                           LAMBDA path : reg_lookup(st, path))
  IN  IF found = << >> THEN NoKey ELSE Head(found)

\* reg_mkpath: the keys on the way are made, and hold nil.
reg_mkpath(st, path) ==
  [st EXCEPT !.reg = [p \in DOMAIN @ \cup {SubSeq(path, 1, i) : i \in 1 .. Len(path)} |->
                        IF p \in DOMAIN @ THEN @[p] ELSE val_nil]]

\* Mutant: the registry keeps the value without counting the reference.
reg_set_uncounted(st, path, v) ==
  LET s1 == reg_mkpath(st, path)
  IN  val_free([s1 EXCEPT !.reg[path] = v], s1.reg[path])

\* reg_set: the new value is cloned before the old one is freed.
reg_set(st, path, v) ==
  LET s1 == val_clone(reg_mkpath(st, path), v)
  IN  val_free([s1 EXCEPT !.reg[path] = v], s1.reg[path])

reg_get(st, path) == IF reg_lookup(st, path) THEN st.reg[path]
                     ELSE val_err("registry key not found")

\* The messages waiting at a key.
Queue(st, path) == IF path \in DOMAIN st.queues THEN st.queues[path] ELSE << >>

\* reg_delete: the key and everything below it, with the messages there.
reg_delete(st, path) ==
  LET gone == {p \in DOMAIN st.reg : IsPrefix(path, p)}
      keys == SetToSeq(gone)
  IN  FoldLeft(val_free,
        [st EXCEPT !.reg    = [p \in DOMAIN @ \ gone |-> @[p]],
                   !.queues = [p \in DOMAIN @ \ gone |-> @[p]]],
        FlattenSeq([i \in DOMAIN keys |-> Append(Queue(st, keys[i]), st.reg[keys[i]])]))

reg_push_scope(st, fn) == <<"local", fn \o "_" \o ToString(st.ctr)>>
reg_pop_scope(st, scope) == reg_delete(st, scope)

\* A path text, from the current directory unless it is absolute.
Target(st, text) == IF Paths[text].abs THEN Paths[text].names
                    ELSE st.scope \o Paths[text].names

ScopeText(st) == IF st.scope = << >> THEN "/"
                 ELSE FoldLeft(LAMBDA text, name : text \o "/" \o name, "", st.scope)

\* reg_get_deref: at most 64 pointers are followed.
RECURSIVE reg_get_deref(_, _, _)
reg_get_deref(st, path, hops) ==
  IF hops = 64 THEN val_err("pointer chain too deep (circular?)")
  ELSE IF ~ reg_lookup(st, path) THEN val_err("reg_get_deref: key not found")
  ELSE IF st.reg[path].t # "ptr" THEN st.reg[path]
  ELSE reg_get_deref(st, Paths[st.reg[path].s].names, hops + 1)

-----------------------------------------------------------------------------
(* Messages *)

\* reg_ipc_send: the key is made if need be, and a full queue takes nothing.
Full(st, path) == Len(Queue(st, path)) >= MSG_QUEUE_SIZE
reg_ipc_send(st, path, v) ==
  IF Full(st, path) THEN st
  ELSE [val_clone(reg_mkpath(st, path), v) EXCEPT
          !.queues = path :> Append(Queue(st, path), v) @@ @]
Sent(st, path) == val_int(IF Full(st, path) THEN -1 ELSE 0)

\* reg_ipc_recv: the first message, which the receiver then owns.
reg_ipc_recv(st, path) ==
  IF Queue(st, path) = << >> THEN Ok(st, val_nil)
  ELSE Ok([st EXCEPT !.queues[path] = Tail(@)], Head(Queue(st, path)))

reg_ipc_pending(st, path) == val_int(Len(Queue(st, path)))

-----------------------------------------------------------------------------
(* The table of functions *)

Entries(st, P(_)) == {i \in DOMAIN st.fns : P(st.fns[i])}
Least(S) == CHOOSE i \in S : \A j \in S : i <= j

\* fn_register: a function of that name is replaced, a builtin is not.
\* The result is the interpreter and the index, 0 when the table is full.
fn_register(st, name, body, params) ==
  LET def  == [name |-> name, builtin |-> FALSE, body |-> body,
               params |-> params, taken |-> {}]
      same == Entries(st, LAMBDA f : f.name = name /\ ~ f.builtin)
  IN  IF same # {}
      THEN [st |-> [st EXCEPT !.fns[Least(same)] = def], idx |-> Least(same)]
      ELSE IF Len(st.fns) >= MAX_FN_DEFS THEN [st |-> st, idx |-> 0]
      ELSE [st |-> [st EXCEPT !.fns = Append(@, def)], idx |-> Len(st.fns) + 1]

\* The function a call of that name runs, 0 when there is none: the first
\* in the table, or the one a variable of that name holds.
fn_lookup(st, name) ==
  LET named == Entries(st, LAMBDA f : f.name = name)
      key   == reg_resolve(st, name)
  IN  IF named # {} THEN Least(named)
      ELSE IF key # NoKey /\ st.reg[key].t = "fn" THEN st.reg[key].n
      ELSE 0

-----------------------------------------------------------------------------
(* Evaluation *)

FreeAll(st, vs) == FoldLeft(val_free, st, vs)

\* The declarations of the tree being evaluated whose body is gone.
Taken(st)   == IF st.tree = 0 THEN st.taken ELSE st.fns[st.tree].taken
Take(st, n) == IF st.tree = 0 THEN [st EXCEPT !.taken = @ \cup {n}]
               ELSE [st EXCEPT !.fns[st.tree].taken = @ \cup {n}]

\* The array an indexed name stands for, NoArray when there is none.
ArrayOf(st, name) ==
  LET key == reg_resolve(st, name) IN
  IF key # NoKey /\ st.reg[key].t = "arr" THEN st.reg[key].n
  ELSE arr_get(st, name)

\* arr_ins: the items from i on move up.  An index beyond the end writes
\* the value there, and the item that is added is whatever lay at the end.
builtin_arr_ins(st, id, i, v) ==
  LET n == st.arrs[id].size IN
  [val_clone(st, v) EXCEPT
     !.arrs[id].size  = n + 1,
     !.arrs[id].slots = IF i > n THEN Put(@, i, v)
                        ELSE InsertAt(SubSeq(@, 1, n), i + 1, v) \o SubSeq(@, n + 2, Len(@))]

\* arr_del: the items after i move down.  The place of the last one keeps
\* its value, uncounted, behind the end.
builtin_arr_del(st, id, i) ==
  LET n == st.arrs[id].size IN
  IF i \notin 0 .. n - 1 THEN st
  ELSE [arr_delete(st, id, i) EXCEPT
          !.arrs[id].size  = n - 1,
          !.arrs[id].slots = [j \in DOMAIN @ |-> IF j \in i + 1 .. n - 1 THEN @[j + 1]
                                                 ELSE @[j]]]

\* What is printed for a value ends unless an array contains itself.
RECURSIVE val_print_ends(_, _, _)
val_print_ends(st, v, within) ==
  v.t = "arr" =>
    /\ v.n \notin within
    /\ \A i \in DOMAIN Items(st, v.n) :
         val_print_ends(st, Items(st, v.n)[i], within \cup {v.n})

builtin_str(v) == IF v.t = "err" THEN v.s ELSE Concatenated(v)
builtin_abs(m)    == IF m < 0 THEN -m ELSE m
builtin_min(m, n) == IF m < n THEN m ELSE n
builtin_max(m, n) == IF m > n THEN m ELSE n

\* The builtins on values alone; one more argument than Arity has is read
\* by none of them.
ValueBuiltins == {"len", "type", "str", "int", "abs", "min", "max", "mkptr"}
Arity(name)   == CASE name \in {"min", "max", "reg_set", "arr_del", "sendmessage"} -> 2
                   [] name = "arr_ins"         -> 3
                   [] name = "arr_create_anon" -> 0
                   [] OTHER                    -> 1
ValueBuiltin(st, name, args) ==
  LET v == args[1]
      m == val_to_int(v)
      n == val_to_int(args[2])
  IN  CASE name = "type" -> val_str(v.t)
        [] name = "str"  -> val_str(builtin_str(v))
        [] name = "int"  -> val_int(m)
        [] name = "abs"  -> val_int(builtin_abs(m))
        [] name = "min"  -> val_int(builtin_min(m, n))
        [] name = "max"  -> val_int(builtin_max(m, n))
        [] name = "mkptr" -> IF v.t = "str" THEN val_ptr(v.s) ELSE val_err(name)
        [] name = "len"  -> CASE v.t = "str" -> val_int(Len(v.s))
                              [] v.t = "arr" -> val_int(Len(Items(st, v.n)))
                              [] v.t = "nil" -> val_int(0)
                              [] OTHER       -> val_err(name)

\* The builtins on arrays, whose first argument is one.
ArrayBuiltins == {"arr_ins", "arr_del"}
ArrayBuiltin(st, name, args) ==
  LET id == args[1].n
      i  == val_to_int(args[2])
  IN  IF args[1].t # "arr" THEN Ok(st, val_err(name))
      ELSE Ok(IF name = "arr_ins" THEN builtin_arr_ins(st, id, i, args[3])
              ELSE builtin_arr_del(st, id, i), val_nil)

\* The builtins on the registry and on the messages at its keys, whose first
\* argument is the text of a path.
RegistryBuiltins == {"reg_get", "reg_set", "reg_del"}
RegistryBuiltin(st, name, path, args) ==
  CASE name = "reg_get" -> Ok(val_clone(st, reg_get(st, path)), reg_get(st, path))
    [] name = "reg_set" -> Ok(reg_set(st, path, args[2]), val_nil)
    [] name = "reg_del" -> Ok(reg_delete(st, path), val_nil)
MessageBuiltin(st, name, path, args) ==
  LET v == reg_get_deref(st, path, 0) IN
  CASE name = "sendmessage"    -> Ok(reg_ipc_send(st, path, args[2]), Sent(st, path))
    [] name = "receivemessage" -> reg_ipc_recv(st, path)
    [] name = "msgpending"     -> Ok(st, reg_ipc_pending(st, path))
    [] name = "deref"          -> Ok(val_clone(st, v), v)

\* A builtin with too few arguments, or others than it takes, returns an
\* error as its value.
Builtin(st, name, args) ==
  IF Len(args) < Arity(name) THEN Ok(st, val_err(name))
  ELSE IF name = "arr_create_anon" THEN Ok(arr_create(st), val_arr(FreshId(st)))
  ELSE IF name \in ValueBuiltins THEN Ok(st, ValueBuiltin(st, name, args))
  ELSE IF name \in ArrayBuiltins THEN ArrayBuiltin(st, name, args)
  ELSE IF args[1].t # "str" THEN Ok(st, val_err(name))
  ELSE LET path == Paths[args[1].s].names IN
       IF name \in RegistryBuiltins THEN RegistryBuiltin(st, name, path, args)
       ELSE MessageBuiltin(st, name, path, args)

RECURSIVE eval_node(_, _), Sequence(_, _, _), EvalArgs(_, _, _), Loop(_, _)

\* Mutant: an error leaves the call without undoing it.
RunBody_error_escapes(st, i, name, args) ==
  LET f     == st.fns[i]
      scope == reg_push_scope(st, name)
      arg(k) == IF k <= Len(args) THEN args[k] ELSE val_nil
      bound == FoldLeft(LAMBDA s, k : reg_set(s, Append(scope, f.params[k].s), arg(k)),
                        reg_set([st EXCEPT !.ctr = @ + 1], scope, val_nil),
                        [k \in DOMAIN f.params |-> k])
      r     == Sequence([bound EXCEPT !.depth = @ + 1, !.scope = scope, !.tree = i],
                        f.body.c, val_nil)
  IN  IF r.sig = "err" THEN r
      ELSE Ok(FreeAll(reg_pop_scope([r.st EXCEPT !.scope = st.scope, !.depth = @ - 1,
                                                 !.tree = st.tree], scope), args),
              IF r.sig = "ret" THEN r.v ELSE val_nil)

\* The body of function i, called as name: parameters without an argument
\* are nil, and whatever ends the body ends at the call, errors excepted.
RunBody(st, i, name, args) ==
  LET f     == st.fns[i]
      scope == reg_push_scope(st, name)
      arg(k) == IF k <= Len(args) THEN args[k] ELSE val_nil
      bound == FoldLeft(LAMBDA s, k : reg_set(s, Append(scope, f.params[k].s), arg(k)),
                        reg_set([st EXCEPT !.ctr = @ + 1], scope, val_nil),
                        [k \in DOMAIN f.params |-> k])
      r     == Sequence([bound EXCEPT !.depth = @ + 1, !.scope = scope, !.tree = i],
                        f.body.c, val_nil)
      back  == [r.st EXCEPT !.scope = st.scope, !.depth = @ - 1, !.tree = st.tree]
      after == FreeAll(reg_pop_scope(back, scope), args)
  IN  CASE r.sig = "ret" -> Ok(after, r.v)
        [] r.sig = "err" -> [r EXCEPT !.st = after]
        [] OTHER         -> Ok(val_free(after, r.v), val_nil)

FnCall(st, name, args) ==
  LET i == fn_lookup(st, name)
      refused(why) == err_result(FreeAll(st, args), why)
  IN  IF i = 0 THEN refused("function not found")
      ELSE IF st.fns[i].builtin
      THEN LET r == Builtin(st, st.fns[i].name, args)
           IN  [r EXCEPT !.st = FreeAll(@, args)]
      ELSE IF st.depth >= MAX_CALL_DEPTH THEN refused("stack overflow")
      ELSE IF st.fns[i].body = NULL THEN refused("empty function body")
      ELSE RunBody(st, i, name, args)

\* fn_table takes the body over: the declaration has none any more.
FnDecl_eval(st, n) ==
  LET body == IF n \in Taken(st) THEN NULL ELSE n.c[2]
      r    == fn_register(Take(st, n), n.s, body, n.c[1].c)
  IN  IF r.idx = 0 THEN err_result(r.st, "fn_register: table full")
      ELSE Ok(reg_set(r.st, <<"fn", n.s>>, val_fn_idx(r.idx)), val_nil)

\* Mutant: an assignment always makes a variable of the current scope.
Assign_in_scope(st, name, v) == Ok(reg_set(st, InScope(st, name), v), v)

\* name = v: the variable that has the name, else a new one in the scope.
Assign(st, name, v) ==
  LET key == reg_resolve(st, name)
  IN  Ok(reg_set(st, IF key # NoKey THEN key ELSE InScope(st, name), v), v)

\* name[i]
Index(st, name, i) ==
  LET id == ArrayOf(st, name) IN
  IF id = NoArray THEN err_result(st, "array not found")
  ELSE IF i < 0 THEN err_result(st, "negative index")
  ELSE IF i >= Len(Items(st, id)) THEN Ok(st, val_err("index out of range"))
  ELSE Ok(val_clone(st, Items(st, id)[i + 1]), Items(st, id)[i + 1])

\* name[i] = v: a name that is no array becomes one of the arrays known by
\* name, which every scope that uses the name shares.
IndexAssign(st, name, i, v) ==
  LET key   == reg_resolve(st, name)
      isarr == key # NoKey /\ st.reg[key].t = "arr"
      made  == arr_get_or_create(st, name)
      s1    == IF isarr THEN st
               ELSE reg_set(made, InScope(st, name), val_arr(made.named[name]))
      id    == IF isarr THEN st.reg[key].n ELSE made.named[name]
  IN  IF i < 0 THEN err_result(val_free(st, v), "negative index")
      ELSE Ok(arr_set(s1, id, i, v), v)

\* The value of n, when a is what its operands evaluated to.
Then(a, k(_, _)) == IF a.sig # "none" THEN a ELSE k(a.st, a.v)

\* The value r once the reference v was freed.
Dropping(st, v, r) == Ok(val_free(st, v), r)

Literal(n) == CASE n.k = "INT" -> val_int(n.n)
                [] n.k = "STR" -> val_str(n.s)
                [] n.k \in {"true", "false"} -> val_bool(n.k = "true")
                [] OTHER       -> val_nil

\* A pair of operands: what the first left is freed if the second ends early.
Both(st, n, k(_, _, _)) ==
  Then(eval_node(st, n.c[1]), LAMBDA s, a :
    LET r == eval_node(s, n.c[2]) IN
    IF r.sig # "none" THEN [r EXCEPT !.st = val_free(@, a)] ELSE k(r.st, a, r.v))

BinaryOp(st, n) ==
  Both(st, n, LAMBDA s, a, b : Ok(FreeAll(s, <<a, b>>), Binop(n.s, a, b)))

Identifier(st, name) ==
  LET key == reg_resolve(st, name) IN
  IF key = NoKey THEN err_result(st, "name not found")
  ELSE Ok(val_clone(st, st.reg[key]), st.reg[key])

\* del name[i]: no array, or a negative index, is no error.
Delete(st, name, v) ==
  LET id == ArrayOf(st, name)
      i  == val_to_int(v)
  IN  Dropping(IF id = NoArray \/ i < 0 THEN st ELSE arr_delete(st, id, i), v, val_nil)

\* out expression, sendmessage path expression, ptr path = target and ret
Out(st, v) == Dropping(st, v, val_nil)
Send(st, path, v) == Dropping(reg_ipc_send(st, path, v), v, Sent(st, path))
reg_set_ptr(st, n) == Ok(reg_set(st, Paths[n.s].names, val_ptr(n.c[1].s)), val_nil)
Return(st, v) == [st |-> st, sig |-> "ret", v |-> v]

\* reg path and deref path
Registered(st, v) == Ok(val_clone(st, v), v)

\* cd path, or cd expression: there is no check that the key exists.
Cd(st, n) ==
  IF n.s # "" THEN Ok([st EXCEPT !.scope = Target(st, n.s)], val_nil)
  ELSE IF n.c = << >> THEN Ok(st, val_nil)
  ELSE Then(eval_node(st, n.c[1]), LAMBDA s, v :
         Dropping([s EXCEPT !.scope = Target(s, IF v.t = "str" THEN v.s ELSE "")],
                  v, val_nil))

CallExpr(st, n) ==
  LET a == EvalArgs(st, n.c, << >>) IN
  IF a.sig # "none" THEN [st |-> a.st, sig |-> a.sig, v |-> a.v]
  ELSE FnCall(a.st, n.s, a.args)

\* Only one of the two branches is evaluated.
IfStmt_eval(st, n) ==
  Then(eval_node(st, n.c[1]), LAMBDA s, c :
    eval_node(val_free(s, c), n.c[IF val_is_truthy(c) THEN 2 ELSE 3]))

\* eval_node
eval_node(st, n) ==
  LET value(k(_, _)) == Then(eval_node(st, n.c[1]), k) IN
  CASE n.k \in {"NULL", "INT", "STR", "true", "false", "nil"} -> Ok(st, Literal(n))
    [] n.k = "binop"    -> BinaryOp(st, n)
    [] n.k = "unop"     -> value(LAMBDA s, a : Dropping(s, a, val_not(a)))
    [] n.k = "IDENT"    -> Identifier(st, n.s)
    [] n.k = "assign"   -> value(LAMBDA s, v : Assign(s, n.s, v))
    [] n.k = "index"    -> value(LAMBDA s, a : Index(val_free(s, a), n.s, val_to_int(a)))
    [] n.k = "indexset" -> Both(st, n, LAMBDA s, a, v :
                             IndexAssign(val_free(s, a), n.s, val_to_int(a), v))
    [] n.k = "del"      -> value(LAMBDA s, a : Delete(s, n.s, a))
    [] n.k = "out"      -> value(LAMBDA s, v : Out(s, v))
    [] n.k = "reg"      -> Registered(st, reg_get(st, Paths[n.s].names))
    [] n.k = "deref"    -> Registered(st, reg_get_deref(st, Paths[n.s].names, 0))
    [] n.k = "regset"   -> value(LAMBDA s, v : Ok(reg_set(s, Paths[n.s].names, v), v))
    [] n.k = "ptr"      -> reg_set_ptr(st, n)
    [] n.k = "sendmessage"    -> value(LAMBDA s, v : Send(s, Paths[n.s].names, v))
    [] n.k = "receivemessage" -> reg_ipc_recv(st, Paths[n.s].names)
    [] n.k = "msgpending"     -> Ok(st, reg_ipc_pending(st, Paths[n.s].names))
    [] n.k = "cd"       -> Cd(st, n)
    [] n.k = "ls"       -> Ok(st, val_nil)
    [] n.k = "pwd"      -> Ok(st, val_str(ScopeText(st)))
    [] n.k = "fn"       -> FnDecl_eval(st, n)
    [] n.k = "call"     -> CallExpr(st, n)
    [] n.k = "if"       -> IfStmt_eval(st, n)
    [] n.k = "loop"     -> Loop(st, n.c[1])
    [] n.k \in {"break", "cont"} -> Signal(st, n.k)
    [] n.k = "ret"      -> value(Return)
    [] n.k \in {"program", "block"} -> Sequence(st, n.c, val_nil)
    [] OTHER            -> err_result(st, "unknown AST node")

\* eval_block: last is the value of the statement before, which is freed
\* after the next one unless that one ends the block.
Sequence(st, ns, last) ==
  IF ns = << >> THEN Ok(st, last)
  ELSE LET r == eval_node(st, Head(ns)) IN
       IF r.sig # "none" THEN r
       ELSE Sequence(val_free(r.st, last), Tail(ns), r.v)

\* The arguments of a call; those before one that ends early are freed.
EvalArgs(st, ns, args) ==
  IF ns = << >> THEN [st |-> st, sig |-> "none", v |-> val_nil, args |-> args]
  ELSE LET r == eval_node(st, Head(ns)) IN
       IF r.sig # "none"
       THEN [st |-> FreeAll(r.st, args), sig |-> r.sig, v |-> r.v, args |-> << >>]
       ELSE EvalArgs(r.st, Tail(ns), Append(args, r.v))

\* loop: cont and the end of the body begin it again.
Loop(st, body) ==
  LET r == eval_node(st, body) IN
  CASE r.sig = "break"         -> Ok(r.st, val_nil)
    [] r.sig \in {"ret", "err"} -> r
    [] OTHER                   -> Loop(val_free(r.st, r.v), body)

\* eval_str: a text the parser rejects changes nothing; once another was
\* evaluated its tree is freed.
eval_str(st, toks) ==
  LET prog == parse_program(toks)
      r    == eval_node([st EXCEPT !.tree = 0, !.taken = {}], prog.n)
  IN  IF prog.st # "ok" THEN err_result(st, "parse error")
      ELSE [r EXCEPT !.st.taken = {}]

\* eval_ctx_init, reg_init and the registration of the builtins, those that
\* are modelled here.
Builtins == <<"str", "int", "len", "type", "abs", "min", "max",
              "reg_get", "reg_set", "reg_del", "arr_ins", "arr_del",
              "arr_create_anon", "sendmessage", "receivemessage", "msgpending",
              "mkptr", "deref">>
fn_register_builtin(name) == [name |-> name, builtin |-> TRUE, body |-> NULL,
                              params |-> << >>, taken |-> {}]
InitialState ==
  LET keys  == { <<k>> : k \in {"local", "fn", "sys", "mod", "env", "type"} }
      sys(p) == CHOOSE i \in DOMAIN Builtins : p = <<"sys", Builtins[i]>>
  IN  [ reg   |-> [p \in keys \cup {<<"sys", Builtins[i]>> : i \in DOMAIN Builtins} |->
                     IF p \in keys THEN val_nil ELSE val_fn_idx(sys(p))],
        queues |-> << >>, arrs |-> << >>, named |-> << >>,
        fns   |-> [i \in DOMAIN Builtins |-> fn_register_builtin(Builtins[i])],
        scope |-> << >>, depth |-> 0, ctr |-> 0, tree |-> 0, taken |-> {} ]
=============================================================================
