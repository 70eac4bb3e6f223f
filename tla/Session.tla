------------------------------ MODULE Session ------------------------------
(***************************************************************************)
(* A session at the prompt (nexs_repl of src/runtime/main.c): one line     *)
(* after another is scanned, parsed and evaluated in the interpreter the   *)
(* lines before it left.                                                   *)
(***************************************************************************)
EXTENDS Eval

CONSTANTS PlainLines,    \* lines that only use variables and functions
          OtherLines,    \* lines that use arrays and the registry
          MaxLines,      \* the length of a session
          Globals, Functions   \* the names the plain lines use at top level

VARIABLES st,      \* the interpreter
          typed    \* how many lines were evaluated
vars == <<st, typed>>

Init == st = InitialState /\ typed = 0

\* The value of a line is printed and freed.  A line whose value contains
\* itself ends the session: printing it overflows the stack.
EvalLine(lines) ==
  /\ typed < MaxLines
  /\ \E toks \in lines : \E r \in {eval_str(st, toks)} :
       /\ r.sig = "none" => val_print_ends(r.st, r.v, {})
       /\ st' = val_free(r.st, r.v)
  /\ typed' = typed + 1

Next == EvalLine(PlainLines) \/ EvalLine(OtherLines)

Spec == Init /\ [][Next]_vars

-----------------------------------------------------------------------------
(* Properties *)

\* However a line ends - a value, an error in the middle of calls, a break
\* that no loop is left for - no scope of a call is left in the registry,
\* no call is counted as running, and the prompt is in the directory it was
\* in: no line of a session changes it outside of a function.
CallsLeaveNoTrace ==
  /\ \A path \in DOMAIN st.reg : Len(path) > 1 => path[1] # "local"
  /\ st.depth = 0
  /\ st.scope = << >>

\* The references to an array that keys, items, messages and the table of
\* named arrays hold.
References(id) ==
  Cardinality({path \in DOMAIN st.reg : st.reg[path] = val_arr(id)})
  + Cardinality({at \in (DOMAIN st.arrs) \X (1 .. 9) :
                   /\ at[2] <= Len(Items(st, at[1]))
                   /\ Items(st, at[1])[at[2]] = val_arr(id)})
  + Cardinality({at \in (DOMAIN st.queues) \X (1 .. MSG_QUEUE_SIZE) :
                   /\ at[2] <= Len(st.queues[at[1]])
                   /\ st.queues[at[1]][at[2]] = val_arr(id)})
  + Cardinality({name \in DOMAIN st.named : st.named[name] = id})

\* An array that a variable, a message, an item of an array or its name
\* leads to is allocated, and its count is no less than the references to
\* it: what is still referred to is never freed.  (It may be more: the value
\* of the statement before a ret, break or cont is never freed, eval.c:81.)
\* It fails once an item is written where builtin_arr_del left an array
\* behind the end: arr_set frees what lies there a second time.
NoDanglingArrays ==
  /\ \A path \in DOMAIN st.reg : st.reg[path].t = "arr" => Live(st, st.reg[path].n)
  /\ \A name \in DOMAIN st.named : Live(st, st.named[name])
  /\ \A path \in DOMAIN st.queues : \A i \in DOMAIN st.queues[path] :
       LET v == st.queues[path][i] IN v.t = "arr" => Live(st, v.n)
  /\ \A id \in DOMAIN st.arrs :
       /\ st.arrs[id].rc >= References(id)
       /\ \A i \in DOMAIN Items(st, id) :
            LET v == Items(st, id)[i] IN v.t = "arr" => Live(st, v.n)

\* The variables of the registry are the variables of Frames, and the table
\* of functions its functions.
ours(name) == {i \in DOMAIN st.fns : st.fns[i].name = name}
envBar  == [g \in {x \in Globals : reg_lookup(st, <<x>>)} |-> st.reg[<<g>>]]
funsBar == [f \in {x \in Functions : ours(x) # {}} |->
              LET def == st.fns[Least(ours(f))]
              IN  [params |-> def.params, body |-> def.body]]
Scopes == INSTANCE Frames WITH Inputs <- PlainLines, env <- envBar, funs <- funsBar

\* Keys named after the calls give every call locals of its own and lead
\* from them to the global variables, as Frames has it; what a session does
\* to arrays and the registry besides is no step of it.
ImplementsFrames == Scopes!Spec
=============================================================================
