------------------------------ MODULE Registry ------------------------------
(***************************************************************************)
(* The tree of keys of registry/registry.c.  A key is a node with a name,  *)
(* a value, its parent, its children in order, and a copy of its own path, *)
(* which the evaluator assigns through (lang/eval.c, AST_ASSIGN) and which *)
(* reg_move and reg_mount must therefore keep right.                       *)
(*                                                                         *)
(* A path is the sequence of its names, <<>> for "/"; Empty is the name    *)
(* after a slash that ends a path.  The interpreter makes one call at a    *)
(* time (Ask); reg_mount, which calls itself, is a stack of frames and a   *)
(* step per child, since it reads the lists that it is extending.          *)
(*                                                                         *)
(* The calls that unmount or bind a path over itself read keys they have   *)
(* freed.  What they find is what was there: freed blocks stay in the      *)
(* static pool of core/buddy.c, untouched until they are allocated again.  *)
(* total_keys, which nothing reads, is left out.                           *)
(***************************************************************************)
EXTENDS Integers, Sequences, FiniteSets, SequencesExt, Functions, TLC

CONSTANTS
  Names, Empty,
  Nil, Values,
  Top,       \* the keys reg_init makes under the root, in order
  PathMax,   \* REG_PATH_MAX, in names
  Calls, NoCall, Absent,
  MaxKeys,   \* bound: keys that can be allocated
  Grown,     \* bound: keys beyond which nothing is set
  MaxMade    \* bound: calls of move; calls of mount and bind

ASSUME NameAssumption == Empty \notin Names /\ Top \in Seq(Names) /\ IsInjective(Top)
ASSUME BoundAssumption == /\ PathMax \in Nat \ {0}
                          /\ Grown \in Nat /\ MaxMade \in Nat /\ MaxKeys \in Nat /\ Len(Top) < MaxKeys
                          /\ MaxKeys <= 1024  \* FREE_STACK_MAX, UPD_STACK_MAX

\* A path as a caller may spell it: names, and perhaps a slash at the end.
Spelled == {p \in Seq(Names \cup {Empty}) : \A i \in 1..(Len(p) - 1) : p[i] # Empty}
\* reg_delete does not refuse the root, reg_move not the root spelled with two
\* slashes, but nothing can be said of a registry without one.
Mortal == {p \in Spelled : p # <<>> /\ p[1] # Empty}
ASSUME CallAssumption ==
  Calls \subseteq [op : {"set"}, p : Spelled, v : Values] \cup [op : {"delete"}, p : Mortal]
                 \cup [op : {"move"}, s : Mortal \cup {<<>>}, d : Spelled]
                 \cup [op : {"mount"}, s : Spelled, d : Spelled, before : BOOLEAN]
                 \cup [op : {"bind", "unmount"}, s : Spelled, d : Spelled]
                 \cup [op : {"unmount all"}, d : Spelled]
ASSUME NoCallAssumption == NoCall \notin Calls
ASSUME AbsentAssumption == Absent \notin Values \cup {Nil}

Root == 1
Null == 0
Ids == 1..MaxKeys
Paths == UNION {[1..n -> Names] : n \in 0..PathMax}

VARIABLES
  key,         \* the keys that are allocated: id -> RegKey
  frames,      \* the calls of reg_mount in progress
  call,        \* the call being served
  named,       \* history: View(key) when no call is being served, as it was when the call was made
  shadowed,    \* history: a move has put a key on a path that was taken
  made         \* number of calls of move, and of mount and bind

vars == <<key, frames, call, named, shadowed, made>>

-----------------------------------------------------------------------------
(* Keys.  t is a tree: a value of key. *)

Truncated(p) == IF Len(p) > PathMax THEN SubSeq(p, 1, PathMax) ELSE p

Find(t, k, n) ==
  LET at == {i \in DOMAIN t[k].children : t[t[k].children[i]].name = n} IN
  IF at = {} THEN Null ELSE t[k].children[Min(at)]

Lookup(t, path) ==
  LET p == Truncated(path)
      cur[i \in 0..Len(p)] ==
        IF i = 0 THEN Root
        ELSE LET k == cur[i - 1] IN IF k = Null \/ p[i] = Empty THEN k ELSE Find(t, k, p[i]) IN
  cur[Len(p)]

Fresh(t) == CHOOSE k \in Ids \ DOMAIN t : \A j \in Ids \ DOMAIN t : k <= j

NewKey(name, path, parent) ==
  [name |-> name, path |-> Truncated(path), val |-> Nil, parent |-> parent, children |-> <<>>]

\* t and a new key.
With(t, k, r) == [j \in DOMAIN t \cup {k} |-> IF j = k THEN r ELSE t[j]]

AddChild(t, k, c) == [t EXCEPT ![k].children = <<c>> \o @, ![c].parent = k]
AddChildTail(t, k, c) == [t EXCEPT ![k].children = Append(@, c), ![c].parent = k]

\* The place of c in a list, 0 if it is not in it.
Place(s, c) == LET at == {i \in DOMAIN s : s[i] = c} IN IF at = {} THEN 0 ELSE Min(at)

DetachChild(t, k, c) ==
  LET at == Place(t[k].children, c) IN
  IF at = 0 THEN t ELSE [t EXCEPT ![k].children = RemoveAt(@, at), ![c].parent = Null]

\* reg_mkpath, name by name: the tree, the key it is at, and that key's path.
\* (The keys it may need are free: bound.)
Room(t) == Cardinality(Ids \ DOMAIN t) >= PathMax
MkStep(m, n) ==
  LET c == Find(m.tree, m.at, n)
      k == Fresh(m.tree)
      built == Append(m.built, n) IN
  CASE n = Empty -> m
    [] n # Empty /\ c # Null -> [m EXCEPT !.at = c, !.built = built]
    [] n # Empty /\ c = Null ->
         [tree |-> AddChild(With(m.tree, k, NewKey(n, built, Null)), m.at, k), at |-> k, built |-> built]
MkPath(t, path) ==
  LET p == Truncated(path)
      grown[i \in 0..Len(p)] ==
        IF i = 0 THEN [tree |-> t, at |-> Root, built |-> <<>>] ELSE MkStep(grown[i - 1], p[i]) IN
  grown[Len(p)]

\* k and everything below it: what regkey_free_recursive frees.
Subtree(t, k) ==
  LET reached[i \in 0..MaxKeys] ==
        IF i = 0 THEN {k}
        ELSE LET js == reached[i - 1] IN js \cup UNION {Range(t[j].children) : j \in js} IN
  reached[MaxKeys]

Free(t, ks) == [k \in DOMAIN t \ UNION {Subtree(t, j) : j \in ks} |-> t[k]]

FreeChildren(t, k) == [Free(t, Range(t[k].children)) EXCEPT ![k].children = <<>>]

\* Slips of regkey_update_paths: a path longer than its field; the key alone.
UpdatePaths_untruncated(t, k, parentPath) ==
  LET moved == Subtree(t, k)
      path[j \in moved] == Append(IF j = k THEN parentPath ELSE path[t[j].parent], t[j].name) IN
  [j \in DOMAIN t |-> IF j \in moved THEN [t[j] EXCEPT !.path = path[j]] ELSE t[j]]
UpdatePaths_shallow(t, k, parentPath) ==
  [t EXCEPT ![k].path = Truncated(Append(parentPath, t[k].name))]

UpdatePaths(t, k, parentPath) ==
  LET moved == Subtree(t, k)
      path[j \in moved] ==
        Truncated(Append(IF j = k THEN parentPath ELSE path[t[j].parent], t[j].name)) IN
  [j \in DOMAIN t |-> IF j \in moved THEN [t[j] EXCEPT !.path = path[j]] ELSE t[j]]

-----------------------------------------------------------------------------
(* Calls *)

View(t) == [p \in Paths |-> IF Lookup(t, p) = Null THEN Absent ELSE t[Lookup(t, p)].val]

Init ==
  LET n == Len(Top) IN
  /\ key = [k \in 1..n + 1 |->
       IF k = Root
       THEN [NewKey(Empty, <<>>, Null) EXCEPT !.children = [i \in 1..n |-> n + 2 - i]]
       ELSE NewKey(Top[k - 1], <<Top[k - 1]>>, Root)]
  /\ frames = <<>>
  /\ call = NoCall
  /\ named = View(key)
  /\ shadowed = FALSE
  /\ made = [move |-> 0, copy |-> 0]

Kind(c) == IF c.op \in {"mount", "bind"} THEN "copy" ELSE c.op

Ask(c) ==
  /\ call = NoCall
  /\ c.op = "set" => Cardinality(DOMAIN key) <= Grown
  /\ Kind(c) \in {"move", "copy"} => made[Kind(c)] < MaxMade
  /\ call' = c
  /\ made' = [k \in DOMAIN made |-> IF k = Kind(c) THEN made[k] + 1 ELSE made[k]]
  /\ UNCHANGED <<key, frames, named, shadowed>>

\* The call ends with the tree t.
Returns(t) ==
  /\ key' = t
  /\ call' = NoCall
  /\ named' = View(t)
  /\ UNCHANGED frames

Fails == Returns(key) /\ UNCHANGED <<shadowed, made>>

Called(op) == call # NoCall /\ call.op = op /\ frames = <<>>

RegSet ==
  /\ Called("set")
  /\ Room(key)
  /\ LET m == MkPath(key, call.p) IN Returns([m.tree EXCEPT ![m.at].val = call.v])
  /\ UNCHANGED <<shadowed, made>>

RegDelete ==
  /\ Called("delete")
  /\ LET k == Lookup(key, call.p)
         t == Free(DetachChild(key, key[k].parent, k), {k}) IN
     IF k = Null THEN Fails
     ELSE Returns(t) /\ UNCHANGED <<shadowed, made>>

\* A slip of reg_move: the parent of the new path is looked up first.
RegMove_parent_first ==
  /\ Called("move")
  /\ LET s == call.s  d == call.d
         k == Lookup(key, s)
         u == MkPath(key, Front(d)).tree
         parent == MkPath(key, Front(d)).at
         v == AddChild([DetachChild(u, u[k].parent, k) EXCEPT ![k].name = Last(d)], parent, k) IN
     IF s = <<>> \/ IsPrefix(s, d) \/ k = Null THEN Fails
     ELSE Returns(UpdatePaths(v, k, Front(d))) /\ UNCHANGED <<shadowed, made>>

\* The key leaves its parent before the parent of the new path is looked up
\* or made: a path below the key that is moved is made anew, not found in it.
RegMove ==
  /\ Called("move")
  /\ LET s == call.s  d == call.d
         k == Lookup(key, s)
         up == IF d = <<>> THEN <<>> ELSE Front(d)
         name == IF d = <<>> THEN Empty ELSE Last(d)
         t == DetachChild(key, key[k].parent, k)
         u == MkPath(t, up).tree
         parent == MkPath(t, up).at
         v == AddChild([u EXCEPT ![k].name = name], parent, k) IN
     IF s = <<>> \/ IsPrefix(s, d) \/ k = Null THEN Fails
     ELSE /\ Room(key)
          /\ Returns(UpdatePaths(v, k, up))
          /\ shadowed' = (shadowed \/ (name # Empty /\ Find(u, parent, name) # Null))
          /\ UNCHANGED made

RegUnmountAll ==
  /\ Called("unmount all")
  /\ LET dst == Lookup(key, call.d)
         t == FreeChildren(key, dst) IN
     IF dst = Null THEN Fails
     ELSE Returns(t) /\ UNCHANGED <<shadowed, made>>

\* One child of the source after another takes the key of its name from the
\* destination.  Source and destination being the same, the first does and
\* is then the last: it has been detached and has no next.
Unmounted(t, dst, list) ==
  LET left[i \in 0..Len(list)] ==
        IF i = 0 THEN t
        ELSE LET u == left[i - 1]
                 target == Find(u, dst, t[list[i]].name) IN
             IF target = Null THEN u ELSE Free(DetachChild(u, dst, target), {target}) IN
  left[Len(list)]
RegUnmount ==
  /\ Called("unmount")
  /\ LET src == Lookup(key, call.s)  dst == Lookup(key, call.d)
         list == IF src = dst /\ key[src].children # <<>> THEN <<Head(key[src].children)>>
                 ELSE key[src].children IN
     IF src = Null \/ dst = Null THEN Fails
     ELSE Returns(Unmounted(key, dst, list)) /\ UNCHANGED <<shadowed, made>>

-----------------------------------------------------------------------------
(* reg_mount *)

FirstChild(t, k) == IF t[k].children = <<>> THEN Null ELSE Head(t[k].children)
\* A slip: the list of children is closed to a ring.
NextChild_wraps(t, k, c) ==
  LET at == Place(t[k].children, c) IN
  t[k].children[(at % Len(t[k].children)) + 1]
NextChild(t, k, c) ==
  LET at == Place(t[k].children, c) IN
  IF at = Len(t[k].children) THEN Null ELSE t[k].children[at + 1]

\* A mount of the key src over the key that m made.
Frame(m, src, s, d, before) ==
  [src |-> src, dst |-> m.at, src_path |-> s, dst_path |-> d,
   before |-> before, child |-> FirstChild(m.tree, src)]

\* The frames once the loop of the last has done with its child.
Advance(t, fs) ==
  [fs EXCEPT ![Len(fs)].child = NextChild(t, fs[Len(fs)].src, @)]

\* t is the tree a mount starts with; it may lack the source.
Begin(t, s, d, before) ==
  LET m == MkPath(t, d)
      src == Lookup(t, s) IN
  IF src = Null THEN Returns(t)
  ELSE /\ Room(t)
       /\ key' = m.tree
       /\ frames' = <<Frame(m, src, s, d, before)>>
       /\ UNCHANGED <<call, named>>

RegMount ==
  /\ Called("mount")
  /\ Begin(key, call.s, call.d, call.before)
  /\ UNCHANGED <<shadowed, made>>

\* reg_bind with flag 0: the destination is emptied and takes the value of
\* the source, which is nil if the source was below it and has been freed.
RegBind ==
  /\ Called("bind")
  /\ LET src == Lookup(key, call.s)
         dst == MkPath(key, call.d).at
         u == FreeChildren(MkPath(key, call.d).tree, dst)
         v == [u EXCEPT ![dst].val = IF src \in DOMAIN u THEN u[src].val ELSE Nil] IN
     IF src = Null THEN Fails
     ELSE Room(key) /\ Begin(v, call.s, call.d, TRUE) /\ UNCHANGED <<shadowed, made>>

\* A slip of reg_mount: a key that exists takes the source's value anyway.
MountNext_overwrites ==
  LET f == Last(frames)
      existing == Find(key, f.dst, key[f.child].name)
      t == [key EXCEPT ![existing].val = key[f.child].val] IN
  /\ frames # <<>> /\ f.child # Null /\ existing # Null
  /\ key' = t
  /\ frames' = Advance(t, frames)
  /\ UNCHANGED <<call, named, shadowed, made>>

MountNext ==
  LET f == Last(frames)
      existing == Find(key, f.dst, key[f.child].name)
      t == IF f.before
           THEN [key EXCEPT ![existing].val = key[f.child].val] ELSE key IN
  /\ frames # <<>> /\ f.child # Null /\ existing # Null
  /\ key' = t
  /\ frames' = Advance(t, frames)
  /\ UNCHANGED <<call, named, shadowed, made>>

MountMirror ==
  LET f == Last(frames)
      c == f.child
      k == Fresh(key)
      new_path == Truncated(Append(f.dst_path, key[c].name))
      child_src == Truncated(Append(f.src_path, key[c].name))
      t == With(key, k, [NewKey(key[c].name, new_path, Null) EXCEPT !.val = key[c].val])
      u == IF f.before THEN AddChild(t, f.dst, k) ELSE AddChildTail(t, f.dst, k)
      m == MkPath(u, new_path)
      src == Lookup(u, child_src) IN
  /\ frames # <<>> /\ c # Null /\ Find(key, f.dst, key[c].name) = Null
  /\ Room(key) /\ Room(u)
  /\ IF u[c].children # <<>> /\ src # Null
     THEN key' = m.tree /\ frames' = Append(frames, Frame(m, src, child_src, new_path, f.before))
     ELSE key' = u /\ frames' = Advance(u, frames)
  /\ UNCHANGED <<call, named, shadowed, made>>

MountReturn ==
  /\ frames # <<>> /\ Last(frames).child = Null
  /\ IF Len(frames) = 1
     THEN frames' = <<>> /\ call' = NoCall /\ named' = View(key)
     ELSE frames' = Advance(key, Front(frames)) /\ UNCHANGED <<call, named>>
  /\ UNCHANGED <<key, shadowed, made>>

Serve == \/ RegSet \/ RegDelete \/ RegMove \/ RegUnmount \/ RegUnmountAll \/ RegMount \/ RegBind
         \/ MountNext \/ MountMirror \/ MountReturn

Next == (\E c \in Calls : Ask(c)) \/ Serve

\* The interpreter runs a call it has made to its end: infinitely many steps
\* of Serve, which alone can be taken while there is a call, or no call
\* infinitely often.
Spec == Init /\ [][Next]_vars /\ ([]<>(call = NoCall) \/ []<><<call # NoCall>>_vars)

-----------------------------------------------------------------------------
(* Properties *)

\* The registry's keys are records of the stated form, the frames of reg_mount
\* are over allocated keys, and the calls are the ones that can be made.
TypeOK ==
  /\ DOMAIN key \subseteq Ids /\ Root \in DOMAIN key
  /\ \A k \in DOMAIN key :
       /\ key[k].name \in Names \cup {Empty}
       /\ key[k].val \in Values \cup {Nil}
       /\ key[k].parent \in DOMAIN key \cup {Null}
       /\ key[k].children \in Seq(DOMAIN key)
       /\ key[k].path \in Seq(Names \cup {Empty}) /\ Len(key[k].path) <= PathMax
  /\ shadowed \in BOOLEAN /\ made \in [{"move", "copy"} -> 0..MaxMade]
  /\ call \in Calls \cup {NoCall}
  /\ \A i \in DOMAIN frames : /\ {frames[i].src, frames[i].dst} \subseteq DOMAIN key
                              /\ frames[i].child \in DOMAIN key \cup {Null}

\* Every allocated key is in the tree exactly once, under the key it has as
\* its parent: nothing leaks, nothing freed is linked, and no move makes a
\* cycle, though a move may be asked for into the key that is moved.
TreeShape ==
  /\ TypeOK
  /\ Subtree(key, Root) = DOMAIN key
  /\ \A k \in DOMAIN key :
       /\ IsInjective(key[k].children)
       /\ \A c \in Range(key[k].children) : key[c].parent = k
  /\ key[Root].parent = Null

\* The path that a key carries leads back to it, if any path does: what the
\* evaluator assigns to the path of the key it resolved reaches that key.
PathLeadsBack == \A p \in Paths : LET k == Lookup(key, p) IN
  k # Null => Lookup(key, key[k].path) = k

\* A mount or a bind ends, also into its own source, where it feeds on the
\* keys it makes until their paths are too long.
CallsReturn == call # NoCall ~> call = NoCall

Promise == INSTANCE Namespace WITH view <- named

\* The registry is the map from paths to values that Namespace describes.
ImplementsNamespace == Promise!NamespaceSpec

=============================================================================
