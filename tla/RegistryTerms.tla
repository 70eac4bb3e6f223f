--------------------------- MODULE RegistryTerms ----------------------------
(***************************************************************************)
(* The terms of the proofs about Registry: its inductive invariants, what  *)
(* is assumed of the calls, and what the calls make of a tree.             *)
(*                                                                         *)
(* A tree is keys of which every set that has the root and is closed under *)
(* children is all, and a mount in progress is what it has copied and what *)
(* it owes: statements about sets and paths, in which the recursive        *)
(* functions of Registry do not occur.                                     *)
(***************************************************************************)
EXTENDS Registry

(* Trees *)

Strings == Names \cup {Empty}

\* Paths as keys carry them.
Texts == {p \in Seq(Strings) : Len(p) <= PathMax}

\* The keys of a tree whose keys are D.
Rec(D) == [name : Strings, path : Texts, val : Values \cup {Nil}, parent : D \cup {Null}, children : Seq(D)]
Typed(t) == DOMAIN t \subseteq Ids /\ t \in [DOMAIN t -> Rec(DOMAIN t)]

\* A key is once in the list of its parent and in no other.
Linked(t) == \A k \in DOMAIN t : /\ IsInjective(t[k].children)
                                 /\ \A c \in Range(t[k].children) : t[c].parent = k

\* With a key, its children are in S.
Closed(t, S) == \A k \in S : Range(t[k].children) \subseteq S

\* Every key is below one of R.
Rooted(t, R) == \A S \in SUBSET DOMAIN t : R \subseteq S /\ Closed(t, S) => S = DOMAIN t

\* The keys are trees with the roots R.
Forest(t, R) ==
  /\ Typed(t) /\ Linked(t) /\ Rooted(t, R)
  /\ R \subseteq DOMAIN t /\ \A k \in R : t[k].parent = Null

\* k is below one of R.
Below(t, R, k) == k \in DOMAIN t /\ \A S \in SUBSET DOMAIN t : R \subseteq S /\ Closed(t, S) => k \in S

\* The keys of t are still there, with what they carry but the children.
Grew(t, u) ==
  /\ DOMAIN t \subseteq DOMAIN u
  /\ \A j \in DOMAIN t : /\ u[j].name = t[j].name /\ u[j].path = t[j].path
                         /\ u[j].val = t[j].val /\ u[j].parent = t[j].parent

\* A state of the loop of reg_mkpath that was started on t.
Walk(t, R, m) ==
  /\ m = [tree |-> m.tree, at |-> m.at, built |-> m.built]
  /\ Forest(m.tree, R) /\ Grew(t, m.tree) /\ m.built \in Seq(Strings)
  /\ Below(m.tree, {Root}, m.at)

-----------------------------------------------------------------------------
(* The inductive invariant *)

\* A call of reg_mount on a tree whose keys are D.
Frames(D) == [src : D, dst : D, src_path : Seq(Strings), dst_path : Seq(Strings),
              before : BOOLEAN, child : D \cup {Null}]

IInv ==
  /\ Forest(key, {Root})
  /\ frames \in Seq(Frames(DOMAIN key))
  /\ call \in Calls \cup {NoCall}
  /\ shadowed \in BOOLEAN
  /\ made \in [{"move", "copy"} -> 0..MaxMade]

-----------------------------------------------------------------------------
(* The paths that keys carry *)

\* Below the roots R, every key has a name and carries the path of its parent
\* and that name.
Right(t, R) ==
  /\ Root \in R /\ t[Root].path = << >>
  /\ \A k \in DOMAIN t \ R : /\ t[k].name \in Names
                             /\ t[k].path = Truncated(Append(t[t[k].parent].path, t[k].name))

\* What the calls are assumed to be like: no slash ends the path to which a
\* key is moved or over which a path is mounted or bound.  With one, reg_move
\* makes a key without a name, which nothing resolves, and reg_mount gives the
\* keys it makes paths with two slashes, which are cut a name too early.
Unslashed == \A c \in Calls : /\ c.op \in {"move", "mount", "bind"} => c.d \in Seq(Names)
                              /\ c.op = "move" => c.d # << >>

\* Mounts are over the key of the path that they put in front of names.
Aimed(t, fs) == \A i \in DOMAIN fs : /\ fs[i].dst_path \in Seq(Names)
                                     /\ t[fs[i].dst].path = Truncated(fs[i].dst_path)
                                     /\ fs[i].child # Root

PathsRight == Right(key, {Root}) /\ Aimed(key, frames)

\* The root is above every key that a path can name.
Grounded(t) == Typed(t) /\ Linked(t) /\ Root \in DOMAIN t /\ t[Root].parent = Null

-----------------------------------------------------------------------------
(* What paths name *)

\* No two children of a key have the same name.
Distinct(t) ==
  \A k \in DOMAIN t : \A c, d \in Range(t[k].children) : t[c].name = t[d].name /\ t[c].name \in Names => c = d

\* What a path names once reg_mkpath has made what p lacked.
SeenAfter(t, p, u) == \A q \in Paths :
  IF Lookup(t, q) # Null THEN Lookup(u, q) = Lookup(t, q)
  ELSE IF IsPrefix(q, p) THEN Lookup(u, q) \in DOMAIN u \ DOMAIN t ELSE Lookup(u, q) = Null

\* reg_mkpath has made what p lacked: nothing else is seen, the new keys are
\* nil, and only keys that a path names have got children.
PathMade(t, R, p, m) ==
  /\ Walk(t, R, m) /\ Cardinality(Ids \ DOMAIN m.tree) >= Cardinality(Ids \ DOMAIN t) - Len(p)
  /\ m.at = Lookup(m.tree, p) /\ m.at # Null
  /\ SeenAfter(t, p, m.tree)
  /\ \A j \in DOMAIN m.tree \ DOMAIN t : m.tree[j].val = Nil
  /\ \A j \in DOMAIN t : m.tree[j].children = t[j].children \/ \E q \in Paths : Lookup(t, q) = j
  /\ Distinct(t) => Distinct(m.tree)

\* u has no key that t lacks, and no key of it a child that it lacks in t.
Narrower(t, u) ==
  /\ DOMAIN u \subseteq DOMAIN t
  /\ \A j \in DOMAIN u : u[j].name = t[j].name /\ Range(u[j].children) \subseteq Range(t[j].children)

\* What is known of the tree as long as no key has been hidden, and of the
\* history that the promise is stated over.
Seen == /\ frames = << >> => named = View(key)
        /\ ~ shadowed => Distinct(key)

\* What comes after d in q.
Rest(d, q) == SubSeq(q, Len(d) + 1, Len(q))

\* A name of S is the next after d on the way q.
Passes(d, S, q) == \E n \in S \cap Names : IsPrefix(Append(d, n), q)

\* u is t without the children of d that have a name of S.
Bared(t, u, d, S) ==
  /\ \A q \in Paths : ~ (IsPrefix(d, q) /\ q # d) => Lookup(u, q) = Lookup(t, q)
  /\ Distinct(t) => Distinct(u) /\ \A q \in Paths : Lookup(u, q) = IF Passes(d, S, q) THEN Null ELSE Lookup(t, q)
  /\ \A j \in DOMAIN u : j \in DOMAIN t /\ u[j].val = t[j].val

\* The children of a path that are promised to be there, and a promise to
\* remove some.
PromisedHas(p, n) == Append(p, n) \in Paths /\ named[Append(p, n)] # Absent
PromisedWithout(d, S) ==
  \A q \in Paths : named'[q] = IF \E n \in S : IsPrefix(Append(d, n), q) THEN Absent ELSE named[q]

-----------------------------------------------------------------------------
(* Calls that are served in one step *)

\* Only a mount, or the mount in a bind, is in the middle of its work, and only
\* if there is something to copy.
Busy == frames # << >> => /\ call # NoCall /\ call.op \in {"mount", "bind"}
                          /\ call.s \in Paths => named[call.s] # Absent

\* A call that is served in one step, over paths that can be seen: all but the
\* mounts and the binds of what is there.
Direct(c) ==
  /\ c.op \in {"set", "delete"} => c.p \in Paths
  /\ c.op \in {"move", "unmount"} => c.s \in Paths /\ c.d \in Paths
  /\ c.op = "unmount all" => c.d \in Paths
  /\ c.op \in {"mount", "bind"} => c.s \in Paths /\ named[c.s] = Absent

\* A step of the promise.
Promised == Promise!Ask \/ Promise!Serve

-----------------------------------------------------------------------------
(* Mounts and binds, which copy key by key *)

\* The path that a path below d is a copy of when s is copied to d.
Across(s, d, q) == s \o Rest(d, q)

\* A frame of a mount of s over d: it is over the keys of its two paths, one
\* below s, one below d.
Laid(t, f, s, d, flag) ==
  /\ f.dst_path \in Paths /\ f.src_path \in Paths
  /\ IsPrefix(d, f.dst_path) /\ IsPrefix(s, f.src_path)
  /\ f.dst = Lookup(t, f.dst_path) /\ f.dst # Null
  /\ f.src = Lookup(t, f.src_path) /\ f.src # Null
  /\ f.before = flag
  /\ f.child \in Range(t[f.src].children) \cup {Null}

\* A frame that is done with its child.
Stepped(t, f) == [f EXCEPT !.child = NextChild(t, f.src, f.child)]

\* Every frame of a mount is laid.
AllLaid(t, fs, s, d, flag) == \A i \in 1..Len(fs) : Laid(t, fs[i], s, d, flag)

\* Nothing is lost, and what is not below the destination stays as it was (B).
Kept(t, B, d) == \A q \in Paths :
  /\ ~ (IsPrefix(d, q) /\ q # d) => View(t)[q] = B[q]
  /\ B[q] # Absent => View(t)[q] # Absent

Owed(t, f, n) ==
  /\ f.child # Null
  /\ \E m \in 1..Len(t[f.src].children) :
       Place(t[f.src].children, f.child) <= m /\ t[t[f.src].children[m]].name = n
Owes(t, fs, i, n) == IF i = Len(fs) THEN Owed(t, fs[i], n) ELSE Owed(t, Stepped(t, fs[i]), n)

\* What is there (B) reaches up to the root, the source is there, and the
\* destination is not below it.
Field(B, s, d) ==
  /\ s \in Paths /\ d \in Paths /\ ~ IsPrefix(s, d) /\ B[s] # Absent
  /\ \A p, q \in Paths : IsPrefix(p, q) /\ B[p] = Absent => B[q] = Absent

\* A path below the destination that was not there.
New(B, d, q) == \E n \in Names : Append(d, n) \in Paths /\ IsPrefix(Append(d, n), q) /\ B[Append(d, n)] = Absent

\* A frame copies to its path what the source holds there, unless the paths
\* have been cut; then there is nothing left to copy.
Level(s, d, f) == \/ f.src_path = Across(s, d, f.dst_path)
                  \/ Len(f.dst_path) = PathMax
                  \/ Len(s) + Len(f.dst_path) - Len(d) > PathMax

\* The frames of a mount are one below the other, over new paths all but the
\* first.
Piled(fs, B, s, d) ==
  /\ fs[1].src_path = s /\ fs[1].dst_path = d
  /\ \A i \in 1..Len(fs) : Level(s, d, fs[i]) /\ (fs[i].dst_path = d \/ New(B, d, fs[i].dst_path))
  /\ \A i, j \in 1..Len(fs) :
       i < j => Len(fs[i].dst_path) < Len(fs[j].dst_path) \/ Len(fs[j].dst_path) = PathMax

\* A new path holds what the source does there, or a frame has still to come
\* to it.
Promises(f, s, d, n, q) ==
  /\ f.src_path = Across(s, d, f.dst_path)
  /\ Append(f.dst_path, n) \in Paths /\ IsPrefix(Append(f.dst_path, n), q)
Copied(t, fs, B, s, d) == \A q \in Paths :
  New(B, d, q) /\ Across(s, d, q) \in Paths =>
    \/ View(t)[q] = B[Across(s, d, q)]
    \/ \E i \in 1..Len(fs), n \in Names : Owes(t, fs, i, n) /\ Promises(fs[i], s, d, n, q)

\* What a frame has still to make is not there.
Due(t, fs, B, d) == \A i \in 1..Len(fs), n \in Names :
  Owes(t, fs, i, n) /\ Append(fs[i].dst_path, n) \in Paths /\ New(B, d, Append(fs[i].dst_path, n)) =>
    View(t)[Append(fs[i].dst_path, n)] = Absent

\* Of the children that the destination had, only the value may change.
Overlaid(t, fs, B, s, d, flag) == \A n \in Names :
  Append(d, n) \in Paths /\ B[Append(d, n)] # Absent =>
    /\ ~ flag => View(t)[Append(d, n)] = B[Append(d, n)]
    /\ flag /\ Append(s, n) \in Paths =>
         \/ View(t)[Append(d, n)] = IF B[Append(s, n)] = Absent THEN B[Append(d, n)] ELSE B[Append(s, n)]
         \/ Owes(t, fs, 1, n)
    /\ \A q \in Paths : IsPrefix(Append(d, n), q) /\ q # Append(d, n) => View(t)[q] = B[q]

\* All that is known of a mount that does not copy its own copies.
Filled(t, fs, B, s, d, flag) ==
  /\ Field(B, s, d) /\ Piled(fs, B, s, d) /\ Copied(t, fs, B, s, d) /\ Due(t, fs, B, d)
  /\ Overlaid(t, fs, B, s, d, flag)

\* What a mount has made of what was seen (B) when it has been done.
Done(N, B, s, d, flag) ==
  /\ \A q \in Paths : New(B, d, q) /\ Across(s, d, q) \in Paths => N[q] = B[Across(s, d, q)]
  /\ \A n \in Names : Append(d, n) \in Paths /\ B[Append(d, n)] # Absent =>
       /\ ~ flag => N[Append(d, n)] = B[Append(d, n)]
       /\ flag /\ Append(s, n) \in Paths =>
            N[Append(d, n)] = IF B[Append(s, n)] = Absent THEN B[Append(d, n)] ELSE B[Append(s, n)]
       /\ \A q \in Paths : IsPrefix(Append(d, n), q) /\ q # Append(d, n) => N[q] = B[q]

\* What a mount starts with.
Starting(t, u, fs, s, d, flag) ==
  /\ Len(fs) = 1 /\ fs[1].src = Lookup(u, s) /\ fs[1].dst = Lookup(u, d) /\ fs[1].src # Null /\ fs[1].dst # Null
  /\ fs[1].src_path = s /\ fs[1].dst_path = d /\ fs[1].before = flag /\ fs[1].child = FirstChild(u, fs[1].src)
  /\ Grounded(u) /\ (Distinct(t) => Distinct(u))
  /\ \A q \in Paths : View(u)[q] = IF IsPrefix(q, d) /\ View(t)[q] = Absent THEN Nil ELSE View(t)[q]

\* What is seen by a mount or a bind when it starts to copy.
Bound(N, s, d) == [q \in Paths |->
  IF IsPrefix(d, q) THEN IF q = d THEN N[s] ELSE Absent
  ELSE IF IsPrefix(q, d) /\ N[q] = Absent THEN Nil ELSE N[q]]
Start(N, c) ==
  IF c.op = "bind" THEN Bound(N, c.s, c.d)
  ELSE [q \in Paths |-> IF IsPrefix(q, c.d) /\ N[q] = Absent THEN Nil ELSE N[q]]
Flag(c) == IF c.op = "bind" THEN TRUE ELSE c.before

\* What is seen of d when nothing of it is left: what was below it, too.
Unbound(N, M, d) ==
  /\ M[d] = Nil
  /\ \A q \in Paths : IsPrefix(d, q) /\ q # d => M[q] = Absent
  /\ \A q \in Paths : ~ IsPrefix(d, q) => M[q] = IF IsPrefix(q, d) /\ N[q] = Absent THEN Nil ELSE N[q]

\* What a bind of s to d has made of t before it copies: nothing is below d,
\* and s is there unless it was.
BareIn(t, v, s, d) ==
  /\ Forest(v, {Root}) /\ Lookup(v, d) # Null /\ v[Lookup(v, d)].children = << >>
  /\ Distinct(t) => Distinct(v)
  /\ IsPrefix(d, s) /\ d # s => Lookup(v, s) = Null /\ Unbound(View(t), View(v), d)
  /\ ~ IsPrefix(d, s) \/ d = s => /\ Lookup(v, s) # Null
                                  /\ \A q \in Paths : View(v)[q] = Bound(View(t), s, d)[q]

\* The paths of the calls are spelled with names, and are not too long.
Spelt == \A c \in Calls :
  /\ c.op \in {"set", "delete"} => c.p \in Paths
  /\ c.op \in {"move", "mount", "bind", "unmount"} => c.s \in Paths /\ c.d \in Paths
  /\ c.op = "unmount all" => c.d \in Paths
  /\ c.op = "move" => c.d # << >>

\* What a mount in progress has left alone, and copied.  A bind of a path over
\* itself has nothing to copy: it has emptied it.
Copying == frames # << >> =>
  /\ AllLaid(key, frames, call.s, call.d, Flag(call))
  /\ Kept(key, Start(named, call), call.d)
  /\ call.op = "bind" /\ IsPrefix(call.d, call.s) =>
       call.s = call.d /\ Len(frames) = 1 /\ Last(frames).child = Null /\ View(key) = Start(named, call)
  /\ ~ shadowed /\ ~ IsPrefix(call.s, call.d) =>
       Filled(key, frames, Start(named, call), call.s, call.d, Flag(call))

\* What is promised of the children of a path over which another is mounted.
Merged(N, M, s, d, flag) == \A n \in Names : Append(d, n) \in Paths =>
  /\ N[Append(d, n)] = Absent =>
       \A q \in Paths : IsPrefix(Append(d, n), q) /\ Across(s, d, q) \in Paths => M[q] = N[Across(s, d, q)]
  /\ N[Append(d, n)] # Absent =>
       /\ \A q \in Paths : IsPrefix(Append(d, n), q) /\ q # Append(d, n) => M[q] = N[q]
       /\ ~ flag => M[Append(d, n)] = N[Append(d, n)]
       /\ flag /\ Append(s, n) \in Paths =>
            M[Append(d, n)] = IF N[Append(s, n)] # Absent THEN N[Append(s, n)] ELSE N[Append(d, n)]

=============================================================================
