----------------------------- MODULE Namespace -----------------------------
(***************************************************************************)
(* What the registry (registry/registry.c) promises to its callers: a map  *)
(* from paths to values in which every prefix of a path has a value too.   *)
(* A call changes what its paths name and nothing else, and mount and bind *)
(* are copies made in one step.                                            *)
(*                                                                         *)
(* Two things keep the promise from being that simple, and both are said   *)
(* here: a move onto a path that is taken hides the key that had it        *)
(* (shadowed), and a key whose path is longer than PathMax has no name and *)
(* comes into sight when a move or a mount puts it nearer to the root.     *)
(***************************************************************************)
EXTENDS Naturals, Sequences

CONSTANTS
  Names,
  Calls,    \* the calls a caller may make: records with op and its arguments
  NoCall,
  Nil,      \* the value of a key made on the way to another
  Absent,   \* no such path
  PathMax   \* REG_PATH_MAX, in names

VARIABLES
  view,      \* path -> its value, or Absent
  shadowed,  \* some key has been hidden by another of the same path
  call       \* the call being served

nvars == <<view, shadowed, call>>

Paths == UNION {[1..n -> Names] : n \in 0..PathMax}
\* These three are as in SequencesExt, all of which every proof about Registry,
\* an instance of this module, would carry along.
IsPrefix(p, q) == Len(p) <= Len(q) /\ SubSeq(p, 1, Len(p)) = SubSeq(q, 1, Len(p))
Front(p) == SubSeq(p, 1, Len(p) - 1)
Last(p) == p[Len(p)]
\* A destination with an empty last name, as in "/a/", names nothing.
Clean(p) == IF p # <<>> /\ Last(p) \notin Names THEN Front(p) ELSE p
Exists(p) == view[p] # Absent
From(p, q) == SubSeq(q, Len(p) + 1, Len(q))  \* q as seen from p
Under(p) == {q \in Paths : IsPrefix(p, q)}
Below(p) == Under(p) \ {p}
UpTo(p) == {q \in Paths : IsPrefix(q, p)}

NamespaceInit ==
  /\ view \in [Paths -> {Nil, Absent}] /\ Exists(<<>>)
  /\ \A p \in Paths : Len(p) > 1 => ~Exists(p)
  /\ shadowed = FALSE
  /\ call = NoCall

\* The paths of S are as they were, but those of made exist now.
Keeps(S, made) == \A q \in S : view'[q] = IF q \in made /\ ~Exists(q) THEN Nil ELSE view[q]

\* The paths under d hold what those under s held, too long ones aside.
CopyAt(s, d) == \A q \in Under(d) : s \o From(d, q) \in Paths => view'[q] = view[s \o From(d, q)]

Gone(S) == \A q \in S : view'[q] = Absent

Set(p, v) ==
  /\ view'[p] = v
  /\ Keeps(Paths \ {p}, UpTo(p))
  /\ UNCHANGED shadowed

Delete(p) ==
  /\ Keeps(Paths \ Under(p), {})
  /\ IF Exists(p) THEN ~shadowed => Gone(Under(p)) ELSE Keeps(Under(p), {})
  /\ UNCHANGED shadowed

\* s is no longer there, d holds what it held, and the parents of d exist
\* even if they were under s.  A path with another under it cannot be moved
\* there, but for one the caller spells with a slash at its end.
Move(s, d) ==
  LET p == Clean(s)  lost == Clean(d) # d
      left(q) == Exists(q) /\ ~IsPrefix(p, q)
      parent == IF d = <<>> THEN <<>> ELSE Front(d)
      landed == IF lost \/ d = <<>> THEN {} ELSE Under(d) IN
  IF p = <<>> \/ ~Exists(p) \/ IsPrefix(s, d) THEN UNCHANGED <<view, shadowed>>
  ELSE /\ shadowed' = (shadowed \/ (d \in Paths \ {<<>>} /\ left(d)))
       /\ landed # {} => CopyAt(p, d)
       /\ \A q \in Paths \ landed : ~shadowed \/ ~IsPrefix(p, q) =>
            view'[q] = IF left(q) THEN view[q] ELSE IF IsPrefix(q, parent) THEN Nil ELSE Absent

\* Of the children of s, those that d lacks are copied with all they hold; of
\* those that d has, only the value is, and only by a mount in front.
Merge(s, d, before) == \A n \in Names :
  LET from == Append(s, n)  to == Append(d, n) IN
  CASE to \notin Paths -> TRUE
    [] to \in Paths /\ ~Exists(to) -> from \in Paths => CopyAt(from, to)
    [] to \in Paths /\ Exists(to) ->
         /\ Keeps(Below(to), {})
         /\ IF before /\ from \in Paths
            THEN view'[to] = IF Exists(from) THEN view[from] ELSE view[to]
            ELSE view'[to] = view[to] \/ before

Mount(s, d, before) ==
  /\ IF ~Exists(s) THEN UNCHANGED view
     ELSE /\ Keeps(Paths \ Below(d), UpTo(d))
          /\ \A q \in Below(d) : Exists(q) => view'[q] # Absent
          /\ ~shadowed /\ ~IsPrefix(s, d) => Merge(s, d, before)
  /\ UNCHANGED shadowed

\* d becomes a copy of s.  Bound to a path below it, it loses everything.
Bind(s, d) ==
  /\ IF ~Exists(s) THEN UNCHANGED view
     ELSE /\ Keeps(Paths \ Under(d), UpTo(d))
          /\ ~shadowed =>
               /\ ~IsPrefix(s, d) /\ ~IsPrefix(d, s) => CopyAt(s, d)
               /\ IsPrefix(s, d) => view'[d] = view[s]
               /\ IsPrefix(d, s) => Gone(Below(d))
               /\ IsPrefix(d, s) /\ d # s => view'[d] = Nil
  /\ UNCHANGED shadowed

\* The children of d that s has too are gone; of its own, at most one.
Unmount(s, d) ==
  LET Has(p, n) == Append(p, n) \in Paths /\ Exists(Append(p, n))
      same == {n \in Names : Has(s, n) /\ Has(d, n)}
      unseen == {n \in Names : Append(s, n) \notin Paths /\ Has(d, n)}
      Without(ns) == \A q \in Paths :
        view'[q] = IF \E n \in ns : IsPrefix(Append(d, n), q) THEN Absent ELSE view[q] IN
  /\ IF ~Exists(s) \/ ~Exists(d) THEN UNCHANGED view
     ELSE /\ Keeps(Paths \ Below(d), {})
          /\ ~shadowed => IF s = d THEN Without({}) \/ \E n \in same : Without({n})
                          ELSE \E ns \in SUBSET unseen : Without(same \cup ns)
  /\ UNCHANGED shadowed

UnmountAll(d) ==
  /\ Keeps(Paths \ Below(d), {})
  /\ Exists(d) => Gone(Below(d))
  /\ UNCHANGED shadowed

Serve == LET c == call IN
  /\ call # NoCall /\ call' = NoCall
  /\ \/ c.op = "set" /\ Set(c.p, c.v)
     \/ c.op = "delete" /\ Delete(c.p)
     \/ c.op = "move" /\ Move(c.s, c.d)
     \/ c.op = "mount" /\ Mount(c.s, c.d, c.before)
     \/ c.op = "bind" /\ Bind(c.s, c.d)
     \/ c.op = "unmount" /\ Unmount(c.s, c.d)
     \/ c.op = "unmount all" /\ UnmountAll(c.d)

Ask ==
  /\ call = NoCall /\ call' \in Calls
  /\ UNCHANGED <<view, shadowed>>

NamespaceSpec == NamespaceInit /\ [][Ask \/ Serve]_nvars
=============================================================================
