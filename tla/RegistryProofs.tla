--------------------------- MODULE RegistryProofs ---------------------------
(***************************************************************************)
(* Proofs about Registry, for any names, values, calls and sizes: the keys *)
(* form a tree whatever is called, the path that a key carries leads back  *)
(* to it unless a call has put a slash into it, and Registry implements    *)
(* Namespace, also by the mounts and binds, which copy key by key.         *)
(*                                                                         *)
(* RegistryTerms has the invariants and what is assumed of the calls.      *)
(***************************************************************************)
EXTENDS RegistryTerms, TLAPS, WellFoundedInduction, FiniteSetTheorems, SequenceTheorems

-----------------------------------------------------------------------------
(* Numbers, sequences and lists *)

\* A set of numbers that is not empty has a least member.
LEMMA LeastNumber ==
  ASSUME NEW S \in SUBSET Nat, S # {}
  PROVE  \E i \in S : \A j \in S : i <= j
<1> DEFINE Less == {ss \in Nat \X Nat : ss[1] < ss[2]}
<1>1. PICK x \in S : \A y \in S : <<y, x>> \notin Less
  <2>1. IsWellFoundedOn(Less, Nat) BY NatLessThanWellFounded, Zenon DEF OpToRel
  <2> HIDE DEF Less
  <2> QED BY <2>1, WFMin, Zenon
<1>2. \A y \in S : ~ (y < x) BY <1>1
<1> QED BY <1>1, <1>2

\* A set that holds 0 and with a number below n the next one holds 0..n.
LEMMA Counted ==
  ASSUME NEW n \in Nat, NEW S, 0 \in S, \A i \in 0..(n - 1) : i \in S => i + 1 \in S
  PROVE  \A i \in 0..n : i \in S
<1> DEFINE left == {i \in 0..n : i \notin S}
<1> SUFFICES ASSUME left # {} PROVE FALSE OBVIOUS
<1>1. PICK i \in left : \A j \in left : i <= j
  <2>1. left \in SUBSET Nat OBVIOUS
  <2> HIDE DEF left
  <2> QED BY <2>1, LeastNumber
<1>2. i # 0 /\ i - 1 \in 0..(n - 1) BY <1>1
<1>3. i - 1 \in S BY <1>1, <1>2
<1> QED BY <1>1, <1>2, <1>3

\* Min of a set of numbers is its least member.
LEMMA MinIn ==
  ASSUME NEW S \in SUBSET Nat, S # {}
  PROVE  Min(S) \in S /\ \A j \in S : Min(S) <= j
BY LeastNumber DEF Min

\* The children of a key in a typed tree.
LEMMA ChildrenIn ==
  ASSUME NEW t, Typed(t), NEW k \in DOMAIN t
  PROVE  /\ t[k].children \in Seq(DOMAIN t) /\ Range(t[k].children) \subseteq DOMAIN t
         /\ DOMAIN t[k].children = 1..Len(t[k].children) /\ Len(t[k].children) \in Nat
         /\ \A i \in 1..Len(t[k].children) : t[k].children[i] \in DOMAIN t
BY DEF Typed, Rec, Range

\* Place finds an element that is in the list.
LEMMA PlaceSound ==
  ASSUME NEW D, NEW s \in Seq(D), NEW c
  PROVE  \/ Place(s, c) = 0 /\ c \notin Range(s)
         \/ Place(s, c) \in 1..Len(s) /\ s[Place(s, c)] = c
<1> DEFINE at == {i \in DOMAIN s : s[i] = c}
<1>1. Place(s, c) = IF at = {} THEN 0 ELSE Min(at) BY DEF Place
<1>2. at \in SUBSET Nat /\ DOMAIN s = 1..Len(s) OBVIOUS
<1>3. at # {} => Min(at) \in at BY <1>2, MinIn
<1>4. at = {} => c \notin Range(s) BY DEF Range
<1> QED BY <1>1, <1>2, <1>3, <1>4

\* The elements of two sequences put together.
LEMMA Joined ==
  ASSUME NEW D, NEW a \in Seq(D), NEW b \in Seq(D), NEW i \in 1..(Len(a) + Len(b))
  PROVE  (a \o b)[i] = IF i <= Len(a) THEN a[i] ELSE b[i - Len(a)]
OBVIOUS

\* A list without the element at a place.
LEMMA RemoveAtSound ==
  ASSUME NEW D, NEW s \in Seq(D), IsInjective(s), NEW at \in 1..Len(s)
  PROVE  /\ RemoveAt(s, at) \in Seq(D) /\ IsInjective(RemoveAt(s, at))
         /\ Range(RemoveAt(s, at)) = Range(s) \ {s[at]}
<1> DEFINE r == RemoveAt(s, at)
<1>1. r = SubSeq(s, 1, at - 1) \o SubSeq(s, at + 1, Len(s)) BY DEF RemoveAt
<1>2. /\ r \in Seq(D) /\ Len(r) = Len(s) - 1
      /\ \A i \in 1..Len(r) : r[i] = s[IF i < at THEN i ELSE i + 1]
  <2> DEFINE a == SubSeq(s, 1, at - 1)  b == SubSeq(s, at + 1, Len(s))
  <2>1. a \in Seq(D) /\ Len(a) = at - 1 /\ \A i \in 1..(at - 1) : a[i] = s[i]
    OBVIOUS
  <2>2. b \in Seq(D) /\ Len(b) = Len(s) - at /\ \A i \in 1..(Len(s) - at) : b[i] = s[at + i]
    OBVIOUS
  <2> HIDE DEF a, b
  <2>3. r \in Seq(D) /\ Len(r) = Len(a) + Len(b) BY <1>1, <2>1, <2>2 DEF a, b
  <2>4. Len(r) = Len(s) - 1 BY <2>1, <2>2, <2>3
  <2>5. ASSUME NEW i \in 1..Len(r) PROVE r[i] = s[IF i < at THEN i ELSE i + 1]
    <3>1. r[i] = IF i <= Len(a) THEN a[i] ELSE b[i - Len(a)]
      <4>1. i \in 1..(Len(a) + Len(b)) /\ r = a \o b BY <1>1, <2>3, <2>5 DEF a, b
      <4> QED BY <2>1, <2>2, <4>1, Joined
    <3>2. CASE i < at BY <2>1, <2>5, <3>1, <3>2
    <3>3. CASE ~ (i < at) BY <2>1, <2>2, <2>4, <2>5, <3>1, <3>3
    <3> QED BY <3>2, <3>3
  <2> QED BY <2>3, <2>4, <2>5
<1>3. DOMAIN r = 1..(Len(s) - 1) /\ DOMAIN s = 1..Len(s) BY <1>2
<1> HIDE DEF r
<1>4. IsInjective(r)
  <2> SUFFICES ASSUME NEW i \in DOMAIN r, NEW j \in DOMAIN r, r[i] = r[j]
               PROVE  i = j
    BY DEF IsInjective
  <2> DEFINE x == IF i < at THEN i ELSE i + 1
             y == IF j < at THEN j ELSE j + 1
  <2>1. x \in DOMAIN s /\ y \in DOMAIN s /\ s[x] = s[y] BY <1>2, <1>3
  <2>2. x = y BY <2>1, Zenon DEF IsInjective
  <2> QED BY <2>2, <1>3
<1>5. Range(r) \subseteq Range(s) \ {s[at]}
  <2> SUFFICES ASSUME NEW i \in DOMAIN r PROVE r[i] \in Range(s) /\ r[i] # s[at]
    BY DEF Range
  <2> DEFINE x == IF i < at THEN i ELSE i + 1
  <2>1. x \in DOMAIN s /\ r[i] = s[x] /\ x # at /\ at \in DOMAIN s BY <1>2, <1>3
  <2> HIDE DEF x
  <2> QED BY <2>1 DEF Range, IsInjective
<1>6. Range(s) \ {s[at]} \subseteq Range(r)
  <2> SUFFICES ASSUME NEW i \in DOMAIN s, i # at PROVE s[i] \in Range(r)
    BY DEF Range
  <2> DEFINE x == IF i < at THEN i ELSE i - 1
  <2>1. x \in DOMAIN r /\ r[x] = s[i] BY <1>2, <1>3
  <2> QED BY <2>1 DEF Range
<1> QED BY <1>2, <1>4, <1>5, <1>6 DEF r

\* A list that has each element of S once.
ListOf(s, D, S) == s \in Seq(D) /\ IsInjective(s) /\ Range(s) = S

\* A list with a new first or last element.
LEMMA ListGrows ==
  ASSUME NEW D, NEW s \in Seq(D), NEW c \in D, IsInjective(s), c \notin Range(s)
  PROVE  ListOf(<<c>> \o s, D, Range(s) \cup {c}) /\ ListOf(Append(s, c), D, Range(s) \cup {c})
<1> DEFINE f == <<c>> \o s  l == Append(s, c)
<1>1. /\ f \in Seq(D) /\ DOMAIN f = 1..(Len(s) + 1) /\ f[1] = c
      /\ \A i \in 2..(Len(s) + 1) : f[i] = s[i - 1]
      /\ l \in Seq(D) /\ DOMAIN l = 1..(Len(s) + 1) /\ l[Len(s) + 1] = c
      /\ \A i \in 1..Len(s) : l[i] = s[i]
      /\ DOMAIN s = 1..Len(s) /\ Len(s) \in Nat
  OBVIOUS
<1> HIDE DEF f, l
<1>2. \A i \in 1..Len(s) : f[i + 1] = s[i] /\ i + 1 \in DOMAIN f /\ i \in DOMAIN l
  <2> TAKE i \in 1..Len(s)
  <2>1. i + 1 \in 2..(Len(s) + 1) /\ (i + 1) - 1 = i BY <1>1
  <2> QED BY <1>1, <2>1
<1>3. Range(f) = Range(s) \cup {c}
  <2>1. \A i \in DOMAIN f : f[i] \in Range(s) \cup {c}
    <3> SUFFICES ASSUME NEW i \in DOMAIN f, i # 1 PROVE f[i] \in Range(s) BY <1>1
    <3>1. i \in 2..(Len(s) + 1) /\ i - 1 \in DOMAIN s BY <1>1
    <3> QED BY <1>1, <3>1 DEF Range
  <2>2. c \in Range(f) BY <1>1 DEF Range
  <2>3. \A i \in DOMAIN s : s[i] \in Range(f) BY <1>1, <1>2 DEF Range
  <2> QED BY <2>1, <2>2, <2>3 DEF Range
<1>4. Range(l) = Range(s) \cup {c} BY <1>1, <1>2 DEF Range
<1>5. IsInjective(f)
  <2> SUFFICES ASSUME NEW i \in DOMAIN f, NEW j \in DOMAIN f, f[i] = f[j] PROVE i = j
    BY DEF IsInjective
  <2>1. \A x \in DOMAIN f : x = 1 \/ (x - 1 \in DOMAIN s /\ f[x] = s[x - 1] /\ f[x] # c)
    BY <1>1 DEF Range
  <2>2. CASE i = 1 \/ j = 1 BY <1>1, <2>1, <2>2
  <2>3. CASE i # 1 /\ j # 1 BY <1>1, <2>1, <2>3 DEF IsInjective
  <2> QED BY <2>2, <2>3
<1>6. IsInjective(l)
  <2> SUFFICES ASSUME NEW i \in DOMAIN l, NEW j \in DOMAIN l, l[i] = l[j] PROVE i = j
    BY DEF IsInjective
  <2>1. \A x \in DOMAIN l : x = Len(s) + 1 \/ (x \in DOMAIN s /\ l[x] = s[x] /\ l[x] # c)
    BY <1>1 DEF Range
  <2> QED BY <1>1, <2>1 DEF IsInjective
<1> QED BY <1>1, <1>3, <1>4, <1>5, <1>6 DEF f, l, ListOf

-----------------------------------------------------------------------------
(* Paths *)

\* A path cut to the size of its field.
LEMMA TruncatedSound ==
  ASSUME NEW p \in Seq(Strings)
  PROVE  /\ Truncated(p) \in Texts /\ Truncated(p) \in Seq(Strings)
         /\ Len(Truncated(p)) \in Nat /\ Len(Truncated(p)) <= PathMax
         /\ Len(p) <= PathMax => Truncated(p) = p
         /\ Len(Truncated(p)) <= Len(p) /\ (p # << >> => Len(Truncated(p)) >= 1)
         /\ \A i \in 1..Len(Truncated(p)) : Truncated(p)[i] = p[i]
BY BoundAssumption DEF Truncated, Texts

\* Find returns the first child of a name, or none has it.
LEMMA FindSound ==
  ASSUME NEW t, Typed(t), NEW k \in DOMAIN t, NEW n
  PROVE  \/ /\ Find(t, k, n) = Null
            /\ \A c \in Range(t[k].children) : t[c].name # n
         \/ /\ Find(t, k, n) \in Range(t[k].children)
            /\ Find(t, k, n) \in DOMAIN t /\ Find(t, k, n) # Null
            /\ t[Find(t, k, n)].name = n
<1> DEFINE s == t[k].children
           at == {i \in DOMAIN s : t[s[i]].name = n}
<1>1. Find(t, k, n) = IF at = {} THEN Null ELSE s[Min(at)] BY DEF Find
<1>2. DOMAIN s = 1..Len(s) /\ Len(s) \in Nat /\ Range(s) \subseteq DOMAIN t
  BY ChildrenIn
<1>3. at # {} => Min(at) \in at
  <2>1. at \in SUBSET Nat BY <1>2
  <2> HIDE DEF at
  <2> QED BY <2>1, MinIn
<1>4. Null \notin DOMAIN t BY BoundAssumption DEF Typed, Ids, Null
<1>5. CASE at = {}
  <2>1. Find(t, k, n) = Null BY <1>1, <1>5
  <2>2. \A i \in DOMAIN s : t[s[i]].name # n BY <1>5
  <2> HIDE DEF s
  <2>3. \A c \in Range(s) : t[c].name # n BY <2>2 DEF Range
  <2> QED BY <2>1, <2>3 DEF s
<1>6. CASE at # {}
  <2> DEFINE i == Min(at)
  <2>1. i \in DOMAIN s /\ t[s[i]].name = n /\ Find(t, k, n) = s[i]
    BY <1>1, <1>3, <1>6
  <2> HIDE DEF i, at, s
  <2>2. s[i] \in Range(s) BY <2>1 DEF Range
  <2>3. s[i] \in DOMAIN t /\ s[i] # Null BY <1>2, <1>4, <2>2
  <2> QED BY <2>1, <2>2, <2>3 DEF s
<1> QED BY <1>5, <1>6

\* One turn of the loop of reg_lookup.
Turn(t, k, n) == IF k = Null \/ n = Empty THEN k ELSE Find(t, k, n)

\* reg_lookup goes through a key per name of its path.
LEMMA LookupSteps ==
  ASSUME NEW t, NEW path \in Seq(Strings)
  PROVE  \E f : /\ f[0] = Root
                /\ \A i \in 1..Len(Truncated(path)) : f[i] = Turn(t, f[i - 1], Truncated(path)[i])
                /\ Lookup(t, path) = f[Len(Truncated(path))]
<1> DEFINE p == Truncated(path)
           F(n, f) == f = [i \in 0..n |-> IF i = 0 THEN Root
                             ELSE LET k == f[i - 1] IN IF k = Null \/ p[i] = Empty THEN k ELSE Find(t, k, p[i])]
           S == {n \in 0..Len(p) : \E f : F(n, f)}
<1>0. Len(p) \in Nat BY TruncatedSound
<1>1. 0 \in S
  <2>1. F(0, [i \in 0..0 |-> Root]) OBVIOUS
  <2> HIDE DEF F
  <2>2. \E f : F(0, f) BY <2>1
  <2> QED BY <2>2, <1>0
<1>2. ASSUME NEW n \in 0..(Len(p) - 1), n \in S PROVE n + 1 \in S
  <2>1. PICK f : F(n, f) BY <1>2
  <2> DEFINE x == LET k == f[n] IN IF k = Null \/ p[n + 1] = Empty THEN k ELSE Find(t, k, p[n + 1])
             g == [i \in 0..(n + 1) |-> IF i = n + 1 THEN x ELSE f[i]]
  <2>2. F(n + 1, g) BY <2>1
  <2> HIDE DEF F, g, x
  <2>3. \E h : F(n + 1, h) BY <2>2
  <2> QED BY <2>3, <1>0
<1>3. \E f : F(Len(p), f)
  <2> HIDE DEF F, S
  <2>1. \A n \in 0..Len(p) : n \in S BY <1>0, <1>1, <1>2, Counted
  <2>2. Len(p) \in S BY <1>0, <2>1
  <2> QED BY <2>2 DEF S
<1> DEFINE g == CHOOSE f : F(Len(p), f)
<1>4. F(Len(p), g)
  <2> HIDE DEF F
  <2> QED BY <1>3
<1>5. Lookup(t, path) = g[Len(p)] BY DEF Lookup
<1> HIDE DEF g
<1>6. \A i \in 0..Len(p) : g[i] = IF i = 0 THEN Root
                               ELSE LET k == g[i - 1] IN IF k = Null \/ p[i] = Empty THEN k ELSE Find(t, k, p[i])
  <2> HIDE DEF p
  <2> QED BY <1>4, Zenon
<1>7. g[0] = Root /\ \A i \in 1..Len(p) : g[i] = Turn(t, g[i - 1], p[i])
  BY <1>0, <1>6 DEF Turn
<1> QED BY <1>5, <1>7

\* reg_lookup finds nothing or a key of the root's tree; the root itself only
\* if the path starts with no name.
LEMMA LookupSound ==
  ASSUME NEW t, Typed(t), Root \in DOMAIN t, NEW path \in Seq(Strings)
  PROVE  /\ Lookup(t, path) \in DOMAIN t \cup {Null}
         /\ \A S \in SUBSET DOMAIN t : Root \in S /\ Closed(t, S) => Lookup(t, path) \in S \cup {Null}
         /\ path # << >> /\ path[1] # Empty /\ Linked(t) /\ t[Root].parent = Null => Lookup(t, path) # Root
<1>1. PICK f : /\ f[0] = Root
               /\ \A i \in 1..Len(Truncated(path)) : f[i] = Turn(t, f[i - 1], Truncated(path)[i])
               /\ Lookup(t, path) = f[Len(Truncated(path))]
  BY LookupSteps
<1> DEFINE n == Len(Truncated(path))
<1>2. n \in Nat /\ (path # << >> => n >= 1 /\ Truncated(path)[1] = path[1])
  BY TruncatedSound
<1>3. Null \notin DOMAIN t BY BoundAssumption DEF Typed, Ids, Null
<1>4. ASSUME NEW S \in SUBSET DOMAIN t, Root \in S, Closed(t, S)
      PROVE  Lookup(t, path) \in S \cup {Null}
  <2> DEFINE A == {i \in 0..n : f[i] \in S \cup {Null}}
  <2>1. 0 \in A BY <1>1, <1>2, <1>4
  <2>2. ASSUME NEW i \in 0..(n - 1), i \in A PROVE i + 1 \in A
    BY <1>1, <1>2, <1>4, <2>2, FindSound DEF Turn, Closed
  <2> HIDE DEF A
  <2>3. \A i \in 0..n : i \in A
    <3> HIDE DEF n
    <3> QED BY <1>2, <2>1, <2>2, Counted
  <2> QED BY <1>1, <1>2, <2>3 DEF A
<1>5. Lookup(t, path) \in DOMAIN t \cup {Null} BY <1>4, ChildrenIn DEF Closed
<1>6. ASSUME path # << >>, path[1] # Empty, Linked(t), t[Root].parent = Null
      PROVE  Lookup(t, path) # Root
  <2> DEFINE A == {i \in 0..n : i >= 1 => f[i] \in DOMAIN t \cup {Null} /\ f[i] # Root}
  <2>0. \A k \in DOMAIN t : \A m : Find(t, k, m) \in DOMAIN t \cup {Null} /\ Find(t, k, m) # Root
    <3> TAKE k \in DOMAIN t
    <3> TAKE m
    <3>1. Find(t, k, m) = Null \/ (Find(t, k, m) \in Range(t[k].children) /\ Find(t, k, m) \in DOMAIN t)
      BY FindSound
    <3>2. Root \notin Range(t[k].children) BY <1>3, <1>6 DEF Linked
    <3>3. Null # Root BY DEF Null, Root
    <3> QED BY <3>1, <3>2, <3>3
  <2>1. 0 \in A BY <1>2
  <2>2. ASSUME NEW i \in 0..(n - 1), i \in A PROVE i + 1 \in A
    BY <1>1, <1>2, <1>6, <2>0, <2>2 DEF Turn, Root, Null
  <2> HIDE DEF A
  <2>3. \A i \in 0..n : i \in A
    <3> HIDE DEF n
    <3> QED BY <1>2, <2>1, <2>2, Counted
  <2> QED BY <1>1, <1>2, <1>6, <2>3 DEF A
<1> QED BY <1>4, <1>5, <1>6

-----------------------------------------------------------------------------
(* Trees *)

\* Null is no key.
LEMMA NullIsNone == Null \notin Ids /\ Root # Null /\ MaxKeys \in Nat /\ PathMax \in Nat \ {0}
BY BoundAssumption DEF Null, Root, Ids

\* No child is a root, and no key is the child of two.
LEMMA OneParent ==
  ASSUME NEW t, Typed(t), Linked(t), NEW k \in DOMAIN t, NEW c \in Range(t[k].children)
  PROVE  /\ c \in DOMAIN t /\ t[c].parent = k /\ t[c].parent # Null
         /\ \A j \in DOMAIN t : c \in Range(t[j].children) => j = k
BY ChildrenIn, NullIsNone DEF Typed, Linked

\* A key that is no root is a child of its parent.
LEMMA HasParent ==
  ASSUME NEW t, NEW R, Forest(t, R), NEW k \in DOMAIN t, k \notin R
  PROVE  t[k].parent \in DOMAIN t /\ k \in Range(t[t[k].parent].children)
<1> DEFINE S == DOMAIN t \ {k}
<1>1. ~ Closed(t, S) BY DEF Forest, Rooted
<1>2. PICK j \in S : ~ (Range(t[j].children) \subseteq S) BY <1>1 DEF Closed
<1>3. Range(t[j].children) \subseteq DOMAIN t BY <1>2, ChildrenIn DEF Forest
<1>4. k \in Range(t[j].children) BY <1>2, <1>3
<1> QED BY <1>2, <1>4 DEF Forest, Linked

\* A tree without the keys of a closed set.
LEMMA ForestDrops ==
  ASSUME NEW t, NEW R, Forest(t, R), NEW X \in SUBSET DOMAIN t, Closed(t, X),
         NEW u, Typed(u), DOMAIN u = DOMAIN t \ X,
         \A j \in DOMAIN u : /\ u[j].parent = t[j].parent
                             /\ IsInjective(u[j].children)
                             /\ Range(u[j].children) = Range(t[j].children) \ X
  PROVE  Forest(u, R \ X)
<1>1. Linked(u) BY OneParent DEF Linked, Forest
<1>2. Rooted(u, R \ X)
  <2> SUFFICES ASSUME NEW S \in SUBSET DOMAIN u, R \ X \subseteq S, Closed(u, S)
               PROVE  S = DOMAIN u
    BY DEF Rooted
  <2>1. Closed(t, S \cup X) BY DEF Closed
  <2>2. R \subseteq S \cup X /\ S \cup X \in SUBSET DOMAIN t OBVIOUS
  <2>3. S \cup X = DOMAIN t BY <2>1, <2>2 DEF Forest, Rooted
  <2> QED BY <2>3
<1>3. R \ X \subseteq DOMAIN u /\ \A k \in R \ X : u[k].parent = Null BY DEF Forest
<1> QED BY <1>1, <1>2, <1>3 DEF Forest

-----------------------------------------------------------------------------
(* What is below a key *)

\* f has the keys reached after so many turns of the loop over a key's
\* descendants, f[MaxKeys] the result.
Reached(t, k, f) ==
  /\ f[0] = {k}
  /\ \A i \in 0..(MaxKeys - 1) : f[i + 1] = f[i] \cup UNION {Range(t[j].children) : j \in f[i]}
  /\ Subtree(t, k) = f[MaxKeys]

\* There is such a function.
LEMMA SubtreeSteps ==
  ASSUME NEW t, NEW k
  PROVE  \E f : Reached(t, k, f)
<1> DEFINE F(n, f) == f = [i \in 0..n |-> IF i = 0 THEN {k}
                             ELSE LET js == f[i - 1] IN js \cup UNION {Range(t[j].children) : j \in js}]
           S == {n \in 0..MaxKeys : \E f : F(n, f)}
<1>0. MaxKeys \in Nat BY NullIsNone
<1>1. 0 \in S
  <2>1. F(0, [i \in 0..0 |-> {k}]) OBVIOUS
  <2> HIDE DEF F
  <2>2. \E f : F(0, f) BY <2>1
  <2> QED BY <2>2, <1>0
<1>2. ASSUME NEW n \in 0..(MaxKeys - 1), n \in S PROVE n + 1 \in S
  <2>1. PICK f : F(n, f) BY <1>2
  <2> DEFINE x == LET js == f[n] IN js \cup UNION {Range(t[j].children) : j \in js}
             g == [i \in 0..(n + 1) |-> IF i = n + 1 THEN x ELSE f[i]]
  <2>2. F(n + 1, g)
    <3> DEFINE V(ff, i) == IF i = 0 THEN {k}
                           ELSE LET js == ff[i - 1] IN js \cup UNION {Range(t[j].children) : j \in js}
    <3>1. \A i \in 0..n : f[i] = V(f, i) BY <2>1, Zenon
    <3>2. ASSUME NEW i \in 0..(n + 1) PROVE g[i] = V(g, i)
      <4>1. CASE i = 0
        <5>1. 0 \in 0..n /\ 0 # n + 1 /\ g[i] = f[0] BY <1>2, <4>1
        <5> QED BY <3>1, <4>1, <5>1
      <4>2. CASE i = n + 1
        <5>1. i - 1 = n /\ i # 0 /\ g[i] = x /\ g[n] = f[n] BY <1>2, <4>2
        <5> HIDE DEF g
        <5> QED BY <5>1, Zenon
      <4>3. CASE i # 0 /\ i # n + 1
        <5>1. i \in 0..n /\ g[i] = f[i] /\ g[i - 1] = f[i - 1] BY <1>2, <3>2, <4>3
        <5> HIDE DEF g
        <5> QED BY <3>1, <4>3, <5>1, Zenon
      <4> QED BY <4>1, <4>2, <4>3
    <3>3. g = [i \in 0..(n + 1) |-> g[i]] OBVIOUS
    <3> HIDE DEF g
    <3> QED BY <3>2, <3>3, Zenon
  <2> HIDE DEF F, g, x
  <2>3. \E h : F(n + 1, h) BY <2>2
  <2> QED BY <2>3, <1>0
<1>3. \E f : F(MaxKeys, f)
  <2> HIDE DEF F, S
  <2>1. \A n \in 0..MaxKeys : n \in S BY <1>0, <1>1, <1>2, Counted
  <2>2. MaxKeys \in S BY <1>0, <2>1
  <2> QED BY <2>2 DEF S
<1> DEFINE g == CHOOSE f : F(MaxKeys, f)
<1>4. F(MaxKeys, g)
  <2> HIDE DEF F
  <2> QED BY <1>3
<1>5. Subtree(t, k) = g[MaxKeys] BY DEF Subtree
<1> HIDE DEF g
<1>6. \A i \in 0..MaxKeys : g[i] = IF i = 0 THEN {k}
                               ELSE LET js == g[i - 1] IN js \cup UNION {Range(t[j].children) : j \in js}
  BY <1>4, Zenon
<1>7. 0 \in 0..MaxKeys /\ \A i \in 0..(MaxKeys - 1) : i + 1 \in 0..MaxKeys /\ i + 1 # 0 /\ (i + 1) - 1 = i
  BY <1>0
<1>8. g[0] = {k} BY <1>6, <1>7
<1>9. ASSUME NEW i \in 0..(MaxKeys - 1) PROVE g[i + 1] = g[i] \cup UNION {Range(t[j].children) : j \in g[i]}
  <2> DEFINE m == i + 1
  <2>1. m \in 0..MaxKeys /\ m # 0 /\ m - 1 = i BY <1>7
  <2> HIDE DEF m
  <2>2. g[m] = LET js == g[m - 1] IN js \cup UNION {Range(t[j].children) : j \in js}
    BY <1>6, <2>1, Zenon
  <2> QED BY <2>1, <2>2, Zenon DEF m
<1>10. Reached(t, k, g) BY <1>5, <1>8, <1>9 DEF Reached
<1> QED BY <1>10

\* It takes no more turns than there are keys: the result is the least closed
\* set that has the key.
LEMMA SubtreeSound ==
  ASSUME NEW t, Typed(t), NEW k \in DOMAIN t
  PROVE  /\ Subtree(t, k) \in SUBSET DOMAIN t /\ k \in Subtree(t, k) /\ Closed(t, Subtree(t, k))
         /\ \A S : k \in S /\ Closed(t, S) => Subtree(t, k) \subseteq S
<1>a. PICK f : Reached(t, k, f) BY SubtreeSteps
<1>1. /\ f[0] = {k}
      /\ \A i \in 0..(MaxKeys - 1) : f[i + 1] = f[i] \cup UNION {Range(t[j].children) : j \in f[i]}
      /\ Subtree(t, k) = f[MaxKeys]
  BY <1>a DEF Reached
<1>0. MaxKeys \in Nat BY NullIsNone
<1>2. ASSUME NEW S, k \in S, Closed(t, S) PROVE f[MaxKeys] \subseteq S
  <2> DEFINE A == {i \in 0..MaxKeys : f[i] \subseteq S}
  <2>1. 0 \in A BY <1>0, <1>1, <1>2
  <2>2. ASSUME NEW i \in 0..(MaxKeys - 1), i \in A PROVE i + 1 \in A
    BY <1>0, <1>1, <1>2, <2>2 DEF Closed
  <2> HIDE DEF A
  <2>3. \A i \in 0..MaxKeys : i \in A BY <1>0, <2>1, <2>2, Counted
  <2> QED BY <1>0, <2>3 DEF A
<1>3. \A i \in 0..MaxKeys : f[i] \in SUBSET DOMAIN t /\ k \in f[i]
  <2> DEFINE A == {i \in 0..MaxKeys : f[i] \in SUBSET DOMAIN t /\ k \in f[i]}
  <2>1. 0 \in A BY <1>0, <1>1
  <2>2. ASSUME NEW i \in 0..(MaxKeys - 1), i \in A PROVE i + 1 \in A
    BY <1>0, <1>1, <2>2, ChildrenIn
  <2> HIDE DEF A
  <2>3. \A i \in 0..MaxKeys : i \in A BY <1>0, <2>1, <2>2, Counted
  <2> QED BY <2>3 DEF A
\* A turn that adds nothing has come to an end: all others add a key.
<1>4. IsFiniteSet(DOMAIN t) /\ Cardinality(DOMAIN t) <= MaxKeys
  <2>1. IsFiniteSet(Ids) /\ Cardinality(Ids) = MaxKeys BY <1>0, FS_Interval DEF Ids
  <2> QED BY <2>1, FS_Subset DEF Typed
<1>5. \A i \in 0..MaxKeys : Closed(t, f[i]) \/ Cardinality(f[i]) >= i + 1
  <2> DEFINE A == {i \in 0..MaxKeys : Closed(t, f[i]) \/ Cardinality(f[i]) >= i + 1}
  <2>1. 0 \in A
    <3>1. Cardinality(f[0]) = 1 BY <1>1, FS_Singleton
    <3> QED BY <1>0, <3>1
  <2>2. ASSUME NEW i \in 0..(MaxKeys - 1), i \in A PROVE i + 1 \in A
    <3>0. i \in 0..MaxKeys /\ i + 1 \in 0..MaxKeys /\ i \in Nat BY <1>0
    <3>1. f[i + 1] = f[i] \cup UNION {Range(t[j].children) : j \in f[i]} BY <1>1
    <3>2. CASE Closed(t, f[i])
      <4>1. f[i + 1] = f[i] BY <3>1, <3>2 DEF Closed
      <4> QED BY <3>0, <3>2, <4>1
    <3>3. CASE ~ Closed(t, f[i])
      <4>1. f[i] \subseteq f[i + 1] /\ f[i + 1] # f[i] BY <3>1, <3>3 DEF Closed
      <4>2. IsFiniteSet(f[i + 1]) /\ IsFiniteSet(f[i])
        BY <1>3, <1>4, <3>0, FS_Subset
      <4>3. /\ Cardinality(f[i]) \in Nat /\ Cardinality(f[i + 1]) \in Nat
            /\ Cardinality(f[i]) < Cardinality(f[i + 1])
        BY <4>1, <4>2, FS_Subset, FS_CardinalityType
      <4>4. Cardinality(f[i]) >= i + 1 BY <2>2, <3>3
      <4> QED BY <3>0, <4>3, <4>4
    <3> QED BY <3>2, <3>3
  <2> HIDE DEF A
  <2>3. \A i \in 0..MaxKeys : i \in A BY <1>0, <2>1, <2>2, Counted
  <2> QED BY <2>3 DEF A
<1>6. Closed(t, f[MaxKeys])
  <2>1. MaxKeys \in 0..MaxKeys BY <1>0
  <2>2. /\ Cardinality(f[MaxKeys]) \in Nat /\ Cardinality(DOMAIN t) \in Nat
        /\ Cardinality(f[MaxKeys]) <= Cardinality(DOMAIN t)
    BY <1>3, <1>4, <2>1, FS_Subset, FS_CardinalityType
  <2> QED BY <1>0, <1>4, <1>5, <2>1, <2>2
<1> QED BY <1>0, <1>1, <1>2, <1>3, <1>6

-----------------------------------------------------------------------------
(* One key changed *)

\* t with another list of children for a key, and what that is.
SetChildren(t, k, s) == [t EXCEPT ![k].children = s]
ChildrenSetIn(t, u, k, s) ==
  /\ Typed(u) /\ DOMAIN u = DOMAIN t
  /\ \A j \in DOMAIN t : /\ u[j].children = IF j = k THEN s ELSE t[j].children
                         /\ u[j].parent = t[j].parent /\ u[j].name = t[j].name
                         /\ u[j].path = t[j].path /\ u[j].val = t[j].val

\* A key gets another list of children.
LEMMA ChildrenSet ==
  ASSUME NEW t, Typed(t), NEW k \in DOMAIN t, NEW s \in Seq(DOMAIN t)
  PROVE  ChildrenSetIn(t, SetChildren(t, k, s), k, s)
BY DEF Typed, Rec, SetChildren, ChildrenSetIn

\* t with another parent for a key.
SetParent(t, k, p) == [t EXCEPT ![k].parent = p]
ParentSetIn(t, u, k, p) ==
  /\ Typed(u) /\ DOMAIN u = DOMAIN t
  /\ \A j \in DOMAIN t : /\ u[j].parent = IF j = k THEN p ELSE t[j].parent
                         /\ u[j].children = t[j].children /\ u[j].name = t[j].name
                         /\ u[j].path = t[j].path /\ u[j].val = t[j].val

\* A key gets another parent.
LEMMA ParentSet ==
  ASSUME NEW t, Typed(t), NEW k \in DOMAIN t, NEW p \in DOMAIN t \cup {Null}
  PROVE  ParentSetIn(t, SetParent(t, k, p), k, p)
BY DEF Typed, Rec, SetParent, ParentSetIn

\* t with another value for a key.
SetVal(t, k, v) == [t EXCEPT ![k].val = v]
ValSetIn(t, u, k, v) ==
  /\ Typed(u) /\ DOMAIN u = DOMAIN t
  /\ \A j \in DOMAIN t : /\ u[j].val = IF j = k THEN v ELSE t[j].val
                         /\ u[j].children = t[j].children /\ u[j].parent = t[j].parent
                         /\ u[j].name = t[j].name /\ u[j].path = t[j].path

\* A key gets another value.
LEMMA ValSet ==
  ASSUME NEW t, Typed(t), NEW k \in DOMAIN t, NEW v \in Values \cup {Nil}
  PROVE  ValSetIn(t, SetVal(t, k, v), k, v)
BY DEF Typed, Rec, SetVal, ValSetIn

\* t with another name for a key.
SetName(t, k, n) == [t EXCEPT ![k].name = n]
NameSetIn(t, u, k, n) ==
  /\ Typed(u) /\ DOMAIN u = DOMAIN t
  /\ \A j \in DOMAIN t : /\ u[j].name = IF j = k THEN n ELSE t[j].name
                         /\ u[j].children = t[j].children /\ u[j].parent = t[j].parent
                         /\ u[j].path = t[j].path /\ u[j].val = t[j].val

\* A key gets another name.
LEMMA NameSet ==
  ASSUME NEW t, Typed(t), NEW k \in DOMAIN t, NEW n \in Strings
  PROVE  NameSetIn(t, SetName(t, k, n), k, n)
BY DEF Typed, Rec, SetName, NameSetIn

\* A tree stays one as long as parents and children do.
LEMMA ForestSame ==
  ASSUME NEW t, NEW R, Forest(t, R), NEW u, Typed(u), DOMAIN u = DOMAIN t,
         \A j \in DOMAIN t : u[j].parent = t[j].parent /\ u[j].children = t[j].children
  PROVE  Forest(u, R)
BY OneParent DEF Linked, Forest, Rooted, Closed

\* What is below a key but not the key itself has its parent there.
LEMMA ParentInside ==
  ASSUME NEW t, Typed(t), Linked(t), NEW k \in DOMAIN t, NEW c \in Subtree(t, k), c # k
  PROVE  t[c].parent \in Subtree(t, k) /\ c \in Range(t[t[c].parent].children) /\ t[c].parent # Null
<1> DEFINE S == Subtree(t, k) \ {c}
<1>1. ~ Closed(t, S) BY SubtreeSound
<1>2. PICK j \in S : ~ (Range(t[j].children) \subseteq S) BY <1>1 DEF Closed
<1>3. Range(t[j].children) \subseteq Subtree(t, k) /\ j \in DOMAIN t
  BY <1>2, SubtreeSound DEF Closed
<1>4. c \in Range(t[j].children) BY <1>2, <1>3
<1> QED BY <1>2, <1>3, <1>4, OneParent

-----------------------------------------------------------------------------
(* Keys come and go *)

\* u is t with k a tree of its own.
DetachedIn(t, u, R, k) ==
  /\ Forest(u, R \cup {k}) /\ DOMAIN u = DOMAIN t /\ t[k].parent \in DOMAIN t
  /\ \A j \in DOMAIN t : /\ u[j].name = t[j].name /\ u[j].path = t[j].path /\ u[j].val = t[j].val
                         /\ u[j].parent = IF j = k THEN Null ELSE t[j].parent
                         /\ Range(u[j].children) = IF j = t[k].parent THEN Range(t[j].children) \ {k}
                                                   ELSE Range(t[j].children)

\* regkey_detach_child makes a tree of its own of a key and what is below it.
LEMMA Detached ==
  ASSUME NEW t, NEW R, Forest(t, R), NEW k \in DOMAIN t, k \notin R
  PROVE  DetachedIn(t, DetachChild(t, t[k].parent, k), R, k)
<1> DEFINE u == DetachChild(t, t[k].parent, k)
           p == t[k].parent
           at == Place(t[p].children, k)
           s == RemoveAt(t[p].children, at)
           v == SetChildren(t, p, s)
<1>1. p \in DOMAIN t /\ k \in Range(t[p].children) /\ t[p].children \in Seq(DOMAIN t)
  BY HasParent, ChildrenIn DEF Forest
<1>2. at \in 1..Len(t[p].children) /\ t[p].children[at] = k /\ at # 0
  BY <1>1, PlaceSound
<1>3. s \in Seq(DOMAIN t) /\ IsInjective(s) /\ Range(s) = Range(t[p].children) \ {k}
  BY <1>1, <1>2, RemoveAtSound DEF Forest, Linked
<1>4. u = SetParent(v, k, Null) BY <1>2 DEF DetachChild, SetParent, SetChildren
<1> HIDE DEF at, s, u
<1>5. /\ Typed(v) /\ DOMAIN v = DOMAIN t
      /\ \A j \in DOMAIN t : /\ v[j].children = IF j = p THEN s ELSE t[j].children
                             /\ v[j].parent = t[j].parent /\ v[j].name = t[j].name
                             /\ v[j].path = t[j].path /\ v[j].val = t[j].val
  <2>1. ChildrenSetIn(t, v, p, s) BY <1>1, <1>3, ChildrenSet DEF Forest
  <2> QED BY <2>1 DEF ChildrenSetIn
<1> HIDE DEF v
<1>6. /\ Typed(u) /\ DOMAIN u = DOMAIN v
      /\ \A j \in DOMAIN v : /\ u[j].parent = IF j = k THEN Null ELSE v[j].parent
                             /\ u[j].children = v[j].children /\ u[j].name = v[j].name
                             /\ u[j].path = v[j].path /\ u[j].val = v[j].val
  <2>1. Typed(v) /\ k \in DOMAIN v /\ Null \in DOMAIN v \cup {Null} BY <1>5
  <2>2. ParentSetIn(v, u, k, Null) BY <1>4, <2>1, ParentSet
  <2> QED BY <2>2 DEF ParentSetIn
<1> HIDE DEF p
<1>7. /\ Typed(u) /\ DOMAIN u = DOMAIN t
      /\ \A j \in DOMAIN t : /\ u[j].name = t[j].name /\ u[j].path = t[j].path /\ u[j].val = t[j].val
                             /\ u[j].parent = IF j = k THEN Null ELSE t[j].parent
                             /\ u[j].children = IF j = p THEN s ELSE t[j].children
                             /\ Range(u[j].children) = IF j = p THEN Range(t[j].children) \ {k}
                                                       ELSE Range(t[j].children)
  <2>1. Typed(u) /\ DOMAIN u = DOMAIN t BY <1>5, <1>6
  <2>2. \A j \in DOMAIN t : /\ u[j].name = t[j].name /\ u[j].path = t[j].path /\ u[j].val = t[j].val
                            /\ u[j].parent = IF j = k THEN Null ELSE t[j].parent
                            /\ u[j].children = IF j = p THEN s ELSE t[j].children
    BY <1>5, <1>6
  <2>3. \A j \in DOMAIN t : Range(u[j].children) = IF j = p THEN Range(t[j].children) \ {k}
                                                   ELSE Range(t[j].children)
    <3> TAKE j \in DOMAIN t
    <3> QED BY <1>3, <2>2
  <2> QED BY <2>1, <2>2, <2>3
<1>8. Linked(u)
  <2> SUFFICES ASSUME NEW j \in DOMAIN u
               PROVE  /\ IsInjective(u[j].children)
                      /\ \A c \in Range(u[j].children) : u[c].parent = j
    BY DEF Linked
  <2>1. IsInjective(u[j].children) BY <1>3, <1>7 DEF Forest, Linked
  <2>2. ASSUME NEW c \in Range(u[j].children) PROVE u[c].parent = j
    <3>0. c \in Range(t[j].children) /\ j \in DOMAIN t BY <1>7, <2>2
    <3>1. c \in Range(t[j].children) /\ c \in DOMAIN t /\ t[c].parent = j
      BY <3>0, OneParent DEF Forest
    <3>2. c # k BY <1>1, <1>7, <2>2, <3>1 DEF p
    <3> QED BY <1>7, <3>1, <3>2
  <2> QED BY <2>1, <2>2
<1>9. Rooted(u, R \cup {k})
  <2> SUFFICES ASSUME NEW S \in SUBSET DOMAIN u, R \cup {k} \subseteq S, Closed(u, S)
               PROVE  S = DOMAIN u
    BY DEF Rooted
  <2>1. Closed(t, S) BY <1>7 DEF Closed
  <2> QED BY <1>7, <2>1 DEF Forest, Rooted
<1>10. R \cup {k} \subseteq DOMAIN u /\ \A j \in R \cup {k} : u[j].parent = Null
  BY <1>7 DEF Forest
<1> QED BY <1>1, <1>7, <1>8, <1>9, <1>10 DEF Forest, DetachedIn, p, u

\* u is t with the tree of k linked under P.
AttachedIn(t, u, R, k, P) ==
  /\ Forest(u, R) /\ DOMAIN u = DOMAIN t
  /\ \A j \in DOMAIN t : /\ u[j].name = t[j].name /\ u[j].path = t[j].path /\ u[j].val = t[j].val
                         /\ u[j].parent = IF j = k THEN P ELSE t[j].parent
                         /\ Range(u[j].children) = IF j = P THEN Range(t[j].children) \cup {k}
                                                   ELSE Range(t[j].children)

\* regkey_add_child and regkey_add_child_tail of a tree of its own.
LEMMA Attached ==
  ASSUME NEW t, NEW R, NEW k, k \notin R, Forest(t, R \cup {k}), NEW P, Below(t, R, P),
         NEW u, u = AddChild(t, P, k) \/ u = AddChildTail(t, P, k)
  PROVE  AttachedIn(t, u, R, k, P)
<1>0. P \in DOMAIN t BY DEF Below
<1>1. PICK s : /\ s \in {<<k>> \o t[P].children, Append(t[P].children, k)}
               /\ u = SetParent(SetChildren(t, P, s), k, P)
  BY DEF AddChild, AddChildTail, SetParent, SetChildren
<1> DEFINE v == SetChildren(t, P, s)
<1>2. k \in DOMAIN t /\ t[k].parent = Null /\ t[P].children \in Seq(DOMAIN t)
  BY <1>0, ChildrenIn DEF Forest
<1>3. k \notin Range(t[P].children) BY <1>0, <1>2, OneParent DEF Forest
<1>4. s \in Seq(DOMAIN t) /\ IsInjective(s) /\ Range(s) = Range(t[P].children) \cup {k}
  <2>1. IsInjective(t[P].children) BY <1>0 DEF Forest, Linked
  <2> DEFINE l == t[P].children
  <2>2. l \in Seq(DOMAIN t) /\ IsInjective(l) /\ k \notin Range(l) /\ k \in DOMAIN t
    BY <1>2, <1>3, <2>1
  <2>3. s = <<k>> \o l \/ s = Append(l, k) BY <1>1
  <2> HIDE DEF l
  <2>4. ListOf(<<k>> \o l, DOMAIN t, Range(l) \cup {k}) /\ ListOf(Append(l, k), DOMAIN t, Range(l) \cup {k})
    BY <2>2, ListGrows
  <2>6. s \in Seq(DOMAIN t) /\ IsInjective(s) /\ Range(s) = Range(l) \cup {k}
    BY <2>3, <2>4 DEF ListOf
  <2> QED BY <2>6 DEF l
<1>5. /\ Typed(v) /\ DOMAIN v = DOMAIN t
      /\ \A j \in DOMAIN t : /\ v[j].children = IF j = P THEN s ELSE t[j].children
                             /\ v[j].parent = t[j].parent /\ v[j].name = t[j].name
                             /\ v[j].path = t[j].path /\ v[j].val = t[j].val
  BY <1>0, <1>4, ChildrenSet DEF Forest, ChildrenSetIn
<1>6. u = SetParent(v, k, P) BY <1>1
<1> HIDE DEF v
<1>7. /\ Typed(u) /\ DOMAIN u = DOMAIN v
      /\ \A j \in DOMAIN v : /\ u[j].parent = IF j = k THEN P ELSE v[j].parent
                             /\ u[j].children = v[j].children /\ u[j].name = v[j].name
                             /\ u[j].path = v[j].path /\ u[j].val = v[j].val
  <2>1. Typed(v) /\ k \in DOMAIN v /\ P \in DOMAIN v \cup {Null} BY <1>0, <1>2, <1>5
  <2>2. ParentSetIn(v, u, k, P) BY <1>6, <2>1, ParentSet
  <2> QED BY <2>2 DEF ParentSetIn
<1>8. /\ Typed(u) /\ DOMAIN u = DOMAIN t
      /\ \A j \in DOMAIN t : /\ u[j].name = t[j].name /\ u[j].path = t[j].path /\ u[j].val = t[j].val
                             /\ u[j].parent = IF j = k THEN P ELSE t[j].parent
                             /\ u[j].children = IF j = P THEN s ELSE t[j].children
                             /\ Range(u[j].children) = IF j = P THEN Range(t[j].children) \cup {k}
                                                       ELSE Range(t[j].children)
  <2>1. Typed(u) /\ DOMAIN u = DOMAIN t BY <1>5, <1>7
  <2>2. \A j \in DOMAIN t : /\ u[j].name = t[j].name /\ u[j].path = t[j].path /\ u[j].val = t[j].val
                            /\ u[j].parent = IF j = k THEN P ELSE t[j].parent
                            /\ u[j].children = IF j = P THEN s ELSE t[j].children
    BY <1>5, <1>7
  <2>3. \A j \in DOMAIN t : Range(u[j].children) = IF j = P THEN Range(t[j].children) \cup {k}
                                                   ELSE Range(t[j].children)
    <3> TAKE j \in DOMAIN t
    <3> QED BY <1>4, <2>2
  <2> QED BY <2>1, <2>2, <2>3
<1>9. Linked(u)
  <2> SUFFICES ASSUME NEW j \in DOMAIN u
               PROVE  /\ IsInjective(u[j].children)
                      /\ \A c \in Range(u[j].children) : u[c].parent = j
    BY DEF Linked
  <2>1. IsInjective(u[j].children) BY <1>4, <1>8 DEF Forest, Linked
  <2>2. ASSUME NEW c \in Range(u[j].children) PROVE u[c].parent = j
    <3>1. CASE c \in Range(t[j].children)
      <4>1. c \in DOMAIN t /\ t[c].parent = j /\ t[c].parent # Null
        BY <1>8, <3>1, OneParent DEF Forest
      <4> QED BY <1>2, <1>8, <4>1
    <3>2. CASE c \notin Range(t[j].children)
      <4>1. c = k /\ j = P BY <1>8, <2>2, <3>2
      <4> QED BY <1>2, <1>8, <4>1
    <3> QED BY <3>1, <3>2
  <2> QED BY <2>1, <2>2
<1>10. Rooted(u, R)
  <2> SUFFICES ASSUME NEW S \in SUBSET DOMAIN u, R \subseteq S, Closed(u, S)
               PROVE  S = DOMAIN u
    BY DEF Rooted
  <2>1. Closed(t, S) BY <1>8 DEF Closed
  <2>2. P \in S BY <1>8, <2>1 DEF Below
  <2>3. k \in S BY <1>0, <1>8, <2>2 DEF Closed
  <2> QED BY <1>8, <2>1, <2>3 DEF Forest, Rooted
<1>11. R \subseteq DOMAIN u /\ \A j \in R : u[j].parent = Null BY <1>8 DEF Forest
<1> QED BY <1>8, <1>9, <1>10, <1>11 DEF Forest, AttachedIn

\* u is t and the key k.
AllocatedIn(t, u, R, k, r) ==
  /\ Forest(u, R \cup {k}) /\ DOMAIN u = DOMAIN t \cup {k} /\ u[k] = r
  /\ \A j \in DOMAIN t : u[j] = t[j]

\* A new key is a tree of its own.
LEMMA Allocated ==
  ASSUME NEW t, NEW R, Forest(t, R), NEW k \in Ids \ DOMAIN t, NEW r \in Rec(DOMAIN t),
         r.parent = Null, r.children = << >>
  PROVE  AllocatedIn(t, With(t, k, r), R, k, r)
<1> DEFINE u == With(t, k, r)
<1>1. DOMAIN u = DOMAIN t \cup {k} /\ u[k] = r /\ \A j \in DOMAIN t : u[j] = t[j]
  BY DEF With
<1>0. u = [j \in DOMAIN u |-> u[j]] BY DEF With
<1> HIDE DEF u
<1>2. \A D, E, x : D \subseteq E /\ x \in Rec(D) => x \in Rec(E) BY DEF Rec
<1>3. Typed(u) BY <1>0, <1>1, <1>2 DEF Forest, Typed
<1>4. Range(r.children) = {} /\ IsInjective(r.children) BY DEF Range, IsInjective
<1>5. Linked(u) BY <1>1, <1>4, OneParent DEF Linked, Forest
<1>6. Rooted(u, R \cup {k})
  <2> SUFFICES ASSUME NEW S \in SUBSET DOMAIN u, R \cup {k} \subseteq S, Closed(u, S)
               PROVE  S = DOMAIN u
    BY DEF Rooted
  <2>1. Closed(t, S \ {k}) BY <1>1, ChildrenIn DEF Closed, Forest
  <2>2. R \subseteq S \ {k} /\ S \ {k} \in SUBSET DOMAIN t BY <1>1 DEF Forest
  <2>3. S \ {k} = DOMAIN t BY <2>1, <2>2 DEF Forest, Rooted
  <2> QED BY <1>1, <2>3
<1>7. R \cup {k} \subseteq DOMAIN u /\ \A j \in R \cup {k} : u[j].parent = Null
  BY <1>1 DEF Forest
<1> QED BY <1>1, <1>3, <1>5, <1>6, <1>7 DEF Forest, AllocatedIn, u

\* The keys that regkey_free_recursive frees.
Freed(t, ks) == UNION {Subtree(t, j) : j \in ks}

\* They are closed; a key outside has none of them as a child, the given ones
\* aside.
LEMMA FreedSound ==
  ASSUME NEW t, Typed(t), Linked(t), NEW ks \in SUBSET DOMAIN t
  PROVE  /\ Freed(t, ks) \in SUBSET DOMAIN t /\ ks \subseteq Freed(t, ks) /\ Closed(t, Freed(t, ks))
         /\ \A c \in Freed(t, ks) \ ks : t[c].parent \in Freed(t, ks) /\ t[c].parent # Null
         /\ \A j \in DOMAIN t \ Freed(t, ks), c \in Freed(t, ks) : c \in Range(t[j].children) => c \in ks
BY SubtreeSound, ParentInside DEF Freed, Closed, Linked

\* u is t without the trees of ks.
FreedIn(t, u, R, ks) ==
  /\ Forest(u, R \ ks) /\ DOMAIN u = DOMAIN t \ Freed(t, ks)
  /\ \A j \in DOMAIN u : u[j] = t[j]

\* Freeing trees of their own leaves the others.
LEMMA FreedRoots ==
  ASSUME NEW t, NEW R, Forest(t, R), NEW ks \in SUBSET R
  PROVE  FreedIn(t, Free(t, ks), R, ks)
<1> DEFINE X == Freed(t, ks)
           u == Free(t, ks)
<1>0. ks \in SUBSET DOMAIN t BY DEF Forest
<1>1. DOMAIN u = DOMAIN t \ X /\ u = [j \in DOMAIN u |-> u[j]] /\ \A j \in DOMAIN u : u[j] = t[j]
  BY DEF Free, Freed
<1> HIDE DEF u
<1>2. /\ X \in SUBSET DOMAIN t /\ ks \subseteq X /\ Closed(t, X)
      /\ \A c \in X \ ks : t[c].parent \in X /\ t[c].parent # Null
      /\ \A j \in DOMAIN t \ X, c \in X : c \in Range(t[j].children) => c \in ks
  BY <1>0, FreedSound DEF Forest
<1> HIDE DEF X
<1>3. R \cap X = ks BY <1>2 DEF Forest
<1>4. ASSUME NEW j \in DOMAIN u PROVE Range(t[j].children) \cap X = {}
  BY <1>1, <1>2, OneParent DEF Forest
<1>5. ASSUME NEW j \in DOMAIN u PROVE u[j] \in Rec(DOMAIN u)
  <2>1. j \in DOMAIN t /\ t[j] \in Rec(DOMAIN t) /\ u[j] = t[j] /\ j \notin X
    BY <1>1 DEF Forest, Typed
  <2>2. t[j].children \in Seq(DOMAIN u)
    <3>1. Range(t[j].children) \subseteq DOMAIN u /\ t[j].children \in Seq(DOMAIN t)
      BY <1>1, <1>4, <2>1, ChildrenIn DEF Forest
    <3>2. \A i \in 1..Len(t[j].children) : t[j].children[i] \in DOMAIN u
      BY <3>1 DEF Range
    <3> QED BY <3>1, <3>2
  <2>3. t[j].parent \in DOMAIN u \cup {Null}
    BY <1>1, <1>2, <2>1, HasParent DEF Forest, Closed
  <2> QED BY <2>1, <2>2, <2>3 DEF Rec
<1>6. Typed(u) BY <1>1, <1>5 DEF Forest, Typed
<1>7. \A j \in DOMAIN u : /\ u[j].parent = t[j].parent
                          /\ IsInjective(u[j].children)
                          /\ Range(u[j].children) = Range(t[j].children) \ X
  BY <1>1, <1>4 DEF Forest, Linked
<1>8. Forest(u, R \ X) BY <1>1, <1>2, <1>6, <1>7, ForestDrops
<1>9. R \ X = R \ ks BY <1>3
<1> QED BY <1>1, <1>8, <1>9 DEF X, u, FreedIn

\* No key is below itself.
LEMMA NoCycle ==
  ASSUME NEW t, NEW R, Forest(t, R), NEW X \in SUBSET DOMAIN t, \A c \in X : t[c].parent \in X
  PROVE  X = {}
<1> DEFINE S == DOMAIN t \ X
<1>1. Closed(t, S) BY OneParent DEF Closed, Forest
<1>2. R \subseteq S BY NullIsNone DEF Forest, Typed
<1> QED BY <1>1, <1>2 DEF Forest, Rooted

-----------------------------------------------------------------------------
(* reg_mkpath *)

\* As long as there is a key to allocate, one that is free is allocated.
LEMMA FreshIsFree ==
  ASSUME NEW t, Ids \ DOMAIN t # {}
  PROVE  Fresh(t) \in Ids \ DOMAIN t
<1>1. Ids \ DOMAIN t \in SUBSET Nat BY NullIsNone DEF Ids
<1>2. \E k \in Ids \ DOMAIN t : \A j \in Ids \ DOMAIN t : k <= j
  BY <1>1, LeastNumber
<1> QED BY <1>2 DEF Fresh

\* The free keys can be counted.
LEMMA FreeCounted ==
  ASSUME NEW D
  PROVE  IsFiniteSet(Ids \ D) /\ Cardinality(Ids \ D) \in Nat
<1>1. IsFiniteSet(Ids) BY NullIsNone, FS_Interval DEF Ids
<1>2. IsFiniteSet(Ids \ D) BY <1>1, FS_Subset
<1> QED BY <1>2, FS_CardinalityType

\* Allocating a key takes one of the free ones.
LEMMA RoomLeft ==
  ASSUME NEW t, NEW u, NEW k \in Ids \ DOMAIN t, DOMAIN u = DOMAIN t \cup {k}
  PROVE  /\ Cardinality(Ids \ DOMAIN t) \in Nat
         /\ Cardinality(Ids \ DOMAIN u) = Cardinality(Ids \ DOMAIN t) - 1
<1>2. IsFiniteSet(Ids \ DOMAIN t) BY FreeCounted
<1>3. Ids \ DOMAIN u = (Ids \ DOMAIN t) \ {k} OBVIOUS
<1> QED BY <1>2, <1>3, FS_RemoveElement, FS_CardinalityType

\* What a key made by regkey_alloc is.
LEMMA NewKeyIn ==
  ASSUME NEW D, NEW n \in Strings, NEW p \in Seq(Strings)
  PROVE  NewKey(n, p, Null) \in Rec(D)
BY TruncatedSound DEF NewKey, Rec

\* What one turn of the loop does: nothing, go to a child, or make one.
StepIn(m, w, n) ==
  \/ n = Empty /\ w = m
  \/ /\ n # Empty /\ w.tree = m.tree /\ w.built = Append(m.built, n)
     /\ w.at \in Range(m.tree[m.at].children) /\ m.tree[w.at].name = n
  \/ /\ n # Empty /\ w.built = Append(m.built, n) /\ Grew(m.tree, w.tree)
     /\ w.at \notin DOMAIN m.tree /\ DOMAIN w.tree = DOMAIN m.tree \cup {w.at}
     /\ w.tree[w.at].name = n /\ w.tree[w.at].parent = m.at
     /\ w.tree[w.at].path = Truncated(w.built)

\* One turn of the loop takes a key more at most.
LEMMA MkStepSound ==
  ASSUME NEW t, NEW R, Root \in R, NEW m, Walk(t, R, m), NEW n \in Strings,
         Ids \ DOMAIN m.tree # {}, NEW w, w = MkStep(m, n)
  PROVE  /\ Walk(t, R, w) /\ StepIn(m, w, n)
         /\ Cardinality(Ids \ DOMAIN w.tree) >= Cardinality(Ids \ DOMAIN m.tree) - 1
<1> DEFINE c == Find(m.tree, m.at, n)
           k == Fresh(m.tree)
           built == Append(m.built, n)
<1>0. Typed(m.tree) /\ Linked(m.tree) /\ m.at \in DOMAIN m.tree /\ built \in Seq(Strings)
  BY DEF Walk, Forest, Below
<1>1. Cardinality(Ids \ DOMAIN m.tree) \in Nat BY FreeCounted
<1>2. CASE n = Empty BY <1>1, <1>2 DEF MkStep, StepIn
<1>3. CASE n # Empty /\ c # Null
  <2>1. w = [tree |-> m.tree, at |-> c, built |-> built] BY <1>3 DEF MkStep, Walk
  <2>2. c \in Range(m.tree[m.at].children) /\ c \in DOMAIN m.tree /\ m.tree[c].name = n
    BY <1>0, <1>3, FindSound
  <2>3. Below(m.tree, {Root}, c) BY <2>2 DEF Walk, Below, Closed
  <2> HIDE DEF c, built
  <2>4. w.tree = m.tree /\ w.at = c /\ w.built = built BY <2>1
  <2>5. StepIn(m, w, n) BY <1>3, <2>2, <2>4 DEF StepIn, built
  <2> QED BY <1>0, <1>1, <2>1, <2>2, <2>3, <2>4, <2>5 DEF Walk
<1>4. CASE n # Empty /\ c = Null
  <2> DEFINE r == NewKey(n, built, Null)
             v == With(m.tree, k, r)
             u == AddChild(v, m.at, k)
  <2>1. w = [tree |-> u, at |-> k, built |-> built] BY <1>4 DEF MkStep
  <2>2. k \in Ids \ DOMAIN m.tree BY FreshIsFree
  <2>3. r \in Rec(DOMAIN m.tree) /\ r.parent = Null /\ r.children = << >>
    BY <1>0, NewKeyIn DEF NewKey
  <2>13. r.name = n /\ r.path = Truncated(built) BY DEF NewKey
  <2> HIDE DEF r, c, k, built
  <2>4. /\ Forest(v, R \cup {k}) /\ DOMAIN v = DOMAIN m.tree \cup {k} /\ v[k] = r
        /\ \A j \in DOMAIN m.tree : v[j] = m.tree[j]
    <3>1. Forest(m.tree, R) BY DEF Walk
    <3>2. AllocatedIn(m.tree, v, R, k, r) BY <2>2, <2>3, <3>1, Allocated
    <3> QED BY <3>2 DEF AllocatedIn
  <2> HIDE DEF v
  <2>5. k \notin R BY <2>2 DEF Walk, Forest
  <2>6. ASSUME NEW S \in SUBSET DOMAIN v, {Root} \subseteq S, Closed(v, S) PROVE m.at \in S
    <3> DEFINE T == S \ {k}
    <3>1. Root # k /\ T \in SUBSET DOMAIN m.tree BY <2>2, <2>4 DEF Walk, Forest
    <3>2. Closed(m.tree, T) BY <1>0, <2>2, <2>4, <2>6, <3>1, ChildrenIn DEF Closed
    <3>3. m.at \in T BY <2>6, <3>1, <3>2 DEF Walk, Below
    <3> QED BY <3>3
  <2>7. /\ Forest(u, R) /\ DOMAIN u = DOMAIN v
        /\ \A j \in DOMAIN v : /\ u[j].name = v[j].name /\ u[j].path = v[j].path /\ u[j].val = v[j].val
                               /\ u[j].parent = IF j = k THEN m.at ELSE v[j].parent
                               /\ Range(u[j].children) = IF j = m.at THEN Range(v[j].children) \cup {k}
                                                         ELSE Range(v[j].children)
    <3>1. Below(v, R, m.at) BY <1>0, <2>4, <2>6 DEF Below
    <3>2. u = AddChild(v, m.at, k) \/ u = AddChildTail(v, m.at, k) OBVIOUS
    <3> HIDE DEF u
    <3>3. AttachedIn(v, u, R, k, m.at) BY <2>4, <2>5, <3>1, <3>2, Attached
    <3> QED BY <3>3 DEF AttachedIn
  <2> HIDE DEF u
  <2>12. Grew(m.tree, u) BY <2>2, <2>4, <2>7 DEF Grew
  <2>8. Grew(t, u) BY <2>12 DEF Walk, Grew
  <2>9. Below(u, {Root}, k)
    <3> SUFFICES ASSUME NEW S \in SUBSET DOMAIN u, {Root} \subseteq S, Closed(u, S) PROVE k \in S
      BY <2>4, <2>7 DEF Below
    <3>1. Closed(v, S)
      <4> SUFFICES ASSUME NEW j \in S PROVE Range(v[j].children) \subseteq S
        BY DEF Closed
      <4>1. Range(v[j].children) \subseteq Range(u[j].children) BY <2>7
      <4> QED BY <4>1 DEF Closed
    <3>2. m.at \in S /\ m.at \in DOMAIN v BY <1>0, <2>4, <2>6, <2>7, <3>1
    <3>3. k \in Range(u[m.at].children) BY <2>7, <3>2
    <3> QED BY <3>2, <3>3 DEF Closed
  <2>10. Cardinality(Ids \ DOMAIN u) = Cardinality(Ids \ DOMAIN m.tree) - 1
    BY <2>2, <2>4, <2>7, RoomLeft
  <2>11. w.tree = u /\ w.at = k /\ w.built = built BY <2>1
  <2>14. u[k].name = n /\ u[k].path = Truncated(built) /\ u[k].parent = m.at
    BY <2>4, <2>7, <2>13
  <2>15. StepIn(m, w, n)
    BY <1>4, <2>2, <2>4, <2>7, <2>11, <2>12, <2>14 DEF StepIn, built
  <2> QED BY <1>0, <1>1, <2>1, <2>7, <2>8, <2>9, <2>10, <2>11, <2>15 DEF Walk
<1> QED BY <1>2, <1>3, <1>4

\* reg_mkpath as a sequence of turns.
LEMMA MkPathSteps ==
  ASSUME NEW t, NEW path \in Seq(Strings)
  PROVE  \E f : /\ f[0] = [tree |-> t, at |-> Root, built |-> << >>]
                /\ \A i \in 0..(Len(Truncated(path)) - 1) : f[i + 1] = MkStep(f[i], Truncated(path)[i + 1])
                /\ MkPath(t, path) = f[Len(Truncated(path))]
<1> DEFINE p == Truncated(path)
           first == [tree |-> t, at |-> Root, built |-> << >>]
           F(n, f) == f = [i \in 0..n |-> IF i = 0 THEN first ELSE MkStep(f[i - 1], p[i])]
           S == {n \in 0..Len(p) : \E f : F(n, f)}
<1>0. Len(p) \in Nat BY TruncatedSound
<1>5. MkPath(t, path) = (CHOOSE f : F(Len(p), f))[Len(p)] BY DEF MkPath
<1> HIDE DEF first
<1>1. 0 \in S
  <2>1. F(0, [i \in 0..0 |-> first]) OBVIOUS
  <2> HIDE DEF F
  <2>2. \E f : F(0, f) BY <2>1
  <2> QED BY <2>2, <1>0
<1>2. ASSUME NEW n \in 0..(Len(p) - 1), n \in S PROVE n + 1 \in S
  <2>1. PICK f : F(n, f) BY <1>2
  <2> DEFINE x == MkStep(f[n], p[n + 1])
             g == [i \in 0..(n + 1) |-> IF i = n + 1 THEN x ELSE f[i]]
  <2>2. F(n + 1, g)
    <3> DEFINE V(ff, i) == IF i = 0 THEN first ELSE MkStep(ff[i - 1], p[i])
    <3>1. \A i \in 0..n : f[i] = V(f, i)
      <4> HIDE DEF p
      <4> QED BY <2>1, Zenon
    <3>2. ASSUME NEW i \in 0..(n + 1) PROVE g[i] = V(g, i)
      <4>1. CASE i = 0 BY <1>2, <3>1, <4>1
      <4>2. CASE i = n + 1
        <5>1. i - 1 = n /\ i # 0 /\ g[i] = x /\ g[n] = f[n] BY <1>2, <4>2
        <5> HIDE DEF g, p
        <5> QED BY <4>2, <5>1, Zenon
      <4>3. CASE i # 0 /\ i # n + 1
        <5>1. i \in 0..n /\ g[i] = f[i] /\ g[i - 1] = f[i - 1] BY <1>2, <3>2, <4>3
        <5> HIDE DEF g, p
        <5> QED BY <3>1, <4>3, <5>1, Zenon
      <4> QED BY <4>1, <4>2, <4>3
    <3>3. g = [i \in 0..(n + 1) |-> g[i]] OBVIOUS
    <3> HIDE DEF g, p
    <3> QED BY <3>2, <3>3, Zenon
  <2> HIDE DEF F, g, x
  <2>3. \E h : F(n + 1, h) BY <2>2
  <2> QED BY <2>3, <1>0
<1>3. \E f : F(Len(p), f)
  <2> HIDE DEF F, S
  <2>1. \A n \in 0..Len(p) : n \in S BY <1>0, <1>1, <1>2, Counted
  <2>2. Len(p) \in S BY <1>0, <2>1
  <2> QED BY <2>2 DEF S
<1> DEFINE g == CHOOSE f : F(Len(p), f)
<1>4. F(Len(p), g)
  <2> HIDE DEF F
  <2> QED BY <1>3
<1>6. MkPath(t, path) = g[Len(p)] BY <1>5
<1> HIDE DEF g
<1>7. \A i \in 0..Len(p) : g[i] = IF i = 0 THEN first ELSE MkStep(g[i - 1], p[i])
  <2> HIDE DEF p
  <2> QED BY <1>4, Zenon
<1>8. 0 \in 0..Len(p) /\ \A i \in 0..(Len(p) - 1) : i + 1 \in 0..Len(p) /\ i + 1 # 0 /\ (i + 1) - 1 = i
  BY <1>0
<1>9. g[0] = first BY <1>7, <1>8
<1>10. ASSUME NEW i \in 0..(Len(p) - 1) PROVE g[i + 1] = MkStep(g[i], p[i + 1])
  <2> DEFINE j == i + 1
  <2>1. j \in 0..Len(p) /\ j # 0 /\ j - 1 = i BY <1>8
  <2> HIDE DEF j, p
  <2>2. g[j] = MkStep(g[j - 1], p[j]) BY <1>7, <2>1, Zenon
  <2> QED BY <2>1, <2>2, Zenon DEF j
<1> QED BY <1>6, <1>9, <1>10 DEF first

\* f is a run of the loop of reg_mkpath that keeps the trees of R.
Walks(t, R, path, f) ==
  /\ f[0] = [tree |-> t, at |-> Root, built |-> << >>]
  /\ MkPath(t, path) = f[Len(Truncated(path))]
  /\ \A i \in 0..Len(Truncated(path)) : Walk(t, R, f[i])
  /\ \A i \in 0..(Len(Truncated(path)) - 1) :
       /\ StepIn(f[i], f[i + 1], Truncated(path)[i + 1])
       /\ f[i + 1] = MkStep(f[i], Truncated(path)[i + 1]) /\ Ids \ DOMAIN f[i].tree # {}

\* While there is room, reg_mkpath runs to its end.
LEMMA MkPathWalks ==
  ASSUME NEW t, NEW R, Root \in R, Forest(t, R), Room(t), NEW path \in Seq(Strings)
  PROVE  \E f : Walks(t, R, path, f)
<1> DEFINE n == Len(Truncated(path))
           p == Truncated(path)
           Left(u) == Cardinality(Ids \ DOMAIN u)
<1>1. PICK f : /\ f[0] = [tree |-> t, at |-> Root, built |-> << >>]
               /\ \A i \in 0..(n - 1) : f[i + 1] = MkStep(f[i], p[i + 1])
               /\ MkPath(t, path) = f[n]
  BY MkPathSteps
<1>2. n \in Nat /\ n <= PathMax /\ PathMax \in Nat /\ \A i \in 1..n : p[i] \in Strings
  BY TruncatedSound, NullIsNone
<1> HIDE DEF n, p
<1>3. \A u : Left(u) \in Nat /\ (Left(u) > 0 => Ids \ DOMAIN u # {})
  <2> TAKE u
  <2>1. IsFiniteSet(Ids \ DOMAIN u) BY FreeCounted
  <2> QED BY <2>1, FS_EmptySet, FS_CardinalityType
<1> DEFINE A == {i \in 0..n : Walk(t, R, f[i]) /\ Left(f[i].tree) >= PathMax - i}
<1>4. 0 \in A
  <2> DEFINE w == [tree |-> t, at |-> Root, built |-> << >>]
  <2>1. w.tree = t /\ w.at = Root /\ w.built = << >> OBVIOUS
  <2>2. Walk(t, R, w)
    <3>1. w = [tree |-> w.tree, at |-> w.at, built |-> w.built] /\ w.built \in Seq(Strings)
      OBVIOUS
    <3> HIDE DEF w
    <3>2. Grew(t, w.tree) /\ Below(w.tree, {Root}, w.at) /\ Forest(w.tree, R)
      BY <2>1 DEF Grew, Below, Forest
    <3> QED BY <3>1, <3>2 DEF Walk
  <2>3. Left(w.tree) >= PathMax BY <2>1 DEF Room
  <2> HIDE DEF w, Left
  <2> QED BY <1>1, <1>2, <2>2, <2>3 DEF w
<1>5. ASSUME NEW i \in 0..(n - 1), i \in A PROVE i + 1 \in A
  <2>1. i + 1 \in 1..n /\ i \in Nat /\ PathMax - i > 0 /\ p[i + 1] \in Strings /\ i + 1 \in 0..n
    BY <1>2
  <2>2. Walk(t, R, f[i]) /\ Left(f[i].tree) >= PathMax - i BY <1>5
  <2>3. Ids \ DOMAIN f[i].tree # {}
    <3> HIDE DEF Left
    <3>1. Left(f[i].tree) > 0 BY <1>2, <1>3, <2>1, <2>2
    <3> QED BY <1>3, <3>1
  <2>4. f[i + 1] = MkStep(f[i], p[i + 1]) BY <1>1
  <2>5. Walk(t, R, f[i + 1]) /\ Left(f[i + 1].tree) >= Left(f[i].tree) - 1
    BY <2>1, <2>2, <2>3, <2>4, MkStepSound
  <2> HIDE DEF Left
  <2>6. Left(f[i + 1].tree) >= PathMax - (i + 1) BY <1>2, <1>3, <2>1, <2>2, <2>5
  <2> QED BY <2>1, <2>5, <2>6
<1> HIDE DEF A
<1>6. \A i \in 0..n : i \in A BY <1>2, <1>4, <1>5, Counted
<1>7. \A i \in 0..n : Walk(t, R, f[i]) /\ Left(f[i].tree) >= PathMax - i
  BY <1>6 DEF A
<1>8. ASSUME NEW i \in 0..(n - 1)
      PROVE  /\ StepIn(f[i], f[i + 1], p[i + 1])
             /\ f[i + 1] = MkStep(f[i], p[i + 1]) /\ Ids \ DOMAIN f[i].tree # {}
  <2>1. i + 1 \in 1..n /\ i \in Nat /\ PathMax - i > 0 /\ p[i + 1] \in Strings /\ i \in 0..n
    BY <1>2
  <2>2. Walk(t, R, f[i]) /\ Left(f[i].tree) >= PathMax - i BY <1>7, <2>1
  <2>3. Ids \ DOMAIN f[i].tree # {}
    <3> HIDE DEF Left
    <3>1. Left(f[i].tree) > 0 BY <1>2, <1>3, <2>1, <2>2
    <3> QED BY <1>3, <3>1
  <2>4. f[i + 1] = MkStep(f[i], p[i + 1]) BY <1>1
  <2> QED BY <2>1, <2>2, <2>3, <2>4, MkStepSound
<1> HIDE DEF Left
<1>9. Walks(t, R, path, f) BY <1>1, <1>7, <1>8 DEF Walks, n, p
<1> QED BY <1>9

\* reg_mkpath leaves the trees what they are, and ends at a key of the root's.
LEMMA MkPathSound ==
  ASSUME NEW t, NEW R, Root \in R, Forest(t, R), Room(t), NEW path \in Seq(Strings)
  PROVE  Walk(t, R, MkPath(t, path))
<1> DEFINE n == Len(Truncated(path))
<1>1. PICK f : Walks(t, R, path, f) BY MkPathWalks
<1>2. n \in 0..n BY TruncatedSound
<1> QED BY <1>1, <1>2 DEF Walks

-----------------------------------------------------------------------------
(* regkey_update_paths *)

\* The path of a key under the key k whose parent has the path above.
PathOf(t, k, above, path, j) == Truncated(Append(IF j = k THEN above ELSE path[t[j].parent], t[j].name))

\* path has the paths that regkey_update_paths hands down, parent by parent.
HandedDown(t, k, above, path) ==
  /\ UpdatePaths(t, k, above) =
       [j \in DOMAIN t |-> IF j \in Subtree(t, k) THEN [t[j] EXCEPT !.path = path[j]] ELSE t[j]]
  /\ \A j \in Subtree(t, k) : path[j] = PathOf(t, k, above, path, j) /\ path[j] \in Texts

\* There is such a function.
LEMMA PathsSteps ==
  ASSUME NEW t, Typed(t), Linked(t), NEW k \in DOMAIN t, NEW above \in Seq(Strings)
  PROVE  \E path : HandedDown(t, k, above, path)
<1>0. MaxKeys \in Nat BY NullIsNone
<1>a. PICK f : Reached(t, k, f) BY SubtreeSteps
<1>1. /\ f[0] = {k}
      /\ \A i \in 0..(MaxKeys - 1) : f[i + 1] = f[i] \cup UNION {Range(t[j].children) : j \in f[i]}
      /\ Subtree(t, k) = f[MaxKeys]
  BY <1>a DEF Reached
<1> DEFINE moved == Subtree(t, k)
           G(S, g) == g = [j \in S |-> PathOf(t, k, above, g, j)]
<1>2. UpdatePaths(t, k, above) =
        [j \in DOMAIN t |-> IF j \in moved THEN [t[j] EXCEPT !.path = (CHOOSE g : G(moved, g))[j]] ELSE t[j]]
  BY DEF UpdatePaths, PathOf
<1> HIDE DEF moved
<1> DEFINE A == {i \in 0..MaxKeys : /\ f[i] \in SUBSET DOMAIN t /\ k \in f[i]
                                    /\ \A j \in f[i] \ {k} : t[j].parent \in f[i]
                                    /\ \E g : G(f[i], g)}
<1>3. 0 \in A
  <2> DEFINE g == [j \in {k} |-> Truncated(Append(above, t[j].name))]
  <2>1. G({k}, g) BY DEF PathOf
  <2> HIDE DEF g, G
  <2>2. f[0] \in SUBSET DOMAIN t /\ k \in f[0] /\ f[0] \ {k} = {} /\ 0 \in 0..MaxKeys
    BY <1>0, <1>1
  <2>3. G(f[0], g) BY <1>1, <2>1
  <2> QED BY <2>2, <2>3
<1>4. ASSUME NEW i \in 0..(MaxKeys - 1), i \in A PROVE i + 1 \in A
  <2>0. i + 1 \in 0..MaxKeys /\ f[i] \in SUBSET DOMAIN t /\ k \in f[i] BY <1>0, <1>4
  <2>1. PICK g : G(f[i], g) BY <1>4
  <2> DEFINE next == f[i + 1]
             h == [j \in next |-> IF j \in f[i] THEN g[j] ELSE Truncated(Append(g[t[j].parent], t[j].name))]
  <2>2. next = f[i] \cup UNION {Range(t[j].children) : j \in f[i]} BY <1>1, <1>4
  <2> HIDE DEF next
  <2>3. next \in SUBSET DOMAIN t /\ k \in next BY <2>0, <2>2, ChildrenIn
  <2>4. \A j \in next \ {k} : t[j].parent \in f[i] BY <1>4, <2>0, <2>2, OneParent
  <2>5. G(next, h)
    <3>1. \A j \in f[i] : g[j] = PathOf(t, k, above, g, j) BY <2>1
    <3>2. \A j \in next : h[j] = IF j \in f[i] THEN g[j] ELSE Truncated(Append(g[t[j].parent], t[j].name))
      OBVIOUS
    <3>3. h = [j \in next |-> h[j]] /\ f[i] \subseteq next BY <2>2
    <3> HIDE DEF h
    <3>4. ASSUME NEW j \in next PROVE h[j] = PathOf(t, k, above, h, j)
      BY <2>0, <2>4, <3>1, <3>2, <3>3 DEF PathOf
    <3> QED BY <3>3, <3>4, Zenon
  <2> HIDE DEF h, G
  <2>6. \A j \in next \ {k} : t[j].parent \in next BY <2>2, <2>4
  <2> QED BY <2>0, <2>3, <2>5, <2>6 DEF next
<1> HIDE DEF A
<1>5. \A i \in 0..MaxKeys : i \in A BY <1>0, <1>3, <1>4, Counted
<1>6. /\ moved \in SUBSET DOMAIN t /\ k \in moved
      /\ \A j \in moved \ {k} : t[j].parent \in moved
      /\ \E g : G(moved, g)
  <2> HIDE DEF G
  <2> QED BY <1>0, <1>1, <1>5 DEF A, moved
<1> DEFINE path == CHOOSE g : G(moved, g)
<1>7. G(moved, path)
  <2> HIDE DEF G
  <2> QED BY <1>6
<1>8. UpdatePaths(t, k, above) = [j \in DOMAIN t |-> IF j \in moved THEN [t[j] EXCEPT !.path = path[j]] ELSE t[j]]
  BY <1>2
<1> HIDE DEF path
<1>9. \A j \in moved : path[j] = PathOf(t, k, above, path, j) BY <1>7
<1>10. \A j \in moved : path[j] \in Texts
  <2> DEFINE B == {i \in 0..MaxKeys : f[i] \subseteq moved => \A j \in f[i] : path[j] \in Texts}
  <2>0. \A j \in DOMAIN t : t[j].name \in Strings BY DEF Typed, Rec
  <2>1. \A p \in Seq(Strings), n \in Strings : Truncated(Append(p, n)) \in Texts
    <3> TAKE p \in Seq(Strings), n \in Strings
    <3>1. Append(p, n) \in Seq(Strings) OBVIOUS
    <3> QED BY <3>1, TruncatedSound
  <2>2. path[k] \in Texts BY <1>6, <1>9, <2>0, <2>1 DEF PathOf
  <2>3. 0 \in B BY <1>0, <1>1, <2>2
  <2>4. ASSUME NEW i \in 0..(MaxKeys - 1), i \in B PROVE i + 1 \in B
    <3>1. i + 1 \in 0..MaxKeys BY <1>0
    <3>2. f[i + 1] = f[i] \cup UNION {Range(t[j].children) : j \in f[i]} BY <1>1
    <3>3. ASSUME f[i + 1] \subseteq moved, NEW j \in f[i + 1], j \notin f[i], j # k PROVE path[j] \in Texts
      <4>1. PICK x \in f[i] : j \in Range(t[x].children) BY <3>2, <3>3
      <4>2. x \in DOMAIN t /\ path[x] \in Seq(Strings)
        BY <1>6, <2>4, <3>2, <3>3 DEF Texts
      <4>3. t[j].parent = x /\ j \in DOMAIN t BY <4>1, <4>2, OneParent
      <4>4. path[j] = Truncated(Append(path[x], t[j].name))
        BY <1>9, <3>3, <4>3 DEF PathOf
      <4> QED BY <2>0, <2>1, <4>2, <4>3, <4>4
    <3> QED BY <2>2, <2>4, <3>1, <3>2, <3>3
  <2> HIDE DEF B
  <2>5. \A i \in 0..MaxKeys : i \in B BY <1>0, <2>3, <2>4, Counted
  <2> QED BY <1>0, <1>1, <2>5 DEF B, moved
<1>11. HandedDown(t, k, above, path) BY <1>8, <1>9, <1>10 DEF HandedDown, moved
<1> QED BY <1>11

\* regkey_update_paths changes nothing but paths.
LEMMA PathsUpdated ==
  ASSUME NEW t, NEW R, Forest(t, R), NEW k \in DOMAIN t, NEW above \in Seq(Strings)
  PROVE  Forest(UpdatePaths(t, k, above), R)
<1> DEFINE u == UpdatePaths(t, k, above)
<1>0. PICK path : HandedDown(t, k, above, path) BY PathsSteps DEF Forest
<1>1. /\ u = [j \in DOMAIN t |-> IF j \in Subtree(t, k) THEN [t[j] EXCEPT !.path = path[j]] ELSE t[j]]
      /\ \A j \in Subtree(t, k) : path[j] \in Texts
  BY <1>0 DEF HandedDown
<1> HIDE DEF u
<1>2. DOMAIN u = DOMAIN t /\ u = [j \in DOMAIN t |-> u[j]] BY <1>1
<1>3. ASSUME NEW j \in DOMAIN t
      PROVE  /\ u[j] \in Rec(DOMAIN t)
             /\ u[j].parent = t[j].parent /\ u[j].children = t[j].children
  BY <1>1 DEF Forest, Typed, Rec
<1>4. Typed(u) BY <1>2, <1>3 DEF Typed, Forest
<1> QED BY <1>2, <1>3, <1>4, ForestSame DEF u
-----------------------------------------------------------------------------
(* Unmounting *)

\* What is left of t keeps its names, its paths and its parents.
Carried(t, u) ==
  \A j \in DOMAIN u : /\ j \in DOMAIN t
                      /\ u[j].name = t[j].name /\ u[j].path = t[j].path /\ u[j].parent = t[j].parent

\* Freeing the children of a key leaves the key.
LEMMA ChildrenFreed ==
  ASSUME NEW t, NEW R, Forest(t, R), NEW k \in DOMAIN t
  PROVE  /\ Forest(FreeChildren(t, k), R) /\ k \in DOMAIN FreeChildren(t, k)
         /\ Carried(t, FreeChildren(t, k))
<1> DEFINE ks == Range(t[k].children)
           X == Freed(t, ks)
           u == FreeChildren(t, k)
<1>0. Typed(t) /\ Linked(t) /\ ks \in SUBSET DOMAIN t BY ChildrenIn DEF Forest
<1>1. /\ X \in SUBSET DOMAIN t /\ ks \subseteq X /\ Closed(t, X)
      /\ \A c \in X \ ks : t[c].parent \in X /\ t[c].parent # Null
      /\ \A j \in DOMAIN t \ X, c \in X : c \in Range(t[j].children) => c \in ks
  <2> HIDE DEF ks
  <2> QED BY <1>0, FreedSound
<1>2. \A c \in ks : t[c].parent = k BY <1>0 DEF Linked
<1>3. u = [j \in DOMAIN t \ X |-> IF j = k THEN [t[k] EXCEPT !.children = << >>] ELSE t[j]]
  BY DEF FreeChildren, Free, Freed
<1> HIDE DEF X, ks, u
<1>4. k \notin X BY <1>1, <1>2, NoCycle
<1>5. \A c \in X : t[c].parent # Null BY <1>0, <1>1, <1>2, NullIsNone DEF Typed
<1>6. DOMAIN u = DOMAIN t \ X /\ u = [j \in DOMAIN u |-> u[j]] /\ k \in DOMAIN u
  BY <1>3, <1>4
<1>7. ASSUME NEW j \in DOMAIN u, j # k PROVE u[j] = t[j] /\ Range(t[j].children) \cap X = {}
  BY <1>0, <1>1, <1>2, <1>3, <1>6, <1>7, OneParent
<1>8. /\ u[k].children = << >> /\ u[k] \in Rec(DOMAIN t)
      /\ u[k].parent = t[k].parent /\ u[k].name = t[k].name /\ u[k].path = t[k].path
  <2>1. u[k] = [t[k] EXCEPT !.children = << >>] /\ t[k] \in Rec(DOMAIN t)
    BY <1>0, <1>3, <1>6 DEF Typed
  <2>2. << >> \in Seq(DOMAIN t) OBVIOUS
  <2> DEFINE r == t[k]
  <2>3. u[k] = [r EXCEPT !.children = << >>] /\ r \in Rec(DOMAIN t)
        /\ r.parent = t[k].parent /\ r.name = t[k].name /\ r.path = t[k].path
    BY <2>1
  <2> HIDE DEF r
  <2> QED BY <2>2, <2>3 DEF Rec
<1>9. \A j \in DOMAIN u : t[j].parent \in DOMAIN u \cup {Null}
  BY <1>1, <1>6, HasParent DEF Forest, Closed
<1>10. ASSUME NEW j \in DOMAIN u PROVE u[j] \in Rec(DOMAIN u)
  <2>1. u[j] \in Rec(DOMAIN t) /\ u[j].parent = t[j].parent
    BY <1>0, <1>6, <1>7, <1>8 DEF Typed
  <2>2. u[j].children \in Seq(DOMAIN u)
    <3>1. CASE j = k
      <4>1. << >> \in Seq(DOMAIN u) OBVIOUS
      <4> QED BY <1>8, <3>1, <4>1
    <3>2. CASE j # k
      <4>1. j \in DOMAIN t /\ u[j].children = t[j].children BY <1>6, <1>7, <3>2
      <4>2. Range(t[j].children) \subseteq DOMAIN u /\ t[j].children \in Seq(DOMAIN t)
        BY <1>0, <1>6, <1>7, <3>2, <4>1, ChildrenIn
      <4>3. \A i \in 1..Len(t[j].children) : t[j].children[i] \in DOMAIN u
        BY <4>2 DEF Range
      <4> QED BY <4>1, <4>2, <4>3
    <3> QED BY <3>1, <3>2
  <2>3. u[j].parent \in DOMAIN u \cup {Null} BY <1>9, <2>1
  <2> QED BY <2>1, <2>2, <2>3 DEF Rec
<1>11. Typed(u) BY <1>0, <1>6, <1>10 DEF Typed
<1>12. \A j \in DOMAIN u : /\ u[j].parent = t[j].parent
                           /\ IsInjective(u[j].children)
                           /\ Range(u[j].children) = Range(t[j].children) \ X
  <2> TAKE j \in DOMAIN u
  <2>1. CASE j = k BY <1>1, <1>8, <2>1 DEF Range, IsInjective, ks
  <2>2. CASE j # k BY <1>0, <1>6, <1>7, <2>2 DEF Linked
  <2> QED BY <2>1, <2>2
<1>13. Forest(u, R \ X) BY <1>1, <1>6, <1>11, <1>12, ForestDrops
<1>14. R \ X = R BY <1>5 DEF Forest
<1>15. Carried(t, u) BY <1>6, <1>7, <1>8 DEF Carried
<1> QED BY <1>6, <1>13, <1>14, <1>15 DEF u

\* Freeing a child of a key leaves the key.
LEMMA ChildFreed ==
  ASSUME NEW t, NEW R, Forest(t, R), NEW k \in DOMAIN t, NEW c \in Range(t[k].children)
  PROVE  /\ Forest(Free(DetachChild(t, k, c), {c}), R) /\ k \in DOMAIN Free(DetachChild(t, k, c), {c})
         /\ Carried(t, Free(DetachChild(t, k, c), {c}))
<1> DEFINE v == DetachChild(t, k, c)
           u == Free(v, {c})
           X == Freed(v, {c})
<1>1. c \in DOMAIN t /\ t[c].parent = k /\ k # Null /\ c \notin R
  BY OneParent DEF Forest
<1>2. DetachedIn(t, v, R, c) BY <1>1, Detached
<1> HIDE DEF v
<1>3. /\ Forest(v, R \cup {c}) /\ DOMAIN v = DOMAIN t
      /\ \A j \in DOMAIN t : /\ j # c => v[j].parent = t[j].parent
                             /\ v[j].name = t[j].name /\ v[j].path = t[j].path
  BY <1>2 DEF DetachedIn
<1>4. FreedIn(v, u, R \cup {c}, {c}) BY <1>3, FreedRoots
<1> HIDE DEF u
<1>5. Forest(u, R) /\ DOMAIN u = DOMAIN v \ X /\ \A j \in DOMAIN u : u[j] = v[j]
  BY <1>1, <1>4 DEF FreedIn
<1>6. /\ X \in SUBSET DOMAIN v /\ c \in X
      /\ \A j \in X \ {c} : v[j].parent \in X
  BY <1>1, <1>3, FreedSound DEF Forest
<1> HIDE DEF X
<1>7. k \notin X BY <1>1, <1>3, <1>6, NoCycle
<1>8. Carried(t, u) BY <1>3, <1>5, <1>6 DEF Carried
<1> QED BY <1>3, <1>5, <1>7, <1>8 DEF u, v

\* One turn of the loop of reg_unmount.
UnmountStep(t, dst, n) ==
  IF Find(t, dst, n) = Null THEN t ELSE Free(DetachChild(t, dst, Find(t, dst, n)), {Find(t, dst, n)})

\* A turn of reg_unmount leaves a tree with the destination in it.
LEMMA UnmountStepSound ==
  ASSUME NEW t, NEW R, Forest(t, R), NEW dst \in DOMAIN t, NEW n
  PROVE  /\ Forest(UnmountStep(t, dst, n), R) /\ dst \in DOMAIN UnmountStep(t, dst, n)
         /\ Carried(t, UnmountStep(t, dst, n))
<1> DEFINE c == Find(t, dst, n)
<1>1. CASE c = Null BY <1>1 DEF UnmountStep, Carried
<1>2. CASE c # Null
  <2>1. c \in Range(t[dst].children) BY <1>2, FindSound DEF Forest
  <2>2. UnmountStep(t, dst, n) = Free(DetachChild(t, dst, c), {c})
    BY <1>2 DEF UnmountStep
  <2> HIDE DEF c
  <2> QED BY <2>1, <2>2, ChildFreed
<1> QED BY <1>1, <1>2

\* g has the trees before, between and after the turns of reg_unmount.
Unmounting(t, dst, list, g) ==
  /\ g[0] = t /\ Unmounted(t, dst, list) = g[Len(list)]
  /\ \A i \in 0..(Len(list) - 1) : g[i + 1] = UnmountStep(g[i], dst, t[list[i + 1]].name)

\* There are such trees.
LEMMA UnmountedSteps ==
  ASSUME NEW t, NEW dst, NEW list, Len(list) \in Nat
  PROVE  \E g : Unmounting(t, dst, list, g)
<1> DEFINE N == Len(list)
           V(f, i) == IF i = 0 THEN t ELSE UnmountStep(f[i - 1], dst, t[list[i]].name)
           F(n, f) == f = [i \in 0..n |-> V(f, i)]
           S == {n \in 0..N : \E f : F(n, f)}
<1>1. 0 \in S
  <2>1. F(0, [i \in 0..0 |-> t]) OBVIOUS
  <2> HIDE DEF F
  <2>2. \E f : F(0, f) BY <2>1
  <2> QED BY <2>2
<1>2. ASSUME NEW n \in 0..(N - 1), n \in S PROVE n + 1 \in S
  <2>1. PICK f : F(n, f) BY <1>2
  <2> DEFINE x == UnmountStep(f[n], dst, t[list[n + 1]].name)
             g == [i \in 0..(n + 1) |-> IF i = n + 1 THEN x ELSE f[i]]
  <2>2. F(n + 1, g)
    <3>1. \A i \in 0..n : f[i] = V(f, i) BY <2>1, Zenon
    <3>2. ASSUME NEW i \in 0..(n + 1) PROVE g[i] = V(g, i)
      <4>1. CASE i = 0 BY <1>2, <3>1, <4>1
      <4>2. CASE i = n + 1
        <5>1. i - 1 = n /\ i # 0 /\ g[i] = x /\ g[n] = f[n] BY <1>2, <4>2
        <5> HIDE DEF g
        <5> QED BY <4>2, <5>1, Zenon
      <4>3. CASE i # 0 /\ i # n + 1
        <5>1. i \in 0..n /\ g[i] = f[i] /\ g[i - 1] = f[i - 1] BY <1>2, <3>2, <4>3
        <5> HIDE DEF g
        <5> QED BY <3>1, <4>3, <5>1, Zenon
      <4> QED BY <4>1, <4>2, <4>3
    <3>3. g = [i \in 0..(n + 1) |-> g[i]] OBVIOUS
    <3> HIDE DEF g, V
    <3> QED BY <3>2, <3>3, Zenon
  <2> HIDE DEF F, g, x
  <2>3. \E h : F(n + 1, h) BY <2>2
  <2> QED BY <2>3
<1>3. \E f : F(N, f)
  <2> HIDE DEF F, S
  <2>1. \A n \in 0..N : n \in S BY <1>1, <1>2, Counted
  <2>2. N \in S BY <2>1
  <2> QED BY <2>2 DEF S
<1> DEFINE g == CHOOSE f : F(N, f)
<1>4. F(N, g)
  <2> HIDE DEF F
  <2> QED BY <1>3
<1>5. Unmounted(t, dst, list) = g[N] BY DEF Unmounted, UnmountStep
<1> HIDE DEF g
<1>6. \A i \in 0..N : g[i] = V(g, i) BY <1>4, Zenon
<1>7. 0 \in 0..N /\ \A i \in 0..(N - 1) : i + 1 \in 0..N /\ i + 1 # 0 /\ (i + 1) - 1 = i
  OBVIOUS
<1>8. g[0] = t BY <1>6, <1>7
<1>9. ASSUME NEW i \in 0..(N - 1) PROVE g[i + 1] = UnmountStep(g[i], dst, t[list[i + 1]].name)
  <2> DEFINE j == i + 1
  <2>1. j \in 0..N /\ j # 0 /\ j - 1 = i BY <1>7
  <2> HIDE DEF j
  <2>2. g[j] = UnmountStep(g[j - 1], dst, t[list[j]].name) BY <1>6, <2>1, Zenon
  <2> QED BY <2>1, <2>2, Zenon DEF j
<1> QED BY <1>5, <1>8, <1>9 DEF Unmounting

\* What reg_unmount leaves is a tree.
LEMMA UnmountedSound ==
  ASSUME NEW t, NEW R, Forest(t, R), NEW dst \in DOMAIN t, NEW list, Len(list) \in Nat
  PROVE  Forest(Unmounted(t, dst, list), R) /\ Carried(t, Unmounted(t, dst, list))
<1> DEFINE N == Len(list)
<1>1. PICK g : Unmounting(t, dst, list, g) BY UnmountedSteps
<1>2. /\ g[0] = t /\ Unmounted(t, dst, list) = g[N]
      /\ \A i \in 0..(N - 1) : g[i + 1] = UnmountStep(g[i], dst, t[list[i + 1]].name)
  BY <1>1 DEF Unmounting
<1> DEFINE A == {i \in 0..N : Forest(g[i], R) /\ dst \in DOMAIN g[i] /\ Carried(t, g[i])}
<1>3. 0 \in A BY <1>2 DEF Carried
<1>4. ASSUME NEW i \in 0..(N - 1), i \in A PROVE i + 1 \in A
  <2> DEFINE j == i + 1
  <2>1. j \in 0..N OBVIOUS
  <2>2. g[j] = UnmountStep(g[i], dst, t[list[j]].name) BY <1>2
  <2> HIDE DEF j
  <2>3. Forest(g[j], R) /\ dst \in DOMAIN g[j] /\ Carried(g[i], g[j])
    BY <1>4, <2>2, UnmountStepSound
  <2>4. Carried(t, g[j]) BY <1>4, <2>3 DEF Carried
  <2> QED BY <2>1, <2>3, <2>4 DEF j
<1> HIDE DEF A
<1>5. \A i \in 0..N : i \in A BY <1>3, <1>4, Counted
<1> QED BY <1>2, <1>5 DEF A

-----------------------------------------------------------------------------
(* The frames of reg_mount *)

\* Frames stay what they are while keys are only made.
LEMMA FramesGrow ==
  ASSUME NEW D, NEW E, D \subseteq E, NEW fs \in Seq(Frames(D))
  PROVE  fs \in Seq(Frames(E))
<1>1. Frames(D) \subseteq Frames(E) BY DEF Frames
<1> QED BY <1>1

\* The lists that reg_mount goes through hold keys.
LEMMA NextChildIn ==
  ASSUME NEW t, Typed(t), NEW k \in DOMAIN t, NEW c
  PROVE  /\ NextChild(t, k, c) \in DOMAIN t \cup {Null} /\ FirstChild(t, k) \in DOMAIN t \cup {Null}
         /\ NextChild(t, k, c) \in Range(t[k].children) \cup {Null}
         /\ FirstChild(t, k) \in Range(t[k].children) \cup {Null}
<1> DEFINE s == t[k].children
           at == Place(s, c)
<1>1. /\ s \in Seq(DOMAIN t) /\ Len(s) \in Nat
      /\ \A i \in 1..Len(s) : s[i] \in DOMAIN t /\ s[i] \in Range(s)
  BY ChildrenIn DEF Range
<1>2. at = 0 \/ at \in 1..Len(s) BY <1>1, PlaceSound
<1>3. NextChild(t, k, c) = IF at = Len(s) THEN Null ELSE s[at + 1] BY DEF NextChild
<1>4. FirstChild(t, k) = IF s = << >> THEN Null ELSE s[1] BY DEF FirstChild
<1> HIDE DEF at, s
<1>5. at # Len(s) => at + 1 \in 1..Len(s) BY <1>1, <1>2
<1>6. s # << >> => 1 \in 1..Len(s) BY <1>1
<1> QED BY <1>1, <1>3, <1>4, <1>5, <1>6 DEF s

\* The loop of a mount goes on to a key of the tree.
LEMMA AdvanceIn ==
  ASSUME NEW t, Typed(t), NEW fs \in Seq(Frames(DOMAIN t)), fs # << >>
  PROVE  Advance(t, fs) \in Seq(Frames(DOMAIN t))
<1> DEFINE n == Len(fs)
           f == fs[n]
           next == NextChild(t, f.src, f.child)
           g == [f EXCEPT !.child = next]
<1>1. n \in 1..Len(fs) /\ f \in Frames(DOMAIN t) OBVIOUS
<1>2. next \in DOMAIN t \cup {Null} BY <1>1, NextChildIn DEF Frames
<1>3. Advance(t, fs) = [fs EXCEPT ![n] = g] BY <1>1 DEF Advance
<1> HIDE DEF next, f
<1>4. g \in Frames(DOMAIN t) BY <1>1, <1>2 DEF Frames
<1> HIDE DEF g
<1> QED BY <1>1, <1>3, <1>4

\* A mount starts over keys of the tree that reg_mkpath leaves.
LEMMA FrameIn ==
  ASSUME NEW t, Forest(t, {Root}), NEW m, Walk(t, {Root}, m), NEW src \in DOMAIN t,
         NEW s \in Seq(Strings), NEW d \in Seq(Strings), NEW before \in BOOLEAN
  PROVE  Frame(m, src, s, d, before) \in Frames(DOMAIN m.tree)
BY NextChildIn DEF Walk, Grew, Below, Forest, Frame, Frames

\* u is t and the key k under P.
MirroredIn(t, u, k, r, P) ==
  /\ Forest(u, {Root}) /\ DOMAIN u = DOMAIN t \cup {k} /\ Grew(t, u)
  /\ u[k].name = r.name /\ u[k].path = r.path /\ u[k].parent = P

\* A key taken for a child of a mirrored one is linked under the destination.
LEMMA Mirrored ==
  ASSUME NEW t, Forest(t, {Root}), NEW k \in Ids \ DOMAIN t, NEW r \in Rec(DOMAIN t),
         r.parent = Null, r.children = << >>, NEW P \in DOMAIN t,
         NEW u, u = AddChild(With(t, k, r), P, k) \/ u = AddChildTail(With(t, k, r), P, k)
  PROVE  MirroredIn(t, u, k, r, P)
<1> DEFINE v == With(t, k, r)
<1>1. AllocatedIn(t, v, {Root}, k, r) BY Allocated
<1>2. u = AddChild(v, P, k) \/ u = AddChildTail(v, P, k) OBVIOUS
<1> HIDE DEF v
<1>3. /\ Forest(v, {Root} \cup {k}) /\ DOMAIN v = DOMAIN t \cup {k}
      /\ v[k] = r /\ \A j \in DOMAIN t : v[j] = t[j]
  BY <1>1 DEF AllocatedIn
<1>4. Root \in DOMAIN t /\ Root # k BY DEF Forest
<1>5. Below(v, {Root}, P)
  <2> SUFFICES ASSUME NEW S \in SUBSET DOMAIN v, {Root} \subseteq S, Closed(v, S) PROVE P \in S
    BY <1>3 DEF Below
  <2> DEFINE T == S \ {k}
  <2>1. T \in SUBSET DOMAIN t /\ {Root} \subseteq T BY <1>3, <1>4
  <2>2. Closed(t, T) BY <1>3, <2>1, ChildrenIn DEF Closed, Forest
  <2> HIDE DEF T
  <2>3. T = DOMAIN t BY <2>1, <2>2 DEF Forest, Rooted
  <2> QED BY <2>3 DEF T
<1>6. k \notin {Root} BY <1>4
<1>7. AttachedIn(v, u, {Root}, k, P) BY <1>2, <1>3, <1>5, <1>6, Attached
<1> QED BY <1>3, <1>7 DEF AttachedIn, MirroredIn, Grew

-----------------------------------------------------------------------------
(* The inductive invariant *)

\* A tree whose every closed set with the root is all of it is what can be
\* reached from the root.
LEMMA InvariantImplies == IInv => TreeShape
<1> SUFFICES ASSUME IInv PROVE TreeShape OBVIOUS
<1>1. Typed(key) /\ Linked(key) /\ Root \in DOMAIN key /\ key[Root].parent = Null
  BY DEF IInv, Forest
<1>2. Subtree(key, Root) = DOMAIN key BY <1>1, SubtreeSound DEF IInv, Forest, Rooted
<1>3. \A k \in DOMAIN key :
        /\ key[k].name \in Names \cup {Empty}
        /\ key[k].val \in Values \cup {Nil}
        /\ key[k].parent \in DOMAIN key \cup {Null}
        /\ key[k].children \in Seq(DOMAIN key)
        /\ key[k].path \in Seq(Names \cup {Empty}) /\ Len(key[k].path) <= PathMax
  BY <1>1 DEF Typed, Rec, Texts, Strings
<1>4. \A i \in DOMAIN frames : /\ {frames[i].src, frames[i].dst} \subseteq DOMAIN key
                               /\ frames[i].child \in DOMAIN key \cup {Null}
  <2> TAKE i \in DOMAIN frames
  <2>1. frames[i] \in Frames(DOMAIN key) BY DEF IInv
  <2> QED BY <2>1 DEF Frames
<1>5. TypeOK BY <1>1, <1>3, <1>4 DEF TypeOK, IInv, Typed
<1> QED BY <1>1, <1>2, <1>5 DEF TreeShape, Linked

\* What a call carries.
LEMMA CallCarries ==
  ASSUME NEW c \in Calls
  PROVE  /\ c.op = "set" => c.p \in Seq(Strings) /\ c.v \in Values
         /\ c.op = "delete" => c.p \in Seq(Strings) /\ c.p # << >> /\ c.p[1] # Empty
         /\ c.op = "move" => /\ c.s \in Seq(Strings) /\ c.d \in Seq(Strings)
                             /\ c.s # << >> => c.s[1] # Empty
         /\ c.op \in {"mount", "bind", "unmount"} => c.s \in Seq(Strings) /\ c.d \in Seq(Strings)
         /\ c.op = "mount" => c.before \in BOOLEAN
         /\ c.op = "unmount all" => c.d \in Seq(Strings)
<1>1. Spelled \subseteq Seq(Strings) /\ Mortal \subseteq Spelled /\ << >> \in Seq(Strings)
  BY DEF Spelled, Mortal, Strings
<1>2. \A p \in Mortal : p # << >> /\ p[1] # Empty BY DEF Mortal
<1>3. \/ c \in [op : {"set"}, p : Spelled, v : Values]
      \/ c \in [op : {"delete"}, p : Mortal]
      \/ c \in [op : {"move"}, s : Mortal \cup {<<>>}, d : Spelled]
      \/ c \in [op : {"mount"}, s : Spelled, d : Spelled, before : BOOLEAN]
      \/ c \in [op : {"bind", "unmount"}, s : Spelled, d : Spelled]
      \/ c \in [op : {"unmount all"}, d : Spelled]
  BY CallAssumption
<1>4. CASE c \in [op : {"set"}, p : Spelled, v : Values] BY <1>1, <1>4
<1>5. CASE c \in [op : {"delete"}, p : Mortal] BY <1>1, <1>2, <1>5
<1>6. CASE c \in [op : {"move"}, s : Mortal \cup {<<>>}, d : Spelled]
  BY <1>1, <1>2, <1>6
<1>7. CASE c \in [op : {"mount"}, s : Spelled, d : Spelled, before : BOOLEAN]
  BY <1>1, <1>7
<1>8. CASE c \in [op : {"bind", "unmount"}, s : Spelled, d : Spelled] BY <1>1, <1>8
<1>9. CASE c \in [op : {"unmount all"}, d : Spelled] BY <1>1, <1>9
<1> QED BY <1>3, <1>4, <1>5, <1>6, <1>7, <1>8, <1>9

\* The keys that reg_init makes are a tree.
LEMMA InvariantHoldsAtFirst == Init => IInv
<1> SUFFICES ASSUME Init PROVE IInv OBVIOUS
<1> DEFINE n == Len(Top)
           kids == [i \in 1..n |-> n + 2 - i]
<1>0. n \in Nat /\ n + 1 <= MaxKeys /\ MaxKeys \in Nat /\ PathMax \in Nat \ {0} /\ Top \in Seq(Names)
  BY NameAssumption, BoundAssumption
<1>1. /\ DOMAIN key = 1..(n + 1) /\ key = [k \in DOMAIN key |-> key[k]]
      /\ key[Root] = [NewKey(Empty, << >>, Null) EXCEPT !.children = kids]
      /\ \A k \in 2..(n + 1) : key[k] = NewKey(Top[k - 1], <<Top[k - 1]>>, Root)
  BY <1>0 DEF Init, Root
<1> HIDE DEF n
<1>2. /\ kids \in Seq(DOMAIN key) /\ IsInjective(kids) /\ Range(kids) = 2..(n + 1)
  <2>1. DOMAIN kids = 1..n /\ kids \in Seq(DOMAIN key)
    <3>1. kids \in [1..n -> DOMAIN key] BY <1>0, <1>1
    <3> HIDE DEF kids
    <3>2. kids \in Seq(DOMAIN key) BY <1>0, <3>1, SeqDef
    <3> QED BY <3>1, <3>2
  <2>2. IsInjective(kids) BY <1>0 DEF IsInjective
  <2>3. \A j \in 2..(n + 1) : n + 2 - j \in 1..n /\ kids[n + 2 - j] = j BY <1>0
  <2>4. Range(kids) \subseteq 2..(n + 1) BY <1>0 DEF Range
  <2>5. 2..(n + 1) \subseteq Range(kids) BY <2>1, <2>3 DEF Range
  <2> QED BY <2>1, <2>2, <2>4, <2>5
<1> HIDE DEF kids
<1>3. /\ key[Root].children = kids /\ key[Root].parent = Null
      /\ key[Root].name \in Strings /\ key[Root].path \in Texts /\ key[Root].val = Nil
      /\ key[Root] = [name |-> key[Root].name, path |-> key[Root].path, val |-> Nil,
                      parent |-> Null, children |-> kids]
  <2>1. Truncated(<< >>) \in Texts
    <3>1. << >> \in Seq(Strings) OBVIOUS
    <3> QED BY <3>1, TruncatedSound
  <2> QED BY <1>1, <2>1 DEF NewKey, Strings
<1>4. ASSUME NEW k \in 2..(n + 1)
      PROVE  /\ key[k].children = << >> /\ key[k].parent = Root
             /\ key[k] \in Rec(DOMAIN key)
  <2>1. Top[k - 1] \in Strings BY <1>0 DEF Strings, n
  <2>2. Truncated(<<Top[k - 1]>>) \in Texts
    <3>1. <<Top[k - 1]>> \in Seq(Strings) BY <2>1
    <3> QED BY <3>1, TruncatedSound
  <2>3. Root \in DOMAIN key BY <1>0, <1>1 DEF Root
  <2>4. << >> \in Seq(DOMAIN key) OBVIOUS
  <2>5. key[k] = [name |-> Top[k - 1], path |-> Truncated(<<Top[k - 1]>>), val |-> Nil,
                  parent |-> Root, children |-> << >>]
    BY <1>1 DEF NewKey
  <2> QED BY <2>1, <2>2, <2>3, <2>4, <2>5 DEF Rec
<1>5. \A k \in DOMAIN key : k = Root \/ k \in 2..(n + 1) BY <1>0, <1>1 DEF Root
<1>6. Typed(key) BY <1>0, <1>1, <1>2, <1>3, <1>4, <1>5 DEF Rec, Ids, Typed
<1>7. Range(<< >>) = {} /\ IsInjective(<< >>) BY DEF Range, IsInjective
<1>8. Linked(key) BY <1>2, <1>3, <1>4, <1>5, <1>7 DEF Linked
<1>9. Root \in DOMAIN key BY <1>0, <1>1 DEF Root
<1>10. Rooted(key, {Root}) BY <1>2, <1>3, <1>5 DEF Rooted, Closed
<1>11. Forest(key, {Root}) BY <1>3, <1>6, <1>8, <1>9, <1>10 DEF Forest
<1>12. /\ frames \in Seq(Frames(DOMAIN key)) /\ call \in Calls \cup {NoCall}
       /\ shadowed \in BOOLEAN /\ made \in [{"move", "copy"} -> 0..MaxMade]
  <2>1. << >> \in Seq(Frames(DOMAIN key)) OBVIOUS
  <2>2. frames = << >> /\ call = NoCall /\ shadowed = FALSE /\ made = [move |-> 0, copy |-> 0]
    BY DEF Init
  <2>3. 0 \in 0..MaxMade BY BoundAssumption
  <2>4. made \in [{"move", "copy"} -> 0..MaxMade] BY <2>2, <2>3
  <2> QED BY <2>1, <2>2, <2>4
<1> QED BY <1>11, <1>12 DEF IInv

-----------------------------------------------------------------------------
(* Calls *)

\* While there is room, a key is free.
LEMMA RoomIsFree ==
  ASSUME NEW t, Room(t)
  PROVE  Ids \ DOMAIN t # {}
BY NullIsNone, FS_EmptySet DEF Room

\* A call that leaves a tree keeps the invariant.
LEMMA ReturnKeeps ==
  ASSUME IInv, frames = << >>, frames' = frames, call' = NoCall, Forest(key', {Root}),
         shadowed' \in BOOLEAN, made' = made
  PROVE  IInv'
BY DEF IInv

\* A call is made on the tree as it is.
LEMMA AskKeeps ==
  ASSUME IInv, NEW c \in Calls, Ask(c)
  PROVE  IInv'
BY BoundAssumption DEF IInv, Ask

\* reg_set.
LEMMA RegSetKeeps ==
  ASSUME IInv, RegSet
  PROVE  IInv'
<1> DEFINE m == MkPath(key, call.p)
<1>1. call \in Calls /\ call.op = "set" /\ frames = << >>
  BY DEF RegSet, Called, IInv
<1>2. call.p \in Seq(Strings) /\ call.v \in Values BY <1>1, CallCarries
<1>3. Walk(key, {Root}, m) BY <1>2, MkPathSound DEF RegSet, IInv
<1>4. key' = SetVal(m.tree, m.at, call.v) /\ frames' = frames /\ call' = NoCall
  BY DEF RegSet, Returns, SetVal
<1> HIDE DEF m
<1>5. Typed(m.tree) /\ m.at \in DOMAIN m.tree /\ Forest(m.tree, {Root})
  BY <1>3 DEF Walk, Below, Forest
<1>6. call.v \in Values \cup {Nil} BY <1>2
<1>7. ValSetIn(m.tree, SetVal(m.tree, m.at, call.v), m.at, call.v)
  BY <1>5, <1>6, ValSet
<1>8. Forest(SetVal(m.tree, m.at, call.v), {Root})
  BY <1>5, <1>7, ForestSame DEF ValSetIn
<1> QED BY <1>1, <1>4, <1>8, ReturnKeeps DEF RegSet, IInv

\* What is found on a path that starts with a name is not the root.
LEMMA FoundIn ==
  ASSUME IInv, NEW p \in Seq(Strings)
  PROVE  /\ Lookup(key, p) \in DOMAIN key \cup {Null}
         /\ p # << >> /\ p[1] # Empty => Lookup(key, p) # Root
BY LookupSound DEF IInv, Forest

\* reg_delete.
LEMMA RegDeleteKeeps ==
  ASSUME IInv, RegDelete
  PROVE  IInv'
<1> DEFINE k == Lookup(key, call.p)
           u == DetachChild(key, key[k].parent, k)
           t == Free(u, {k})
<1>1. call \in Calls /\ call.op = "delete" /\ frames = << >>
  BY DEF RegDelete, Called, IInv
<1>2. call.p \in Seq(Strings) /\ call.p # << >> /\ call.p[1] # Empty
  BY <1>1, CallCarries
<1>3. k \in DOMAIN key \cup {Null} /\ k # Root BY <1>2, FoundIn
<1>4. CASE k = Null BY <1>1, <1>4, ReturnKeeps DEF RegDelete, Fails, Returns, IInv
<1>5. CASE k # Null
  <2>1. key' = t /\ frames' = frames /\ call' = NoCall /\ UNCHANGED <<shadowed, made>>
    BY <1>5 DEF RegDelete, Returns
  <2> HIDE DEF k
  <2>2. k \in DOMAIN key /\ k \notin {Root} /\ Forest(key, {Root})
    BY <1>3, <1>5 DEF IInv
  <2>3. DetachedIn(key, u, {Root}, k) BY <2>2, Detached
  <2> HIDE DEF u
  <2>4. FreedIn(u, t, {Root} \cup {k}, {k}) BY <2>3, FreedRoots DEF DetachedIn
  <2> HIDE DEF t
  <2>5. ({Root} \cup {k}) \ {k} = {Root} BY <2>2
  <2>6. Forest(t, {Root}) BY <2>4, <2>5 DEF FreedIn
  <2> QED BY <1>1, <2>1, <2>6, ReturnKeeps DEF IInv
<1> QED BY <1>4, <1>5

\* The path above a path, and its name, as reg_move takes them apart.
LEMMA Apart ==
  ASSUME NEW d \in Seq(Strings)
  PROVE  /\ (IF d = << >> THEN << >> ELSE Front(d)) \in Seq(Strings)
         /\ (IF d = << >> THEN Empty ELSE Last(d)) \in Strings
BY DEF Strings, Front, Last

\* reg_move: the key k leaves (d), its new parent m.at is looked up or made, k
\* gets its new name (n) and is linked there (v).
MovedIn(t, k, up, name, d, m, n, v) ==
  /\ DetachedIn(t, d, {Root}, k) /\ Forest(d, {Root, k}) /\ Room(d)
  /\ Walk(d, {Root, k}, m) /\ k \in DOMAIN m.tree
  /\ NameSetIn(m.tree, n, k, name) /\ Forest(n, {Root, k})
  /\ AttachedIn(n, v, {Root}, k, m.at)

\* The key that is moved is a tree of its own while the path of its new parent
\* is looked up and made: it cannot become its own ancestor.
LEMMA Moved ==
  ASSUME NEW t, Forest(t, {Root}), Room(t), NEW k \in DOMAIN t, k # Root,
         NEW up \in Seq(Strings), NEW name \in Strings,
         NEW d, d = DetachChild(t, t[k].parent, k), NEW m, m = MkPath(d, up),
         NEW n, n = SetName(m.tree, k, name), NEW v, v = AddChild(n, m.at, k)
  PROVE  MovedIn(t, k, up, name, d, m, n, v)
<1>1. k \notin {Root} OBVIOUS
<1>2. DetachedIn(t, d, {Root}, k) BY <1>1, Detached
<1>3. Forest(d, {Root, k}) /\ DOMAIN d = DOMAIN t BY <1>2 DEF DetachedIn
<1>4. Room(d) /\ Root \in {Root, k} BY <1>3 DEF Room
<1>5. Walk(d, {Root, k}, m) BY <1>3, <1>4, MkPathSound
<1>6. Forest(m.tree, {Root, k}) /\ Typed(m.tree) /\ k \in DOMAIN m.tree
  BY <1>5 DEF Walk, Forest
<1>7. NameSetIn(m.tree, n, k, name) BY <1>6, NameSet
<1>8. Forest(n, {Root, k}) /\ DOMAIN n = DOMAIN m.tree
  BY <1>6, <1>7, ForestSame DEF NameSetIn
<1>9. Below(n, {Root}, m.at)
  <2>1. \A S : Closed(n, S) /\ S \in SUBSET DOMAIN n => Closed(m.tree, S)
    BY <1>7 DEF NameSetIn, Closed
  <2>2. Below(m.tree, {Root}, m.at) BY <1>5 DEF Walk
  <2> QED BY <1>8, <2>1, <2>2 DEF Below
<1>10. AttachedIn(n, v, {Root}, k, m.at) BY <1>1, <1>8, <1>9, Attached
<1> QED BY <1>2, <1>3, <1>4, <1>5, <1>6, <1>7, <1>8, <1>10 DEF MovedIn

\* reg_move.
LEMMA RegMoveKeeps ==
  ASSUME IInv, RegMove
  PROVE  IInv'
<1> DEFINE s == call.s
           d == call.d
           k == Lookup(key, s)
           up == IF d = << >> THEN << >> ELSE Front(d)
           name == IF d = << >> THEN Empty ELSE Last(d)
           t == DetachChild(key, key[k].parent, k)
           m == MkPath(t, up)
           n == SetName(m.tree, k, name)
           v == AddChild(n, m.at, k)
<1>1. call \in Calls /\ call.op = "move" /\ frames = << >>
  BY DEF RegMove, Called, IInv
<1>2. s \in Seq(Strings) /\ d \in Seq(Strings) /\ (s # << >> => s[1] # Empty)
  BY <1>1, CallCarries
<1>3. up \in Seq(Strings) /\ name \in Strings BY <1>2, Apart
<1>4. CASE s = << >> \/ IsPrefix(s, d) \/ k = Null
  <2>1. key' = key /\ frames' = frames /\ call' = NoCall /\ UNCHANGED <<shadowed, made>>
    BY <1>4 DEF RegMove, Fails, Returns
  <2> QED BY <1>1, <2>1, ReturnKeeps DEF IInv
<1>5. CASE ~ (s = << >> \/ IsPrefix(s, d) \/ k = Null)
  <2>1. /\ key' = UpdatePaths(v, k, up) /\ frames' = frames /\ call' = NoCall /\ made' = made
        /\ Room(key)
        /\ shadowed' = (shadowed \/ (name # Empty /\ Find(m.tree, m.at, name) # Null))
    BY <1>5, Zenon DEF RegMove, Returns, SetName
  <2>2. k \in DOMAIN key /\ k # Root /\ Forest(key, {Root})
    BY <1>2, <1>5, FoundIn DEF IInv
  <2> HIDE DEF k, up, name
  <2>3. MovedIn(key, k, up, name, t, m, n, v) BY <1>3, <2>1, <2>2, Moved
  <2> HIDE DEF t, m, n, v
  <2>4. Forest(v, {Root}) /\ k \in DOMAIN v
    BY <2>3 DEF MovedIn, AttachedIn, NameSetIn
  <2> DEFINE w == UpdatePaths(v, k, up)
  <2>5. Forest(w, {Root}) BY <1>3, <2>4, PathsUpdated
  <2>6. shadowed' \in BOOLEAN BY <2>1 DEF IInv
  <2>7. key' = w /\ frames' = frames /\ call' = NoCall /\ made' = made BY <2>1
  <2> HIDE DEF w, s, d
  <2> QED BY <1>1, <2>5, <2>6, <2>7, ReturnKeeps
<1> QED BY <1>4, <1>5

\* reg_unmount with a source.
LEMMA RegUnmountKeeps ==
  ASSUME IInv, RegUnmount
  PROVE  IInv'
<1> DEFINE src == Lookup(key, call.s)
           dst == Lookup(key, call.d)
           list == IF src = dst /\ key[src].children # << >> THEN <<Head(key[src].children)>>
                   ELSE key[src].children
<1>1. call \in Calls /\ call.op = "unmount" /\ frames = << >>
  BY DEF RegUnmount, Called, IInv
<1>2. call.s \in Seq(Strings) /\ call.d \in Seq(Strings) BY <1>1, CallCarries
<1>3. src \in DOMAIN key \cup {Null} /\ dst \in DOMAIN key \cup {Null}
  BY <1>2, FoundIn
<1>4. CASE src = Null \/ dst = Null
  BY <1>1, <1>4, ReturnKeeps DEF RegUnmount, Fails, Returns, IInv
<1>5. CASE ~ (src = Null \/ dst = Null)
  <2>1. key' = Unmounted(key, dst, list) /\ frames' = frames /\ call' = NoCall /\ UNCHANGED <<shadowed, made>>
    BY <1>5 DEF RegUnmount, Returns
  <2> HIDE DEF src, dst
  <2>2. src \in DOMAIN key /\ dst \in DOMAIN key /\ Forest(key, {Root})
    BY <1>3, <1>5 DEF IInv
  <2>3. Len(list) \in Nat BY <2>2, ChildrenIn DEF Forest
  <2> HIDE DEF list
  <2>4. Forest(Unmounted(key, dst, list), {Root}) BY <2>2, <2>3, UnmountedSound
  <2> QED BY <1>1, <2>1, <2>4, ReturnKeeps DEF IInv
<1> QED BY <1>4, <1>5

\* reg_unmount without a source.
LEMMA RegUnmountAllKeeps ==
  ASSUME IInv, RegUnmountAll
  PROVE  IInv'
<1> DEFINE dst == Lookup(key, call.d)
<1>1. call \in Calls /\ call.op = "unmount all" /\ frames = << >>
  BY DEF RegUnmountAll, Called, IInv
<1>2. call.d \in Seq(Strings) BY <1>1, CallCarries
<1>3. dst \in DOMAIN key \cup {Null} BY <1>2, FoundIn
<1>4. CASE dst = Null
  <2>1. key' = key /\ frames' = frames /\ call' = NoCall /\ UNCHANGED <<shadowed, made>>
    BY <1>4 DEF RegUnmountAll, Fails, Returns
  <2> QED BY <1>1, <2>1, ReturnKeeps DEF IInv
<1>5. CASE dst # Null
  <2>1. key' = FreeChildren(key, dst) /\ frames' = frames /\ call' = NoCall /\ UNCHANGED <<shadowed, made>>
    BY <1>5 DEF RegUnmountAll, Returns
  <2> HIDE DEF dst
  <2>2. dst \in DOMAIN key /\ Forest(key, {Root}) BY <1>3, <1>5 DEF IInv
  <2>3. Forest(FreeChildren(key, dst), {Root}) BY <2>2, ChildrenFreed
  <2> QED BY <1>1, <2>1, <2>3, ReturnKeeps DEF IInv
<1> QED BY <1>4, <1>5

-----------------------------------------------------------------------------
(* Mounts *)

\* A mount starts, or its source has gone.
LEMMA BeginKeeps ==
  ASSUME IInv, frames = << >>, NEW t, Forest(t, {Root}), NEW s \in Seq(Strings), NEW d \in Seq(Strings),
         NEW before \in BOOLEAN, Begin(t, s, d, before), UNCHANGED <<shadowed, made>>
  PROVE  IInv'
<1> DEFINE m == MkPath(t, d)
           src == Lookup(t, s)
<1>1. CASE src = Null BY <1>1, ReturnKeeps DEF Begin, Returns, IInv
<1>2. CASE src # Null
  <2>1. Room(t) /\ key' = m.tree /\ frames' = <<Frame(m, src, s, d, before)>> /\ call' = call
    BY <1>2 DEF Begin
  <2>2. src \in DOMAIN t BY <1>2, LookupSound DEF Forest
  <2>3. Walk(t, {Root}, m) BY <2>1, MkPathSound
  <2> HIDE DEF m, src
  <2>4. Frame(m, src, s, d, before) \in Frames(DOMAIN m.tree) BY <2>2, <2>3, FrameIn
  <2>5. frames' \in Seq(Frames(DOMAIN key')) BY <2>1, <2>4
  <2>6. Forest(key', {Root}) BY <2>1, <2>3 DEF Walk
  <2> QED BY <2>1, <2>5, <2>6 DEF IInv
<1> QED BY <1>1, <1>2

\* reg_mount.
LEMMA RegMountKeeps ==
  ASSUME IInv, RegMount
  PROVE  IInv'
<1>1. call \in Calls /\ call.op = "mount" /\ frames = << >>
  BY DEF RegMount, Called, IInv
<1>2. call.s \in Seq(Strings) /\ call.d \in Seq(Strings) /\ call.before \in BOOLEAN
  BY <1>1, CallCarries
<1>3. Forest(key, {Root}) /\ Begin(key, call.s, call.d, call.before) /\ UNCHANGED <<shadowed, made>>
  BY DEF RegMount, IInv
<1> QED BY <1>1, <1>2, <1>3, BeginKeeps

\* reg_bind.
LEMMA RegBindKeeps ==
  ASSUME IInv, RegBind
  PROVE  IInv'
<1> DEFINE src == Lookup(key, call.s)
           m == MkPath(key, call.d)
           u == FreeChildren(m.tree, m.at)
           val == IF src \in DOMAIN u THEN u[src].val ELSE Nil
           v == SetVal(u, m.at, val)
<1>1. call \in Calls /\ call.op = "bind" /\ frames = << >>
  BY DEF RegBind, Called, IInv
<1>2. call.s \in Seq(Strings) /\ call.d \in Seq(Strings) BY <1>1, CallCarries
<1>3. CASE src = Null BY <1>1, <1>3, ReturnKeeps DEF RegBind, Fails, Returns, IInv
<1>4. CASE src # Null
  <2>1. Room(key) /\ Begin(v, call.s, call.d, TRUE) /\ UNCHANGED <<shadowed, made>>
    BY <1>4 DEF RegBind, SetVal
  <2>2. Walk(key, {Root}, m) BY <1>2, <2>1, MkPathSound DEF IInv
  <2> HIDE DEF m, src
  <2>3. Forest(m.tree, {Root}) /\ m.at \in DOMAIN m.tree BY <2>2 DEF Walk, Below
  <2>4. Forest(u, {Root}) /\ m.at \in DOMAIN u BY <2>3, ChildrenFreed
  <2> HIDE DEF u
  <2>5. val \in Values \cup {Nil} BY <2>4 DEF Forest, Typed, Rec
  <2> HIDE DEF val
  <2>6. ValSetIn(u, v, m.at, val) BY <2>4, <2>5, ValSet DEF Forest
  <2> HIDE DEF v
  <2>7. Forest(v, {Root}) BY <2>4, <2>6, ForestSame DEF ValSetIn
  <2>8. TRUE \in BOOLEAN OBVIOUS
  <2> QED BY <1>1, <1>2, <2>1, <2>7, <2>8, BeginKeeps
<1> QED BY <1>3, <1>4

\* The frame that a mount is at.
LEMMA LastFrame ==
  ASSUME IInv, frames # << >>
  PROVE  /\ Last(frames).src \in DOMAIN key /\ Last(frames).dst \in DOMAIN key
         /\ Last(frames).src_path \in Seq(Strings) /\ Last(frames).dst_path \in Seq(Strings)
         /\ Last(frames).before \in BOOLEAN /\ Last(frames).child \in DOMAIN key \cup {Null}
<1>1. frames \in Seq(Frames(DOMAIN key)) BY DEF IInv
<1>2. Last(frames) \in Frames(DOMAIN key) BY <1>1 DEF Last
<1> QED BY <1>2 DEF Frames

\* A mount comes to a child that the destination has too.
LEMMA MountNextKeeps ==
  ASSUME IInv, MountNext
  PROVE  IInv'
<1> DEFINE f == Last(frames)
           existing == Find(key, f.dst, key[f.child].name)
           t == IF f.before THEN SetVal(key, existing, key[f.child].val) ELSE key
<1>1. /\ frames # << >> /\ f.child # Null /\ existing # Null
      /\ key' = t /\ frames' = Advance(t, frames) /\ UNCHANGED <<call, shadowed, made>>
  BY DEF MountNext, SetVal
<1>2. f.dst \in DOMAIN key /\ f.child \in DOMAIN key /\ Typed(key) /\ Forest(key, {Root})
  BY <1>1, LastFrame DEF IInv, Forest
<1> HIDE DEF f
<1>3. existing \in DOMAIN key BY <1>1, <1>2, FindSound
<1> HIDE DEF existing
<1>4. Forest(t, {Root}) /\ DOMAIN t = DOMAIN key
  <2>1. key[f.child].val \in Values \cup {Nil} BY <1>2 DEF Typed, Rec
  <2>2. ValSetIn(key, SetVal(key, existing, key[f.child].val), existing, key[f.child].val)
    BY <1>2, <1>3, <2>1, ValSet
  <2>3. /\ Forest(SetVal(key, existing, key[f.child].val), {Root})
        /\ DOMAIN SetVal(key, existing, key[f.child].val) = DOMAIN key
    BY <1>2, <2>2, ForestSame DEF ValSetIn
  <2> QED BY <1>2, <2>3
<1> HIDE DEF t
<1>5. frames \in Seq(Frames(DOMAIN t)) /\ Typed(t) BY <1>4 DEF IInv, Forest
<1>6. Advance(t, frames) \in Seq(Frames(DOMAIN t)) BY <1>1, <1>5, AdvanceIn
<1> QED BY <1>1, <1>4, <1>6 DEF IInv

\* A mount comes to a child that the destination lacks.
LEMMA MountMirrorKeeps ==
  ASSUME IInv, MountMirror
  PROVE  IInv'
<1> DEFINE f == Last(frames)
           c == f.child
           k == Fresh(key)
           new_path == Truncated(Append(f.dst_path, key[c].name))
           child_src == Truncated(Append(f.src_path, key[c].name))
           r == [NewKey(key[c].name, new_path, Null) EXCEPT !.val = key[c].val]
           t == With(key, k, r)
           u == IF f.before THEN AddChild(t, f.dst, k) ELSE AddChildTail(t, f.dst, k)
           m == MkPath(u, new_path)
           src == Lookup(u, child_src)
           fr == Frame(m, src, child_src, new_path, f.before)
<1>1. /\ frames # << >> /\ c # Null /\ Room(key) /\ Room(u) /\ UNCHANGED <<call, shadowed, made>>
      /\ \/ src # Null /\ key' = m.tree /\ frames' = Append(frames, fr)
         \/ key' = u /\ frames' = Advance(u, frames)
  BY DEF MountMirror
<1>2. /\ f.dst \in DOMAIN key /\ c \in DOMAIN key /\ f.before \in BOOLEAN
      /\ f.src_path \in Seq(Strings) /\ f.dst_path \in Seq(Strings)
  BY <1>1, LastFrame
<1> HIDE DEF f
<1>3. key[c].name \in Strings /\ key[c].val \in Values \cup {Nil}
  BY <1>2 DEF IInv, Forest, Typed, Rec
<1>4. new_path \in Seq(Strings) /\ child_src \in Seq(Strings)
  <2>1. Append(f.dst_path, key[c].name) \in Seq(Strings) /\ Append(f.src_path, key[c].name) \in Seq(Strings)
    BY <1>2, <1>3
  <2> QED BY <2>1, TruncatedSound
<1>5. k \in Ids \ DOMAIN key BY <1>1, RoomIsFree, FreshIsFree
<1> HIDE DEF c, k, new_path, child_src
<1>6. r \in Rec(DOMAIN key) /\ r.parent = Null /\ r.children = << >>
  <2> DEFINE q == NewKey(key[c].name, new_path, Null)
  <2>1. q \in Rec(DOMAIN key) /\ q.parent = Null /\ q.children = << >>
    BY <1>3, <1>4, NewKeyIn DEF NewKey
  <2>2. r = [q EXCEPT !.val = key[c].val] OBVIOUS
  <2> HIDE DEF q
  <2> QED BY <1>3, <2>1, <2>2 DEF Rec
<1> HIDE DEF r
<1>7. Forest(u, {Root}) /\ DOMAIN u = DOMAIN key \cup {k}
  <2>1. u = AddChild(With(key, k, r), f.dst, k) \/ u = AddChildTail(With(key, k, r), f.dst, k)
    OBVIOUS
  <2>2. Forest(key, {Root}) BY DEF IInv
  <2> DEFINE P == f.dst
  <2> HIDE DEF u, P
  <2>3. P \in DOMAIN key /\ (u = AddChild(With(key, k, r), P, k) \/ u = AddChildTail(With(key, k, r), P, k))
    BY <1>2, <2>1 DEF P
  <2>4. k \in Ids \ DOMAIN key /\ r \in Rec(DOMAIN key) /\ r.parent = Null /\ r.children = << >>
    BY <1>5, <1>6
  <2>5. MirroredIn(key, u, k, r, P) BY <2>2, <2>3, <2>4, Mirrored
  <2> QED BY <2>5 DEF MirroredIn
<1> HIDE DEF t, u
<1>8. frames \in Seq(Frames(DOMAIN u)) /\ Typed(u) /\ Root \in DOMAIN u
  BY <1>7, FramesGrow DEF IInv, Forest
<1>9. CASE src # Null /\ key' = m.tree /\ frames' = Append(frames, fr)
  <2>1. src \in DOMAIN u BY <1>4, <1>8, <1>9, LookupSound
  <2>2. Walk(u, {Root}, m) BY <1>1, <1>4, <1>7, MkPathSound
  <2> HIDE DEF m, src
  <2>3. fr \in Frames(DOMAIN m.tree) BY <1>2, <1>4, <1>7, <2>1, <2>2, FrameIn
  <2> HIDE DEF fr
  <2>4. DOMAIN u \subseteq DOMAIN m.tree BY <2>2 DEF Walk, Grew
  <2>5. frames \in Seq(Frames(DOMAIN m.tree)) BY <1>8, <2>4, FramesGrow
  <2>6. frames' \in Seq(Frames(DOMAIN key')) BY <1>9, <2>3, <2>5
  <2>7. Forest(key', {Root}) BY <1>9, <2>2 DEF Walk
  <2> QED BY <1>1, <2>6, <2>7 DEF IInv
<1>10. CASE key' = u /\ frames' = Advance(u, frames)
  BY <1>1, <1>7, <1>8, <1>10, AdvanceIn DEF IInv
<1> QED BY <1>1, <1>9, <1>10

\* A mount has gone through the children of its source.
LEMMA MountReturnKeeps ==
  ASSUME IInv, MountReturn
  PROVE  IInv'
<1>0. frames # << >> /\ UNCHANGED <<key, shadowed, made>> BY DEF MountReturn
<1>1. frames \in Seq(Frames(DOMAIN key)) /\ Typed(key) BY DEF IInv, Forest
<1>2. CASE Len(frames) = 1 BY <1>0, <1>2 DEF MountReturn, IInv
<1>3. CASE Len(frames) # 1
  <2>1. frames' = Advance(key, Front(frames)) /\ call' = call
    BY <1>3 DEF MountReturn
  <2>2. Front(frames) \in Seq(Frames(DOMAIN key)) /\ Front(frames) # << >>
    <3>1. Len(frames) \in Nat /\ Len(frames) # 0 BY <1>0, <1>1
    <3>2. Len(frames) - 1 \in 1..Len(frames) BY <1>3, <3>1
    <3>3. Front(frames) \in Seq(Frames(DOMAIN key)) /\ Len(Front(frames)) = Len(frames) - 1
      BY <1>1, <3>1, <3>2 DEF Front
    <3> QED BY <3>2, <3>3
  <2>3. Advance(key, Front(frames)) \in Seq(Frames(DOMAIN key))
    BY <1>1, <2>2, AdvanceIn
  <2> QED BY <1>0, <2>1, <2>3 DEF IInv
<1> QED BY <1>2, <1>3

\* Every step keeps the keys a tree.
LEMMA InvariantKept == IInv /\ [Next]_vars => IInv'
BY AskKeeps, RegSetKeeps, RegDeleteKeeps, RegMoveKeeps, RegUnmountKeeps, RegUnmountAllKeeps, RegMountKeeps,
   RegBindKeeps, MountNextKeeps, MountMirrorKeeps, MountReturnKeeps DEF IInv, vars, Serve, Next

\* Whatever is called, the registry's keys stay one tree: every allocated key
\* is in the list of its parent once and can be reached from the root; none is
\* leaked, none that is freed is linked, and no move makes a cycle.
THEOREM KeysStayATree == Spec => []TreeShape
<1>1. Init => IInv BY InvariantHoldsAtFirst
<1>2. IInv /\ [Next]_vars => IInv' BY InvariantKept
<1>3. IInv => TreeShape BY InvariantImplies
<1> QED BY <1>1, <1>2, <1>3, PTL DEF Spec


-----------------------------------------------------------------------------
(* The paths that keys carry *)

\* A name put behind a path that was cut is cut again.
LEMMA CutTwice ==
  ASSUME NEW p \in Seq(Strings), NEW n \in Strings
  PROVE  Truncated(Append(Truncated(p), n)) = Truncated(Append(p, n))
<1>1. PathMax \in Nat \ {0} BY NullIsNone
<1>2. CASE Len(p) <= PathMax BY <1>2, TruncatedSound
<1>3. CASE ~ (Len(p) <= PathMax)
  <2> DEFINE q == Truncated(p)
             a == Truncated(Append(q, n))
             b == Truncated(Append(p, n))
  <2>1. q \in Seq(Strings) /\ Len(q) = PathMax /\ \A i \in 1..PathMax : q[i] = p[i]
    BY <1>1, <1>3 DEF Truncated
  <2> HIDE DEF q
  <2>2. Append(q, n) \in Seq(Strings) /\ Append(p, n) \in Seq(Strings) BY <2>1
  <2>3. a = SubSeq(Append(q, n), 1, PathMax) /\ b = SubSeq(Append(p, n), 1, PathMax)
    BY <1>1, <1>3, <2>1 DEF Truncated
  <2>4. a \in Seq(Strings) /\ Len(a) = PathMax /\ \A i \in 1..PathMax : a[i] = q[i]
    BY <1>1, <2>1, <2>2, <2>3
  <2>5. b \in Seq(Strings) /\ Len(b) = PathMax /\ \A i \in 1..PathMax : b[i] = p[i]
    BY <1>1, <1>3, <2>2, <2>3
  <2> HIDE DEF a, b
  <2>6. a = b BY <2>1, <2>4, <2>5, SeqEqual
  <2> QED BY <2>6 DEF a, b, q
<1> QED BY <1>2, <1>3

\* What is left of a tree carries what it did.
LEMMA RightCarried ==
  ASSUME NEW t, NEW R, Right(t, R), NEW u, Forest(u, R), Carried(t, u)
  PROVE  Right(u, R)
BY HasParent DEF Right, Forest, Carried

\* A tree that is grown by one key under P, with the path for it there.
LEMMA RightGrown ==
  ASSUME NEW t, NEW R, Forest(t, R), Right(t, R), NEW u, Grew(t, u), NEW k, DOMAIN u = DOMAIN t \cup {k},
         NEW P \in DOMAIN t, u[k].parent = P, u[k].name \in Names,
         u[k].path = Truncated(Append(t[P].path, u[k].name)), k \notin DOMAIN t
  PROVE  Right(u, R)
BY HasParent DEF Right, Forest, Grew

-----------------------------------------------------------------------------
(* reg_mkpath and paths *)

\* The loop is at the key whose path it has built.
At(m, R, i) ==
  /\ Right(m.tree, R) /\ m.tree[m.at].path = m.built
  /\ m.built \in Seq(Strings) /\ Len(m.built) <= i

\* One turn of the loop goes down by the name, and stays where it is without.
LEMMA MkStepRight ==
  ASSUME NEW t, NEW R, NEW m, Walk(t, R, m), NEW w, NEW n \in Strings, StepIn(m, w, n),
         NEW i \in Nat, i < PathMax, At(m, R, i)
  PROVE  At(w, R, i + 1) /\ (n # Empty => w.built = Append(m.built, n))
<1>0. /\ Forest(m.tree, R) /\ Typed(m.tree) /\ Linked(m.tree) /\ m.at \in DOMAIN m.tree
      /\ m.built \in Seq(Strings) /\ Len(m.built) <= i
  BY DEF Walk, Below, Forest, At
<1>1. /\ Append(m.built, n) \in Seq(Strings) /\ Len(Append(m.built, n)) <= i + 1
      /\ Truncated(Append(m.built, n)) = Append(m.built, n)
  <2>1. Append(m.built, n) \in Seq(Strings) /\ Len(Append(m.built, n)) <= i + 1
    BY <1>0
  <2>2. Len(Append(m.built, n)) <= PathMax BY <1>0, <2>1, NullIsNone
  <2> QED BY <2>1, <2>2, TruncatedSound
<1>2. CASE n = Empty /\ w = m BY <1>0, <1>2 DEF At
<1>3. CASE /\ n # Empty /\ w.tree = m.tree /\ w.built = Append(m.built, n)
           /\ w.at \in Range(m.tree[m.at].children) /\ m.tree[w.at].name = n
  <2>1. w.at \in DOMAIN m.tree /\ m.tree[w.at].parent = m.at /\ m.tree[w.at].parent # Null
    BY <1>0, <1>3, OneParent
  <2>2. w.at \notin R BY <1>0, <2>1 DEF Forest
  <2>3. m.tree[w.at].path = Truncated(Append(m.tree[m.at].path, n))
    BY <1>3, <2>1, <2>2 DEF At, Right
  <2> QED BY <1>1, <1>3, <2>3 DEF At
<1>4. CASE /\ n # Empty /\ w.built = Append(m.built, n) /\ Grew(m.tree, w.tree)
           /\ w.at \notin DOMAIN m.tree /\ DOMAIN w.tree = DOMAIN m.tree \cup {w.at}
           /\ w.tree[w.at].name = n /\ w.tree[w.at].parent = m.at
           /\ w.tree[w.at].path = Truncated(w.built)
  BY <1>0, <1>1, <1>4, RightGrown DEF Strings, At
<1> QED BY <1>2, <1>3, <1>4 DEF StepIn

\* m has the tree that reg_mkpath leaves of t, and the key it returns for path.
Made(t, R, path, m) ==
  /\ Walk(t, R, m) /\ Right(m.tree, R)
  /\ path \in Seq(Names) => m.tree[m.at].path = Truncated(path)

\* The key that reg_mkpath returns carries the path it was asked for, if that
\* is spelled without a slash at its end.
LEMMA MkPathRight ==
  ASSUME NEW t, NEW R, Forest(t, R), Right(t, R), Room(t), NEW path \in Seq(Strings)
  PROVE  Made(t, R, path, MkPath(t, path))
<1> DEFINE n == Len(Truncated(path))
           p == Truncated(path)
<1>0. Root \in R BY DEF Right
<1>1. PICK f : Walks(t, R, path, f) BY <1>0, MkPathWalks
<1>2. /\ n \in Nat /\ n <= PathMax /\ PathMax \in Nat /\ \A i \in 1..n : p[i] \in Strings
      /\ p \in Seq(Strings)
  BY TruncatedSound, NullIsNone
<1>3. /\ f[0] = [tree |-> t, at |-> Root, built |-> << >>] /\ MkPath(t, path) = f[n]
      /\ \A i \in 0..n : Walk(t, R, f[i])
      /\ \A i \in 0..(n - 1) : StepIn(f[i], f[i + 1], p[i + 1])
  BY <1>1 DEF Walks
<1>4. path \in Seq(Names) => \A i \in 1..n : p[i] # Empty
  BY <1>2, TruncatedSound, NameAssumption
<1> HIDE DEF n, p
<1> DEFINE AsPath(i) == path \in Seq(Names) => /\ Len(f[i].built) = i
                                              /\ \A j \in 1..i : f[i].built[j] = p[j]
           A == {i \in 0..n : At(f[i], R, i) /\ AsPath(i)}
<1>5. 0 \in A
  <2>1. At(f[0], R, 0) BY <1>3 DEF Right, At
  <2>2. AsPath(0) BY <1>3
  <2> HIDE DEF AsPath
  <2> QED BY <1>2, <2>1, <2>2
<1>6. ASSUME NEW i \in 0..(n - 1), i \in A PROVE i + 1 \in A
  <2>1. i \in Nat /\ i < PathMax /\ i + 1 \in 1..n /\ i + 1 \in 0..n /\ i \in 0..n
    BY <1>2
  <2>2. Walk(t, R, f[i]) /\ StepIn(f[i], f[i + 1], p[i + 1]) /\ p[i + 1] \in Strings
    BY <1>2, <1>3, <2>1
  <2>3. At(f[i], R, i) /\ AsPath(i) BY <1>6
  <2>4. At(f[i + 1], R, i + 1) /\ (p[i + 1] # Empty => f[i + 1].built = Append(f[i].built, p[i + 1]))
    <3> HIDE DEF AsPath
    <3> QED BY <2>1, <2>2, <2>3, MkStepRight
  <2>5. AsPath(i + 1)
    <3> SUFFICES ASSUME path \in Seq(Names)
                 PROVE  /\ Len(f[i + 1].built) = i + 1
                        /\ \A j \in 1..(i + 1) : f[i + 1].built[j] = p[j]
      OBVIOUS
    <3>1. f[i + 1].built = Append(f[i].built, p[i + 1]) BY <1>4, <2>1, <2>4
    <3>2. Len(f[i].built) = i /\ \A j \in 1..i : f[i].built[j] = p[j] BY <2>3
    <3>3. f[i].built \in Seq(Strings) BY <2>3 DEF At
    <3> DEFINE b == f[i].built
    <3> HIDE DEF b
    <3>4. \A x : /\ Len(Append(b, x)) = i + 1 /\ Append(b, x)[i + 1] = x
                 /\ \A j \in 1..i : Append(b, x)[j] = b[j]
      BY <2>1, <3>2, <3>3 DEF b
    <3>5. \A j \in 1..(i + 1) : j = i + 1 \/ j \in 1..i BY <2>1
    <3> QED BY <3>1, <3>2, <3>4, <3>5 DEF b
  <2> HIDE DEF AsPath
  <2> QED BY <2>1, <2>4, <2>5
<1> HIDE DEF A
<1>7. \A i \in 0..n : i \in A BY <1>2, <1>5, <1>6, Counted
<1>8. n \in 0..n /\ At(f[n], R, n) /\ AsPath(n) BY <1>2, <1>7 DEF A
<1>9. path \in Seq(Names) => f[n].built = p BY <1>2, <1>8, SeqEqual DEF At, n, p
<1>10. Walk(t, R, f[n]) BY <1>3, <1>8
<1>11. Made(t, R, path, f[n]) BY <1>8, <1>9, <1>10 DEF Made, At, p
<1> QED BY <1>3, <1>11

-----------------------------------------------------------------------------
(* regkey_update_paths, and paths that lead back *)

\* The paths handed down from a key that has been linked elsewhere are right,
\* if the one its parent carries is the one it was given.
LEMMA UpdatePathsRight ==
  ASSUME NEW t, NEW k \in DOMAIN t, k # Root, Forest(t, {Root}), Right(t, {Root, k}),
         t[k].name \in Names, NEW above \in Seq(Strings), t[t[k].parent].path = Truncated(above)
  PROVE  Right(UpdatePaths(t, k, above), {Root})
<1> DEFINE u == UpdatePaths(t, k, above)
<1>0. Typed(t) /\ Linked(t) /\ Root \in DOMAIN t /\ t[Root].parent = Null
  BY DEF Forest
<1>a. PICK path : HandedDown(t, k, above, path) BY <1>0, PathsSteps
<1> DEFINE moved == Subtree(t, k)
           P == t[k].parent
<1>1. /\ u = [j \in DOMAIN t |-> IF j \in moved THEN [t[j] EXCEPT !.path = path[j]] ELSE t[j]]
      /\ \A j \in moved : path[j] = PathOf(t, k, above, path, j)
  BY <1>a DEF HandedDown
<1>2. moved \in SUBSET DOMAIN t /\ k \in moved /\ Closed(t, moved)
  BY <1>0, SubtreeSound
<1>3. \A j \in moved \ {k} : t[j].parent \in moved /\ t[j].parent # Null
  BY <1>0, ParentInside
<1> HIDE DEF moved, u
<1>4. Root \notin moved BY <1>0, <1>3
<1>5. \A j \in DOMAIN t \ {Root} : t[j].parent \in DOMAIN t /\ j \in Range(t[t[j].parent].children)
  BY HasParent
<1>6. P \notin moved BY <1>2, <1>3, NoCycle
<1>7. DOMAIN u = DOMAIN t /\ u[Root] = t[Root] BY <1>0, <1>1, <1>4
<1>8. \A j \in DOMAIN t : u[j] = IF j \in moved THEN [t[j] EXCEPT !.path = path[j]] ELSE t[j]
  BY <1>1
<1>9. \A j \in DOMAIN t : /\ u[j].name = t[j].name /\ u[j].parent = t[j].parent
                          /\ u[j].path = IF j \in moved THEN path[j] ELSE t[j].path
  BY <1>0, <1>8 DEF Typed, Rec
<1>10. ASSUME NEW j \in DOMAIN u \ {Root}
       PROVE  /\ u[j].name \in Names
              /\ u[j].path = Truncated(Append(u[u[j].parent].path, u[j].name))
  <2>1. j \in DOMAIN t \ {Root} /\ t[j].parent \in DOMAIN t BY <1>5, <1>7
  <2>2. CASE j = k
    <3>1. u[k].path = Truncated(Append(above, t[k].name))
      BY <1>1, <1>2, <1>9 DEF PathOf
    <3>2. u[P].path = Truncated(above) BY <1>6, <1>9, <2>1, <2>2
    <3>3. t[k].name \in Strings BY DEF Strings
    <3>4. u[k].path = Truncated(Append(u[P].path, t[k].name))
      BY <3>1, <3>2, <3>3, CutTwice
    <3> QED BY <1>9, <2>2, <3>4
  <2>3. CASE j # k /\ j \in moved
    <3>1. u[j].path = Truncated(Append(path[t[j].parent], t[j].name))
      BY <1>1, <1>9, <2>1, <2>3 DEF PathOf
    <3>2. t[j].parent \in moved /\ u[t[j].parent].path = path[t[j].parent]
      BY <1>3, <1>9, <2>1, <2>3
    <3>3. t[j].name \in Names BY <2>1, <2>3 DEF Right
    <3> QED BY <1>9, <2>1, <3>1, <3>2, <3>3
  <2>4. CASE j \notin moved BY <1>2, <1>5, <1>9, <2>1, <2>4 DEF Closed, Right
  <2> QED BY <2>2, <2>3, <2>4
<1>11. u[Root].path = << >> BY <1>7 DEF Right
<1>12. Right(u, {Root}) BY <1>7, <1>10, <1>11 DEF Right
<1> QED BY <1>12 DEF u

\* The key found on a path of names carries that path.
LEMMA FoundCarries ==
  ASSUME NEW t, Forest(t, {Root}), Right(t, {Root}), NEW path \in Paths, Lookup(t, path) # Null
  PROVE  t[Lookup(t, path)].path = path
<1> DEFINE n == Len(path)
<1>0. Typed(t) /\ Linked(t) /\ Root \in DOMAIN t /\ t[Root].parent = Null /\ Null \notin DOMAIN t
  BY NullIsNone DEF Forest, Typed
<1>1. /\ path \in Seq(Names) /\ path \in Seq(Strings) /\ n \in Nat /\ n <= PathMax
      /\ \A i \in 1..n : path[i] \in Names /\ path[i] \in Strings
  BY NullIsNone DEF Paths, Strings
<1>2. Truncated(path) = path BY <1>1, TruncatedSound
<1>3. PICK f : /\ f[0] = Root
               /\ \A i \in 1..n : f[i] = Turn(t, f[i - 1], path[i])
               /\ Lookup(t, path) = f[n]
  BY <1>1, <1>2, LookupSteps
<1> HIDE DEF n
<1> DEFINE Carries(i) == /\ f[i] \in DOMAIN t /\ t[f[i]].path \in Seq(Strings) /\ Len(t[f[i]].path) = i
                         /\ \A j \in 1..i : t[f[i]].path[j] = path[j]
           A == {i \in 0..n : f[i] = Null \/ Carries(i)}
<1>4. 0 \in A
  <2>1. << >> \in Seq(Strings) /\ Len(<< >>) = 0 /\ t[f[0]].path = << >>
    BY <1>3 DEF Right
  <2>2. Carries(0) BY <1>0, <1>3, <2>1
  <2> HIDE DEF Carries
  <2> QED BY <1>1, <2>2
<1>5. ASSUME NEW i \in 0..(n - 1), i \in A PROVE i + 1 \in A
  <2>1. i \in Nat /\ i + 1 \in 1..n /\ i + 1 \in 0..n /\ (i + 1) - 1 = i /\ i + 1 <= PathMax
    BY <1>1, NullIsNone
  <2>2. f[i + 1] = Turn(t, f[i], path[i + 1]) BY <1>3, <2>1
  <2>3. path[i + 1] \in Names /\ path[i + 1] # Empty /\ path[i + 1] \in Strings
    BY <1>1, <2>1, NameAssumption
  <2>4. CASE f[i] = Null BY <2>1, <2>2, <2>4 DEF Turn
  <2>5. CASE f[i] # Null /\ Carries(i)
    <3> DEFINE c == f[i + 1]
               q == t[f[i]].path
    <3>1. c = Find(t, f[i], path[i + 1]) BY <2>2, <2>3, <2>5 DEF Turn
    <3>2. CASE c = Null BY <2>1, <3>2
    <3>3. CASE c # Null
      <4>1. f[i] \in DOMAIN t /\ q \in Seq(Strings) /\ Len(q) = i /\ \A j \in 1..i : q[j] = path[j]
        BY <2>5
      <4>2. c \in Range(t[f[i]].children) /\ t[c].name = path[i + 1]
        BY <1>0, <3>1, <3>3, <4>1, FindSound
      <4>3. c \in DOMAIN t /\ t[c].parent = f[i] /\ t[c].parent # Null
        BY <1>0, <4>1, <4>2, OneParent
      <4>4. t[c].path = Truncated(Append(q, path[i + 1]))
        BY <1>0, <4>2, <4>3 DEF Right
      <4> HIDE DEF q, c
      <4> DEFINE x == path[i + 1]
      <4>5. x \in Strings BY <2>3
      <4> HIDE DEF x
      <4>6. /\ Append(q, x) \in Seq(Strings) /\ Len(Append(q, x)) = i + 1 /\ Append(q, x)[i + 1] = x
            /\ \A j \in 1..i : Append(q, x)[j] = q[j]
        BY <2>1, <4>1, <4>5
      <4>7. Truncated(Append(q, x)) = Append(q, x) BY <2>1, <4>6, TruncatedSound
      <4>8. \A j \in 1..(i + 1) : j = i + 1 \/ j \in 1..i BY <2>1
      <4>9. /\ t[c].path \in Seq(Strings) /\ Len(t[c].path) = i + 1
            /\ \A j \in 1..(i + 1) : t[c].path[j] = path[j]
        BY <4>1, <4>4, <4>6, <4>7, <4>8 DEF x
      <4>10. Carries(i + 1) BY <4>3, <4>9 DEF c
      <4> HIDE DEF Carries
      <4> QED BY <2>1, <4>10
    <3> HIDE DEF Carries, c
    <3> QED BY <3>2, <3>3
  <2> HIDE DEF Carries
  <2> QED BY <1>5, <2>4, <2>5
<1> HIDE DEF A
<1>6. \A i \in 0..n : i \in A BY <1>1, <1>4, <1>5, Counted
<1>7. n \in 0..n /\ (f[n] = Null \/ Carries(n)) BY <1>1, <1>6 DEF A
<1>8. Carries(n) BY <1>3, <1>7
<1> DEFINE q == t[f[n]].path
<1>9. q \in Seq(Strings) /\ Len(q) = Len(path) /\ \A j \in 1..Len(q) : q[j] = path[j]
  BY <1>8 DEF n
<1> HIDE DEF q
<1>10. q = path BY <1>1, <1>9, SeqEqual
<1> QED BY <1>3, <1>10 DEF q

-----------------------------------------------------------------------------
(* The invariant of the paths *)

\* A tree keeps its paths right below more roots, as long as what is not one of
\* them keeps its name and its parent.
LEMMA RightBut ==
  ASSUME NEW t, NEW R, Forest(t, R), Right(t, R), NEW S, R \subseteq S, NEW u, DOMAIN u = DOMAIN t,
         \A j \in DOMAIN t : u[j].path = t[j].path,
         \A j \in DOMAIN t \ S : u[j].name = t[j].name /\ u[j].parent = t[j].parent
  PROVE  Right(u, S)
BY HasParent DEF Right, Forest

\* The root is the child of no key.
LEMMA RootIsNoChild ==
  ASSUME NEW t, Forest(t, {Root}), NEW k \in DOMAIN t, NEW c \in Range(t[k].children) \cup {Null}
  PROVE  c # Root
BY NullIsNone, OneParent DEF Forest

\* Mounts stay aimed while keys keep their paths.
LEMMA AimedKept ==
  ASSUME NEW t, NEW fs \in Seq(Frames(DOMAIN t)), Aimed(t, fs),
         NEW u, \A j \in DOMAIN t : u[j].path = t[j].path
  PROVE  Aimed(u, fs)
<1> SUFFICES ASSUME NEW i \in DOMAIN fs
             PROVE  /\ fs[i].dst_path \in Seq(Names)
                    /\ u[fs[i].dst].path = Truncated(fs[i].dst_path)
                    /\ fs[i].child # Root
  BY DEF Aimed
<1>1. fs[i] \in Frames(DOMAIN t) OBVIOUS
<1>2. fs[i].dst \in DOMAIN t BY <1>1 DEF Frames
<1> QED BY <1>2 DEF Aimed

\* The loop of a mount goes on to a key that is not the root.
LEMMA AdvanceAimed ==
  ASSUME NEW t, Forest(t, {Root}), NEW fs \in Seq(Frames(DOMAIN t)), fs # << >>, Aimed(t, fs)
  PROVE  Aimed(t, Advance(t, fs))
<1> DEFINE n == Len(fs)
           f == fs[n]
           next == NextChild(t, f.src, f.child)
           g == [f EXCEPT !.child = next]
           fs2 == [fs EXCEPT ![n] = g]
<1>1. n \in 1..Len(fs) /\ f \in Frames(DOMAIN t) OBVIOUS
<1>2. next # Root
  <2>1. f.src \in DOMAIN t /\ Typed(t) BY <1>1 DEF Frames, Forest
  <2>2. next \in Range(t[f.src].children) \cup {Null} BY <2>1, NextChildIn
  <2> HIDE DEF next, f
  <2> QED BY <2>1, <2>2, RootIsNoChild
<1>3. Advance(t, fs) = fs2 BY <1>1 DEF Advance
<1> HIDE DEF next
<1>4. g.dst = f.dst /\ g.dst_path = f.dst_path /\ g.child = next BY <1>1 DEF Frames
<1>5. /\ f.dst_path \in Seq(Names) /\ t[f.dst].path = Truncated(f.dst_path)
  BY <1>1 DEF Aimed
<1> HIDE DEF f, g
<1>6. DOMAIN fs2 = DOMAIN fs /\ \A i \in DOMAIN fs : fs2[i] = IF i = n THEN g ELSE fs[i]
  OBVIOUS
<1> HIDE DEF fs2, n
<1>7. Aimed(t, fs2) BY <1>2, <1>4, <1>5, <1>6 DEF Aimed
<1> QED BY <1>3, <1>7

\* A new frame is aimed at the key that reg_mkpath has made.
LEMMA FrameAimed ==
  ASSUME NEW t, NEW m, NEW d \in Seq(Names), Made(t, {Root}, d, m), NEW src \in DOMAIN m.tree,
         NEW s, NEW before, NEW fs, fs = << >> \/ fs \in Seq(Frames(DOMAIN m.tree)), Aimed(m.tree, fs),
         NEW gs, gs = Append(fs, Frame(m, src, s, d, before))
  PROVE  Aimed(m.tree, gs)
<1> DEFINE f == Frame(m, src, s, d, before)
<1>1. f.dst = m.at /\ f.dst_path = d /\ f.child = FirstChild(m.tree, src)
  BY DEF Frame
<1>2. f.child # Root
  <2>1. Forest(m.tree, {Root}) /\ Typed(m.tree) BY DEF Made, Walk, Forest
  <2>2. FirstChild(m.tree, src) \in Range(m.tree[src].children) \cup {Null}
    BY <2>1, NextChildIn
  <2>3. FirstChild(m.tree, src) # Root BY <2>1, <2>2, RootIsNoChild
  <2> QED BY <1>1, <2>3
<1>3. m.tree[f.dst].path = Truncated(f.dst_path) /\ f.dst_path \in Seq(Names)
  BY <1>1 DEF Made
<1> HIDE DEF f
<1>4. gs = Append(fs, f) BY DEF f
<1>5. \A i \in DOMAIN gs : gs[i] = f \/ (i \in DOMAIN fs /\ gs[i] = fs[i]) BY <1>4
<1> QED BY <1>2, <1>3, <1>5 DEF Aimed

\* At first the keys under the root carry their names.
LEMMA PathsRightAtFirst == Init => PathsRight
<1> SUFFICES ASSUME Init PROVE PathsRight OBVIOUS
<1> DEFINE n == Len(Top)
           kids == [i \in 1..n |-> n + 2 - i]
<1>0. n \in Nat /\ PathMax \in Nat \ {0} /\ Top \in Seq(Names)
  BY NameAssumption, BoundAssumption
<1>1. /\ DOMAIN key = 1..(n + 1)
      /\ key[Root] = [NewKey(Empty, << >>, Null) EXCEPT !.children = kids]
      /\ \A k \in 2..(n + 1) : key[k] = NewKey(Top[k - 1], <<Top[k - 1]>>, Root)
  BY <1>0 DEF Init, Root
<1> HIDE DEF kids
<1>2. key[Root].path = << >> BY <1>0, <1>1 DEF Truncated, NewKey
<1>3. ASSUME NEW k \in DOMAIN key \ {Root}
      PROVE  /\ key[k].name \in Names
             /\ key[k].path = Truncated(Append(key[key[k].parent].path, key[k].name))
  <2>1. k \in 2..(n + 1) /\ k - 1 \in 1..n BY <1>0, <1>1 DEF Root
  <2>2. Top[k - 1] \in Names BY <1>0, <2>1
  <2>3. key[k] = NewKey(Top[k - 1], <<Top[k - 1]>>, Root) BY <1>1, <2>1
  <2>4. /\ key[k].name = Top[k - 1] /\ key[k].parent = Root
        /\ key[k].path = Truncated(<<Top[k - 1]>>)
    BY <2>3 DEF NewKey
  <2>5. Append(<< >>, Top[k - 1]) = <<Top[k - 1]>> OBVIOUS
  <2> QED BY <1>2, <2>2, <2>4, <2>5
<1>4. frames = << >> BY DEF Init
<1> QED BY <1>2, <1>3, <1>4 DEF PathsRight, Right, Aimed

-----------------------------------------------------------------------------
(* Calls and the paths *)

\* A call that leaves the paths right keeps mounts aimed: there is none.
LEMMA ReturnPaths ==
  ASSUME frames = << >>, frames' = frames, Right(key', {Root})
  PROVE  PathsRight'
BY DEF PathsRight, Aimed

\* reg_set.
LEMMA RegSetPaths ==
  ASSUME IInv, PathsRight, RegSet
  PROVE  PathsRight'
<1> DEFINE m == MkPath(key, call.p)
<1>1. call \in Calls /\ call.op = "set" /\ frames = << >> /\ Room(key)
  BY DEF RegSet, Called, IInv
<1>2. call.p \in Seq(Strings) /\ call.v \in Values BY <1>1, CallCarries
<1>3. Made(key, {Root}, call.p, m) BY <1>1, <1>2, MkPathRight DEF IInv, PathsRight
<1>4. key' = SetVal(m.tree, m.at, call.v) /\ frames' = frames
  BY DEF RegSet, Returns, SetVal
<1> HIDE DEF m
<1>5. Typed(m.tree) /\ m.at \in DOMAIN m.tree /\ Forest(m.tree, {Root}) /\ Right(m.tree, {Root})
  BY <1>3 DEF Made, Walk, Below, Forest
<1>6. call.v \in Values \cup {Nil} BY <1>2
<1>7. ValSetIn(m.tree, SetVal(m.tree, m.at, call.v), m.at, call.v)
  BY <1>5, <1>6, ValSet
<1>8. Right(SetVal(m.tree, m.at, call.v), {Root})
  BY <1>5, <1>7, RightBut DEF ValSetIn
<1> QED BY <1>1, <1>4, <1>8, ReturnPaths

\* reg_delete.
LEMMA RegDeletePaths ==
  ASSUME IInv, PathsRight, RegDelete, IInv'
  PROVE  PathsRight'
<1> DEFINE k == Lookup(key, call.p)
           u == DetachChild(key, key[k].parent, k)
           t == Free(u, {k})
<1>1. call \in Calls /\ call.op = "delete" /\ frames = << >>
  BY DEF RegDelete, Called, IInv
<1>2. call.p \in Seq(Strings) /\ call.p # << >> /\ call.p[1] # Empty
  BY <1>1, CallCarries
<1>3. k \in DOMAIN key \cup {Null} /\ k # Root BY <1>2, FoundIn
<1>4. CASE k = Null
  BY <1>1, <1>4, ReturnPaths DEF RegDelete, Fails, Returns, PathsRight
<1>5. CASE k # Null
  <2>1. key' = t /\ frames' = frames BY <1>5 DEF RegDelete, Returns
  <2> HIDE DEF k
  <2>2. k \in DOMAIN key /\ k \notin {Root} /\ Forest(key, {Root})
    BY <1>3, <1>5 DEF IInv
  <2>3. DetachedIn(key, u, {Root}, k) BY <2>2, Detached
  <2> HIDE DEF u
  <2>4. FreedIn(u, t, {Root} \cup {k}, {k}) BY <2>3, FreedRoots DEF DetachedIn
  <2> HIDE DEF t
  <2>5. k \in Freed(u, {k}) BY <2>2, <2>3, FreedSound DEF DetachedIn, Forest
  <2>6. Carried(key, t) BY <2>3, <2>4, <2>5 DEF DetachedIn, FreedIn, Carried
  <2>7. Right(t, {Root}) BY <2>1, <2>6, RightCarried DEF PathsRight, IInv
  <2> QED BY <1>1, <2>1, <2>7, ReturnPaths
<1> QED BY <1>4, <1>5

\* The path above a path of names, and its name.
LEMMA NamesApart ==
  ASSUME NEW d \in Seq(Names), d # << >>
  PROVE  /\ (IF d = << >> THEN << >> ELSE Front(d)) \in Seq(Names)
         /\ (IF d = << >> THEN Empty ELSE Last(d)) \in Names
BY DEF Front, Last

\* What reg_move leaves has the right paths.
LEMMA MovedRight ==
  ASSUME NEW t, Forest(t, {Root}), Right(t, {Root}), NEW k \in DOMAIN t, k # Root,
         NEW up \in Seq(Names), NEW name \in Names,
         NEW d, NEW m, m = MkPath(d, up), NEW n, NEW v, MovedIn(t, k, up, name, d, m, n, v)
  PROVE  Right(UpdatePaths(v, k, up), {Root})
<1>0. up \in Seq(Strings) BY DEF Strings
<1>1. /\ DetachedIn(t, d, {Root}, k) /\ Forest(d, {Root, k}) /\ Room(d)
      /\ Walk(d, {Root, k}, m) /\ k \in DOMAIN m.tree
      /\ NameSetIn(m.tree, n, k, name) /\ Forest(n, {Root, k})
      /\ AttachedIn(n, v, {Root}, k, m.at)
  BY DEF MovedIn
<1>2. Right(d, {Root, k})
  <2>1. /\ DOMAIN d = DOMAIN t /\ \A j \in DOMAIN t : d[j].path = t[j].path
        /\ \A j \in DOMAIN t \ {Root, k} : d[j].name = t[j].name /\ d[j].parent = t[j].parent
    BY <1>1 DEF DetachedIn
  <2> QED BY <2>1, RightBut
<1>3. Made(d, {Root, k}, up, m) BY <1>0, <1>1, <1>2, MkPathRight
<1>4. /\ Right(m.tree, {Root, k}) /\ Forest(m.tree, {Root, k})
      /\ m.at \in DOMAIN m.tree /\ m.tree[m.at].path = Truncated(up)
  BY <1>3 DEF Made, Walk, Below
<1>5. Right(n, {Root, k}) /\ n[k].name = name /\ n[m.at].path = Truncated(up) /\ DOMAIN n = DOMAIN m.tree
  BY <1>1, <1>4, RightBut DEF NameSetIn
<1>6. Right(v, {Root, k})
  <2>1. /\ DOMAIN v = DOMAIN n /\ \A j \in DOMAIN n : v[j].path = n[j].path
        /\ \A j \in DOMAIN n \ {Root, k} : v[j].name = n[j].name /\ v[j].parent = n[j].parent
    BY <1>1 DEF AttachedIn
  <2> QED BY <1>1, <1>5, <2>1, RightBut
<1>7. /\ k \in DOMAIN v /\ Forest(v, {Root}) /\ v[k].name \in Names
      /\ v[v[k].parent].path = Truncated(up)
  BY <1>1, <1>4, <1>5 DEF AttachedIn
<1> QED BY <1>0, <1>6, <1>7, UpdatePathsRight

\* reg_move.
LEMMA RegMovePaths ==
  ASSUME Unslashed, IInv, PathsRight, RegMove
  PROVE  PathsRight'
<1> DEFINE s == call.s
           d == call.d
           k == Lookup(key, s)
           up == IF d = << >> THEN << >> ELSE Front(d)
           name == IF d = << >> THEN Empty ELSE Last(d)
           t == DetachChild(key, key[k].parent, k)
           m == MkPath(t, up)
           n == SetName(m.tree, k, name)
           v == AddChild(n, m.at, k)
<1>1. call \in Calls /\ call.op = "move" /\ frames = << >>
  BY DEF RegMove, Called, IInv
<1>2. s \in Seq(Strings) /\ (s # << >> => s[1] # Empty) BY <1>1, CallCarries, Zenon
<1>3. d \in Seq(Names) /\ d # << >> BY <1>1 DEF Unslashed
<1>4. up \in Seq(Names) /\ name \in Names BY <1>3, NamesApart
<1>5. up \in Seq(Strings) /\ name \in Strings BY <1>4 DEF Strings
<1>6. CASE s = << >> \/ IsPrefix(s, d) \/ k = Null
  <2>1. key' = key /\ frames' = frames BY <1>6 DEF RegMove, Fails, Returns
  <2> QED BY <1>1, <2>1, ReturnPaths DEF PathsRight
<1>7. CASE ~ (s = << >> \/ IsPrefix(s, d) \/ k = Null)
  <2>1. key' = UpdatePaths(v, k, up) /\ frames' = frames /\ Room(key)
    BY <1>7, Zenon DEF RegMove, Returns, SetName
  <2>2. k \in DOMAIN key /\ k # Root /\ Forest(key, {Root}) /\ Right(key, {Root})
    BY <1>2, <1>7, FoundIn DEF IInv, PathsRight
  <2> HIDE DEF k, up, name
  <2>3. MovedIn(key, k, up, name, t, m, n, v) BY <1>5, <2>1, <2>2, Moved
  <2>4. m = MkPath(t, up) OBVIOUS
  <2> HIDE DEF t, m, n, v
  <2> DEFINE w == UpdatePaths(v, k, up)
  <2>5. Right(w, {Root}) BY <1>4, <2>2, <2>3, <2>4, MovedRight
  <2>6. key' = w /\ frames' = frames BY <2>1
  <2> HIDE DEF w, s, d
  <2> QED BY <1>1, <2>5, <2>6, ReturnPaths
<1> QED BY <1>6, <1>7

\* reg_unmount with a source.
LEMMA RegUnmountPaths ==
  ASSUME IInv, PathsRight, RegUnmount
  PROVE  PathsRight'
<1> DEFINE src == Lookup(key, call.s)
           dst == Lookup(key, call.d)
           list == IF src = dst /\ key[src].children # << >> THEN <<Head(key[src].children)>>
                   ELSE key[src].children
<1>1. call \in Calls /\ call.op = "unmount" /\ frames = << >>
  BY DEF RegUnmount, Called, IInv
<1>2. call.s \in Seq(Strings) /\ call.d \in Seq(Strings) BY <1>1, CallCarries
<1>3. src \in DOMAIN key \cup {Null} /\ dst \in DOMAIN key \cup {Null}
  BY <1>2, FoundIn
<1>4. CASE src = Null \/ dst = Null
  BY <1>1, <1>4, ReturnPaths DEF RegUnmount, Fails, Returns, PathsRight
<1>5. CASE ~ (src = Null \/ dst = Null)
  <2>1. key' = Unmounted(key, dst, list) /\ frames' = frames
    BY <1>5 DEF RegUnmount, Returns
  <2> HIDE DEF src, dst
  <2>2. src \in DOMAIN key /\ dst \in DOMAIN key /\ Forest(key, {Root}) /\ Right(key, {Root})
    BY <1>3, <1>5 DEF IInv, PathsRight
  <2>3. Len(list) \in Nat BY <2>2, ChildrenIn DEF Forest
  <2> HIDE DEF list
  <2>4. Forest(Unmounted(key, dst, list), {Root}) /\ Carried(key, Unmounted(key, dst, list))
    BY <2>2, <2>3, UnmountedSound
  <2>5. Right(Unmounted(key, dst, list), {Root}) BY <2>2, <2>4, RightCarried
  <2> QED BY <1>1, <2>1, <2>5, ReturnPaths
<1> QED BY <1>4, <1>5

\* reg_unmount without a source.
LEMMA RegUnmountAllPaths ==
  ASSUME IInv, PathsRight, RegUnmountAll
  PROVE  PathsRight'
<1> DEFINE dst == Lookup(key, call.d)
<1>1. call \in Calls /\ call.op = "unmount all" /\ frames = << >>
  BY DEF RegUnmountAll, Called, IInv
<1>2. call.d \in Seq(Strings) BY <1>1, CallCarries
<1>3. dst \in DOMAIN key \cup {Null} BY <1>2, FoundIn
<1>4. CASE dst = Null
  <2>1. key' = key /\ frames' = frames BY <1>4 DEF RegUnmountAll, Fails, Returns
  <2> QED BY <1>1, <2>1, ReturnPaths DEF PathsRight
<1>5. CASE dst # Null
  <2>1. key' = FreeChildren(key, dst) /\ frames' = frames
    BY <1>5 DEF RegUnmountAll, Returns
  <2> HIDE DEF dst
  <2>2. dst \in DOMAIN key /\ Forest(key, {Root}) /\ Right(key, {Root})
    BY <1>3, <1>5 DEF IInv, PathsRight
  <2>3. Forest(FreeChildren(key, dst), {Root}) /\ Carried(key, FreeChildren(key, dst))
    BY <2>2, ChildrenFreed
  <2>4. Right(FreeChildren(key, dst), {Root}) BY <2>2, <2>3, RightCarried
  <2> QED BY <1>1, <2>1, <2>4, ReturnPaths
<1> QED BY <1>4, <1>5

-----------------------------------------------------------------------------
(* Mounts and the paths *)

\* A mount starts, or its source has gone.
LEMMA BeginPaths ==
  ASSUME frames = << >>, NEW t, Forest(t, {Root}), Right(t, {Root}), NEW s \in Seq(Strings),
         NEW d \in Seq(Names), NEW before \in BOOLEAN, Begin(t, s, d, before)
  PROVE  PathsRight'
<1> DEFINE m == MkPath(t, d)
           src == Lookup(t, s)
<1>1. CASE src = Null BY <1>1, ReturnPaths DEF Begin, Returns
<1>2. CASE src # Null
  <2>1. Room(t) /\ key' = m.tree /\ frames' = <<Frame(m, src, s, d, before)>>
    BY <1>2 DEF Begin
  <2>2. src \in DOMAIN t BY <1>2, LookupSound DEF Forest
  <2>3. Made(t, {Root}, d, m) BY <2>1, MkPathRight DEF Strings
  <2> HIDE DEF m, src
  <2>4. src \in DOMAIN m.tree /\ Right(m.tree, {Root})
    BY <2>2, <2>3 DEF Made, Walk, Grew
  <2>5. Aimed(m.tree, frames) BY DEF Aimed
  <2> DEFINE gs == Append(frames, Frame(m, src, s, d, before))
  <2>6. gs = <<Frame(m, src, s, d, before)>> OBVIOUS
  <2> HIDE DEF gs
  <2>7. Aimed(m.tree, gs) BY <2>3, <2>4, <2>5, FrameAimed DEF gs
  <2> QED BY <2>1, <2>4, <2>6, <2>7 DEF PathsRight
<1> QED BY <1>1, <1>2

\* reg_mount.
LEMMA RegMountPaths ==
  ASSUME Unslashed, IInv, PathsRight, RegMount
  PROVE  PathsRight'
<1>1. call \in Calls /\ call.op = "mount" /\ frames = << >>
  BY DEF RegMount, Called, IInv
<1>2. call.s \in Seq(Strings) /\ call.before \in BOOLEAN BY <1>1, CallCarries
<1>3. call.d \in Seq(Names) BY <1>1 DEF Unslashed
<1>4. Forest(key, {Root}) /\ Right(key, {Root}) /\ Begin(key, call.s, call.d, call.before)
  BY DEF RegMount, IInv, PathsRight
<1> QED BY <1>1, <1>2, <1>3, <1>4, BeginPaths

\* reg_bind.
LEMMA RegBindPaths ==
  ASSUME Unslashed, IInv, PathsRight, RegBind
  PROVE  PathsRight'
<1> DEFINE src == Lookup(key, call.s)
           m == MkPath(key, call.d)
           u == FreeChildren(m.tree, m.at)
           val == IF src \in DOMAIN u THEN u[src].val ELSE Nil
           v == SetVal(u, m.at, val)
<1>1. call \in Calls /\ call.op = "bind" /\ frames = << >>
  BY DEF RegBind, Called, IInv
<1>2. call.s \in Seq(Strings) /\ call.d \in Seq(Strings) BY <1>1, CallCarries
<1>3. call.d \in Seq(Names) BY <1>1 DEF Unslashed
<1>4. CASE src = Null
  BY <1>1, <1>4, ReturnPaths DEF RegBind, Fails, Returns, PathsRight
<1>5. CASE src # Null
  <2>1. Room(key) /\ Begin(v, call.s, call.d, TRUE) BY <1>5 DEF RegBind, SetVal
  <2>2. Made(key, {Root}, call.d, m) BY <1>2, <2>1, MkPathRight DEF IInv, PathsRight
  <2> HIDE DEF m, src
  <2>3. Forest(m.tree, {Root}) /\ Right(m.tree, {Root}) /\ m.at \in DOMAIN m.tree
    BY <2>2 DEF Made, Walk, Below
  <2>4. Forest(u, {Root}) /\ m.at \in DOMAIN u /\ Carried(m.tree, u)
    BY <2>3, ChildrenFreed
  <2> HIDE DEF u
  <2>5. Right(u, {Root}) BY <2>3, <2>4, RightCarried
  <2>6. val \in Values \cup {Nil} BY <2>4 DEF Forest, Typed, Rec
  <2> HIDE DEF val
  <2>7. ValSetIn(u, v, m.at, val) BY <2>4, <2>6, ValSet DEF Forest
  <2> HIDE DEF v
  <2>8. Forest(v, {Root}) BY <2>4, <2>7, ForestSame DEF ValSetIn
  <2>9. Right(v, {Root}) BY <2>4, <2>5, <2>7, RightBut DEF ValSetIn
  <2>10. TRUE \in BOOLEAN OBVIOUS
  <2> QED BY <1>1, <1>2, <1>3, <2>1, <2>8, <2>9, <2>10, BeginPaths
<1> QED BY <1>4, <1>5

\* A mount comes to a child that the destination has too.
LEMMA MountNextPaths ==
  ASSUME IInv, PathsRight, MountNext
  PROVE  PathsRight'
<1> DEFINE f == Last(frames)
           existing == Find(key, f.dst, key[f.child].name)
           t == IF f.before THEN SetVal(key, existing, key[f.child].val) ELSE key
<1>1. /\ frames # << >> /\ f.child # Null /\ existing # Null
      /\ key' = t /\ frames' = Advance(t, frames)
  BY DEF MountNext, SetVal
<1>2. f.dst \in DOMAIN key /\ f.child \in DOMAIN key /\ Typed(key) /\ Forest(key, {Root})
  BY <1>1, LastFrame DEF IInv, Forest
<1>3. Right(key, {Root}) /\ Aimed(key, frames) /\ frames \in Seq(Frames(DOMAIN key))
  BY DEF PathsRight, IInv
<1> HIDE DEF f
<1>4. existing \in DOMAIN key BY <1>1, <1>2, FindSound
<1> HIDE DEF existing
<1>5. /\ Forest(t, {Root}) /\ DOMAIN t = DOMAIN key /\ Right(t, {Root})
      /\ \A j \in DOMAIN key : t[j].path = key[j].path
  <2> DEFINE w == SetVal(key, existing, key[f.child].val)
  <2>1. key[f.child].val \in Values \cup {Nil} BY <1>2 DEF Typed, Rec
  <2>2. ValSetIn(key, w, existing, key[f.child].val) BY <1>2, <1>4, <2>1, ValSet
  <2>3. t = w \/ t = key OBVIOUS
  <2> HIDE DEF w, t
  <2>4. Forest(w, {Root}) /\ DOMAIN w = DOMAIN key /\ \A j \in DOMAIN key : w[j].path = key[j].path
    BY <1>2, <2>2, ForestSame DEF ValSetIn
  <2>5. Right(w, {Root}) BY <1>2, <1>3, <2>2, RightBut DEF ValSetIn
  <2> QED BY <1>2, <1>3, <2>3, <2>4, <2>5
<1> HIDE DEF t
<1>6. Aimed(t, frames) /\ frames \in Seq(Frames(DOMAIN t)) BY <1>3, <1>5, AimedKept
<1>7. Aimed(t, Advance(t, frames)) BY <1>1, <1>5, <1>6, AdvanceAimed
<1> QED BY <1>1, <1>5, <1>7 DEF PathsRight

\* A path of names that is cut is one.
LEMMA CutNames ==
  ASSUME NEW p \in Seq(Names)
  PROVE  Truncated(p) \in Seq(Names)
BY NullIsNone DEF Truncated

\* A mount comes to a child that the destination lacks.
LEMMA MountMirrorPaths ==
  ASSUME IInv, PathsRight, MountMirror
  PROVE  PathsRight'
<1> DEFINE f == Last(frames)
           c == f.child
           k == Fresh(key)
           new_path == Truncated(Append(f.dst_path, key[c].name))
           child_src == Truncated(Append(f.src_path, key[c].name))
           r == [NewKey(key[c].name, new_path, Null) EXCEPT !.val = key[c].val]
           t == With(key, k, r)
           P == f.dst
           u == IF f.before THEN AddChild(t, P, k) ELSE AddChildTail(t, P, k)
           m == MkPath(u, new_path)
           src == Lookup(u, child_src)
           gs == Append(frames, Frame(m, src, child_src, new_path, f.before))
<1>1. /\ frames # << >> /\ c # Null /\ Room(key) /\ Room(u)
      /\ \/ src # Null /\ key' = m.tree /\ frames' = gs
         \/ key' = u /\ frames' = Advance(u, frames)
  BY DEF MountMirror
<1>2. /\ P \in DOMAIN key /\ c \in DOMAIN key /\ f.before \in BOOLEAN
      /\ f.src_path \in Seq(Strings)
  BY <1>1, LastFrame
<1>3. /\ Forest(key, {Root}) /\ Right(key, {Root}) /\ Aimed(key, frames)
      /\ frames \in Seq(Frames(DOMAIN key))
  BY DEF IInv, PathsRight
<1>4. f.dst_path \in Seq(Names) /\ key[P].path = Truncated(f.dst_path) /\ c # Root
  <2>1. Len(frames) \in DOMAIN frames BY <1>1, <1>3
  <2> QED BY <1>3, <2>1 DEF Aimed, Last
<1>5. key[c].name \in Names /\ key[c].name \in Strings /\ key[c].val \in Values \cup {Nil}
  BY <1>2, <1>3, <1>4 DEF Right, Forest, Typed, Rec, Strings
<1>6. /\ new_path \in Seq(Names) /\ new_path \in Seq(Strings) /\ child_src \in Seq(Strings)
      /\ Truncated(new_path) = new_path
      /\ new_path = Truncated(Append(key[P].path, key[c].name))
  <2>1. /\ Append(f.dst_path, key[c].name) \in Seq(Names) /\ f.dst_path \in Seq(Strings)
        /\ Append(f.dst_path, key[c].name) \in Seq(Strings)
        /\ Append(f.src_path, key[c].name) \in Seq(Strings)
    BY <1>2, <1>4, <1>5 DEF Strings
  <2>2. new_path \in Seq(Names) BY <2>1, CutNames
  <2>3. /\ new_path \in Seq(Strings) /\ child_src \in Seq(Strings) /\ Len(new_path) <= PathMax
    BY <2>1, TruncatedSound
  <2>4. new_path = Truncated(Append(Truncated(f.dst_path), key[c].name))
    BY <1>5, <2>1, CutTwice
  <2> HIDE DEF new_path
  <2>5. Truncated(new_path) = new_path BY <2>3, TruncatedSound
  <2> QED BY <1>4, <2>2, <2>3, <2>4, <2>5
<1>7. k \in Ids \ DOMAIN key BY <1>1, RoomIsFree, FreshIsFree
<1> HIDE DEF f, c, k, P, new_path, child_src
<1>8. /\ r \in Rec(DOMAIN key) /\ r.parent = Null /\ r.children = << >>
      /\ r.name = key[c].name /\ r.path = new_path
  <2> DEFINE q == NewKey(key[c].name, new_path, Null)
  <2>1. q \in Rec(DOMAIN key) BY <1>5, <1>6, NewKeyIn
  <2>2. q.parent = Null /\ q.children = << >> /\ q.name = key[c].name /\ q.path = new_path
    BY <1>6 DEF NewKey
  <2>3. r = [q EXCEPT !.val = key[c].val] OBVIOUS
  <2> HIDE DEF q
  <2> QED BY <1>5, <2>1, <2>2, <2>3 DEF Rec
<1>9. u = AddChild(With(key, k, r), P, k) \/ u = AddChildTail(With(key, k, r), P, k)
  OBVIOUS
<1> HIDE DEF r, t, u
<1>10. MirroredIn(key, u, k, r, P) BY <1>2, <1>3, <1>7, <1>8, <1>9, Mirrored
<1>11. Forest(u, {Root}) /\ Right(u, {Root})
  BY <1>2, <1>3, <1>5, <1>6, <1>7, <1>8, <1>10, RightGrown DEF MirroredIn
<1>12. Aimed(u, frames) /\ frames \in Seq(Frames(DOMAIN u))
  BY <1>3, <1>10, AimedKept, FramesGrow DEF MirroredIn, Grew
<1>13. CASE src # Null /\ key' = m.tree /\ frames' = gs
  <2>1. src \in DOMAIN u BY <1>6, <1>11, <1>13, LookupSound DEF Forest
  <2>2. Made(u, {Root}, new_path, m) BY <1>1, <1>6, <1>11, MkPathRight
  <2> HIDE DEF m, src
  <2>3. /\ src \in DOMAIN m.tree /\ Right(m.tree, {Root}) /\ DOMAIN u \subseteq DOMAIN m.tree
        /\ \A j \in DOMAIN u : m.tree[j].path = u[j].path
    BY <2>1, <2>2 DEF Made, Walk, Grew
  <2>4. Aimed(m.tree, frames) /\ frames \in Seq(Frames(DOMAIN m.tree))
    BY <1>12, <2>3, AimedKept, FramesGrow
  <2>5. Aimed(m.tree, gs) BY <1>6, <2>2, <2>3, <2>4, FrameAimed
  <2> QED BY <1>13, <2>3, <2>5 DEF PathsRight
<1>14. CASE key' = u /\ frames' = Advance(u, frames)
  BY <1>1, <1>11, <1>12, <1>14, AdvanceAimed DEF PathsRight
<1> QED BY <1>1, <1>13, <1>14

\* A mount has gone through the children of its source.
LEMMA MountReturnPaths ==
  ASSUME IInv, PathsRight, MountReturn
  PROVE  PathsRight'
<1>0. frames # << >> /\ key' = key BY DEF MountReturn
<1>1. frames \in Seq(Frames(DOMAIN key)) /\ Forest(key, {Root}) /\ Right(key, {Root}) /\ Aimed(key, frames)
  BY DEF IInv, PathsRight
<1>2. CASE Len(frames) = 1 BY <1>0, <1>1, <1>2 DEF MountReturn, PathsRight, Aimed
<1>3. CASE Len(frames) # 1
  <2> DEFINE fs == Front(frames)
  <2>1. frames' = Advance(key, fs) BY <1>3 DEF MountReturn
  <2>2. Len(frames) \in Nat /\ Len(frames) # 0 BY <1>0, <1>1
  <2>3. Len(frames) - 1 \in 1..Len(frames)
    <3> DEFINE l == Len(frames)
    <3>1. l \in Nat /\ l # 0 /\ l # 1 BY <1>3, <2>2
    <3> HIDE DEF l
    <3>2. l - 1 \in 1..l BY <3>1
    <3> QED BY <3>2 DEF l
  <2>4. /\ fs \in Seq(Frames(DOMAIN key)) /\ Len(fs) = Len(frames) - 1
        /\ \A i \in DOMAIN fs : i \in DOMAIN frames /\ fs[i] = frames[i]
    BY <1>1, <2>2, <2>3 DEF Front
  <2> HIDE DEF fs
  <2>5. fs # << >> BY <2>3, <2>4
  <2>6. Aimed(key, fs) BY <1>1, <2>4 DEF Aimed
  <2>7. Aimed(key, Advance(key, fs)) BY <1>1, <2>4, <2>5, <2>6, AdvanceAimed
  <2> QED BY <1>0, <1>1, <2>1, <2>7 DEF PathsRight
<1> QED BY <1>2, <1>3

\* Every step keeps the paths right.
LEMMA PathsKept == Unslashed /\ IInv /\ PathsRight /\ [Next]_vars => PathsRight'
BY InvariantKept, RegSetPaths, RegDeletePaths, RegMovePaths, RegUnmountPaths, RegUnmountAllPaths, RegMountPaths,
   RegBindPaths, MountNextPaths, MountMirrorPaths, MountReturnPaths DEF PathsRight, vars, Ask, Serve, Next

\* A path that a key carries leads to what any path that leads to the key does.
LEMMA PathsImply == IInv /\ PathsRight => PathLeadsBack
BY FoundCarries DEF PathLeadsBack, IInv, PathsRight

\* As long as no slash ends the path that a call moves a key to, or mounts or
\* binds a path over, every key that a path leads to carries a path that leads
\* back to it, at every step of every call: a path is never left as it was
\* before a move, and never cut to the path of another key.
THEOREM PathsLeadBack == ASSUME Unslashed PROVE Spec => []PathLeadsBack
<1>1. Init => IInv /\ PathsRight BY InvariantHoldsAtFirst, PathsRightAtFirst
<1>2. IInv /\ PathsRight /\ [Next]_vars => IInv' /\ PathsRight'
  BY InvariantKept, PathsKept
<1>3. IInv /\ PathsRight => PathLeadsBack BY PathsImply
<1> QED BY <1>1, <1>2, <1>3, PTL DEF Spec
-----------------------------------------------------------------------------
(* What paths name *)

\* The paths a view is over are sequences of names that fit their field.
LEMMA PathIs ==
  ASSUME NEW p \in Paths
  PROVE  /\ p \in Seq(Names) /\ p \in Seq(Strings) /\ Len(p) \in Nat /\ Len(p) <= PathMax
         /\ Truncated(p) = p /\ \A i \in 1..Len(p) : p[i] \in Names
BY NullIsNone DEF Paths, Strings, Truncated

\* Every sequence of names that fits is one of them.
LEMMA PathsAre ==
  ASSUME NEW p \in Seq(Names), Len(p) <= PathMax
  PROVE  p \in Paths
BY NullIsNone DEF Paths

\* A path but for its last name, and that name.
LEMMA PathSplits ==
  ASSUME NEW p \in Paths, p # << >>
  PROVE  \E q \in Paths, n \in Names : p = Append(q, n)
<1> DEFINE l == Len(p) - 1
           q == SubSeq(p, 1, l)
<1>1. p \in Seq(Names) /\ Len(p) \in Nat /\ Len(p) <= PathMax /\ Len(p) # 0 /\ PathMax \in Nat
  BY PathIs, NullIsNone
<1>2. q \in Seq(Names) /\ Len(q) = l /\ l \in Nat /\ \A i \in 1..l : q[i] = p[i]
  <2>1. l \in Nat /\ l <= Len(p) BY <1>1
  <2> HIDE DEF l
  <2> QED BY <1>1, <2>1
<1>3. Len(q) <= PathMax BY <1>1, <1>2
<1>4. q \in Paths BY <1>2, <1>3, PathsAre
<1>5. p[Len(p)] \in Names BY <1>1
<1>6. p = Append(q, p[Len(p)])
  <2> DEFINE r == Append(q, p[Len(p)])
  <2>1. r \in Seq(Names) /\ Len(r) = Len(p) BY <1>1, <1>2, <1>5
  <2>2. \A i \in 1..Len(p) : r[i] = p[i] BY <1>1, <1>2, <1>5
  <2> HIDE DEF r
  <2>3. r = p BY <1>1, <2>1, <2>2, SeqEqual
  <2> QED BY <2>3 DEF r
<1> QED BY <1>4, <1>5, <1>6

\* The path above a path is one.
LEMMA PathAbove ==
  ASSUME NEW q \in Seq(Names), NEW n \in Names, Append(q, n) \in Paths
  PROVE  q \in Paths /\ Append(q, n) # << >> /\ Len(q) < PathMax
<1>1. Len(Append(q, n)) <= PathMax /\ PathMax \in Nat BY PathIs, NullIsNone
<1>2. Len(Append(q, n)) = Len(q) + 1 /\ Len(q) \in Nat OBVIOUS
<1> QED BY <1>1, <1>2, PathsAre

\* The root has a path.
LEMMA NoPath == << >> \in Paths /\ Len(<< >>) = 0
<1>1. << >> \in Seq(Names) /\ Len(<< >>) <= PathMax BY NullIsNone
<1> QED BY <1>1, PathsAre

\* What holds of "/" and of every path one name longer than one of which it
\* holds, holds of them all.
LEMMA PathsInduct ==
  ASSUME NEW S, << >> \in S,
         \A p \in Paths, n \in Names : p \in S /\ Append(p, n) \in Paths => Append(p, n) \in S
  PROVE  Paths \subseteq S
<1> SUFFICES ASSUME NEW p \in Paths PROVE p \in S OBVIOUS
<1> DEFINE A == {i \in 0..Len(p) : SubSeq(p, 1, i) \in S}
<1>1. p \in Seq(Names) /\ Len(p) \in Nat /\ Len(p) <= PathMax /\ PathMax \in Nat
  BY PathIs, NullIsNone
<1>2. SubSeq(p, 1, 0) = << >> /\ SubSeq(p, 1, Len(p)) = p BY <1>1
<1>3. 0 \in A
  <2>1. 0 \in 0..Len(p) BY <1>1
  <2>2. SubSeq(p, 1, 0) \in S BY <1>2, Zenon
  <2> QED BY <2>1, <2>2, Zenon
<1>4. ASSUME NEW i \in 0..(Len(p) - 1), i \in A PROVE i + 1 \in A
  <2> DEFINE q == SubSeq(p, 1, i)
             n == p[i + 1]
             r == SubSeq(p, 1, i + 1)
  <2>1. i + 1 \in 0..Len(p) /\ i + 1 \in 1..Len(p) /\ i \in Nat BY <1>1
  <2>2. q \in Seq(Names) /\ Len(q) = i /\ n \in Names /\ \A j \in 1..i : q[j] = p[j]
    BY <1>1, <2>1
  <2>3. r \in Seq(Names) /\ Len(r) = i + 1 /\ \A j \in 1..(i + 1) : r[j] = p[j]
    BY <1>1, <2>1
  <2>4. r = Append(q, n)
    <3> HIDE DEF q, r, n
    <3>1. Append(q, n) \in Seq(Names) /\ Len(Append(q, n)) = i + 1 BY <2>2
    <3>2. \A j \in 1..(i + 1) : Append(q, n)[j] = p[j] BY <2>1, <2>2 DEF n
    <3> QED BY <2>3, <3>1, <3>2, SeqEqual
  <2>5. q \in Paths /\ r \in Paths
    <3>1. Len(q) <= PathMax /\ Len(r) <= PathMax
      <4>1. i <= PathMax /\ i + 1 <= PathMax BY <1>1, <2>1
      <4> HIDE DEF q, r
      <4> QED BY <2>2, <2>3, <4>1
    <3> HIDE DEF q, r
    <3> QED BY <2>2, <2>3, <3>1, PathsAre
  <2>6. q \in S BY <1>4
  <2> HIDE DEF q, r, n
  <2>7. r \in S BY <2>2, <2>4, <2>5, <2>6
  <2> QED BY <2>1, <2>7 DEF r
<1>5. Len(p) \in A
  <2> HIDE DEF A
  <2>1. \A i \in 0..Len(p) : i \in A BY <1>1, <1>3, <1>4, Counted
  <2> QED BY <1>1, <2>1
<1> QED BY <1>2, <1>5

\* reg_lookup starts at the root.
LEMMA LookupRoot ==
  ASSUME NEW t
  PROVE  Lookup(t, << >>) = Root
<1>1. PICK f : /\ f[0] = Root
               /\ Lookup(t, << >>) = f[Len(Truncated(<< >>))]
  <2>1. << >> \in Seq(Strings) OBVIOUS
  <2> QED BY <2>1, LookupSteps
<1>2. Len(Truncated(<< >>)) = 0 BY NoPath, PathIs
<1> QED BY <1>1, <1>2

\* reg_lookup goes from the key of a path to its child of the next name.
LEMMA LookupAppend ==
  ASSUME NEW t, NEW p \in Paths, NEW n \in Names, Append(p, n) \in Paths
  PROVE  Lookup(t, Append(p, n)) = IF Lookup(t, p) = Null THEN Null ELSE Find(t, Lookup(t, p), n)
<1> DEFINE q == Append(p, n)
           l == Len(p)
<1>1. /\ p \in Seq(Names) /\ p \in Seq(Strings) /\ l \in Nat /\ Truncated(p) = p
      /\ q \in Seq(Strings) /\ Truncated(q) = q
  BY PathIs
<1>2. Len(q) = l + 1 /\ q[l + 1] = n /\ \A i \in 1..l : q[i] = p[i] BY <1>1
<1>3. n # Empty BY NameAssumption
<1> HIDE DEF q, l
<1>4. PICK f : /\ f[0] = Root /\ \A i \in 1..l : f[i] = Turn(t, f[i - 1], p[i])
               /\ Lookup(t, p) = f[l]
  <2>1. PICK f : /\ f[0] = Root
                 /\ \A i \in 1..Len(Truncated(p)) : f[i] = Turn(t, f[i - 1], Truncated(p)[i])
                 /\ Lookup(t, p) = f[Len(Truncated(p))]
    BY <1>1, LookupSteps
  <2> QED BY <1>1, <2>1 DEF l
<1>5. PICK g : /\ g[0] = Root /\ \A i \in 1..(l + 1) : g[i] = Turn(t, g[i - 1], q[i])
               /\ Lookup(t, q) = g[l + 1]
  <2>1. PICK g : /\ g[0] = Root
                 /\ \A i \in 1..Len(Truncated(q)) : g[i] = Turn(t, g[i - 1], Truncated(q)[i])
                 /\ Lookup(t, q) = g[Len(Truncated(q))]
    BY <1>1, LookupSteps
  <2> QED BY <1>1, <1>2, <2>1
<1> DEFINE A == {i \in 0..l : g[i] = f[i]}
<1>6. 0 \in A BY <1>1, <1>4, <1>5
<1>7. ASSUME NEW i \in 0..(l - 1), i \in A PROVE i + 1 \in A
  <2> DEFINE j == i + 1
  <2>1. j \in 0..l /\ j \in 1..l /\ j \in 1..(l + 1) /\ j - 1 = i BY <1>1
  <2> HIDE DEF j
  <2>2. g[j] = Turn(t, g[i], q[j]) /\ f[j] = Turn(t, f[i], p[j]) BY <1>4, <1>5, <2>1
  <2>3. q[j] = p[j] /\ g[i] = f[i] BY <1>2, <1>7, <2>1
  <2> QED BY <2>1, <2>2, <2>3 DEF j
<1>8. g[l] = f[l]
  <2> HIDE DEF A
  <2>1. \A i \in 0..l : i \in A BY <1>1, <1>6, <1>7, Counted
  <2>2. l \in 0..l BY <1>1
  <2>3. l \in A BY <2>1, <2>2
  <2> QED BY <2>3 DEF A
<1>9. g[l + 1] = Turn(t, g[l], q[l + 1])
  <2> DEFINE j == l + 1
  <2>1. j \in 1..(l + 1) /\ j - 1 = l BY <1>1
  <2> HIDE DEF j
  <2>2. g[j] = Turn(t, g[l], q[j]) BY <1>5, <2>1
  <2> QED BY <2>2 DEF j
<1>10. Lookup(t, q) = Turn(t, Lookup(t, p), n) BY <1>2, <1>4, <1>5, <1>8, <1>9
<1> QED BY <1>3, <1>10 DEF q, Turn

-----------------------------------------------------------------------------
(* Which child a name finds *)

\* Find returns a child of the name that no other of the name comes before.
LEMMA FindFirst ==
  ASSUME NEW t, Typed(t), NEW k \in DOMAIN t, NEW n, Find(t, k, n) # Null
  PROVE  \E i \in 1..Len(t[k].children) :
           /\ Find(t, k, n) = t[k].children[i] /\ t[t[k].children[i]].name = n
           /\ \A j \in 1..(i - 1) : t[t[k].children[j]].name # n
<1> DEFINE s == t[k].children
           at == {i \in DOMAIN s : t[s[i]].name = n}
<1>1. Find(t, k, n) = IF at = {} THEN Null ELSE s[Min(at)] BY DEF Find
<1>2. DOMAIN s = 1..Len(s) /\ Len(s) \in Nat BY ChildrenIn
<1>3. at # {} /\ Find(t, k, n) = s[Min(at)] BY <1>1
<1>4. Min(at) \in at /\ \A j \in at : Min(at) <= j
  <2>1. at \in SUBSET Nat BY <1>2
  <2> HIDE DEF at
  <2> QED BY <1>3, <2>1, MinIn
<1> DEFINE i == Min(at)
<1>5. i \in 1..Len(s) /\ t[s[i]].name = n /\ Find(t, k, n) = s[i]
  BY <1>2, <1>3, <1>4, Zenon
<1>6. \A j \in 1..(i - 1) : t[s[j]].name # n
  <2> SUFFICES ASSUME NEW j \in 1..(i - 1), t[s[j]].name = n PROVE FALSE OBVIOUS
  <2>1. j \in 1..Len(s) /\ ~ (i <= j)
    <3> HIDE DEF i, s
    <3> QED BY <1>2, <1>5
  <2>2. j \in at BY <1>2, <2>1
  <2> QED BY <1>4, <2>1, <2>2
<1> QED BY <1>5, <1>6, Zenon

\* The child at place i is c and has the name, and no child before it has.
FirstOf(t, k, n, i, c) ==
  /\ i \in 1..Len(t[k].children) /\ t[k].children[i] = c /\ t[c].name = n
  /\ \A j \in 1..(i - 1) : t[t[k].children[j]].name # n

\* Such a child is what Find returns.
LEMMA FindIs ==
  ASSUME NEW t, Typed(t), NEW k \in DOMAIN t, NEW n, NEW i, NEW c, FirstOf(t, k, n, i, c)
  PROVE  Find(t, k, n) = c
<1>0. /\ i \in 1..Len(t[k].children) /\ t[k].children[i] = c /\ t[c].name = n
      /\ \A j \in 1..(i - 1) : t[t[k].children[j]].name # n
  BY DEF FirstOf
<1> DEFINE s == t[k].children
<1>1. DOMAIN s = 1..Len(s) /\ Len(s) \in Nat /\ s[i] \in Range(s)
  BY <1>0, ChildrenIn DEF Range
<1>2. Find(t, k, n) # Null BY <1>0, <1>1, FindSound
<1>3. PICK m \in 1..Len(s) : /\ Find(t, k, n) = s[m] /\ t[s[m]].name = n
                             /\ \A j \in 1..(m - 1) : t[s[j]].name # n
  BY <1>2, FindFirst
<1>4. m = i BY <1>0, <1>1, <1>3
<1> QED BY <1>0, <1>3, <1>4

\* No child has the name.
LEMMA FindNone ==
  ASSUME NEW t, Typed(t), NEW k \in DOMAIN t, NEW n, \A c \in Range(t[k].children) : t[c].name # n
  PROVE  Find(t, k, n) = Null
BY FindSound

\* The same children under the same names.
LEMMA FindSame ==
  ASSUME NEW t, Typed(t), NEW k \in DOMAIN t, NEW n, NEW u, Typed(u), k \in DOMAIN u,
         u[k].children = t[k].children, \A c \in Range(t[k].children) : u[c].name = t[c].name
  PROVE  Find(u, k, n) = Find(t, k, n)
<1> DEFINE s == t[k].children
<1>1. Len(s) \in Nat /\ \A i \in 1..Len(s) : s[i] \in Range(s) /\ u[s[i]].name = t[s[i]].name
  BY ChildrenIn DEF Range
<1>2. CASE Find(t, k, n) = Null BY <1>2, FindSound, FindNone
<1>3. CASE Find(t, k, n) # Null
  <2>1. PICK i \in 1..Len(s) : /\ Find(t, k, n) = s[i] /\ t[s[i]].name = n
                               /\ \A j \in 1..(i - 1) : t[s[j]].name # n
    BY <1>3, FindFirst
  <2>2. u[s[i]].name = n BY <1>1, <2>1
  <2>3. \A j \in 1..(i - 1) : u[s[j]].name # n
    <3> TAKE j \in 1..(i - 1)
    <3>1. j \in 1..Len(s) BY <1>1, <2>1
    <3> QED BY <1>1, <2>1, <3>1
  <2>4. FirstOf(u, k, n, i, s[i]) BY <2>2, <2>3 DEF FirstOf
  <2> QED BY <2>1, <2>4, FindIs
<1> QED BY <1>2, <1>3

\* In u, k has the children it has in t after another, c.
Fronted(t, u, k, c) ==
  /\ u[k].children = <<c>> \o t[k].children
  /\ \A j \in Range(t[k].children) : u[j].name = t[j].name

\* A new first child is what its name finds.
LEMMA FindFront ==
  ASSUME NEW t, Typed(t), NEW k \in DOMAIN t, NEW n, NEW u, Typed(u), k \in DOMAIN u, NEW c,
         Fronted(t, u, k, c)
  PROVE  Find(u, k, n) = IF n = u[c].name THEN c ELSE Find(t, k, n)
<1> DEFINE s == t[k].children
           l == u[k].children
<1>0. u[k].children = <<c>> \o t[k].children /\ \A j \in Range(t[k].children) : u[j].name = t[j].name
  BY DEF Fronted
<1>1. /\ Len(s) \in Nat /\ s \in Seq(DOMAIN t)
      /\ \A i \in 1..Len(s) : s[i] \in Range(s) /\ u[s[i]].name = t[s[i]].name
  BY <1>0, ChildrenIn DEF Range
<1>2. Len(l) = Len(s) + 1 /\ l[1] = c /\ \A i \in 1..Len(s) : l[i + 1] = s[i]
  <2>1. l = <<c>> \o s BY <1>0
  <2> HIDE DEF l, s
  <2> QED BY <1>1, <2>1
<1> HIDE DEF l
<1>3. CASE n = u[c].name BY <1>1, <1>2, <1>3, FindIs DEF FirstOf, l
<1>4. CASE n # u[c].name /\ Find(t, k, n) = Null
  <2>1. \A j \in Range(s) : t[j].name # n BY <1>4, FindSound
  <2>2. \A i \in 1..Len(l) : u[l[i]].name # n
    <3> TAKE i \in 1..Len(l)
    <3>1. CASE i = 1 BY <1>2, <1>4, <3>1
    <3>2. CASE i # 1
      <4> DEFINE h == i - 1
      <4>1. h \in 1..Len(s) /\ h + 1 = i BY <1>1, <1>2, <3>2
      <4> HIDE DEF h
      <4>2. l[i] = s[h] BY <1>2, <4>1
      <4> QED BY <1>1, <2>1, <4>1, <4>2
    <3> QED BY <3>1, <3>2
  <2>3. DOMAIN l = 1..Len(l) BY ChildrenIn DEF l
  <2>4. \A j \in Range(l) : u[j].name # n BY <2>2, <2>3 DEF Range
  <2> QED BY <1>4, <2>4, FindNone DEF l
<1>5. CASE n # u[c].name /\ Find(t, k, n) # Null
  <2>1. PICK i \in 1..Len(s) : /\ Find(t, k, n) = s[i] /\ t[s[i]].name = n
                               /\ \A j \in 1..(i - 1) : t[s[j]].name # n
    BY <1>5, FindFirst
  <2> DEFINE m == i + 1
  <2>2. m \in 1..Len(l) /\ l[m] = s[i] /\ u[l[m]].name = n BY <1>1, <1>2, <2>1
  <2>3. \A j \in 1..(m - 1) : u[l[j]].name # n
    <3> TAKE j \in 1..(m - 1)
    <3>1. CASE j = 1 BY <1>2, <1>5, <3>1
    <3>2. CASE j # 1
      <4> DEFINE h == j - 1
      <4>1. h \in 1..(i - 1) /\ h \in 1..Len(s) /\ h + 1 = j BY <1>1, <3>2
      <4> HIDE DEF h
      <4>2. l[j] = s[h] BY <1>2, <4>1
      <4> QED BY <1>1, <2>1, <4>1, <4>2
    <3> QED BY <3>1, <3>2
  <2> HIDE DEF m
  <2>4. Find(u, k, n) = l[m]
    <3>1. FirstOf(u, k, n, m, l[m]) BY <2>2, <2>3 DEF l, FirstOf
    <3> QED BY <3>1, FindIs, Zenon
  <2> QED BY <1>5, <2>1, <2>2, <2>4
<1> QED BY <1>3, <1>4, <1>5

\* In u, k has the children it has in t but for the one at a place, c.
Dropped(t, u, k, at, c) ==
  /\ at \in 1..Len(t[k].children) /\ t[k].children[at] = c
  /\ u[k].children = RemoveAt(t[k].children, at)
  /\ \A j \in Range(t[k].children) \ {c} : u[j].name = t[j].name

\* A child less, of another name.
LEMMA FindDropped ==
  ASSUME NEW t, Typed(t), Linked(t), NEW k \in DOMAIN t, NEW n, NEW u, Typed(u), k \in DOMAIN u,
         NEW at, NEW c, Dropped(t, u, k, at, c), t[c].name # n
  PROVE  Find(u, k, n) = Find(t, k, n)
<1> DEFINE s == t[k].children
           l == u[k].children
<1>6. /\ at \in 1..Len(s) /\ s[at] = c /\ l = RemoveAt(s, at)
      /\ \A j \in Range(s) \ {c} : u[j].name = t[j].name
  BY DEF Dropped
<1>1. /\ Len(s) \in Nat /\ s \in Seq(DOMAIN t) /\ at \in 1..Len(s)
      /\ \A i \in 1..Len(s) : s[i] \in Range(s) /\ (i # at => u[s[i]].name = t[s[i]].name)
  <2>1. Len(s) \in Nat /\ s \in Seq(DOMAIN t) /\ DOMAIN s = 1..Len(s) /\ IsInjective(s)
    BY ChildrenIn DEF Linked
  <2>2. \A i \in 1..Len(s) : s[i] \in Range(s) /\ (i # at => s[i] # c)
    BY <1>6, <2>1 DEF Range, IsInjective
  <2> QED BY <1>6, <2>1, <2>2
<1>2. Len(l) = Len(s) - 1 /\ \A i \in 1..Len(l) : l[i] = s[IF i < at THEN i ELSE i + 1]
  <2> DEFINE a == SubSeq(s, 1, at - 1)  b == SubSeq(s, at + 1, Len(s))
  <2>1. l = a \o b BY <1>6 DEF RemoveAt
  <2>2. a \in Seq(DOMAIN t) /\ Len(a) = at - 1 /\ \A i \in 1..(at - 1) : a[i] = s[i]
    <3> HIDE DEF s
    <3> QED BY <1>1
  <2>3. b \in Seq(DOMAIN t) /\ Len(b) = Len(s) - at /\ \A i \in 1..(Len(s) - at) : b[i] = s[at + i]
    <3> HIDE DEF s
    <3> QED BY <1>1
  <2>4. at \in 1..Len(s) BY <1>6
  <2> HIDE DEF a, b, l, s
  <2>5. Len(l) = Len(s) - 1 BY <1>1, <2>1, <2>2, <2>3, <2>4
  <2>6. ASSUME NEW i \in 1..Len(l) PROVE l[i] = s[IF i < at THEN i ELSE i + 1]
    <3>1. i \in 1..(Len(a) + Len(b)) BY <1>1, <2>2, <2>3, <2>4, <2>5
    <3>2. l[i] = IF i <= Len(a) THEN a[i] ELSE b[i - Len(a)]
      BY <2>1, <2>2, <2>3, <3>1, Joined
    <3>3. CASE i < at BY <1>1, <2>2, <2>4, <3>2, <3>3
    <3>4. CASE ~ (i < at)
      <4> DEFINE h == i - (at - 1)
      <4>1. h \in 1..(Len(s) - at) /\ at + h = i + 1 /\ ~ (i <= Len(a)) /\ i - Len(a) = h
        BY <1>1, <2>2, <2>4, <2>5, <3>4
      <4> HIDE DEF h
      <4>2. b[h] = s[at + h] BY <2>3, <4>1
      <4> QED BY <3>2, <3>4, <4>1, <4>2
    <3> QED BY <3>3, <3>4
  <2> QED BY <2>5, <2>6
<1>0. DOMAIN l = 1..Len(l) BY ChildrenIn
<1>3. at \in 1..Len(s) /\ t[s[at]].name # n BY <1>6
<1> HIDE DEF l
<1>4. CASE Find(t, k, n) = Null
  <2>1. \A j \in Range(s) : t[j].name # n BY <1>4, FindSound
  <2>2. \A i \in 1..Len(l) : u[l[i]].name # n
    <3> TAKE i \in 1..Len(l)
    <3> DEFINE h == IF i < at THEN i ELSE i + 1
    <3>1. h \in 1..Len(s) /\ h # at
      <4> HIDE DEF s
      <4> QED BY <1>1, <1>2, <1>3
    <3>2. l[i] = s[h] BY <1>2
    <3> HIDE DEF h
    <3> QED BY <1>1, <2>1, <3>1, <3>2
  <2>3. \A j \in Range(l) : u[j].name # n BY <1>0, <2>2 DEF Range
  <2> QED BY <1>4, <2>3, FindNone DEF l
<1>5. CASE Find(t, k, n) # Null
  <2>1. PICK i \in 1..Len(s) : /\ Find(t, k, n) = s[i] /\ t[s[i]].name = n
                               /\ \A j \in 1..(i - 1) : t[s[j]].name # n
    BY <1>5, FindFirst
  <2>2. i # at BY <1>3, <2>1
  <2> DEFINE m == IF i < at THEN i ELSE i - 1
  <2>3. m \in 1..Len(l) /\ i = (IF m < at THEN m ELSE m + 1)
    <3> HIDE DEF s
    <3> QED BY <1>1, <1>2, <1>3, <2>1, <2>2
  <2> HIDE DEF m
  <2>4. l[m] = s[i] /\ u[l[m]].name = n BY <1>1, <1>2, <2>1, <2>2, <2>3
  <2>5. \A j \in 1..(m - 1) : u[l[j]].name # n
    <3> TAKE j \in 1..(m - 1)
    <3> DEFINE h == IF j < at THEN j ELSE j + 1
    <3>1. j \in 1..Len(l) /\ h \in 1..(i - 1) /\ h \in 1..Len(s) /\ h # at
      <4> HIDE DEF s
      <4> QED BY <1>1, <1>2, <1>3, <2>1, <2>3
    <3>2. l[j] = s[h] BY <1>2, <3>1
    <3> HIDE DEF h
    <3> QED BY <1>1, <2>1, <3>1, <3>2
  <2>6. Find(u, k, n) = l[m]
    <3>1. FirstOf(u, k, n, m, l[m]) BY <2>3, <2>4, <2>5 DEF l, FirstOf
    <3> QED BY <3>1, FindIs, Zenon
  <2> QED BY <2>1, <2>4, <2>6
<1> QED BY <1>4, <1>5

-----------------------------------------------------------------------------
(* Lookups in a tree *)

\* As in a forest with the root.
LEMMA ForestGrounded ==
  ASSUME NEW t, NEW R, Root \in R, Forest(t, R)
  PROVE  Grounded(t)
BY DEF Forest, Grounded

\* A path names a key or none, the root if it is "/".
LEMMA LookupIn ==
  ASSUME NEW t, Grounded(t), NEW p \in Paths
  PROVE  Lookup(t, p) \in DOMAIN t \cup {Null} /\ (Lookup(t, p) # Null => Lookup(t, p) \in DOMAIN t)
BY PathIs, LookupSound DEF Grounded

\* c is what n finds under k.
ChildOf(t, k, n, c) ==
  /\ k \in DOMAIN t /\ k # Null /\ c \in DOMAIN t /\ c # Null /\ c # Root
  /\ c \in Range(t[k].children) /\ t[c].name = n /\ t[c].parent = k
  /\ c = Find(t, k, n)

\* The key of a path is a child of the key of the path above.
LEMMA LookupDown ==
  ASSUME NEW t, Grounded(t), NEW p \in Paths, NEW n \in Names, Append(p, n) \in Paths,
         Lookup(t, Append(p, n)) # Null
  PROVE  ChildOf(t, Lookup(t, p), n, Lookup(t, Append(p, n)))
<1> DEFINE k == Lookup(t, p)
           c == Lookup(t, Append(p, n))
<1>1. k # Null /\ c = Find(t, k, n) /\ c # Null BY LookupAppend
<1>2. k \in DOMAIN t /\ Typed(t) /\ Linked(t) /\ t[Root].parent = Null
  BY <1>1, LookupIn DEF Grounded
<1> HIDE DEF k, c
<1>3. c \in Range(t[k].children) /\ c \in DOMAIN t /\ t[c].name = n
  BY <1>1, <1>2, FindSound
<1>4. t[c].parent = k BY <1>2, <1>3, OneParent
<1>5. c # Root BY <1>1, <1>2, <1>4
<1> QED BY <1>1, <1>2, <1>3, <1>4, <1>5 DEF ChildOf, k, c

\* Two paths do not name the same key.
LEMMA OnePath ==
  ASSUME NEW t, Grounded(t), NEW p \in Paths, NEW q \in Paths,
         Lookup(t, p) = Lookup(t, q), Lookup(t, p) # Null
  PROVE  p = q
<1> DEFINE S == {x \in Paths : \A y \in Paths : Lookup(t, x) = Lookup(t, y) /\ Lookup(t, x) # Null => x = y}
<1>1. ASSUME NEW y \in Paths, y # << >>, Lookup(t, y) # Null PROVE Lookup(t, y) # Root
  <2>1. PICK z \in Paths, m \in Names : y = Append(z, m) BY <1>1, PathSplits
  <2>2. ChildOf(t, Lookup(t, z), m, Lookup(t, y)) BY <1>1, <2>1, LookupDown
  <2> QED BY <2>2 DEF ChildOf
<1>2. << >> \in S BY <1>1, LookupRoot, NoPath
<1>3. ASSUME NEW x \in Paths, NEW n \in Names, x \in S, Append(x, n) \in Paths
      PROVE  Append(x, n) \in S
  <2> DEFINE c == Lookup(t, Append(x, n))
  <2> SUFFICES ASSUME NEW y \in Paths, c = Lookup(t, y), c # Null PROVE Append(x, n) = y
    BY <1>3
  <2>1. ChildOf(t, Lookup(t, x), n, c) BY <1>3, LookupDown
  <2>2. y # << >> BY <2>1, LookupRoot DEF ChildOf
  <2>3. PICK z \in Paths, m \in Names : y = Append(z, m) BY <2>2, PathSplits
  <2>4. ChildOf(t, Lookup(t, z), m, c) BY <2>3, LookupDown
  <2> HIDE DEF c
  <2>5. Lookup(t, x) = Lookup(t, z) /\ Lookup(t, x) # Null /\ m = n
    BY <2>1, <2>4 DEF ChildOf
  <2>6. x = z BY <1>3, <2>5
  <2> QED BY <2>3, <2>5, <2>6
<1>4. p \in S
  <2> HIDE DEF S
  <2>1. Paths \subseteq S BY <1>2, <1>3, PathsInduct
  <2> QED BY <2>1
<1> QED BY <1>4

\* Two trees name the same keys by the paths of S, which has the paths above
\* its own, if where they agree on a path they do on the names after it.
LEMMA LookupAgrees ==
  ASSUME NEW t, Grounded(t), NEW u, NEW S, 
         \A q \in Paths, n \in Names : Append(q, n) \in S => q \in S,
         \A q \in Paths, n \in Names :
           q \in S /\ Append(q, n) \in S /\ Append(q, n) \in Paths /\ Lookup(t, q) # Null
             => Find(u, Lookup(t, q), n) = Find(t, Lookup(t, q), n)
  PROVE  \A q \in Paths : q \in S => Lookup(u, q) = Lookup(t, q)
<1> DEFINE A == {q \in Paths : q \in S => Lookup(u, q) = Lookup(t, q)}
<1>1. << >> \in A BY LookupRoot, NoPath
<1>2. ASSUME NEW q \in Paths, NEW n \in Names, q \in A, Append(q, n) \in Paths
      PROVE  Append(q, n) \in A
  BY <1>2, LookupAppend
<1>3. Paths \subseteq A
  <2> HIDE DEF A
  <2> QED BY <1>1, <1>2, PathsInduct
<1> QED BY <1>3

\* What begins with p.
LEMMA PrefixIs ==
  ASSUME NEW p \in Seq(Strings), NEW q \in Seq(Strings)
  PROVE  IsPrefix(p, q) <=> Len(p) <= Len(q) /\ \A i \in 1..Len(p) : q[i] = p[i]
<1> DEFINE r == SubSeq(q, 1, Len(p))
<1>1. SubSeq(p, 1, Len(p)) = p OBVIOUS
<1>2. ASSUME Len(p) <= Len(q)
      PROVE  r \in Seq(Strings) /\ Len(r) = Len(p) /\ \A i \in 1..Len(p) : r[i] = q[i]
  BY <1>2
<1>3. ASSUME Len(p) <= Len(q) PROVE p = r <=> \A i \in 1..Len(p) : q[i] = p[i]
  <2>1. r \in Seq(Strings) /\ Len(r) = Len(p) /\ \A i \in 1..Len(p) : r[i] = q[i]
    BY <1>2, <1>3
  <2> HIDE DEF r
  <2>2. (\A i \in 1..Len(p) : q[i] = p[i]) => p = r BY <2>1, SeqEqual
  <2> QED BY <2>1, <2>2
<1> QED BY <1>1, <1>3 DEF IsPrefix

\* A path and one name more.
LEMMA PrefixAppend ==
  ASSUME NEW p \in Seq(Strings), NEW q \in Seq(Strings), NEW n \in Strings
  PROVE  /\ IsPrefix(p, Append(q, n)) <=> IsPrefix(p, q) \/ p = Append(q, n)
         /\ IsPrefix(p, p) /\ IsPrefix(p, Append(p, n))
<1> DEFINE r == Append(q, n)
<1>1. r \in Seq(Strings) /\ Len(r) = Len(q) + 1 /\ r[Len(q) + 1] = n /\ \A i \in 1..Len(q) : r[i] = q[i]
  OBVIOUS
<1>0. Len(p) \in Nat /\ Len(q) \in Nat OBVIOUS
<1>2. IsPrefix(p, p) BY PrefixIs
<1>3. IsPrefix(p, Append(p, n))
  <2> DEFINE a == Append(p, n)
  <2>1. a \in Seq(Strings) /\ Len(p) <= Len(a) /\ \A i \in 1..Len(p) : a[i] = p[i]
    OBVIOUS
  <2> HIDE DEF a
  <2>2. IsPrefix(p, a) BY <2>1, PrefixIs
  <2> QED BY <2>2 DEF a
<1> HIDE DEF r
<1>4. ASSUME IsPrefix(p, r), p # r PROVE IsPrefix(p, q)
  <2>1. Len(p) <= Len(r) /\ \A i \in 1..Len(p) : r[i] = p[i] BY <1>1, <1>4, PrefixIs
  <2>2. Len(p) # Len(r) BY <1>1, <1>4, <2>1, SeqEqual
  <2>3. Len(p) <= Len(q) /\ \A i \in 1..Len(p) : q[i] = p[i]
    BY <1>0, <1>1, <2>1, <2>2
  <2> QED BY <2>3, PrefixIs
<1>5. ASSUME IsPrefix(p, q) PROVE IsPrefix(p, r) BY <1>0, <1>1, <1>5, PrefixIs
<1> QED BY <1>1, <1>2, <1>3, <1>4, <1>5, PrefixIs DEF r

\* Nothing is named below a path that names nothing.
LEMMA NothingBelow ==
  ASSUME NEW t, NEW p \in Paths, Lookup(t, p) = Null, NEW q \in Paths, IsPrefix(p, q)
  PROVE  Lookup(t, q) = Null
<1> DEFINE A == {x \in Paths : IsPrefix(p, x) => Lookup(t, x) = Null}
<1>0. p \in Seq(Strings) /\ Names \subseteq Strings /\ \A x \in Paths : x \in Seq(Strings)
  BY PathIs DEF Strings
<1>1. << >> \in A BY <1>0, NoPath, PrefixIs
<1>2. ASSUME NEW x \in Paths, NEW n \in Names, x \in A, Append(x, n) \in Paths
      PROVE  Append(x, n) \in A
  BY <1>0, <1>2, PrefixAppend, LookupAppend
<1>3. Paths \subseteq A
  <2> HIDE DEF A
  <2> QED BY <1>1, <1>2, PathsInduct
<1> QED BY <1>3

-----------------------------------------------------------------------------
(* What reg_mkpath lets be seen *)

\* Appending is injective.
LEMMA AppendOne ==
  ASSUME NEW p \in Seq(Strings), NEW q \in Seq(Strings), NEW m \in Strings, NEW n \in Strings,
         Append(p, m) = Append(q, n)
  PROVE  p = q /\ m = n
<1>1. Len(Append(p, m)) = Len(p) + 1 /\ Len(Append(q, n)) = Len(q) + 1 /\ Len(p) \in Nat /\ Len(q) \in Nat
  OBVIOUS
<1>2. Len(p) = Len(q) BY <1>1
<1>3. \A i \in 1..Len(p) : Append(p, m)[i] = p[i] /\ Append(q, n)[i] = q[i] BY <1>2
<1>4. Append(p, m)[Len(p) + 1] = m /\ Append(q, n)[Len(p) + 1] = n BY <1>2
<1>5. p = q BY <1>2, <1>3, SeqEqual
<1> QED BY <1>4, <1>5

\* reg_mkpath starts at the root.
LEMMA MkPathRoot ==
  ASSUME NEW t
  PROVE  MkPath(t, << >>) = [tree |-> t, at |-> Root, built |-> << >>]
<1>1. PICK f : /\ f[0] = [tree |-> t, at |-> Root, built |-> << >>]
               /\ MkPath(t, << >>) = f[Len(Truncated(<< >>))]
  <2>1. << >> \in Seq(Strings) OBVIOUS
  <2> QED BY <2>1, MkPathSteps
<1>2. Len(Truncated(<< >>)) = 0 BY NoPath, PathIs
<1> QED BY <1>1, <1>2

\* reg_mkpath goes on by one name.
LEMMA MkPathAppend ==
  ASSUME NEW t, NEW p \in Paths, NEW n \in Names, Append(p, n) \in Paths
  PROVE  MkPath(t, Append(p, n)) = MkStep(MkPath(t, p), n)
<1> DEFINE q == Append(p, n)
           l == Len(p)
           first == [tree |-> t, at |-> Root, built |-> << >>]
<1>1. /\ p \in Seq(Names) /\ p \in Seq(Strings) /\ l \in Nat /\ Truncated(p) = p
      /\ q \in Seq(Strings) /\ Truncated(q) = q
  BY PathIs
<1>2. Len(q) = l + 1 /\ q[l + 1] = n /\ \A i \in 1..l : q[i] = p[i] BY <1>1
<1> HIDE DEF q, l, first
<1>4. PICK f : /\ f[0] = first /\ \A i \in 0..(l - 1) : f[i + 1] = MkStep(f[i], p[i + 1])
               /\ MkPath(t, p) = f[l]
  <2>1. PICK f : /\ f[0] = [tree |-> t, at |-> Root, built |-> << >>]
                 /\ \A i \in 0..(Len(Truncated(p)) - 1) : f[i + 1] = MkStep(f[i], Truncated(p)[i + 1])
                 /\ MkPath(t, p) = f[Len(Truncated(p))]
    BY <1>1, MkPathSteps
  <2> QED BY <1>1, <2>1 DEF l, first
<1>5. PICK g : /\ g[0] = first /\ \A i \in 0..l : g[i + 1] = MkStep(g[i], q[i + 1])
               /\ MkPath(t, q) = g[l + 1]
  <2>1. PICK g : /\ g[0] = [tree |-> t, at |-> Root, built |-> << >>]
                 /\ \A i \in 0..(Len(Truncated(q)) - 1) : g[i + 1] = MkStep(g[i], Truncated(q)[i + 1])
                 /\ MkPath(t, q) = g[Len(Truncated(q))]
    BY <1>1, MkPathSteps
  <2>2. Len(Truncated(q)) = l + 1 /\ (l + 1) - 1 = l BY <1>1, <1>2
  <2> QED BY <1>1, <2>1, <2>2 DEF first
<1> DEFINE A == {i \in 0..l : g[i] = f[i]}
<1>6. 0 \in A BY <1>1, <1>4, <1>5
<1>7. ASSUME NEW i \in 0..(l - 1), i \in A PROVE i + 1 \in A
  BY <1>1, <1>2, <1>4, <1>5, <1>7
<1>8. g[l] = f[l] /\ l \in 0..l
  <2> HIDE DEF A
  <2>1. \A i \in 0..l : i \in A BY <1>1, <1>6, <1>7, Counted
  <2>2. l \in 0..l BY <1>1
  <2>3. l \in A BY <2>1, <2>2
  <2> QED BY <2>2, <2>3 DEF A
<1>9. g[l + 1] = MkStep(g[l], q[l + 1]) BY <1>5, <1>8
<1> QED BY <1>2, <1>4, <1>5, <1>8, <1>9 DEF q

\* u is t and a new first child of P, with nothing below it.
NewChildIn(t, u, k, P, n) ==
  /\ k \notin DOMAIN t /\ DOMAIN u = DOMAIN t \cup {k}
  /\ u[k].name = n /\ u[k].children = << >> /\ u[k].val = Nil
  /\ \A j \in DOMAIN t : /\ u[j].name = t[j].name /\ u[j].val = t[j].val
                         /\ u[j].children = IF j = P THEN <<k>> \o t[j].children ELSE t[j].children

\* It is what reg_mkpath makes.
LEMMA NewChildMade ==
  ASSUME NEW t, NEW R, Forest(t, R), NEW k \in Ids \ DOMAIN t, NEW P \in DOMAIN t, NEW n \in Strings,
         NEW path \in Seq(Strings)
  PROVE  NewChildIn(t, AddChild(With(t, k, NewKey(n, path, Null)), P, k), k, P, n)
<1> DEFINE r == NewKey(n, path, Null)
           v == With(t, k, r)
           u == AddChild(v, P, k)
<1>1. r \in Rec(DOMAIN t) /\ r.name = n /\ r.children = << >> /\ r.val = Nil /\ r.parent = Null
  BY NewKeyIn DEF NewKey
<1> HIDE DEF r
<1>2. AllocatedIn(t, v, R, k, r) BY <1>1, Allocated
<1>3. Typed(v) /\ DOMAIN v = DOMAIN t \cup {k} /\ v[k] = r /\ \A j \in DOMAIN t : v[j] = t[j]
  BY <1>2 DEF AllocatedIn, Forest
<1> DEFINE s == <<k>> \o v[P].children
           w == SetChildren(v, P, s)
<1> HIDE DEF v
<1>4. u = SetParent(w, k, P) BY DEF AddChild, SetParent, SetChildren
<1> HIDE DEF u
<1>5. P \in DOMAIN v /\ k \in DOMAIN v /\ P # k /\ v[P] = t[P] BY <1>3
<1>6. s \in Seq(DOMAIN v) BY <1>3, <1>5, ChildrenIn
<1> HIDE DEF s
<1>7. ChildrenSetIn(v, w, P, s) BY <1>3, <1>5, <1>6, ChildrenSet
<1> HIDE DEF w
<1>8. Typed(w) /\ DOMAIN w = DOMAIN v BY <1>7 DEF ChildrenSetIn
<1>9. ParentSetIn(w, u, k, P) BY <1>4, <1>5, <1>8, ParentSet
<1>10. /\ DOMAIN u = DOMAIN v
       /\ \A j \in DOMAIN v : /\ u[j].name = v[j].name /\ u[j].val = v[j].val
                              /\ u[j].children = IF j = P THEN s ELSE v[j].children
  BY <1>7, <1>8, <1>9 DEF ChildrenSetIn, ParentSetIn
<1>11. s = <<k>> \o t[P].children BY <1>5 DEF s
<1>12. ASSUME NEW j \in DOMAIN t
       PROVE  /\ u[j].name = t[j].name /\ u[j].val = t[j].val
              /\ u[j].children = IF j = P THEN <<k>> \o t[j].children ELSE t[j].children
  BY <1>3, <1>10, <1>11
<1>13. u[k].name = n /\ u[k].children = << >> /\ u[k].val = Nil
  BY <1>1, <1>3, <1>5, <1>10
<1>14. DOMAIN u = DOMAIN t \cup {k} /\ k \notin DOMAIN t BY <1>3, <1>10
<1> QED BY <1>12, <1>13, <1>14, Zenon DEF NewChildIn, u, v, r

\* Its path names it, and the others what they named.
LEMMA NewChildSeen ==
  ASSUME NEW t, Grounded(t), NEW u, Grounded(u), NEW k, NEW p \in Paths, NEW n \in Names,
         Append(p, n) \in Paths, Lookup(t, p) # Null, Find(t, Lookup(t, p), n) = Null,
         NewChildIn(t, u, k, Lookup(t, p), n)
  PROVE  \A q \in Paths : Lookup(u, q) = IF q = Append(p, n) THEN k ELSE Lookup(t, q)
<1> DEFINE P == Lookup(t, p)
           A == {q \in Paths : Lookup(u, q) = IF q = Append(p, n) THEN k ELSE Lookup(t, q)}
<1>0. /\ Names \subseteq Strings /\ \A x \in Paths : x \in Seq(Strings)
      /\ Typed(t) /\ Typed(u)
  BY PathIs DEF Strings, Grounded
<1>1. /\ k \notin DOMAIN t /\ DOMAIN u = DOMAIN t \cup {k} /\ P \in DOMAIN t /\ P # Null
      /\ u[k].name = n /\ u[k].children = << >>
      /\ \A j \in DOMAIN t : /\ u[j].name = t[j].name
                             /\ u[j].children = IF j = P THEN <<k>> \o t[j].children ELSE t[j].children
  BY LookupIn DEF NewChildIn
<1>2. Lookup(t, Append(p, n)) = Null BY LookupAppend
<1>3. << >> \in A BY <1>0, PathIs, PathAbove, LookupRoot, NoPath
<1> HIDE DEF P
<1>4. ASSUME NEW q \in Paths, NEW x \in Names, q \in A, Append(q, x) \in Paths
      PROVE  Append(q, x) \in A
  <2>1. Append(q, x) = Append(p, n) => q = p /\ x = n BY <1>0, AppendOne
  <2>2. Lookup(u, q) = IF q = Append(p, n) THEN k ELSE Lookup(t, q) BY <1>4
  <2>3. Lookup(t, Append(q, x)) = IF Lookup(t, q) = Null THEN Null ELSE Find(t, Lookup(t, q), x)
    BY <1>4, LookupAppend
  <2>4. Lookup(u, Append(q, x)) = IF Lookup(u, q) = Null THEN Null ELSE Find(u, Lookup(u, q), x)
    BY <1>4, LookupAppend
  <2>5. CASE q = Append(p, n)
    <3>1. Find(u, k, x) = Null BY <1>0, <1>1, FindNone DEF Range
    <3>2. Append(q, x) # Append(p, n) BY <1>0, <2>1, <2>5
    <3>3. Lookup(t, Append(q, x)) = Null /\ Lookup(u, Append(q, x)) = Null
      BY <1>2, <2>2, <2>3, <2>4, <2>5, <3>1
    <3> QED BY <1>4, <3>2, <3>3
  <2>6. CASE q # Append(p, n) /\ Lookup(t, q) = Null
    BY <1>1, <1>4, <2>1, <2>2, <2>3, <2>4, <2>6 DEF P
  <2>7. CASE q # Append(p, n) /\ Lookup(t, q) # Null
    <3> DEFINE j == Lookup(t, q)
    <3>1. j \in DOMAIN t /\ j \in DOMAIN u /\ Lookup(u, q) = j
      BY <1>1, <1>4, <2>2, <2>7, LookupIn
    <3>2. j = P <=> q = p BY <2>7, OnePath DEF P
    <3> HIDE DEF j
    <3>3. \A c \in Range(t[j].children) : u[c].name = t[c].name
      BY <1>0, <1>1, <3>1, ChildrenIn
    <3>4. Find(u, j, x) = IF j = P /\ x = n THEN k ELSE Find(t, j, x)
      <4>1. CASE j = P
        <5>1. u[j].children = <<k>> \o t[j].children BY <1>1, <3>1, <4>1
        <5>2. Find(u, j, x) = IF x = u[k].name THEN k ELSE Find(t, j, x)
          <6>1. Typed(t) /\ Typed(u) /\ j \in DOMAIN t /\ j \in DOMAIN u
            BY <1>0, <3>1
          <6>2. Fronted(t, u, j, k) BY <3>3, <5>1 DEF Fronted
          <6> QED BY <6>1, <6>2, FindFront
        <5> QED BY <1>1, <4>1, <5>2
      <4>2. CASE j # P
        <5>1. u[j].children = t[j].children BY <1>1, <3>1, <4>2
        <5> QED BY <1>0, <3>1, <3>3, <4>2, <5>1, FindSame
      <4> QED BY <4>1, <4>2
    <3>5. Lookup(t, Append(q, x)) = Find(t, j, x) /\ Lookup(u, Append(q, x)) = Find(u, j, x)
      BY <2>3, <2>4, <2>7, <3>1 DEF j
    <3> QED BY <1>4, <2>1, <3>2, <3>4, <3>5
  <2> QED BY <2>5, <2>6, <2>7
<1>5. Paths \subseteq A
  <2> HIDE DEF A
  <2> QED BY <1>3, <1>4, PathsInduct
<1> QED BY <1>5

\* It stays so if a name that is not found is added.
LEMMA NewChildDistinct ==
  ASSUME NEW t, Typed(t), Distinct(t), NEW u, Typed(u), NEW k, NEW P \in DOMAIN t, NEW n,
         Find(t, P, n) = Null, NewChildIn(t, u, k, P, n)
  PROVE  Distinct(u)
<1>1. /\ k \notin DOMAIN t /\ DOMAIN u = DOMAIN t \cup {k} /\ u[k].name = n /\ u[k].children = << >>
      /\ \A j \in DOMAIN t : /\ u[j].name = t[j].name
                             /\ u[j].children = IF j = P THEN <<k>> \o t[j].children ELSE t[j].children
  BY DEF NewChildIn
<1>2. \A c \in Range(t[P].children) : t[c].name # n BY FindSound
<1> SUFFICES ASSUME NEW j \in DOMAIN u, NEW c \in Range(u[j].children), NEW d \in Range(u[j].children),
                    u[c].name = u[d].name, u[c].name \in Names
             PROVE  c = d
  BY DEF Distinct
<1>3. j \in DOMAIN t BY <1>1 DEF Range
<1>4. Range(t[j].children) \subseteq DOMAIN t /\ t[j].children \in Seq(DOMAIN t)
  BY <1>3, ChildrenIn
<1>5. CASE j # P BY <1>1, <1>3, <1>4, <1>5 DEF Distinct
<1>6. CASE j = P
  <2>1. Range(u[j].children) \subseteq Range(t[j].children) \cup {k}
    <3> DEFINE s == t[j].children  f == <<k>> \o s
    <3>1. u[j].children = f BY <1>1, <1>3, <1>6
    <3>2. DOMAIN f = 1..(Len(s) + 1) /\ f[1] = k /\ \A i \in 2..(Len(s) + 1) : f[i] = s[i - 1]
      BY <1>4
    <3>3. Len(s) \in Nat /\ \A i \in 1..Len(s) : s[i] \in Range(s) BY <1>4 DEF Range
    <3> HIDE DEF f, s
    <3>4. \A i \in DOMAIN f : f[i] \in Range(s) \cup {k}
      <4> TAKE i \in DOMAIN f
      <4>1. CASE i = 1 BY <3>2, <4>1
      <4>2. CASE i # 1
        <5> DEFINE h == i - 1
        <5>1. h \in 1..Len(s) /\ f[i] = s[h] BY <3>2, <3>3, <4>2
        <5> HIDE DEF h
        <5> QED BY <3>3, <5>1
      <4> QED BY <4>1, <4>2
    <3>5. Range(f) \subseteq Range(s) \cup {k} BY <3>4 DEF Range
    <3> QED BY <3>1, <3>5 DEF s
  <2>2. \A x \in Range(u[j].children) : x = k \/ (x \in Range(t[j].children) /\ x \in DOMAIN t)
    BY <1>4, <2>1
  <2>3. CASE c = k \/ d = k BY <1>1, <1>2, <1>4, <1>6, <2>2, <2>3
  <2>4. CASE c # k /\ d # k BY <1>1, <1>3, <2>2, <2>4 DEF Distinct
  <2> QED BY <2>3, <2>4
<1> QED BY <1>5, <1>6

\* A turn of the loop that finds the name goes to the child.
LEMMA PathFound ==
  ASSUME NEW t, NEW R, Root \in R, NEW p \in Paths, NEW n \in Names, Append(p, n) \in Paths,
         NEW m, PathMade(t, R, p, m), NEW w, Walk(t, R, w), w.tree = m.tree,
         w.at = Find(m.tree, m.at, n), w.at # Null
  PROVE  PathMade(t, R, Append(p, n), w)
<1> DEFINE q == Append(p, n)
<1>0. /\ p \in Seq(Strings) /\ q \in Seq(Strings) /\ n \in Strings /\ Len(q) = Len(p) + 1 /\ Len(p) \in Nat
      /\ \A x \in Paths : x \in Seq(Strings)
  BY PathIs DEF Strings
<1>1. Cardinality(Ids \ DOMAIN w.tree) >= Cardinality(Ids \ DOMAIN t) - Len(q)
  <2>1. Cardinality(Ids \ DOMAIN w.tree) \in Nat /\ Cardinality(Ids \ DOMAIN t) \in Nat
    BY FreeCounted
  <2>2. Cardinality(Ids \ DOMAIN w.tree) >= Cardinality(Ids \ DOMAIN t) - Len(p)
    BY DEF PathMade
  <2> HIDE DEF q
  <2> QED BY <1>0, <2>1, <2>2
<1>2. w.at = Lookup(w.tree, q) BY LookupAppend DEF PathMade
<1>3. Lookup(t, q) # Null
  <2>1. ~ IsPrefix(q, p)
    <3>1. IsPrefix(q, p) => Len(q) <= Len(p) BY <1>0, PrefixIs
    <3> HIDE DEF q
    <3> QED BY <1>0, <3>1
  <2> HIDE DEF q
  <2>2. q \in Paths BY DEF q
  <2>3. Lookup(m.tree, q) # Null BY <1>2
  <2> QED BY <2>1, <2>2, <2>3 DEF PathMade, SeenAfter
<1>4. SeenAfter(t, q, w.tree)
  <2> SUFFICES ASSUME NEW x \in Paths
               PROVE  IF Lookup(t, x) # Null THEN Lookup(m.tree, x) = Lookup(t, x)
                      ELSE IF IsPrefix(x, q) THEN Lookup(m.tree, x) \in DOMAIN m.tree \ DOMAIN t
                      ELSE Lookup(m.tree, x) = Null
    BY DEF SeenAfter
  <2>1. IsPrefix(x, q) <=> IsPrefix(x, p) \/ x = q BY <1>0, PrefixAppend
  <2> HIDE DEF q
  <2> QED BY <1>3, <2>1 DEF PathMade, SeenAfter
<1> QED BY <1>1, <1>2, <1>4 DEF PathMade

\* A turn that does not makes one.
LEMMA PathGrown ==
  ASSUME NEW t, NEW R, Root \in R, NEW p \in Paths, NEW n \in Names, Append(p, n) \in Paths,
         NEW m, PathMade(t, R, p, m), NEW w, Walk(t, R, w), Find(m.tree, m.at, n) = Null,
         NewChildIn(m.tree, w.tree, w.at, m.at, n),
         Cardinality(Ids \ DOMAIN w.tree) >= Cardinality(Ids \ DOMAIN m.tree) - 1
  PROVE  PathMade(t, R, Append(p, n), w)
<1> DEFINE q == Append(p, n)
           k == w.at
<1>0. /\ p \in Seq(Strings) /\ q \in Seq(Strings) /\ n \in Strings /\ Len(q) = Len(p) + 1 /\ Len(p) \in Nat
      /\ \A x \in Paths : x \in Seq(Strings)
  BY PathIs DEF Strings
<1>1. Cardinality(Ids \ DOMAIN w.tree) >= Cardinality(Ids \ DOMAIN t) - Len(q)
  <2>1. /\ Cardinality(Ids \ DOMAIN w.tree) \in Nat /\ Cardinality(Ids \ DOMAIN t) \in Nat
        /\ Cardinality(Ids \ DOMAIN m.tree) \in Nat
    BY FreeCounted
  <2>2. Cardinality(Ids \ DOMAIN m.tree) >= Cardinality(Ids \ DOMAIN t) - Len(p)
    BY DEF PathMade
  <2> HIDE DEF q
  <2> QED BY <1>0, <2>1, <2>2
<1>2. Grounded(m.tree) /\ Grounded(w.tree) /\ Typed(m.tree) /\ Typed(w.tree) /\ Grew(t, m.tree)
  BY ForestGrounded DEF PathMade, Walk, Forest
<1>3. m.at = Lookup(m.tree, p) /\ m.at # Null /\ m.at \in DOMAIN m.tree
  BY <1>2, LookupIn DEF PathMade
<1>4. \A x \in Paths : Lookup(w.tree, x) = IF x = q THEN k ELSE Lookup(m.tree, x)
  <2>1. /\ Lookup(m.tree, p) # Null /\ Find(m.tree, Lookup(m.tree, p), n) = Null
        /\ NewChildIn(m.tree, w.tree, k, Lookup(m.tree, p), n)
    BY <1>3
  <2> QED BY <1>2, <2>1, NewChildSeen
<1>5. /\ k \notin DOMAIN m.tree /\ DOMAIN w.tree = DOMAIN m.tree \cup {k} /\ w.tree[k].val = Nil
      /\ \A j \in DOMAIN m.tree : /\ w.tree[j].val = m.tree[j].val
                                  /\ j # m.at => w.tree[j].children = m.tree[j].children
  BY DEF NewChildIn
<1>6. DOMAIN t \subseteq DOMAIN m.tree BY <1>2 DEF Grew
<1>7. k = Lookup(w.tree, q) /\ k # Null BY <1>2, <1>4, <1>5, NullIsNone DEF Typed
<1>8. Lookup(m.tree, q) = Null BY <1>3, LookupAppend
<1> HIDE DEF q, k
<1>9. q \in Paths BY DEF q
<1>10. SeenAfter(t, q, w.tree)
  <2> SUFFICES ASSUME NEW x \in Paths
               PROVE  IF Lookup(t, x) # Null THEN Lookup(w.tree, x) = Lookup(t, x)
                      ELSE IF IsPrefix(x, q) THEN Lookup(w.tree, x) \in DOMAIN w.tree \ DOMAIN t
                      ELSE Lookup(w.tree, x) = Null
    BY DEF SeenAfter
  <2>1. IsPrefix(x, q) <=> IsPrefix(x, p) \/ x = q BY <1>0, PrefixAppend DEF q
  <2>2. IF Lookup(t, x) # Null THEN Lookup(m.tree, x) = Lookup(t, x)
        ELSE IF IsPrefix(x, p) THEN Lookup(m.tree, x) \in DOMAIN m.tree \ DOMAIN t
        ELSE Lookup(m.tree, x) = Null
    BY DEF PathMade, SeenAfter
  <2>3. CASE x = q BY <1>4, <1>5, <1>6, <1>8, <2>1, <2>2, <2>3
  <2>4. CASE x # q BY <1>4, <1>5, <2>1, <2>2, <2>4
  <2> QED BY <2>3, <2>4
<1>11. \A j \in DOMAIN w.tree \ DOMAIN t : w.tree[j].val = Nil
  BY <1>5, <1>6 DEF PathMade
<1>12. \A j \in DOMAIN t : w.tree[j].children = t[j].children \/ \E x \in Paths : Lookup(t, x) = j
  BY <1>3, <1>5, <1>6 DEF PathMade, SeenAfter
<1>13. Distinct(t) => Distinct(w.tree) BY <1>2, <1>3, NewChildDistinct DEF PathMade
<1>14. w.at = Lookup(w.tree, q) /\ w.at # Null BY <1>7 DEF k
<1> QED BY <1>1, <1>10, <1>11, <1>12, <1>13, <1>14, Zenon DEF PathMade, q

\* What reg_mkpath does to what is seen.
LEMMA MkPathSeen ==
  ASSUME NEW t, NEW R, Root \in R, Forest(t, R), Room(t), NEW p \in Paths
  PROVE  PathMade(t, R, p, MkPath(t, p))
<1> DEFINE A == {q \in Paths : PathMade(t, R, q, MkPath(t, q))}
<1>0. PathMax \in Nat /\ Cardinality(Ids \ DOMAIN t) \in Nat /\ Cardinality(Ids \ DOMAIN t) >= PathMax
  BY NullIsNone, FreeCounted DEF Room
<1>1. << >> \in A
  <2> DEFINE m == MkPath(t, << >>)
  <2>1. m = [tree |-> t, at |-> Root, built |-> << >>] BY MkPathRoot
  <2>2. m.tree = t /\ m.at = Root /\ m.built = << >> BY <2>1
  <2>3. Walk(t, R, m)
    <3>1. << >> \in Seq(Strings) /\ Grew(t, t) BY DEF Grew
    <3>2. Below(t, {Root}, Root) BY DEF Below, Forest
    <3> HIDE DEF m
    <3> QED BY <2>1, <2>2, <3>1, <3>2 DEF Walk
  <2> HIDE DEF m
  <2>4. Cardinality(Ids \ DOMAIN m.tree) >= Cardinality(Ids \ DOMAIN t) - Len(<< >>)
    BY <1>0, <2>2, NoPath
  <2>5. m.at = Lookup(m.tree, << >>) /\ m.at # Null BY <2>2, LookupRoot, NullIsNone
  <2>6. SeenAfter(t, << >>, t)
    <3> SUFFICES ASSUME NEW x \in Paths, Lookup(t, x) = Null PROVE ~ IsPrefix(x, << >>)
      BY DEF SeenAfter
    <3>1. x \in Seq(Strings) /\ Len(x) \in Nat BY PathIs
    <3>2. x # << >> BY LookupRoot, NullIsNone
    <3>3. Len(x) # 0 BY <3>1, <3>2
    <3> QED
      <4>1. << >> \in Seq(Strings) OBVIOUS
      <4>2. IsPrefix(x, << >>) => Len(x) <= Len(<< >>) BY <3>1, <4>1, PrefixIs
      <4> QED BY <3>1, <3>3, <4>2, NoPath
  <2>7. PathMade(t, R, << >>, m) BY <2>2, <2>3, <2>4, <2>5, <2>6 DEF PathMade
  <2> QED BY <2>7, NoPath DEF m
<1>2. ASSUME NEW q \in Paths, NEW n \in Names, q \in A, Append(q, n) \in Paths
      PROVE  Append(q, n) \in A
  <2> DEFINE m == MkPath(t, q)
             w == MkPath(t, Append(q, n))
  <2>1. w = MkStep(m, n) BY <1>2, MkPathAppend
  <2>2. PathMade(t, R, q, m) BY <1>2
  <2> HIDE DEF m, w
  <2>3. Walk(t, R, m) /\ n \in Strings /\ n # Empty
    BY <2>2, NameAssumption DEF PathMade, Strings
  <2>4. Ids \ DOMAIN m.tree # {}
    <3>1. Cardinality(Ids \ DOMAIN m.tree) >= Cardinality(Ids \ DOMAIN t) - Len(q)
      BY <2>2 DEF PathMade
    <3>2. Len(q) < PathMax /\ Len(q) \in Nat /\ Cardinality(Ids \ DOMAIN m.tree) \in Nat
      BY <1>2, PathIs, PathAbove, FreeCounted
    <3>3. Cardinality(Ids \ DOMAIN m.tree) # 0 BY <1>0, <3>1, <3>2
    <3> QED BY <3>3, FS_EmptySet
  <2>5. /\ Walk(t, R, w)
        /\ Cardinality(Ids \ DOMAIN w.tree) >= Cardinality(Ids \ DOMAIN m.tree) - 1
    BY <2>1, <2>3, <2>4, MkStepSound
  <2> DEFINE c == Find(m.tree, m.at, n)
             k == Fresh(m.tree)
             built == Append(m.built, n)
  <2>6. CASE c # Null
    BY <1>2, <2>1, <2>2, <2>3, <2>5, <2>6, PathFound DEF MkStep, Walk, w
  <2>7. CASE c = Null
    <3>1. w = [tree |-> AddChild(With(m.tree, k, NewKey(n, built, Null)), m.at, k), at |-> k, built |-> built]
      BY <2>1, <2>3, <2>7 DEF MkStep
    <3>2. w.tree = AddChild(With(m.tree, k, NewKey(n, built, Null)), m.at, k) /\ w.at = k
      BY <3>1
    <3>3. k \in Ids \ DOMAIN m.tree BY <2>4, FreshIsFree
    <3>4. Forest(m.tree, R) /\ m.at \in DOMAIN m.tree /\ built \in Seq(Strings)
      BY <2>3 DEF Walk, Below
    <3> HIDE DEF k, built
    <3>5. NewChildIn(m.tree, AddChild(With(m.tree, k, NewKey(n, built, Null)), m.at, k), k, m.at, n)
      BY <2>3, <3>3, <3>4, NewChildMade
    <3>6. NewChildIn(m.tree, w.tree, w.at, m.at, n) BY <3>2, <3>5
    <3>7. PathMade(t, R, Append(q, n), w) BY <1>2, <2>2, <2>5, <2>7, <3>6, PathGrown
    <3> QED BY <1>2, <3>7 DEF w
  <2> QED BY <2>6, <2>7
<1>3. Paths \subseteq A
  <2> HIDE DEF A
  <2> QED BY <1>1, <1>2, PathsInduct
<1> QED BY <1>3

-----------------------------------------------------------------------------
(* What is seen without a key *)

\* u is t without k in its list, whether or not k and what is below it are
\* freed as well.
Unhooked(t, u, k) ==
  /\ DOMAIN u \subseteq DOMAIN t
  /\ \A j \in DOMAIN u :
       /\ u[j].name = t[j].name /\ u[j].val = t[j].val
       /\ IF k \in Range(t[j].children) THEN \E at : Dropped(t, u, j, at, k)
          ELSE u[j].children = t[j].children
  /\ \A j \in DOMAIN t \ DOMAIN u : j # k => t[j].parent \notin DOMAIN u

\* No path of S leads to k, nor would one if k had no elder brother of its name.
Avoids(t, S, k) ==
  /\ \A q \in Paths : q \in S => Lookup(t, q) # k
  /\ \A q \in Paths, n \in Names : q \in S /\ Append(q, n) \in S /\ Append(q, n) \in Paths /\ Lookup(t, q) # Null
       /\ k \in Range(t[Lookup(t, q)].children) => t[k].name # n

\* Such paths name what they did.
LEMMA UnhookedAvoided ==
  ASSUME NEW t, Grounded(t), NEW u, Grounded(u), NEW k, Unhooked(t, u, k), NEW S, Avoids(t, S, k),
         \A q \in Paths, n \in Names : Append(q, n) \in S => q \in S
  PROVE  \A q \in Paths : q \in S =>
           Lookup(u, q) = Lookup(t, q) /\ (Lookup(t, q) # Null => Lookup(t, q) \in DOMAIN u)
<1> DEFINE A == {q \in Paths : q \in S /\ Lookup(t, q) # Null => Lookup(t, q) \in DOMAIN u}
<1>0. /\ Typed(t) /\ Typed(u) /\ Linked(t) /\ Root \in DOMAIN u BY DEF Grounded
<1>1. << >> \in A BY <1>0, LookupRoot, NoPath
<1>4. ASSUME NEW q \in Paths, NEW n \in Names, q \in A, Append(q, n) \in Paths
      PROVE  Append(q, n) \in A
  <2> DEFINE c == Lookup(t, Append(q, n))
  <2> SUFFICES ASSUME Append(q, n) \in S, c # Null PROVE c \in DOMAIN u BY <1>4
  <2>1. ChildOf(t, Lookup(t, q), n, c) BY <1>4, LookupDown
  <2>2. c # k BY <1>4 DEF Avoids
  <2> HIDE DEF c
  <2>3. t[c].parent \in DOMAIN u /\ c \in DOMAIN t BY <1>4, <2>1 DEF ChildOf
  <2> QED BY <2>2, <2>3 DEF Unhooked
<1>5. \A q \in Paths : q \in S /\ Lookup(t, q) # Null => Lookup(t, q) \in DOMAIN u
  <2>1. Paths \subseteq A
    <3> HIDE DEF A
    <3> QED BY <1>1, <1>4, PathsInduct
  <2> QED BY <2>1
<1>6. ASSUME NEW q \in Paths, NEW n \in Names, q \in S, Append(q, n) \in S, Append(q, n) \in Paths,
             Lookup(t, q) # Null
      PROVE  Find(u, Lookup(t, q), n) = Find(t, Lookup(t, q), n)
  <2> DEFINE j == Lookup(t, q)
  <2>1. j \in DOMAIN t /\ j \in DOMAIN u BY <1>5, <1>6, LookupIn
  <2>2. k \in Range(t[j].children) => t[k].name # n BY <1>6 DEF Avoids
  <2> HIDE DEF j
  <2>3. CASE k \in Range(t[j].children)
    BY <1>0, <2>1, <2>2, <2>3, FindDropped DEF Unhooked, j
  <2>4. CASE k \notin Range(t[j].children)
    BY <1>0, <2>1, <2>4, ChildrenIn, FindSame DEF Unhooked, j
  <2> QED BY <2>3, <2>4
<1>7. \A q \in Paths : q \in S => Lookup(u, q) = Lookup(t, q) BY <1>6, LookupAgrees
<1> QED BY <1>5, <1>7

\* Paths that do not begin with that of k name what they did.
LEMMA UnhookedSeen ==
  ASSUME NEW t, Grounded(t), NEW u, Grounded(u), NEW p \in Paths, Lookup(t, p) # Null,
         Unhooked(t, u, Lookup(t, p))
  PROVE  \A q \in Paths : ~ IsPrefix(p, q) =>
           Lookup(u, q) = Lookup(t, q) /\ (Lookup(t, q) # Null => Lookup(t, q) \in DOMAIN u)
<1> DEFINE k == Lookup(t, p)
           S == {q \in Paths : ~ IsPrefix(p, q)}
<1>0. /\ Typed(t) /\ Linked(t) /\ Names \subseteq Strings
      /\ \A x \in Paths : x \in Seq(Strings) /\ x \in Seq(Names)
  BY PathIs DEF Grounded, Strings
<1>1. \A q \in Paths, n \in Names : Append(q, n) \in S => q \in S
  BY <1>0, PrefixAppend
<1>2. \A q \in S : Lookup(t, q) # k BY <1>0, OnePath, PrefixAppend DEF Strings
<1> HIDE DEF S
<1>3. ASSUME NEW q \in Paths, NEW n \in Names, q \in S, Append(q, n) \in S, Append(q, n) \in Paths,
             Lookup(t, q) # Null, k \in Range(t[Lookup(t, q)].children), t[k].name = n
      PROVE  FALSE
  <2> DEFINE j == Lookup(t, q)
  <2>1. j \in DOMAIN t BY <1>3, LookupIn
  <2>2. t[k].parent = j /\ k # Root BY <1>0, <1>3, <2>1, OneParent DEF Grounded
  <2>3. p # << >> BY <2>2, LookupRoot
  <2>4. PICK x \in Paths, m \in Names : p = Append(x, m) BY <2>3, PathSplits
  <2>5. ChildOf(t, Lookup(t, x), m, k) BY <2>4, LookupDown
  <2>6. Lookup(t, x) = j /\ m = n BY <1>3, <2>2, <2>5 DEF ChildOf
  <2>7. x = q BY <1>3, <2>6, OnePath
  <2>8. Lookup(t, Append(q, n)) = k BY <2>4, <2>6, <2>7
  <2> QED BY <1>2, <1>3, <2>8
<1>4. Avoids(t, S, k) BY <1>2, <1>3 DEF Avoids
<1> HIDE DEF k
<1>5. Unhooked(t, u, k) BY DEF k
<1>6. \A q \in Paths : q \in S =>
        Lookup(u, q) = Lookup(t, q) /\ (Lookup(t, q) # Null => Lookup(t, q) \in DOMAIN u)
  BY <1>1, <1>4, <1>5, UnhookedAvoided
<1> QED BY <1>6 DEF S

\* Those that do name nothing, if no other key has hidden behind k.
LEMMA UnhookedGone ==
  ASSUME NEW t, Grounded(t), Distinct(t), NEW u, Grounded(u), NEW p \in Paths, p # << >>, Lookup(t, p) # Null,
         Unhooked(t, u, Lookup(t, p))
  PROVE  \A q \in Paths : IsPrefix(p, q) => Lookup(u, q) = Null
<1> DEFINE k == Lookup(t, p)
<1>1. PICK x \in Paths, m \in Names : p = Append(x, m) BY PathSplits
<1>2. /\ ChildOf(t, Lookup(t, x), m, k) BY <1>1, LookupDown
<1> DEFINE j == Lookup(t, x)
<1>3. ~ IsPrefix(p, x)
  <2>1. p \in Seq(Strings) /\ x \in Seq(Strings) /\ Len(x) \in Nat BY PathIs
  <2>2. Len(p) = Len(x) + 1 BY <1>1, <2>1
  <2> QED BY <2>1, <2>2, PrefixIs
<1>4. Lookup(u, x) = j /\ j \in DOMAIN u /\ j # Null
  BY <1>2, <1>3, UnhookedSeen DEF ChildOf
<1> HIDE DEF j
<1>5. /\ j \in DOMAIN t /\ Typed(t) /\ Linked(t) /\ Typed(u)
      /\ k \in Range(t[j].children) /\ t[k].name = m /\ k \in DOMAIN t
  BY <1>2 DEF ChildOf, Grounded, j
<1> HIDE DEF k
<1>6. \A c \in Range(u[j].children) : c \in Range(t[j].children) /\ c # k /\ u[c].name = t[c].name
  <2>1. PICK at : Dropped(t, u, j, at, k) BY <1>4, <1>5 DEF Unhooked, k
  <2> DEFINE s == t[j].children
  <2>2. at \in 1..Len(s) /\ s[at] = k /\ u[j].children = RemoveAt(s, at)
    BY <2>1 DEF Dropped
  <2>3. s \in Seq(DOMAIN t) /\ IsInjective(s) BY <1>5, ChildrenIn DEF Linked
  <2> HIDE DEF s
  <2>4. Range(u[j].children) = Range(s) \ {k} BY <2>2, <2>3, RemoveAtSound
  <2>5. Range(u[j].children) \subseteq DOMAIN u BY <1>4, <1>5, ChildrenIn
  <2> QED BY <2>4, <2>5 DEF Unhooked, s
<1>7. \A c \in Range(u[j].children) : u[c].name # m BY <1>5, <1>6 DEF Distinct
<1>8. Find(u, j, m) = Null BY <1>4, <1>5, <1>7, FindNone
<1>9. Lookup(u, p) = Null BY <1>1, <1>4, <1>8, LookupAppend
<1> QED BY <1>9, NothingBelow

\* u is t without what is below k.
Emptied(t, u, k) ==
  /\ DOMAIN u \subseteq DOMAIN t /\ k \in DOMAIN u
  /\ \A j \in DOMAIN u : /\ u[j].name = t[j].name /\ u[j].val = t[j].val
                         /\ u[j].children = IF j = k THEN << >> ELSE t[j].children

\* Paths below that of k name nothing, the others what they did.
LEMMA EmptiedSeen ==
  ASSUME NEW t, Grounded(t), NEW u, Grounded(u), NEW p \in Paths, Lookup(t, p) # Null,
         Emptied(t, u, Lookup(t, p))
  PROVE  \A q \in Paths : Lookup(u, q) = IF IsPrefix(p, q) /\ q # p THEN Null ELSE Lookup(t, q)
<1> DEFINE k == Lookup(t, p)
           A == {q \in Paths : Lookup(u, q) = IF IsPrefix(p, q) /\ q # p THEN Null ELSE Lookup(t, q)}
<1>0. /\ Typed(t) /\ Typed(u) /\ Names \subseteq Strings /\ p \in Seq(Strings) /\ Len(p) \in Nat
      /\ \A x \in Paths : x \in Seq(Strings) /\ Len(x) \in Nat
  BY PathIs DEF Grounded, Strings
<1>1. << >> \in A
  <2>1. IsPrefix(p, << >>) => p = << >>
    <3> SUFFICES ASSUME IsPrefix(p, << >>) PROVE p = << >> OBVIOUS
    <3>1. << >> \in Seq(Strings) /\ Len(<< >>) = 0 OBVIOUS
    <3>2. Len(p) <= Len(<< >>) BY <1>0, <3>1, PrefixIs
    <3> QED BY <1>0, <3>1, <3>2
  <2> QED BY <2>1, LookupRoot, NoPath
<1>2. ASSUME NEW q \in Paths, NEW n \in Names, q \in A, Append(q, n) \in Paths
      PROVE  Append(q, n) \in A
  <2> DEFINE a == Append(q, n)
  <2>1. IsPrefix(p, a) <=> IsPrefix(p, q) \/ p = a BY <1>0, PrefixAppend
  <2>2. p = a => ~ IsPrefix(p, q)
    <3>1. Len(a) = Len(q) + 1 BY <1>0
    <3> HIDE DEF a
    <3> QED BY <1>0, <3>1, PrefixIs
  <2>3. Lookup(t, a) = IF Lookup(t, q) = Null THEN Null ELSE Find(t, Lookup(t, q), n)
    BY <1>2, LookupAppend
  <2>4. Lookup(u, a) = IF Lookup(u, q) = Null THEN Null ELSE Find(u, Lookup(u, q), n)
    BY <1>2, LookupAppend
  <2>5. a \in Paths BY <1>2
  <2> HIDE DEF a
  <2>6. CASE IsPrefix(p, q) /\ q # p BY <1>2, <2>1, <2>2, <2>4, <2>5, <2>6 DEF a
  <2>7. CASE q = p
    BY <1>0, <1>2, <2>4, <2>5, <2>7, FindNone, PrefixAppend DEF Emptied, Range, a
  <2>8. CASE ~ IsPrefix(p, q)
    <3>1. Lookup(u, q) = Lookup(t, q) BY <1>2, <2>8
    <3>2. ~ (IsPrefix(p, a) /\ a # p) BY <2>1, <2>8
    <3>3. CASE Lookup(t, q) = Null BY <2>3, <2>4, <2>5, <3>1, <3>2, <3>3 DEF a
    <3>4. CASE Lookup(t, q) # Null
      <4> DEFINE j == Lookup(t, q)
      <4>1. j \in DOMAIN t /\ j \in DOMAIN u BY <3>1, <3>4, LookupIn
      <4>2. j # k BY <1>0, <2>8, <3>4, OnePath, PrefixAppend DEF Strings
      <4> HIDE DEF j
      <4>3. u[j].children = t[j].children BY <4>1, <4>2 DEF Emptied
      <4>4. \A c \in Range(t[j].children) : u[c].name = t[c].name
        BY <1>0, <4>1, <4>3, ChildrenIn DEF Emptied
      <4>5. Find(u, j, n) = Find(t, j, n) BY <1>0, <4>1, <4>3, <4>4, FindSame
      <4>6. Lookup(u, a) = Lookup(t, a) BY <2>3, <2>4, <3>1, <3>4, <4>5 DEF j
      <4> QED BY <2>5, <3>2, <4>6 DEF a
    <3> QED BY <3>3, <3>4
  <2>9. IsPrefix(p, p) BY <1>0, PrefixAppend DEF Strings
  <2> QED BY <2>6, <2>7, <2>8
<1>3. Paths \subseteq A
  <2> HIDE DEF A
  <2> QED BY <1>1, <1>2, PathsInduct
<1> QED BY <1>3

\* Detaching a key takes it out of its list, and nothing else.
LEMMA DetachUnhooks ==
  ASSUME NEW t, NEW R, Forest(t, R), NEW k \in DOMAIN t, k \notin R
  PROVE  Unhooked(t, DetachChild(t, t[k].parent, k), k)
<1> DEFINE u == DetachChild(t, t[k].parent, k)
           p == t[k].parent
           at == Place(t[p].children, k)
           s == RemoveAt(t[p].children, at)
           v == SetChildren(t, p, s)
<1>1. p \in DOMAIN t /\ k \in Range(t[p].children) /\ t[p].children \in Seq(DOMAIN t)
  BY HasParent, ChildrenIn DEF Forest
<1>2. at \in 1..Len(t[p].children) /\ t[p].children[at] = k /\ at # 0
  BY <1>1, PlaceSound
<1>3. s \in Seq(DOMAIN t) BY <1>1, <1>2, RemoveAtSound DEF Forest, Linked
<1>4. u = SetParent(v, k, Null) BY <1>2 DEF DetachChild, SetParent, SetChildren
<1>s. s = RemoveAt(t[p].children, at) OBVIOUS
<1> HIDE DEF at, s, u
<1>5. /\ Typed(v) /\ DOMAIN v = DOMAIN t
      /\ \A j \in DOMAIN t : /\ v[j].children = IF j = p THEN s ELSE t[j].children
                             /\ v[j].name = t[j].name /\ v[j].val = t[j].val
  <2>1. ChildrenSetIn(t, v, p, s) BY <1>1, <1>3, ChildrenSet DEF Forest
  <2> QED BY <2>1 DEF ChildrenSetIn
<1> HIDE DEF v
<1>6. /\ DOMAIN u = DOMAIN v
      /\ \A j \in DOMAIN v : /\ u[j].children = v[j].children /\ u[j].name = v[j].name
                             /\ u[j].val = v[j].val
  <2>1. Typed(v) /\ k \in DOMAIN v /\ Null \in DOMAIN v \cup {Null} BY <1>5
  <2>2. ParentSetIn(v, u, k, Null) BY <1>4, <2>1, ParentSet
  <2> QED BY <2>2 DEF ParentSetIn
<1>p. p = t[k].parent OBVIOUS
<1> HIDE DEF p
<1>7. /\ DOMAIN u = DOMAIN t
      /\ \A j \in DOMAIN t : /\ u[j].name = t[j].name /\ u[j].val = t[j].val
                             /\ u[j].children = IF j = p THEN s ELSE t[j].children
  BY <1>5, <1>6
<1>8. \A j \in DOMAIN t : k \in Range(t[j].children) <=> j = p
  BY <1>1, <1>p, OneParent DEF Forest
<1>9. Dropped(t, u, p, at, k)
  BY <1>s, <1>1, <1>2, <1>7, ChildrenIn DEF Forest, Dropped
<1>10. \A j \in DOMAIN u : IF k \in Range(t[j].children) THEN \E i : Dropped(t, u, j, i, k)
                           ELSE u[j].children = t[j].children
  BY <1>7, <1>8, <1>9, Zenon
<1>11. DOMAIN u \subseteq DOMAIN t /\ DOMAIN t \ DOMAIN u = {} BY <1>7
<1>12. \A j \in DOMAIN u : u[j].name = t[j].name /\ u[j].val = t[j].val BY <1>7
<1> QED BY <1>10, <1>11, <1>12, Zenon DEF Unhooked, u

\* As does freeing it after that.
LEMMA FreeUnhooks ==
  ASSUME NEW t, NEW R, Forest(t, R), NEW k \in DOMAIN t, k \notin R
  PROVE  Unhooked(t, Free(DetachChild(t, t[k].parent, k), {k}), k)
<1> DEFINE v == DetachChild(t, t[k].parent, k)
           u == Free(v, {k})
           X == Freed(v, {k})
<1>1. DetachedIn(t, v, R, k) /\ Unhooked(t, v, k) BY Detached, DetachUnhooks
<1> HIDE DEF v
<1>2. /\ Forest(v, R \cup {k}) /\ DOMAIN v = DOMAIN t
      /\ \A j \in DOMAIN t : v[j].parent = IF j = k THEN Null ELSE t[j].parent
  BY <1>1 DEF DetachedIn
<1>3. FreedIn(v, u, R \cup {k}, {k}) BY <1>2, FreedRoots
<1> HIDE DEF u
<1>4. Typed(u) /\ DOMAIN u = DOMAIN v \ X /\ \A j \in DOMAIN u : u[j] = v[j]
  BY <1>3 DEF FreedIn, Forest
<1>5. \A c \in X \ {k} : v[c].parent \in X BY <1>2, FreedSound DEF Forest
<1>x. X \in SUBSET DOMAIN v /\ k \in X BY <1>2, FreedSound DEF Forest
<1> HIDE DEF X
<1>6. \A j \in DOMAIN t \ DOMAIN u : j # k => t[j].parent \notin DOMAIN u
  BY <1>2, <1>4, <1>5
<1>7. DOMAIN u \subseteq DOMAIN t BY <1>2, <1>4
<1>8. ASSUME NEW j \in DOMAIN u
      PROVE  /\ u[j].name = t[j].name /\ u[j].val = t[j].val
             /\ IF k \in Range(t[j].children) THEN \E at : Dropped(t, u, j, at, k)
                ELSE u[j].children = t[j].children
  <2>1. u[j] = v[j] /\ j \in DOMAIN v BY <1>4
  <2>2. u[j].name = t[j].name /\ u[j].val = t[j].val BY <1>1, <2>1 DEF Unhooked
  <2>3. CASE k \notin Range(t[j].children) BY <1>1, <2>1, <2>2, <2>3 DEF Unhooked
  <2>4. CASE k \in Range(t[j].children)
    <3>1. PICK at : Dropped(t, v, j, at, k) BY <1>1, <2>1, <2>4 DEF Unhooked
    <3> DEFINE s == t[j].children
    <3>2. at \in 1..Len(s) /\ s[at] = k /\ u[j].children = RemoveAt(s, at)
      BY <2>1, <3>1 DEF Dropped
    <3>3. s \in Seq(DOMAIN t) /\ IsInjective(s)
      BY <1>7, ChildrenIn DEF Linked, Forest
    <3> HIDE DEF s
    <3>4. Range(u[j].children) = Range(s) \ {k} BY <3>2, <3>3, RemoveAtSound
    <3>5. Range(u[j].children) \subseteq DOMAIN u BY <1>4, ChildrenIn
    <3>6. \A c \in Range(s) \ {k} : u[c].name = t[c].name
      BY <1>1, <1>4, <3>4, <3>5 DEF Unhooked
    <3>7. Dropped(t, u, j, at, k) BY <3>2, <3>6 DEF Dropped, s
    <3> QED BY <2>2, <2>4, <3>7
  <2> QED BY <2>3, <2>4
<1> QED BY <1>6, <1>7, <1>8, Zenon DEF Unhooked, u, v

\* Freeing the children of a key leaves it without any, and nothing else.
LEMMA FreeChildrenEmpties ==
  ASSUME NEW t, NEW R, Forest(t, R), NEW k \in DOMAIN t
  PROVE  Emptied(t, FreeChildren(t, k), k)
<1> DEFINE u == FreeChildren(t, k)
           X == Freed(t, Range(t[k].children))
<1>1. u = [j \in DOMAIN t \ X |-> IF j = k THEN [t[k] EXCEPT !.children = << >>] ELSE t[j]]
  BY DEF FreeChildren, Free, Freed
<1>2. k \in DOMAIN u BY ChildrenFreed
<1> HIDE DEF X, u
<1>3. DOMAIN u = DOMAIN t \ X BY <1>1
<1>4. ASSUME NEW j \in DOMAIN u, j # k PROVE u[j] = t[j] BY <1>1, <1>3, <1>4
<1>5. u[k].children = << >> /\ u[k].name = t[k].name /\ u[k].val = t[k].val
  <2>1. u[k] = [t[k] EXCEPT !.children = << >>] /\ t[k] \in Rec(DOMAIN t)
    BY <1>1, <1>2, <1>3 DEF Forest, Typed
  <2> DEFINE r == t[k]
  <2>2. /\ u[k] = [r EXCEPT !.children = << >>] /\ r \in Rec(DOMAIN t)
        /\ r.name = t[k].name /\ r.val = t[k].val
    BY <2>1
  <2> HIDE DEF r
  <2> QED BY <2>2 DEF Rec
<1> QED BY <1>2, <1>3, <1>4, <1>5 DEF Emptied, u

\* A tree that differs in values or paths only.
LEMMA ShapeSeen ==
  ASSUME NEW t, Grounded(t), NEW u, Typed(u), DOMAIN u = DOMAIN t,
         \A j \in DOMAIN t : u[j].children = t[j].children /\ u[j].name = t[j].name
  PROVE  \A q \in Paths : Lookup(u, q) = Lookup(t, q)
<1>1. \A j \in DOMAIN t : \A n : Find(u, j, n) = Find(t, j, n)
  BY ChildrenIn, FindSame DEF Grounded
<1>2. \A q \in Paths : Lookup(t, q) # Null => Lookup(t, q) \in DOMAIN t BY LookupIn
<1> DEFINE S == Paths \cup {Append(q, n) : q \in Paths, n \in Names}
<1>3. \A q \in Paths, n \in Names : Append(q, n) \in S => q \in S OBVIOUS
<1>4. \A q \in Paths : q \in S OBVIOUS
<1> HIDE DEF S
<1>5. \A q \in Paths : q \in S => Lookup(u, q) = Lookup(t, q)
  BY <1>1, <1>2, <1>3, LookupAgrees
<1> QED BY <1>4, <1>5

\* Names do not come twice in such a tree, if they did not.
LEMMA NarrowerDistinct ==
  ASSUME NEW t, Distinct(t), NEW u, Typed(u), Narrower(t, u)
  PROVE  Distinct(u)
BY ChildrenIn DEF Distinct, Narrower

\* A turn of the loop of reg_mkpath makes a key only of a name it does not find.
LEMMA MkStepDistinct ==
  ASSUME NEW t, NEW R, NEW m, Walk(t, R, m), NEW n \in Strings, Ids \ DOMAIN m.tree # {},
         NEW w, w = MkStep(m, n), Typed(w.tree), Distinct(m.tree)
  PROVE  Distinct(w.tree)
<1> DEFINE c == Find(m.tree, m.at, n)
           k == Fresh(m.tree)
           built == Append(m.built, n)
<1>1. /\ Forest(m.tree, R) /\ Typed(m.tree) /\ m.at \in DOMAIN m.tree /\ built \in Seq(Strings)
  BY DEF Walk, Forest, Below
<1>2. CASE n = Empty BY <1>2 DEF MkStep
<1>3. CASE n # Empty /\ c # Null BY <1>3 DEF MkStep, Walk
<1>4. CASE n # Empty /\ c = Null
  <2> DEFINE u == AddChild(With(m.tree, k, NewKey(n, built, Null)), m.at, k)
  <2>1. w = [tree |-> u, at |-> k, built |-> built] BY <1>4 DEF MkStep
  <2>2. w.tree = u BY <2>1
  <2>3. k \in Ids \ DOMAIN m.tree BY FreshIsFree
  <2> HIDE DEF k, built
  <2>4. NewChildIn(m.tree, u, k, m.at, n) BY <1>1, <2>3, NewChildMade
  <2> HIDE DEF u
  <2> QED BY <1>1, <1>4, <2>2, <2>4, NewChildDistinct
<1> QED BY <1>2, <1>3, <1>4

\* Nor does reg_mkpath.
LEMMA MkPathDistinct ==
  ASSUME NEW t, NEW R, Root \in R, Forest(t, R), Room(t), NEW path \in Seq(Strings), Distinct(t)
  PROVE  Distinct(MkPath(t, path).tree)
<1> DEFINE n == Len(Truncated(path))
           p == Truncated(path)
<1>1. PICK f : Walks(t, R, path, f) BY MkPathWalks
<1>2. n \in Nat /\ \A i \in 1..n : p[i] \in Strings BY TruncatedSound
<1>3. /\ f[0].tree = t /\ MkPath(t, path) = f[n]
      /\ \A i \in 0..n : Walk(t, R, f[i])
      /\ \A i \in 0..(n - 1) : f[i + 1] = MkStep(f[i], p[i + 1]) /\ Ids \ DOMAIN f[i].tree # {}
  BY <1>1 DEF Walks
<1> HIDE DEF n, p
<1> DEFINE A == {i \in 0..n : Distinct(f[i].tree)}
<1>4. 0 \in A BY <1>2, <1>3
<1>5. ASSUME NEW i \in 0..(n - 1), i \in A PROVE i + 1 \in A
  <2>1. i + 1 \in 1..n /\ i + 1 \in 0..n /\ i \in 0..n BY <1>2
  <2>2. /\ Walk(t, R, f[i]) /\ f[i + 1] = MkStep(f[i], p[i + 1]) /\ Ids \ DOMAIN f[i].tree # {}
        /\ p[i + 1] \in Strings /\ Distinct(f[i].tree)
    BY <1>2, <1>3, <1>5, <2>1
  <2>3. Typed(f[i + 1].tree) BY <1>3, <2>1 DEF Walk, Forest
  <2>4. Distinct(f[i + 1].tree) BY <2>2, <2>3, MkStepDistinct
  <2> QED BY <2>1, <2>4
<1> HIDE DEF A
<1>6. \A i \in 0..n : i \in A BY <1>2, <1>4, <1>5, Counted
<1>7. n \in A BY <1>2, <1>6
<1> QED BY <1>3, <1>7 DEF A

\* What is seen of a tree is the values of the keys that paths name.
LEMMA ViewAt ==
  ASSUME NEW t, Grounded(t), NEW p \in Paths
  PROVE  /\ Lookup(t, p) = Null => View(t)[p] = Absent
         /\ Lookup(t, p) # Null => View(t)[p] = t[Lookup(t, p)].val /\ View(t)[p] # Absent
BY LookupIn, AbsentAssumption DEF Grounded, Typed, Rec, View

\* A tree without a key has nothing new.
LEMMA UnhookedNarrower ==
  ASSUME NEW t, Typed(t), Linked(t), NEW u, NEW k, Unhooked(t, u, k)
  PROVE  Narrower(t, u)
<1>1. /\ DOMAIN u \subseteq DOMAIN t /\ \A j \in DOMAIN u : u[j].name = t[j].name
  BY DEF Unhooked
<1>2. ASSUME NEW j \in DOMAIN u PROVE Range(u[j].children) \subseteq Range(t[j].children)
  <2>1. CASE k \in Range(t[j].children)
    BY <1>1, <2>1, ChildrenIn, RemoveAtSound DEF Unhooked, Dropped, Linked
  <2>2. CASE k \notin Range(t[j].children) BY <2>2 DEF Unhooked
  <2> QED BY <2>1, <2>2
<1> QED BY <1>1, <1>2 DEF Narrower

\* Nor has a tree without the children of one.
LEMMA EmptiedNarrower ==
  ASSUME NEW t, NEW u, NEW k, Emptied(t, u, k)
  PROVE  Narrower(t, u)
BY DEF Range, Emptied, Narrower

\* A child that is freed is unhooked.
LEMMA ChildUnhooks ==
  ASSUME NEW t, NEW R, Forest(t, R), NEW k \in DOMAIN t, NEW c \in Range(t[k].children)
  PROVE  Unhooked(t, Free(DetachChild(t, k, c), {c}), c)
BY OneParent, FreeUnhooks DEF Forest

\* A turn of reg_unmount, and all of them.
LEMMA UnmountStepDistinct ==
  ASSUME NEW t, NEW R, Forest(t, R), Distinct(t), NEW dst \in DOMAIN t, NEW n
  PROVE  Distinct(UnmountStep(t, dst, n))
<1> DEFINE c == Find(t, dst, n)
<1>1. CASE c = Null BY <1>1 DEF UnmountStep
<1>2. CASE c # Null
  <2>1. c \in Range(t[dst].children) /\ Typed(t) /\ Linked(t)
    BY <1>2, FindSound DEF Forest
  <2>2. UnmountStep(t, dst, n) = Free(DetachChild(t, dst, c), {c})
    BY <1>2 DEF UnmountStep
  <2>3. Typed(UnmountStep(t, dst, n)) BY UnmountStepSound DEF Forest
  <2> HIDE DEF c
  <2>4. Unhooked(t, UnmountStep(t, dst, n), c) BY <2>1, <2>2, ChildUnhooks
  <2>5. Narrower(t, UnmountStep(t, dst, n)) BY <2>1, <2>4, UnhookedNarrower
  <2> QED BY <2>3, <2>5, NarrowerDistinct
<1> QED BY <1>1, <1>2

\* All turns of reg_unmount leave names that do not come twice.
LEMMA UnmountedDistinct ==
  ASSUME NEW t, NEW R, Forest(t, R), Distinct(t), NEW dst \in DOMAIN t, NEW list, Len(list) \in Nat
  PROVE  Distinct(Unmounted(t, dst, list))
<1> DEFINE N == Len(list)
<1>1. PICK g : Unmounting(t, dst, list, g) BY UnmountedSteps
<1>2. /\ g[0] = t /\ Unmounted(t, dst, list) = g[N]
      /\ \A i \in 0..(N - 1) : g[i + 1] = UnmountStep(g[i], dst, t[list[i + 1]].name)
  BY <1>1 DEF Unmounting
<1> DEFINE A == {i \in 0..N : Forest(g[i], R) /\ dst \in DOMAIN g[i] /\ Distinct(g[i])}
<1>3. 0 \in A BY <1>2
<1>4. ASSUME NEW i \in 0..(N - 1), i \in A PROVE i + 1 \in A
  <2> DEFINE j == i + 1
  <2>1. j \in 0..N OBVIOUS
  <2>2. g[j] = UnmountStep(g[i], dst, t[list[j]].name) BY <1>2
  <2> HIDE DEF j
  <2>3. Forest(g[j], R) /\ dst \in DOMAIN g[j] /\ Distinct(g[j])
    BY <1>4, <2>2, UnmountStepSound, UnmountStepDistinct
  <2> QED BY <2>1, <2>3 DEF j
<1> HIDE DEF A
<1>5. \A i \in 0..N : i \in A BY <1>3, <1>4, Counted
<1> QED BY <1>2, <1>5 DEF A

\* The same children under the same names.
LEMMA SameDistinct ==
  ASSUME NEW t, Distinct(t), NEW u, Typed(u), DOMAIN u = DOMAIN t,
         \A j \in DOMAIN t : u[j].children = t[j].children /\ u[j].name = t[j].name
  PROVE  Distinct(u)
BY NarrowerDistinct DEF Narrower

\* A key of another name than its brothers'.
LEMMA AttachedDistinct ==
  ASSUME NEW t, Typed(t), Distinct(t), NEW u, Typed(u), NEW R, NEW k, NEW P \in DOMAIN t, AttachedIn(t, u, R, k, P),
         t[k].name \in Names => Find(t, P, t[k].name) = Null
  PROVE  Distinct(u)
<1>1. /\ DOMAIN u = DOMAIN t
      /\ \A j \in DOMAIN t : /\ u[j].name = t[j].name
                             /\ Range(u[j].children) = IF j = P THEN Range(t[j].children) \cup {k}
                                                       ELSE Range(t[j].children)
  BY DEF AttachedIn
<1>2. t[k].name \in Names => \A c \in Range(t[P].children) : t[c].name # t[k].name
  BY FindSound, NullIsNone
<1> SUFFICES ASSUME NEW j \in DOMAIN u, NEW c \in Range(u[j].children), NEW d \in Range(u[j].children),
                    u[c].name = u[d].name, u[c].name \in Names
             PROVE  c = d
  BY DEF Distinct
<1>3. c \in DOMAIN u /\ d \in DOMAIN u BY ChildrenIn
<1>4. t[c].name = t[d].name /\ t[c].name \in Names BY <1>1, <1>3
<1>5. CASE c \in Range(t[j].children) /\ d \in Range(t[j].children)
  BY <1>1, <1>4, <1>5 DEF Distinct
<1>6. CASE c \notin Range(t[j].children) \/ d \notin Range(t[j].children)
  <2>1. j = P BY <1>1, <1>6
  <2>2. c = k \/ c \in Range(t[P].children) BY <1>1, <2>1
  <2>3. d = k \/ d \in Range(t[P].children) BY <1>1, <2>1
  <2>4. c = k \/ d = k BY <1>6, <2>1, <2>2, <2>3
  <2>5. c # k => FALSE BY <1>2, <1>4, <2>2, <2>4
  <2>6. d # k => FALSE BY <1>2, <1>4, <2>3, <2>4
  <2> QED BY <2>5, <2>6
<1> QED BY <1>5, <1>6

-----------------------------------------------------------------------------
(* Names that do not come twice *)

\* At first the names are those of Top, each once.
LEMMA SeenAtFirst == Init => Seen
<1> SUFFICES ASSUME Init PROVE Seen OBVIOUS
<1> DEFINE n == Len(Top)
           kids == [i \in 1..n |-> n + 2 - i]
<1>0. n \in Nat /\ Top \in Seq(Names) /\ IsInjective(Top) /\ DOMAIN Top = 1..n
  BY NameAssumption
<1>1. /\ DOMAIN key = 1..(n + 1) /\ key[Root].children = kids
      /\ \A k \in 2..(n + 1) : key[k].name = Top[k - 1] /\ key[k].children = << >>
  BY <1>0 DEF Init, Root, NewKey
<1> HIDE DEF n
<1>2. Range(kids) \subseteq 2..(n + 1) BY <1>0 DEF Range
<1>3. Range(<< >>) = {} BY DEF Range
<1>4. Distinct(key)
  <2> SUFFICES ASSUME NEW k \in DOMAIN key, NEW c \in Range(key[k].children), NEW d \in Range(key[k].children),
                      key[c].name = key[d].name
               PROVE  c = d
    BY DEF Distinct
  <2>1. k = Root BY <1>0, <1>1, <1>3 DEF Root
  <2>2. c \in 2..(n + 1) /\ d \in 2..(n + 1) BY <1>1, <1>2, <2>1
  <2>3. Top[c - 1] = Top[d - 1] /\ c - 1 \in 1..n /\ d - 1 \in 1..n
    BY <1>0, <1>1, <2>2
  <2>4. c - 1 = d - 1 BY <1>0, <2>3 DEF IsInjective
  <2> QED BY <1>0, <2>2, <2>4
<1> QED BY <1>4 DEF Init, Seen

\* reg_set.
LEMMA RegSetDistinct ==
  ASSUME IInv, IInv', RegSet, Distinct(key)
  PROVE  Distinct(key')
<1> DEFINE m == MkPath(key, call.p)
<1>1. call \in Calls /\ call.op = "set" BY DEF RegSet, Called, IInv
<1>2. call.p \in Seq(Strings) /\ call.v \in Values \cup {Nil} /\ Forest(key, {Root}) /\ Room(key)
  BY <1>1, CallCarries, Zenon DEF RegSet, IInv
<1>3. Walk(key, {Root}, m) /\ Distinct(m.tree) BY <1>2, MkPathSound, MkPathDistinct
<1>4. key' = SetVal(m.tree, m.at, call.v) BY DEF RegSet, Returns, SetVal
<1> HIDE DEF m
<1>5. Typed(m.tree) /\ m.at \in DOMAIN m.tree BY <1>3 DEF Walk, Below, Forest
<1>6. ValSetIn(m.tree, key', m.at, call.v) BY <1>2, <1>4, <1>5, ValSet
<1> QED BY <1>3, <1>6, SameDistinct DEF ValSetIn

\* reg_delete.
LEMMA RegDeleteDistinct ==
  ASSUME IInv, IInv', RegDelete, Distinct(key)
  PROVE  Distinct(key')
<1> DEFINE k == Lookup(key, call.p)
<1>1. call \in Calls /\ call.op = "delete" BY DEF RegDelete, Called, IInv
<1>2. k \in DOMAIN key \cup {Null} /\ k # Root BY <1>1, CallCarries, FoundIn
<1>3. CASE k = Null BY <1>3 DEF RegDelete, Fails, Returns
<1>4. CASE k # Null
  <2>1. key' = Free(DetachChild(key, key[k].parent, k), {k})
    BY <1>4 DEF RegDelete, Returns
  <2> HIDE DEF k
  <2>2. k \in DOMAIN key /\ k \notin {Root} /\ Forest(key, {Root}) /\ Typed(key) /\ Linked(key) /\ Typed(key')
    BY <1>2, <1>4 DEF IInv, Forest
  <2>3. Unhooked(key, key', k) BY <2>1, <2>2, FreeUnhooks
  <2> QED BY <2>2, <2>3, UnhookedNarrower, NarrowerDistinct
<1> QED BY <1>3, <1>4

\* reg_unmount without a source, and with one.
LEMMA RegUnmountAllDistinct ==
  ASSUME IInv, IInv', RegUnmountAll, Distinct(key)
  PROVE  Distinct(key')
<1> DEFINE dst == Lookup(key, call.d)
<1>1. call \in Calls /\ call.op = "unmount all" BY DEF RegUnmountAll, Called, IInv
<1>2. dst \in DOMAIN key \cup {Null} BY <1>1, CallCarries, FoundIn
<1>3. CASE dst = Null
  <2>1. key' = key BY <1>3 DEF RegUnmountAll, Fails, Returns
  <2> QED BY <2>1
<1>4. CASE dst # Null
  <2>1. key' = FreeChildren(key, dst) BY <1>4 DEF RegUnmountAll, Returns
  <2> HIDE DEF dst
  <2>2. dst \in DOMAIN key /\ Forest(key, {Root}) /\ Typed(key')
    BY <1>2, <1>4 DEF IInv, Forest
  <2>3. Emptied(key, key', dst) BY <2>1, <2>2, FreeChildrenEmpties
  <2> QED BY <2>2, <2>3, EmptiedNarrower, NarrowerDistinct
<1> QED BY <1>3, <1>4

\* reg_unmount.
LEMMA RegUnmountDistinct ==
  ASSUME IInv, IInv', RegUnmount, Distinct(key)
  PROVE  Distinct(key')
<1> DEFINE src == Lookup(key, call.s)
           dst == Lookup(key, call.d)
           list == IF src = dst /\ key[src].children # << >> THEN <<Head(key[src].children)>>
                   ELSE key[src].children
<1>1. call \in Calls /\ call.op = "unmount" BY DEF RegUnmount, Called, IInv
<1>2. src \in DOMAIN key \cup {Null} /\ dst \in DOMAIN key \cup {Null}
  BY <1>1, CallCarries, FoundIn
<1>3. CASE src = Null \/ dst = Null BY <1>3 DEF RegUnmount, Fails, Returns
<1>4. CASE ~ (src = Null \/ dst = Null)
  <2>1. key' = Unmounted(key, dst, list) BY <1>4 DEF RegUnmount, Returns
  <2> HIDE DEF src, dst
  <2>2. src \in DOMAIN key /\ dst \in DOMAIN key /\ Forest(key, {Root}) /\ Len(key[src].children) \in Nat
    BY <1>2, <1>4, ChildrenIn DEF IInv, Forest
  <2>3. Len(list) \in Nat BY <2>2
  <2> HIDE DEF list
  <2> QED BY <2>1, <2>2, <2>3, UnmountedDistinct
<1> QED BY <1>3, <1>4

\* reg_move, if it hides no key.
LEMMA RegMoveDistinct ==
  ASSUME IInv, IInv', RegMove, ~ shadowed', ~ shadowed => Distinct(key)
  PROVE  Distinct(key')
<1> DEFINE s == call.s
           d == call.d
           k == Lookup(key, s)
           up == IF d = << >> THEN << >> ELSE Front(d)
           name == IF d = << >> THEN Empty ELSE Last(d)
           t == DetachChild(key, key[k].parent, k)
           m == MkPath(t, up)
           n == SetName(m.tree, k, name)
           v == AddChild(n, m.at, k)
<1>1. call \in Calls /\ call.op = "move" BY DEF RegMove, Called, IInv
<1>2. s \in Seq(Strings) /\ d \in Seq(Strings) /\ (s # << >> => s[1] # Empty)
  BY <1>1, CallCarries
<1>3. up \in Seq(Strings) /\ name \in Strings BY <1>2, Apart
<1>4. CASE s = << >> \/ IsPrefix(s, d) \/ k = Null
  <2>1. key' = key /\ shadowed' = shadowed BY <1>4 DEF RegMove, Fails, Returns
  <2> QED BY <2>1
<1>5. CASE ~ (s = << >> \/ IsPrefix(s, d) \/ k = Null)
  <2>1. /\ key' = UpdatePaths(v, k, up) /\ Room(key)
        /\ shadowed' = (shadowed \/ (name # Empty /\ Find(m.tree, m.at, name) # Null))
    BY <1>5, Zenon DEF RegMove, Returns, SetName
  <2>2. k \in DOMAIN key /\ k # Root /\ Forest(key, {Root})
    BY <1>2, <1>5, FoundIn DEF IInv
  <2>3. Distinct(key) /\ (name # Empty => Find(m.tree, m.at, name) = Null) BY <2>1
  <2>t. t = DetachChild(key, key[k].parent, k) /\ m = MkPath(t, up) OBVIOUS
  <2> HIDE DEF k, up, name
  <2>4. MovedIn(key, k, up, name, t, m, n, v) BY <1>3, <2>1, <2>2, Moved
  <2> HIDE DEF t, m, n, v
  <2>5. Typed(t) /\ Forest(t, {Root, k}) /\ Room(t) /\ k \notin {Root}
    BY <2>2, <2>4 DEF MovedIn, Forest
  <2>6. Distinct(t)
    BY <2>t, <2>2, <2>3, <2>5, DetachUnhooks, UnhookedNarrower, NarrowerDistinct DEF Forest
  <2>7. Distinct(m.tree) BY <1>3, <2>5, <2>6, <2>t, MkPathDistinct
  <2>8. /\ Typed(m.tree) /\ Typed(n) /\ Linked(m.tree) /\ m.at \in DOMAIN m.tree /\ k \in DOMAIN m.tree
        /\ m.tree[k].parent = Null
    BY <2>4 DEF MovedIn, Walk, Forest, Below
  <2>9. /\ DOMAIN n = DOMAIN m.tree /\ n[k].name = name
        /\ \A j \in DOMAIN m.tree : n[j].children = m.tree[j].children /\ (j # k => n[j].name = m.tree[j].name)
    BY <2>4, <2>8 DEF MovedIn, NameSetIn
  <2>10. ASSUME NEW j \in DOMAIN m.tree, NEW c \in Range(m.tree[j].children)
         PROVE  n[c].name = m.tree[c].name
    BY <2>8, <2>9, OneParent
  <2>11. Distinct(n) BY <2>7, <2>9, <2>10 DEF Distinct
  <2>12. name \in Names => Find(n, m.at, name) = Null
    BY <2>3, <2>8, <2>9, <2>10, FindSame, NameAssumption
  <2>13. AttachedIn(n, v, {Root}, k, m.at) /\ Typed(v) /\ Forest(v, {Root}) /\ k \in DOMAIN v
    BY <2>4, <2>8, <2>9 DEF MovedIn, AttachedIn, Forest
  <2>14. Distinct(v) BY <2>8, <2>9, <2>11, <2>12, <2>13, AttachedDistinct
  <2>15. PICK path : HandedDown(v, k, up, path)
    BY <1>3, <2>13, PathsSteps DEF Forest
  <2>16. /\ DOMAIN key' = DOMAIN v
         /\ \A j \in DOMAIN v : key'[j].children = v[j].children /\ key'[j].name = v[j].name
    BY <2>1, <2>15 DEF HandedDown
  <2>17. Typed(key') BY DEF IInv, Forest
  <2> QED BY <2>14, <2>16, <2>17, SameDistinct
<1> QED BY <1>4, <1>5

\* A mount starts.
LEMMA BeginDistinct ==
  ASSUME NEW t, Forest(t, {Root}), Distinct(t), NEW s, NEW d \in Seq(Strings), NEW before, Begin(t, s, d, before)
  PROVE  Distinct(key')
BY MkPathDistinct DEF Begin, Returns

\* reg_mount and reg_bind.
LEMMA RegMountDistinct ==
  ASSUME IInv, RegMount, Distinct(key)
  PROVE  Distinct(key')
<1>1. call \in Calls /\ call.op = "mount" BY DEF RegMount, Called, IInv
<1>2. call.d \in Seq(Strings) /\ Forest(key, {Root}) /\ Begin(key, call.s, call.d, call.before)
  BY <1>1, CallCarries DEF RegMount, IInv
<1> QED BY <1>2, BeginDistinct

\* reg_bind.
LEMMA RegBindDistinct ==
  ASSUME IInv, RegBind, Distinct(key)
  PROVE  Distinct(key')
<1> DEFINE src == Lookup(key, call.s)
           m == MkPath(key, call.d)
           u == FreeChildren(m.tree, m.at)
           val == IF src \in DOMAIN u THEN u[src].val ELSE Nil
           v == SetVal(u, m.at, val)
<1>1. call \in Calls /\ call.op = "bind" /\ Forest(key, {Root})
  BY DEF RegBind, Called, IInv
<1>2. call.d \in Seq(Strings) BY <1>1, CallCarries
<1>3. CASE src = Null BY <1>3 DEF RegBind, Fails, Returns
<1>4. CASE src # Null
  <2>1. Room(key) /\ Begin(v, call.s, call.d, TRUE) /\ Root \in {Root}
    BY <1>4 DEF RegBind, SetVal
  <2>2. Walk(key, {Root}, m) /\ Distinct(m.tree)
    BY <1>1, <1>2, <2>1, MkPathSound, MkPathDistinct
  <2> HIDE DEF m, src
  <2>3. Forest(m.tree, {Root}) /\ m.at \in DOMAIN m.tree BY <2>2 DEF Walk, Below
  <2>4. Forest(u, {Root}) /\ Typed(u) /\ m.at \in DOMAIN u
    BY <2>3, ChildrenFreed DEF Forest
  <2>5. Emptied(m.tree, u, m.at) BY <2>3, FreeChildrenEmpties
  <2> HIDE DEF u
  <2>6. Distinct(u) BY <2>2, <2>4, <2>5, EmptiedNarrower, NarrowerDistinct
  <2>7. val \in Values \cup {Nil} BY <2>4 DEF Typed, Rec
  <2> HIDE DEF val
  <2>8. ValSetIn(u, v, m.at, val) BY <2>4, <2>7, ValSet
  <2> HIDE DEF v
  <2>9. Forest(v, {Root}) /\ Typed(v) BY <2>4, <2>8, ForestSame DEF ValSetIn
  <2>10. Distinct(v) BY <2>6, <2>8, <2>9, SameDistinct DEF ValSetIn
  <2> QED BY <1>2, <2>1, <2>9, <2>10, BeginDistinct
<1> QED BY <1>3, <1>4

\* A mount comes to a child that the destination has too, or lacks.
LEMMA MountNextDistinct ==
  ASSUME IInv, MountNext, Distinct(key)
  PROVE  Distinct(key')
<1> DEFINE f == Last(frames)
           existing == Find(key, f.dst, key[f.child].name)
<1>1. /\ frames # << >> /\ f.child # Null /\ existing # Null
      /\ key' = SetVal(key, existing, key[f.child].val) \/ key' = key
  BY DEF MountNext, SetVal
<1>2. f.dst \in DOMAIN key /\ f.child \in DOMAIN key /\ Typed(key)
  BY <1>1, LastFrame DEF IInv, Forest
<1> HIDE DEF f
<1>3. existing \in DOMAIN key BY <1>1, <1>2, FindSound
<1>4. key[f.child].val \in Values \cup {Nil} BY <1>2 DEF Typed, Rec
<1> HIDE DEF existing
<1>5. ValSetIn(key, SetVal(key, existing, key[f.child].val), existing, key[f.child].val)
  BY <1>2, <1>3, <1>4, ValSet
<1> QED BY <1>1, <1>5, SameDistinct DEF ValSetIn

\* A mount makes a key only where there is none of its name.
LEMMA MountMirrorDistinct ==
  ASSUME IInv, MountMirror, Distinct(key)
  PROVE  Distinct(key')
<1> DEFINE f == Last(frames)
           c == f.child
           k == Fresh(key)
           name == key[c].name
           new_path == Truncated(Append(f.dst_path, name))
           r == [NewKey(name, new_path, Null) EXCEPT !.val = key[c].val]
           t == With(key, k, r)
           P == f.dst
           u == IF f.before THEN AddChild(t, P, k) ELSE AddChildTail(t, P, k)
<1>1. /\ frames # << >> /\ c # Null /\ Room(key) /\ Room(u) /\ Find(key, P, name) = Null
      /\ key' = MkPath(u, new_path).tree \/ key' = u
  BY DEF MountMirror
<1>2. /\ P \in DOMAIN key /\ c \in DOMAIN key /\ f.dst_path \in Seq(Strings) /\ Forest(key, {Root}) /\ Typed(key)
  BY <1>1, LastFrame DEF IInv, Forest
<1>3. name \in Strings /\ key[c].val \in Values \cup {Nil} BY <1>2 DEF Typed, Rec
<1>4. new_path \in Seq(Strings)
  <2>1. Append(f.dst_path, name) \in Seq(Strings) BY <1>2, <1>3
  <2> QED BY <2>1, TruncatedSound
<1>5. k \in Ids \ DOMAIN key BY <1>1, RoomIsFree, FreshIsFree
<1> HIDE DEF f, c, k, P, name, new_path
<1>6. r \in Rec(DOMAIN key) /\ r.parent = Null /\ r.children = << >> /\ r.name = name
  <2> DEFINE q == NewKey(name, new_path, Null)
  <2>1. q \in Rec(DOMAIN key) BY <1>3, <1>4, NewKeyIn
  <2>2. q.parent = Null /\ q.children = << >> /\ q.name = name BY DEF NewKey
  <2>3. r = [q EXCEPT !.val = key[c].val] OBVIOUS
  <2> HIDE DEF q
  <2> QED BY <1>3, <2>1, <2>2, <2>3 DEF Rec
<1>7. u = AddChild(t, P, k) \/ u = AddChildTail(t, P, k) OBVIOUS
<1>8. AllocatedIn(key, t, {Root}, k, r) BY <1>2, <1>5, <1>6, Allocated
<1> HIDE DEF u
<1>9. MirroredIn(key, u, k, r, P) BY <1>2, <1>5, <1>6, <1>7, Mirrored
<1> HIDE DEF r, t
<1>10. /\ Forest(t, {Root} \cup {k}) /\ DOMAIN t = DOMAIN key \cup {k} /\ t[k] = r /\ k \notin {Root}
       /\ \A j \in DOMAIN key : t[j] = key[j]
  BY <1>2, <1>5, <1>8 DEF AllocatedIn, Forest
<1>11. Range(r.children) = {} BY <1>6 DEF Range
<1>12. Distinct(t) BY <1>2, <1>10, <1>11, ChildrenIn DEF Distinct
<1>13. Below(t, {Root}, P)
  <2> SUFFICES ASSUME NEW S \in SUBSET DOMAIN t, {Root} \subseteq S, Closed(t, S) PROVE P \in S
    BY <1>2, <1>10 DEF Below
  <2> DEFINE T == S \ {k}
  <2>1. T \in SUBSET DOMAIN key /\ {Root} \subseteq T BY <1>10
  <2>2. Closed(key, T) BY <1>2, <1>5, <1>10, <2>1, ChildrenIn DEF Closed
  <2> HIDE DEF T
  <2>3. T = DOMAIN key BY <1>2, <2>1, <2>2 DEF Forest, Rooted
  <2> QED BY <1>2, <2>3 DEF T
<1>14. AttachedIn(t, u, {Root}, k, P) BY <1>7, <1>10, <1>13, Attached
<1>15. Find(t, P, name) = Null
  <2>1. Find(t, P, name) = Find(key, P, name)
    <3>1. Typed(t) /\ P \in DOMAIN t /\ t[P].children = key[P].children
      BY <1>2, <1>10 DEF Forest
    <3>2. \A x \in Range(key[P].children) : t[x].name = key[x].name
      BY <1>2, <1>10, ChildrenIn
    <3> QED BY <1>2, <3>1, <3>2, FindSame
  <2> QED BY <1>1, <2>1
<1>16. Distinct(u) /\ Forest(u, {Root})
  <2>1. Typed(t) /\ Typed(u) /\ P \in DOMAIN t /\ t[k].name = name /\ Forest(u, {Root})
    BY <1>2, <1>6, <1>10, <1>14 DEF Forest, AttachedIn
  <2> QED BY <1>12, <1>14, <1>15, <2>1, AttachedDistinct
<1>17. Root \in {Root} OBVIOUS
<1>18. Distinct(MkPath(u, new_path).tree)
  BY <1>1, <1>4, <1>16, <1>17, MkPathDistinct
<1> QED BY <1>1, <1>16, <1>18

\* A mount that goes on is not over.
LEMMA StillMounting ==
  ASSUME NEW t, NEW D, NEW fs \in Seq(D), fs # << >>
  PROVE  Advance(t, fs) # << >>
BY DEF Advance

\* A call that is over has been seen.
LEMMA HistoryKept == IInv /\ Seen /\ Serve => (frames' = << >> => named' = View(key'))
<1> SUFFICES ASSUME IInv, Serve PROVE frames' = << >> => named' = View(key') OBVIOUS
<1>0. frames \in Seq(Frames(DOMAIN key)) BY DEF IInv
<1>1. \A x : <<x>> # << >> /\ Append(frames, x) # << >> BY <1>0
<1>2. CASE RegSet \/ RegDelete \/ RegUnmount \/ RegUnmountAll \/ RegMove
  BY <1>2, Zenon DEF RegSet, RegDelete, RegUnmount, RegUnmountAll, RegMove, Fails, Returns
<1>3. \A t, s, d, before : Begin(t, s, d, before) => (frames' = << >> => named' = View(key'))
  BY <1>1 DEF Begin, Returns
<1>4. CASE RegMount \/ RegBind BY <1>3, <1>4 DEF RegMount, RegBind, Fails, Returns
<1>5. CASE MountNext
  <2>1. \E t : frames' = Advance(t, frames) /\ frames # << >> BY <1>5 DEF MountNext
  <2> QED BY <1>0, <2>1, StillMounting
<1>6. CASE MountMirror
  <2>1. \E t, x : (frames' = Advance(t, frames) \/ frames' = Append(frames, x)) /\ frames # << >>
    BY <1>6 DEF MountMirror
  <2> QED BY <1>0, <1>1, <2>1, StillMounting
<1>7. CASE MountReturn
  <2>1. CASE Len(frames) = 1 BY <1>7, <2>1 DEF MountReturn
  <2>2. CASE Len(frames) # 1
    <3> DEFINE l == Len(frames)
               fs == Front(frames)
    <3>1. frames' = Advance(key, fs) /\ frames # << >> BY <1>7, <2>2 DEF MountReturn
    <3>2. l \in Nat /\ l # 0 /\ l # 1 BY <1>0, <2>2, <3>1
    <3>3. fs \in Seq(Frames(DOMAIN key)) /\ Len(fs) = l - 1
      <4> HIDE DEF l
      <4>1. l - 1 \in 0..l /\ l - 1 >= 1 BY <3>2
      <4> USE DEF l
      <4> QED BY <1>0, <4>1 DEF Front
    <3> HIDE DEF fs, l
    <3>4. fs # << >> BY <3>2, <3>3
    <3> QED BY <3>1, <3>3, <3>4, StillMounting
  <2> QED BY <2>1, <2>2
<1> QED BY <1>2, <1>4, <1>5, <1>6, <1>7 DEF Serve

\* What is known of the tree and of the history stays so.
LEMMA SeenKept == IInv /\ Seen /\ [Next]_vars => Seen'
<1> SUFFICES ASSUME IInv, Seen, [Next]_vars PROVE Seen' OBVIOUS
<1>0. IInv' BY InvariantKept
<1>1. CASE UNCHANGED vars BY <1>1 DEF Seen, vars, View
<1>2. ASSUME NEW c \in Calls, Ask(c) PROVE Seen' BY <1>2 DEF Ask, Seen
<1>3. CASE Serve
  <2>1. frames' = << >> => named' = View(key') BY <1>3, HistoryKept
  <2>2. CASE RegMove BY <1>0, <2>1, <2>2, RegMoveDistinct DEF Seen
  <2>3. CASE ~ RegMove
    <3>1. shadowed' = shadowed
      BY <1>3, <2>3, Zenon DEF Serve, RegSet, RegDelete, RegUnmount, RegUnmountAll, RegMount, RegBind,
                        MountNext, MountMirror, MountReturn, Fails
    <3>2. Distinct(key) => Distinct(key')
      BY <1>0, <1>3, <2>3, RegSetDistinct, RegDeleteDistinct, RegUnmountDistinct, RegUnmountAllDistinct,
         RegMountDistinct, RegBindDistinct, MountNextDistinct, MountMirrorDistinct DEF MountReturn, Serve
    <3> QED BY <2>1, <3>1, <3>2 DEF Seen
  <2> QED BY <2>2, <2>3
<1> QED BY <1>1, <1>2, <1>3 DEF Next

-----------------------------------------------------------------------------
(* What a call does to what is seen *)

\* v is seen at p, and nil at what was made on the way to it.
SetShows(t, u, p, v) ==
  /\ View(u)[p] = v
  /\ \A q \in Paths \ {p} :
       View(u)[q] = IF IsPrefix(q, p) /\ View(t)[q] = Absent THEN Nil ELSE View(t)[q]

\* A value set at a path is seen there.
LEMMA SetSeen ==
  ASSUME NEW t, Forest(t, {Root}), Room(t), NEW p \in Paths, NEW v \in Values \cup {Nil},
         NEW m, m = MkPath(t, p), NEW u, u = SetVal(m.tree, m.at, v)
  PROVE  SetShows(t, u, p, v)
<1>1. Root \in {Root} /\ Grounded(t) BY ForestGrounded
<1>2. PathMade(t, {Root}, p, m) BY <1>1, MkPathSeen
<1>3. /\ Forest(m.tree, {Root}) /\ Grounded(m.tree) /\ m.at \in DOMAIN m.tree
      /\ m.at = Lookup(m.tree, p) /\ m.at # Null /\ SeenAfter(t, p, m.tree) /\ Grew(t, m.tree)
      /\ \A j \in DOMAIN m.tree \ DOMAIN t : m.tree[j].val = Nil
  BY <1>1, <1>2, ForestGrounded DEF PathMade, Walk, Below
<1>4. ValSetIn(m.tree, u, m.at, v) BY <1>3, ValSet DEF Grounded
<1>5. \A q \in Paths : Lookup(u, q) = Lookup(m.tree, q)
  BY <1>3, <1>4, ShapeSeen DEF ValSetIn
<1>6. Forest(u, {Root}) /\ Grounded(u)
  BY <1>1, <1>3, <1>4, ForestSame, ForestGrounded DEF ValSetIn
<1>7. /\ DOMAIN u = DOMAIN m.tree
      /\ \A j \in DOMAIN m.tree : u[j].val = IF j = m.at THEN v ELSE m.tree[j].val
  BY <1>4 DEF ValSetIn
<1>8. View(u)[p] = v BY <1>3, <1>5, <1>6, <1>7, ViewAt
<1>9. ASSUME NEW q \in Paths \ {p}
      PROVE  View(u)[q] = IF IsPrefix(q, p) /\ View(t)[q] = Absent THEN Nil ELSE View(t)[q]
  <2> DEFINE j == Lookup(m.tree, q)
  <2>1. Lookup(u, q) = j /\ (j # Null => j \in DOMAIN m.tree /\ j # m.at)
    BY <1>3, <1>5, OnePath, LookupIn
  <2>2. View(u)[q] = IF j = Null THEN Absent ELSE m.tree[j].val
    BY <1>6, <1>7, <2>1, ViewAt
  <2>3. CASE Lookup(t, q) # Null
    BY <1>1, <1>3, <2>2, <2>3, LookupIn, ViewAt DEF SeenAfter, Grew
  <2>4. CASE Lookup(t, q) = Null
    BY <1>1, <1>3, <2>2, <2>4, ViewAt, NullIsNone DEF SeenAfter, Grounded, Typed
  <2> QED BY <2>3, <2>4
<1> QED BY <1>8, <1>9 DEF SetShows

\* The promise's words for paths.
LEMMA PromiseSays ==
  /\ Promise!Paths = Paths
  /\ \A p, q : Promise!IsPrefix(p, q) <=> IsPrefix(p, q)
  /\ \A p : /\ Promise!UpTo(p) = {q \in Paths : IsPrefix(q, p)}
            /\ Promise!Under(p) = {q \in Paths : IsPrefix(p, q)}
            /\ Promise!Below(p) = {q \in Paths : IsPrefix(p, q) /\ q # p}
            /\ Promise!Exists(p) <=> named[p] # Absent
BY DEF Promise!Paths, Paths, Promise!IsPrefix, IsPrefix, Promise!UpTo, Promise!Under, Promise!Below, Promise!Exists

\* reg_set does what is promised of it.
LEMMA SetPromised ==
  ASSUME IInv, Seen, RegSet, call.p \in Paths
  PROVE  Promise!Set(call.p, call.v)
<1> DEFINE m == MkPath(key, call.p)
           p == call.p
<1>1. call \in Calls /\ call.op = "set" /\ frames = << >> /\ Room(key) /\ Forest(key, {Root})
  BY DEF RegSet, Called, IInv
<1>2. call.v \in Values \cup {Nil} /\ named = View(key)
  BY <1>1, CallCarries DEF Seen
<1>3. key' = SetVal(m.tree, m.at, call.v) /\ named' = View(key') /\ shadowed' = shadowed
  BY DEF RegSet, Returns, SetVal
<1> HIDE DEF m
<1> DEFINE u == SetVal(m.tree, m.at, call.v)
<1>u. m = MkPath(key, p) /\ u = SetVal(m.tree, m.at, call.v) /\ key' = u
  BY <1>3 DEF m
<1> HIDE DEF u
<1>4. SetShows(key, u, p, call.v) BY <1>1, <1>2, <1>u, SetSeen
<1>5. named' = View(u) BY <1>3, <1>u
<1>6. /\ named'[p] = call.v
      /\ \A q \in Paths \ {p} : named'[q] = IF IsPrefix(q, p) /\ named[q] = Absent THEN Nil ELSE named[q]
  BY <1>2, <1>4, <1>5 DEF SetShows
<1>7. Promise!Keeps(Paths \ {p}, Promise!UpTo(p))
  BY <1>6, PromiseSays DEF Promise!Keeps
<1> QED BY <1>3, <1>6, <1>7, PromiseSays DEF Promise!Set

\* reg_delete does what is promised of it.
LEMMA DeletePromised ==
  ASSUME IInv, IInv', Seen, RegDelete, call.p \in Paths
  PROVE  Promise!Delete(call.p)
<1> DEFINE p == call.p
           k == Lookup(key, p)
<1>1. /\ call \in Calls /\ call.op = "delete" /\ frames = << >> /\ Forest(key, {Root}) /\ Grounded(key)
      /\ Typed(key) /\ Linked(key)
  BY ForestGrounded DEF RegDelete, Called, IInv, Forest
<1>2. p # << >> /\ p \in Seq(Strings) /\ k # Root /\ named = View(key)
  BY <1>1, CallCarries, FoundIn DEF Seen
<1>3. named' = View(key') /\ shadowed' = shadowed BY DEF RegDelete, Fails, Returns
<1>4. CASE k = Null
  BY <1>1, <1>2, <1>3, <1>4, ViewAt, PromiseSays DEF RegDelete, Fails, Returns, Promise!Delete, Promise!Keeps
<1>5. CASE k # Null
  <2>1. key' = Free(DetachChild(key, key[k].parent, k), {k})
    BY <1>5 DEF RegDelete, Returns
  <2>2. k \in DOMAIN key /\ k \notin {Root} BY <1>1, <1>2, <1>5, LookupIn
  <2>3. Unhooked(key, key', k) /\ Grounded(key')
    <3> HIDE DEF k
    <3>1. Root \in {Root} OBVIOUS
    <3> QED BY <1>1, <2>1, <2>2, <3>1, FreeUnhooks, ForestGrounded DEF IInv
  <2>4. ASSUME NEW q \in Paths, ~ IsPrefix(p, q) PROVE named'[q] = named[q]
    <3>1. Lookup(key', q) = Lookup(key, q) /\ (Lookup(key, q) # Null => Lookup(key, q) \in DOMAIN key')
      BY <1>1, <1>5, <2>3, <2>4, UnhookedSeen
    <3>2. Lookup(key, q) # Null => key'[Lookup(key, q)].val = key[Lookup(key, q)].val
      BY <2>3, <3>1 DEF Unhooked
    <3> QED BY <1>1, <1>2, <1>3, <2>3, <3>1, <3>2, ViewAt
  <2>5. ASSUME NEW q \in Paths, IsPrefix(p, q), ~ shadowed PROVE named'[q] = Absent
    BY <1>1, <1>2, <1>3, <1>5, <2>3, <2>5, UnhookedGone, ViewAt DEF Seen
  <2>6. named[p] # Absent BY <1>1, <1>2, <1>5, ViewAt
  <2> QED BY <1>3, <2>4, <2>5, <2>6, PromiseSays DEF Promise!Delete, Promise!Keeps, Promise!Gone
<1> QED BY <1>4, <1>5

\* So does reg_unmount without a source.
LEMMA UnmountAllPromised ==
  ASSUME IInv, IInv', Seen, RegUnmountAll, call.d \in Paths
  PROVE  Promise!UnmountAll(call.d)
<1> DEFINE d == call.d
           k == Lookup(key, d)
<1>1. /\ call \in Calls /\ frames = << >> /\ Forest(key, {Root}) /\ Grounded(key)
      /\ named = View(key) /\ named' = View(key') /\ shadowed' = shadowed
  BY ForestGrounded DEF RegUnmountAll, Called, IInv, Fails, Returns, Seen
<1>2. CASE k = Null
  <2>1. key' = key BY <1>2 DEF RegUnmountAll, Fails, Returns
  <2>2. \A q \in Paths : named'[q] = named[q] BY <1>1, <2>1
  <2>3. named[d] = Absent BY <1>1, <1>2, ViewAt
  <2> QED BY <1>1, <2>2, <2>3, PromiseSays DEF Promise!UnmountAll, Promise!Keeps
<1>3. CASE k # Null
  <2>1. key' = FreeChildren(key, k) BY <1>3 DEF RegUnmountAll, Returns
  <2>2. k \in DOMAIN key BY <1>1, <1>3, LookupIn
  <2>3. Emptied(key, key', k) /\ Grounded(key')
    <3> HIDE DEF k
    <3>1. Root \in {Root} OBVIOUS
    <3> QED BY <1>1, <2>1, <2>2, <3>1, FreeChildrenEmpties, ForestGrounded DEF IInv
  <2>4. \A q \in Paths : Lookup(key', q) = IF IsPrefix(d, q) /\ q # d THEN Null ELSE Lookup(key, q)
    BY <1>1, <1>3, <2>3, EmptiedSeen
  <2>5. ASSUME NEW q \in Paths PROVE named'[q] = IF IsPrefix(d, q) /\ q # d THEN Absent ELSE named[q]
    BY <1>1, <2>3, <2>4, ViewAt, LookupIn DEF Emptied
  <2> QED BY <1>1, <2>5, PromiseSays DEF Promise!UnmountAll, Promise!Keeps, Promise!Gone
<1> QED BY <1>2, <1>3

\* v is t with k first under P, and its name changed.
Relinked(t, v, P, k, name) ==
  /\ DOMAIN v = DOMAIN t /\ v[k].name = name /\ Fronted(t, v, P, k)
  /\ \A j \in DOMAIN t : /\ v[j].val = t[j].val /\ (j # k => v[j].name = t[j].name)
                         /\ j # P => v[j].children = t[j].children

\* A key that is moved, at s, and its new place, at d: e is t without it in its
\* list, m the key of the path above d, made on e, and v the tree with k there
\* under its new name.
Moving(t, s, d, k, up, name, e, m, v) ==
  /\ Grounded(t) /\ Grounded(e) /\ Grounded(m.tree) /\ Grounded(v)
  /\ s \in Paths /\ s # << >> /\ ~ IsPrefix(s, d) /\ d \in Paths /\ up \in Paths
  /\ d = << >> => up = << >> /\ name = Empty
  /\ d # << >> => d = Append(up, name) /\ name \in Names
  /\ k = Lookup(t, s) /\ k \in DOMAIN t /\ k # Null /\ k # Root
  /\ Unhooked(t, e, k) /\ DOMAIN e = DOMAIN t
  /\ \A j \in DOMAIN t : e[j].parent = IF j = k THEN Null ELSE t[j].parent
  /\ m.at = Lookup(m.tree, up) /\ m.at # Null /\ m.at \in DOMAIN m.tree
  /\ SeenAfter(e, up, m.tree) /\ Grew(e, m.tree)
  /\ \A j \in DOMAIN m.tree \ DOMAIN e : m.tree[j].val = Nil
  /\ \A j \in DOMAIN e : m.tree[j].children = e[j].children \/ \E q \in Paths : Lookup(e, q) = j
  /\ Relinked(m.tree, v, m.at, k, name)

\* What AddChild links.
LEMMA LinkedFront ==
  ASSUME NEW t, Typed(t), NEW P \in DOMAIN t, NEW k \in DOMAIN t, NEW v, v = AddChild(t, P, k)
  PROVE  /\ DOMAIN v = DOMAIN t /\ v[P].children = <<k>> \o t[P].children
         /\ \A j \in DOMAIN t : /\ v[j].name = t[j].name /\ v[j].val = t[j].val
                                /\ j # P => v[j].children = t[j].children
<1> DEFINE s == <<k>> \o t[P].children
           w == SetChildren(t, P, s)
<1>1. s \in Seq(DOMAIN t) BY ChildrenIn
<1>2. v = SetParent(w, k, P) BY DEF AddChild, SetParent, SetChildren
<1>s. s = <<k>> \o t[P].children OBVIOUS
<1> HIDE DEF s
<1>3. /\ Typed(w) /\ DOMAIN w = DOMAIN t
      /\ \A j \in DOMAIN t : /\ w[j].children = IF j = P THEN s ELSE t[j].children
                             /\ w[j].name = t[j].name /\ w[j].val = t[j].val
  BY <1>1, ChildrenSet DEF ChildrenSetIn
<1> HIDE DEF w
<1>4. /\ DOMAIN v = DOMAIN w
      /\ \A j \in DOMAIN w : v[j].children = w[j].children /\ v[j].name = w[j].name /\ v[j].val = w[j].val
  <2>1. k \in DOMAIN w /\ P \in DOMAIN w \cup {Null} BY <1>3
  <2>2. ParentSetIn(w, v, k, P) BY <1>2, <1>3, <2>1, ParentSet
  <2> QED BY <2>2 DEF ParentSetIn
<1> QED BY <1>3, <1>4, <1>s

\* A key that is no child gets a name and a parent.
LEMMA RenamedLinked ==
  ASSUME NEW t, Typed(t), Linked(t), NEW k \in DOMAIN t, t[k].parent = Null, NEW name \in Strings,
         NEW P \in DOMAIN t, NEW n, n = SetName(t, k, name), NEW v, v = AddChild(n, P, k)
  PROVE  Relinked(t, v, P, k, name)
<1>1. NameSetIn(t, n, k, name) BY NameSet
<1>2. /\ Typed(n) /\ DOMAIN n = DOMAIN t
      /\ \A j \in DOMAIN t : /\ n[j].name = IF j = k THEN name ELSE t[j].name
                             /\ n[j].children = t[j].children /\ n[j].val = t[j].val
  BY <1>1 DEF NameSetIn
<1>3. P \in DOMAIN n /\ k \in DOMAIN n BY <1>2
<1>4. /\ DOMAIN v = DOMAIN n /\ v[P].children = <<k>> \o n[P].children
      /\ \A j \in DOMAIN n : /\ v[j].name = n[j].name /\ v[j].val = n[j].val
                             /\ j # P => v[j].children = n[j].children
  BY <1>2, <1>3, LinkedFront
<1>5. Fronted(t, v, P, k) BY <1>2, <1>4, OneParent DEF Fronted
<1> QED BY <1>2, <1>4, <1>5 DEF Relinked

\* The path above a path, and its name.
LEMMA PathApart ==
  ASSUME NEW d \in Paths, d # << >>
  PROVE  /\ Front(d) \in Paths /\ Last(d) \in Names /\ d = Append(Front(d), Last(d))
<1>1. PICK q \in Paths, n \in Names : d = Append(q, n) BY PathSplits
<1>2. q \in Seq(Names) /\ Len(q) \in Nat BY PathIs
<1>3. Last(d) = n BY <1>1, <1>2 DEF Last
<1>4. Front(d) = q BY <1>1, <1>2 DEF Front
<1> QED BY <1>1, <1>3, <1>4

\* The path of the parent of d and the name below it, as reg_move takes them.
Above(d) == IF d = << >> THEN << >> ELSE Front(d)
NameAt(d) == IF d = << >> THEN Empty ELSE Last(d)

\* It is what reg_move makes of the tree.
LEMMA MovingMade ==
  ASSUME NEW t, Forest(t, {Root}), Room(t), NEW s \in Paths, s # << >>, NEW d \in Paths, ~ IsPrefix(s, d),
         NEW k, k = Lookup(t, s), k # Null, k # Root,
         NEW up, up = Above(d), NEW name, name = NameAt(d),
         NEW e, e = DetachChild(t, t[k].parent, k), NEW m, m = MkPath(e, up),
         NEW n, n = SetName(m.tree, k, name), NEW v, v = AddChild(n, m.at, k)
  PROVE  Moving(t, s, d, k, up, name, e, m, v) /\ Forest(v, {Root})
<1>1. Grounded(t) /\ k \in DOMAIN t /\ k \notin {Root} /\ Root \in {Root, k} /\ Root \in {Root}
  BY ForestGrounded, LookupIn
<1>2. /\ d = << >> => up = << >> /\ name = Empty
      /\ d # << >> => d = Append(up, name) /\ name \in Names
      /\ up \in Paths /\ name \in Strings /\ up \in Seq(Strings)
  BY PathApart, NoPath, PathIs DEF Strings, Above, NameAt
<1>3. MovedIn(t, k, up, name, e, m, n, v) BY <1>1, <1>2, Moved
<1>4. /\ Forest(e, {Root, k}) /\ Room(e) /\ DOMAIN e = DOMAIN t /\ Grounded(e)
      /\ \A j \in DOMAIN t : e[j].parent = IF j = k THEN Null ELSE t[j].parent
  BY <1>1, <1>3, ForestGrounded DEF MovedIn, DetachedIn
<1>5. PathMade(e, {Root, k}, up, m) BY <1>1, <1>2, <1>4, MkPathSeen
<1>6. Unhooked(t, e, k) BY <1>1, DetachUnhooks
<1>7. /\ Forest(m.tree, {Root, k}) /\ Grounded(m.tree) /\ m.at \in DOMAIN m.tree /\ Grew(e, m.tree)
      /\ k \in DOMAIN m.tree /\ m.tree[k].parent = Null /\ Typed(m.tree) /\ Linked(m.tree)
      /\ m.at = Lookup(m.tree, up) /\ m.at # Null /\ SeenAfter(e, up, m.tree)
      /\ \A j \in DOMAIN m.tree \ DOMAIN e : m.tree[j].val = Nil
      /\ \A j \in DOMAIN e : m.tree[j].children = e[j].children \/ \E q \in Paths : Lookup(e, q) = j
  BY <1>1, <1>5, ForestGrounded DEF PathMade, Walk, Below, Forest
<1>8. Relinked(m.tree, v, m.at, k, name) BY <1>2, <1>7, RenamedLinked, SMTT(20)
<1>10. Forest(v, {Root}) /\ Grounded(v)
  BY <1>1, <1>3, ForestGrounded, SMTT(20) DEF MovedIn, AttachedIn
<1> QED BY <1>1, <1>2, <1>4, <1>6, <1>7, <1>8, <1>10, SMTT(20) DEF Moving

\* While a key is moved, no path leads to it or to what is below it; that is
\* as it was.
LEMMA MovingApart ==
  ASSUME NEW t, NEW s, NEW d, NEW k, NEW up, NEW name, NEW e, NEW m, NEW v, Moving(t, s, d, k, up, name, e, m, v)
  PROVE  \A q \in Paths : IsPrefix(s, q) /\ Lookup(t, q) # Null => \A x \in Paths : Lookup(e, x) # Lookup(t, q)
<1>0. /\ Grounded(t) /\ Grounded(e) /\ s \in Paths /\ s # << >> /\ s \in Seq(Strings) /\ k = Lookup(t, s) /\ k # Root
      /\ k # Null
  BY PathIs DEF Moving
<1>1. \A j \in DOMAIN t : e[j].parent = IF j = k THEN Null ELSE t[j].parent
  BY DEF Moving
<1>2. \A x \in Paths : x \in Seq(Strings) /\ x \in Seq(Names) /\ Len(x) \in Nat
  BY PathIs
<1> DEFINE A == {q \in Paths : IsPrefix(s, q) /\ Lookup(t, q) # Null => \A x \in Paths : Lookup(e, x) # Lookup(t, q)}
<1>3. << >> \in A BY <1>0, <1>2, NoPath, PrefixIs
<1>4. ASSUME NEW q \in Paths, NEW n \in Names, q \in A, Append(q, n) \in Paths
      PROVE  Append(q, n) \in A
  <2> DEFINE p == Append(q, n)
             j == Lookup(t, p)
  <2> SUFFICES ASSUME IsPrefix(s, p), j # Null, NEW x \in Paths, Lookup(e, x) = j PROVE FALSE
    BY <1>4
  <2>1. ChildOf(t, Lookup(t, q), n, j) BY <1>0, <1>4, LookupDown
  <2>2. j \in DOMAIN t /\ j # Root /\ j # Null /\ t[j].parent = Lookup(t, q) /\ Lookup(t, q) # Null
    BY <2>1 DEF ChildOf
  <2> HIDE DEF j
  <2>3. x # << >> BY <2>2, LookupRoot
  <2>4. PICK y \in Paths, z \in Names : x = Append(y, z) BY <2>3, PathSplits
  <2>5. ChildOf(e, Lookup(e, y), z, j) BY <1>0, <2>2, <2>4, LookupDown
  <2>6. e[j].parent = Lookup(e, y) /\ Lookup(e, y) # Null BY <2>5 DEF ChildOf
  <2>7. CASE j = k BY <1>1, <2>2, <2>6, <2>7
  <2>8. CASE j # k
    BY <1>0, <1>1, <1>2, <1>4, <2>2, <2>4, <2>6, <2>8, PrefixAppend DEF j, Strings
  <2> QED BY <2>7, <2>8
<1> HIDE DEF A
<1>5. Paths \subseteq A BY <1>3, <1>4, PathsInduct
<1> QED BY <1>5 DEF A

\* The key j keeps its children and their names.
SameList(t, v, j) == /\ j \in DOMAIN v /\ v[j].children = t[j].children
                     /\ \A c \in Range(t[j].children) : v[c].name = t[c].name

\* What is below the key keeps its children.
LEMMA MovingKeeps ==
  ASSUME NEW t, NEW s, NEW d, NEW k, NEW up, NEW name, NEW e, NEW m, NEW v, Moving(t, s, d, k, up, name, e, m, v),
         NEW q \in Paths, IsPrefix(s, q), Lookup(t, q) # Null
  PROVE  SameList(t, v, Lookup(t, q))
<1> DEFINE j == Lookup(t, q)
<1>0. /\ Grounded(t) /\ Typed(t) /\ Linked(t) /\ Grounded(e) /\ Grounded(m.tree) /\ s \in Paths /\ s # << >>
      /\ k = Lookup(t, s) /\ k # Null /\ Unhooked(t, e, k) /\ DOMAIN e = DOMAIN t /\ Grew(e, m.tree)
  BY DEF Moving, Grounded
<1>1. j \in DOMAIN t BY <1>0, LookupIn
<1>2. \A x \in Paths : Lookup(e, x) # j BY MovingApart
<1>3. k \notin Range(t[j].children)
  <2>1. PICK y \in Paths, z \in Names : s = Append(y, z) BY <1>0, PathSplits
  <2>2. ChildOf(t, Lookup(t, y), z, k) BY <1>0, <2>1, LookupDown
  <2>3. t[k].parent = Lookup(t, y) /\ Lookup(t, y) # Null BY <2>2 DEF ChildOf
  <2>4. SUFFICES ASSUME k \in Range(t[j].children) PROVE FALSE OBVIOUS
  <2>5. t[k].parent = j BY <1>0, <1>1, <2>4, OneParent
  <2>6. q = y BY <1>0, <2>3, <2>5, OnePath
  <2>7. y \in Seq(Strings) /\ s \in Seq(Strings) /\ Len(y) \in Nat BY <1>0, PathIs
  <2>8. Len(s) = Len(y) + 1 BY <2>1, <2>7
  <2>9. Len(s) <= Len(y) BY <2>6, <2>7, PrefixIs
  <2> QED BY <2>7, <2>8, <2>9
<1> HIDE DEF j
<1>4. e[j].children = t[j].children BY <1>0, <1>1, <1>3 DEF Unhooked
<1>5. m.tree[j].children = e[j].children BY <1>0, <1>1, <1>2 DEF Moving
<1>6. j # m.at BY <1>0, <1>1, <1>2 DEF Moving, SeenAfter
<1>7. Relinked(m.tree, v, m.at, k, name) BY DEF Moving
<1>8. j \in DOMAIN m.tree /\ DOMAIN t \subseteq DOMAIN m.tree BY <1>0, <1>1 DEF Grew
<1>9. j \in DOMAIN v /\ v[j].children = m.tree[j].children
  BY <1>6, <1>7, <1>8 DEF Relinked
<1>10. ASSUME NEW c \in Range(t[j].children) PROVE v[c].name = t[c].name
  BY <1>0, <1>1, <1>3, <1>7, <1>8, ChildrenIn DEF Relinked, Grew, Unhooked
<1>11. SameList(t, v, j) BY <1>4, <1>5, <1>9, <1>10 DEF SameList
<1> QED BY <1>11 DEF j

\* A path that is not below the new place leads where it did before the key
\* was put there.
LEMMA MovingElsewhere ==
  ASSUME NEW t, NEW s, NEW d, NEW k, NEW up, NEW name, NEW e, NEW m, NEW v, Moving(t, s, d, k, up, name, e, m, v)
  PROVE  \A q \in Paths : d = << >> \/ ~ IsPrefix(d, q) => Lookup(v, q) = Lookup(m.tree, q)
<1>0. /\ Grounded(m.tree) /\ Grounded(v) /\ Typed(m.tree) /\ Typed(v) /\ d \in Paths /\ up \in Paths /\ d \in Seq(Strings)
      /\ m.at = Lookup(m.tree, up) /\ m.at # Null /\ m.at \in DOMAIN m.tree
      /\ d = << >> => up = << >> /\ name = Empty
      /\ d # << >> => d = Append(up, name) /\ name \in Names
  BY PathIs DEF Moving, Grounded
<1>1. Relinked(m.tree, v, m.at, k, name) /\ m.tree[k].parent = Null /\ Linked(m.tree)
  BY DEF Moving, Grew, Grounded
<1>2. \A x \in Paths : x \in Seq(Strings) BY PathIs
<1> DEFINE S == {q \in Paths : d = << >> \/ ~ IsPrefix(d, q)}
<1>3. ASSUME NEW q \in Paths, NEW n \in Names, Append(q, n) \in S PROVE q \in S
  BY <1>0, <1>2, <1>3, PrefixAppend DEF Strings
<1>4. ASSUME NEW q \in Paths, NEW n \in Names, q \in S, Append(q, n) \in S, Append(q, n) \in Paths,
             Lookup(m.tree, q) # Null
      PROVE  Find(v, Lookup(m.tree, q), n) = Find(m.tree, Lookup(m.tree, q), n)
  <2> DEFINE j == Lookup(m.tree, q)
  <2>1. j \in DOMAIN m.tree /\ j \in DOMAIN v
    BY <1>0, <1>1, <1>4, LookupIn DEF Relinked
  <2>2. CASE j # m.at
    <3>1. v[j].children = m.tree[j].children BY <1>1, <2>1, <2>2 DEF Relinked
    <3>2. \A c \in Range(m.tree[j].children) : c \in DOMAIN m.tree /\ c # k
      BY <1>0, <1>1, <2>1, OneParent
    <3>3. \A c \in Range(m.tree[j].children) : v[c].name = m.tree[c].name
      BY <1>1, <3>2 DEF Relinked
    <3> HIDE DEF j
    <3>4. Find(v, j, n) = Find(m.tree, j, n) BY <1>0, <2>1, <3>1, <3>3, FindSame
    <3> QED BY <3>4 DEF j
  <2>3. CASE j = m.at
    <3>1. q = up BY <1>0, <1>4, <2>3, OnePath
    <3>2. n # name
      BY <1>0, <1>2, <1>4, <3>1, NameAssumption, PrefixAppend DEF Strings
    <3>3. Fronted(m.tree, v, m.at, k) /\ v[k].name = name BY <1>1 DEF Relinked
    <3>4. Find(v, m.at, n) = IF n = v[k].name THEN k ELSE Find(m.tree, m.at, n)
      BY <1>0, <2>1, <2>3, <3>3, FindFront
    <3> QED BY <2>3, <3>2, <3>3, <3>4
  <2> QED BY <2>2, <2>3
<1> HIDE DEF S
<1>5. \A q \in Paths : q \in S => Lookup(v, q) = Lookup(m.tree, q)
  BY <1>0, <1>3, <1>4, LookupAgrees
<1> QED BY <1>5 DEF S

\* It grows with q.
LEMMA RestIs ==
  ASSUME NEW d \in Seq(Strings), NEW q \in Seq(Strings), NEW n \in Strings, NEW s \in Seq(Strings)
  PROVE  /\ s \o Rest(d, d) = s
         /\ IsPrefix(d, q) => /\ s \o Rest(d, Append(q, n)) = Append(s \o Rest(d, q), n)
                              /\ s \o Rest(d, q) \in Seq(Strings) /\ IsPrefix(s, s \o Rest(d, q))
<1>1. Len(d) \in Nat /\ Len(q) \in Nat /\ Len(s) \in Nat OBVIOUS
<1>2. s \o Rest(d, d) = s BY <1>1 DEF Rest
<1>3. ASSUME IsPrefix(d, q)
      PROVE  /\ s \o Rest(d, Append(q, n)) = Append(s \o Rest(d, q), n)
             /\ s \o Rest(d, q) \in Seq(Strings) /\ IsPrefix(s, s \o Rest(d, q))
  <2> DEFINE l == Len(d)
             w == Len(q)
             r == Rest(d, q)
             p == Append(q, n)
  <2>1. l \in Nat /\ w \in Nat /\ l <= w BY <1>1, <1>3, PrefixIs
  <2>2. r = SubSeq(q, l + 1, w) /\ Rest(d, p) = SubSeq(p, l + 1, Len(p)) BY DEF Rest
  <2>3. p \in Seq(Strings) /\ Len(p) = w + 1 /\ p[w + 1] = n /\ \A i \in 1..w : p[i] = q[i]
    OBVIOUS
  <2> HIDE DEF l, p
  <2>4. r \in Seq(Strings) /\ Len(r) = w - l /\ \A i \in 1..(w - l) : r[i] = q[l + i]
    <3> HIDE DEF r
    <3>1. l + 1 \in 1..(w + 1) /\ w \in 0..Len(q) BY <2>1
    <3> QED BY <2>1, <2>2, <3>1
  <2>5. /\ Rest(d, p) \in Seq(Strings) /\ Len(Rest(d, p)) = w + 1 - l
        /\ \A i \in 1..(w + 1 - l) : Rest(d, p)[i] = p[l + i]
    <3> HIDE DEF w, r
    <3>1. Rest(d, p) = SubSeq(p, l + 1, w + 1) BY <2>2, <2>3
    <3>2. l + 1 \in 1..(w + 1) /\ w + 1 \in 0..Len(p) BY <2>1, <2>3
    <3> QED BY <2>1, <2>3, <3>1, <3>2
  <2> HIDE DEF w, r
  <2>6. Rest(d, p) = Append(r, n)
    <3> DEFINE a == Rest(d, p)
               b == Append(r, n)
    <3>1. b \in Seq(Strings) /\ Len(b) = w - l + 1 /\ b[w - l + 1] = n /\ \A i \in 1..(w - l) : b[i] = r[i]
      BY <2>1, <2>4
    <3> HIDE DEF a, b
    <3>2. a \in Seq(Strings) /\ Len(a) = Len(b) BY <2>1, <2>5, <3>1 DEF a
    <3>3. ASSUME NEW i \in 1..Len(a) PROVE a[i] = b[i]
      <4>1. i \in 1..(w + 1 - l) /\ a[i] = p[l + i] BY <2>1, <2>5, <3>2, <3>3 DEF a
      <4>2. CASE i = w - l + 1 BY <2>1, <2>3, <3>1, <4>1, <4>2
      <4>3. CASE i # w - l + 1 BY <2>1, <2>3, <2>4, <3>1, <4>1, <4>3
      <4> QED BY <4>2, <4>3
    <3>4. a = b BY <3>1, <3>2, <3>3, SeqEqual
    <3> QED BY <3>4 DEF a, b
  <2>7. s \o Append(r, n) = Append(s \o r, n)
    <3> HIDE DEF p
    <3> QED BY <2>4
  <2>8. s \o r \in Seq(Strings) /\ IsPrefix(s, s \o r)
    <3> DEFINE z == s \o r
    <3>0. r \in Seq(Strings) BY <2>4
    <3>1. z \in Seq(Strings) /\ Len(z) = Len(s) + Len(r) /\ Len(r) \in Nat BY <3>0
    <3>2. \A i \in 1..Len(s) : z[i] = s[i] BY <3>0
    <3> HIDE DEF z
    <3>3. Len(s) <= Len(z) BY <1>1, <3>1
    <3>4. IsPrefix(s, z) BY <3>1, <3>2, <3>3, PrefixIs
    <3> QED BY <3>1, <3>4 DEF z
  <2> QED BY <2>6, <2>7, <2>8 DEF p, r
<1> QED BY <1>2, <1>3

\* At its new place the key has below it what it had.
LEMMA MovingTakes ==
  ASSUME NEW t, NEW s, NEW d, NEW k, NEW up, NEW name, NEW e, NEW m, NEW v, Moving(t, s, d, k, up, name, e, m, v),
         d # << >>
  PROVE  \A q \in Paths : IsPrefix(d, q) /\ s \o Rest(d, q) \in Paths => Lookup(v, q) = Lookup(t, s \o Rest(d, q))
<1>0. /\ Grounded(m.tree) /\ Grounded(v) /\ Typed(m.tree) /\ Typed(v) /\ d \in Paths /\ up \in Paths
      /\ Grounded(t) /\ Typed(t) /\ s \in Paths /\ k = Lookup(t, s) /\ k # Null
      /\ m.at = Lookup(m.tree, up) /\ m.at # Null /\ m.at \in DOMAIN m.tree
      /\ d = Append(up, name) /\ name \in Names
  BY DEF Moving, Grounded
<1>1. \A x \in Paths : x \in Seq(Strings) /\ x \in Seq(Names) /\ Len(x) \in Nat
  BY PathIs
<1>2. Relinked(m.tree, v, m.at, k, name) BY DEF Moving
<1>3. ~ IsPrefix(d, up) /\ ~ IsPrefix(d, << >>)
  <2>1. Len(d) = Len(up) + 1 /\ Len(up) \in Nat BY <1>0, <1>1
  <2>2. ~ Len(d) <= Len(up) /\ ~ Len(d) <= Len(<< >>) BY <2>1
  <2> QED BY <1>0, <1>1, <2>2, PrefixIs, NoPath
<1>4. Lookup(v, d) = k
  BY <1>0, <1>2, <1>3, MovingElsewhere, FindFront, LookupAppend DEF Relinked
<1> DEFINE A == {q \in Paths : IsPrefix(d, q) /\ s \o Rest(d, q) \in Paths => Lookup(v, q) = Lookup(t, s \o Rest(d, q))}
<1>5. << >> \in A BY <1>3, NoPath
<1>6. ASSUME NEW q \in Paths, NEW n \in Names, q \in A, Append(q, n) \in Paths
      PROVE  Append(q, n) \in A
  <2> DEFINE p == Append(q, n)
             y == s \o Rest(d, q)
             j == Lookup(t, y)
  <2>a. n \in Strings /\ q \in Seq(Strings) /\ d \in Seq(Strings) /\ s \in Seq(Strings)
    BY <1>0, <1>1 DEF Strings
  <2> SUFFICES ASSUME IsPrefix(d, p), s \o Rest(d, p) \in Paths PROVE Lookup(v, p) = Lookup(t, s \o Rest(d, p))
    BY <1>6
  <2>1. CASE d = p
    <3>1. s \o Rest(d, d) = s BY <2>a, RestIs
    <3> QED BY <1>0, <1>4, <2>1, <3>1
  <2>2. CASE d # p
    <3>1. IsPrefix(d, q) BY <2>a, <2>2, PrefixAppend
    <3>2. s \o Rest(d, p) = Append(y, n) /\ y \in Seq(Strings) /\ IsPrefix(s, y)
      BY <2>a, <3>1, RestIs
    <3>3. y \in Paths /\ Append(y, n) \in Paths
      <4> HIDE DEF y, p
      <4>1. Append(y, n) \in Paths BY <3>2
      <4>2. y \in Seq(Names)
        <5>0. Append(y, n) \in Seq(Names) BY <1>1, <4>1
        <5>1. Append(y, n) \in Seq(Names) /\ Len(y) \in Nat BY <3>2, <5>0
        <5>2. ASSUME NEW i \in 1..Len(y) PROVE y[i] \in Names BY <3>2, <5>1
        <5> QED BY <3>2, <5>2
      <4> QED BY <4>1, <4>2, PathAbove
    <3>4. Lookup(v, q) = j BY <1>6, <3>1, <3>3
    <3>5. /\ Lookup(v, p) = IF j = Null THEN Null ELSE Find(v, j, n)
          /\ Lookup(t, Append(y, n)) = IF j = Null THEN Null ELSE Find(t, j, n)
      BY <1>6, <3>3, <3>4, LookupAppend
    <3>6. ASSUME j # Null PROVE Find(v, j, n) = Find(t, j, n)
      <4>1. j \in DOMAIN t BY <1>0, <3>3, <3>6, LookupIn
      <4>2. SameList(t, v, j) BY <3>2, <3>3, <3>6, MovingKeeps
      <4> HIDE DEF j
      <4> QED BY <1>0, <4>1, <4>2, FindSame DEF SameList
    <3> QED BY <3>2, <3>5, <3>6
  <2> QED BY <2>1, <2>2
<1> HIDE DEF A
<1>7. Paths \subseteq A BY <1>5, <1>6, PathsInduct
<1> QED BY <1>7 DEF A

\* What is seen of a move: below the new place what was below the old one, and
\* elsewhere what was left, with the path above the new place made.
MoveShows(t, s, d, up, w) ==
  /\ \A q \in Paths : d # << >> /\ IsPrefix(d, q) /\ s \o Rest(d, q) \in Paths => View(w)[q] = View(t)[s \o Rest(d, q)]
  /\ \A q \in Paths : (d = << >> \/ ~ IsPrefix(d, q)) /\ (Distinct(t) \/ ~ IsPrefix(s, q)) =>
       View(w)[q] = IF View(t)[q] # Absent /\ ~ IsPrefix(s, q) THEN View(t)[q]
                    ELSE IF IsPrefix(q, up) THEN Nil ELSE Absent

\* It is seen of the move.
LEMMA MovingShows ==
  ASSUME NEW t, NEW s, NEW d, NEW k, NEW up, NEW name, NEW e, NEW m, NEW v, Moving(t, s, d, k, up, name, e, m, v),
         NEW w, Grounded(w), DOMAIN w = DOMAIN v,
         \A j \in DOMAIN v : w[j].children = v[j].children /\ w[j].name = v[j].name /\ w[j].val = v[j].val
  PROVE  MoveShows(t, s, d, up, w)
<1>0. /\ Grounded(t) /\ Grounded(e) /\ Grounded(m.tree) /\ Grounded(v) /\ s \in Paths /\ s # << >>
      /\ k = Lookup(t, s) /\ k # Null /\ Unhooked(t, e, k) /\ DOMAIN e = DOMAIN t
      /\ SeenAfter(e, up, m.tree) /\ Grew(e, m.tree) /\ Relinked(m.tree, v, m.at, k, name)
      /\ \A j \in DOMAIN m.tree \ DOMAIN e : m.tree[j].val = Nil
  BY DEF Moving
<1>1. \A q \in Paths : Lookup(w, q) = Lookup(v, q) BY <1>0, ShapeSeen DEF Grounded
<1>2. /\ DOMAIN w = DOMAIN m.tree /\ \A j \in DOMAIN m.tree : w[j].val = m.tree[j].val
      /\ \A j \in DOMAIN t : j \in DOMAIN m.tree /\ m.tree[j].val = t[j].val
  BY <1>0 DEF Relinked, Grew, Unhooked
<1>3. ASSUME NEW q \in Paths, d # << >>, IsPrefix(d, q), s \o Rest(d, q) \in Paths
      PROVE  View(w)[q] = View(t)[s \o Rest(d, q)]
  <2> DEFINE y == s \o Rest(d, q)
             j == Lookup(t, y)
  <2>1. Lookup(w, q) = j BY <1>1, <1>3, MovingTakes
  <2>2. y \in Paths BY <1>3
  <2>3. CASE j = Null BY <1>0, <2>1, <2>2, <2>3, ViewAt
  <2>4. CASE j # Null BY <1>0, <1>2, <2>1, <2>2, <2>4, LookupIn, ViewAt
  <2> QED BY <2>3, <2>4
<1>4. ASSUME NEW q \in Paths, d = << >> \/ ~ IsPrefix(d, q), Distinct(t) \/ ~ IsPrefix(s, q)
      PROVE  View(w)[q] = IF View(t)[q] # Absent /\ ~ IsPrefix(s, q) THEN View(t)[q]
                          ELSE IF IsPrefix(q, up) THEN Nil ELSE Absent
  <2> DEFINE j == Lookup(m.tree, q)
  <2>1. Lookup(w, q) = j BY <1>1, <1>4, MovingElsewhere
  <2>2. Lookup(e, q) = IF IsPrefix(s, q) THEN Null ELSE Lookup(t, q)
    BY <1>0, <1>4, UnhookedGone, UnhookedSeen
  <2>3. View(t)[q] # Absent <=> Lookup(t, q) # Null BY <1>0, ViewAt
  <2>4. CASE Lookup(e, q) # Null
    BY <1>0, <1>2, <2>1, <2>2, <2>3, <2>4, LookupIn, ViewAt DEF SeenAfter
  <2>5. CASE Lookup(e, q) = Null
    BY <1>0, <1>2, <2>1, <2>2, <2>3, <2>5, NullIsNone, ViewAt DEF SeenAfter, Grounded, Typed
  <2> QED BY <2>4, <2>5
<1> QED BY <1>3, <1>4 DEF MoveShows

\* A key is hidden by a move if one is seen at the new place.
LEMMA MovingHides ==
  ASSUME NEW t, NEW s, NEW d, NEW k, NEW up, NEW name, NEW e, NEW m, NEW v, Moving(t, s, d, k, up, name, e, m, v)
  PROVE  name # Empty /\ Find(m.tree, m.at, name) # Null <=> d # << >> /\ View(t)[d] # Absent
<1>0. /\ Grounded(t) /\ Grounded(e) /\ Grounded(m.tree) /\ s \in Paths
      /\ ~ IsPrefix(s, d) /\ d \in Paths /\ up \in Paths
      /\ k = Lookup(t, s) /\ k # Null /\ Unhooked(t, e, k)
      /\ m.at = Lookup(m.tree, up) /\ m.at # Null /\ SeenAfter(e, up, m.tree)
      /\ d = << >> => up = << >> /\ name = Empty
      /\ d # << >> => d = Append(up, name) /\ name \in Names
  BY DEF Moving
<1>1. CASE d = << >> BY <1>0, <1>1
<1>2. CASE d # << >>
  <2>1. name # Empty /\ Append(up, name) \in Paths /\ name \in Names
    BY <1>0, <1>2, NameAssumption
  <2>2. Lookup(m.tree, Append(up, name)) =
          IF Lookup(m.tree, up) = Null THEN Null ELSE Find(m.tree, Lookup(m.tree, up), name)
    BY <1>0, <2>1, LookupAppend
  <2>3. Lookup(m.tree, d) = Find(m.tree, m.at, name) BY <1>0, <1>2, <2>2
  <2>4. Lookup(e, d) = Lookup(t, d) BY <1>0, UnhookedSeen
  <2>5. ~ IsPrefix(d, up) BY <1>0, <1>2, PathIs, PrefixIs
  <2>7. Lookup(m.tree, d) # Null <=> Lookup(e, d) # Null BY <1>0, <2>5 DEF SeenAfter
  <2>8. View(t)[d] # Absent <=> Lookup(t, d) # Null BY <1>0, ViewAt
  <2> QED BY <1>2, <2>1, <2>3, <2>4, <2>7, <2>8
<1> QED BY <1>1, <1>2

-----------------------------------------------------------------------------
(* reg_move *)

\* The promise's words for the paths of a move.
LEMMA PromiseMoves ==
  /\ \A p \in Paths : Promise!Clean(p) = p
  /\ \A d, q : Promise!From(d, q) = Rest(d, q)
  /\ \A d \in Paths \ {<< >>} : Promise!Front(d) = Front(d)
BY PathApart DEF Promise!Clean, Promise!Last, Last, Promise!From, Rest, Promise!Front, Front

\* What is promised of a move between two paths that can be spelled.
LEMMA PromisedMove ==
  ASSUME NEW s \in Paths, NEW d \in Paths, NEW up, up = (IF d = << >> THEN << >> ELSE Front(d)),
         s = << >> \/ named[s] = Absent \/ IsPrefix(s, d) =>
           (\A q \in Paths : named'[q] = named[q]) /\ named' = named /\ shadowed' = shadowed,
         ~ (s = << >> \/ named[s] = Absent \/ IsPrefix(s, d)) =>
           /\ shadowed' = (shadowed \/ (d # << >> /\ named[d] # Absent))
           /\ \A q \in Paths : d # << >> /\ IsPrefix(d, q) /\ s \o Rest(d, q) \in Paths =>
                named'[q] = named[s \o Rest(d, q)]
           /\ \A q \in Paths : (d = << >> \/ ~ IsPrefix(d, q)) /\ (~ shadowed \/ ~ IsPrefix(s, q)) =>
                named'[q] = IF named[q] # Absent /\ ~ IsPrefix(s, q) THEN named[q]
                            ELSE IF IsPrefix(q, up) THEN Nil ELSE Absent
  PROVE  Promise!Move(s, d)
<1>1. Promise!Clean(s) = s /\ Promise!Clean(d) = d BY PromiseMoves
<1>2. \A q : Promise!Exists(q) <=> named[q] # Absent BY PromiseSays
<1>3. (IF d = << >> THEN << >> ELSE Promise!Front(d)) = up BY PromiseMoves
<1>4. CASE s = << >> \/ named[s] = Absent \/ IsPrefix(s, d)
  BY <1>1, <1>2, <1>4, PromiseSays DEF Promise!Move
<1>5. CASE ~ (s = << >> \/ named[s] = Absent \/ IsPrefix(s, d))
  <2>0. s # << >> /\ Promise!Exists(s) /\ ~ Promise!IsPrefix(s, d)
    BY <1>2, <1>5, PromiseSays
  <2> DEFINE landed == IF d = << >> THEN {} ELSE Promise!Under(d)
  <2>1. shadowed' = (shadowed \/ (d \in Promise!Paths \ {<< >>} /\ Promise!Exists(d) /\ ~ Promise!IsPrefix(s, d)))
    BY <1>2, <1>5, PromiseSays
  <2>2. landed # {} => Promise!CopyAt(s, d)
    BY <1>5, PromiseSays, PromiseMoves DEF Promise!CopyAt
  <2>3. ASSUME NEW q \in Promise!Paths \ landed, ~ shadowed \/ ~ Promise!IsPrefix(s, q)
        PROVE  named'[q] = IF Promise!Exists(q) /\ ~ Promise!IsPrefix(s, q) THEN named[q]
                           ELSE IF Promise!IsPrefix(q, up) THEN Nil ELSE Absent
    BY <1>5, <2>3, PromiseSays
  <2> QED BY <1>1, <1>3, <2>0, <2>1, <2>2, <2>3 DEF Promise!Move
<1> QED BY <1>4, <1>5

\* reg_move does what is promised of it.
LEMMA MovePromised ==
  ASSUME IInv, IInv', Seen, RegMove, call.s \in Paths, call.d \in Paths
  PROVE  Promise!Move(call.s, call.d)
<1> DEFINE s == call.s
           d == call.d
           k == Lookup(key, s)
           up == IF d = << >> THEN << >> ELSE Front(d)
           name == IF d = << >> THEN Empty ELSE Last(d)
           e == DetachChild(key, key[k].parent, k)
           m == MkPath(e, up)
           n == SetName(m.tree, k, name)
           v == AddChild(n, m.at, k)
<1>1. /\ call \in Calls /\ call.op = "move" /\ frames = << >> /\ Forest(key, {Root}) /\ Grounded(key)
      /\ s \in Paths /\ d \in Paths
  BY ForestGrounded, SMTT(20) DEF RegMove, Called, IInv
<1>2. s \in Seq(Strings) /\ d \in Seq(Strings) /\ (s # << >> => s[1] # Empty)
  BY <1>1, CallCarries
<1>3. named = View(key) /\ named' = View(key')
  BY <1>1 DEF Seen, RegMove, Fails, Returns
<1>4. named[s] = Absent <=> k = Null BY <1>1, <1>3, ViewAt
<1>5. CASE s = << >> \/ IsPrefix(s, d) \/ k = Null
  <2>1. key' = key /\ shadowed' = shadowed BY <1>5 DEF RegMove, Fails, Returns
  <2>2. named' = named BY <1>3, <2>1
  <2>3. s = << >> \/ named[s] = Absent \/ IsPrefix(s, d) BY <1>4, <1>5
  <2> HIDE DEF up, name, e, m, n, v, k
  <2> QED BY <1>1, <2>1, <2>2, <2>3, PromisedMove
<1>6. CASE ~ (s = << >> \/ IsPrefix(s, d) \/ k = Null)
  <2>1. /\ key' = UpdatePaths(v, k, up) /\ Room(key)
        /\ shadowed' = (shadowed \/ (name # Empty /\ Find(m.tree, m.at, name) # Null))
    BY <1>6, Zenon DEF RegMove, Returns, SetName
  <2>2. k # Null /\ k # Root /\ s # << >> /\ ~ IsPrefix(s, d)
    BY <1>2, <1>6, FoundIn DEF IInv
  <2>3. Moving(key, s, d, k, up, name, e, m, v) /\ Forest(v, {Root})
    <3>1. /\ k = Lookup(key, s) /\ up = Above(d) /\ name = NameAt(d)
          /\ e = DetachChild(key, key[k].parent, k) /\ m = MkPath(e, up)
          /\ n = SetName(m.tree, k, name) /\ v = AddChild(n, m.at, k)
      BY DEF Above, NameAt
    <3>2. Forest(key, {Root}) /\ Room(key) /\ s \in Paths /\ d \in Paths
      BY <1>1, <2>1
    <3> HIDE DEF s, d, k, up, name, e, m, n, v
    <3> QED BY <2>2, <3>1, <3>2, MovingMade, Zenon
  <2>u. up = (IF d = << >> THEN << >> ELSE Front(d)) /\ up \in Paths
    BY <1>1, <2>3, Zenon DEF Moving
  <2> HIDE DEF up, name, e, m, n, v, k
  <2>4. k \in DOMAIN v /\ Typed(v) /\ Linked(v) /\ up \in Seq(Strings)
    BY <2>u, <2>3, PathIs DEF Moving, Relinked, Grew, Unhooked, Grounded
  <2>5. PICK path : HandedDown(v, k, up, path) BY <2>4, PathsSteps
  <2>6. /\ DOMAIN key' = DOMAIN v
        /\ \A j \in DOMAIN v : key'[j].children = v[j].children /\ key'[j].name = v[j].name /\ key'[j].val = v[j].val
    BY <2>1, <2>5 DEF HandedDown
  <2>7. Grounded(key') BY ForestGrounded DEF IInv
  <2> DEFINE w == key'
  <2>8. Grounded(w) /\ DOMAIN w = DOMAIN v
        /\ \A j \in DOMAIN v : w[j].children = v[j].children /\ w[j].name = v[j].name /\ w[j].val = v[j].val
    BY <2>6, <2>7
  <2>9. named' = View(w) BY <1>3
  <2> HIDE DEF w
  <2>10. MoveShows(key, s, d, up, w) BY <2>3, <2>8, MovingShows
  <2>11. name # Empty /\ Find(m.tree, m.at, name) # Null <=> d # << >> /\ named[d] # Absent
    BY <1>3, <2>3, MovingHides
  <2>12. shadowed' = (shadowed \/ (d # << >> /\ named[d] # Absent)) BY <2>1, <2>11
  <2>13. /\ \A q \in Paths : d # << >> /\ IsPrefix(d, q) /\ s \o Rest(d, q) \in Paths =>
              named'[q] = named[s \o Rest(d, q)]
         /\ \A q \in Paths : (d = << >> \/ ~ IsPrefix(d, q)) /\ (~ shadowed \/ ~ IsPrefix(s, q)) =>
              named'[q] = IF named[q] # Absent /\ ~ IsPrefix(s, q) THEN named[q]
                          ELSE IF IsPrefix(q, up) THEN Nil ELSE Absent
    BY <1>3, <2>9, <2>10 DEF Seen, MoveShows
  <2>14. ~ (s = << >> \/ named[s] = Absent \/ IsPrefix(s, d)) BY <1>4, <1>6
  <2> QED BY <1>1, <2>u, <2>12, <2>13, <2>14, PromisedMove
<1> QED BY <1>5, <1>6

-----------------------------------------------------------------------------
(* reg_unmount *)

\* No path is longer than the longest.
LEMMA NoLonger ==
  ASSUME NEW d \in Paths, NEW n \in Names, NEW q \in Paths, IsPrefix(Append(d, n), q)
  PROVE  Append(d, n) \in Paths /\ IsPrefix(d, q) /\ q # d
<1> DEFINE p == Append(d, n)
<1>1. /\ d \in Seq(Strings) /\ q \in Seq(Strings) /\ d \in Seq(Names) /\ n \in Strings
      /\ Len(d) \in Nat /\ Len(q) \in Nat /\ Len(q) <= PathMax
  BY PathIs DEF Strings
<1>2. /\ p \in Seq(Strings) /\ p \in Seq(Names) /\ Len(p) = Len(d) + 1 /\ \A i \in 1..Len(d) : p[i] = d[i]
  BY <1>1
<1> HIDE DEF p
<1>3. Len(p) <= Len(q) /\ \A i \in 1..Len(p) : q[i] = p[i]
  BY <1>1, <1>2, PrefixIs DEF p
<1>4. p \in Paths BY <1>1, <1>2, <1>3, NullIsNone, PathsAre
<1>5. IsPrefix(d, q)
  <2>1. Len(d) <= Len(q) /\ \A i \in 1..Len(d) : q[i] = d[i] BY <1>1, <1>2, <1>3
  <2> QED BY <1>1, <2>1, PrefixIs
<1>6. q # d BY <1>1, <1>2, <1>3
<1> QED BY <1>4, <1>5, <1>6 DEF p

\* A turn takes away one name.
LEMMA TurnBares ==
  ASSUME NEW t, Forest(t, {Root}), NEW d \in Paths, NEW dst, dst = Lookup(t, d), dst # Null, NEW n,
         NEW u, u = UnmountStep(t, dst, n)
  PROVE  Bared(t, u, d, {n})
<1>0. /\ Grounded(t) /\ Typed(t) /\ Linked(t) /\ dst \in DOMAIN t /\ Root \in {Root}
      /\ \A x \in Paths : x \in Seq(Strings) /\ x \in Seq(Names)
  BY ForestGrounded, LookupIn, PathIs DEF Grounded
<1>1. Forest(u, {Root}) /\ Grounded(u) BY <1>0, UnmountStepSound, ForestGrounded
<1>2. Distinct(t) => Distinct(u) BY <1>0, UnmountStepDistinct
<1> DEFINE c == Find(t, dst, n)
<1>3. CASE c = Null
  BY <1>2, <1>3, NoLonger, LookupAppend, NothingBelow DEF UnmountStep, Passes, Bared
<1>4. CASE c # Null
  <2>1. c \in Range(t[dst].children) /\ c \in DOMAIN t /\ t[c].name = n
    BY <1>0, <1>4, FindSound
  <2>2. u = Free(DetachChild(t, dst, c), {c}) BY <1>4 DEF UnmountStep
  <2>3. t[c].parent = dst /\ c # Root BY <1>0, <2>1, OneParent DEF Grounded
  <2> HIDE DEF c
  <2>4. Unhooked(t, u, c) BY <1>0, <2>1, <2>2, ChildUnhooks
  <2>5. \A j \in DOMAIN u : j \in DOMAIN t /\ u[j].val = t[j].val
    BY <2>4 DEF Unhooked
  <2>6. CASE n \in Names /\ Append(d, n) \in Paths
    <3> DEFINE p == Append(d, n)
    <3>1. Lookup(t, p) = c BY <2>6, LookupAppend DEF c
    <3>2. p \in Paths /\ p # << >> /\ \A q \in Paths : IsPrefix(p, q) => IsPrefix(d, q) /\ q # d
      BY <1>0, <2>6, PathAbove, NoLonger
    <3>3. \A q : Passes(d, {n}, q) <=> IsPrefix(p, q) BY <2>6 DEF Passes
    <3> HIDE DEF p
    <3>4. \A q \in Paths : ~ IsPrefix(p, q) => Lookup(u, q) = Lookup(t, q)
      BY <1>0, <1>1, <1>4, <2>4, <3>1, <3>2, UnhookedSeen DEF c
    <3>5. Distinct(t) => \A q \in Paths : IsPrefix(p, q) => Lookup(u, q) = Null
      BY <1>0, <1>1, <1>4, <2>4, <3>1, <3>2, UnhookedGone DEF c
    <3> QED BY <1>2, <2>5, <3>2, <3>3, <3>4, <3>5 DEF Bared
  <2>7. CASE ~ (n \in Names /\ Append(d, n) \in Paths)
    <3>1. ASSUME NEW q \in Paths, Lookup(t, q) = c PROVE FALSE
      <4>1. q # << >> BY <2>3, <3>1, LookupRoot
      <4>2. PICK x \in Paths, m \in Names : q = Append(x, m) BY <4>1, PathSplits
      <4>3. ChildOf(t, Lookup(t, x), m, c)
        BY <1>0, <1>4, <3>1, <4>2, LookupDown DEF c
      <4>4. Lookup(t, x) = Lookup(t, d) /\ m = n BY <2>1, <2>3, <4>3 DEF ChildOf
      <4>5. x = d BY <1>0, <4>4, OnePath
      <4> QED BY <2>7, <4>2, <4>4, <4>5
    <3>2. ASSUME NEW q \in Paths, NEW m \in Names, Append(q, m) \in Paths, Lookup(t, q) # Null,
                 c \in Range(t[Lookup(t, q)].children), t[c].name = m
          PROVE  FALSE
      BY <1>0, <2>1, <2>7, <3>2, LookupIn, OneParent, OnePath
    <3>3. Avoids(t, Paths, c) BY <3>1, <3>2 DEF Avoids
    <3>4. \A q \in Paths, m \in Names : Append(q, m) \in Paths => q \in Paths
      OBVIOUS
    <3>5. \A q \in Paths : Lookup(u, q) = Lookup(t, q)
      BY <1>0, <1>1, <2>4, <3>3, <3>4, UnhookedAvoided
    <3>6. \A q \in Paths : ~ Passes(d, {n}, q) BY <2>7, NoLonger DEF Passes
    <3> QED BY <1>2, <2>5, <3>5, <3>6 DEF Bared
  <2> QED BY <2>6, <2>7
<1> QED BY <1>3, <1>4

\* One set of names taken away after another.
LEMMA BaredTwice ==
  ASSUME NEW t, NEW u, NEW w, NEW d \in Paths, NEW S, NEW T, Bared(t, u, d, S), Bared(u, w, d, T)
  PROVE  Bared(t, w, d, S \cup T)
BY DEF Bared, Passes

\* The names of the keys of the list.
NamesOf(t, list) == {t[list[m]].name : m \in 1..Len(list)}

\* All turns take away the names in the list.
LEMMA UnmountedBares ==
  ASSUME NEW t, Forest(t, {Root}), NEW d \in Paths, NEW dst, dst = Lookup(t, d), dst # Null,
         NEW list, Len(list) \in Nat
  PROVE  Bared(t, Unmounted(t, dst, list), d, NamesOf(t, list))
<1> DEFINE N == Len(list)
           G(i) == {t[list[m]].name : m \in 1..i}
<1>0. dst \in DOMAIN t /\ Root \in {Root} BY ForestGrounded, LookupIn
<1>1. PICK g : Unmounting(t, dst, list, g) BY UnmountedSteps
<1>2. /\ g[0] = t /\ Unmounted(t, dst, list) = g[N]
      /\ \A i \in 0..(N - 1) : g[i + 1] = UnmountStep(g[i], dst, t[list[i + 1]].name)
  BY <1>1 DEF Unmounting
<1> DEFINE A == {i \in 0..N : Forest(g[i], {Root}) /\ dst = Lookup(g[i], d) /\ Bared(t, g[i], d, G(i))}
<1>3. 0 \in A
  <2>1. \A q : ~ Passes(d, G(0), q) BY DEF Passes
  <2> HIDE DEF G
  <2>2. Bared(t, g[0], d, G(0)) BY <1>2, <2>1 DEF Bared
  <2> QED BY <1>2, <2>2
<1>4. ASSUME NEW i \in 0..(N - 1), i \in A PROVE i + 1 \in A
  <2> DEFINE j == i + 1
             n == t[list[j]].name
  <2>1. j \in 0..N OBVIOUS
  <2>2. g[j] = UnmountStep(g[i], dst, n) BY <1>2
  <2>3. G(j) = G(i) \cup {n}
    <3>1. 1..j = 1..i \cup {j} OBVIOUS
    <3> HIDE DEF j
    <3> QED BY <3>1
  <2>4. Forest(g[i], {Root}) /\ dst = Lookup(g[i], d) /\ Bared(t, g[i], d, G(i))
    BY <1>4
  <2> HIDE DEF j, n, G
  <2>5. dst \in DOMAIN g[i] BY <1>0, <2>4, ForestGrounded, LookupIn
  <2>6. Forest(g[j], {Root}) BY <2>2, <2>4, <2>5, UnmountStepSound
  <2>7. Bared(g[i], g[j], d, {n}) BY <2>2, <2>4, TurnBares
  <2>8. Bared(t, g[j], d, G(j)) BY <2>3, <2>4, <2>7, BaredTwice
  <2>9. dst = Lookup(g[j], d) BY <2>8 DEF Bared
  <2> QED BY <2>1, <2>6, <2>8, <2>9 DEF j
<1> HIDE DEF A
<1>5. \A i \in 0..N : i \in A BY <1>3, <1>4, Counted
<1>6. N \in A BY <1>5
<1> QED BY <1>2, <1>6 DEF A, NamesOf

\* What is promised of an unmount.
LEMMA PromisedUnmount ==
  ASSUME NEW s \in Paths, NEW d \in Paths, shadowed' = shadowed,
         named[s] = Absent \/ named[d] = Absent => named' = named,
         named[s] # Absent /\ named[d] # Absent =>
           /\ \A q \in Paths : ~ (IsPrefix(d, q) /\ q # d) => named'[q] = named[q]
           /\ ~ shadowed /\ s = d =>
                \/ PromisedWithout(d, {})
                \/ \E n \in Names : PromisedHas(s, n) /\ PromisedHas(d, n) /\ PromisedWithout(d, {n})
           /\ ~ shadowed /\ s # d =>
                \E ns \in SUBSET {n \in Names : Append(s, n) \notin Paths /\ PromisedHas(d, n)} :
                  PromisedWithout(d, {n \in Names : PromisedHas(s, n) /\ PromisedHas(d, n)} \cup ns)
  PROVE  Promise!Unmount(s, d)
<1> DEFINE Has(p, n) == Append(p, n) \in Promise!Paths /\ Promise!Exists(Append(p, n))
           same == {n \in Names : Has(s, n) /\ Has(d, n)}
           unseen == {n \in Names : Append(s, n) \notin Promise!Paths /\ Has(d, n)}
           Without(ns) == \A q \in Promise!Paths :
             named'[q] = IF \E n \in ns : Promise!IsPrefix(Append(d, n), q) THEN Absent ELSE named[q]
<1>1. \A p, n : Has(p, n) <=> PromisedHas(p, n) BY PromiseSays DEF PromisedHas
<1>2. \A S : Without(S) <=> PromisedWithout(d, S) BY PromiseSays DEF PromisedWithout
<1>3. /\ same = {n \in Names : PromisedHas(s, n) /\ PromisedHas(d, n)}
      /\ unseen = {n \in Names : Append(s, n) \notin Paths /\ PromisedHas(d, n)}
  <2> HIDE DEF Has, Without
  <2>1. Promise!Paths = Paths BY PromiseSays
  <2> QED BY <1>1, <2>1
<1>4. \A p : Promise!Exists(p) <=> named[p] # Absent BY PromiseSays
<1>5. CASE named[s] = Absent \/ named[d] = Absent BY <1>4, <1>5 DEF Promise!Unmount
<1>6. CASE named[s] # Absent /\ named[d] # Absent
  <2>1. Promise!Keeps(Promise!Paths \ Promise!Below(d), {})
    BY <1>6, PromiseSays DEF Promise!Keeps
  <2>2. ~ shadowed => IF s = d THEN Without({}) \/ \E n \in same : Without({n})
                      ELSE \E ns \in SUBSET unseen : Without(same \cup ns)
    <3> HIDE DEF Has, Without, same, unseen
    <3>1. CASE s = d BY <1>2, <1>3, <1>6, <3>1
    <3>2. CASE s # d BY <1>2, <1>3, <1>6, <3>2
    <3> QED BY <3>1, <3>2
  <2>3. Promise!Exists(s) /\ Promise!Exists(d) BY <1>4, <1>6
  <2> QED BY <2>1, <2>2, <2>3 DEF Promise!Unmount
<1> QED BY <1>5, <1>6

\* A name of the list is seen below the source, unless the path is too long.
LEMMA ChildNamed ==
  ASSUME NEW t, Grounded(t), NEW p \in Paths, NEW k, k = Lookup(t, p), k # Null, NEW n \in Names, Append(p, n) \in Paths
  PROVE  View(t)[Append(p, n)] # Absent <=> \E c \in Range(t[k].children) : t[c].name = n
BY LookupIn, LookupAppend, ViewAt, FindSound DEF Grounded

\* reg_unmount does what is promised of it.
LEMMA UnmountPromised ==
  ASSUME IInv, IInv', Seen, RegUnmount, call.s \in Paths, call.d \in Paths
  PROVE  Promise!Unmount(call.s, call.d)
<1> DEFINE s == call.s
           d == call.d
           src == Lookup(key, s)
           dst == Lookup(key, d)
           list == IF src = dst /\ key[src].children # << >> THEN <<Head(key[src].children)>>
                   ELSE key[src].children
           L == NamesOf(key, list)
<1>1. /\ frames = << >> /\ Forest(key, {Root}) /\ Grounded(key) /\ Typed(key) /\ s \in Paths /\ d \in Paths
      /\ named = View(key) /\ named' = View(key') /\ shadowed' = shadowed
  BY ForestGrounded DEF RegUnmount, Called, IInv, Fails, Returns, Seen, Forest
<1>2. (named[s] = Absent <=> src = Null) /\ (named[d] = Absent <=> dst = Null)
  BY <1>1, ViewAt
<1>3. CASE src = Null \/ dst = Null
  <2>1. key' = key BY <1>3 DEF RegUnmount, Fails, Returns
  <2>2. named' = named /\ (named[s] = Absent \/ named[d] = Absent)
    BY <1>1, <1>2, <1>3, <2>1
  <2> HIDE DEF s, d, src, dst, list, L
  <2>3. Promise!Unmount(s, d) BY <1>1, <2>2, PromisedUnmount
  <2> QED BY <2>3 DEF s, d
<1>4. CASE ~ (src = Null \/ dst = Null)
  <2>1. key' = Unmounted(key, dst, list) BY <1>4 DEF RegUnmount, Returns
  <2>i. src = Lookup(key, s) /\ dst = Lookup(key, d) OBVIOUS
  <2> HIDE DEF s, d, src, dst
  <2>2. src \in DOMAIN key /\ dst \in DOMAIN key BY <1>1, <1>4, <2>i, LookupIn
  <2> DEFINE cs == key[src].children
  <2>3. cs \in Seq(DOMAIN key) /\ Len(cs) \in Nat /\ Range(cs) = {cs[m] : m \in 1..Len(cs)}
    BY <1>1, <2>2, ChildrenIn DEF Range
  <2>4. Len(list) \in Nat BY <2>3
  <2>5. list = IF src = dst /\ cs # << >> THEN <<Head(cs)>> ELSE cs OBVIOUS
  <2>6. L = {key[list[m]].name : m \in 1..Len(list)} /\ L = NamesOf(key, list)
    BY DEF NamesOf
  <2> DEFINE u == key'
  <2>7. u = Unmounted(key, dst, list) /\ Grounded(u) /\ named' = View(u)
    BY <1>1, <2>1, ForestGrounded DEF IInv
  <2> HIDE DEF list, L, u, cs
  <2>8. Bared(key, u, d, L) BY <1>1, <1>4, <2>i, <2>4, <2>6, <2>7, UnmountedBares
  <2>9. ASSUME NEW q \in Paths
        PROVE  /\ Lookup(u, q) = Lookup(key, q) => named'[q] = named[q]
               /\ Lookup(u, q) = Null => named'[q] = Absent
    BY <1>1, <2>7, <2>8, ViewAt, LookupIn DEF Bared
  <2>10. \A q \in Paths : ~ (IsPrefix(d, q) /\ q # d) => named'[q] = named[q]
    BY <2>8, <2>9 DEF Bared
  <2>11. ~ shadowed => \A q \in Paths : named'[q] = IF Passes(d, L, q) THEN Absent ELSE named[q]
    BY <2>8, <2>9 DEF Seen, Bared
  <2>12. \A n \in Names : n \in L => \E c \in Range(cs) : key[c].name = n
    BY <2>3, <2>5, <2>6
  <2>13. \A n \in Names : Append(s, n) \in Paths =>
           (PromisedHas(s, n) <=> \E c \in Range(cs) : key[c].name = n)
    BY <1>1, <1>4, <2>i, ChildNamed DEF PromisedHas, cs
  <2>14. ASSUME ~ shadowed, s = d
         PROVE  \/ PromisedWithout(d, {})
                \/ \E n \in Names : PromisedHas(s, n) /\ PromisedHas(d, n) /\ PromisedWithout(d, {n})
    BY <1>1, <2>i, <2>5, <2>6, <2>11, <2>12, <2>13, <2>14, NoLonger DEF Passes, PromisedWithout
  <2>15. ASSUME ~ shadowed, s # d
         PROVE  \E ns \in SUBSET {n \in Names : Append(s, n) \notin Paths /\ PromisedHas(d, n)} :
                  PromisedWithout(d, {n \in Names : PromisedHas(s, n) /\ PromisedHas(d, n)} \cup ns)
    <3>1. src # dst BY <1>1, <1>4, <2>i, <2>15, OnePath
    <3>2. \A n : (\E c \in Range(cs) : key[c].name = n) => n \in L
      BY <2>3, <2>5, <2>6, <3>1
    <3> DEFINE same == {n \in Names : PromisedHas(s, n) /\ PromisedHas(d, n)}
               unseen == {n \in Names : Append(s, n) \notin Paths /\ PromisedHas(d, n)}
               ns == unseen \cap L
               S == same \cup ns
    <3>3. same \subseteq L BY <2>13, <3>2 DEF PromisedHas
    <3>4. ASSUME NEW q \in Paths, NEW n \in Names, n \in L, IsPrefix(Append(d, n), q), n \notin S
          PROVE  named[q] = Absent
      BY <1>1, <2>12, <2>13, <3>4, NoLonger, ViewAt, NothingBelow DEF PromisedHas
    <3>5. S \subseteq L \cap Names BY <3>3
    <3> HIDE DEF same, unseen, ns
    <3>6. ASSUME NEW q \in Paths
          PROVE  named'[q] = IF \E n \in S : IsPrefix(Append(d, n), q) THEN Absent ELSE named[q]
      BY <2>11, <2>15, <3>4, <3>5 DEF Passes
    <3>7. PromisedWithout(d, same \cup ns) BY <3>6 DEF PromisedWithout
    <3>8. ns \in SUBSET unseen BY DEF ns
    <3> QED BY <3>7, <3>8 DEF same, unseen
  <2>16. named[s] # Absent /\ named[d] # Absent BY <1>2, <1>4, <2>i
  <2>17. Promise!Unmount(s, d) BY <1>1, <2>10, <2>14, <2>15, <2>16, PromisedUnmount
  <2> QED BY <2>17 DEF s, d
<1> QED BY <1>3, <1>4

-----------------------------------------------------------------------------
(* The promise *)

\* At first there is no frame.
LEMMA BusyAtFirst == Init => Busy
BY DEF Init, Busy

\* It stays so at every step.
LEMMA BusyKept == IInv /\ Seen /\ Busy /\ [Next]_vars => Busy'
<1> SUFFICES ASSUME IInv, Seen, Busy, [Next]_vars PROVE Busy' OBVIOUS
<1>1. CASE UNCHANGED vars BY <1>1 DEF Busy, vars
<1>2. ASSUME NEW c \in Calls, Ask(c) PROVE Busy' BY <1>2 DEF Ask, Busy
<1>3. CASE RegSet \/ RegDelete \/ RegUnmount \/ RegUnmountAll \/ RegMove
  BY <1>3, Zenon DEF RegSet, RegDelete, RegUnmount, RegUnmountAll, RegMove, Called, Fails, Returns, Busy
<1>4. \A t, s, d, before : Begin(t, s, d, before) =>
        \/ frames' = frames
        \/ call' = call /\ named' = named /\ Lookup(t, s) # Null
  BY DEF Begin, Returns
<1>5. CASE RegMount \/ RegBind
  <2>1. frames = << >> /\ call # NoCall /\ call.op \in {"mount", "bind"}
    BY <1>5 DEF RegMount, RegBind, Called
  <2>2. frames' = frames \/ (call' = call /\ named' = named /\ Lookup(key, call.s) # Null)
    BY <1>4, <1>5 DEF RegMount, RegBind, Fails, Returns
  <2>3. call.s \in Paths /\ Lookup(key, call.s) # Null => named[call.s] # Absent
    BY <2>1, ForestGrounded, ViewAt DEF Seen, IInv
  <2> QED BY <2>1, <2>2, <2>3 DEF Busy
<1>6. CASE MountNext BY <1>6 DEF MountNext, Busy
<1>7. CASE MountMirror BY <1>7 DEF MountMirror, Busy
<1>8. CASE MountReturn BY <1>8 DEF MountReturn, Busy
<1> QED BY <1>1, <1>2, <1>3, <1>5, <1>6, <1>7, <1>8 DEF Next, Serve

\* A mount or a bind of what is not there changes nothing.
LEMMA NothingCopied ==
  ASSUME IInv, Seen, RegMount \/ RegBind, call.s \in Paths, named[call.s] = Absent
  PROVE  call # NoCall /\ call' = NoCall /\ named' = named /\ shadowed' = shadowed
<1>1. frames = << >> /\ call # NoCall /\ Forest(key, {Root}) /\ Root \in {Root}
  BY DEF RegMount, RegBind, Called, IInv
<1>2. named = View(key) /\ Grounded(key) BY <1>1, ForestGrounded DEF Seen
<1>3. Lookup(key, call.s) = Null BY <1>2, ViewAt
<1>4. CASE RegMount BY <1>1, <1>2, <1>3, <1>4 DEF Begin, RegMount, Returns
<1>5. CASE RegBind BY <1>1, <1>2, <1>3, <1>5 DEF RegBind, Fails, Returns
<1> QED BY <1>4, <1>5

\* Each step of such a call is a step of the promise.
LEMMA StepPromised ==
  ASSUME IInv, IInv', Seen, Busy, Next, call = NoCall \/ Direct(call)
  PROVE  Promised \/ UNCHANGED <<named, shadowed, call>>
<1>1. CASE \E c \in Calls : Ask(c) BY <1>1 DEF Ask, Promise!Ask, Promised
<1>2. CASE RegSet
  <2>1. call # NoCall /\ call' = NoCall /\ call.op = "set" /\ call.p \in Paths
    BY <1>2 DEF RegSet, Called, Returns, Direct
  <2>2. Promise!Set(call.p, call.v) BY <1>2, <2>1, SetPromised
  <2> QED BY <2>1, <2>2, Zenon DEF Promised, Promise!Serve
<1>3. CASE RegDelete
  BY <1>3, DeletePromised DEF RegDelete, Called, Fails, Returns, Direct, Promised, Promise!Serve
<1>4. CASE RegMove
  <2>1. call # NoCall /\ call' = NoCall /\ call.op = "move" /\ call.s \in Paths /\ call.d \in Paths
    BY <1>4 DEF RegMove, Called, Fails, Returns, Direct
  <2>2. Promise!Move(call.s, call.d) BY <1>4, <2>1, MovePromised
  <2> QED BY <2>1, <2>2, Zenon DEF Promised, Promise!Serve
<1>5. CASE RegUnmount
  BY <1>5, UnmountPromised DEF RegUnmount, Called, Fails, Returns, Direct, Promised, Promise!Serve
<1>6. CASE RegUnmountAll
  <2>1. call # NoCall /\ call' = NoCall /\ call.op = "unmount all" /\ call.d \in Paths
    BY <1>6 DEF RegUnmountAll, Called, Fails, Returns, Direct
  <2>2. Promise!UnmountAll(call.d) BY <1>6, <2>1, UnmountAllPromised
  <2> QED BY <2>1, <2>2, Zenon DEF Promised, Promise!Serve
<1>7. CASE RegMount \/ RegBind
  <2>1. call # NoCall /\ call.op \in {"mount", "bind"} /\ call.s \in Paths /\ named[call.s] = Absent
    BY <1>7, Zenon DEF RegMount, RegBind, Called, Direct
  <2>2. call' = NoCall /\ named' = named /\ shadowed' = shadowed
    BY <1>7, <2>1, NothingCopied
  <2>3. ~ Promise!Exists(call.s) BY <2>1, PromiseSays
  <2>4. \A d, before : Promise!Mount(call.s, d, before) /\ Promise!Bind(call.s, d)
    BY <2>2, <2>3 DEF Promise!Mount, Promise!Bind
  <2>5. Promise!Serve BY <2>1, <2>2, <2>4 DEF Promise!Serve
  <2> QED BY <2>5 DEF Promised
<1>8. CASE MountNext \/ MountMirror BY <1>8, Zenon DEF MountNext, MountMirror
<1>9. CASE MountReturn
  <2>1. frames # << >> BY <1>9 DEF MountReturn
  <2>2. call # NoCall /\ call.op \in {"mount", "bind"} /\ (call.s \in Paths => named[call.s] # Absent)
    BY <2>1 DEF Busy
  <2> QED BY <2>2 DEF Direct
<1> QED BY <1>1, <1>2, <1>3, <1>4, <1>5, <1>6, <1>7, <1>8, <1>9 DEF Next, Serve

\* At first there are the root and the keys below it.
LEMMA PromisedAtFirst == Init => Promise!NamespaceInit
<1> SUFFICES ASSUME Init PROVE Promise!NamespaceInit OBVIOUS
<1> DEFINE n == Len(Top)
<1>0. n \in Nat /\ Top \in Seq(Names) BY NameAssumption
<1>1. Grounded(key) /\ Typed(key) /\ Root \in DOMAIN key
  BY InvariantHoldsAtFirst, ForestGrounded DEF IInv, Grounded
<1>2. /\ DOMAIN key = 1..(n + 1) /\ \A k \in DOMAIN key : key[k].val = Nil
      /\ \A k \in DOMAIN key \ {Root} : key[k].children = << >>
  BY <1>0 DEF Init, Root, NewKey
<1>3. named = View(key) /\ shadowed = FALSE /\ call = NoCall BY DEF Init
<1>4. named \in [Paths -> {Nil, Absent}]
  BY <1>1, <1>2, <1>3, LookupIn, ViewAt DEF View
<1>5. named[<< >>] # Absent
  BY <1>1, <1>3, LookupRoot, NoPath, NullIsNone, ViewAt DEF Typed
<1>6. ASSUME NEW p \in Paths, Len(p) > 1 PROVE named[p] = Absent
  <2>1. p # << >> BY <1>6, NoPath
  <2>2. PICK q \in Paths, m \in Names : p = Append(q, m) BY <2>1, PathSplits
  <2>3. q # << >> BY <1>6, <2>2, PathIs, NoPath
  <2>4. Lookup(key, p) = IF Lookup(key, q) = Null THEN Null ELSE Find(key, Lookup(key, q), m)
    BY <2>2, LookupAppend
  <2>5. ASSUME Lookup(key, q) # Null PROVE Find(key, Lookup(key, q), m) = Null
    BY <1>1, <1>2, <2>3, <2>5, LookupRoot, NoPath, OnePath, LookupIn, FindNone DEF Range
  <2>6. Lookup(key, p) = Null BY <2>4, <2>5
  <2> QED BY <1>1, <1>3, <2>6, ViewAt
<1> QED BY <1>3, <1>4, <1>5, <1>6, PromiseSays DEF Promise!NamespaceInit

\* A call that the registry serves in one step does to the paths and their
\* values what Namespace promises of it, whatever the tree has been made into
\* by all the calls before it, of mounts and moves as well: reg_set, reg_delete,
\* reg_move, reg_unmount, with a source or without, and a mount or a bind of
\* what is not there.
THEOREM CallsKeepThePromise ==
  Spec => /\ Promise!NamespaceInit
          /\ [][call = NoCall \/ Direct(call) => Promise!Ask \/ Promise!Serve]_<<named, shadowed, call>>
<1>1. Init => IInv /\ Seen /\ Busy /\ Promise!NamespaceInit
  BY InvariantHoldsAtFirst, SeenAtFirst, BusyAtFirst, PromisedAtFirst
<1>2. IInv /\ Seen /\ Busy /\ [Next]_vars => IInv' /\ Seen' /\ Busy'
  BY InvariantKept, SeenKept, BusyKept
<1>3. IInv /\ IInv' /\ Seen /\ Busy /\ [Next]_vars =>
        [call = NoCall \/ Direct(call) => Promise!Ask \/ Promise!Serve]_<<named, shadowed, call>>
  BY StepPromised DEF Promised, vars
<1> QED BY <1>1, <1>2, <1>3, PTL DEF Spec

-----------------------------------------------------------------------------
(* A key at either end of a list *)

\* In u, k has the children it has in t and then another, c.
Tailed(t, u, k, c) ==
  /\ u[k].children = Append(t[k].children, c)
  /\ \A j \in Range(t[k].children) : u[j].name = t[j].name

\* A new last child is what its name finds, if it is the first of its name.
LEMMA FindTail ==
  ASSUME NEW t, Typed(t), NEW k \in DOMAIN t, NEW n, NEW u, Typed(u), k \in DOMAIN u, NEW c,
         Tailed(t, u, k, c), Find(t, k, u[c].name) = Null
  PROVE  Find(u, k, n) = IF n = u[c].name THEN c ELSE Find(t, k, n)
<1> DEFINE s == t[k].children
           l == u[k].children
<1>0. u[k].children = Append(t[k].children, c) /\ \A j \in Range(t[k].children) : u[j].name = t[j].name
  BY DEF Tailed
<1>1. /\ Len(s) \in Nat /\ s \in Seq(DOMAIN t)
      /\ \A i \in 1..Len(s) : s[i] \in Range(s) /\ u[s[i]].name = t[s[i]].name
  BY <1>0, ChildrenIn DEF Range
<1> DEFINE last == Len(s) + 1
<1>2. /\ Len(l) = last /\ last \in 1..Len(l) /\ l[last] = c
      /\ \A i \in 1..Len(s) : l[i] = s[i] /\ i \in 1..Len(l)
  <2>1. l = Append(s, c) BY <1>0
  <2> HIDE DEF l, s
  <2> QED BY <1>1, <2>1
<1>3. \A i \in 1..Len(l) : i # last => i \in 1..Len(s) BY <1>1, <1>2
<1>4. \A i \in 1..Len(s) : t[s[i]].name # u[c].name BY <1>1, FindSound
<1> HIDE DEF l
<1>5. CASE n = u[c].name
  <2>1. \A j \in 1..(last - 1) : u[l[j]].name # n BY <1>1, <1>2, <1>4, <1>5
  <2> HIDE DEF last
  <2>2. FirstOf(u, k, n, last, l[last]) BY <1>2, <1>5, <2>1 DEF FirstOf, l
  <2>3. Find(u, k, n) = l[last] BY <2>2, FindIs, Zenon
  <2> QED BY <1>2, <1>5, <2>3
<1> HIDE DEF last
<1>6. CASE n # u[c].name /\ Find(t, k, n) = Null
  <2>1. \A j \in Range(s) : t[j].name # n BY <1>6, FindSound
  <2>2. \A i \in 1..Len(l) : u[l[i]].name # n BY <1>1, <1>2, <1>3, <1>6, <2>1
  <2>3. DOMAIN l = 1..Len(l) BY ChildrenIn DEF l
  <2>4. \A j \in Range(l) : u[j].name # n BY <2>2, <2>3 DEF Range
  <2> QED BY <1>6, <2>4, FindNone DEF l
<1>7. CASE n # u[c].name /\ Find(t, k, n) # Null
  <2>1. PICK i \in 1..Len(s) : /\ Find(t, k, n) = s[i] /\ t[s[i]].name = n
                               /\ \A j \in 1..(i - 1) : t[s[j]].name # n
    BY <1>7, FindFirst
  <2>2. i \in 1..Len(l) /\ l[i] = s[i] /\ u[l[i]].name = n BY <1>1, <1>2, <2>1
  <2>3. \A j \in 1..(i - 1) : u[l[j]].name # n
    <3> TAKE j \in 1..(i - 1)
    <3>1. j \in 1..Len(s) BY <1>1, <2>1
    <3> QED BY <1>1, <1>2, <2>1, <3>1
  <2>4. Find(u, k, n) = l[i]
    <3>1. FirstOf(u, k, n, i, l[i]) BY <2>2, <2>3 DEF l, FirstOf
    <3> QED BY <3>1, FindIs, Zenon
  <2> QED BY <1>7, <2>1, <2>2, <2>4
<1> QED BY <1>5, <1>6, <1>7

\* u is t with a new key k of name n and value v at either end of P's list.
Sewn(t, u, k, P, n, v) ==
  /\ k \notin DOMAIN t /\ DOMAIN u = DOMAIN t \cup {k}
  /\ u[k].name = n /\ u[k].children = << >> /\ u[k].val = v
  /\ \A j \in DOMAIN t : /\ u[j].name = t[j].name /\ u[j].val = t[j].val
                         /\ j # P => u[j].children = t[j].children
  /\ u[P].children = <<k>> \o t[P].children \/ u[P].children = Append(t[P].children, k)

\* Every child is found as before, and the new one by its name.
LEMMA FindSewn ==
  ASSUME NEW t, Typed(t), NEW u, Typed(u), NEW k, NEW P \in DOMAIN t, NEW n, NEW v, Sewn(t, u, k, P, n, v),
         Find(t, P, n) = Null, NEW j \in DOMAIN t, NEW x
  PROVE  Find(u, j, x) = IF j = P /\ x = n THEN k ELSE Find(t, j, x)
<1>1. /\ DOMAIN u = DOMAIN t \cup {k} /\ u[k].name = n
      /\ \A i \in DOMAIN t : u[i].name = t[i].name /\ (i # P => u[i].children = t[i].children)
      /\ u[P].children = <<k>> \o t[P].children \/ u[P].children = Append(t[P].children, k)
  BY DEF Sewn
<1>2. j \in DOMAIN u /\ \A c \in Range(t[j].children) : u[c].name = t[c].name
  BY <1>1, ChildrenIn
<1>3. CASE j # P BY <1>1, <1>2, <1>3, FindSame
<1>4. CASE j = P /\ u[P].children = <<k>> \o t[P].children
  BY <1>1, <1>2, <1>4, FindFront DEF Fronted
<1>5. CASE j = P /\ u[P].children = Append(t[P].children, k)
  BY <1>1, <1>2, <1>5, FindTail DEF Tailed
<1> QED BY <1>1, <1>3, <1>4, <1>5

\* Its path, if there is one, names it, and the others what they named.
LEMMA SewnSeen ==
  ASSUME NEW t, Grounded(t), NEW u, Grounded(u), NEW k, NEW p \in Paths, NEW n \in Names, NEW v,
         Lookup(t, p) # Null, Find(t, Lookup(t, p), n) = Null, Sewn(t, u, k, Lookup(t, p), n, v)
  PROVE  \A q \in Paths : Lookup(u, q) = IF q = Append(p, n) THEN k ELSE Lookup(t, q)
<1> DEFINE P == Lookup(t, p)
           A == {q \in Paths : Lookup(u, q) = IF q = Append(p, n) THEN k ELSE Lookup(t, q)}
<1>0. /\ Names \subseteq Strings /\ \A x \in Paths : x \in Seq(Strings)
      /\ Typed(t) /\ Typed(u)
  BY PathIs DEF Strings, Grounded
<1>1. /\ k \notin DOMAIN t /\ DOMAIN u = DOMAIN t \cup {k} /\ P \in DOMAIN t /\ P # Null
      /\ u[k].name = n /\ u[k].children = << >>
  BY LookupIn DEF Sewn
<1>2. Append(p, n) \in Paths => Lookup(t, Append(p, n)) = Null BY LookupAppend
<1>3. << >> \in A BY <1>0, LookupRoot, NoPath
<1>4. \A x : \A j \in DOMAIN t : Find(u, j, x) = IF j = P /\ x = n THEN k ELSE Find(t, j, x)
  BY <1>0, <1>1, FindSewn
<1>5. ASSUME NEW q \in Paths, NEW x \in Names, q \in A, Append(q, x) \in Paths
      PROVE  Append(q, x) \in A
  <2>1. Append(q, x) = Append(p, n) <=> q = p /\ x = n BY <1>0, AppendOne
  <2>2. Lookup(u, q) = IF q = Append(p, n) THEN k ELSE Lookup(t, q) BY <1>5
  <2>3. Lookup(t, Append(q, x)) = IF Lookup(t, q) = Null THEN Null ELSE Find(t, Lookup(t, q), x)
    BY <1>5, LookupAppend
  <2>4. Lookup(u, Append(q, x)) = IF Lookup(u, q) = Null THEN Null ELSE Find(u, Lookup(u, q), x)
    BY <1>5, LookupAppend
  <2> HIDE DEF P
  <2>5. CASE q = Append(p, n)
    BY <1>0, <1>1, <1>2, <1>5, <2>1, <2>2, <2>3, <2>4, <2>5, FindNone DEF Range
  <2>6. CASE q # Append(p, n) /\ Lookup(t, q) = Null
    BY <1>1, <1>5, <2>1, <2>2, <2>3, <2>4, <2>6 DEF P
  <2>7. CASE q # Append(p, n) /\ Lookup(t, q) # Null
    <3>1. Lookup(t, q) \in DOMAIN t BY <2>7, LookupIn
    <3>2. Lookup(t, q) = P <=> q = p BY <2>7, OnePath DEF P
    <3> QED BY <1>4, <1>5, <2>1, <2>2, <2>3, <2>4, <2>7, <3>1, <3>2
  <2> QED BY <2>5, <2>6, <2>7
<1>6. Paths \subseteq A
  <2> HIDE DEF A
  <2> QED BY <1>3, <1>5, PathsInduct
<1> QED BY <1>6

\* A key made with a name and a value, and linked under another.
LEMMA LinkedSewn ==
  ASSUME NEW t, Forest(t, {Root}), NEW k \in Ids \ DOMAIN t, NEW r \in Rec(DOMAIN t),
         r.parent = Null, r.children = << >>, NEW P \in DOMAIN t,
         NEW u, u = AddChild(With(t, k, r), P, k) \/ u = AddChildTail(With(t, k, r), P, k)
  PROVE  Sewn(t, u, k, P, r.name, r.val)
<1> DEFINE v == With(t, k, r)
<1>1. AllocatedIn(t, v, {Root}, k, r) BY Allocated
<1>2. Typed(v) /\ DOMAIN v = DOMAIN t \cup {k} /\ v[k] = r /\ \A j \in DOMAIN t : v[j] = t[j]
  BY <1>1 DEF AllocatedIn, Forest
<1> HIDE DEF v
<1>3. P \in DOMAIN v /\ k \in DOMAIN v /\ P # k /\ v[P] = t[P] BY <1>2
<1>4. PICK s : /\ s = <<k>> \o v[P].children \/ s = Append(v[P].children, k)
               /\ u = SetParent(SetChildren(v, P, s), k, P)
  <2>1. u = AddChild(v, P, k) \/ u = AddChildTail(v, P, k) BY DEF v
  <2>2. CASE u = AddChild(v, P, k) BY <2>2, Zenon DEF AddChild, SetParent, SetChildren
  <2>3. CASE u = AddChildTail(v, P, k)
    BY <2>3 DEF AddChildTail, SetParent, SetChildren
  <2> QED BY <2>1, <2>2, <2>3
<1> DEFINE w == SetChildren(v, P, s)
<1>5. s \in Seq(DOMAIN v)
  <2>1. v[P].children \in Seq(DOMAIN v) BY <1>2, <1>3, ChildrenIn
  <2>2. <<k>> \o v[P].children \in Seq(DOMAIN v) /\ Append(v[P].children, k) \in Seq(DOMAIN v)
    BY <1>3, <2>1
  <2> QED BY <1>4, <2>2, Zenon
<1>6. ChildrenSetIn(v, w, P, s) BY <1>2, <1>3, <1>5, ChildrenSet
<1>7. u = SetParent(w, k, P) BY <1>4
<1> HIDE DEF w
<1>8. Typed(w) /\ DOMAIN w = DOMAIN v BY <1>6 DEF ChildrenSetIn
<1>9. ParentSetIn(w, u, k, P) BY <1>3, <1>7, <1>8, ParentSet
<1>10. /\ DOMAIN u = DOMAIN v
       /\ \A j \in DOMAIN v : /\ u[j].name = v[j].name /\ u[j].val = v[j].val
                              /\ u[j].children = IF j = P THEN s ELSE v[j].children
  BY <1>6, <1>8, <1>9 DEF ChildrenSetIn, ParentSetIn
<1>11. \A j \in DOMAIN t : /\ u[j].name = t[j].name /\ u[j].val = t[j].val
                           /\ j # P => u[j].children = t[j].children
  BY <1>2, <1>10
<1>12. u[P].children = <<k>> \o t[P].children \/ u[P].children = Append(t[P].children, k)
  BY <1>3, <1>4, <1>10
<1>13. u[k].name = r.name /\ u[k].children = << >> /\ u[k].val = r.val
  BY <1>2, <1>3, <1>10
<1>14. DOMAIN u = DOMAIN t \cup {k} /\ k \notin DOMAIN t BY <1>2, <1>10
<1> QED BY <1>11, <1>12, <1>13, <1>14, Zenon DEF Sewn

\* A path that is there is not made.
LEMMA MkPathFound ==
  ASSUME NEW t, NEW p \in Paths, Lookup(t, p) # Null
  PROVE  MkPath(t, p).tree = t /\ MkPath(t, p).at = Lookup(t, p)
<1> DEFINE A == {q \in Paths : Lookup(t, q) # Null => MkPath(t, q).tree = t /\ MkPath(t, q).at = Lookup(t, q)}
<1>1. << >> \in A BY MkPathRoot, LookupRoot, NoPath
<1>2. ASSUME NEW q \in Paths, NEW n \in Names, q \in A, Append(q, n) \in Paths
      PROVE  Append(q, n) \in A
  <2> SUFFICES ASSUME Lookup(t, Append(q, n)) # Null
               PROVE  /\ MkPath(t, Append(q, n)).tree = t
                      /\ MkPath(t, Append(q, n)).at = Lookup(t, Append(q, n))
    BY <1>2
  <2>1. Lookup(t, q) # Null /\ Lookup(t, Append(q, n)) = Find(t, Lookup(t, q), n)
    BY <1>2, LookupAppend
  <2>2. MkPath(t, q).tree = t /\ MkPath(t, q).at = Lookup(t, q) BY <1>2, <2>1
  <2>3. MkPath(t, Append(q, n)) = MkStep(MkPath(t, q), n) /\ n # Empty
    BY <1>2, MkPathAppend, NameAssumption
  <2> DEFINE m == MkPath(t, q)
  <2>4. MkStep(m, n).tree = m.tree /\ MkStep(m, n).at = Find(m.tree, m.at, n)
    <3>1. Find(m.tree, m.at, n) # Null BY <2>1, <2>2
    <3> HIDE DEF m
    <3> QED BY <2>3, <3>1 DEF MkStep
  <2> QED BY <2>1, <2>2, <2>3, <2>4
<1>3. Paths \subseteq A
  <2> HIDE DEF A
  <2> QED BY <1>1, <1>2, PathsInduct
<1> QED BY <1>3

-----------------------------------------------------------------------------
(* Paths below others *)

\* Prefixes of one path are in line.
LEMMA PrefixLine ==
  ASSUME NEW p \in Seq(Strings), NEW q \in Seq(Strings), NEW r \in Seq(Strings)
  PROVE  /\ IsPrefix(p, q) /\ IsPrefix(q, r) => IsPrefix(p, r)
         /\ IsPrefix(p, r) /\ IsPrefix(q, r) => IsPrefix(p, q) \/ IsPrefix(q, p)
         /\ IsPrefix(p, q) /\ Len(q) <= Len(p) => p = q
         /\ IsPrefix(p, r) /\ IsPrefix(q, r) /\ Len(p) <= Len(q) => IsPrefix(p, q)
         /\ IsPrefix(p, q) => Len(p) <= Len(q) /\ (p # q => Len(p) < Len(q))
<1>1. Len(p) \in Nat /\ Len(q) \in Nat /\ Len(r) \in Nat OBVIOUS
<1>2. /\ IsPrefix(p, q) <=> Len(p) <= Len(q) /\ \A i \in 1..Len(p) : q[i] = p[i]
      /\ IsPrefix(q, p) <=> Len(q) <= Len(p) /\ \A i \in 1..Len(q) : p[i] = q[i]
      /\ IsPrefix(p, r) <=> Len(p) <= Len(r) /\ \A i \in 1..Len(p) : r[i] = p[i]
      /\ IsPrefix(q, r) <=> Len(q) <= Len(r) /\ \A i \in 1..Len(q) : r[i] = q[i]
  BY PrefixIs
<1>3. IsPrefix(p, q) /\ IsPrefix(q, r) => IsPrefix(p, r) BY <1>1, <1>2
<1>4. IsPrefix(p, r) /\ IsPrefix(q, r) /\ Len(p) <= Len(q) => IsPrefix(p, q)
  BY <1>1, <1>2
<1>5. IsPrefix(p, r) /\ IsPrefix(q, r) /\ Len(q) <= Len(p) => IsPrefix(q, p)
  BY <1>1, <1>2
<1>6. IsPrefix(p, q) /\ Len(q) <= Len(p) => p = q
  <2> SUFFICES ASSUME IsPrefix(p, q), Len(q) <= Len(p) PROVE p = q OBVIOUS
  <2>1. Len(p) = Len(q) /\ \A i \in 1..Len(p) : q[i] = p[i] BY <1>1, <1>2
  <2> QED BY <2>1
<1> QED BY <1>1, <1>2, <1>3, <1>4, <1>5, <1>6

\* A path below another has a name after it.
LEMMA NextName ==
  ASSUME NEW p \in Paths, NEW q \in Paths, IsPrefix(p, q), p # q
  PROVE  \E n \in Names : Append(p, n) \in Paths /\ IsPrefix(Append(p, n), q)
<1>1. /\ p \in Seq(Strings) /\ q \in Seq(Strings) /\ Len(p) \in Nat /\ Len(q) \in Nat /\ p \in Seq(Names)
      /\ Len(q) <= PathMax /\ \A i \in 1..Len(q) : q[i] \in Names
  BY PathIs
<1>2. Len(p) < Len(q) /\ \A i \in 1..Len(p) : q[i] = p[i]
  BY <1>1, PrefixLine, PrefixIs
<1> DEFINE m == Len(p) + 1
           n == q[m]
           a == Append(p, n)
<1>3. m \in 1..Len(q) /\ n \in Names BY <1>1, <1>2
<1>4. Len(a) = m /\ a \in Seq(Names) /\ a \in Seq(Strings) /\ a[m] = n /\ \A i \in 1..Len(p) : a[i] = p[i]
  BY <1>1, <1>3 DEF Strings
<1>5. a \in Paths
  <2>1. Len(a) <= PathMax BY <1>1, <1>3, <1>4, NullIsNone
  <2> HIDE DEF a
  <2> QED BY <1>4, <2>1, PathsAre
<1>6. IsPrefix(a, q)
  <2>1. \A i \in 1..m : i = m \/ i \in 1..Len(p) BY <1>1
  <2> HIDE DEF a, n
  <2>2. \A i \in 1..m : q[i] = a[i] BY <1>2, <1>4, <2>1 DEF n
  <2> HIDE DEF m
  <2>3. Len(a) <= Len(q) /\ \A i \in 1..Len(a) : q[i] = a[i] BY <1>3, <1>4, <2>2
  <2> QED BY <1>1, <1>4, <2>3, PrefixIs
<1> QED BY <1>3, <1>5, <1>6

\* It goes down as the other does.
LEMMA AcrossIs ==
  ASSUME NEW s \in Paths, NEW d \in Paths, NEW q \in Paths, IsPrefix(d, q)
  PROVE  /\ Across(s, d, d) = s /\ Across(s, d, q) \in Seq(Names) /\ Across(s, d, q) \in Seq(Strings)
         /\ IsPrefix(s, Across(s, d, q)) /\ Len(Across(s, d, q)) = Len(s) + Len(q) - Len(d)
         /\ Across(s, d, q) \in Paths <=> Len(Across(s, d, q)) <= PathMax
<1>1. /\ s \in Seq(Strings) /\ d \in Seq(Strings) /\ q \in Seq(Strings) /\ Names \subseteq Strings
      /\ Len(s) \in Nat /\ Len(d) \in Nat /\ Len(q) \in Nat
      /\ s \in Seq(Names) /\ q \in Seq(Names) /\ \A i \in 1..Len(q) : q[i] \in Names
  BY PathIs DEF Strings
<1>2. Len(d) <= Len(q) BY <1>1, PrefixIs
<1>4. s \o Rest(d, d) = s /\ IsPrefix(s, s \o Rest(d, q))
  BY <1>1, RestIs DEF Strings
<1>5. Rest(d, q) \in Seq(Names) /\ Len(Rest(d, q)) = Len(q) - Len(d)
  BY <1>1, <1>2 DEF Rest
<1>6. Across(s, d, q) \in Seq(Names) /\ Len(Across(s, d, q)) = Len(s) + Len(q) - Len(d)
  <2> DEFINE r == Rest(d, q)
  <2>1. s \in Seq(Names) /\ r \in Seq(Names) /\ Len(r) = Len(q) - Len(d) BY <1>1, <1>5
  <2> HIDE DEF r
  <2>2. s \o r \in Seq(Names) /\ Len(s \o r) = Len(s) + Len(r) BY <2>1
  <2> QED BY <1>1, <2>1, <2>2 DEF Across, r
<1>7. Across(s, d, q) \in Paths <=> Len(Across(s, d, q)) <= PathMax
  BY <1>6, PathsAre, PathIs
<1>8. Across(s, d, q) \in Seq(Strings) BY <1>6 DEF Strings
<1> QED BY <1>4, <1>6, <1>7, <1>8 DEF Across

\* The same name follows on both sides.
LEMMA AcrossNext ==
  ASSUME NEW s \in Paths, NEW d \in Paths, NEW q \in Paths, IsPrefix(d, q), NEW n \in Names
  PROVE  Across(s, d, Append(q, n)) = Append(Across(s, d, q), n)
<1>1. s \in Seq(Strings) /\ d \in Seq(Strings) /\ q \in Seq(Strings) /\ n \in Strings
  BY PathIs DEF Strings
<1>2. s \o Rest(d, Append(q, n)) = Append(s \o Rest(d, q), n) BY <1>1, RestIs
<1> QED BY <1>2 DEF Across

\* Prefixes go to prefixes.
LEMMA AcrossBelow ==
  ASSUME NEW s \in Paths, NEW d \in Paths, NEW p \in Paths, NEW q \in Paths, IsPrefix(d, p), IsPrefix(p, q)
  PROVE  IsPrefix(d, q) /\ IsPrefix(Across(s, d, p), Across(s, d, q))
<1> DEFINE A == {x \in Paths : IsPrefix(p, x) => IsPrefix(Across(s, d, p), Across(s, d, x))}
<1>0. /\ Names \subseteq Strings /\ \A x \in Paths : x \in Seq(Strings) /\ Len(x) \in Nat
  BY PathIs DEF Strings
<1>1. \A x \in Paths : IsPrefix(p, x) => IsPrefix(d, x) BY <1>0, PrefixLine
<1>2. Across(s, d, p) \in Seq(Strings) BY AcrossIs
<1>3. IsPrefix(Across(s, d, p), Across(s, d, p)) BY <1>2, PrefixIs
<1>4. << >> \in A BY <1>0, <1>3, NoPath, PrefixLine
<1>5. ASSUME NEW x \in Paths, NEW n \in Names, x \in A, Append(x, n) \in Paths
      PROVE  Append(x, n) \in A
  <2>1. IsPrefix(p, Append(x, n)) <=> IsPrefix(p, x) \/ p = Append(x, n)
    BY <1>0, PrefixAppend
  <2>2. CASE IsPrefix(p, x)
    <3>0. IsPrefix(d, x) BY <1>1, <2>2
    <3>1. Across(s, d, Append(x, n)) = Append(Across(s, d, x), n)
      BY <3>0, AcrossNext
    <3>2. IsPrefix(Across(s, d, p), Across(s, d, x)) /\ n \in Strings /\ Across(s, d, x) \in Seq(Strings)
      BY <1>0, <1>5, <2>2, <3>0, AcrossIs
    <3>3. IsPrefix(Across(s, d, p), Append(Across(s, d, x), n))
      BY <1>2, <3>1, <3>2, PrefixAppend
    <3> QED BY <1>5, <3>1, <3>3
  <2>3. CASE p = Append(x, n) BY <1>3, <1>5, <2>3
  <2>4. CASE ~ IsPrefix(p, x) /\ p # Append(x, n) BY <1>5, <2>1, <2>4
  <2> QED BY <2>2, <2>3, <2>4
<1>6. Paths \subseteq A
  <2> HIDE DEF A
  <2> QED BY <1>4, <1>5, PathsInduct
<1> QED BY <1>1, <1>6

\* A path cut at its limit is a path, and longer by the name if it is not cut.
LEMMA PathCut ==
  ASSUME NEW p \in Paths, NEW n \in Names
  PROVE  /\ Append(p, n) \in Paths => Truncated(Append(p, n)) = Append(p, n)
         /\ Append(p, n) \notin Paths => Truncated(Append(p, n)) = p /\ Len(p) = PathMax
         /\ Truncated(Append(p, n)) \in Paths /\ IsPrefix(p, Truncated(Append(p, n)))
         /\ Append(p, n) \in Paths <=> Len(p) < PathMax
<1>1. /\ p \in Seq(Names) /\ p \in Seq(Strings) /\ n \in Strings /\ Len(p) \in Nat /\ Len(p) <= PathMax
      /\ PathMax \in Nat
  BY PathIs, NullIsNone DEF Strings
<1> DEFINE a == Append(p, n)
<1>2. a \in Seq(Names) /\ Len(a) = Len(p) + 1 /\ \A i \in 1..Len(p) : a[i] = p[i]
  BY <1>1
<1> HIDE DEF a
<1>3. a \in Paths <=> Len(p) < PathMax BY <1>1, <1>2, PathsAre, PathIs
<1>4. a \in Paths => Truncated(a) = a BY PathIs
<1>5. a \notin Paths => Truncated(a) = p /\ Len(p) = PathMax
  BY <1>1, <1>2, <1>3 DEF Truncated
<1>6. IsPrefix(p, p) /\ IsPrefix(p, a) BY <1>1, PrefixAppend DEF a
<1>7. Truncated(a) \in Paths /\ IsPrefix(p, Truncated(a)) BY <1>4, <1>5, <1>6, Zenon
<1> QED BY <1>3, <1>4, <1>5, <1>7 DEF a

-----------------------------------------------------------------------------
(* A turn of reg_mount *)

\* A turn with a child named n writes its value at one path, if it has one,
\* and leaves every list of children but that of the destination alone.
Turned(t, u, f, n) ==
  /\ f.child # Null /\ n \in Names /\ t[f.child].name = n
  /\ \A q \in Paths : Lookup(t, q) # Null => Lookup(u, q) = Lookup(t, q)
  /\ \A q \in Paths :
       View(u)[q] = IF q = Append(f.dst_path, n) /\ (f.before \/ View(t)[q] = Absent)
                    THEN t[f.child].val ELSE View(t)[q]
  /\ \A j \in DOMAIN t : /\ j \in DOMAIN u /\ u[j].name = t[j].name
                         /\ Range(t[j].children) \subseteq Range(u[j].children)
                         /\ j # f.dst => u[j].children = t[j].children

\* Then it takes the next child, or goes down with a frame of its own, which
\* it does if the key is new and there is something below it.
Deeper(u, f, n, g) ==
  /\ g.src_path = Truncated(Append(f.src_path, n)) /\ g.dst_path = Truncated(Append(f.dst_path, n))
  /\ g.src = Lookup(u, g.src_path) /\ g.src # Null
  /\ g.dst = Lookup(u, g.dst_path) /\ g.dst # Null
  /\ g.before = f.before /\ g.child = FirstChild(u, g.src)
Went(t, u, f, n, fs, gs) ==
  \/ gs = Advance(u, fs) /\ \/ Find(t, f.dst, n) # Null
                            \/ u[f.child].children = << >>
                            \/ Lookup(u, Truncated(Append(f.src_path, n))) = Null
  \/ \E g : gs = Append(fs, g) /\ Deeper(u, f, n, g) /\ Find(t, f.dst, n) = Null

\* The child of a frame has a name.
LEMMA ChildHasName ==
  ASSUME NEW t, Forest(t, {Root}), Right(t, {Root}), NEW f, NEW s, NEW d, NEW flag, Laid(t, f, s, d, flag), f.child # Null
  PROVE  /\ t[f.child].name \in Names /\ f.child \in DOMAIN t /\ f.src \in DOMAIN t /\ f.dst \in DOMAIN t
         /\ f.child \in Range(t[f.src].children) /\ f.child # Root
<1>1. Grounded(t) /\ Typed(t) BY ForestGrounded DEF Forest
<1>2. f.src \in DOMAIN t /\ f.dst \in DOMAIN t BY <1>1, LookupIn DEF Laid
<1>3. f.child \in Range(t[f.src].children) BY DEF Laid
<1>4. f.child \in DOMAIN t /\ f.child # Root
  BY <1>1, <1>2, <1>3, ChildrenIn, RootIsNoChild
<1> QED BY <1>2, <1>3, <1>4 DEF Right

\* A child that is found is seen at one path, if at any.
LEMMA FoundAt ==
  ASSUME NEW t, Grounded(t), NEW p \in Paths, Lookup(t, p) # Null, NEW n \in Names, Find(t, Lookup(t, p), n) # Null
  PROVE  \A q \in Paths : Lookup(t, q) = Find(t, Lookup(t, p), n) <=> q = Append(p, n)
<1> DEFINE P == Lookup(t, p)
           x == Find(t, P, n)
<1>1. P \in DOMAIN t /\ Typed(t) /\ Linked(t) BY LookupIn DEF Grounded
<1>2. x \in Range(t[P].children) /\ t[x].name = n /\ x # Null BY <1>1, FindSound
<1>3. t[x].parent = P BY <1>1, <1>2, OneParent
<1>4. ASSUME NEW q \in Paths, q = Append(p, n) PROVE Lookup(t, q) = x
  BY <1>4, LookupAppend
<1> HIDE DEF x
<1>5. ASSUME NEW q \in Paths, Lookup(t, q) = x PROVE q = Append(p, n)
  <2>1. q # << >> BY <1>1, <1>2, <1>3, <1>5, NullIsNone, LookupRoot DEF Grounded
  <2>2. PICK y \in Paths, m \in Names : q = Append(y, m) BY <2>1, PathSplits
  <2>3. ChildOf(t, Lookup(t, y), m, x) BY <1>2, <1>5, <2>2, LookupDown
  <2>4. m = n /\ Lookup(t, y) = P BY <1>2, <1>3, <2>3 DEF ChildOf
  <2>5. y = p BY <2>4, OnePath
  <2> QED BY <2>2, <2>4, <2>5
<1> QED BY <1>4, <1>5 DEF x

\* A turn with a child that the destination has.
LEMMA MountNextTurns ==
  ASSUME IInv, PathsRight, MountNext, NEW s, NEW d, NEW flag, NEW f, f = Last(frames), Laid(key, f, s, d, flag),
         NEW n, n = key[f.child].name
  PROVE  Turned(key, key', f, n) /\ Went(key, key', f, n, frames, frames')
<1> DEFINE x == Find(key, f.dst, n)
           v == key[f.child].val
<1>1. /\ f.child # Null /\ x # Null /\ frames' = Advance(key', frames)
      /\ key' = IF f.before THEN SetVal(key, x, v) ELSE key
  BY DEF MountNext, SetVal
<1>2. Forest(key, {Root}) /\ Right(key, {Root}) /\ Grounded(key) /\ Typed(key)
  BY ForestGrounded DEF IInv, PathsRight, Forest
<1>3. n \in Names /\ f.child \in DOMAIN key /\ f.dst \in DOMAIN key
  BY <1>1, <1>2, ChildHasName
<1>4. f.dst_path \in Paths /\ f.dst = Lookup(key, f.dst_path) /\ f.dst # Null
  BY DEF Laid
<1>5. \A q \in Paths : Lookup(key, q) = x <=> q = Append(f.dst_path, n)
  BY <1>1, <1>2, <1>3, <1>4, FoundAt
<1>6. x \in DOMAIN key /\ v \in Values \cup {Nil}
  BY <1>1, <1>2, <1>3, FindSound DEF Typed, Rec
<1> HIDE DEF x, v
<1>7. /\ Grounded(key') /\ DOMAIN key' = DOMAIN key
      /\ \A j \in DOMAIN key : /\ key'[j].val = IF j = x /\ f.before THEN v ELSE key[j].val
                               /\ key'[j].children = key[j].children /\ key'[j].parent = key[j].parent
                               /\ key'[j].name = key[j].name
  <2>1. CASE f.before
    BY <1>1, <1>2, <1>6, <2>1, ValSet, ForestSame, ForestGrounded DEF ValSetIn
  <2>2. CASE ~ f.before BY <1>1, <1>2, <2>2
  <2> QED BY <2>1, <2>2
<1>8. \A q \in Paths : Lookup(key', q) = Lookup(key, q)
  BY <1>2, <1>7, ShapeSeen DEF Grounded
<1>9. ASSUME NEW q \in Paths
      PROVE  View(key')[q] = IF q = Append(f.dst_path, n) /\ (f.before \/ View(key)[q] = Absent)
                             THEN v ELSE View(key)[q]
  <2>1. CASE Lookup(key, q) = Null
    <3>1. q # Append(f.dst_path, n) BY <1>1, <1>5, <2>1 DEF x
    <3>2. View(key)[q] = Absent /\ View(key')[q] = Absent
      BY <1>2, <1>7, <1>8, <2>1, ViewAt
    <3> QED BY <3>1, <3>2
  <2>2. CASE Lookup(key, q) # Null BY <1>2, <1>5, <1>7, <1>8, <2>2, ViewAt, LookupIn
  <2> QED BY <2>1, <2>2
<1>10. Turned(key, key', f, n)
  <2>1. \A q \in Paths : Lookup(key, q) # Null => Lookup(key', q) = Lookup(key, q)
    BY <1>8
  <2>2. \A j \in DOMAIN key : /\ j \in DOMAIN key' /\ key'[j].name = key[j].name
                              /\ Range(key[j].children) \subseteq Range(key'[j].children)
                              /\ j # f.dst => key'[j].children = key[j].children
    BY <1>7
  <2> QED BY <1>1, <1>3, <1>9, <2>1, <2>2 DEF Turned, v
<1>11. Went(key, key', f, n, frames, frames') BY <1>1 DEF Went, x
<1> QED BY <1>10, <1>11

\* A turn with a child that the destination lacks.
LEMMA MountMirrorTurns ==
  ASSUME IInv, PathsRight, MountMirror, NEW s, NEW d, NEW flag, NEW f, f = Last(frames), Laid(key, f, s, d, flag),
         NEW n, n = key[f.child].name
  PROVE  Turned(key, key', f, n) /\ Went(key, key', f, n, frames, frames')
<1> DEFINE c == f.child
           k == Fresh(key)
           new_path == Truncated(Append(f.dst_path, n))
           child_src == Truncated(Append(f.src_path, n))
           r == [NewKey(n, new_path, Null) EXCEPT !.val = key[c].val]
           t == With(key, k, r)
           u == IF f.before THEN AddChild(t, f.dst, k) ELSE AddChildTail(t, f.dst, k)
           m == MkPath(u, new_path)
           src == Lookup(u, child_src)
           fr == Frame(m, src, child_src, new_path, f.before)
<1>1. /\ frames # << >> /\ c # Null /\ Room(key) /\ Room(u) /\ Find(key, f.dst, n) = Null
      /\ \/ u[c].children # << >> /\ src # Null /\ key' = m.tree /\ frames' = Append(frames, fr)
         \/ (u[c].children = << >> \/ src = Null) /\ key' = u /\ frames' = Advance(u, frames)
  <2>1. /\ frames # << >> /\ c # Null /\ Room(key) /\ Room(u) /\ Find(key, f.dst, n) = Null
        /\ IF u[c].children # << >> /\ src # Null
           THEN key' = m.tree /\ frames' = Append(frames, fr)
           ELSE key' = u /\ frames' = Advance(u, frames)
    BY SMTT(20) DEF MountMirror
  <2> HIDE DEF c, u, src, m, fr
  <2> QED BY <2>1
<1>2. Forest(key, {Root}) /\ Right(key, {Root}) /\ Grounded(key) /\ Typed(key)
  BY ForestGrounded DEF IInv, PathsRight, Forest
<1>3. n \in Names /\ c \in DOMAIN key /\ f.dst \in DOMAIN key
  BY <1>1, <1>2, ChildHasName, Zenon
<1>4. /\ f.dst_path \in Paths /\ f.src_path \in Paths /\ f.dst = Lookup(key, f.dst_path) /\ f.dst # Null
  BY DEF Laid
<1>5. new_path \in Paths /\ child_src \in Paths BY <1>3, <1>4, PathCut
<1>6. k \in Ids \ DOMAIN key
  <2>1. Ids \ DOMAIN key # {} BY <1>1, RoomIsFree
  <2> QED BY <2>1, FreshIsFree
<1>7. key[c].val \in Values \cup {Nil} BY <1>2, <1>3 DEF Typed, Rec
<1> HIDE DEF k
<1>8. r \in Rec(DOMAIN key) /\ r.parent = Null /\ r.children = << >> /\ r.name = n /\ r.val = key[c].val
  <2> DEFINE q == NewKey(n, new_path, Null)
  <2>1. q \in Rec(DOMAIN key) /\ q.parent = Null /\ q.children = << >> /\ q.name = n
    <3>1. n \in Strings /\ new_path \in Seq(Strings)
      BY <1>3, <1>5, PathIs DEF Strings
    <3> HIDE DEF new_path
    <3>2. q \in Rec(DOMAIN key) BY <3>1, NewKeyIn
    <3>3. q.parent = Null /\ q.children = << >> /\ q.name = n BY DEF NewKey
    <3> QED BY <3>2, <3>3
  <2>2. r = [q EXCEPT !.val = key[c].val] OBVIOUS
  <2> HIDE DEF q, r, c
  <2> QED BY <1>7, <2>1, <2>2 DEF Rec
<1> HIDE DEF r
<1>9. Forest(u, {Root}) /\ Sewn(key, u, k, f.dst, n, key[c].val)
  <2> DEFINE P == f.dst
  <2>1. u = AddChild(With(key, k, r), P, k) \/ u = AddChildTail(With(key, k, r), P, k)
    OBVIOUS
  <2>2. P \in DOMAIN key /\ r \in Rec(DOMAIN key) /\ r.parent = Null /\ r.children = << >>
    BY <1>3, <1>8
  <2> HIDE DEF u, P
  <2>3. MirroredIn(key, u, k, r, P) /\ Sewn(key, u, k, P, r.name, r.val)
    BY <1>2, <1>6, <2>1, <2>2, Mirrored, LinkedSewn
  <2> QED BY <1>8, <2>3 DEF MirroredIn, P
<1> HIDE DEF t, u, c
<1>10. Grounded(u) /\ Typed(u) BY <1>9, ForestGrounded DEF Forest
<1>11. \A q \in Paths : Lookup(u, q) = IF q = Append(f.dst_path, n) THEN k ELSE Lookup(key, q)
  <2> DEFINE p == f.dst_path
             v == key[c].val
  <2>1. /\ Sewn(key, u, k, Lookup(key, p), n, v) /\ Lookup(key, p) # Null
        /\ Find(key, Lookup(key, p), n) = Null
    BY <1>1, <1>4, <1>9
  <2>2. p \in Paths BY <1>4
  <2> HIDE DEF p, v
  <2>3. \A q \in Paths : Lookup(u, q) = IF q = Append(p, n) THEN k ELSE Lookup(key, q)
    BY <1>2, <1>3, <1>10, <2>1, <2>2, SewnSeen
  <2> QED BY <2>3 DEF p
<1>12. \A q \in Paths : q = Append(f.dst_path, n) => Lookup(key, q) = Null
  BY <1>1, <1>3, <1>4, LookupAppend
<1>13. k # Null /\ u[k].val = key[c].val /\ \A j \in DOMAIN key : u[j].val = key[j].val
  BY <1>6, <1>9, NullIsNone, SMTT(20) DEF Sewn
<1>14. ASSUME NEW q \in Paths
       PROVE  View(u)[q] = IF q = Append(f.dst_path, n) /\ (f.before \/ View(key)[q] = Absent)
                           THEN key[c].val ELSE View(key)[q]
  <2>1. CASE q = Append(f.dst_path, n)
    <3>1. Lookup(u, q) = k /\ Lookup(key, q) = Null BY <1>11, <1>12, <2>1
    <3>2. View(key)[q] = Absent /\ View(u)[q] = key[c].val
      BY <1>2, <1>10, <1>13, <3>1, ViewAt
    <3> QED BY <2>1, <3>2
  <2>2. CASE q # Append(f.dst_path, n) /\ Lookup(key, q) = Null
    BY <1>2, <1>10, <1>11, <2>2, ViewAt
  <2>3. CASE q # Append(f.dst_path, n) /\ Lookup(key, q) # Null
    BY <1>2, <1>10, <1>11, <1>13, <2>3, LookupIn, ViewAt
  <2> QED BY <2>1, <2>2, <2>3
<1>15. ASSUME NEW j \in DOMAIN key
       PROVE  /\ j \in DOMAIN u /\ u[j].name = key[j].name
              /\ Range(key[j].children) \subseteq Range(u[j].children)
              /\ j # f.dst => u[j].children = key[j].children
  <2>1. /\ j \in DOMAIN u /\ u[j].name = key[j].name /\ (j # f.dst => u[j].children = key[j].children)
        /\ u[f.dst].children = <<k>> \o key[f.dst].children \/ u[f.dst].children = Append(key[f.dst].children, k)
    BY <1>9, Zenon DEF Sewn
  <2>2. CASE j = f.dst
    <3> DEFINE l == key[j].children
    <3>1. l \in Seq(DOMAIN key) /\ IsInjective(l) /\ k \notin Range(l)
      BY <1>2, <1>6, ChildrenIn DEF Grounded, Linked
    <3> HIDE DEF l
    <3>2. l \in Seq(DOMAIN key \cup {k}) /\ k \in DOMAIN key \cup {k} BY <3>1
    <3>3. Range(<<k>> \o l) = Range(l) \cup {k} /\ Range(Append(l, k)) = Range(l) \cup {k}
      BY <3>1, <3>2, ListGrows DEF ListOf
    <3>4. Range(l) \subseteq Range(u[j].children) BY <2>1, <2>2, <3>3 DEF l
    <3> QED BY <2>1, <2>2, <3>4 DEF l
  <2> QED BY <2>1, <2>2, SMTT(20)
<1>16. Turned(key, u, f, n) BY <1>1, <1>3, <1>11, <1>12, <1>14, <1>15 DEF Turned, c
<1>17. CASE (u[c].children = << >> \/ src = Null) /\ key' = u /\ frames' = Advance(u, frames)
  BY <1>16, <1>17 DEF Went, c, src, child_src
<1>18. CASE src # Null /\ key' = m.tree /\ frames' = Append(frames, fr)
  <2>1. Lookup(u, new_path) # Null
    <3>1. CASE Append(f.dst_path, n) \in Paths
      <4>1. new_path = Append(f.dst_path, n) BY <1>3, <1>4, <3>1, PathCut
      <4> QED BY <1>5, <1>11, <1>13, <4>1
    <3>2. CASE Append(f.dst_path, n) \notin Paths
      BY <1>3, <1>4, <1>5, <1>11, <1>13, <3>2, PathCut
    <3> QED BY <3>1, <3>2
  <2>2. m.tree = u /\ m.at = Lookup(u, new_path) BY <1>5, <2>1, MkPathFound
  <2>3. Deeper(u, f, n, fr) BY <1>18, <2>1, <2>2 DEF Frame, Deeper
  <2> HIDE DEF fr
  <2>4. Went(key, u, f, n, frames, frames') BY <1>1, <1>18, <2>3 DEF Went
  <2> QED BY <1>16, <1>18, <2>2, <2>4
<1> QED BY <1>1, <1>17, <1>18

\* What goes on with it.
LEMMA AdvanceIs ==
  ASSUME NEW t, NEW D, NEW fs \in Seq(Frames(D)), fs # << >>
  PROVE  /\ Len(Advance(t, fs)) = Len(fs) /\ Len(fs) \in Nat \ {0} /\ Last(fs) = fs[Len(fs)]
         /\ \A i \in 1..Len(fs) : Advance(t, fs)[i] = IF i = Len(fs) THEN Stepped(t, fs[i]) ELSE fs[i]
<1> DEFINE n == Len(fs)
           g == Stepped(t, fs[n])
<1>1. n \in 1..Len(fs) /\ n \in Nat \ {0} /\ Last(fs) = fs[n] BY DEF Last
<1>2. Advance(t, fs) = [fs EXCEPT ![n] = g] BY <1>1 DEF Advance, Stepped
<1> HIDE DEF g
<1>3. Len([fs EXCEPT ![n] = g]) = n /\ \A i \in 1..n : [fs EXCEPT ![n] = g][i] = IF i = n THEN g ELSE fs[i]
  BY <1>1
<1> QED BY <1>1, <1>2, <1>3, Zenon DEF g

\* Only its child changes.
LEMMA SteppedIs ==
  ASSUME NEW t, NEW D, NEW f \in Frames(D)
  PROVE  /\ Stepped(t, f).src = f.src /\ Stepped(t, f).dst = f.dst /\ Stepped(t, f).before = f.before
         /\ Stepped(t, f).src_path = f.src_path /\ Stepped(t, f).dst_path = f.dst_path
         /\ Stepped(t, f).child = NextChild(t, f.src, f.child)
<1> DEFINE next == NextChild(t, f.src, f.child)
<1> HIDE DEF next
<1>1. Stepped(t, f) = [f EXCEPT !.child = next] BY DEF Stepped, next
<1> QED BY <1>1 DEF Frames, next

\* It stays so with what a turn does.
LEMMA LaidKept ==
  ASSUME NEW t, Grounded(t), NEW u, NEW f, NEW g, NEW s, NEW d, NEW flag, NEW n,
         Laid(t, g, s, d, flag), Turned(t, u, f, n)
  PROVE  Laid(u, g, s, d, flag)
BY LookupIn DEF Laid, Turned

\* A frame stays so when it is done with its child.
LEMMA LaidStepped ==
  ASSUME NEW t, Grounded(t), NEW D, NEW f \in Frames(D), NEW s, NEW d, NEW flag, Laid(t, f, s, d, flag)
  PROVE  Laid(t, Stepped(t, f), s, d, flag)
BY LookupIn, NextChildIn, SteppedIs DEF Laid, Grounded

\* And the frame that is put on it is so, too.
LEMMA LaidDeeper ==
  ASSUME NEW t, NEW u, Grounded(u), NEW f, NEW g, NEW s \in Paths, NEW d \in Paths, NEW flag, NEW n,
         Laid(t, f, s, d, flag), Turned(t, u, f, n), Deeper(u, f, n, g)
  PROVE  Laid(u, g, s, d, flag)
<1>1. n \in Names /\ f.dst_path \in Paths /\ f.src_path \in Paths /\ IsPrefix(d, f.dst_path) /\ IsPrefix(s, f.src_path)
  BY DEF Laid, Turned
<1>2. /\ g.src_path = Truncated(Append(f.src_path, n)) /\ g.dst_path = Truncated(Append(f.dst_path, n))
      /\ g.src = Lookup(u, g.src_path) /\ g.src # Null
      /\ g.dst = Lookup(u, g.dst_path) /\ g.dst # Null
      /\ g.before = flag /\ g.child = FirstChild(u, g.src)
  BY DEF Deeper, Laid
<1>3. /\ g.src_path \in Paths /\ g.dst_path \in Paths
      /\ IsPrefix(f.src_path, g.src_path) /\ IsPrefix(f.dst_path, g.dst_path)
  BY <1>1, <1>2, PathCut
<1>4. IsPrefix(s, g.src_path) /\ IsPrefix(d, g.dst_path)
  BY <1>1, <1>3, PathIs, PrefixLine
<1>5. g.child \in Range(u[g.src].children) \cup {Null}
  BY <1>2, <1>3, LookupIn, NextChildIn DEF Grounded
<1> QED BY <1>2, <1>3, <1>4, <1>5 DEF Laid

\* And when the last frame goes on or another is put on it.
LEMMA LaidOn ==
  ASSUME NEW t, Grounded(t), NEW u, Grounded(u), NEW D, NEW fs \in Seq(Frames(D)), fs # << >>, NEW gs,
         NEW s \in Paths, NEW d \in Paths, NEW flag, AllLaid(t, fs, s, d, flag), NEW f, f = Last(fs), NEW n,
         Turned(t, u, f, n), Went(t, u, f, n, fs, gs)
  PROVE  AllLaid(u, gs, s, d, flag)
BY LaidKept, AdvanceIs, LaidStepped, LaidDeeper DEF Last, AllLaid, Went

\* And when the last frame is done with.
LEMMA LaidBack ==
  ASSUME NEW t, Grounded(t), NEW D, NEW fs \in Seq(Frames(D)), Len(fs) > 1,
         NEW s, NEW d, NEW flag, AllLaid(t, fs, s, d, flag)
  PROVE  AllLaid(t, Advance(t, Front(fs)), s, d, flag)
<1> DEFINE es == Front(fs)
<1>1. /\ es \in Seq(Frames(D)) /\ Len(es) = Len(fs) - 1 /\ Len(fs) \in Nat /\ es # << >>
      /\ \A i \in 1..Len(es) : es[i] = fs[i] /\ i \in 1..Len(fs) /\ fs[i] \in Frames(D)
  <2> DEFINE m == Len(fs) - 1
  <2>1. es = SubSeq(fs, 1, m) BY DEF Front
  <2>2. m \in Nat \ {0} /\ Len(fs) \in Nat /\ \A i \in 1..m : i \in 1..Len(fs) /\ fs[i] \in Frames(D)
    <3>1. Len(fs) \in Nat /\ \A i \in 1..Len(fs) : fs[i] \in Frames(D) OBVIOUS
    <3>2. m \in Nat \ {0} /\ \A i \in 1..m : i \in 1..Len(fs) BY <3>1
    <3> QED BY <3>1, <3>2
  <2> HIDE DEF es
  <2>3. es \in Seq(Frames(D)) /\ Len(es) = m /\ \A i \in 1..m : es[i] = fs[i]
    BY <2>1, <2>2
  <2>4. es # << >> BY <2>2, <2>3
  <2> QED BY <2>2, <2>3, <2>4
<1> HIDE DEF es
<1>2. /\ Len(Advance(t, es)) = Len(es)
      /\ \A i \in 1..Len(es) : Advance(t, es)[i] = IF i = Len(es) THEN Stepped(t, es[i]) ELSE es[i]
  BY <1>1, AdvanceIs
<1>3. \A i \in 1..Len(es) : Laid(t, es[i], s, d, flag) /\ Laid(t, Stepped(t, es[i]), s, d, flag)
  BY <1>1, LaidStepped DEF AllLaid
<1>4. AllLaid(t, Advance(t, es), s, d, flag) BY <1>2, <1>3 DEF AllLaid
<1> QED BY <1>4 DEF es

-----------------------------------------------------------------------------
(* What a mount leaves alone *)

\* A value is not Absent.
LEMMA ValueThere ==
  ASSUME NEW t, Typed(t), NEW k \in DOMAIN t
  PROVE  t[k].val # Absent
BY AbsentAssumption DEF Typed, Rec

\* A turn only writes below the destination.
LEMMA KeptOn ==
  ASSUME NEW t, Typed(t), NEW u, NEW f, NEW s, NEW d \in Paths, NEW flag, Laid(t, f, s, d, flag), f.child \in DOMAIN t,
         NEW n, Turned(t, u, f, n), NEW B, Kept(t, B, d)
  PROVE  Kept(u, B, d)
<1> DEFINE v == t[f.child].val
           p == f.dst_path
<1>1. v # Absent BY ValueThere
<1>2. \A q \in Paths : View(u)[q] = IF q = Append(p, n) /\ (f.before \/ View(t)[q] = Absent) THEN v ELSE View(t)[q]
  BY DEF Turned
<1>3. n \in Names /\ p \in Paths /\ IsPrefix(d, p) BY DEF Turned, Laid
<1>4. IsPrefix(d, Append(p, n)) /\ Append(p, n) # d
  BY <1>3, PathIs, PrefixAppend, PrefixLine DEF Strings
<1> HIDE DEF v, p
<1> SUFFICES ASSUME NEW q \in Paths
             PROVE  /\ ~ (IsPrefix(d, q) /\ q # d) => View(u)[q] = B[q]
                    /\ B[q] # Absent => View(u)[q] # Absent
  BY DEF Kept
<1>5. /\ ~ (IsPrefix(d, q) /\ q # d) => View(t)[q] = B[q]
      /\ B[q] # Absent => View(t)[q] # Absent
  BY DEF Kept
<1> QED BY <1>1, <1>2, <1>4, <1>5

-----------------------------------------------------------------------------
(* The children that a frame has still to do *)

\* At first it is all of them.
LEMMA OwedFirst ==
  ASSUME NEW t, Typed(t), NEW f, f.src \in DOMAIN t, f.child = FirstChild(t, f.src), NEW n
  PROVE  Owed(t, f, n) <=> \E c \in Range(t[f.src].children) : t[c].name = n
<1> DEFINE l == t[f.src].children
<1>1. l \in Seq(DOMAIN t) /\ DOMAIN l = 1..Len(l) /\ Len(l) \in Nat /\ Null \notin DOMAIN t
  BY NullIsNone, ChildrenIn DEF Typed
<1>2. (\E c \in Range(l) : t[c].name = n) <=> \E m \in 1..Len(l) : t[l[m]].name = n
  BY <1>1 DEF Range
<1>3. Owed(t, f, n) <=> f.child # Null /\ \E m \in 1..Len(l) : Place(l, f.child) <= m /\ t[l[m]].name = n
  BY DEF Owed
<1>4. f.child = IF l = << >> THEN Null ELSE Head(l) BY DEF FirstChild
<1> HIDE DEF l
<1>5. CASE l = << >> BY <1>1, <1>2, <1>3, <1>4, <1>5 DEF l
<1>6. CASE l # << >>
  <2>1. f.child = l[1] /\ 1 \in 1..Len(l) /\ f.child \in DOMAIN t
    BY <1>1, <1>4, <1>6
  <2>2. \A i \in 1..Len(l) : Place(l, f.child) <= i
    <3> DEFINE at == {i \in DOMAIN l : l[i] = f.child}
    <3>1. at \in SUBSET Nat /\ 1 \in at BY <1>1, <2>1
    <3>2. Place(l, f.child) = Min(at)
      <4>1. at # {} BY <3>1
      <4> HIDE DEF l
      <4> QED BY <4>1 DEF Place
    <3> HIDE DEF at
    <3>3. Min(at) \in at /\ \A j \in at : Min(at) <= j BY <3>1, MinIn
    <3>4. Min(at) <= 1 /\ Min(at) \in Nat BY <3>1, <3>3
    <3> QED BY <1>1, <3>2, <3>4
  <2> QED BY <1>1, <1>2, <1>3, <2>1, <2>2 DEF l
<1> QED BY <1>5, <1>6

\* A frame that is done with its child owes the others that it owed.
LEMMA OwedNext ==
  ASSUME NEW t, Typed(t), Linked(t), Distinct(t), NEW D, NEW f \in Frames(D), f.src \in DOMAIN t,
         f.child \in Range(t[f.src].children), NEW n \in Names, n = t[f.child].name
  PROVE  Owed(t, f, n) /\ \A x : Owed(t, Stepped(t, f), x) <=> Owed(t, f, x) /\ x # n
<1> DEFINE l == t[f.src].children
           c == f.child
           at == Place(l, c)
           next == NextChild(t, f.src, c)
<1>1. /\ l \in Seq(DOMAIN t) /\ DOMAIN l = 1..Len(l) /\ Len(l) \in Nat /\ c \in DOMAIN t /\ Null \notin DOMAIN t
      /\ Range(l) \subseteq DOMAIN t
  BY NullIsNone, ChildrenIn DEF Typed
<1>2. \A i, j \in 1..Len(l) : l[i] = l[j] => i = j BY <1>1 DEF Linked, IsInjective
<1>3. \A i, j \in 1..Len(l) : t[l[i]].name = n /\ t[l[j]].name = n => l[i] = l[j]
  BY <1>1 DEF Distinct, Range
<1>4. \A x : Owed(t, f, x) <=> c # Null /\ \E m \in 1..Len(l) : Place(l, c) <= m /\ t[l[m]].name = x
  BY DEF Owed
<1>5. \A x : Owed(t, Stepped(t, f), x) <=> next # Null /\ \E m \in 1..Len(l) : Place(l, next) <= m /\ t[l[m]].name = x
  BY SteppedIs DEF Owed
<1>6. next = IF at = Len(l) THEN Null ELSE l[at + 1] BY DEF NextChild
<1>7. c \in Range(l) /\ t[c].name = n OBVIOUS
<1> HIDE DEF l, c
<1>8. at \in 1..Len(l) /\ l[at] = c BY <1>1, <1>7, PlaceSound
<1>9. ASSUME NEW i \in 1..Len(l) PROVE Place(l, l[i]) = i
  BY <1>1, <1>2, PlaceSound DEF Range
<1> HIDE DEF at
<1>10. c # Null BY <1>1, <1>7
<1>11. Owed(t, f, n) BY <1>4, <1>7, <1>8, <1>9, <1>10
<1>12. \A i \in 1..Len(l) : t[l[i]].name = n <=> i = at BY <1>2, <1>3, <1>7, <1>8
<1>13. Place(l, c) = at BY <1>8, <1>9
<1>14. ASSUME NEW x PROVE Owed(t, Stepped(t, f), x) <=> Owed(t, f, x) /\ x # n
  <2>1. Owed(t, f, x) <=> \E m \in 1..Len(l) : at <= m /\ t[l[m]].name = x
    BY <1>4, <1>10, <1>13
  <2>2. CASE at = Len(l)
    <3>1. next = Null BY <1>6, <2>2
    <3>2. \A m \in 1..Len(l) : at <= m => m = at
      <4>1. Len(l) \in Nat BY <1>1
      <4> QED BY <2>2, <4>1
    <3> QED BY <1>5, <1>8, <1>12, <2>1, <3>1, <3>2
  <2>3. CASE at # Len(l)
    <3> DEFINE j == at + 1
    <3>1. j \in 1..Len(l) /\ next = l[j] BY <1>1, <1>6, <1>8, <2>3
    <3>2. \A m \in 1..Len(l) : j <= m <=> at <= m /\ m # at BY <1>1, <1>8
    <3> HIDE DEF j
    <3>3. next # Null BY <1>1, <3>1
    <3>4. Place(l, next) = j BY <1>9, <3>1
    <3>5. Owed(t, Stepped(t, f), x) <=> \E m \in 1..Len(l) : j <= m /\ t[l[m]].name = x
      BY <1>5, <3>3, <3>4
    <3> QED BY <1>12, <2>1, <3>2, <3>5
  <2> QED BY <2>2, <2>3
<1> QED BY <1>11, <1>14

\* It owes the same in a tree with the same children.
LEMMA OwedSame ==
  ASSUME NEW t, Typed(t), NEW u, NEW f, f.src \in DOMAIN t,
         u[f.src].children = t[f.src].children, \A j \in DOMAIN t : u[j].name = t[j].name
  PROVE  Stepped(u, f) = Stepped(t, f) /\ \A x : Owed(u, f, x) <=> Owed(t, f, x)
<1> DEFINE l == t[f.src].children
<1>1. Len(l) \in Nat /\ \A m \in 1..Len(l) : l[m] \in DOMAIN t BY ChildrenIn
<1>2. Stepped(u, f) = Stepped(t, f) BY DEF Stepped, NextChild
<1>3. \A x : Owed(t, f, x) <=> f.child # Null /\ \E m \in 1..Len(l) : Place(l, f.child) <= m /\ t[l[m]].name = x
  BY DEF Owed
<1>4. \A x : Owed(u, f, x) <=> f.child # Null /\ \E m \in 1..Len(l) : Place(l, f.child) <= m /\ u[l[m]].name = x
  BY DEF Owed
<1>5. \A m \in 1..Len(l) : u[l[m]].name = t[l[m]].name BY <1>1
<1> HIDE DEF l
<1> QED BY <1>2, <1>3, <1>4, <1>5

-----------------------------------------------------------------------------
(* Copies *)

\* It is not below the source, and all below it is new.
LEMMA NewApart ==
  ASSUME NEW B, NEW s, NEW d, Field(B, s, d), NEW p \in Paths, p = d \/ New(B, d, p)
  PROVE  ~ IsPrefix(s, p)
<1>1. CASE p = d BY <1>1 DEF Field
<1>2. CASE New(B, d, p)
  <2>1. PICK n \in Names : Append(d, n) \in Paths /\ IsPrefix(Append(d, n), p) /\ B[Append(d, n)] = Absent
    BY <1>2 DEF New
  <2>2. s \in Paths /\ s \in Seq(Strings) /\ d \in Seq(Strings) /\ n \in Strings /\ p \in Seq(Strings)
        /\ Append(d, n) \in Seq(Strings)
    BY <2>1, PathIs DEF Field, Strings
  <2>3. ~ IsPrefix(Append(d, n), s) /\ s # Append(d, n) /\ ~ IsPrefix(s, d)
    BY <2>1, <2>2 DEF Field
  <2>4. ~ IsPrefix(s, Append(d, n)) BY <2>2, <2>3, PrefixAppend
  <2> QED BY <2>1, <2>2, <2>3, <2>4, PrefixLine
<1> QED BY <1>1, <1>2

\* What is below a new path is new.
LEMMA NewBelow ==
  ASSUME NEW B, NEW d \in Paths, NEW p \in Paths, p = d \/ New(B, d, p), NEW n \in Names, Append(p, n) \in Paths
  PROVE  /\ New(B, d, p) => New(B, d, Append(p, n))
         /\ \A q \in Paths : New(B, d, q) /\ IsPrefix(Append(p, n), q) => New(B, d, Append(p, n))
<1>1. d \in Seq(Strings) /\ p \in Seq(Strings) /\ n \in Strings /\ Names \subseteq Strings
      /\ Append(p, n) \in Seq(Strings) /\ Len(d) \in Nat
  BY PathIs DEF Strings
<1>2. New(B, d, p) => New(B, d, Append(p, n)) BY <1>1, PathIs, PrefixAppend DEF New
<1>3. ASSUME NEW q \in Paths, New(B, d, q), IsPrefix(Append(p, n), q) PROVE New(B, d, Append(p, n))
  <2>1. CASE New(B, d, p) BY <1>2, <2>1
  <2>2. CASE p = d
    <3>1. PICK m \in Names : Append(d, m) \in Paths /\ IsPrefix(Append(d, m), q) /\ B[Append(d, m)] = Absent
      BY <1>3 DEF New
    <3>2. Append(d, m) \in Seq(Strings) /\ Append(d, n) \in Seq(Strings) /\ q \in Seq(Strings)
      BY <1>1, <2>2, <3>1, PathIs
    <3>3. Len(Append(d, m)) = Len(d) + 1 /\ Len(Append(d, n)) = Len(d) + 1 BY <1>1
    <3> DEFINE a == Append(d, m)
               b == Append(d, n)
    <3>4. IsPrefix(a, q) /\ IsPrefix(b, q) /\ Len(a) <= Len(b) /\ Len(b) <= Len(a)
      BY <1>1, <1>3, <2>2, <3>1, <3>3
    <3>5. a \in Seq(Strings) /\ b \in Seq(Strings) /\ q \in Seq(Strings) BY <3>2
    <3> HIDE DEF a, b
    <3>6. a = b BY <3>4, <3>5, PrefixLine
    <3>7. IsPrefix(b, b) BY <3>5, PrefixIs
    <3> QED BY <2>2, <3>1, <3>6, <3>7 DEF New, a, b
  <2> QED BY <2>1, <2>2
<1> QED BY <1>2, <1>3

\* The source stays as it was.
LEMMA SourceStays ==
  ASSUME NEW t, NEW fs, NEW B, NEW s, NEW d, NEW flag, Field(B, s, d), Kept(t, B, d), Overlaid(t, fs, B, s, d, flag)
  PROVE  \A y \in Paths : IsPrefix(s, y) /\ y # s => View(t)[y] = B[y]
<1> SUFFICES ASSUME NEW y \in Paths, IsPrefix(s, y), y # s PROVE View(t)[y] = B[y]
  OBVIOUS
<1>1. /\ s \in Paths /\ d \in Paths /\ s \in Seq(Strings) /\ d \in Seq(Strings) /\ y \in Seq(Strings)
      /\ ~ IsPrefix(s, d)
  BY PathIs DEF Field
<1>2. CASE ~ IsPrefix(d, y) BY <1>2 DEF Kept
<1>3. CASE IsPrefix(d, y)
  <2>1. IsPrefix(d, s) /\ d # s BY <1>1, <1>3, PrefixLine, PrefixIs
  <2>2. PICK n \in Names : Append(d, n) \in Paths /\ IsPrefix(Append(d, n), s)
    BY <1>1, <2>1, NextName
  <2>3. B[Append(d, n)] # Absent BY <1>1, <2>2 DEF Field
  <2>4. Append(d, n) \in Seq(Strings) BY <2>2, PathIs
  <2> DEFINE a == Append(d, n)
  <2>5. a \in Seq(Strings) /\ IsPrefix(a, s) BY <2>2, <2>4
  <2> HIDE DEF a
  <2>6. IsPrefix(a, y) /\ y # a BY <1>1, <2>5, PrefixLine
  <2> QED BY <2>2, <2>3, <2>6 DEF Overlaid, a
<1> QED BY <1>2, <1>3

\* No frame copies from the key it copies to.
LEMMA SourceApart ==
  ASSUME NEW t, Grounded(t), NEW fs, NEW B, NEW s, NEW d, NEW flag, Field(B, s, d), AllLaid(t, fs, s, d, flag),
         Piled(fs, B, s, d), NEW i \in 1..Len(fs), NEW j \in 1..Len(fs)
  PROVE  fs[i].src # fs[j].dst
BY NewApart, OnePath DEF AllLaid, Laid, Piled

\* What the frames of a mount have still to do, when a turn has been made: what
\* they had but for its name, and a new frame all that it is over.
Mounting(t, D, fs, B, s, d, flag) ==
  /\ Grounded(t) /\ fs \in Seq(Frames(D)) /\ fs # << >>
  /\ Field(B, s, d) /\ AllLaid(t, fs, s, d, flag) /\ Piled(fs, B, s, d) /\ Distinct(t)

\* The last frame has still to do the child it is at.
LEMMA OwesHere ==
  ASSUME NEW t, NEW D, NEW fs, NEW B, NEW s, NEW d, NEW flag, Mounting(t, D, fs, B, s, d, flag),
         NEW f, f = Last(fs), NEW n, NEW u, Turned(t, u, f, n)
  PROVE  /\ Len(fs) \in Nat \ {0} /\ f = fs[Len(fs)] /\ Owes(t, fs, Len(fs), n) /\ n \in Names
         /\ \A i \in 1..Len(fs) : fs[i] \in Frames(D) /\ fs[i].src \in DOMAIN t
BY LookupIn, OwedNext DEF Mounting, Grounded, Last, AllLaid, Laid, Turned, Owes

\* The name is the one that the last frame owes no more.
LEMMA OwesLess ==
  ASSUME NEW t, NEW D, NEW fs, NEW B, NEW s, NEW d, NEW flag, Mounting(t, D, fs, B, s, d, flag),
         NEW f, f = Last(fs), NEW n, NEW u, Turned(t, u, f, n), NEW x
  PROVE  Owed(t, Stepped(t, f), x) <=> Owed(t, f, x) /\ x # n
<1>1. Len(fs) \in Nat \ {0} /\ f = fs[Len(fs)] /\ f \in Frames(D) /\ f.src \in DOMAIN t
  BY OwesHere
<1>2. /\ Typed(t) /\ Linked(t) /\ Distinct(t) /\ Laid(t, f, s, d, flag)
  BY <1>1 DEF Mounting, Grounded, AllLaid
<1>3. n \in Names /\ t[f.child].name = n /\ f.child # Null BY DEF Turned
<1>4. f.child \in Range(t[f.src].children) BY <1>2, <1>3 DEF Laid
<1> QED BY <1>1, <1>2, <1>3, <1>4, OwedNext

\* No frame owes another for the turn.
LEMMA OwesStill ==
  ASSUME NEW t, NEW D, NEW fs, NEW B, NEW s, NEW d, NEW flag, Mounting(t, D, fs, B, s, d, flag),
         NEW f, f = Last(fs), NEW n, NEW u, Turned(t, u, f, n), NEW i \in 1..Len(fs)
  PROVE  /\ Stepped(u, fs[i]) = Stepped(t, fs[i])
         /\ \A x : Owed(u, Stepped(t, fs[i]), x) <=> Owed(t, Stepped(t, fs[i]), x)
<1>1. Len(fs) \in Nat \ {0} /\ f = fs[Len(fs)] /\ fs[i] \in Frames(D) /\ fs[i].src \in DOMAIN t
  BY OwesHere
<1>2. Grounded(t) /\ Typed(t) /\ AllLaid(t, fs, s, d, flag)
  BY DEF Mounting, Grounded
<1>3. fs[i].src # f.dst BY <1>1, <1>2, SourceApart DEF Mounting
<1>4. \A j \in DOMAIN t : u[j].name = t[j].name /\ (j # f.dst => u[j].children = t[j].children)
  BY DEF Turned
<1>5. u[fs[i].src].children = t[fs[i].src].children BY <1>1, <1>3, <1>4
<1>6. Stepped(t, fs[i]).src = fs[i].src BY <1>1, SteppedIs
<1> DEFINE g == Stepped(t, fs[i])
<1>7. u[g.src].children = t[g.src].children /\ g.src \in DOMAIN t
  BY <1>1, <1>5, <1>6
<1> HIDE DEF g
<1>8. \A x : Owed(u, g, x) <=> Owed(t, g, x) BY <1>2, <1>4, <1>7, OwedSame
<1>9. Stepped(u, fs[i]) = Stepped(t, fs[i]) BY <1>1, <1>2, <1>4, <1>5, OwedSame
<1> QED BY <1>8, <1>9 DEF g

\* When the last frame goes on, it has that name done, and no other.
LEMMA OwesAdvanced ==
  ASSUME NEW t, NEW D, NEW fs, NEW B, NEW s, NEW d, NEW flag, Mounting(t, D, fs, B, s, d, flag),
         NEW f, f = Last(fs), NEW n, NEW u, Turned(t, u, f, n), NEW gs, gs = Advance(u, fs)
  PROVE  \A x : \A i \in 1..Len(fs) : Owes(u, gs, i, x) <=> Owes(t, fs, i, x) /\ ~ (i = Len(fs) /\ x = n)
<1>1. /\ Len(fs) \in Nat \ {0} /\ f = fs[Len(fs)]
      /\ \A x : \A i \in 1..Len(fs) : /\ Stepped(u, fs[i]) = Stepped(t, fs[i])
                                      /\ Owed(u, Stepped(t, fs[i]), x) <=> Owed(t, Stepped(t, fs[i]), x)
      /\ \A x : Owed(t, Stepped(t, f), x) <=> Owed(t, f, x) /\ x # n
  BY OwesHere, OwesStill, OwesLess
<1>2. Len(gs) = Len(fs) /\ \A i \in 1..Len(fs) : gs[i] = IF i = Len(fs) THEN Stepped(u, fs[i]) ELSE fs[i]
  BY AdvanceIs DEF Mounting
<1> SUFFICES ASSUME NEW x, NEW i \in 1..Len(fs)
             PROVE  Owes(u, gs, i, x) <=> Owes(t, fs, i, x) /\ ~ (i = Len(fs) /\ x = n)
  OBVIOUS
<1>3. CASE i = Len(fs)
  <2>1. gs[i] = Stepped(t, f) /\ fs[i] = f /\ Stepped(t, fs[i]) = Stepped(t, f)
    BY <1>1, <1>2, <1>3
  <2>2. Owes(u, gs, i, x) <=> Owed(u, Stepped(t, f), x) BY <1>2, <1>3, <2>1 DEF Owes
  <2>3. Owes(t, fs, i, x) <=> Owed(t, f, x) BY <1>3, <2>1 DEF Owes
  <2>4. Owed(u, Stepped(t, f), x) <=> Owed(t, Stepped(t, f), x) BY <1>1, <2>1
  <2> QED BY <1>1, <1>3, <2>2, <2>3, <2>4
<1>4. CASE i # Len(fs) BY <1>1, <1>2, <1>4 DEF Owes
<1> QED BY <1>3, <1>4

\* The frames that another is put on do.
Atop(fs, gs, g) == Len(gs) = Len(fs) + 1 /\ gs[Len(gs)] = g /\ \A i \in 1..Len(fs) : gs[i] = fs[i]

\* So it is when another frame is put on it: it will go on from there.
LEMMA OwesDeeper ==
  ASSUME NEW t, NEW D, NEW fs, NEW B, NEW s, NEW d, NEW flag, Mounting(t, D, fs, B, s, d, flag),
         NEW f, f = Last(fs), NEW n, NEW u, Turned(t, u, f, n), NEW g, NEW gs, Atop(fs, gs, g)
  PROVE  \A x : \A i \in 1..Len(fs) : Owes(u, gs, i, x) <=> Owes(t, fs, i, x) /\ ~ (i = Len(fs) /\ x = n)
<1> SUFFICES ASSUME NEW x, NEW i \in 1..Len(fs)
             PROVE  Owes(u, gs, i, x) <=> Owes(t, fs, i, x) /\ ~ (i = Len(fs) /\ x = n)
  OBVIOUS
<1>1. Len(fs) \in Nat \ {0} /\ f = fs[Len(fs)] BY OwesHere
<1>2. Len(gs) = Len(fs) + 1 /\ gs[i] = fs[i] BY DEF Atop
<1>3. Stepped(u, fs[i]) = Stepped(t, fs[i]) /\ (Owed(u, Stepped(t, fs[i]), x) <=> Owed(t, Stepped(t, fs[i]), x))
  BY OwesStill
<1>4. i # Len(gs) BY <1>1, <1>2
<1>5. Owes(u, gs, i, x) <=> Owed(u, Stepped(t, fs[i]), x)
  BY <1>2, <1>3, <1>4 DEF Owes
<1>6. Owes(u, gs, i, x) <=> Owed(t, Stepped(t, fs[i]), x) BY <1>3, <1>5
<1>7. CASE i = Len(fs)
  <2>1. Owes(t, fs, i, x) <=> Owed(t, f, x) BY <1>1, <1>7 DEF Owes
  <2>2. fs[i] = f BY <1>1, <1>7
  <2>3. Owed(t, Stepped(t, f), x) <=> Owed(t, f, x) /\ x # n BY OwesLess
  <2> QED BY <1>6, <1>7, <2>1, <2>2, <2>3
<1>8. CASE i # Len(fs) BY <1>6, <1>8 DEF Owes
<1> QED BY <1>7, <1>8

\* The one that is put on them owes all that it is over.
LEMMA OwesAll ==
  ASSUME NEW t, NEW D, NEW fs, NEW B, NEW s, NEW d, NEW flag, Mounting(t, D, fs, B, s, d, flag),
         NEW f, f = Last(fs), NEW n, NEW u, Grounded(u), Turned(t, u, f, n), NEW g, NEW gs, Atop(fs, gs, g),
         Deeper(u, f, n, g)
  PROVE  \A x : Owes(u, gs, Len(gs), x) <=> \E c \in Range(u[g.src].children) : u[c].name = x
<1> SUFFICES ASSUME NEW x PROVE Owes(u, gs, Len(gs), x) <=> \E c \in Range(u[g.src].children) : u[c].name = x
  OBVIOUS
<1>1. Len(fs) \in Nat \ {0} /\ f = fs[Len(fs)] /\ gs[Len(gs)] = g
  BY OwesHere DEF Atop
<1>2. f.src_path \in Paths /\ n \in Names
  BY <1>1 DEF Mounting, AllLaid, Laid, Turned
<1>3. g.src_path \in Paths BY <1>2, PathCut DEF Deeper
<1>4. g.src \in DOMAIN u /\ g.child = FirstChild(u, g.src)
  BY <1>3, LookupIn DEF Deeper
<1>5. Owes(u, gs, Len(gs), x) <=> Owed(u, g, x) BY <1>1 DEF Owes
<1> QED BY <1>4, <1>5, OwedFirst DEF Grounded

\* What they have still to do when the last frame is done.
LEMMA OwesBack ==
  ASSUME NEW t, NEW D, NEW fs \in Seq(Frames(D)), Len(fs) > 1, Last(fs).child = Null, NEW es, es = Advance(t, Front(fs))
  PROVE  /\ Len(fs) \in Nat /\ Len(es) = Len(fs) - 1
         /\ \A i \in 1..Len(es) : es[i].src_path = fs[i].src_path /\ es[i].dst_path = fs[i].dst_path
         /\ \A x : \A i \in 1..Len(es) : Owes(t, es, i, x) <=> Owes(t, fs, i, x)
         /\ \A x : ~ Owes(t, fs, Len(fs), x)
<1> DEFINE hs == Front(fs)
           m == Len(fs) - 1
<1>1. /\ hs \in Seq(Frames(D)) /\ Len(hs) = m /\ m \in Nat \ {0} /\ Len(fs) \in Nat /\ hs # << >>
      /\ \A i \in 1..m : hs[i] = fs[i] /\ fs[i] \in Frames(D) /\ i # Len(fs)
  <2>1. hs = SubSeq(fs, 1, m) BY DEF Front
  <2>2. Len(fs) \in Nat /\ \A i \in 1..Len(fs) : fs[i] \in Frames(D) OBVIOUS
  <2>3. m \in Nat \ {0} /\ \A i \in 1..m : i \in 1..Len(fs) /\ i # Len(fs) BY <2>2
  <2> HIDE DEF hs
  <2>4. hs \in Seq(Frames(D)) /\ Len(hs) = m /\ \A i \in 1..m : hs[i] = fs[i]
    BY <2>1, <2>2, <2>3
  <2>5. hs # << >> BY <2>3, <2>4
  <2> QED BY <2>2, <2>3, <2>4, <2>5
<1> HIDE DEF hs, m
<1>2. Len(es) = m /\ \A i \in 1..m : es[i] = IF i = m THEN Stepped(t, hs[i]) ELSE hs[i]
  BY <1>1, AdvanceIs DEF hs
<1>3. ASSUME NEW i \in 1..m
      PROVE  /\ es[i].src_path = fs[i].src_path /\ es[i].dst_path = fs[i].dst_path
             /\ \A x : Owes(t, es, i, x) <=> Owes(t, fs, i, x)
  BY <1>1, <1>2, SteppedIs DEF Owes
<1>4. \A x : ~ Owes(t, fs, Len(fs), x) BY DEF Last, Owes, Owed
<1>5. Len(es) = Len(fs) - 1 BY <1>2 DEF m
<1> QED BY <1>1, <1>2, <1>3, <1>4, <1>5

\* The frames that were there are over the same paths and owe what they owed,
\* but for the name of the turn.
Onward(t, u, fs, gs, n) == \A i \in 1..Len(fs) :
  /\ gs[i].src_path = fs[i].src_path /\ gs[i].dst_path = fs[i].dst_path
  /\ \A x : Owes(u, gs, i, x) <=> Owes(t, fs, i, x) /\ ~ (i = Len(fs) /\ x = n)
\* And there may be one more, over the name.
Onto(t, u, fs, gs, f, n, g) ==
  /\ Len(gs) = Len(fs) + 1 /\ gs[Len(gs)] = g /\ Find(t, f.dst, n) = Null
  /\ Deeper(u, f, n, g)
  /\ \A x : Owes(u, gs, Len(gs), x) <=> \E c \in Range(u[g.src].children) : u[c].name = x

\* Either way the frames there were have the turn behind them.
LEMMA GoesOn ==
  ASSUME NEW t, NEW D, NEW fs, NEW B, NEW s, NEW d, NEW flag, Mounting(t, D, fs, B, s, d, flag),
         NEW f, f = Last(fs), NEW n, NEW u, Grounded(u), Turned(t, u, f, n), NEW gs, Went(t, u, f, n, fs, gs)
  PROVE  /\ Onward(t, u, fs, gs, n)
         /\ \/ /\ Len(gs) = Len(fs)
               /\ \/ Find(t, f.dst, n) # Null
                  \/ u[f.child].children = << >>
                  \/ Lookup(u, Truncated(Append(f.src_path, n))) = Null
            \/ \E g : Onto(t, u, fs, gs, f, n, g)
<1>1. fs \in Seq(Frames(D)) /\ fs # << >> BY DEF Mounting
<1>2. \A i \in 1..Len(fs) : fs[i] \in Frames(D) BY OwesHere
<1>3. ASSUME gs = Advance(u, fs)
      PROVE  Onward(t, u, fs, gs, n) /\ Len(gs) = Len(fs)
  BY <1>1, <1>2, <1>3, AdvanceIs, SteppedIs, OwesAdvanced DEF Onward
<1>4. ASSUME NEW g, gs = Append(fs, g), Deeper(u, f, n, g), Find(t, f.dst, n) = Null
      PROVE  Onward(t, u, fs, gs, n) /\ Onto(t, u, fs, gs, f, n, g)
  <2>1. Len(gs) = Len(fs) + 1 /\ gs[Len(gs)] = g /\ \A i \in 1..Len(fs) : gs[i] = fs[i]
    BY <1>1, <1>4
  <2>4. Atop(fs, gs, g) /\ Deeper(u, f, n, g) BY <1>4, <2>1 DEF Atop
  <2>2. \A x : \A i \in 1..Len(fs) : Owes(u, gs, i, x) <=> Owes(t, fs, i, x) /\ ~ (i = Len(fs) /\ x = n)
    BY <2>4, OwesDeeper
  <2>3. \A x : Owes(u, gs, Len(gs), x) <=> \E c \in Range(u[g.src].children) : u[c].name = x
    BY <2>4, OwesAll
  <2> QED BY <1>4, <2>1, <2>2, <2>3 DEF Onward, Onto
<1> QED BY <1>3, <1>4 DEF Went

\* What is known of a turn.
Turning(t, D, fs, B, s, d, flag, f, n, u) ==
  /\ Mounting(t, D, fs, B, s, d, flag) /\ f = Last(fs) /\ Grounded(u) /\ Turned(t, u, f, n)
  /\ Kept(t, B, d) /\ Overlaid(t, fs, B, s, d, flag) /\ Due(t, fs, B, d)

\* What there is to say of a turn.
LEMMA TurningIs ==
  ASSUME NEW t, NEW D, NEW fs, NEW B, NEW s, NEW d, NEW flag, NEW f, NEW n, NEW u,
         Turning(t, D, fs, B, s, d, flag, f, n, u)
  PROVE  /\ Len(fs) \in Nat \ {0} /\ f = fs[Len(fs)] /\ n \in Names /\ Owes(t, fs, Len(fs), n)
         /\ f.dst_path \in Paths /\ f.src_path \in Paths /\ IsPrefix(d, f.dst_path) /\ IsPrefix(s, f.src_path)
         /\ f.dst = Lookup(t, f.dst_path) /\ f.dst # Null /\ f.src = Lookup(t, f.src_path) /\ f.src # Null
         /\ f.before = flag /\ Level(s, d, f) /\ (f.dst_path = d \/ New(B, d, f.dst_path))
         /\ s \in Paths /\ d \in Paths
<1>1. Len(fs) \in Nat \ {0} /\ f = fs[Len(fs)] /\ n \in Names /\ Owes(t, fs, Len(fs), n)
  BY OwesHere DEF Turning
<1>2. Len(fs) \in 1..Len(fs) BY <1>1
<1>3. Laid(t, f, s, d, flag) /\ Level(s, d, f) /\ (f.dst_path = d \/ New(B, d, f.dst_path)) /\ Field(B, s, d)
  BY <1>1, <1>2 DEF Turning, Mounting, AllLaid, Piled
<1> QED BY <1>1, <1>3 DEF Laid, Field

\* What is written, and where.
LEMMA TurnShows ==
  ASSUME NEW t, NEW D, NEW fs, NEW B, NEW s, NEW d, NEW flag, NEW f, NEW n, NEW u,
         Turning(t, D, fs, B, s, d, flag, f, n, u)
  PROVE  \A q \in Paths :
           View(u)[q] = IF q = Append(f.dst_path, n) /\ (flag \/ View(t)[q] = Absent)
                        THEN t[f.child].val ELSE View(t)[q]
<1>1. f.before = flag BY TurningIs
<1> QED BY <1>1 DEF Turning, Turned

\* The child of a frame is the key that its path and its name lead to.
LEMMA ChildFound ==
  ASSUME NEW t, NEW D, NEW fs, NEW B, NEW s, NEW d, NEW flag, NEW f, NEW n, NEW u,
         Turning(t, D, fs, B, s, d, flag, f, n, u), Append(f.src_path, n) \in Paths
  PROVE  /\ Lookup(t, Append(f.src_path, n)) = f.child /\ f.child \in DOMAIN t /\ f.child # Null
         /\ View(t)[Append(f.src_path, n)] = t[f.child].val
<1>1. n \in Names /\ f.src_path \in Paths /\ f.src = Lookup(t, f.src_path) /\ f.src # Null
  BY TurningIs
<1>2. Grounded(t) /\ Typed(t) /\ Distinct(t) /\ t[f.child].name = n /\ f.child # Null
  BY DEF Turning, Mounting, Turned, Grounded
<1>3. f.src \in DOMAIN t BY <1>1, <1>2, LookupIn
<1>4. f.child \in Range(t[f.src].children) /\ f.child \in DOMAIN t
  <2>1. Len(fs) \in Nat \ {0} /\ f = fs[Len(fs)] BY TurningIs
  <2>2. Laid(t, f, s, d, flag) BY <2>1 DEF Turning, Mounting, AllLaid
  <2>3. f.child \in Range(t[f.src].children) BY <1>2, <2>2 DEF Laid
  <2> QED BY <1>2, <1>3, <2>3, ChildrenIn
<1>5. Find(t, f.src, n) = f.child BY <1>1, <1>2, <1>3, <1>4, FindSound DEF Distinct
<1>6. Lookup(t, Append(f.src_path, n)) = f.child BY <1>1, <1>5, LookupAppend
<1> QED BY <1>2, <1>4, <1>6, ViewAt

\* It holds what the source held there.
LEMMA ChildHolds ==
  ASSUME NEW t, NEW D, NEW fs, NEW B, NEW s, NEW d, NEW flag, NEW f, NEW n, NEW u,
         Turning(t, D, fs, B, s, d, flag, f, n, u), Append(f.src_path, n) \in Paths
  PROVE  B[Append(f.src_path, n)] = t[f.child].val
<1> DEFINE y == Append(f.src_path, n)
<1>1. View(t)[y] = t[f.child].val /\ y \in Paths BY ChildFound
<1>2. f.src_path \in Paths /\ IsPrefix(s, f.src_path) /\ n \in Names /\ s \in Paths
  BY TurningIs
<1>3. IsPrefix(s, y) /\ y # s
  <2>1. s \in Seq(Strings) /\ f.src_path \in Seq(Strings) /\ n \in Strings /\ y \in Seq(Strings)
        /\ Len(s) \in Nat /\ Len(f.src_path) \in Nat /\ Len(y) = Len(f.src_path) + 1
    BY <1>1, <1>2, PathIs DEF Strings
  <2>2. IsPrefix(s, y) BY <1>2, <2>1, PrefixAppend
  <2>3. Len(s) <= Len(f.src_path) BY <1>2, <2>1, PrefixIs
  <2> HIDE DEF y
  <2> QED BY <2>1, <2>2, <2>3
<1> HIDE DEF y
<1>4. Field(B, s, d) /\ Kept(t, B, d) /\ Overlaid(t, fs, B, s, d, flag)
  BY DEF Turning, Mounting
<1>5. View(t)[y] = B[y] BY <1>1, <1>3, <1>4, SourceStays
<1> QED BY <1>1, <1>5 DEF y

\* The path of a turn, if it is one, is the one below the frame's.
LEMMA TurnedPath ==
  ASSUME NEW p \in Paths, NEW n \in Names, NEW d \in Paths, IsPrefix(d, p)
  PROVE  /\ Len(Append(p, n)) = Len(p) + 1 /\ Len(p) \in Nat /\ Len(d) \in Nat /\ PathMax \in Nat
         /\ Len(d) <= Len(p) /\ Len(p) <= PathMax
         /\ IsPrefix(d, Append(p, n)) /\ Append(p, n) # d
         /\ \A q \in Paths, m \in Names : Append(q, m) = Append(p, n) => q = p /\ m = n
<1>1. p \in Seq(Strings) /\ d \in Seq(Strings) /\ n \in Strings /\ Len(p) \in Nat /\ Len(d) \in Nat
      /\ Len(p) <= PathMax /\ PathMax \in Nat
  BY PathIs, NullIsNone DEF Strings
<1>2. Len(Append(p, n)) = Len(p) + 1 BY <1>1
<1>3. Len(d) <= Len(p) BY <1>1, PrefixIs
<1>4. IsPrefix(d, Append(p, n)) BY <1>1, PrefixAppend
<1>5. Append(p, n) # d BY <1>1, <1>2, <1>3
<1>6. ASSUME NEW q \in Paths, NEW m \in Names, Append(q, m) = Append(p, n) PROVE q = p /\ m = n
  <2>1. q \in Seq(Strings) /\ m \in Strings BY PathIs DEF Strings
  <2> QED BY <1>1, <1>6, <2>1, AppendOne
<1> QED BY <1>1, <1>2, <1>3, <1>4, <1>5, <1>6

\* A frame that is put on is level.
LEMMA LevelBelow ==
  ASSUME NEW s \in Paths, NEW d \in Paths, NEW f, f.src_path \in Paths, f.dst_path \in Paths,
         IsPrefix(d, f.dst_path), IsPrefix(s, f.src_path), Level(s, d, f), NEW n \in Names, NEW g,
         g.src_path = Truncated(Append(f.src_path, n)), g.dst_path = Truncated(Append(f.dst_path, n))
  PROVE  Level(s, d, g)
<1> DEFINE p == f.dst_path
           y == f.src_path
<1>1. /\ Len(Append(p, n)) = Len(p) + 1 /\ Len(p) \in Nat /\ Len(d) \in Nat /\ PathMax \in Nat
      /\ Len(p) <= PathMax /\ IsPrefix(d, Append(p, n)) /\ Len(s) \in Nat
  BY TurnedPath, PathIs
<1>2. CASE Append(p, n) \notin Paths BY <1>2, PathCut DEF Level
<1>3. CASE Append(p, n) \in Paths
  <2>1. g.dst_path = Append(p, n) /\ Len(p) < PathMax BY <1>3, PathCut
  <2>2. CASE y = Across(s, d, p)
    <3>1. CASE Append(y, n) \in Paths
      <4>1. g.src_path = Append(y, n) BY <3>1, PathCut
      <4>2. Across(s, d, Append(p, n)) = Append(y, n) BY <2>2, AcrossNext
      <4> QED BY <2>1, <4>1, <4>2 DEF Level
    <3>2. CASE Append(y, n) \notin Paths
      <4>1. Len(y) = PathMax BY <3>2, PathCut
      <4>2. Len(y) = Len(s) + Len(p) - Len(d)
        <5>1. Len(Across(s, d, p)) = Len(s) + Len(p) - Len(d) BY AcrossIs, Zenon
        <5> HIDE DEF p, y
        <5> QED BY <2>2, <5>1
      <4> HIDE DEF p, y
      <4>3. Len(s) + Len(g.dst_path) - Len(d) > PathMax BY <1>1, <2>1, <4>1, <4>2
      <4> QED BY <4>3 DEF Level
    <3> QED BY <3>1, <3>2
  <2>3. CASE Len(p) = PathMax BY <1>1, <2>1, <2>3
  <2>4. CASE Len(s) + Len(p) - Len(d) > PathMax
    <3> HIDE DEF p, y
    <3>1. Len(s) + Len(g.dst_path) - Len(d) > PathMax BY <1>1, <2>1, <2>4
    <3> QED BY <3>1 DEF Level
  <2> QED BY <2>2, <2>3, <2>4 DEF Level
<1> QED BY <1>2, <1>3

\* It is over a path that was not there, if it is not over a path cut short.
LEMMA NewOver ==
  ASSUME NEW t, NEW D, NEW fs, NEW B, NEW s, NEW d, NEW flag, NEW f, NEW n, NEW u,
         Turning(t, D, fs, B, s, d, flag, f, n, u), Find(t, f.dst, n) = Null, Append(f.dst_path, n) \in Paths
  PROVE  /\ New(B, d, Append(f.dst_path, n)) /\ View(t)[Append(f.dst_path, n)] = Absent
         /\ \A q \in Paths : IsPrefix(Append(f.dst_path, n), q) => View(t)[q] = Absent
<1> DEFINE p == f.dst_path
           w == Append(p, n)
<1>1. /\ n \in Names /\ p \in Paths /\ d \in Paths /\ (p = d \/ New(B, d, p))
      /\ f.dst = Lookup(t, p) /\ f.dst # Null
  BY TurningIs
<1>2. Grounded(t) /\ Kept(t, B, d) BY DEF Turning, Mounting
<1>3. Lookup(t, w) = Null BY <1>1, LookupAppend
<1>4. \A q \in Paths : IsPrefix(w, q) => View(t)[q] = Absent
  BY <1>2, <1>3, NothingBelow, ViewAt
<1>5. View(t)[w] = Absent BY <1>2, <1>3, ViewAt
<1>6. New(B, d, w)
  <2>1. CASE New(B, d, p) BY <1>1, <2>1, NewBelow
  <2>2. CASE p = d
    <3>1. B[w] = Absent BY <1>2, <1>5 DEF Kept
    <3>2. IsPrefix(w, w)
      <4>1. w \in Seq(Strings) BY PathIs
      <4> HIDE DEF w
      <4> QED BY <4>1, PrefixIs
    <3> QED BY <1>1, <2>2, <3>1, <3>2 DEF New
  <2> QED BY <1>1, <2>1, <2>2
<1> QED BY <1>4, <1>5, <1>6

\* The frames stay piled.
LEMMA PiledOn ==
  ASSUME NEW t, NEW D, NEW fs, NEW B, NEW s, NEW d, NEW flag, NEW f, NEW n, NEW u,
         Turning(t, D, fs, B, s, d, flag, f, n, u), NEW gs, Onward(t, u, fs, gs, n),
         Len(gs) = Len(fs) \/ \E g : Onto(t, u, fs, gs, f, n, g)
  PROVE  Piled(gs, B, s, d)
<1> DEFINE l == Len(fs)
<1>1. Piled(fs, B, s, d) /\ l \in Nat \ {0} /\ f = fs[l] /\ n \in Names /\ f.dst_path \in Paths /\ f.src_path \in Paths
      /\ IsPrefix(d, f.dst_path) /\ IsPrefix(s, f.src_path) /\ Level(s, d, f) /\ s \in Paths /\ d \in Paths
      /\ (f.dst_path = d \/ New(B, d, f.dst_path))
  BY TurningIs DEF Turning, Mounting
<1>2. \A i \in 1..l : gs[i].src_path = fs[i].src_path /\ gs[i].dst_path = fs[i].dst_path
  BY DEF Onward
<1> HIDE DEF l
<1>3. gs[1].src_path = s /\ gs[1].dst_path = d BY <1>1, <1>2 DEF Piled
<1>4. \A i \in 1..l : Level(s, d, gs[i]) /\ (gs[i].dst_path = d \/ New(B, d, gs[i].dst_path))
  BY <1>1, <1>2 DEF Piled, l, Level
<1>5. \A i, j \in 1..l : i < j => Len(gs[i].dst_path) < Len(gs[j].dst_path) \/ Len(gs[j].dst_path) = PathMax
  BY <1>1, <1>2 DEF Piled, l
<1>6. CASE Len(gs) = l BY <1>3, <1>4, <1>5, <1>6 DEF Piled
<1>7. ASSUME NEW g, Onto(t, u, fs, gs, f, n, g) PROVE Piled(gs, B, s, d)
  <2> DEFINE k == l + 1
             p == f.dst_path
             w == Append(p, n)
  <2>1. /\ Len(gs) = k /\ gs[k] = g /\ Find(t, f.dst, n) = Null
        /\ g.src_path = Truncated(Append(f.src_path, n)) /\ g.dst_path = Truncated(w)
    BY <1>7 DEF Onto, Deeper, l
  <2>2. Level(s, d, g) BY <1>1, <2>1, LevelBelow
  <2>3. g.dst_path = d \/ New(B, d, g.dst_path)
    <3>1. CASE w \in Paths
      <4>1. New(B, d, w) BY <2>1, <3>1, NewOver
      <4> QED BY <1>1, <2>1, <3>1, <4>1, PathCut
    <3>2. CASE w \notin Paths BY <1>1, <2>1, <3>2, PathCut
    <3> QED BY <3>1, <3>2
  <2>4. ASSUME NEW i \in 1..l
        PROVE  Len(gs[i].dst_path) < Len(g.dst_path) \/ Len(g.dst_path) = PathMax
    <3>1. CASE w \notin Paths BY <1>1, <2>1, <3>1, PathCut
    <3>2. CASE w \in Paths
      <4>1. g.dst_path = w /\ Len(p) < PathMax BY <1>1, <2>1, <3>2, PathCut
      <4>2. Len(w) = Len(p) + 1 /\ Len(p) \in Nat BY <1>1, TurnedPath
      <4>3. gs[l].dst_path = p BY <1>1, <1>2
      <4>4. Len(gs[i].dst_path) \in Nat
        BY <1>1, <1>2, PathIs DEF Turning, Mounting, AllLaid, l, Laid
      <4> HIDE DEF p, w
      <4>5. CASE i = l BY <4>1, <4>2, <4>3, <4>5
      <4>6. CASE i # l
        <5>1. i < l /\ l \in 1..l BY <1>1, <4>6
        <5>2. Len(gs[i].dst_path) < Len(p) \/ Len(p) = PathMax BY <1>5, <4>3, <5>1
        <5>3. Len(p) # PathMax /\ PathMax \in Nat BY <4>1, <4>2, NullIsNone
        <5>4. Len(gs[i].dst_path) < Len(p) BY <5>2, <5>3
        <5> QED BY <4>1, <4>2, <4>4, <5>4
      <4> QED BY <4>5, <4>6
    <3> QED BY <3>1, <3>2
  <2>5. k \in 1..k /\ k \notin 1..l /\ (\A i \in 1..k : i = k \/ i \in 1..l) /\ (\A i \in 1..k : ~ (k < i))
        /\ (\A i \in 1..l : i # k)
    BY <1>1
  <2> HIDE DEF k, p, w
  <2>6. \A i \in 1..k : Level(s, d, gs[i]) /\ (gs[i].dst_path = d \/ New(B, d, gs[i].dst_path))
    BY <1>4, <2>1, <2>2, <2>3, <2>5
  <2>7. ASSUME NEW i \in 1..k, NEW j \in 1..k, i < j
        PROVE  Len(gs[i].dst_path) < Len(gs[j].dst_path) \/ Len(gs[j].dst_path) = PathMax
    BY <1>5, <2>1, <2>4, <2>5, <2>7
  <2> QED BY <1>3, <2>1, <2>6, <2>7 DEF Piled
<1> QED BY <1>6, <1>7 DEF l

\* What has still to be made is still not there.
LEMMA DueOn ==
  ASSUME NEW t, NEW D, NEW fs, NEW B, NEW s, NEW d, NEW flag, NEW f, NEW n, NEW u,
         Turning(t, D, fs, B, s, d, flag, f, n, u), NEW gs, Onward(t, u, fs, gs, n),
         Len(gs) = Len(fs) \/ \E g : Onto(t, u, fs, gs, f, n, g)
  PROVE  Due(u, gs, B, d)
<1> DEFINE l == Len(fs)
           p == f.dst_path
           w == Append(p, n)
<1>1. Piled(fs, B, s, d) /\ l \in Nat \ {0} /\ f = fs[l] /\ n \in Names /\ p \in Paths /\ d \in Paths
      /\ IsPrefix(d, p)
  BY TurningIs DEF Turning, Mounting
<1>2. \A q \in Paths : q # w => View(u)[q] = View(t)[q] BY TurnShows
<1>3. /\ Len(w) = Len(p) + 1 /\ Len(p) \in Nat
      /\ \A q \in Paths, m \in Names : Append(q, m) = w => q = p /\ m = n
  BY <1>1, TurnedPath
<1>4. ASSUME NEW i \in 1..l, NEW x \in Names, Owes(u, gs, i, x), Append(gs[i].dst_path, x) \in Paths,
             New(B, d, Append(gs[i].dst_path, x))
      PROVE  View(u)[Append(gs[i].dst_path, x)] = Absent
  <2> DEFINE e == fs[i].dst_path
             a == Append(e, x)
  <2>1. gs[i].dst_path = e /\ Owes(t, fs, i, x) /\ ~ (i = l /\ x = n)
    BY <1>4 DEF Onward
  <2>2. View(t)[a] = Absent BY <1>4, <2>1 DEF Turning, Due
  <2>3. a # w
    <3> SUFFICES ASSUME a = w PROVE FALSE OBVIOUS
    <3>1. e \in Paths BY DEF Turning, Mounting, AllLaid, Laid
    <3>2. e = p /\ x = n BY <1>3, <3>1
    <3>3. i < l /\ l \in 1..l BY <1>1, <2>1, <3>2
    <3>4. Len(e) < Len(p) \/ Len(p) = PathMax BY <1>1, <3>3 DEF Piled
    <3>5. Len(p) < PathMax BY <1>1, <1>4, <2>1, <3>2, PathCut
    <3> HIDE DEF p, e
    <3>6. PathMax \in Nat BY NullIsNone
    <3> QED BY <1>3, <3>2, <3>4, <3>5, <3>6
  <2>4. Append(gs[i].dst_path, x) = a /\ a \in Paths BY <1>4, <2>1
  <2> HIDE DEF a, e, w
  <2> QED BY <1>2, <2>2, <2>3, <2>4
<1>5. CASE Len(gs) = l BY <1>4, <1>5 DEF Due
<1>6. ASSUME NEW g, Onto(t, u, fs, gs, f, n, g) PROVE Due(u, gs, B, d)
  <2> DEFINE k == l + 1
  <2>1. Len(gs) = k /\ gs[k] = g /\ Find(t, f.dst, n) = Null /\ g.dst_path = Truncated(w)
    BY <1>6 DEF Onto, Deeper
  <2>2. ASSUME NEW x \in Names, Append(g.dst_path, x) \in Paths
        PROVE  View(u)[Append(g.dst_path, x)] = Absent
    <3>1. CASE w \notin Paths
      <4>1. g.dst_path = p /\ Len(p) = PathMax BY <1>1, <2>1, <3>1, PathCut
      <4>2. Len(p) < PathMax BY <1>1, <2>2, <4>1, PathCut
      <4> HIDE DEF p
      <4>3. PathMax \in Nat BY NullIsNone
      <4> QED BY <4>1, <4>2, <4>3
    <3>2. CASE w \in Paths
      <4> DEFINE a == Append(w, x)
      <4>1. g.dst_path = w /\ a \in Paths BY <1>1, <2>1, <2>2, <3>2, PathCut
      <4>2. w \in Seq(Strings) /\ x \in Strings /\ Len(w) \in Nat
        BY <3>2, PathIs DEF Strings
      <4>3. IsPrefix(w, a) /\ a # w
        <5> HIDE DEF w
        <5>1. IsPrefix(w, a) /\ Len(a) = Len(w) + 1 BY <4>2, PrefixAppend
        <5> QED BY <4>2, <5>1
      <4>4. View(t)[a] = Absent BY <2>1, <3>2, <4>1, <4>3, NewOver
      <4> QED BY <1>2, <4>1, <4>3, <4>4
    <3> QED BY <3>1, <3>2
  <2>3. \A i \in 1..k : i = k \/ i \in 1..l BY <1>1
  <2> HIDE DEF k, l, p, w
  <2> QED BY <1>4, <2>1, <2>2, <2>3 DEF Due
<1> QED BY <1>5, <1>6

\* A new path that has been promised by a turn and is not made by it is
\* promised by the frame that the turn puts on.
LEMMA PromiseGoesDown ==
  ASSUME NEW t, NEW D, NEW fs, NEW B, NEW s, NEW d, NEW flag, NEW f, NEW n, NEW u,
         Turning(t, D, fs, B, s, d, flag, f, n, u), NEW gs,
         \/ /\ Len(gs) = Len(fs)
            /\ \/ Find(t, f.dst, n) # Null
               \/ u[f.child].children = << >>
               \/ Lookup(u, Truncated(Append(f.src_path, n))) = Null
         \/ \E g : Onto(t, u, fs, gs, f, n, g),
         NEW q \in Paths, New(B, d, q), Across(s, d, q) \in Paths, Promises(f, s, d, n, q), q # Append(f.dst_path, n)
  PROVE  \/ View(u)[q] = B[Across(s, d, q)]
         \/ \E m \in Names : Len(gs) = Len(fs) + 1 /\ Owes(u, gs, Len(gs), m) /\ Promises(gs[Len(gs)], s, d, m, q)
<1> DEFINE p == f.dst_path
           w == Append(p, n)
           y == Append(f.src_path, n)
           c == f.child
           x == Across(s, d, q)
<1>1. /\ n \in Names /\ p \in Paths /\ d \in Paths /\ s \in Paths /\ f.src_path \in Paths
      /\ IsPrefix(d, p) /\ IsPrefix(s, f.src_path) /\ (p = d \/ New(B, d, p))
      /\ f.dst = Lookup(t, p) /\ f.dst # Null /\ Owes(t, fs, Len(fs), n) /\ Len(fs) \in Nat \ {0} /\ f = fs[Len(fs)]
  BY TurningIs
<1>2. w \in Paths /\ IsPrefix(w, q) /\ f.src_path = Across(s, d, p) BY DEF Promises
<1>3. IsPrefix(d, w) /\ w \in Seq(Strings) /\ q \in Seq(Strings) /\ d \in Seq(Strings)
  BY <1>1, <1>2, TurnedPath, PathIs
<1>4. y = Across(s, d, w) /\ IsPrefix(y, x) /\ y \in Paths
  <2>1. y = Across(s, d, w)
    <3>1. Across(s, d, w) = Append(Across(s, d, p), n) BY <1>1, AcrossNext
    <3> QED BY <1>2, <3>1
  <2>2. IsPrefix(Across(s, d, w), x) BY <1>1, <1>2, <1>3, AcrossBelow
  <2>3. y \in Seq(Names) BY <1>1, PathIs
  <2>4. Len(y) <= Len(x) /\ Len(x) <= PathMax /\ Len(x) \in Nat /\ PathMax \in Nat /\ Len(y) \in Nat
    <3>1. x \in Seq(Strings) /\ Len(x) \in Nat /\ Len(x) <= PathMax /\ PathMax \in Nat
      BY PathIs, NullIsNone
    <3>2. y \in Seq(Strings) /\ Len(y) \in Nat BY <1>1, <2>1, <1>2, <1>3, AcrossIs
    <3>3. IsPrefix(y, x) BY <2>1, <2>2
    <3> HIDE DEF x, y
    <3>4. Len(y) <= Len(x) BY <3>1, <3>2, <3>3, PrefixIs
    <3> QED BY <3>1, <3>2, <3>4
  <2>5. y \in Paths
    <3> HIDE DEF x, y
    <3>1. Len(y) <= PathMax BY <2>4
    <3> QED BY <2>3, <3>1, PathsAre
  <2> QED BY <2>1, <2>2, <2>5
<1>5. Grounded(t) /\ Grounded(u) /\ Kept(t, B, d) /\ Overlaid(t, fs, B, s, d, flag) /\ Due(t, fs, B, d) /\ Field(B, s, d)
      /\ Turned(t, u, f, n)
  BY DEF Turning, Mounting
<1>6. New(B, d, w) BY <1>1, <1>2, NewBelow
<1>7. View(t)[w] = Absent BY <1>1, <1>2, <1>5, <1>6 DEF Due
<1>8. Lookup(t, w) = Null BY <1>2, <1>5, <1>7, ViewAt
<1>9. View(u)[q] = Absent BY <1>2, <1>5, <1>8, NothingBelow, ViewAt, TurnShows
<1>10. CASE B[x] = Absent BY <1>9, <1>10
<1>11. CASE B[x] # Absent
  <2>1. Lookup(t, y) = c /\ c \in DOMAIN t /\ c # Null
    <3>1. Append(f.src_path, n) \in Paths /\ Turning(t, D, fs, B, s, d, flag, f, n, u)
      BY <1>4
    <3> QED BY <3>1, ChildFound
  <2>2. PICK m \in Names : Append(w, m) \in Paths /\ IsPrefix(Append(w, m), q)
    BY <1>2, NextName
  <2>3. x # s /\ IsPrefix(s, x)
    <3>1. s \in Seq(Strings) /\ Len(s) \in Nat /\ f.src_path \in Seq(Strings) /\ Len(f.src_path) \in Nat
          /\ n \in Strings
      BY <1>1, PathIs DEF Strings
    <3>2. IsPrefix(s, y) /\ Len(y) = Len(f.src_path) + 1 /\ Len(s) <= Len(f.src_path)
      BY <1>1, <3>1, PrefixAppend, PrefixIs
    <3>3. y \in Seq(Strings) /\ x \in Seq(Strings) /\ Len(x) \in Nat BY <1>4, PathIs
    <3> HIDE DEF x, y
    <3>4. IsPrefix(s, x) BY <1>4, <3>1, <3>2, <3>3, PrefixLine
    <3>5. Len(y) <= Len(x) BY <1>4, <3>3, PrefixLine
    <3> QED BY <3>1, <3>2, <3>4, <3>5
  <2>4. View(t)[x] # Absent BY <1>5, <1>11, <2>3, SourceStays
  <2>5. Lookup(t, x) # Null BY <1>5, <2>4, ViewAt
  <2> DEFINE z == Append(y, m)
  <2>6. IsPrefix(z, x) /\ z \in Paths
    <3>1. IsPrefix(d, Append(w, m)) BY <1>1, <1>2, <1>3, TurnedPath
    <3>2. Across(s, d, Append(w, m)) = z BY <1>1, <1>2, <1>3, <1>4, AcrossNext
    <3>3. IsPrefix(z, x)
      <4>1. IsPrefix(Across(s, d, Append(w, m)), Across(s, d, q))
        BY <1>1, <2>2, <3>1, AcrossBelow
      <4> QED BY <3>2, <4>1
    <3>4. z \in Seq(Names) /\ z \in Seq(Strings) /\ Len(z) \in Nat
      <4>1. y \in Seq(Names) /\ y \in Seq(Strings) /\ m \in Strings
        BY <1>4, PathIs DEF Strings
      <4> HIDE DEF y
      <4> QED BY <4>1
    <3>5. x \in Seq(Strings) /\ Len(x) \in Nat /\ Len(x) <= PathMax /\ PathMax \in Nat
      BY PathIs, NullIsNone
    <3> HIDE DEF x, z
    <3>6. Len(z) <= Len(x) BY <3>3, <3>4, <3>5, PrefixIs
    <3>7. Len(z) <= PathMax BY <3>4, <3>5, <3>6
    <3> QED BY <3>3, <3>4, <3>7, PathsAre
  <2>7. Lookup(t, z) # Null BY <2>5, <2>6, NothingBelow
  <2>8. PICK e : e \in Range(t[c].children) /\ t[e].name = m /\ e \in DOMAIN t
    BY <1>4, <1>5, <2>1, <2>6, <2>7, LookupDown DEF ChildOf
  <2>9. c # f.dst
    <3>1. ~ IsPrefix(s, p) BY <1>1, <1>5, NewApart
    <3>2. IsPrefix(s, y) BY <1>1, PathIs, PrefixAppend DEF Strings
    <3> QED BY <1>1, <1>4, <1>5, <2>1, <3>1, <3>2, OnePath
  <2>10. u[c].children = t[c].children /\ u[e].name = m
    BY <1>5, <2>1, <2>8, <2>9 DEF Turned
  <2>11. u[c].children # << >> BY <2>8, <2>10 DEF Range
  <2>12. Truncated(y) = y /\ Lookup(u, y) = c BY <1>4, <1>5, <2>1, PathIs DEF Turned
  <2>13. Find(t, f.dst, n) = Null BY <1>1, <1>2, <1>8, LookupAppend
  <2>14. PICK g : Onto(t, u, fs, gs, f, n, g) BY <2>1, <2>11, <2>12, <2>13
  <2>15. /\ Len(gs) = Len(fs) + 1 /\ gs[Len(gs)] = g /\ g.src_path = y /\ g.dst_path = w /\ g.src = c
         /\ \A a : Owes(u, gs, Len(gs), a) <=> \E b \in Range(u[g.src].children) : u[b].name = a
    <3>1. /\ Len(gs) = Len(fs) + 1 /\ gs[Len(gs)] = g
          /\ \A a : Owes(u, gs, Len(gs), a) <=> \E b \in Range(u[g.src].children) : u[b].name = a
      BY <2>14 DEF Onto
    <3>2. g.src_path = Truncated(y) /\ g.dst_path = Truncated(w) /\ g.src = Lookup(u, g.src_path)
      BY <2>14 DEF Onto, Deeper
    <3>3. Truncated(w) = w BY <1>2, PathIs
    <3> QED BY <2>12, <3>1, <3>2, <3>3
  <2>16. Owes(u, gs, Len(gs), m) BY <2>8, <2>10, <2>15
  <2>17. Promises(gs[Len(gs)], s, d, m, q) BY <1>4, <2>2, <2>15 DEF Promises
  <2> QED BY <2>15, <2>16, <2>17
<1> QED BY <1>10, <1>11

\* What is new is copied, or is still to be: a turn that makes a key goes on
\* below it unless there is nothing to copy.
LEMMA CopiedOn ==
  ASSUME NEW t, NEW D, NEW fs, NEW B, NEW s, NEW d, NEW flag, NEW f, NEW n, NEW u,
         Turning(t, D, fs, B, s, d, flag, f, n, u), NEW gs, Onward(t, u, fs, gs, n),
         \/ /\ Len(gs) = Len(fs)
            /\ \/ Find(t, f.dst, n) # Null
               \/ u[f.child].children = << >>
               \/ Lookup(u, Truncated(Append(f.src_path, n))) = Null
         \/ \E g : Onto(t, u, fs, gs, f, n, g),
         Copied(t, fs, B, s, d)
  PROVE  Copied(u, gs, B, s, d)
<1> DEFINE l == Len(fs)
           p == f.dst_path
           w == Append(p, n)
<1>1. /\ n \in Names /\ p \in Paths /\ d \in Paths /\ s \in Paths /\ f.src_path \in Paths
      /\ IsPrefix(d, p) /\ Owes(t, fs, l, n) /\ l \in Nat \ {0} /\ f = fs[l] /\ Level(s, d, f)
  BY TurningIs
<1>2. \A q \in Paths : View(u)[q] = IF q = w /\ (flag \/ View(t)[q] = Absent) THEN t[f.child].val ELSE View(t)[q]
  BY TurnShows
<1>3. Len(gs) \in Nat /\ l <= Len(gs) BY <1>1 DEF Onto
<1> SUFFICES ASSUME NEW q \in Paths, New(B, d, q), Across(s, d, q) \in Paths
             PROVE  \/ View(u)[q] = B[Across(s, d, q)]
                    \/ \E i \in 1..Len(gs), m \in Names : Owes(u, gs, i, m) /\ Promises(gs[i], s, d, m, q)
  BY DEF Copied
<1>4. CASE q = w
  <2>1. View(t)[w] = Absent BY <1>1, <1>4 DEF Turning, Due
  <2>2. f.src_path = Across(s, d, p)
    <3>1. Len(p) # PathMax
      <4>1. Len(p) < PathMax BY <1>1, <1>4, PathCut
      <4>2. PathMax \in Nat /\ Len(p) \in Nat BY <1>1, PathIs, NullIsNone
      <4> HIDE DEF p
      <4> QED BY <4>1, <4>2
    <3>2. ~ (Len(s) + Len(p) - Len(d) > PathMax)
      <4>1. Len(Across(s, d, w)) = Len(s) + Len(w) - Len(d)
        <5>1. IsPrefix(d, w) BY <1>1, TurnedPath
        <5>2. w \in Paths BY <1>4
        <5> HIDE DEF w
        <5> QED BY <1>1, <5>1, <5>2, AcrossIs
      <4>2. Len(Across(s, d, w)) <= PathMax BY <1>4, PathIs
      <4>3. Len(w) = Len(p) + 1 /\ Len(p) \in Nat /\ Len(d) \in Nat /\ PathMax \in Nat
        BY <1>1, TurnedPath
      <4>4. Len(s) \in Nat BY <1>1, PathIs
      <4> HIDE DEF p, w
      <4> QED BY <4>1, <4>2, <4>3, <4>4
    <3> QED BY <1>1, <3>1, <3>2 DEF Level
  <2>3. Across(s, d, q) = Append(f.src_path, n)
    <3>1. Across(s, d, w) = Append(Across(s, d, p), n) BY <1>1, AcrossNext
    <3> QED BY <1>4, <2>2, <3>1
  <2>4. B[Append(f.src_path, n)] = t[f.child].val BY <2>3, ChildHolds
  <2> QED BY <1>2, <1>4, <2>1, <2>3, <2>4
<1>5. CASE q # w
  <2>1. View(u)[q] = View(t)[q] BY <1>2, <1>5
  <2>2. CASE View(t)[q] = B[Across(s, d, q)] BY <2>1, <2>2
  <2>3. ASSUME NEW i \in 1..l, NEW m \in Names, Owes(t, fs, i, m), Promises(fs[i], s, d, m, q), ~ (i = l /\ m = n)
        PROVE  \E j \in 1..Len(gs), x \in Names : Owes(u, gs, j, x) /\ Promises(gs[j], s, d, x, q)
    BY <1>1, <1>3, <2>3 DEF Onward, Promises
  <2>4. CASE Promises(f, s, d, n, q)
    <3>1. \/ View(u)[q] = B[Across(s, d, q)]
          \/ \E m \in Names : Len(gs) = Len(fs) + 1 /\ Owes(u, gs, Len(gs), m) /\ Promises(gs[Len(gs)], s, d, m, q)
      BY <1>5, <2>4, PromiseGoesDown
    <3>2. Len(gs) = Len(fs) + 1 => Len(gs) \in 1..Len(gs) BY <1>1
    <3> QED BY <3>1, <3>2
  <2>5. \/ View(t)[q] = B[Across(s, d, q)]
        \/ \E i \in 1..l, m \in Names : Owes(t, fs, i, m) /\ Promises(fs[i], s, d, m, q)
    BY DEF Copied
  <2> QED BY <1>1, <2>2, <2>3, <2>4, <2>5
<1> QED BY <1>4, <1>5

\* Only the values of the children that the destination had change.
LEMMA OverlaidOn ==
  ASSUME NEW t, NEW D, NEW fs, NEW B, NEW s, NEW d, NEW flag, NEW f, NEW n, NEW u,
         Turning(t, D, fs, B, s, d, flag, f, n, u), NEW gs, Onward(t, u, fs, gs, n)
  PROVE  Overlaid(u, gs, B, s, d, flag)
<1> DEFINE l == Len(fs)
           p == f.dst_path
           w == Append(p, n)
           v == t[f.child].val
<1>1. /\ n \in Names /\ p \in Paths /\ d \in Paths /\ s \in Paths /\ (p = d \/ New(B, d, p))
      /\ IsPrefix(d, p) /\ l \in Nat \ {0} /\ f = fs[l] /\ Level(s, d, f)
  BY TurningIs
<1>2. \A q \in Paths : View(u)[q] = IF q = w /\ (flag \/ View(t)[q] = Absent) THEN v ELSE View(t)[q]
  BY TurnShows
<1>3. Overlaid(t, fs, B, s, d, flag) /\ Kept(t, B, d) /\ Piled(fs, B, s, d)
  BY DEF Turning, Mounting
<1>4. 1 \in 1..l /\ fs[1].dst_path = d /\ \A x : Owes(u, gs, 1, x) <=> Owes(t, fs, 1, x) /\ ~ (1 = l /\ x = n)
  <2>1. 1 \in 1..l BY <1>1
  <2> QED BY <1>3, <2>1 DEF Onward, Piled
<1> HIDE DEF v
<1> SUFFICES ASSUME NEW x \in Names, Append(d, x) \in Paths, B[Append(d, x)] # Absent
             PROVE  /\ ~ flag => View(u)[Append(d, x)] = B[Append(d, x)]
                    /\ flag /\ Append(s, x) \in Paths =>
                         \/ View(u)[Append(d, x)] = IF B[Append(s, x)] = Absent THEN B[Append(d, x)] ELSE B[Append(s, x)]
                         \/ Owes(u, gs, 1, x)
                    /\ \A q \in Paths : IsPrefix(Append(d, x), q) /\ q # Append(d, x) => View(u)[q] = B[q]
  BY DEF Overlaid
<1> DEFINE e == Append(d, x)
           y == Append(s, x)
           to == IF B[y] = Absent THEN B[e] ELSE B[y]
<1>5. /\ ~ flag => View(t)[e] = B[e]
      /\ flag /\ y \in Paths => View(t)[e] = to \/ Owes(t, fs, 1, x)
      /\ \A q \in Paths : IsPrefix(e, q) /\ q # e => View(t)[q] = B[q]
      /\ e \in Paths /\ B[e] # Absent
  BY <1>3 DEF Overlaid
<1>6. View(t)[e] # Absent BY <1>3, <1>5 DEF Kept
<1>7. \A q \in Paths, m \in Names : Append(q, m) = w => q = p /\ m = n
  BY <1>1, TurnedPath
<1>8. e \in Seq(Strings) /\ d \in Seq(Strings) /\ p \in Seq(Strings) /\ x \in Strings /\ n \in Strings /\ Len(d) \in Nat
      /\ Len(e) = Len(d) + 1
  BY <1>1, <1>5, PathIs DEF Strings
<1>9. e # w \/ (p = d /\ x = n) BY <1>1, <1>7
<1>10. ASSUME flag, y \in Paths PROVE View(u)[e] = to \/ Owes(u, gs, 1, x)
  <2>1. CASE e = w
    <3>1. p = d /\ x = n BY <1>9, <2>1
    <3>2. f.src_path = s
      <4>1. Across(s, d, d) = s BY <1>1, <1>8, PrefixAppend, AcrossIs
      <4>2. Len(d) < PathMax /\ PathMax \in Nat /\ Len(s) \in Nat /\ Len(s) <= PathMax
        BY <1>1, <1>5, PathCut, PathIs, NullIsNone
      <4>3. f.src_path = s \/ Len(d) = PathMax \/ Len(s) + Len(d) - Len(d) > PathMax
        BY <1>1, <3>1, <4>1 DEF Level
      <4> QED BY <1>8, <4>2, <4>3
    <3>3. B[y] = v
      <4>1. Append(f.src_path, n) \in Paths BY <1>10, <3>1, <3>2
      <4>2. B[Append(f.src_path, n)] = t[f.child].val BY <4>1, ChildHolds
      <4> QED BY <3>1, <3>2, <4>2 DEF v
    <3>4. View(u)[e] = v BY <1>2, <1>5, <1>10, <2>1
    <3>5. v # Absent
      BY <1>10, <3>1, <3>2, ChildFound, ValueThere DEF Turning, Mounting, Grounded, v
    <3> QED BY <3>3, <3>4, <3>5
  <2>2. CASE e # w BY <1>1, <1>2, <1>4, <1>5, <1>10, <2>2
  <2> QED BY <2>1, <2>2
<1>11. ASSUME NEW q \in Paths, IsPrefix(e, q), q # e PROVE View(u)[q] = B[q]
  <2>1. q # w
    <3> SUFFICES ASSUME q = w PROVE FALSE OBVIOUS
    <3>1. w \in Seq(Strings) /\ Len(w) = Len(p) + 1 /\ Len(p) \in Nat
      BY <1>1, <1>8, <1>11, PathIs
    <3>2. Len(e) < Len(w)
      <4> HIDE DEF e, w
      <4> QED BY <1>8, <1>11, <3>1, PrefixLine
    <3>3. CASE p = d BY <1>8, <3>1, <3>2, <3>3
    <3>4. CASE New(B, d, p)
      <4>1. PICK m \in Names : Append(d, m) \in Paths /\ IsPrefix(Append(d, m), p) /\ B[Append(d, m)] = Absent
        BY <3>4 DEF New
      <4> DEFINE a == Append(d, m)
      <4>2. a \in Seq(Strings) /\ Len(a) = Len(d) + 1 /\ IsPrefix(a, p)
        BY <1>8, <4>1 DEF Strings
      <4>3. IsPrefix(e, p)
        <5>1. IsPrefix(e, w) /\ e # w BY <1>11
        <5> HIDE DEF e
        <5> QED BY <1>8, <5>1, PrefixAppend
      <4>4. a = e
        <5>1. Len(a) <= Len(e) BY <1>8, <4>2
        <5> HIDE DEF a, e
        <5>2. IsPrefix(a, e) BY <1>8, <4>2, <4>3, <5>1, PrefixLine
        <5>3. Len(e) <= Len(a) BY <1>8, <4>2
        <5> QED BY <1>8, <4>2, <5>2, <5>3, PrefixLine
      <4> QED BY <1>5, <4>1, <4>4
    <3> QED BY <1>1, <3>3, <3>4
  <2> QED BY <1>2, <1>5, <1>11, <2>1
<1>12. ASSUME ~ flag PROVE View(u)[e] = B[e] BY <1>2, <1>5, <1>6, <1>12
<1> HIDE DEF w, p
<1> QED BY <1>10, <1>11, <1>12, Zenon

\* So a turn keeps all of it.
LEMMA FilledOn ==
  ASSUME NEW t, Grounded(t), Distinct(t), NEW D, NEW fs \in Seq(Frames(D)), fs # << >>, NEW B, NEW s, NEW d, NEW flag,
         AllLaid(t, fs, s, d, flag), Kept(t, B, d), Filled(t, fs, B, s, d, flag), NEW f, f = Last(fs), NEW n,
         NEW u, Grounded(u), Turned(t, u, f, n), NEW gs, Went(t, u, f, n, fs, gs)
  PROVE  Filled(u, gs, B, s, d, flag)
<1>1. Mounting(t, D, fs, B, s, d, flag) BY DEF Mounting, Filled
<1>2. Turning(t, D, fs, B, s, d, flag, f, n, u) BY <1>1 DEF Turning, Filled
<1>3. Onward(t, u, fs, gs, n) BY <1>1, GoesOn
<1>4. \/ /\ Len(gs) = Len(fs)
         /\ \/ Find(t, f.dst, n) # Null
            \/ u[f.child].children = << >>
            \/ Lookup(u, Truncated(Append(f.src_path, n))) = Null
      \/ \E g : Onto(t, u, fs, gs, f, n, g)
  BY <1>1, GoesOn
<1>5. Len(gs) = Len(fs) \/ \E g : Onto(t, u, fs, gs, f, n, g) BY <1>4
<1>6. Field(B, s, d) /\ Copied(t, fs, B, s, d) BY DEF Filled
<1>7. Piled(gs, B, s, d) BY <1>2, <1>3, <1>5, PiledOn
<1>8. Copied(u, gs, B, s, d) BY <1>2, <1>3, <1>4, <1>6, CopiedOn
<1>9. Due(u, gs, B, d) BY <1>2, <1>3, <1>5, DueOn
<1>10. Overlaid(u, gs, B, s, d, flag) BY <1>2, <1>3, OverlaidOn
<1> QED BY <1>6, <1>7, <1>8, <1>9, <1>10 DEF Filled

\* It stays known when the last frame is done with.
LEMMA FilledBack ==
  ASSUME NEW t, NEW D, NEW fs \in Seq(Frames(D)), Len(fs) > 1, Last(fs).child = Null, NEW B, NEW s, NEW d, NEW flag,
         Filled(t, fs, B, s, d, flag), NEW es, es = Advance(t, Front(fs))
  PROVE  Filled(t, es, B, s, d, flag)
<1> DEFINE l == Len(fs)
           m == Len(es)
<1>1. l \in Nat /\ m = l - 1 BY OwesBack
<1>2. \A i \in 1..m : es[i].src_path = fs[i].src_path /\ es[i].dst_path = fs[i].dst_path
  BY OwesBack
<1>3. \A x : \A i \in 1..m : Owes(t, es, i, x) <=> Owes(t, fs, i, x) BY OwesBack
<1>4. \A x : ~ Owes(t, fs, l, x) BY OwesBack
<1>5. m \in Nat \ {0} /\ 1 \in 1..m /\ (\A i \in 1..m : i \in 1..l) /\ (\A i \in 1..l : i = l \/ i \in 1..m)
  BY <1>1
<1>6. Field(B, s, d) /\ Piled(fs, B, s, d) /\ Copied(t, fs, B, s, d) /\ Due(t, fs, B, d) /\ Overlaid(t, fs, B, s, d, flag)
  BY DEF Filled
<1> HIDE DEF l, m
<1>7. Piled(es, B, s, d)
  <2>1. es[1].src_path = s /\ es[1].dst_path = d BY <1>2, <1>5, <1>6 DEF Piled
  <2>2. \A i \in 1..m : Level(s, d, es[i]) /\ (es[i].dst_path = d \/ New(B, d, es[i].dst_path))
    BY <1>2, <1>5, <1>6 DEF Piled, l, Level
  <2>3. \A i, j \in 1..m : i < j => Len(es[i].dst_path) < Len(es[j].dst_path) \/ Len(es[j].dst_path) = PathMax
    BY <1>2, <1>5, <1>6 DEF Piled, l
  <2> QED BY <2>1, <2>2, <2>3 DEF Piled, m
<1>8. Copied(t, es, B, s, d)
  BY <1>2, <1>3, <1>4, <1>5, <1>6 DEF Copied, m, l, Promises
<1>9. Due(t, es, B, d) BY <1>2, <1>3, <1>5, <1>6 DEF Due, m, l
<1>10. Overlaid(t, es, B, s, d, flag) BY <1>3, <1>5, <1>6 DEF Overlaid
<1> QED BY <1>6, <1>7, <1>8, <1>9, <1>10 DEF Filled

\* When the first frame is done with, all is as it shall be.
LEMMA FilledDone ==
  ASSUME NEW t, NEW D, NEW fs \in Seq(Frames(D)), Len(fs) = 1, Last(fs).child = Null, NEW B, NEW s, NEW d, NEW flag,
         Filled(t, fs, B, s, d, flag)
  PROVE  Done(View(t), B, s, d, flag)
BY DEF Last, Owes, Owed, Filled, Copied, Overlaid, Done

-----------------------------------------------------------------------------
(* The first frame of a mount *)

\* It owes all that is below the source.
LEMMA BegunOwes ==
  ASSUME NEW t, Grounded(t), NEW s \in Paths, Lookup(t, s) # Null, NEW f, f.src = Lookup(t, s),
         f.child = FirstChild(t, f.src), NEW fs, Len(fs) = 1, fs[1] = f,
         NEW n \in Names, Append(s, n) \in Paths, View(t)[Append(s, n)] # Absent
  PROVE  Owes(t, fs, 1, n)
BY LookupIn, ChildNamed, OwedFirst DEF Grounded, Owes

\* At first all is still to do.
LEMMA Begun ==
  ASSUME NEW t, Grounded(t), NEW s \in Paths, NEW d \in Paths, ~ IsPrefix(s, d), Lookup(t, s) # Null,
         NEW f, f.src = Lookup(t, s), f.child = FirstChild(t, f.src), f.src_path = s, f.dst_path = d,
         NEW fs, Len(fs) = 1, fs[1] = f, NEW flag, NEW B, B = View(t)
  PROVE  Filled(t, fs, B, s, d, flag)
<1>1. /\ s \in Seq(Strings) /\ d \in Seq(Strings) /\ Len(s) \in Nat /\ Len(d) \in Nat /\ IsPrefix(d, d)
      /\ Across(s, d, d) = s
  BY PathIs, PrefixIs, AcrossIs
<1>2. Field(B, s, d) BY ViewAt, NothingBelow DEF Field
<1>3. \A i \in 1..Len(fs) : i = 1 /\ fs[i] = f OBVIOUS
<1>4. Piled(fs, B, s, d) BY <1>1, <1>3 DEF Level, Piled
<1>5. ASSUME NEW q \in Paths, New(B, d, q) PROVE View(t)[q] = Absent
  BY <1>2, <1>5 DEF New, Field
<1>6. Due(t, fs, B, d) BY <1>5 DEF Due
<1>7. Overlaid(t, fs, B, s, d, flag) BY BegunOwes DEF Overlaid
<1>8. ASSUME NEW q \in Paths, New(B, d, q), Across(s, d, q) \in Paths, B[Across(s, d, q)] # Absent
      PROVE  \E i \in 1..Len(fs), n \in Names : Owes(t, fs, i, n) /\ Promises(fs[i], s, d, n, q)
  <2>1. IsPrefix(d, q) /\ d # q BY <1>8, NoLonger DEF New
  <2>2. PICK n \in Names : Append(d, n) \in Paths /\ IsPrefix(Append(d, n), q)
    BY <2>1, NextName
  <2>3. Across(s, d, Append(d, n)) = Append(s, n) BY <1>1, AcrossNext
  <2> DEFINE x == Across(s, d, q)
             y == Append(s, n)
  <2>4. IsPrefix(y, x)
    <3>1. IsPrefix(d, Append(d, n)) BY <1>1, PrefixAppend DEF Strings
    <3>2. IsPrefix(Across(s, d, Append(d, n)), x) BY <2>2, <3>1, AcrossBelow
    <3> QED BY <2>3, <3>2
  <2>5. y \in Paths
    <3>1. s \in Seq(Names) /\ n \in Strings BY PathIs DEF Strings
    <3>2. y \in Seq(Names) /\ y \in Seq(Strings) /\ Len(y) \in Nat BY <1>1, <3>1
    <3>3. x \in Seq(Strings) /\ Len(x) \in Nat /\ Len(x) <= PathMax /\ PathMax \in Nat
      BY <1>8, PathIs, NullIsNone
    <3> HIDE DEF x, y
    <3>4. Len(y) <= Len(x) BY <2>4, <3>2, <3>3, PrefixIs
    <3>5. Len(y) <= PathMax BY <3>2, <3>3, <3>4
    <3> QED BY <3>2, <3>5, PathsAre
  <2>6. B[y] # Absent
    <3> HIDE DEF y, x
    <3>1. x \in Paths /\ B[x] # Absent BY <1>8 DEF x
    <3> QED BY <1>2, <2>4, <2>5, <3>1 DEF Field
  <2>7. Owes(t, fs, 1, n) BY <2>5, <2>6, BegunOwes
  <2>8. Promises(f, s, d, n, q) BY <1>1, <2>2 DEF Promises
  <2>9. 1 \in 1..Len(fs) OBVIOUS
  <2> QED BY <2>7, <2>8, <2>9
<1>9. Copied(t, fs, B, s, d) BY <1>5, <1>8 DEF Copied
<1> QED BY <1>2, <1>4, <1>6, <1>7, <1>9 DEF Filled

\* The first frame is laid, and has changed nothing.
LEMMA StartingLaid ==
  ASSUME NEW t, NEW u, NEW fs, NEW s \in Paths, NEW d \in Paths, NEW flag, Starting(t, u, fs, s, d, flag)
  PROVE  AllLaid(u, fs, s, d, flag) /\ Kept(u, View(u), d)
         /\ (~ IsPrefix(s, d) => Filled(u, fs, View(u), s, d, flag))
<1> DEFINE f == fs[1]
<1>1. /\ Len(fs) = 1 /\ f.src = Lookup(u, s) /\ f.dst = Lookup(u, d) /\ f.src # Null /\ f.dst # Null
      /\ f.src_path = s /\ f.dst_path = d /\ f.before = flag /\ f.child = FirstChild(u, f.src) /\ Grounded(u)
  BY DEF Starting
<1> HIDE DEF f
<1>2. IsPrefix(s, s) /\ IsPrefix(d, d) BY PathIs, PrefixIs
<1>3. f.child \in Range(u[f.src].children) \cup {Null}
  BY <1>1, LookupIn, NextChildIn DEF Grounded
<1>4. Laid(u, f, s, d, flag) BY <1>1, <1>2, <1>3 DEF Laid
<1>5. AllLaid(u, fs, s, d, flag) BY <1>1, <1>4 DEF AllLaid, f
<1>6. Kept(u, View(u), d) BY DEF Kept
<1>7. ASSUME ~ IsPrefix(s, d) PROVE Filled(u, fs, View(u), s, d, flag)
  <2>1. fs[1] = f BY DEF f
  <2> DEFINE B == View(u)
  <2>2. B = View(u) OBVIOUS
  <2> HIDE DEF B
  <2>3. Lookup(u, s) # Null BY <1>1
  <2>4. Filled(u, fs, B, s, d, flag) BY <1>1, <1>7, <2>1, <2>2, <2>3, Begun
  <2> QED BY <2>2, <2>4
<1> QED BY <1>5, <1>6, <1>7

\* It is the one that a mount begins with.
LEMMA BeginStarts ==
  ASSUME NEW t, Forest(t, {Root}), NEW s \in Paths, NEW d \in Paths, NEW flag, Begin(t, s, d, flag), Lookup(t, s) # Null
  PROVE  Starting(t, key', frames', s, d, flag) /\ call' = call /\ named' = named
<1> DEFINE m == MkPath(t, d)
           src == Lookup(t, s)
           f == Frame(m, src, s, d, flag)
<1>1. Room(t) /\ key' = m.tree /\ frames' = <<f>> /\ call' = call /\ named' = named
  BY DEF Begin
<1>2. PathMade(t, {Root}, d, m) BY <1>1, MkPathSeen
<1>3. /\ f.src = src /\ f.dst = m.at /\ f.src_path = s /\ f.dst_path = d /\ f.before = flag
      /\ f.child = FirstChild(m.tree, src)
  BY DEF Frame
<1> HIDE DEF f
<1>4. Len(frames') = 1 /\ frames'[1] = f BY <1>1
<1> HIDE DEF m
<1>5. /\ Forest(m.tree, {Root}) /\ Grew(t, m.tree) /\ m.at = Lookup(m.tree, d) /\ m.at # Null
      /\ SeenAfter(t, d, m.tree) /\ (\A j \in DOMAIN m.tree \ DOMAIN t : m.tree[j].val = Nil)
      /\ (Distinct(t) => Distinct(m.tree))
  BY <1>2 DEF PathMade, Walk
<1>6. Grounded(m.tree) /\ Grounded(t) BY <1>5, ForestGrounded
<1>7. Lookup(m.tree, s) = src BY <1>5 DEF SeenAfter
<1>8. ASSUME NEW q \in Paths
      PROVE  View(m.tree)[q] = IF IsPrefix(q, d) /\ View(t)[q] = Absent THEN Nil ELSE View(t)[q]
  BY <1>5, <1>6, LookupIn, ViewAt, NullIsNone DEF SeenAfter, Grew, Grounded, Typed
<1> QED BY <1>1, <1>3, <1>4, <1>5, <1>6, <1>7, <1>8 DEF Starting

\* The keys below one that is emptied are freed.
LEMMA EmptiedFrees ==
  ASSUME NEW t, Forest(t, {Root}), NEW d \in Paths, Lookup(t, d) # Null, NEW u, u = FreeChildren(t, Lookup(t, d))
  PROVE  \A q \in Paths : IsPrefix(d, q) /\ q # d /\ Lookup(t, q) # Null => Lookup(t, q) \notin DOMAIN u
<1> DEFINE k == Lookup(t, d)
           A == {q \in Paths : IsPrefix(d, q) /\ q # d /\ Lookup(t, q) # Null => Lookup(t, q) \notin DOMAIN u}
<1>1. Grounded(t) /\ k \in DOMAIN t BY ForestGrounded, LookupIn
<1>2. Forest(u, {Root}) /\ Carried(t, u) /\ Emptied(t, u, k)
  BY <1>1, ChildrenFreed, FreeChildrenEmpties
<1>3. d \in Seq(Strings) BY PathIs
<1>4. << >> \in A
  <2>1. IsPrefix(d, << >>) => d = << >>
    <3>1. << >> \in Seq(Strings) /\ Len(<< >>) = 0 /\ Len(d) \in Nat BY <1>3
    <3>2. IsPrefix(d, << >>) => Len(d) <= 0 BY <1>3, <3>1, PrefixIs
    <3> QED BY <1>3, <3>1, <3>2
  <2> QED BY <2>1, NoPath
<1>5. ASSUME NEW p \in Paths, NEW n \in Names, p \in A, Append(p, n) \in Paths PROVE Append(p, n) \in A
  <2> SUFFICES ASSUME IsPrefix(d, Append(p, n)), Append(p, n) # d, Lookup(t, Append(p, n)) # Null
               PROVE  Lookup(t, Append(p, n)) \notin DOMAIN u
    BY <1>5
  <2> DEFINE x == Lookup(t, Append(p, n))
             y == Lookup(t, p)
  <2>1. x # Root /\ x \in Range(t[y].children) /\ t[x].parent = y /\ y # Null
    BY <1>1, <1>5, LookupDown DEF ChildOf
  <2>2. IsPrefix(d, p) BY <1>3, PathIs, PrefixAppend DEF Strings
  <2> HIDE DEF x
  <2> SUFFICES ASSUME x \in DOMAIN u PROVE FALSE BY DEF x
  <2>3. u[x].parent \in DOMAIN u /\ x \in Range(u[u[x].parent].children)
    BY <1>2, <2>1, HasParent
  <2>4. u[x].parent = y BY <1>2, <2>1 DEF Carried
  <2>5. CASE p = d BY <1>2, <2>3, <2>4, <2>5 DEF Emptied, Range
  <2>6. CASE p # d BY <1>5, <2>1, <2>2, <2>3, <2>4, <2>6
  <2> QED BY <2>5, <2>6
<1> HIDE DEF A
<1>6. Paths \subseteq A BY <1>4, <1>5, PathsInduct
<1> QED BY <1>6 DEF A

\* The tree that reg_bind mounts with.
Bare(t, s, d) ==
  LET m == MkPath(t, d)
      u == FreeChildren(m.tree, m.at) IN
  SetVal(u, m.at, IF Lookup(t, s) \in DOMAIN u THEN u[Lookup(t, s)].val ELSE Nil)

\* It is a tree in which the destination has no children.
LEMMA BindBares ==
  ASSUME NEW t, Forest(t, {Root}), Room(t), NEW s \in Paths, NEW d \in Paths, Lookup(t, s) # Null,
         NEW v, v = Bare(t, s, d)
  PROVE  BareIn(t, v, s, d)
<1> DEFINE m == MkPath(t, d)
           w == m.tree
           k == m.at
           u == FreeChildren(w, k)
           src == Lookup(t, s)
           x == IF src \in DOMAIN u THEN u[src].val ELSE Nil
<1>1. PathMade(t, {Root}, d, m) BY MkPathSeen
<1>2. v = SetVal(u, k, x) BY DEF Bare
<1> HIDE DEF m
<1>3. /\ Forest(w, {Root}) /\ Grew(t, w) /\ k = Lookup(w, d) /\ k # Null /\ SeenAfter(t, d, w)
      /\ (\A j \in DOMAIN w \ DOMAIN t : w[j].val = Nil) /\ (Distinct(t) => Distinct(w))
  BY <1>1 DEF PathMade, Walk
<1> HIDE DEF w, k
<1>4. Grounded(t) /\ Grounded(w) /\ k \in DOMAIN w BY <1>3, ForestGrounded, LookupIn
<1>5. Forest(u, {Root}) /\ k \in DOMAIN u /\ Carried(w, u) /\ Emptied(w, u, k)
  BY <1>3, <1>4, ChildrenFreed, FreeChildrenEmpties
<1>6. \A q \in Paths : IsPrefix(d, q) /\ q # d /\ Lookup(w, q) # Null => Lookup(w, q) \notin DOMAIN u
  BY <1>3, EmptiedFrees
<1> HIDE DEF u
<1>7. Typed(u) /\ Grounded(u) BY <1>5, ForestGrounded DEF Grounded
<1>8. x \in Values \cup {Nil} BY <1>7 DEF Typed, Rec
<1>9. src \in DOMAIN t /\ Lookup(w, s) = src /\ w[src].val = t[src].val
  BY <1>3, <1>4, LookupIn DEF SeenAfter, Grew
<1>10. \A q \in Paths : Lookup(u, q) = IF IsPrefix(d, q) /\ q # d THEN Null ELSE Lookup(w, q)
  BY <1>3, <1>4, <1>5, <1>7, EmptiedSeen
<1> HIDE DEF x, src
<1>11. ValSetIn(u, v, k, x) BY <1>2, <1>5, <1>7, <1>8, ValSet
<1>12. Forest(v, {Root}) /\ Typed(v) BY <1>5, <1>11, ForestSame DEF ValSetIn
<1>13. Grounded(v) BY <1>12, ForestGrounded
<1>14. \A q \in Paths : Lookup(v, q) = Lookup(u, q)
  BY <1>7, <1>11, ShapeSeen DEF ValSetIn
<1>15. Distinct(t) => Distinct(v)
  BY <1>3, <1>5, <1>7, <1>11, EmptiedNarrower, NarrowerDistinct, SameDistinct DEF ValSetIn
<1>16. Lookup(v, d) = k /\ View(v)[d] = x
  BY <1>3, <1>5, <1>10, <1>11, <1>13, <1>14, ViewAt DEF ValSetIn
<1>17. \A q \in Paths : IsPrefix(d, q) /\ q # d => View(v)[q] = Absent
  BY <1>10, <1>13, <1>14, ViewAt
<1>18. ASSUME NEW q \in Paths, ~ IsPrefix(d, q)
       PROVE  View(v)[q] = IF IsPrefix(q, d) /\ View(t)[q] = Absent THEN Nil ELSE View(t)[q]
  <2>1. Lookup(v, q) = Lookup(w, q) BY <1>10, <1>14, <1>18
  <2>2. Lookup(w, q) # Null => Lookup(w, q) # k
    BY <1>3, <1>4, <1>18, PathIs, PrefixIs, OnePath
  <2>3. Lookup(w, q) # Null => Lookup(w, q) \in DOMAIN v /\ v[Lookup(w, q)].val = w[Lookup(w, q)].val
    BY <1>5, <1>7, <1>10, <1>11, <1>18, <2>2, LookupIn DEF ValSetIn, Emptied
  <2>4. CASE Lookup(t, q) # Null
    BY <1>3, <1>4, <1>13, <2>1, <2>3, <2>4, LookupIn, ViewAt DEF SeenAfter, Grew
  <2>5. CASE Lookup(t, q) = Null /\ IsPrefix(q, d)
    BY <1>3, <1>4, <1>13, <2>1, <2>3, <2>5, NullIsNone, ViewAt DEF SeenAfter, Grounded, Typed
  <2>6. CASE Lookup(t, q) = Null /\ ~ IsPrefix(q, d)
    BY <1>3, <1>4, <1>13, <2>1, <2>6, ViewAt DEF SeenAfter
  <2> QED BY <2>4, <2>5, <2>6
<1>19. ASSUME IsPrefix(d, s), d # s PROVE Lookup(v, s) = Null /\ x = Nil
  BY <1>4, <1>6, <1>9, <1>10, <1>14, <1>19 DEF src, x
<1>20. ASSUME ~ IsPrefix(d, s) \/ d = s PROVE Lookup(v, s) # Null /\ x = View(t)[s]
  BY <1>4, <1>5, <1>7, <1>9, <1>10, <1>14, <1>20, LookupIn, ViewAt DEF src, x, Emptied
<1>21. ASSUME ~ IsPrefix(d, s) \/ d = s PROVE \A q \in Paths : View(v)[q] = Bound(View(t), s, d)[q]
  BY <1>16, <1>17, <1>18, <1>20, <1>21, PathIs, PrefixIs DEF Bound
<1>22. ASSUME IsPrefix(d, s), d # s PROVE Lookup(v, s) = Null /\ Unbound(View(t), View(v), d)
  BY <1>16, <1>17, <1>18, <1>19, <1>22 DEF Unbound
<1>23. ~ IsPrefix(d, s) \/ d = s => Lookup(v, s) # Null BY <1>20
<1>24. Lookup(v, d) # Null /\ v[Lookup(v, d)].children = << >>
  BY <1>3, <1>5, <1>11, <1>16 DEF ValSetIn, Emptied
<1> HIDE DEF m
<1> QED BY <1>12, <1>15, <1>21, <1>22, <1>23, <1>24 DEF BareIn

-----------------------------------------------------------------------------
(* The invariant of the mounts *)

\* Such paths have no slash at their end.
LEMMA SpeltUnslashed == Spelt => Unslashed
BY PathIs DEF Spelt, Unslashed

\* At first nothing is in progress.
LEMMA CopyingAtFirst == Init => Copying
BY DEF Init, Copying

\* It holds when the first frame has been made.
LEMMA CopyingStarts ==
  ASSUME call' = call, call.s \in Paths, call.d \in Paths, NEW t, Starting(t, key', frames', call.s, call.d, Flag(call)),
         View(key') = Start(named', call), ~ shadowed' => Distinct(t),
         call.op = "bind" /\ IsPrefix(call.d, call.s) => call.s = call.d /\ Last(frames').child = Null
  PROVE  Copying'
<1> DEFINE s == call.s
           d == call.d
           flag == Flag(call)
           u == key'
           fs == frames'
           B == Start(named', call)
<1>1. s \in Paths /\ d \in Paths /\ Starting(t, u, fs, s, d, flag) /\ View(u) = B
  OBVIOUS
<1> HIDE DEF s, d, flag, u, fs, B
<1>2. AllLaid(u, fs, s, d, flag) /\ Kept(u, B, d) /\ (~ IsPrefix(s, d) => Filled(u, fs, B, s, d, flag))
  BY <1>1, StartingLaid
<1>3. Len(fs) = 1 BY <1>1 DEF Starting
<1> QED BY <1>1, <1>2, <1>3 DEF Copying, s, d, flag, u, fs, B

\* So are those of the call that is served.
LEMMA CallSpelt ==
  ASSUME Spelt, IInv, call # NoCall, call.op \in {"mount", "bind"}
  PROVE  call \in Calls /\ call.s \in Paths /\ call.d \in Paths
BY DEF Spelt, IInv

\* A mount starts so, and nothing is seen of it yet.
LEMMA CopyingMounts ==
  ASSUME Spelt, IInv, Seen, RegMount
  PROVE  Copying' /\ (named[call.s] # Absent => call' = call /\ named' = named)
<1> DEFINE s == call.s
           d == call.d
<1>1. /\ frames = << >> /\ call # NoCall /\ call.op = "mount" /\ Begin(key, s, d, call.before)
      /\ shadowed' = shadowed
  BY DEF RegMount, Called
<1>2. call \in Calls /\ s \in Paths /\ d \in Paths BY <1>1, CallSpelt
<1>3. named = View(key) /\ (~ shadowed => Distinct(key)) /\ Forest(key, {Root}) /\ Grounded(key)
  BY <1>1, ForestGrounded DEF Seen, IInv
<1>4. Lookup(key, s) = Null <=> named[s] = Absent BY <1>2, <1>3, ViewAt
<1>5. CASE Lookup(key, s) = Null BY <1>1, <1>4, <1>5 DEF Begin, Returns, Copying
<1>6. CASE Lookup(key, s) # Null
  <2>1. Flag(call) = call.before BY <1>1 DEF Flag
  <2>2. Starting(key, key', frames', s, d, call.before) /\ call' = call /\ named' = named
    BY <1>1, <1>2, <1>3, <1>6, BeginStarts
  <2>3. View(key') = Start(named', call)
    BY <1>1, <1>3, <2>2 DEF Start, View, Starting
  <2>4. Copying' BY <1>1, <1>2, <1>3, <2>1, <2>2, <2>3, CopyingStarts
  <2> QED BY <2>2, <2>4
<1> QED BY <1>5, <1>6

\* A bind starts so too, or has at once done what is promised of it.
LEMMA CopyingBinds ==
  ASSUME Spelt, IInv, Seen, RegBind
  PROVE  /\ Copying'
         /\ named[call.s] # Absent =>
              \/ call' = call /\ named' = named
              \/ /\ call' = NoCall /\ IsPrefix(call.d, call.s) /\ call.d # call.s
                 /\ Unbound(named, named', call.d)
<1> DEFINE s == call.s
           d == call.d
           v == Bare(key, s, d)
<1>1. frames = << >> /\ call # NoCall /\ call.op = "bind" /\ shadowed' = shadowed
  BY DEF RegBind, Called, Fails
<1>2. call \in Calls /\ s \in Paths /\ d \in Paths BY <1>1, CallSpelt
<1>3. named = View(key) /\ (~ shadowed => Distinct(key)) /\ Forest(key, {Root}) /\ Grounded(key)
  BY <1>1, ForestGrounded DEF Seen, IInv
<1>4. Lookup(key, s) = Null <=> named[s] = Absent BY <1>2, <1>3, ViewAt
<1>5. CASE Lookup(key, s) = Null
  BY <1>1, <1>4, <1>5 DEF RegBind, Fails, Returns, Copying
<1>6. CASE Lookup(key, s) # Null
  <2>1. Room(key) /\ Begin(v, s, d, TRUE) BY <1>6 DEF RegBind, Bare, SetVal
  <2> HIDE DEF v
  <2>2. v = Bare(key, s, d) BY DEF v
  <2>3. BareIn(key, v, s, d) BY <1>2, <1>3, <1>6, <2>1, <2>2, BindBares
  <2>4. /\ Forest(v, {Root}) /\ Lookup(v, d) # Null /\ v[Lookup(v, d)].children = << >>
        /\ Distinct(key) => Distinct(v)
    BY <2>3 DEF BareIn
  <2>5. CASE IsPrefix(d, s) /\ d # s
    BY <1>1, <1>3, <2>1, <2>3, <2>5 DEF BareIn, Begin, Returns, Copying
  <2>6. CASE ~ (IsPrefix(d, s) /\ d # s)
    <3>1. ~ IsPrefix(d, s) \/ d = s BY <2>6
    <3>2. Lookup(v, s) # Null BY <2>3, <3>1 DEF BareIn
    <3>3. \A q \in Paths : View(v)[q] = Bound(View(key), s, d)[q]
      BY <2>3, <3>1 DEF BareIn
    <3>4. Flag(call) = TRUE BY <1>1 DEF Flag
    <3>5. Starting(v, key', frames', s, d, TRUE) /\ call' = call /\ named' = named
      BY <1>2, <2>1, <2>4, <3>2, BeginStarts
    <3>6. View(key') = Start(named', call)
      <4>1. Start(named', call) = Bound(View(key), s, d)
        BY <1>1, <1>3, <3>5 DEF Start
      <4>2. \A q \in Paths : Bound(View(key), s, d)[q] =
              IF IsPrefix(d, q) THEN IF q = d THEN View(key)[s] ELSE Absent
              ELSE IF IsPrefix(q, d) /\ View(key)[q] = Absent THEN Nil ELSE View(key)[q]
        BY DEF Bound
      <4>3. View(key') = [q \in Paths |-> View(key')[q]] BY DEF View
      <4>4. Bound(View(key), s, d) = [q \in Paths |-> Bound(View(key), s, d)[q]]
        BY DEF Bound
      <4>5. View(key)[s] # Absent BY <1>3, <1>4, <1>6
      <4>6. Nil # Absent BY AbsentAssumption
      <4>7. ASSUME NEW q \in Paths PROVE View(key')[q] = Bound(View(key), s, d)[q]
        BY <1>2, <3>3, <3>5, <4>2, <4>5, <4>6, PathIs, PrefixIs, PrefixLine DEF Starting
      <4> QED BY <4>1, <4>3, <4>4, <4>7
    <3>7. call.op = "bind" /\ IsPrefix(d, s) => s = d /\ Last(frames').child = Null
      BY <1>2, <2>1, <2>4, <3>1, <3>2, <3>5, MkPathFound DEF Begin, Starting, FirstChild, Last
    <3>8. Copying' BY <1>1, <1>2, <1>3, <2>4, <3>4, <3>5, <3>6, <3>7, CopyingStarts
    <3> QED BY <3>5, <3>8
  <2> QED BY <2>5, <2>6
<1> QED BY <1>5, <1>6

\* A turn of a mount keeps it.
LEMMA CopyingTurns ==
  ASSUME Spelt, IInv, IInv', PathsRight, Seen, Busy, Copying, MountNext \/ MountMirror
  PROVE  Copying'
<1> DEFINE s == call.s
           d == call.d
           flag == Flag(call)
           B == Start(named, call)
           f == Last(frames)
           n == key[f.child].name
           D == DOMAIN key
<1>1. frames # << >> /\ f.child # Null /\ call' = call /\ named' = named /\ shadowed' = shadowed
  BY Zenon DEF MountNext, MountMirror
<1>2. s \in Paths /\ d \in Paths BY <1>1, CallSpelt DEF Busy
<1>3. Forest(key, {Root}) /\ Right(key, {Root}) /\ Grounded(key) /\ Typed(key) /\ Grounded(key')
  BY ForestGrounded DEF IInv, PathsRight, Forest
<1>4. frames \in Seq(Frames(D)) /\ (~ shadowed => Distinct(key)) BY DEF IInv, Seen
<1>5. /\ AllLaid(key, frames, s, d, flag) /\ Kept(key, B, d) /\ ~ (call.op = "bind" /\ IsPrefix(d, s))
      /\ ~ shadowed /\ ~ IsPrefix(s, d) => Filled(key, frames, B, s, d, flag)
  BY <1>1 DEF Copying
<1>6. Laid(key, f, s, d, flag) BY <1>1, <1>4, <1>5 DEF AllLaid, Last
<1>7. f.child \in DOMAIN key BY <1>1, <1>3, <1>6, ChildHasName
<1>8. Copying' <=>
        (frames' # << >> =>
          /\ AllLaid(key', frames', s, d, flag) /\ Kept(key', B, d)
          /\ call.op = "bind" /\ IsPrefix(d, s) =>
               s = d /\ Len(frames') = 1 /\ Last(frames').child = Null /\ View(key') = B
          /\ ~ shadowed /\ ~ IsPrefix(s, d) => Filled(key', frames', B, s, d, flag))
  BY <1>1 DEF Copying
<1> HIDE DEF s, d, flag, B, f
<1>9. Turned(key, key', f, n) /\ Went(key, key', f, n, frames, frames')
  <2>1. f = Last(frames) BY DEF f
  <2> HIDE DEF n
  <2>2. n = key[f.child].name BY DEF n
  <2>3. CASE MountNext BY <1>6, <2>1, <2>2, <2>3, MountNextTurns
  <2>4. CASE MountMirror BY <1>6, <2>1, <2>2, <2>4, MountMirrorTurns
  <2> QED BY <2>3, <2>4
<1> HIDE DEF n, D
<1>10. f = Last(frames) BY DEF f
<1>11. AllLaid(key', frames', s, d, flag)
  BY <1>1, <1>2, <1>3, <1>4, <1>5, <1>9, <1>10, LaidOn
<1>12. Kept(key', B, d) BY <1>2, <1>3, <1>5, <1>6, <1>7, <1>9, KeptOn
<1>13. ~ shadowed /\ ~ IsPrefix(s, d) => Filled(key', frames', B, s, d, flag)
  BY <1>1, <1>3, <1>4, <1>5, <1>9, <1>10, FilledOn
<1> QED BY <1>5, <1>8, <1>11, <1>12, <1>13

\* The return from a mount inside it, too.
LEMMA CopyingReturns ==
  ASSUME Spelt, IInv, Busy, Copying, MountReturn
  PROVE  Copying' /\ (frames' # << >> => call' = call /\ named' = named)
<1> DEFINE s == call.s
           d == call.d
           flag == Flag(call)
           B == Start(named, call)
           D == DOMAIN key
           es == Advance(key, Front(frames))
<1>1. frames # << >> /\ Last(frames).child = Null /\ key' = key /\ shadowed' = shadowed
  BY DEF MountReturn
<1>2. frames \in Seq(Frames(D)) /\ Grounded(key) BY ForestGrounded DEF IInv
<1>3. CASE Len(frames) = 1 BY <1>3 DEF MountReturn, Copying
<1>4. CASE Len(frames) # 1
  <2>1. Len(frames) > 1
    <3> DEFINE l == Len(frames)
    <3>1. l \in Nat /\ l # 0 /\ l # 1 BY <1>1, <1>2, <1>4
    <3> HIDE DEF l
    <3>2. l > 1 BY <3>1
    <3> QED BY <3>2 DEF l
  <2>2. frames' = es /\ call' = call /\ named' = named BY <1>4 DEF MountReturn
  <2>3. /\ AllLaid(key, frames, s, d, flag) /\ Kept(key, B, d) /\ ~ (call.op = "bind" /\ IsPrefix(d, s))
        /\ ~ shadowed /\ ~ IsPrefix(s, d) => Filled(key, frames, B, s, d, flag)
    BY <1>1, <1>4 DEF Copying
  <2>4. Copying' <=>
          (es # << >> =>
            /\ AllLaid(key, es, s, d, flag) /\ Kept(key, B, d)
            /\ call.op = "bind" /\ IsPrefix(d, s) => s = d /\ Len(es) = 1 /\ Last(es).child = Null /\ View(key) = B
            /\ ~ shadowed /\ ~ IsPrefix(s, d) => Filled(key, es, B, s, d, flag))
    BY <1>1, <2>2 DEF Copying
  <2> HIDE DEF s, d, flag, B, D
  <2>5. AllLaid(key, es, s, d, flag) BY <1>2, <2>1, <2>3, LaidBack
  <2> HIDE DEF es
  <2>6. es = Advance(key, Front(frames)) BY DEF es
  <2>7. ~ shadowed /\ ~ IsPrefix(s, d) => Filled(key, es, B, s, d, flag)
    BY <1>1, <1>2, <2>1, <2>3, <2>6, FilledBack
  <2> QED BY <2>2, <2>3, <2>4, <2>5, <2>7
<1> QED BY <1>3, <1>4

\* Every step keeps it.
LEMMA CopyingKept ==
  Spelt /\ IInv /\ IInv' /\ PathsRight /\ Seen /\ Busy /\ Copying /\ [Next]_vars => Copying'
<1> SUFFICES ASSUME Spelt, IInv, IInv', PathsRight, Seen, Busy, Copying, [Next]_vars PROVE Copying'
  OBVIOUS
<1>1. CASE UNCHANGED vars BY <1>1 DEF Copying, vars
<1>2. CASE \E c \in Calls : Ask(c) BY <1>2 DEF Ask, Busy, Copying
<1>3. CASE RegSet \/ RegDelete \/ RegUnmount \/ RegUnmountAll \/ RegMove
  <2>1. frames = << >> /\ frames' = frames
    BY <1>3, Zenon DEF RegSet, RegDelete, RegUnmount, RegUnmountAll, RegMove, Called, Fails, Returns
  <2> QED BY <2>1 DEF Copying
<1>4. CASE RegMount BY <1>4, CopyingMounts
<1>5. CASE RegBind BY <1>5, CopyingBinds
<1>6. CASE MountNext \/ MountMirror BY <1>6, CopyingTurns
<1>7. CASE MountReturn BY <1>7, CopyingReturns
<1> QED BY <1>1, <1>2, <1>3, <1>4, <1>5, <1>6, <1>7 DEF Next, Serve

-----------------------------------------------------------------------------
(* reg_mount and reg_bind *)

\* A child of what is copied is copied as a copy of its own.
LEMMA AcrossChild ==
  ASSUME NEW s \in Paths, NEW d \in Paths, NEW n \in Names, Append(d, n) \in Paths, NEW q \in Paths,
         IsPrefix(Append(d, n), q)
  PROVE  Append(s, n) \o Rest(Append(d, n), q) = Across(s, d, q) /\ IsPrefix(d, q)
<1> DEFINE from == Append(s, n)
           to == Append(d, n)
           A == {x \in Paths : IsPrefix(to, x) => from \o Rest(to, x) = Across(s, d, x)}
<1>1. /\ s \in Seq(Strings) /\ d \in Seq(Strings) /\ from \in Seq(Strings) /\ to \in Seq(Strings) /\ n \in Strings
      /\ to \in Paths /\ (\A x \in Paths : x \in Seq(Strings) /\ Len(x) \in Nat) /\ Names \subseteq Strings
  BY PathIs DEF Strings
<1>2. IsPrefix(d, to) /\ IsPrefix(d, d) BY <1>1, PrefixIs, PrefixAppend
<1>3. from \o Rest(to, to) = from BY <1>1, RestIs
<1>4. Across(s, d, to) = from
  <2>1. Across(s, d, Append(d, n)) = Append(Across(s, d, d), n) BY <1>2, AcrossNext
  <2>2. Across(s, d, d) = s BY <1>2, AcrossIs
  <2> QED BY <2>1, <2>2
<1> HIDE DEF from
<1>5. to # << >> /\ Len(to) \in Nat /\ Len(to) # 0 BY <1>1
<1> HIDE DEF to
<1>6. << >> \in A BY <1>1, <1>5, PrefixIs, NoPath
<1>7. ASSUME NEW p \in Paths, NEW m \in Names, p \in A, Append(p, m) \in Paths PROVE Append(p, m) \in A
  <2> SUFFICES ASSUME IsPrefix(to, Append(p, m)) PROVE from \o Rest(to, Append(p, m)) = Across(s, d, Append(p, m))
    BY <1>7
  <2>1. CASE Append(p, m) = to BY <1>3, <1>4, <2>1
  <2>2. CASE Append(p, m) # to
    <3>1. p \in Seq(Strings) /\ m \in Strings BY <1>1
    <3>2. IsPrefix(to, p) BY <1>1, <2>2, <3>1, PrefixAppend
    <3>3. from \o Rest(to, Append(p, m)) = Append(from \o Rest(to, p), m)
      <4>1. to \in Seq(Strings) /\ from \in Seq(Strings) BY <1>1
      <4> HIDE DEF A
      <4> QED BY <3>1, <3>2, <4>1, RestIs
    <3>4. IsPrefix(d, p) BY <1>1, <1>2, <3>1, <3>2, PrefixLine
    <3>5. Across(s, d, Append(p, m)) = Append(Across(s, d, p), m)
      BY <3>4, AcrossNext
    <3>6. from \o Rest(to, p) = Across(s, d, p) BY <1>7, <3>2
    <3> QED BY <3>3, <3>5, <3>6
  <2> QED BY <2>1, <2>2
<1> HIDE DEF A
<1>8. Paths \subseteq A BY <1>6, <1>7, PathsInduct
<1>9. q \in A /\ IsPrefix(to, q) BY <1>8 DEF to
<1>10. from \o Rest(to, q) = Across(s, d, q) BY <1>9 DEF A
<1>11. IsPrefix(d, q) BY <1>1, <1>2, <1>9, PrefixLine
<1> QED BY <1>10, <1>11 DEF from, to

\* It is what Namespace says.
LEMMA PromisedMerge ==
  ASSUME NEW s \in Paths, NEW d \in Paths, NEW flag, Merged(named, named', s, d, flag)
  PROVE  Promise!Merge(s, d, flag)
<1> SUFFICES ASSUME NEW n \in Names
             PROVE  CASE Append(d, n) \notin Promise!Paths -> TRUE
                      [] Append(d, n) \in Promise!Paths /\ ~ Promise!Exists(Append(d, n)) ->
                           Append(s, n) \in Promise!Paths => Promise!CopyAt(Append(s, n), Append(d, n))
                      [] Append(d, n) \in Promise!Paths /\ Promise!Exists(Append(d, n)) ->
                           /\ Promise!Keeps(Promise!Below(Append(d, n)), {})
                           /\ IF flag /\ Append(s, n) \in Promise!Paths
                              THEN named'[Append(d, n)] = IF Promise!Exists(Append(s, n)) THEN named[Append(s, n)]
                                                          ELSE named[Append(d, n)]
                              ELSE named'[Append(d, n)] = named[Append(d, n)] \/ flag
  BY DEF Promise!Merge
<1> DEFINE from == Append(s, n)
           to == Append(d, n)
<1>1. Promise!Paths = Paths /\ \A p : Promise!Exists(p) <=> named[p] # Absent
  BY PromiseSays
<1>2. CASE to \notin Paths BY <1>1, <1>2
<1>3. CASE to \in Paths /\ named[to] = Absent
  <2>1. Promise!CopyAt(from, to)
    <3>1. \A q \in Paths : IsPrefix(to, q) => from \o Rest(to, q) = Across(s, d, q)
      BY <1>3, AcrossChild
    <3>2. \A q \in Paths : IsPrefix(to, q) /\ Across(s, d, q) \in Paths => named'[q] = named[Across(s, d, q)]
      BY <1>3 DEF Merged
    <3> HIDE DEF from, to
    <3>3. Promise!Under(to) = {q \in Paths : IsPrefix(to, q)} /\ \A q : Promise!From(to, q) = Rest(to, q)
      BY PromiseSays, PromiseMoves
    <3> QED BY <1>1, <3>1, <3>2, <3>3 DEF Promise!CopyAt
  <2> HIDE DEF from, to
  <2>2. to \in Promise!Paths /\ ~ Promise!Exists(to) BY <1>1, <1>3
  <2> QED BY <2>1, <2>2 DEF from, to
<1>4. CASE to \in Paths /\ named[to] # Absent
  <2>1. /\ \A q \in Paths : IsPrefix(to, q) /\ q # to => named'[q] = named[q]
        /\ ~ flag => named'[to] = named[to]
        /\ flag /\ from \in Paths => named'[to] = IF named[from] # Absent THEN named[from] ELSE named[to]
    BY <1>4 DEF Merged
  <2> HIDE DEF from, to
  <2>2. Promise!Keeps(Promise!Below(to), {}) BY <2>1, PromiseSays DEF Promise!Keeps
  <2>3. to \in Promise!Paths /\ Promise!Exists(to) BY <1>1, <1>4
  <2>4. IF flag /\ from \in Promise!Paths
        THEN named'[to] = IF Promise!Exists(from) THEN named[from] ELSE named[to]
        ELSE named'[to] = named[to] \/ flag
    BY <1>1, <2>1
  <2> QED BY <2>2, <2>3, <2>4 DEF from, to
<1> QED BY <1>2, <1>3, <1>4

\* What is promised of a mount.
LEMMA PromisedMount ==
  ASSUME NEW s \in Paths, NEW d \in Paths, NEW flag, shadowed' = shadowed, named[s] # Absent,
         \A q \in Paths : ~ (IsPrefix(d, q) /\ q # d) =>
           named'[q] = IF IsPrefix(q, d) /\ named[q] = Absent THEN Nil ELSE named[q],
         \A q \in Paths : named[q] # Absent => named'[q] # Absent,
         ~ shadowed /\ ~ IsPrefix(s, d) => Merged(named, named', s, d, flag)
  PROVE  Promise!Mount(s, d, flag)
BY PromiseSays, PromisedMerge DEF Promise!Keeps, Promise!Mount

\* What is promised of a bind.
LEMMA PromisedBind ==
  ASSUME NEW s \in Paths, NEW d \in Paths, shadowed' = shadowed, named[s] # Absent,
         \A q \in Paths : ~ IsPrefix(d, q) =>
           named'[q] = IF IsPrefix(q, d) /\ named[q] = Absent THEN Nil ELSE named[q],
         ~ shadowed /\ ~ IsPrefix(s, d) /\ ~ IsPrefix(d, s) =>
           \A q \in Paths : IsPrefix(d, q) /\ Across(s, d, q) \in Paths => named'[q] = named[Across(s, d, q)],
         IsPrefix(s, d) => named'[d] = named[s],
         IsPrefix(d, s) => \A q \in Paths : IsPrefix(d, q) /\ q # d => named'[q] = Absent,
         IsPrefix(d, s) /\ d # s => named'[d] = Nil
  PROVE  Promise!Bind(s, d)
BY PromiseSays, PromiseMoves DEF Promise!Keeps, Across, Promise!CopyAt, Promise!Gone, Promise!Bind

\* Below the source, and beside the destination, what is seen when a mount
\* starts to copy is what was seen before it.
LEMMA DoneMerged ==
  ASSUME NEW s \in Paths, NEW d \in Paths, ~ IsPrefix(s, d), NEW N, NEW B, NEW M, NEW flag,
         \A q \in Paths : B[q] = IF IsPrefix(q, d) /\ N[q] = Absent THEN Nil ELSE N[q],
         Done(M, B, s, d, flag)
  PROVE  Merged(N, M, s, d, flag)
<1>1. /\ s \in Seq(Strings) /\ d \in Seq(Strings) /\ (\A x \in Paths : x \in Seq(Strings) /\ Len(x) \in Nat)
      /\ Names \subseteq Strings
  BY PathIs DEF Strings
<1>2. \A q \in Paths : IsPrefix(s, q) => B[q] = N[q] BY <1>1, PrefixLine
<1>3. ASSUME NEW n \in Names, Append(d, n) \in Paths
      PROVE  \A q \in Paths : IsPrefix(Append(d, n), q) => B[q] = N[q] /\ IsPrefix(d, q) /\ q # d
  BY <1>1, <1>3, NoLonger, PrefixLine
<1> SUFFICES ASSUME NEW n \in Names, Append(d, n) \in Paths
             PROVE  /\ N[Append(d, n)] = Absent =>
                         \A q \in Paths : IsPrefix(Append(d, n), q) /\ Across(s, d, q) \in Paths => M[q] = N[Across(s, d, q)]
                    /\ N[Append(d, n)] # Absent =>
                         /\ \A q \in Paths : IsPrefix(Append(d, n), q) /\ q # Append(d, n) => M[q] = N[q]
                         /\ ~ flag => M[Append(d, n)] = N[Append(d, n)]
                         /\ flag /\ Append(s, n) \in Paths =>
                              M[Append(d, n)] = IF N[Append(s, n)] # Absent THEN N[Append(s, n)] ELSE N[Append(d, n)]
  BY DEF Merged
<1> DEFINE from == Append(s, n)
           to == Append(d, n)
<1>4. to \in Seq(Strings) /\ IsPrefix(to, to) /\ to \in Paths BY <1>1, PrefixIs
<1>5. B[to] = N[to] /\ \A q \in Paths : IsPrefix(to, q) => B[q] = N[q] /\ IsPrefix(d, q)
  BY <1>3, <1>4
<1>6. from \in Paths => B[from] = N[from] BY <1>1, <1>2, PrefixIs, PrefixAppend
<1>7. ASSUME N[to] = Absent, NEW q \in Paths, IsPrefix(to, q), Across(s, d, q) \in Paths
      PROVE  M[q] = N[Across(s, d, q)]
  BY <1>2, <1>4, <1>5, <1>7, AcrossIs DEF New, Done
<1>8. ASSUME N[to] # Absent
      PROVE  /\ \A q \in Paths : IsPrefix(to, q) /\ q # to => M[q] = N[q]
             /\ ~ flag => M[to] = N[to]
             /\ flag /\ from \in Paths => M[to] = IF N[from] # Absent THEN N[from] ELSE N[to]
  <2>1. B[to] # Absent BY <1>5, <1>8
  <2>2. /\ ~ flag => M[to] = B[to]
        /\ flag /\ from \in Paths => M[to] = IF B[from] = Absent THEN B[to] ELSE B[from]
        /\ \A q \in Paths : IsPrefix(to, q) /\ q # to => M[q] = B[q]
    BY <1>4, <2>1 DEF Done
  <2> HIDE DEF from, to
  <2> QED BY <1>5, <1>6, <2>2
<1> QED BY <1>7, <1>8

\* So it is of a bind, which has emptied the destination.
LEMMA DoneBound ==
  ASSUME NEW s \in Paths, NEW d \in Paths, ~ IsPrefix(s, d), ~ IsPrefix(d, s), NEW N, NEW B, B = Bound(N, s, d),
         NEW M, M[d] = B[d], NEW flag, Done(M, B, s, d, flag)
  PROVE  \A q \in Paths : IsPrefix(d, q) /\ Across(s, d, q) \in Paths => M[q] = N[Across(s, d, q)]
<1>1. s \in Seq(Strings) /\ d \in Seq(Strings) /\ \A x \in Paths : x \in Seq(Strings) /\ Len(x) \in Nat
  BY PathIs
<1>2. \A q \in Paths : B[q] = IF IsPrefix(d, q) THEN IF q = d THEN N[s] ELSE Absent
                              ELSE IF IsPrefix(q, d) /\ N[q] = Absent THEN Nil ELSE N[q]
  BY DEF Bound
<1> SUFFICES ASSUME NEW q \in Paths, IsPrefix(d, q), Across(s, d, q) \in Paths PROVE M[q] = N[Across(s, d, q)]
  OBVIOUS
<1>3. CASE q = d
  <2>1. Across(s, d, d) = s BY <1>3, AcrossIs
  <2> QED BY <1>2, <1>3, <2>1
<1>4. CASE q # d
  <2>1. PICK n \in Names : Append(d, n) \in Paths /\ IsPrefix(Append(d, n), q)
    BY <1>4, NextName
  <2>2. B[Append(d, n)] = Absent BY <1>1, <1>2, <2>1, PrefixIs, NoLonger
  <2>3. New(B, d, q) BY <2>1, <2>2 DEF New
  <2> DEFINE x == Across(s, d, q)
  <2>4. M[q] = B[x] /\ x \in Paths BY <2>3 DEF Done
  <2>5. IsPrefix(s, x) BY AcrossIs
  <2> HIDE DEF x
  <2>6. x \in Seq(Strings) BY <1>1, <2>4
  <2>7. ~ IsPrefix(d, x) BY <1>1, <2>5, <2>6, PrefixLine
  <2>8. ~ IsPrefix(x, d) BY <1>1, <2>5, <2>6, PrefixLine
  <2>9. B[x] = N[x] BY <1>2, <2>4, <2>7, <2>8
  <2> QED BY <2>4, <2>9 DEF x
<1> QED BY <1>3, <1>4

\* The last return from reg_mount does what is promised of a mount.
LEMMA MountPromised ==
  ASSUME Spelt, IInv, Seen, Busy, Copying, MountReturn, Len(frames) = 1, call.op = "mount"
  PROVE  Promise!Mount(call.s, call.d, call.before)
<1> DEFINE s == call.s
           d == call.d
           flag == call.before
           B == Start(named, call)
           D == DOMAIN key
<1>1. /\ frames # << >> /\ Last(frames).child = Null /\ named' = View(key) /\ shadowed' = shadowed
  BY DEF MountReturn
<1>2. s \in Paths /\ d \in Paths /\ named[s] # Absent BY <1>1, CallSpelt DEF Busy
<1>3. frames \in Seq(Frames(D)) BY DEF IInv
<1>4. Kept(key, B, d) /\ (~ shadowed /\ ~ IsPrefix(s, d) => Filled(key, frames, B, s, d, flag))
  BY <1>1 DEF Copying, Flag
<1>5. \A q \in Paths : B[q] = IF IsPrefix(q, d) /\ named[q] = Absent THEN Nil ELSE named[q]
  BY DEF Start
<1> HIDE DEF s, d, flag, B, D
<1>6. \A q \in Paths : ~ (IsPrefix(d, q) /\ q # d) =>
        named'[q] = IF IsPrefix(q, d) /\ named[q] = Absent THEN Nil ELSE named[q]
  BY <1>1, <1>4, <1>5 DEF Kept
<1>7. \A q \in Paths : named[q] # Absent => named'[q] # Absent
  BY <1>1, <1>4, <1>5 DEF Kept
<1>8. ~ shadowed /\ ~ IsPrefix(s, d) => Merged(named, named', s, d, flag)
  BY <1>1, <1>2, <1>3, <1>4, <1>5, FilledDone, DoneMerged
<1>9. Promise!Mount(s, d, flag) BY <1>1, <1>2, <1>6, <1>7, <1>8, PromisedMount
<1> QED BY <1>9 DEF s, d, flag

\* And of a bind.
LEMMA BindPromised ==
  ASSUME Spelt, IInv, Seen, Busy, Copying, MountReturn, Len(frames) = 1, call.op = "bind"
  PROVE  Promise!Bind(call.s, call.d)
<1> DEFINE s == call.s
           d == call.d
           B == Start(named, call)
           D == DOMAIN key
           flag == Flag(call)
<1>1. /\ frames # << >> /\ Last(frames).child = Null /\ named' = View(key) /\ shadowed' = shadowed
  BY DEF MountReturn
<1>2. s \in Paths /\ d \in Paths /\ named[s] # Absent /\ d \in Seq(Strings) /\ IsPrefix(d, d)
  BY <1>1, CallSpelt, PathIs, PrefixIs DEF Busy
<1>3. frames \in Seq(Frames(D)) BY DEF IInv
<1>4. /\ Kept(key, B, d) /\ (~ shadowed /\ ~ IsPrefix(s, d) => Filled(key, frames, B, s, d, flag))
      /\ IsPrefix(d, s) => s = d /\ View(key) = B
  BY <1>1 DEF Copying
<1>5. B = Bound(named, s, d) BY DEF Start
<1> HIDE DEF s, d, B, D, flag
<1>6. \A q \in Paths : B[q] = IF IsPrefix(d, q) THEN IF q = d THEN named[s] ELSE Absent
                              ELSE IF IsPrefix(q, d) /\ named[q] = Absent THEN Nil ELSE named[q]
  BY <1>5 DEF Bound
<1>7. named'[d] = B[d] /\ B[d] = named[s] BY <1>1, <1>2, <1>4, <1>6 DEF Kept
<1>8. \A q \in Paths : ~ IsPrefix(d, q) =>
        named'[q] = IF IsPrefix(q, d) /\ named[q] = Absent THEN Nil ELSE named[q]
  BY <1>1, <1>4, <1>6 DEF Kept
<1>9. ~ shadowed /\ ~ IsPrefix(s, d) /\ ~ IsPrefix(d, s) =>
        \A q \in Paths : IsPrefix(d, q) /\ Across(s, d, q) \in Paths => named'[q] = named[Across(s, d, q)]
  <2> SUFFICES ASSUME ~ shadowed, ~ IsPrefix(s, d), ~ IsPrefix(d, s)
               PROVE  \A q \in Paths : IsPrefix(d, q) /\ Across(s, d, q) \in Paths => named'[q] = named[Across(s, d, q)]
    OBVIOUS
  <2>1. Done(View(key), B, s, d, flag) BY <1>1, <1>3, <1>4, FilledDone
  <2> DEFINE M == named'
             N == named
  <2>2. Done(M, B, s, d, flag) /\ M[d] = B[d] /\ B = Bound(N, s, d)
    BY <1>1, <1>5, <1>7, <2>1
  <2> HIDE DEF M, N
  <2>3. s \in Paths /\ d \in Paths BY <1>2
  <2>4. \A q \in Paths : IsPrefix(d, q) /\ Across(s, d, q) \in Paths => M[q] = N[Across(s, d, q)]
    BY <2>2, <2>3, DoneBound
  <2> QED BY <2>4 DEF M, N
<1>10. IsPrefix(d, s) => \A q \in Paths : IsPrefix(d, q) /\ q # d => named'[q] = Absent
  BY <1>1, <1>4, <1>6
<1>11. IsPrefix(d, s) /\ d # s => named'[d] = Nil BY <1>4
<1>12. Promise!Bind(s, d)
  BY <1>1, <1>2, <1>7, <1>8, <1>9, <1>10, <1>11, PromisedBind
<1> QED BY <1>12 DEF s, d

\* A bind of a path over one it is below is done at once.
LEMMA UnboundPromised ==
  ASSUME NEW s \in Paths, NEW d \in Paths, shadowed' = shadowed, named[s] # Absent, IsPrefix(d, s), d # s,
         Unbound(named, named', d)
  PROVE  Promise!Bind(s, d)
BY PathIs, PrefixLine, PromisedBind DEF Unbound

-----------------------------------------------------------------------------
(* The refinement *)

\* Every step of the registry is one of the promise, or is not seen.
LEMMA EveryStepPromised ==
  ASSUME Spelt, IInv, IInv', Seen, Busy, Copying, Next
  PROVE  Promised \/ UNCHANGED <<named, shadowed, call>>
<1>1. CASE call = NoCall \/ Direct(call) BY <1>1, StepPromised
<1>2. CASE call # NoCall /\ ~ Direct(call)
  <2>1. call \in Calls BY <1>2 DEF IInv
  <2>2. call.op \in {"mount", "bind"} /\ call.s \in Paths /\ call.d \in Paths /\ named[call.s] # Absent
    <3>1. \/ call.op \in {"set", "delete"} /\ call.p \notin Paths
          \/ call.op \in {"move", "unmount"} /\ ~ (call.s \in Paths /\ call.d \in Paths)
          \/ call.op = "unmount all" /\ call.d \notin Paths
          \/ call.op \in {"mount", "bind"} /\ ~ (call.s \in Paths /\ named[call.s] = Absent)
      BY <1>2 DEF Direct
    <3> QED BY <2>1, <3>1 DEF Spelt
  <2>3. CASE RegMount BY <2>2, <2>3, CopyingMounts DEF RegMount
  <2>4. CASE RegBind
    BY <1>2, <2>2, <2>4, CopyingBinds, UnboundPromised DEF RegBind, Fails, Called, Promised, Promise!Serve
  <2>5. CASE MountNext \/ MountMirror BY <2>5, Zenon DEF MountNext, MountMirror
  <2>6. CASE MountReturn
    <3>1. CASE Len(frames) = 1
      <4>1. call' = NoCall BY <2>6, <3>1 DEF MountReturn
      <4>2. CASE call.op = "mount"
        BY <1>2, <2>6, <3>1, <4>1, <4>2, MountPromised DEF Promised, Promise!Serve
      <4>3. CASE call.op = "bind"
        BY <1>2, <2>6, <3>1, <4>1, <4>3, BindPromised DEF Promised, Promise!Serve
      <4> QED BY <2>2, <4>2, <4>3
    <3>2. CASE Len(frames) # 1 BY <2>6, <3>2 DEF MountReturn
    <3> QED BY <3>1, <3>2
  <2>7. CASE RegSet \/ RegDelete \/ RegMove \/ RegUnmount \/ RegUnmountAll
    BY <2>2, <2>7, Zenon DEF RegSet, RegDelete, RegMove, RegUnmount, RegUnmountAll, Called
  <2>8. CASE \E c \in Calls : Ask(c) BY <1>2, <2>8 DEF Ask
  <2> QED BY <2>3, <2>4, <2>5, <2>6, <2>7, <2>8 DEF Next, Serve
<1> QED BY <1>1, <1>2

\* The registry is the map from paths to values that Namespace describes: with
\* calls whose paths have no slash at their end and are not too long, whatever
\* they are and in whatever order they come, every call does what Namespace
\* promises of it, in one step.  reg_mount and reg_bind, which copy a key per
\* turn and read the lists they are extending, do so when the first frame
\* returns; until then nothing of them is promised.
THEOREM NamespaceIsImplemented ==
  ASSUME Spelt
  PROVE  Spec => ImplementsNamespace
<1> DEFINE Inv == IInv /\ PathsRight /\ Seen /\ Busy /\ Copying
<1>1. Init => Inv /\ Promise!NamespaceInit
  BY InvariantHoldsAtFirst, PathsRightAtFirst, SeenAtFirst, BusyAtFirst, CopyingAtFirst, PromisedAtFirst
<1>2. Inv /\ [Next]_vars => Inv'
  BY SpeltUnslashed, InvariantKept, PathsKept, SeenKept, BusyKept, CopyingKept
<1>3. Inv /\ Inv' /\ [Next]_vars => [Promise!Ask \/ Promise!Serve]_(Promise!nvars)
  BY EveryStepPromised DEF Promise!nvars, Promised, vars
<1> HIDE DEF Inv
<1> QED BY <1>1, <1>2, <1>3, PTL DEF Spec, ImplementsNamespace, Promise!NamespaceSpec

=============================================================================
