---------------------------- MODULE SchedProofs ----------------------------
(***************************************************************************)
(* Proofs about Sched, for any set of processes, wait paths and priorities *)
(* (proc_create gives every process the same one).                         *)
(***************************************************************************)
EXTENDS SchedTurns, SequenceTheorems, TLAPS

\* Facts about the state that the invariants of Sched need to be inductive: an
\* unused control block still has its own fresh context, and the current process
\* is one that was created.
FreshContexts == \A p \in Procs : state[p] = "UNUSED" => ctx[p] = p
CurrentCreated == g_current_proc # None => state[g_current_proc] # "UNUSED"
ExitedCreated == \A p \in exited : state[p] # "UNUSED"

IInv ==
  /\ TypeOK
  /\ QueueHoldsLive
  /\ LevelCounts
  /\ ContextsExclusive
  /\ RunningIsCurrent
  /\ BlockedIsCurrent
  /\ AckOwedOnce
  /\ FreshContexts
  /\ CurrentCreated
  /\ ExitedCreated

----------------------------------------------------------------------------
\* The helpers on queues

\* A process's level is one of the eight.
LEMMA LevelInRange == \A p \in Procs : prio_level(p) \in Levels
<1> SUFFICES ASSUME NEW p \in Procs PROVE prio_level(p) \in Levels
  OBVIOUS
<1>1. Priority[p] \in 0..255
  BY PriorityAssumption
<1>2. (Priority[p] * 8) \div 256 \in 0..7
  BY <1>1
<1> QED
  BY <1>2 DEF prio_level, Levels, SCHED_LEVELS

\* Rotating a queue keeps its length and moves every element one place up.
LEMMA RotateElements ==
  ASSUME NEW S, NEW q \in Seq(S), q # <<>>
  PROVE  /\ Rotate(q) \in Seq(S)
         /\ Len(Rotate(q)) = Len(q)
         /\ \A i \in 1..Len(q) : Rotate(q)[i] = IF i < Len(q) THEN q[i + 1] ELSE q[1]
BY DEF Rotate

\* Unlinking position k keeps the other elements in order.
LEMMA RemoveElements ==
  ASSUME NEW S, NEW q \in Seq(S), NEW k \in 1..Len(q)
  PROVE  /\ RemoveAt(q, k) \in Seq(S)
         /\ Len(RemoveAt(q, k)) = Len(q) - 1
         /\ \A i \in 1..(Len(q) - 1) :
              RemoveAt(q, k)[i] = IF i < k THEN q[i] ELSE q[i + 1]
<1> DEFINE a == SubSeq(q, 1, k - 1)
           b == SubSeq(q, k + 1, Len(q))
<1>1. a \in Seq(S) /\ Len(a) = k - 1 /\ \A i \in 1..(k - 1) : a[i] = q[i]
  OBVIOUS
<1>2. b \in Seq(S) /\ Len(b) = Len(q) - k /\ \A i \in 1..(Len(q) - k) : b[i] = q[k + i]
  OBVIOUS
<1> HIDE DEF a, b
<1>3. /\ a \o b \in Seq(S)
      /\ Len(a \o b) = Len(a) + Len(b)
      /\ \A i \in 1..(Len(a) + Len(b)) : (a \o b)[i] = IF i <= Len(a) THEN a[i] ELSE b[i - Len(a)]
  BY <1>1, <1>2, ConcatProperties
<1>4. RemoveAt(q, k) = a \o b
  BY DEF RemoveAt, a, b
<1>5. Len(a) = k - 1 /\ Len(a) + Len(b) = Len(q) - 1
  BY <1>1, <1>2
<1>6. ASSUME NEW i \in 1..(Len(q) - 1)
      PROVE  (a \o b)[i] = IF i < k THEN q[i] ELSE q[i + 1]
  <2>1. CASE i < k
    BY <1>1, <1>3, <1>5, <2>1
  <2>2. CASE ~(i < k)
    <3>1. i - (k - 1) \in 1..(Len(q) - k) /\ k + (i - (k - 1)) = i + 1
      BY <2>2
    <3>2. (a \o b)[i] = b[i - (k - 1)]
      BY <1>3, <1>5, <2>2
    <3> QED
      BY <1>2, <2>2, <3>1, <3>2
  <2> QED
    BY <2>1, <2>2
<1> QED
  BY <1>3, <1>4, <1>5, <1>6

\* Appending.
LEMMA AppendElements ==
  ASSUME NEW S, NEW q \in Seq(S), NEW e \in S
  PROVE  /\ Append(q, e) \in Seq(S)
         /\ Len(Append(q, e)) = Len(q) + 1
         /\ \A i \in 1..Len(q) : Append(q, e)[i] = q[i]
         /\ Append(q, e)[Len(q) + 1] = e
OBVIOUS

----------------------------------------------------------------------------
\* Steps that relink the queues keep QueueHoldsLive

\* The picked level is not empty, its head is a READY process of that level.
LEMMA PickedHead ==
  ASSUME TypeOK, QueueHoldsLive, NEW st, NEW l \in Picked(st)
  PROVE  /\ l \in Levels
         /\ queue[l] \in Seq(Procs)
         /\ queue[l] # <<>>
         /\ Head(queue[l]) \in Procs
         /\ st[Head(queue[l])] = "READY"
         /\ Live(Head(queue[l]))
<1>1. l \in Levels /\ queue[l] # <<>> /\ st[Head(queue[l])] = "READY"
  BY DEF Picked, HeadReady
<1>2. queue[l] \in Seq(Procs)
  BY <1>1 DEF TypeOK
<1>3. 1 \in DOMAIN queue[l] /\ Head(queue[l]) = queue[l][1]
  BY <1>1, <1>2
<1>4. Live(Head(queue[l]))
  BY <1>1, <1>3 DEF QueueHoldsLive
<1> QED
  BY <1>1, <1>2, <1>3, <1>4

\* QueueHoldsLive as a relation between the queues and the set of live
\* processes, without the state around them.
Sound(qu, L) ==
  /\ \A l \in Levels : IsInjective(qu[l])
  /\ \A l \in Levels : \A i \in DOMAIN qu[l] : qu[l][i] \in L /\ prio_level(qu[l][i]) = l
  /\ \A p \in L : \E i \in DOMAIN qu[prio_level(p)] : qu[prio_level(p)][i] = p

LiveSet == {p \in Procs : Live(p)}

LEMMA SoundIsHoldsLive == TypeOK => (QueueHoldsLive <=> Sound(queue, LiveSet))
<1> SUFFICES ASSUME TypeOK PROVE QueueHoldsLive <=> Sound(queue, LiveSet)
  OBVIOUS
<1>1. \A l \in Levels : \A i \in DOMAIN queue[l] : queue[l][i] \in Procs
  BY DEF TypeOK
<1> QED
  BY <1>1 DEF QueueHoldsLive, Sound, LiveSet, Queued

\* Rotation keeps a queue free of duplicates and keeps its elements.
LEMMA RotateKeeps ==
  ASSUME NEW S, NEW q \in Seq(S), q # <<>>, IsInjective(q)
  PROVE  /\ IsInjective(Rotate(q))
         /\ \A i \in DOMAIN Rotate(q) : \E j \in DOMAIN q : Rotate(q)[i] = q[j]
         /\ \A j \in DOMAIN q : \E i \in DOMAIN Rotate(q) : Rotate(q)[i] = q[j]
<1> DEFINE n == Len(q)
           r == Rotate(q)
<1>1. /\ r \in Seq(S) /\ Len(r) = n
      /\ \A i \in 1..n : r[i] = IF i < n THEN q[i + 1] ELSE q[1]
  BY RotateElements
<1>2. DOMAIN q = 1..n /\ DOMAIN r = 1..n /\ n \in Nat \ {0}
  BY <1>1
<1> HIDE DEF r, n
<1>3. \A i, j \in 1..n : q[i] = q[j] => i = j
  BY <1>2 DEF IsInjective
<1>4. ASSUME NEW i \in 1..n, NEW j \in 1..n, r[i] = r[j] PROVE i = j
  <2>1. CASE i < n /\ j < n
    <3>1. i + 1 \in 1..n /\ j + 1 \in 1..n /\ q[i + 1] = q[j + 1]
      BY <1>1, <1>2, <1>4, <2>1
    <3> QED
      BY <1>3, <3>1
  <2>2. CASE i < n /\ ~(j < n)
    <3>1. i + 1 \in 1..n /\ 1 \in 1..n /\ q[i + 1] = q[1]
      BY <1>1, <1>2, <1>4, <2>2
    <3> QED
      BY <1>3, <3>1
  <2>3. CASE ~(i < n) /\ j < n
    <3>1. j + 1 \in 1..n /\ 1 \in 1..n /\ q[j + 1] = q[1]
      BY <1>1, <1>2, <1>4, <2>3
    <3> QED
      BY <1>3, <3>1
  <2>4. CASE ~(i < n) /\ ~(j < n)
    BY <1>2, <2>4
  <2> QED
    BY <2>1, <2>2, <2>3, <2>4
<1>5. IsInjective(r)
  BY <1>2, <1>4 DEF IsInjective
<1>6. \A i \in DOMAIN r : \E j \in DOMAIN q : r[i] = q[j]
  BY <1>1, <1>2
<1>7. ASSUME NEW j \in 1..n PROVE \E i \in 1..n : r[i] = q[j]
  <2>1. CASE j = 1
    <3>1. r[n] = q[1] /\ n \in 1..n
      BY <1>1, <1>2
    <3> QED
      BY <2>1, <3>1
  <2>2. CASE j # 1
    <3>1. j - 1 \in 1..n /\ j - 1 < n /\ (j - 1) + 1 = j
      BY <2>2, <1>2
    <3>2. r[j - 1] = q[j]
      BY <3>1, <1>1
    <3> QED
      BY <3>1, <3>2
  <2> QED
    BY <2>1, <2>2
<1> QED
  BY <1>2, <1>5, <1>6, <1>7 DEF r

\* sched_pick_next's rotation.
LEMMA RotateSound ==
  ASSUME NEW qu \in [Levels -> Seq(Procs)], NEW L \in SUBSET Procs, Sound(qu, L),
         NEW l \in Levels, qu[l] # <<>>
  PROVE  LET rot == [qu EXCEPT ![l] = Rotate(@)] IN
         /\ rot \in [Levels -> Seq(Procs)]
         /\ Sound(rot, L)
         /\ \A k \in Levels : Len(rot[k]) = Len(qu[k])
<1> DEFINE rot == [qu EXCEPT ![l] = Rotate(@)]
<1>1. /\ Rotate(qu[l]) \in Seq(Procs)
      /\ Len(Rotate(qu[l])) = Len(qu[l])
  BY RotateElements
<1>2. /\ IsInjective(Rotate(qu[l]))
      /\ \A i \in DOMAIN Rotate(qu[l]) : \E j \in DOMAIN qu[l] : Rotate(qu[l])[i] = qu[l][j]
      /\ \A j \in DOMAIN qu[l] : \E i \in DOMAIN Rotate(qu[l]) : Rotate(qu[l])[i] = qu[l][j]
  <2>1. IsInjective(qu[l])
    BY DEF Sound
  <2> QED
    BY <2>1, RotateKeeps
<1>3. /\ rot[l] = Rotate(qu[l])
      /\ \A k \in Levels \ {l} : rot[k] = qu[k]
      /\ rot \in [Levels -> Seq(Procs)]
  BY <1>1
<1> HIDE DEF rot
<1>4. \A k \in Levels : IsInjective(rot[k])
  BY <1>2, <1>3 DEF Sound
<1>5. \A k \in Levels : \A i \in DOMAIN rot[k] : \E j \in DOMAIN qu[k] : rot[k][i] = qu[k][j]
  <2> SUFFICES ASSUME NEW k \in Levels
               PROVE  \A i \in DOMAIN rot[k] : \E j \in DOMAIN qu[k] : rot[k][i] = qu[k][j]
    OBVIOUS
  <2>1. CASE k = l
    <3>1. rot[k] = Rotate(qu[l]) /\ qu[k] = qu[l]
      BY <1>3, <2>1
    <3> QED
      BY <1>2, <3>1
  <2>2. CASE k # l
    BY <1>3, <2>2
  <2> QED
    BY <2>1, <2>2
<1>6. \A k \in Levels : \A j \in DOMAIN qu[k] : \E i \in DOMAIN rot[k] : rot[k][i] = qu[k][j]
  <2> SUFFICES ASSUME NEW k \in Levels
               PROVE  \A j \in DOMAIN qu[k] : \E i \in DOMAIN rot[k] : rot[k][i] = qu[k][j]
    OBVIOUS
  <2>1. CASE k = l
    <3>1. rot[k] = Rotate(qu[l]) /\ qu[k] = qu[l]
      BY <1>3, <2>1
    <3> QED
      BY <1>2, <3>1
  <2>2. CASE k # l
    BY <1>3, <2>2
  <2> QED
    BY <2>1, <2>2
<1>7. Sound(rot, L)
  <2>1. \A k \in Levels : \A i \in DOMAIN rot[k] : rot[k][i] \in L /\ prio_level(rot[k][i]) = k
    BY <1>5 DEF Sound
  <2>2. \A p \in L : \E i \in DOMAIN rot[prio_level(p)] : rot[prio_level(p)][i] = p
    BY <1>6, LevelInRange DEF Sound
  <2> QED
    BY <1>4, <2>1, <2>2 DEF Sound
<1>8. \A k \in Levels : Len(rot[k]) = Len(qu[k])
  BY <1>1, <1>3
<1> QED
  BY <1>3, <1>7, <1>8 DEF rot

\* Unlinking position k leaves exactly the other elements, without duplicates.
LEMMA RemoveKeeps ==
  ASSUME NEW S, NEW q \in Seq(S), IsInjective(q), NEW k \in 1..Len(q)
  PROVE  LET r == RemoveAt(q, k) IN
         /\ IsInjective(r)
         /\ \A i \in DOMAIN r : \E j \in DOMAIN q : j # k /\ r[i] = q[j]
         /\ \A j \in DOMAIN q : j # k => \E i \in DOMAIN r : r[i] = q[j]
<1> DEFINE n == Len(q)
           r == RemoveAt(q, k)
<1>1. /\ r \in Seq(S) /\ Len(r) = n - 1
      /\ \A i \in 1..(n - 1) : r[i] = IF i < k THEN q[i] ELSE q[i + 1]
  BY RemoveElements
<1>2. DOMAIN q = 1..n /\ DOMAIN r = 1..(n - 1) /\ n \in Nat \ {0} /\ k \in 1..n
  BY <1>1
<1> HIDE DEF r, n
<1>3. \A i, j \in 1..n : q[i] = q[j] => i = j
  BY <1>2 DEF IsInjective
<1>4. ASSUME NEW i \in 1..(n - 1), NEW j \in 1..(n - 1), r[i] = r[j] PROVE i = j
  <2>1. CASE i < k /\ j < k
    <3>1. i \in 1..n /\ j \in 1..n /\ q[i] = q[j]
      BY <1>1, <1>2, <1>4, <2>1
    <3> QED
      BY <1>3, <3>1
  <2>2. CASE i < k /\ ~(j < k)
    <3>1. i \in 1..n /\ j + 1 \in 1..n /\ q[i] = q[j + 1]
      BY <1>1, <1>2, <1>4, <2>2
    <3>2. i = j + 1
      BY <1>3, <3>1
    <3> QED
      BY <2>2, <3>2
  <2>3. CASE ~(i < k) /\ j < k
    <3>1. j \in 1..n /\ i + 1 \in 1..n /\ q[j] = q[i + 1]
      BY <1>1, <1>2, <1>4, <2>3
    <3>2. j = i + 1
      BY <1>3, <3>1
    <3> QED
      BY <2>3, <3>2
  <2>4. CASE ~(i < k) /\ ~(j < k)
    <3>1. i + 1 \in 1..n /\ j + 1 \in 1..n /\ q[i + 1] = q[j + 1]
      BY <1>1, <1>2, <1>4, <2>4
    <3>2. i + 1 = j + 1
      BY <1>3, <3>1
    <3> QED
      BY <3>2
  <2> QED
    BY <2>1, <2>2, <2>3, <2>4
<1>5. IsInjective(r)
  BY <1>2, <1>4 DEF IsInjective
<1>6. ASSUME NEW i \in 1..(n - 1) PROVE \E j \in 1..n : j # k /\ r[i] = q[j]
  <2>1. CASE i < k
    BY <1>1, <1>2, <2>1
  <2>2. CASE ~(i < k)
    <3>1. i + 1 \in 1..n /\ i + 1 # k /\ r[i] = q[i + 1]
      BY <1>1, <1>2, <2>2
    <3> QED
      BY <3>1
  <2> QED
    BY <2>1, <2>2
<1>7. ASSUME NEW j \in 1..n, j # k PROVE \E i \in 1..(n - 1) : r[i] = q[j]
  <2>1. CASE j < k
    <3>1. j \in 1..(n - 1) /\ r[j] = q[j]
      BY <1>1, <1>2, <2>1
    <3> QED
      BY <3>1
  <2>2. CASE ~(j < k)
    <3>1. j - 1 \in 1..(n - 1) /\ ~(j - 1 < k) /\ (j - 1) + 1 = j
      BY <1>2, <1>7, <2>2
    <3>2. r[j - 1] = q[j]
      BY <1>1, <3>1
    <3> QED
      BY <3>1, <3>2
  <2> QED
    BY <2>1, <2>2
<1> QED
  BY <1>2, <1>5, <1>6, <1>7 DEF r

\* sched_remove's unlink takes exactly the process out of the live set.
LEMMA RemoveSound ==
  ASSUME NEW qu \in [Levels -> Seq(Procs)], NEW L \in SUBSET Procs, Sound(qu, L),
         NEW p \in L
  PROVE  LET l == prio_level(p)
             rem == [qu EXCEPT ![l] = RemoveAt(@, Index(@, p))] IN
         /\ rem \in [Levels -> Seq(Procs)]
         /\ Sound(rem, L \ {p})
         /\ Len(rem[l]) = Len(qu[l]) - 1
         /\ Len(qu[l]) \in Nat \ {0}
         /\ \A k \in Levels \ {l} : rem[k] = qu[k]
<1> DEFINE l == prio_level(p)
           x == Index(qu[l], p)
           rem == [qu EXCEPT ![l] = RemoveAt(@, Index(@, p))]
<1>1. l \in Levels /\ qu[l] \in Seq(Procs)
  BY LevelInRange
<1>2. x \in 1..Len(qu[l]) /\ qu[l][x] = p
  <2>1. \E i \in DOMAIN qu[l] : qu[l][i] = p
    BY DEF Sound
  <2>2. x \in DOMAIN qu[l] /\ qu[l][x] = p
    BY <2>1 DEF Index
  <2> QED
    BY <1>1, <2>2
<1>3. /\ RemoveAt(qu[l], x) \in Seq(Procs)
      /\ Len(RemoveAt(qu[l], x)) = Len(qu[l]) - 1
      /\ Len(qu[l]) \in Nat \ {0}
  BY <1>1, <1>2, RemoveElements
<1>4. /\ rem[l] = RemoveAt(qu[l], x)
      /\ \A k \in Levels \ {l} : rem[k] = qu[k]
      /\ rem \in [Levels -> Seq(Procs)]
  BY <1>1, <1>3
<1> HIDE DEF rem, x, l
<1>5. /\ IsInjective(rem[l])
      /\ \A i \in DOMAIN rem[l] : \E j \in DOMAIN qu[l] : j # x /\ rem[l][i] = qu[l][j]
      /\ \A j \in DOMAIN qu[l] : j # x => \E i \in DOMAIN rem[l] : rem[l][i] = qu[l][j]
  <2>1. IsInjective(qu[l])
    BY <1>1 DEF Sound
  <2> QED
    BY <1>1, <1>2, <1>4, <2>1, RemoveKeeps
<1>6. \A k \in Levels : IsInjective(rem[k])
  BY <1>4, <1>5 DEF Sound
<1>7. ASSUME NEW k \in Levels, NEW i \in DOMAIN rem[k]
      PROVE  rem[k][i] \in L \ {p} /\ prio_level(rem[k][i]) = k
  <2>1. CASE k = l
    <3>1. PICK j \in DOMAIN qu[l] : j # x /\ rem[l][i] = qu[l][j]
      BY <1>5, <1>7, <2>1, Zenon
    <3>2. qu[l][j] # p
      BY <1>1, <1>2, <3>1 DEF Sound, IsInjective
    <3>3. qu[l][j] \in L /\ prio_level(qu[l][j]) = l
      BY <1>1, <3>1 DEF Sound
    <3> QED
      BY <2>1, <3>1, <3>2, <3>3
  <2>2. CASE k # l
    <3>1. rem[k] = qu[k] /\ qu[k][i] \in L /\ prio_level(qu[k][i]) = k
      BY <1>4, <1>7, <2>2 DEF Sound
    <3> QED
      BY <2>2, <3>1 DEF l
  <2> QED
    BY <2>1, <2>2
<1>8. ASSUME NEW o \in L \ {p}
      PROVE  \E i \in DOMAIN rem[prio_level(o)] : rem[prio_level(o)][i] = o
  <2>1. PICK j \in DOMAIN qu[prio_level(o)] : qu[prio_level(o)][j] = o
    BY DEF Sound
  <2>2. prio_level(o) \in Levels
    BY LevelInRange
  <2>3. CASE prio_level(o) = l
    BY <1>2, <1>5, <2>1, <2>3
  <2>4. CASE prio_level(o) # l
    BY <1>4, <2>1, <2>2, <2>4
  <2> QED
    BY <2>3, <2>4
<1>9. Sound(rem, L \ {p})
  BY <1>6, <1>7, <1>8 DEF Sound
<1>10. Len(rem[l]) = Len(qu[l]) - 1
  BY <1>3, <1>4
<1> QED
  BY <1>3, <1>4, <1>9, <1>10 DEF rem, l, x

\* sched_add's append puts exactly the new process into the live set.
LEMMA AddSound ==
  ASSUME NEW qu \in [Levels -> Seq(Procs)], NEW L \in SUBSET Procs, Sound(qu, L),
         NEW p \in Procs, p \notin L
  PROVE  LET l == prio_level(p)
             add == [qu EXCEPT ![l] = Append(@, p)] IN
         /\ add \in [Levels -> Seq(Procs)]
         /\ Sound(add, L \cup {p})
         /\ Len(add[l]) = Len(qu[l]) + 1
         /\ \A k \in Levels \ {l} : add[k] = qu[k]
<1> DEFINE l == prio_level(p)
           q == qu[l]
           n == Len(q)
           add == [qu EXCEPT ![l] = Append(@, p)]
<1>1. l \in Levels /\ q \in Seq(Procs) /\ n \in Nat /\ DOMAIN q = 1..n
  BY LevelInRange
<1>2. /\ add[l] = Append(q, p)
      /\ \A k \in Levels \ {l} : add[k] = qu[k]
      /\ add \in [Levels -> Seq(Procs)]
  BY <1>1
<1>3. /\ Len(add[l]) = n + 1
      /\ DOMAIN add[l] = 1..(n + 1)
      /\ \A i \in 1..n : add[l][i] = q[i]
      /\ add[l][n + 1] = p
  BY <1>1, <1>2
<1>4. \A i \in 1..n : q[i] \in L /\ prio_level(q[i]) = l
  BY <1>1 DEF Sound
<1> HIDE DEF add, n, q, l
<1>5. IsInjective(add[l])
  <2>1. \A i, j \in 1..n : q[i] = q[j] => i = j
    BY <1>1 DEF Sound, IsInjective, q
  <2>2. ASSUME NEW i \in 1..(n + 1), NEW j \in 1..(n + 1), add[l][i] = add[l][j]
        PROVE  i = j
    <3>1. CASE i \in 1..n /\ j \in 1..n
      BY <1>3, <2>1, <2>2, <3>1
    <3>2. CASE i = n + 1 /\ j \in 1..n
      BY <1>3, <1>4, <2>2, <3>2
    <3>3. CASE i \in 1..n /\ j = n + 1
      BY <1>3, <1>4, <2>2, <3>3
    <3>4. CASE i = n + 1 /\ j = n + 1
      BY <3>4
    <3> QED
      BY <1>1, <3>1, <3>2, <3>3, <3>4
  <2> QED
    BY <1>3, <2>2 DEF IsInjective
<1>6. \A k \in Levels : IsInjective(add[k])
  BY <1>2, <1>5 DEF Sound
<1>7. ASSUME NEW k \in Levels, NEW i \in DOMAIN add[k]
      PROVE  add[k][i] \in L \cup {p} /\ prio_level(add[k][i]) = k
  <2>1. CASE k = l
    <3>1. i \in 1..n \/ i = n + 1
      BY <1>1, <1>3, <1>7, <2>1
    <3>2. CASE i \in 1..n
      BY <1>3, <1>4, <2>1, <3>2
    <3>3. CASE i = n + 1
      BY <1>3, <2>1, <3>3 DEF l
    <3> QED
      BY <3>1, <3>2, <3>3
  <2>2. CASE k # l
    BY <1>2, <1>7, <2>2 DEF Sound
  <2> QED
    BY <2>1, <2>2
<1>8. ASSUME NEW o \in L \cup {p}
      PROVE  \E i \in DOMAIN add[prio_level(o)] : add[prio_level(o)][i] = o
  <2>1. CASE o = p
    <3>1. n + 1 \in DOMAIN add[l] /\ add[l][n + 1] = o
      BY <1>1, <1>3, <2>1
    <3> QED
      BY <2>1, <3>1 DEF l
  <2>2. CASE o # p
    <3>1. PICK j \in DOMAIN qu[prio_level(o)] : qu[prio_level(o)][j] = o
      BY <2>2 DEF Sound
    <3>2. prio_level(o) \in Levels
      BY LevelInRange
    <3>3. CASE prio_level(o) = l
      <4>1. j \in 1..n /\ q[j] = o
        BY <1>1, <3>1, <3>3 DEF q
      <4>2. j \in DOMAIN add[l] /\ add[l][j] = o
        BY <1>1, <1>3, <4>1
      <4> QED
        BY <3>3, <4>2
    <3>4. CASE prio_level(o) # l
      BY <1>2, <3>1, <3>2, <3>4
    <3> QED
      BY <3>3, <3>4
  <2> QED
    BY <2>1, <2>2
<1>9. Sound(add, L \cup {p})
  BY <1>6, <1>7, <1>8 DEF Sound
<1> QED
  BY <1>2, <1>3, <1>9 DEF add, l, n, q

----------------------------------------------------------------------------
\* sched_tick

\* One tick, entered with process states st in which only the current process
\* can be RUNNING or BLOCKED, keeps every part of the invariant.
LEMMA TickStep ==
  ASSUME IInv,
         NEW st \in [Procs -> ProcStates],
         \A p \in Procs : st[p] = "UNUSED" <=> state[p] = "UNUSED",
         \A p \in Procs : st[p] \in {"RUNNING", "BLOCKED"} => p = g_current_proc,
         NEW inIsr \in BOOLEAN, inIsr => ~irq_open,
         sched_tick(st, inIsr),
         wait_path' \in [Procs -> Paths \cup {None}],
         reg_state' \in [Procs -> RegStates],
         exited' = exited
  PROVE  IInv'
<1> DEFINE Same == state' = st /\ UNCHANGED <<g_current_proc, ctx, cpu>>
<1>1. /\ s_tick' \in 0..(PublishEvery - 1)
      /\ published' \in [runqueue_depth : Int, current_pid : Procs \cup {None}]
  <2>1. PublishEvery \in Nat \ {0} /\ s_tick \in 0..(PublishEvery - 1) /\ s_total \in Int
        /\ published \in [runqueue_depth : Int, current_pid : Procs \cup {None}]
        /\ g_current_proc \in Procs \cup {None}
    BY PublishAssumption DEF IInv, TypeOK
  <2>2. s_tick' = (s_tick + 1) % PublishEvery
    BY DEF sched_tick, publish_state
  <2>3. (s_tick + 1) % PublishEvery \in 0..(PublishEvery - 1)
    BY <2>1
  <2>4. published' = published \/
        published' = [runqueue_depth |-> s_total,
                      current_pid |-> IF g_current_proc # None THEN g_current_proc
                                      ELSE published.current_pid]
    BY DEF sched_tick, publish_state
  <2> QED
    BY <2>1, <2>2, <2>3, <2>4
<1>2. s_counts' = s_counts /\ s_total' = s_total
  BY DEF sched_tick
<1>3. IInv /\ Sound(queue, LiveSet)
  BY SoundIsHoldsLive DEF IInv
\* The queues: unchanged, or one level rotated.
<1>4. \/ queue' = queue /\ Same
      \/ \E l \in Picked(st) :
           /\ queue' = [queue EXCEPT ![l] = Rotate(@)]
           /\ \/ Same
              \/ Head(queue[l]) # g_current_proc /\ SwitchTo(Head(queue[l]), st)
  BY DEF sched_tick
<1>5. /\ queue' \in [Levels -> Seq(Procs)]
      /\ Sound(queue', LiveSet)
      /\ \A k \in Levels : Len(queue'[k]) = Len(queue[k])
  <2>1. CASE queue' = queue
    BY <1>3, <2>1 DEF IInv, TypeOK
  <2>2. ASSUME NEW l \in Picked(st), queue' = [queue EXCEPT ![l] = Rotate(@)]
        PROVE  /\ queue' \in [Levels -> Seq(Procs)]
               /\ Sound(queue', LiveSet)
               /\ \A k \in Levels : Len(queue'[k]) = Len(queue[k])
    <3>1. l \in Levels /\ queue[l] # <<>>
      BY <1>3, PickedHead DEF IInv
    <3>2. queue \in [Levels -> Seq(Procs)] /\ LiveSet \in SUBSET Procs
      BY <1>3 DEF IInv, TypeOK, LiveSet
    <3> QED
      BY <1>3, <2>2, <3>1, <3>2, RotateSound
  <2> QED
    BY <1>4, <2>1, <2>2
\* The rest: no switch, or a switch to a READY process that was not current.
<1>6. \/ Same
      \/ \E next \in Procs : /\ next # g_current_proc
                             /\ st[next] = "READY"
                             /\ SwitchTo(next, st)
  BY <1>3, <1>4, PickedHead DEF IInv
<1>7. Acknowledge(inIsr)
  BY DEF sched_tick
<1>8. CASE Same
  <2>1. UNCHANGED <<irq_open, in_isr>>
    BY <1>7, <1>8 DEF Acknowledge
  <2>2. LiveSet' = LiveSet
    BY <1>8 DEF LiveSet, Live
  <2>3. TypeOK'
    BY <1>1, <1>2, <1>3, <1>5, <1>8, <2>1 DEF IInv, TypeOK
  <2>4. QueueHoldsLive'
    BY <1>5, <2>2, <2>3, SoundIsHoldsLive DEF Sound, LiveSet, QueueHoldsLive, Queued, prio_level
  <2>5. LevelCounts'
    BY <1>2, <1>3, <1>5 DEF IInv, LevelCounts
  <2>6. ContextsExclusive'
    BY <1>3, <1>8 DEF IInv, ContextsExclusive
  <2>7. RunningIsCurrent' /\ BlockedIsCurrent'
    BY <1>8 DEF RunningIsCurrent, BlockedIsCurrent
  <2>8. AckOwedOnce'
    BY <1>3, <1>8, <2>1 DEF IInv, AckOwedOnce
  <2>9. FreshContexts' /\ CurrentCreated' /\ ExitedCreated'
    BY <1>3, <1>8 DEF IInv, TypeOK, FreshContexts, CurrentCreated, ExitedCreated
  <2> QED
    BY <2>3, <2>4, <2>5, <2>6, <2>7, <2>8, <2>9 DEF IInv
<1>9. ASSUME NEW next \in Procs, next # g_current_proc, st[next] = "READY", SwitchTo(next, st)
      PROVE  IInv'
  <2> DEFINE prev == g_current_proc
  <2>1. g_current_proc' = next
    BY <1>9 DEF SwitchTo
  <2>2. /\ \A p \in Procs : state'[p] = "UNUSED" <=> state[p] = "UNUSED"
        /\ \A p \in Procs : state'[p] \in {"RUNNING", "BLOCKED"} => p = next
        /\ state' \in [Procs -> ProcStates]
    <3>1. CASE prev = None
      <4>1. state' = [st EXCEPT ![next] = "RUNNING"]
        BY <1>9, <3>1 DEF SwitchTo
      <4> QED
        BY <1>9, <3>1, <4>1, DistinctAssumption DEF ProcStates
    <3>2. CASE prev # None
      <4>1. prev \in Procs /\ state[prev] # "UNUSED"
        BY <1>3, <3>2 DEF IInv, TypeOK, CurrentCreated
      <4> QED
        BY <1>9, <3>2, <4>1 DEF SwitchTo, ProcStates
    <3> QED
      BY <3>1, <3>2
  <2>3. /\ ctx' \in [Procs -> Threads]
        /\ cpu' \in Threads
        /\ ContextsExclusive'
        /\ FreshContexts'
        /\ prev # None => cpu' # cpu
    <3>1. CASE prev = None
      <4>1. ctx' = ctx /\ cpu' = cpu
        BY <1>9, <3>1 DEF SwitchTo
      <4>2. ContextsExclusive'
        BY <1>3, <3>1, <4>1, DistinctAssumption DEF IInv, ContextsExclusive
      <4> QED
        BY <1>3, <2>2, <3>1, <4>1, <4>2 DEF IInv, TypeOK, FreshContexts
    <3>2. CASE prev # None
      <4>1. prev \in Procs /\ state[prev] # "UNUSED"
        BY <1>3, <3>2 DEF IInv, TypeOK, CurrentCreated
      <4>2. ctx' = [ctx EXCEPT ![prev] = cpu] /\ cpu' = ctx[next]
        BY <1>9, <3>2 DEF SwitchTo, ctx_switch
      <4>3. ctx' \in [Procs -> Threads] /\ cpu' \in Threads
        BY <1>3, <4>1, <4>2 DEF IInv, TypeOK
      <4>4. ctx[next] # cpu
        BY <1>3, <1>9 DEF IInv, ContextsExclusive
      <4>5. ContextsExclusive'
        BY <1>3, <1>9, <2>1, <4>1, <4>2, <4>4 DEF IInv, TypeOK, ContextsExclusive
      <4>6. FreshContexts'
        BY <1>3, <2>2, <4>1, <4>2 DEF IInv, TypeOK, FreshContexts
      <4> QED
        BY <4>2, <4>3, <4>4, <4>5, <4>6
    <3> QED
      BY <3>1, <3>2
  <2>4. AckOwedOnce' /\ irq_open' \in BOOLEAN /\ in_isr' \in SUBSET Threads
    <3>1. CASE prev = None
      <4>1. UNCHANGED <<irq_open, in_isr, cpu>>
        BY <1>7, <1>9, <3>1 DEF Acknowledge, SwitchTo
      <4> QED
        BY <1>3, <4>1 DEF IInv, TypeOK, AckOwedOnce
    <3>2. CASE prev # None
      <4> DEFINE owing == IF inIsr THEN in_isr \cup {cpu} ELSE in_isr
      <4>1. /\ in_isr' = owing \ {cpu'}
            /\ irq_open' = ((irq_open \/ inIsr) /\ cpu' \notin owing)
        BY <1>7, <1>9, <2>1, <3>2 DEF Acknowledge
      <4>2. cpu' # cpu
        BY <2>3, <3>2
      <4>3. CASE inIsr
        <5>1. in_isr = {} /\ owing = {cpu}
          BY <1>3, <4>3 DEF IInv, AckOwedOnce
        <5>2. in_isr' = {cpu} /\ irq_open'
          BY <4>1, <4>2, <4>3, <5>1
        <5> QED
          BY <1>3, <4>1, <4>2, <5>2 DEF IInv, TypeOK, AckOwedOnce
      <4>4. CASE ~inIsr
        <5>1. in_isr' = in_isr \ {cpu'} /\ (irq_open' <=> (irq_open /\ cpu' \notin in_isr))
              /\ irq_open' \in BOOLEAN
          BY <4>1, <4>4
        <5>2. in_isr \subseteq Threads /\ (irq_open <=> in_isr # {})
              /\ (\A t, u \in in_isr : t = u)
          BY <1>3 DEF IInv, TypeOK, AckOwedOnce
        <5>3. irq_open' <=> in_isr' # {}
          BY <5>1, <5>2
        <5> QED
          BY <5>1, <5>2, <5>3 DEF AckOwedOnce
      <4> QED
        BY <4>3, <4>4
    <3> QED
      BY <3>1, <3>2
  <2>5. LiveSet' = LiveSet
    BY <2>2 DEF LiveSet, Live
  <2>6. TypeOK'
    BY <1>1, <1>2, <1>3, <1>5, <2>1, <2>2, <2>3, <2>4 DEF IInv, TypeOK
  <2>7. QueueHoldsLive'
    BY <1>5, <2>5, <2>6, SoundIsHoldsLive DEF Sound, LiveSet, QueueHoldsLive, Queued, prio_level
  <2>8. LevelCounts'
    BY <1>2, <1>3, <1>5 DEF IInv, LevelCounts
  <2>9. RunningIsCurrent' /\ BlockedIsCurrent'
    BY <2>1, <2>2 DEF RunningIsCurrent, BlockedIsCurrent
  <2>10. CurrentCreated' /\ ExitedCreated'
    BY <1>3, <1>9, <2>1, <2>2 DEF IInv, TypeOK, CurrentCreated, ExitedCreated
  <2> QED
    BY <2>3, <2>4, <2>6, <2>7, <2>8, <2>9, <2>10 DEF IInv
<1> QED
  BY <1>6, <1>8, <1>9

----------------------------------------------------------------------------
\* The invariant

LEMMA InitIInv == Init => IInv
<1> SUFFICES ASSUME Init PROVE IInv
  OBVIOUS
<1>1. TypeOK
  <2>1. /\ queue \in [Levels -> Seq(Procs)]
        /\ s_counts \in [Levels -> Nat]
        /\ s_total \in Int
        /\ s_tick \in 0..(PublishEvery - 1)
    BY PublishAssumption DEF Init
  <2>2. /\ published \in [runqueue_depth : Int, current_pid : Procs \cup {None}]
        /\ state \in [Procs -> ProcStates]
        /\ wait_path \in [Procs -> Paths \cup {None}]
        /\ g_current_proc \in Procs \cup {None}
        /\ reg_state \in [Procs -> RegStates]
    BY DEF Init, ProcStates, RegStates
  <2>3. /\ ctx \in [Procs -> Threads]
        /\ cpu \in Threads
        /\ irq_open \in BOOLEAN
        /\ in_isr \subseteq Threads
        /\ exited \subseteq Procs
    BY DEF Init, Threads
  <2> QED
    BY <2>1, <2>2, <2>3 DEF TypeOK
<1>2. \A p \in Procs : ~Live(p)
  BY DEF Init, Live
<1>3. QueueHoldsLive
  BY <1>2, LevelInRange DEF Init, QueueHoldsLive, IsInjective
<1>4. LevelCounts
  BY DEF Init, LevelCounts
<1>5. ContextsExclusive /\ FreshContexts
  BY DistinctAssumption DEF Init, ContextsExclusive, FreshContexts
<1>6. RunningIsCurrent /\ BlockedIsCurrent /\ AckOwedOnce /\ CurrentCreated /\ ExitedCreated
  BY DEF Init, RunningIsCurrent, BlockedIsCurrent, AckOwedOnce, CurrentCreated, ExitedCreated
<1> QED
  BY <1>1, <1>3, <1>4, <1>5, <1>6 DEF IInv

LEMMA NextIInv == IInv /\ [Next]_vars => IInv'
<1> SUFFICES ASSUME IInv, [Next]_vars PROVE IInv'
  OBVIOUS
<1>1. TypeOK /\ Sound(queue, LiveSet) /\ LiveSet \in SUBSET Procs
  BY SoundIsHoldsLive DEF IInv, LiveSet
<1>2. ASSUME NEW p \in Procs, proc_create(p) PROVE IInv'
  <2> DEFINE l == prio_level(p)
  <2>1. p \notin LiveSet /\ l \in Levels /\ p \notin exited /\ p # g_current_proc
    <3>1. state[p] = "UNUSED"
      BY <1>2 DEF proc_create
    <3>2. p \notin exited /\ p # g_current_proc
      BY <3>1, DistinctAssumption DEF IInv, ExitedCreated, CurrentCreated
    <3> QED
      BY <3>1, <3>2, LevelInRange DEF LiveSet, Live
  <2>2. /\ queue' = [queue EXCEPT ![l] = Append(@, p)]
        /\ s_counts' = [s_counts EXCEPT ![l] = @ + 1]
        /\ s_total' = s_total + 1
    BY <1>2 DEF proc_create, sched_add
  <2>3. /\ queue' \in [Levels -> Seq(Procs)]
        /\ Sound(queue', LiveSet \cup {p})
        /\ Len(queue'[l]) = Len(queue[l]) + 1
        /\ \A k \in Levels \ {l} : queue'[k] = queue[k]
    <3>1. queue \in [Levels -> Seq(Procs)]
      BY <1>1 DEF TypeOK
    <3> QED
      BY <1>1, <2>1, <2>2, <3>1, AddSound
  <2>4. /\ state' = [state EXCEPT ![p] = "READY"]
        /\ ctx' = [ctx EXCEPT ![p] = p]
        /\ reg_state' = [reg_state EXCEPT ![p] = "ready"]
        /\ UNCHANGED <<s_tick, published, wait_path, g_current_proc, cpu, irq_open, in_isr, exited>>
    BY <1>2 DEF proc_create
  <2>5. ctx' = ctx
    BY <1>1, <1>2, <2>4 DEF IInv, FreshContexts, proc_create, TypeOK
  <2>6. LiveSet' = LiveSet \cup {p}
    BY <1>1, <2>1, <2>4 DEF LiveSet, Live, TypeOK
  <2>7. TypeOK'
    BY <1>1, <2>1, <2>2, <2>3, <2>4, <2>5 DEF TypeOK, ProcStates, RegStates
  <2>8. QueueHoldsLive'
    BY <2>3, <2>6, <2>7, SoundIsHoldsLive DEF Sound, LiveSet, QueueHoldsLive, Queued, prio_level
  <2>9. LevelCounts'
    BY <1>1, <2>1, <2>2, <2>3 DEF IInv, LevelCounts, TypeOK
  <2>10. ContextsExclusive' /\ AckOwedOnce'
    BY <2>4, <2>5 DEF IInv, ContextsExclusive, AckOwedOnce
  <2>11. RunningIsCurrent' /\ BlockedIsCurrent'
    BY <1>1, <2>4 DEF IInv, TypeOK, RunningIsCurrent, BlockedIsCurrent
  <2>12. FreshContexts' /\ CurrentCreated' /\ ExitedCreated'
    BY <1>1, <2>4, <2>5 DEF IInv, TypeOK, FreshContexts, CurrentCreated, ExitedCreated
  <2> QED
    BY <2>7, <2>8, <2>9, <2>10, <2>11, <2>12 DEF IInv
<1>3. ASSUME NEW p \in Procs, proc_destroy(p) PROVE IInv'
  <2> DEFINE l == prio_level(p)
  <2>1. p \in LiveSet /\ l \in Levels /\ Queued(p)
    <3>1. p \in LiveSet
      BY <1>1, <1>3 DEF proc_destroy, sched_find, Sound
    <3> QED
      BY <1>1, <3>1, LevelInRange DEF Sound, Queued
  <2>2. /\ queue' = [queue EXCEPT ![l] = RemoveAt(@, Index(@, p))]
        /\ s_counts' = [s_counts EXCEPT ![l] = @ - 1]
        /\ s_total' = s_total - 1
    BY <1>3, <2>1 DEF proc_destroy, sched_remove
  <2>3. /\ queue' \in [Levels -> Seq(Procs)]
        /\ Sound(queue', LiveSet \ {p})
        /\ Len(queue'[l]) = Len(queue[l]) - 1
        /\ Len(queue[l]) \in Nat \ {0}
        /\ \A k \in Levels \ {l} : queue'[k] = queue[k]
    <3>1. queue \in [Levels -> Seq(Procs)]
      BY <1>1 DEF TypeOK
    <3> QED
      BY <1>1, <2>1, <2>2, <3>1, RemoveSound
  <2>4. /\ state' = [state EXCEPT ![p] = "ZOMBIE"]
        /\ reg_state' = [reg_state EXCEPT ![p] = "zombie"]
        /\ exited' = exited \cup {p}
        /\ UNCHANGED <<s_tick, published, wait_path, g_current_proc, ctx, cpu, irq_open, in_isr>>
    BY <1>3 DEF proc_destroy
  <2>5. LiveSet' = LiveSet \ {p}
    BY <1>1, <2>4 DEF LiveSet, Live, TypeOK
  <2>6. LevelCounts' /\ s_counts' \in [Levels -> Nat]
    BY <1>1, <2>1, <2>2, <2>3 DEF IInv, LevelCounts, TypeOK
  <2>7. TypeOK'
    BY <1>1, <2>1, <2>2, <2>3, <2>4, <2>6 DEF TypeOK, ProcStates, RegStates
  <2>8. QueueHoldsLive'
    BY <2>3, <2>5, <2>7, SoundIsHoldsLive DEF Sound, LiveSet, QueueHoldsLive, Queued, prio_level
  <2>9. ContextsExclusive' /\ AckOwedOnce'
    BY <2>4 DEF IInv, ContextsExclusive, AckOwedOnce
  <2>10. RunningIsCurrent' /\ BlockedIsCurrent'
    BY <1>1, <2>4 DEF IInv, TypeOK, RunningIsCurrent, BlockedIsCurrent
  <2>11. FreshContexts' /\ CurrentCreated' /\ ExitedCreated'
    BY <1>1, <2>4 DEF IInv, TypeOK, FreshContexts, CurrentCreated, ExitedCreated
  <2> QED
    BY <2>6, <2>7, <2>8, <2>9, <2>10, <2>11 DEF IInv
<1>4. ASSUME NEW w \in Paths, proc_block(w) PROVE IInv'
  <2> DEFINE p == g_current_proc
             st == [state EXCEPT ![p] = "BLOCKED"]
  <2>1. p \in Procs /\ state[p] # "UNUSED"
    BY <1>1, <1>4 DEF proc_block, TypeOK, IInv, CurrentCreated
  <2>2. /\ st \in [Procs -> ProcStates]
        /\ \A o \in Procs : st[o] = "UNUSED" <=> state[o] = "UNUSED"
        /\ \A o \in Procs : st[o] \in {"RUNNING", "BLOCKED"} => o = g_current_proc
    BY <1>1, <2>1 DEF TypeOK, ProcStates, IInv, RunningIsCurrent, BlockedIsCurrent
  <2>3. /\ sched_tick(st, FALSE)
        /\ wait_path' \in [Procs -> Paths \cup {None}]
        /\ reg_state' \in [Procs -> RegStates]
        /\ exited' = exited
    BY <1>1, <1>4, <2>1 DEF proc_block, TypeOK, RegStates
  <2> HIDE DEF st
  <2> QED
    BY <2>2, <2>3, TickStep
<1>5. ASSUME NEW w \in Paths, sched_unblock_waiting(w) PROVE IInv'
  <2> DEFINE woken == {p \in Procs : sched_find(p) /\ state[p] = "BLOCKED" /\ wait_path[p] = w}
  <2>1. /\ state' = [p \in Procs |-> IF p \in woken THEN "READY" ELSE state[p]]
        /\ wait_path' = [p \in Procs |-> IF p \in woken THEN None ELSE wait_path[p]]
        /\ UNCHANGED <<queue, s_counts, s_total, s_tick, published, g_current_proc,
                       ctx, cpu, irq_open, in_isr, reg_state, exited>>
    BY <1>5 DEF sched_unblock_waiting
  <2>2. \A p \in woken : state[p] = "BLOCKED"
    OBVIOUS
  <2> HIDE DEF woken
  <2>3. /\ \A p \in Procs : state'[p] = "UNUSED" <=> state[p] = "UNUSED"
        /\ \A p \in Procs : state'[p] \in {"RUNNING", "BLOCKED"} => state'[p] = state[p]
        /\ state' \in [Procs -> ProcStates]
        /\ wait_path' \in [Procs -> Paths \cup {None}]
    BY <1>1, <2>1, <2>2 DEF TypeOK, ProcStates
  <2>4. LiveSet' = LiveSet
    BY <2>1, <2>3 DEF LiveSet, Live
  <2>5. TypeOK'
    BY <1>1, <2>1, <2>3 DEF TypeOK
  <2>6. QueueHoldsLive'
    BY <1>1, <2>1, <2>4, <2>5, SoundIsHoldsLive
    DEF Sound, LiveSet, QueueHoldsLive, Queued, prio_level
  <2>7. LevelCounts' /\ ContextsExclusive' /\ AckOwedOnce'
    BY <2>1 DEF IInv, LevelCounts, ContextsExclusive, AckOwedOnce
  <2>8. RunningIsCurrent' /\ BlockedIsCurrent'
    BY <2>1, <2>3 DEF IInv, RunningIsCurrent, BlockedIsCurrent
  <2>9. FreshContexts' /\ CurrentCreated' /\ ExitedCreated'
    BY <1>1, <2>1, <2>3 DEF IInv, TypeOK, FreshContexts, CurrentCreated, ExitedCreated
  <2> QED
    BY <2>5, <2>6, <2>7, <2>8, <2>9 DEF IInv
<1>6. /\ state \in [Procs -> ProcStates]
      /\ \A p \in Procs : state[p] \in {"RUNNING", "BLOCKED"} => p = g_current_proc
      /\ wait_path \in [Procs -> Paths \cup {None}]
      /\ reg_state \in [Procs -> RegStates]
  BY <1>1 DEF TypeOK, IInv, RunningIsCurrent, BlockedIsCurrent
<1>7. CASE proc_yield
  BY <1>6, <1>7, TickStep DEF proc_yield
<1>8. CASE timer_isr
  BY <1>6, <1>8, TickStep DEF timer_isr
<1>9. CASE UNCHANGED vars
  BY <1>9 DEF vars, IInv, TypeOK, QueueHoldsLive, LevelCounts, ContextsExclusive,
     RunningIsCurrent, BlockedIsCurrent, AckOwedOnce, FreshContexts, CurrentCreated,
     ExitedCreated, Live, Queued, prio_level
<1> QED
  BY <1>2, <1>3, <1>4, <1>5, <1>7, <1>8, <1>9 DEF Next

\* The inductive invariant holds in every reachable state of the scheduler.
THEOREM SchedInvariant == Spec => []IInv
  BY InitIInv, NextIInv, PTL DEF Spec

\* The state of kernel/proc.c and kernel/sched.c is always well typed.
THEOREM SchedTypeOK == Spec => []TypeOK
<1>1. IInv => TypeOK
  BY DEF IInv
<1> QED
  BY <1>1, SchedInvariant, PTL

\* Every live process is in the queue of its level exactly once, and no
\* destroyed one is in any: sched_add, sched_remove and the rotation of
\* sched_pick_next never lose, duplicate or misplace a process.
THEOREM SchedQueues == Spec => []QueueHoldsLive
<1>1. IInv => QueueHoldsLive
  BY DEF IInv
<1> QED
  BY <1>1, SchedInvariant, PTL

\* ctx_switch never lets two processes resume the same saved thread, nor one
\* resume the thread that is running.
THEOREM SchedContexts == Spec => []ContextsExclusive
<1>1. IInv => ContextsExclusive
  BY DEF IInv
<1> QED
  BY <1>1, SchedInvariant, PTL

\* sched_tick leaves at most one process RUNNING, the current one.
THEOREM SchedOneRunning == Spec => []RunningIsCurrent
<1>1. IInv => RunningIsCurrent
  BY DEF IInv
<1> QED
  BY <1>1, SchedInvariant, PTL

\* Whatever the processes and paths, proc_block keeps a process BLOCKED only
\* while it is still the current one.
THEOREM SchedBlocked == Spec => []BlockedIsCurrent
<1>1. IInv => BlockedIsCurrent
  BY DEF IInv
<1> QED
  BY <1>1, SchedInvariant, PTL

\* The acknowledgement of an open timer interrupt is owed by exactly one
\* suspended thread.
THEOREM SchedAck == Spec => []AckOwedOnce
<1>1. IInv => AckOwedOnce
  BY DEF IInv
<1> QED
  BY <1>1, SchedInvariant, PTL

\* A destroyed process that lost the CPU never becomes current again.
THEOREM SchedDestroyed == Spec => DestroyedStaysOff
<1>1. ASSUME IInv, [Next]_vars
      PROVE  [\A p \in exited : p # g_current_proc => p # g_current_proc']_vars
  <2> SUFFICES ASSUME NEW p \in exited, p # g_current_proc, g_current_proc' = p
               PROVE  FALSE
    BY DEF vars
  <2>1. \E st, inIsr : sched_tick(st, inIsr)
    BY <1>1 DEF Next, proc_create, proc_destroy, proc_block, sched_unblock_waiting,
       proc_yield, timer_isr, vars
  <2>2. PICK st, inIsr : sched_tick(st, inIsr)
    BY <2>1
  <2>3. PICK l \in Picked(st) : p = Head(queue[l])
    BY <2>2 DEF sched_tick, SwitchTo
  <2>4. Live(p)
    BY <1>1, <2>3, PickedHead DEF IInv
  <2> QED
    BY <2>4 DEF Live
<1> QED
  BY <1>1, SchedInvariant, PTL DEF Spec, DestroyedStaysOff

----------------------------------------------------------------------------
\* Turns

\* x comes before y in the queue q.
Before(q, x, y) == \E i, j \in DOMAIN q : i < j /\ q[i] = x /\ q[j] = y

\* Whoever was passed is still ahead of the one that passed it, and both were
\* created long ago.
PassedInv ==
  \A p, q \in Procs : <<p, q>> \in passed =>
    /\ p # q /\ prio_level(p) = prio_level(q)
    /\ q # g_current_proc
    /\ state[p] # "UNUSED" /\ state[q] # "UNUSED"
    /\ Live(p) /\ Live(q) => Before(queue[prio_level(q)], q, p)

LEMMA BeforeAppend ==
  ASSUME NEW q \in Seq(Procs), NEW e \in Procs, NEW x, NEW y, Before(q, x, y)
  PROVE  Before(Append(q, e), x, y)
<1>1. PICK i \in DOMAIN q, j \in DOMAIN q : i < j /\ q[i] = x /\ q[j] = y
  BY DEF Before
<1>2. /\ Len(Append(q, e)) = Len(q) + 1 /\ Append(q, e) \in Seq(Procs)
      /\ \A k \in 1..Len(q) : Append(q, e)[k] = q[k]
  BY AppendElements
<1>3. i \in DOMAIN Append(q, e) /\ j \in DOMAIN Append(q, e)
  BY <1>2
<1> QED
  BY <1>1, <1>2, <1>3 DEF Before

LEMMA BeforeRemove ==
  ASSUME NEW q \in Seq(Procs), NEW k \in 1..Len(q), NEW x, NEW y, Before(q, x, y),
         q[k] # x, q[k] # y
  PROVE  Before(RemoveAt(q, k), x, y)
<1> DEFINE r == RemoveAt(q, k)
           to(n) == IF n < k THEN n ELSE n - 1
<1>1. PICK i \in DOMAIN q, j \in DOMAIN q : i < j /\ q[i] = x /\ q[j] = y
  BY DEF Before
<1>2. /\ r \in Seq(Procs) /\ Len(r) = Len(q) - 1
      /\ \A n \in 1..(Len(q) - 1) : r[n] = IF n < k THEN q[n] ELSE q[n + 1]
  BY RemoveElements
<1>3. i \in 1..Len(q) /\ j \in 1..Len(q) /\ i # k /\ j # k
  BY <1>1
<1> HIDE DEF r
<1>4. /\ to(i) \in 1..(Len(q) - 1) /\ to(j) \in 1..(Len(q) - 1) /\ to(i) < to(j)
      /\ (IF to(i) < k THEN to(i) ELSE to(i) + 1) = i
      /\ (IF to(j) < k THEN to(j) ELSE to(j) + 1) = j
  BY <1>1, <1>3
<1>5. r[to(i)] = q[i] /\ r[to(j)] = q[j]
  BY <1>2, <1>4
<1>6. to(i) \in DOMAIN r /\ to(j) \in DOMAIN r
  BY <1>2, <1>4
<1> QED
  BY <1>1, <1>4, <1>5, <1>6 DEF Before, r

\* Rotating moves the head behind everybody and keeps the others in order.
LEMMA BeforeRotate ==
  ASSUME NEW q \in Seq(Procs), q # <<>>
  PROVE  /\ \A x, y : Before(q, x, y) /\ x # Head(q) => Before(Rotate(q), x, y)
         /\ \A i \in DOMAIN q : q[i] # Head(q) => Before(Rotate(q), q[i], Head(q))
<1> DEFINE r == Rotate(q)
           n == Len(q)
<1>1. /\ r \in Seq(Procs) /\ Len(r) = n
      /\ \A i \in 1..n : r[i] = IF i < n THEN q[i + 1] ELSE q[1]
  BY RotateElements
<1>2. n \in Nat \ {0} /\ Head(q) = q[1] /\ DOMAIN q = 1..n /\ DOMAIN r = 1..n
  BY <1>1
<1> HIDE DEF r, n
<1>3. ASSUME NEW i \in 1..n, i # 1 PROVE i - 1 \in 1..n /\ i - 1 < n /\ r[i - 1] = q[i]
  BY <1>1, <1>2, <1>3
<1>4. r[n] = q[1] /\ n \in 1..n
  BY <1>1, <1>2
<1>5. ASSUME NEW x, NEW y, Before(q, x, y), x # Head(q) PROVE Before(r, x, y)
  <2>1. PICK i \in 1..n, j \in 1..n : i < j /\ q[i] = x /\ q[j] = y
    BY <1>2, <1>5 DEF Before
  <2>2. i # 1 /\ j # 1
    BY <1>2, <1>5, <2>1
  <2>3. i - 1 \in DOMAIN r /\ j - 1 \in DOMAIN r /\ i - 1 < j - 1 /\ r[i - 1] = x /\ r[j - 1] = y
    BY <1>2, <1>3, <2>1, <2>2
  <2> QED
    BY <2>3 DEF Before
<1>6. ASSUME NEW i \in DOMAIN q, q[i] # Head(q) PROVE Before(r, q[i], Head(q))
  <2>1. i \in 1..n /\ i # 1
    BY <1>2, <1>6
  <2>2. i - 1 \in DOMAIN r /\ n \in DOMAIN r /\ i - 1 < n /\ r[i - 1] = q[i] /\ r[n] = Head(q)
    BY <1>2, <1>3, <1>4, <2>1
  <2> QED
    BY <2>2 DEF Before
<1> QED
  BY <1>5, <1>6 DEF r

\* A tick gives a turn to the head of a level, which goes to its tail, or to nobody.
Tick ==
  /\ \A p \in Procs : state'[p] = "UNUSED" <=> state[p] = "UNUSED"
  /\ exited' = exited
  /\ \/ queue' = queue /\ g_current_proc' = g_current_proc
     \/ \E l \in Levels :
          /\ queue[l] # <<>> /\ g_current_proc' = Head(queue[l])
          /\ queue' = [queue EXCEPT ![l] = Rotate(@)]

LEMMA TickIs ==
  ASSUME IInv, NEW st \in [Procs -> ProcStates], NEW inIsr,
         \A p \in Procs : st[p] = "UNUSED" <=> state[p] = "UNUSED",
         sched_tick(st, inIsr), exited' = exited
  PROVE  Tick
<1>1. CASE queue' = queue /\ state' = st /\ g_current_proc' = g_current_proc
  BY <1>1 DEF Tick
<1>2. ASSUME NEW l \in Picked(st), queue' = [queue EXCEPT ![l] = Rotate(@)],
             Head(queue[l]) = g_current_proc, state' = st, g_current_proc' = g_current_proc
      PROVE  Tick
  <2>1. l \in Levels /\ queue[l] # <<>>
    BY PickedHead DEF IInv
  <2> QED
    BY <1>2, <2>1 DEF Tick
<1>3. ASSUME NEW l \in Picked(st), queue' = [queue EXCEPT ![l] = Rotate(@)],
             SwitchTo(Head(queue[l]), st)
      PROVE  Tick
  <2>1. l \in Levels /\ queue[l] # <<>> /\ Head(queue[l]) \in Procs /\ st[Head(queue[l])] = "READY"
    BY PickedHead DEF IInv
  <2>2. g_current_proc' = Head(queue[l])
    BY <1>3 DEF SwitchTo
  <2>3. g_current_proc # None => g_current_proc \in Procs /\ state[g_current_proc] # "UNUSED"
    BY DEF IInv, TypeOK, CurrentCreated
  <2>4. \A p \in Procs : state'[p] = "UNUSED" <=> state[p] = "UNUSED"
    <3>1. CASE g_current_proc = None
      BY <1>3, <2>1, <3>1 DEF SwitchTo
    <3>2. CASE g_current_proc # None
      BY <1>3, <2>1, <2>3, <3>2 DEF SwitchTo
    <3> QED
      BY <3>1, <3>2
  <2> QED
    BY <1>3, <2>1, <2>2, <2>4 DEF Tick
<1> QED
  BY <1>1, <1>2, <1>3 DEF sched_tick

\* Every call of the scheduler keeps those that were passed ahead.
LEMMA NextPassed == IInv /\ PassedInv /\ [TurnsNext]_<<vars, passed>> => PassedInv'
<1> SUFFICES ASSUME IInv, PassedInv, [TurnsNext]_<<vars, passed>>,
                    NEW p \in Procs, NEW q \in Procs, <<p, q>> \in passed'
             PROVE  /\ p # q /\ prio_level(p) = prio_level(q)
                    /\ q # g_current_proc'
                    /\ state'[p] # "UNUSED" /\ state'[q] # "UNUSED"
                    /\ Live(p)' /\ Live(q)' => Before(queue'[prio_level(q)], q, p)
  BY DEF PassedInv, prio_level
<1> DEFINE Goal == /\ p # q /\ prio_level(p) = prio_level(q)
                   /\ q # g_current_proc'
                   /\ state'[p] # "UNUSED" /\ state'[q] # "UNUSED"
                   /\ Live(p)' /\ Live(q)' => Before(queue'[prio_level(q)], q, p)
           Old  == /\ p # q /\ prio_level(p) = prio_level(q)
                   /\ q # g_current_proc
                   /\ state[p] # "UNUSED" /\ state[q] # "UNUSED"
                   /\ Live(p) /\ Live(q) => Before(queue[prio_level(q)], q, p)
           l    == prio_level(q)
<1>1. queue \in [Levels -> Seq(Procs)] /\ l \in Levels /\ queue[l] \in Seq(Procs)
  BY LevelInRange DEF IInv, TypeOK
<1>2. <<p, q>> \in passed => Old
  BY DEF PassedInv
<1>3. g_current_proc' = g_current_proc => <<p, q>> \in passed
  BY DEF TurnsNext, Turns, vars
<1>4. ASSUME NEW o \in Procs, proc_create(o) PROVE Goal
  <2>1. /\ state[o] = "UNUSED" /\ g_current_proc' = g_current_proc /\ exited' = exited
        /\ state' = [state EXCEPT ![o] = "READY"]
        /\ queue' = [queue EXCEPT ![prio_level(o)] = Append(@, o)]
    BY <1>4 DEF proc_create, sched_add
  <2>2. Old /\ p # o /\ q # o
    BY <1>2, <1>3, <2>1
  <2>3. state'[p] = state[p] /\ state'[q] = state[q]
    BY <2>1, <2>2 DEF IInv, TypeOK
  <2>4. Live(p)' = Live(p) /\ Live(q)' = Live(q)
    BY <2>1, <2>3 DEF Live
  <2>5. queue'[l] = queue[l] \/ queue'[l] = Append(queue[l], o)
    BY <1>1, <2>1
  <2>6. Before(queue[l], q, p) => Before(queue'[l], q, p)
    BY <1>1, <2>5, BeforeAppend
  <2> QED
    BY <2>1, <2>2, <2>3, <2>4, <2>6
<1>5. ASSUME NEW o \in Procs, proc_destroy(o) PROVE Goal
  <2>1. /\ g_current_proc' = g_current_proc /\ exited' = exited \cup {o}
        /\ state' = [state EXCEPT ![o] = "ZOMBIE"]
        /\ sched_remove(o)
    BY <1>5 DEF proc_destroy
  <2>2. Old
    BY <1>2, <1>3, <2>1
  <2>3. state'[p] # "UNUSED" /\ state'[q] # "UNUSED"
    BY <2>1, <2>2 DEF IInv, TypeOK
  <2>4. ASSUME Live(p)', Live(q)' PROVE Before(queue'[l], q, p)
    <3>1. p # o /\ q # o /\ Live(p) /\ Live(q)
      BY <2>1, <2>2, <2>4 DEF Live
    <3>2. Before(queue[l], q, p)
      BY <2>2, <3>1
    <3>3. CASE queue'[l] = queue[l]
      BY <3>2, <3>3
    <3>4. CASE queue'[l] # queue[l]
      <4>1. Queued(o) /\ prio_level(o) = l
            /\ queue'[l] = RemoveAt(queue[l], Index(queue[l], o))
        BY <1>1, <2>1, <3>4 DEF sched_remove, qvars
      <4>2. Index(queue[l], o) \in 1..Len(queue[l]) /\ queue[l][Index(queue[l], o)] = o
        BY <1>1, <4>1 DEF Queued, Index
      <4> QED
        BY <1>1, <3>1, <3>2, <4>1, <4>2, BeforeRemove
    <3> QED
      BY <3>3, <3>4
  <2> QED
    BY <2>1, <2>2, <2>3, <2>4
<1>6. ASSUME NEW w \in Paths, sched_unblock_waiting(w) PROVE Goal
  <2>1. /\ queue' = queue /\ g_current_proc' = g_current_proc /\ exited' = exited
        /\ \A o \in Procs : state'[o] = state[o] \/ (state[o] = "BLOCKED" /\ state'[o] = "READY")
    BY <1>6 DEF sched_unblock_waiting
  <2>2. Old
    BY <1>2, <1>3, <2>1
  <2>3. /\ state'[p] = "UNUSED" <=> state[p] = "UNUSED"
        /\ state'[q] = "UNUSED" <=> state[q] = "UNUSED"
    BY <2>1
  <2>4. Live(p)' = Live(p) /\ Live(q)' = Live(q)
    BY <2>1, <2>3 DEF Live
  <2> QED
    BY <2>1, <2>2, <2>3, <2>4
<1>7. ASSUME Tick, Turns PROVE Goal
  <2>1. Live(p)' = Live(p) /\ Live(q)' = Live(q)
        /\ (state'[p] = "UNUSED" <=> state[p] = "UNUSED")
        /\ (state'[q] = "UNUSED" <=> state[q] = "UNUSED")
    BY <1>7 DEF Tick, Live
  <2>2. CASE queue' = queue /\ g_current_proc' = g_current_proc
    BY <1>2, <1>3, <2>1, <2>2
  <2>3. ASSUME NEW k \in Levels, queue[k] # <<>>, g_current_proc' = Head(queue[k]),
               queue' = [queue EXCEPT ![k] = Rotate(@)]
        PROVE  Goal
    <3> DEFINE h == Head(queue[k])
    <3>1. queue[k] \in Seq(Procs) /\ 1 \in DOMAIN queue[k] /\ h = queue[k][1]
      BY <1>1, <2>3
    <3>2. h \in Procs /\ Live(h) /\ prio_level(h) = k
      BY <3>1 DEF IInv, QueueHoldsLive
    <3>3. /\ \A x, y : Before(queue[k], x, y) /\ x # h => Before(Rotate(queue[k]), x, y)
          /\ \A i \in DOMAIN queue[k] :
               queue[k][i] # h => Before(Rotate(queue[k]), queue[k][i], h)
      BY <2>3, <3>1, BeforeRotate
    <3>4. queue'[l] = IF l = k THEN Rotate(queue[k]) ELSE queue[l]
      BY <1>1, <2>3
    <3> HIDE DEF h
    <3>5. CASE <<p, q>> \in passed /\ q # h
      <4>1. Old
        BY <1>2, <3>5
      <4>2. Before(queue[l], q, p) => Before(queue'[l], q, p)
        BY <3>3, <3>4, <3>5
      <4> QED
        BY <2>1, <2>3, <3>5, <4>1, <4>2 DEF h
    <3>6. CASE p = h /\ q \in Waiting(h)
      <4>1. q # p /\ Live(q) /\ prio_level(q) = prio_level(p) /\ l = k
        BY <3>2, <3>6 DEF Waiting
      <4>2. PICK i \in DOMAIN queue[k] : queue[k][i] = q
        BY <4>1 DEF IInv, QueueHoldsLive, Queued
      <4>3. Before(queue'[l], q, p)
        BY <3>3, <3>4, <3>6, <4>1, <4>2
      <4> QED
        BY <2>1, <2>3, <3>2, <3>6, <4>1, <4>3 DEF h, Live
    <3>7. (<<p, q>> \in passed /\ q # h) \/ (p = h /\ q \in Waiting(h))
      <4>1. CASE h = g_current_proc
        <5>1. g_current_proc' = g_current_proc
          BY <2>3, <4>1 DEF h
        <5>2. <<p, q>> \in passed
          BY <1>3, <5>1
        <5> QED
          BY <1>2, <4>1, <5>2
      <4>2. CASE h # g_current_proc
        <5>1. g_current_proc' = h /\ h # None
          BY <2>3, <3>2, DistinctAssumption DEF h
        <5>2. passed' = {v \in passed : v[2] # h} \cup {<<h, o>> : o \in Waiting(h)}
          BY <1>7, <4>2, <5>1 DEF Turns
        <5>3. CASE <<p, q>> \in {v \in passed : v[2] # h}
          BY <5>3
        <5>4. CASE <<p, q>> \in {<<h, o>> : o \in Waiting(h)}
          BY <5>4
        <5> QED
          BY <5>2, <5>3, <5>4
      <4> QED
        BY <4>1, <4>2
    <3> QED
      BY <3>5, <3>6, <3>7
  <2> QED
    BY <1>7, <2>2, <2>3 DEF Tick
<1>8. CASE UNCHANGED <<vars, passed>>
  BY <1>2, <1>8 DEF vars, Live
<1>9. CASE TurnsNext
  <2>1. Turns /\ Next
    BY <1>9 DEF TurnsNext
  <2>2. ASSUME NEW w \in Paths, proc_block(w) PROVE Tick
    <3>1. g_current_proc \in Procs /\ state[g_current_proc] # "UNUSED"
      BY <2>2 DEF proc_block, IInv, TypeOK, CurrentCreated
    <3> DEFINE st == [state EXCEPT ![g_current_proc] = "BLOCKED"]
    <3>2. st \in [Procs -> ProcStates] /\ \A o \in Procs : st[o] = "UNUSED" <=> state[o] = "UNUSED"
      BY <3>1 DEF IInv, TypeOK, ProcStates
    <3>3. sched_tick(st, FALSE) /\ exited' = exited
      BY <2>2 DEF proc_block
    <3> HIDE DEF st
    <3> QED
      BY <3>2, <3>3, TickIs
  <2>3. state \in [Procs -> ProcStates]
    BY DEF IInv, TypeOK
  <2>4. CASE proc_yield
    BY <1>7, <2>1, <2>3, <2>4, TickIs DEF proc_yield
  <2>5. CASE timer_isr
    BY <1>7, <2>1, <2>3, <2>5, TickIs DEF timer_isr
  <2> QED
    BY <1>4, <1>5, <1>6, <1>7, <2>1, <2>2, <2>4, <2>5 DEF Next
<1> QED
  BY <1>8, <1>9

\* For any processes and priorities: no process is given a second turn before
\* another of its level that waited all along has had one.
THEOREM SchedNoOvertaking == TurnsSpec => NoOvertaking
<1>1. TurnsInit => IInv /\ PassedInv
  BY InitIInv DEF TurnsInit, PassedInv
<1>2. IInv /\ PassedInv /\ [TurnsNext]_<<vars, passed>> => IInv' /\ PassedInv'
  <2>1. [TurnsNext]_<<vars, passed>> => [Next]_vars
    BY DEF TurnsNext
  <2> QED
    BY <2>1, NextIInv, NextPassed
<1>3. ASSUME IInv, PassedInv, [TurnsNext]_<<vars, passed>>
      PROVE  [\A q \in Procs : g_current_proc' # g_current_proc /\ Live(q)
                => <<g_current_proc', q>> \notin passed]_<<vars, passed>>
  <2> SUFFICES ASSUME NEW q \in Procs, g_current_proc' # g_current_proc, Live(q),
                      <<g_current_proc', q>> \in passed
               PROVE  FALSE
    OBVIOUS
  <2>1. PICK st, inIsr : sched_tick(st, inIsr)
    BY <1>3 DEF TurnsNext, Next, proc_create, proc_destroy, proc_block, sched_unblock_waiting,
       proc_yield, timer_isr, vars
  <2>2. PICK l \in Picked(st) : g_current_proc' = Head(queue[l])
    BY <2>1 DEF sched_tick, SwitchTo
  <2> DEFINE h == Head(queue[l])
  <2>3. l \in Levels /\ queue[l] \in Seq(Procs) /\ queue[l] # <<>> /\ h \in Procs /\ Live(h)
    BY <1>3, PickedHead DEF IInv
  <2>4. 1 \in DOMAIN queue[l] /\ h = queue[l][1] /\ prio_level(h) = l /\ IsInjective(queue[l])
    BY <1>3, <2>3 DEF IInv, QueueHoldsLive
  <2>5. Before(queue[l], q, h)
    BY <1>3, <2>2, <2>3, <2>4 DEF PassedInv
  <2>6. PICK i \in DOMAIN queue[l], j \in DOMAIN queue[l] : i < j /\ queue[l][j] = h
    BY <2>5 DEF Before
  <2>7. j = 1
    BY <2>4, <2>6 DEF IsInjective
  <2> QED
    BY <2>3, <2>6, <2>7
<1> QED
  BY <1>1, <1>2, <1>3, PTL DEF TurnsSpec, NoOvertaking
=============================================================================
