----------------------------- MODULE ReplProofs -----------------------------
(***************************************************************************)
(* Proofs about Repl, for any keys and bursts, any line and history sizes, *)
(* any lines entered before, and any number of commands that turn raw mode *)
(* on and off as they like: the terminal is given back, and its cursor is  *)
(* where the line editor takes it to be.                                   *)
(*                                                                         *)
(* A place in a line is called apart when no character lies across it.  A  *)
(* byte that continues no character counts as one of its own, so that what *)
(* an escape sequence leaves of a character it swallowed is covered too.   *)
(***************************************************************************)
EXTENDS Repl, TLAPS, WellFoundedInduction, SequenceTheorems

ByteStrings == Seq(0 .. 255)

\* No character of s lies across place p.
Apart(s, p) == p \in 0 .. Len(s) /\ \A i \in 1 .. p : i + utf8_seq_len(s[i]) - 1 <= p

-----------------------------------------------------------------------------
(* Numbers *)

\* A set of numbers that is not empty has a least member.
LEMMA LeastNumber ==
  ASSUME NEW S \in SUBSET Nat, S # {}
  PROVE  \E i \in S : \A j \in S : i <= j
<1> DEFINE Less == {ss \in Nat \X Nat : ss[1] < ss[2]}
<1>1. PICK x \in S : \A y \in S : <<y, x>> \notin Less
  <2>1. IsWellFoundedOn(Less, Nat)
    BY NatLessThanWellFounded, Zenon DEF OpToRel
  <2> HIDE DEF Less
  <2> QED
    BY <2>1, WFMin, Zenon
<1>2. \A y \in S : ~ (y < x)
  BY <1>1
<1> QED
  BY <1>1, <1>2

\* A set that holds 0 and with a number below n the next one holds 0..n.
LEMMA Counted ==
  ASSUME NEW n \in Nat, NEW S, 0 \in S, \A i \in 0..(n - 1) : i \in S => i + 1 \in S
  PROVE  \A i \in 0..n : i \in S
<1> DEFINE left == {i \in 0..n : i \notin S}
<1> SUFFICES ASSUME left # {} PROVE FALSE
  OBVIOUS
<1>1. PICK i \in left : \A j \in left : i <= j
  <2>1. left \in SUBSET Nat
    OBVIOUS
  <2> HIDE DEF left
  <2> QED
    BY <2>1, LeastNumber
<1>2. i # 0 /\ i - 1 \in 0..(n - 1)
  BY <1>1
<1>3. i - 1 \in S
  BY <1>1, <1>2
<1> QED
  BY <1>1, <1>2, <1>3

\* First is the least of some numbers.
LEMMA FirstIn ==
  ASSUME NEW S \in SUBSET Nat, S # {}
  PROVE  First(S) \in S /\ \A j \in S : First(S) <= j
BY LeastNumber DEF First

\* Final is the greatest of some numbers that are not above n.
LEMMA FinalIn ==
  ASSUME NEW n \in Nat, NEW S \in SUBSET (0 .. n), S # {}
  PROVE  Final(S) \in S /\ \A j \in S : j <= Final(S)
<1> DEFINE T == {n - j : j \in S}
<1>1. T \in SUBSET Nat /\ T # {}
  <2>1. \A j \in S : j \in 0 .. n /\ n - j \in Nat
    OBVIOUS
  <2> QED
    BY <2>1
<1>2. PICK x \in T : \A y \in T : x <= y
  <2> HIDE DEF T
  <2> QED
    BY <1>1, LeastNumber
<1>3. PICK i \in S : x = n - i
  BY <1>2
<1>4. ASSUME NEW j \in S PROVE j <= i
  <2>1. n - j \in T
    OBVIOUS
  <2>2. i \in 0 .. n /\ j \in 0 .. n
    OBVIOUS
  <2> QED
    BY <1>2, <1>3, <2>1, <2>2
<1> QED
  BY <1>3, <1>4 DEF Final

-----------------------------------------------------------------------------
(* Bytes and characters *)

\* A character is at most four bytes; a byte that continues one, and a blank,
\* stand for themselves.
LEMMA SeqLen ==
  ASSUME NEW c \in 0 .. 255
  PROVE  /\ utf8_seq_len(c) \in 1 .. 4
         /\ Continues(c) => utf8_seq_len(c) = 1
         /\ c = Blank => utf8_seq_len(c) = 1 /\ ~ Continues(c)
BY DEF utf8_seq_len, Continues, Blank

\* The length of a string of bytes, and its bytes.
LEMMA BytesIn ==
  ASSUME NEW s \in ByteStrings
  PROVE  /\ Len(s) \in Nat /\ DOMAIN s = 1 .. Len(s)
         /\ \A i \in 1 .. Len(s) : s[i] \in 0 .. 255 /\ utf8_seq_len(s[i]) \in 1 .. 4
<1>1. s \in Seq(0 .. 255)
  BY DEF ByteStrings
<1> DEFINE B == 0 .. 255
<1>2. \A i \in 1 .. Len(s) : s[i] \in B
  <2>1. s \in Seq(B)
    BY <1>1
  <2> HIDE DEF B
  <2> QED
    BY <2>1
<1>3. Len(s) \in Nat /\ DOMAIN s = 1 .. Len(s)
  BY <1>1
<1> QED
  BY <1>2, <1>3, SeqLen

\* A part of a string of bytes.
LEMMA PartOf ==
  ASSUME NEW s \in ByteStrings, NEW p \in Nat, NEW q \in 0 .. Len(s), p <= q
  PROVE  /\ SubSeq(s, p + 1, q) \in ByteStrings
         /\ Len(SubSeq(s, p + 1, q)) = q - p
         /\ \A i \in 1 .. q - p : SubSeq(s, p + 1, q)[i] = s[p + i]
<1>1. Len(s) \in Nat /\ \A i \in 1 .. Len(s) : s[i] \in 0 .. 255
  BY BytesIn
<1>2. p + 1 \in Int /\ q \in Int /\ \A i \in p + 1 .. q : s[i] \in 0 .. 255
  <2>1. q \in Int /\ \A i \in p + 1 .. q : i \in 1 .. Len(s)
    BY <1>1
  <2> HIDE DEF ByteStrings
  <2> QED
    BY <1>1, <2>1
<1> DEFINE t == SubSeq(s, p + 1, q)
<1>3. /\ t \in Seq(0 .. 255)
      /\ Len(t) = IF p + 1 <= q THEN q - (p + 1) + 1 ELSE 0
      /\ \A i \in 1 .. q - (p + 1) + 1 : t[i] = s[p + 1 + i - 1]
  <2> HIDE DEF t
  <2> QED
    BY <1>2, SubSeqProperties DEF t
<1> HIDE DEF t
<1>4. Len(t) = q - p
  BY <1>1, <1>3
<1>5. ASSUME NEW i \in 1 .. q - p PROVE t[i] = s[p + i]
  <2>1. i \in 1 .. q - (p + 1) + 1 /\ p + 1 + i - 1 = p + i
    BY <1>1
  <2> QED
    BY <1>3, <2>1
<1> QED
  BY <1>3, <1>4, <1>5 DEF ByteStrings, t

\* A part that begins anywhere and ends apart has whole characters.
LEMMA WholePart ==
  ASSUME NEW s \in Written, NEW p \in Nat, NEW q, Apart(s, q), p <= q
  PROVE  SubSeq(s, p + 1, q) \in Written
<1> DEFINE t == SubSeq(s, p + 1, q)
<1>0. s \in ByteStrings /\ Whole(s) /\ q \in 0 .. Len(s)
  BY DEF Written, ByteStrings, Apart
<1>1. s \in ByteStrings /\ Whole(s) /\ q \in 0 .. Len(s) /\ Len(s) \in Nat /\ q \in Nat
  <2>1. Len(s) \in Nat
    BY <1>0, BytesIn
  <2> QED
    BY <1>0, <2>1
<1>2. t \in ByteStrings /\ Len(t) = q - p /\ DOMAIN t = 1 .. q - p /\ \A i \in 1 .. q - p : t[i] = s[p + i]
  BY <1>1, PartOf, BytesIn
<1> HIDE DEF t
<1>3. ASSUME NEW i \in DOMAIN t
      PROVE  /\ i + utf8_seq_len(t[i]) - 1 <= Len(t)
             /\ \A j \in i + 1 .. i + utf8_seq_len(t[i]) - 1 : Continues(t[j])
  <2> DEFINE n == utf8_seq_len(t[i])
  <2>1. p + i \in DOMAIN s /\ p + i \in 1 .. q /\ n = utf8_seq_len(s[p + i]) /\ n \in 1 .. 4 /\ i \in Nat
    <3>1. i \in 1 .. q - p /\ p + i \in 1 .. q /\ p + i \in 1 .. Len(s) /\ i \in Nat
      BY <1>1, <1>2
    <3>2. p + i \in DOMAIN s /\ utf8_seq_len(s[p + i]) \in 1 .. 4
      BY <1>1, <3>1, BytesIn
    <3>3. t[i] = s[p + i]
      BY <1>2, <3>1
    <3> QED
      BY <3>1, <3>2, <3>3
  <2>2. \A j \in p + i + 1 .. p + i + n - 1 : Continues(s[j])
    BY <1>1, <2>1 DEF Whole
  <2>3. p + i + n - 1 <= q
    BY <2>1 DEF Apart
  <2> HIDE DEF n
  <2>4. i + n - 1 <= Len(t)
    BY <1>1, <1>2, <2>1, <2>3
  <2>5. ASSUME NEW j \in i + 1 .. i + n - 1 PROVE Continues(t[j])
    <3>1. t[j] = s[p + j] /\ p + j \in p + i + 1 .. p + i + n - 1
      <4>1. j \in 1 .. q - p /\ p + j \in p + i + 1 .. p + i + n - 1
        <5>1. q \in Nat /\ i \in Nat /\ n \in Nat /\ i + n - 1 <= q - p
          <6>1. i + n - 1 <= q - p
            BY <1>2, <2>4, Zenon
          <6> QED
            BY <1>1, <2>1, <6>1
        <5> QED
          BY <5>1
      <4> QED
        BY <1>2, <4>1
    <3> QED
      BY <2>2, <3>1
  <2> QED
    BY <2>4, <2>5 DEF n
<1> QED
  BY <1>2, <1>3 DEF Written, Whole, ByteStrings, t

\* The beginning and the end of a string, and the whole of it, are apart; and
\* there is nothing in the empty string.
LEMMA Ends ==
  /\ << >> \in Written
  /\ \A s \in Written : s \in ByteStrings /\ Len(s) \in Nat /\ Apart(s, 0) /\ Apart(s, Len(s))
<1>1. << >> \in Written
  <2>1. << >> \in Seq(0 .. 255)
    OBVIOUS
  <2> QED
    BY <2>1 DEF Written, Whole
<1>2. ASSUME NEW s \in Written
      PROVE  s \in ByteStrings /\ Len(s) \in Nat /\ Apart(s, 0) /\ Apart(s, Len(s))
  <2>1. s \in ByteStrings /\ Whole(s)
    BY DEF Written, ByteStrings
  <2>2. Len(s) \in Nat /\ DOMAIN s = 1 .. Len(s)
    BY <2>1, BytesIn
  <2> QED
    BY <2>1, <2>2 DEF Apart, Whole
<1> QED
  BY <1>1, <1>2

\* Whole characters after whole characters; what is apart in the second stays so.
LEMMA Joined ==
  ASSUME NEW s \in Written, NEW t \in Written
  PROVE  /\ s \o t \in Written /\ Len(s \o t) = Len(s) + Len(t)
         /\ \A q : Apart(t, q) => Apart(s \o t, Len(s) + q)
<1> DEFINE u == s \o t
           m == Len(s)
<1>1. /\ s \in ByteStrings /\ Whole(s) /\ m \in Nat
      /\ t \in ByteStrings /\ Whole(t) /\ Len(t) \in Nat
  BY Ends DEF Written
<1>2. u \in ByteStrings /\ Len(u) = m + Len(t)
      /\ \A i \in 1 .. m + Len(t) : u[i] = IF i <= m THEN s[i] ELSE t[i - m]
  BY <1>1, ConcatProperties DEF ByteStrings
<1>3. /\ DOMAIN s = 1 .. m /\ DOMAIN t = 1 .. Len(t) /\ DOMAIN u = 1 .. m + Len(t)
      /\ \A i \in 1 .. m : utf8_seq_len(s[i]) \in 1 .. 4
      /\ \A i \in 1 .. Len(t) : utf8_seq_len(t[i]) \in 1 .. 4
  BY <1>1, <1>2, BytesIn
<1> HIDE DEF u, m
<1>4. ASSUME NEW i \in 1 .. m
      PROVE  /\ i + utf8_seq_len(u[i]) - 1 <= m
             /\ \A j \in i + 1 .. i + utf8_seq_len(u[i]) - 1 : Continues(u[j])
  <2> DEFINE n == utf8_seq_len(s[i])
  <2>1. u[i] = s[i] /\ i \in DOMAIN s /\ n \in 1 .. 4 /\ i \in Nat
    BY <1>1, <1>2, <1>3
  <2>2. i + n - 1 <= m /\ \A j \in i + 1 .. i + n - 1 : Continues(s[j])
    BY <1>1, <2>1 DEF Whole, m
  <2> HIDE DEF n
  <2>3. ASSUME NEW j \in i + 1 .. i + n - 1 PROVE Continues(u[j])
    <3>1. j \in 1 .. m
      BY <1>1, <2>1, <2>2
    <3>2. u[j] = s[j]
      BY <1>1, <1>2, <3>1
    <3> QED
      BY <2>2, <3>2
  <2> QED
    BY <2>1, <2>2, <2>3 DEF n
<1>5. ASSUME NEW i \in 1 .. Len(t)
      PROVE  /\ m + i \in 1 .. m + Len(t) /\ u[m + i] = t[i]
             /\ m + i + utf8_seq_len(u[m + i]) - 1 <= m + Len(t)
             /\ \A j \in m + i + 1 .. m + i + utf8_seq_len(u[m + i]) - 1 : Continues(u[j])
  <2> DEFINE n == utf8_seq_len(t[i])
  <2>1. i \in DOMAIN t /\ n \in 1 .. 4 /\ i \in Nat
    BY <1>1, <1>3
  <2>2. i + n - 1 <= Len(t) /\ \A j \in i + 1 .. i + n - 1 : Continues(t[j])
    BY <1>1, <2>1 DEF Whole
  <2>3. m + i \in 1 .. m + Len(t) /\ u[m + i] = t[i]
    <3> DEFINE k == m + i
    <3>1. k \in 1 .. m + Len(t) /\ ~ (k <= m) /\ k - m = i
      BY <1>1, <2>1
    <3> HIDE DEF k
    <3>2. u[k] = t[k - m]
      BY <1>2, <3>1
    <3> QED
      BY <3>1, <3>2 DEF k
  <2> HIDE DEF n
  <2>4. ASSUME NEW j \in m + i + 1 .. m + i + n - 1 PROVE Continues(u[j])
    <3>1. j \in 1 .. m + Len(t) /\ ~ (j <= m) /\ j - m \in i + 1 .. i + n - 1
      BY <1>1, <2>1, <2>2
    <3>2. u[j] = t[j - m]
      BY <1>2, <3>1
    <3> QED
      BY <2>2, <3>1, <3>2
  <2>5. m + i + n - 1 <= m + Len(t)
    BY <1>1, <2>1, <2>2
  <2>6. n = utf8_seq_len(u[m + i])
    BY <2>3 DEF n
  <2> QED
    BY <2>3, <2>4, <2>5, <2>6
<1>6. Whole(u)
  <2> SUFFICES ASSUME NEW i \in DOMAIN u
               PROVE  /\ i + utf8_seq_len(u[i]) - 1 <= Len(u)
                      /\ \A j \in i + 1 .. i + utf8_seq_len(u[i]) - 1 : Continues(u[j])
    BY DEF Whole
  <2>1. CASE i \in 1 .. m
    <3>1. i + utf8_seq_len(u[i]) - 1 <= m /\ utf8_seq_len(u[i]) \in Int
      <4>1. u[i] = s[i]
        BY <1>1, <1>2, <2>1
      <4> QED
        BY <1>3, <1>4, <2>1, <4>1
    <3>2. i + utf8_seq_len(u[i]) - 1 <= Len(u)
      BY <1>1, <1>2, <2>1, <3>1
    <3> QED
      BY <1>4, <2>1, <3>2
  <2>2. CASE i \notin 1 .. m
    <3>1. i - m \in 1 .. Len(t) /\ m + (i - m) = i
      BY <1>1, <1>3, <2>2
    <3> QED
      BY <1>2, <1>5, <3>1
  <2> QED
    BY <2>1, <2>2
<1>7. ASSUME NEW q, Apart(t, q) PROVE Apart(u, m + q)
  <2>1. q \in 0 .. Len(t) /\ q \in Nat /\ m + q \in 0 .. Len(u)
    BY <1>1, <1>2, <1>7 DEF Apart
  <2> SUFFICES ASSUME NEW i \in 1 .. m + q PROVE i + utf8_seq_len(u[i]) - 1 <= m + q
    BY <2>1 DEF Apart
  <2>2. CASE i \in 1 .. m
    <3>1. u[i] = s[i]
      BY <1>1, <1>2, <2>1, <2>2
    <3>2. utf8_seq_len(u[i]) \in Int /\ i + utf8_seq_len(u[i]) - 1 <= m
      BY <1>3, <1>4, <2>2, <3>1
    <3> QED
      BY <1>1, <2>1, <3>2
  <2>3. CASE i \notin 1 .. m
    <3>1. i - m \in 1 .. q /\ m + (i - m) = i
      BY <1>1, <2>1, <2>3
    <3>2. i - m \in 1 .. Len(t)
      BY <1>1, <2>1, <3>1
    <3>3. u[i] = t[i - m]
      BY <1>5, <3>1, <3>2
    <3>4. i - m + utf8_seq_len(u[i]) - 1 <= q /\ utf8_seq_len(u[i]) \in Int
      BY <1>3, <1>7, <3>1, <3>2, <3>3 DEF Apart
    <3> QED
      BY <1>1, <2>1, <3>1, <3>4
  <2> QED
    BY <2>2, <2>3
<1> QED
  BY <1>2, <1>6, <1>7 DEF u, m, Written, ByteStrings

\* Two whole strings around a place: it is apart.
LEMMA JoinedAt ==
  ASSUME NEW s \in Written, NEW t \in Written
  PROVE  s \o t \in Written /\ Apart(s \o t, Len(s))
<1>1. Apart(t, 0) /\ Len(s) \in Nat
  BY Ends
<1>2. Len(s) + 0 = Len(s)
  BY <1>1
<1>3. Apart(s \o t, Len(s) + 0)
  BY <1>1, Joined
<1> QED
  BY <1>2, <1>3, Joined

\* What is apart in a string is so in a part from the beginning.
LEMMA ApartBefore ==
  ASSUME NEW s \in Written, NEW q, Apart(s, q), NEW p, Apart(s, p), p <= q
  PROVE  /\ Len(SubSeq(s, 1, q)) = q /\ SubSeq(s, 1, q) \in Written
         /\ Apart(SubSeq(s, 1, q), p)
<1>1. s \in ByteStrings /\ Len(s) \in Nat /\ q \in 0 .. Len(s) /\ q \in Nat /\ p \in 0 .. q
  BY Ends DEF Apart
<1>2. 0 + 1 = 1 /\ q - 0 = q /\ 0 \in Nat /\ 0 <= q
  BY <1>1
<1>3. /\ Len(SubSeq(s, 0 + 1, q)) = q - 0
      /\ \A i \in 1 .. q - 0 : SubSeq(s, 0 + 1, q)[i] = s[0 + i]
  BY <1>1, <1>2, PartOf
<1>4. SubSeq(s, 0 + 1, q) \in Written
  BY <1>2, WholePart
<1> DEFINE t == SubSeq(s, 1, q)
<1>5. Len(t) = q /\ t \in Written /\ \A i \in 1 .. q : t[i] = s[i]
  <2>1. \A i \in 1 .. q : 0 + i = i
    BY <1>1
  <2> QED
    BY <1>2, <1>3, <1>4, <2>1
<1> HIDE DEF t
<1>6. Apart(t, p)
  <2>1. \A i \in 1 .. p : i \in 1 .. q
    BY <1>1
  <2>2. \A i \in 1 .. p : i + utf8_seq_len(t[i]) - 1 <= p
    BY <1>5, <2>1 DEF Apart
  <2> QED
    BY <1>1, <1>5, <2>2 DEF Apart
<1> QED
  BY <1>5, <1>6 DEF t

\* One character back, from anywhere, ends apart and not further on.
LEMMA PrevApart ==
  ASSUME NEW s \in Written, NEW p \in 0 .. Len(s)
  PROVE  /\ Apart(s, utf8_prev(s, p)) /\ utf8_prev(s, p) \in 0 .. p
         /\ p > 0 => utf8_prev(s, p) < p
<1>1. s \in ByteStrings /\ Whole(s) /\ Len(s) \in Nat /\ DOMAIN s = 1 .. Len(s) /\ p \in Nat
  BY Ends, BytesIn DEF Written
<1>2. CASE p <= 0
  <2>1. utf8_prev(s, p) = 0 /\ p = 0
    BY <1>1, <1>2 DEF utf8_prev
  <2> QED
    BY <2>1, Ends
<1>3. CASE p > 0
  <2> DEFINE S == {0} \cup {i \in 1 .. p - 1 : ~ Continues(s[i + 1])}
             f == Final(S)
  <2>1. utf8_prev(s, p) = f
    BY <1>1, <1>3 DEF utf8_prev
  <2>2. S \in SUBSET (0 .. p - 1) /\ S # {} /\ p - 1 \in Nat
    BY <1>1, <1>3
  <2>3. f \in S
    <3> HIDE DEF S
    <3> QED
      BY <2>2, FinalIn
  <2>4. f \in 0 .. p - 1 /\ (f = 0 \/ ~ Continues(s[f + 1]))
    BY <1>1, <1>3, <2>3
  <2> HIDE DEF f
  <2>5. ASSUME f # 0 PROVE Apart(s, f)
    <3> SUFFICES ASSUME NEW i \in 1 .. f, ~ (i + utf8_seq_len(s[i]) - 1 <= f)
                 PROVE  FALSE
      BY <1>1, <2>4 DEF Apart
    <3> DEFINE n == utf8_seq_len(s[i])
    <3>1. i \in DOMAIN s /\ i \in Nat /\ n \in 1 .. 4
      <4>1. i \in 1 .. Len(s) /\ i \in Nat
        BY <1>1, <2>4
      <4> QED
        BY <1>1, <4>1, BytesIn
    <3>2. \A j \in i + 1 .. i + n - 1 : Continues(s[j])
      BY <1>1, <3>1 DEF Whole
    <3> HIDE DEF n
    <3>3. f + 1 \in i + 1 .. i + n - 1
      <4>1. ~ (i + n - 1 <= f)
        BY DEF n
      <4> QED
        BY <1>1, <2>4, <3>1, <4>1
    <3> QED
      BY <2>4, <2>5, <3>2, <3>3
  <2> QED
    BY <1>1, <1>3, <2>1, <2>4, <2>5, Ends
<1> QED
  BY <1>1, <1>2, <1>3

\* After the character at a place that is apart is the next such place.
LEMMA OverCharacter ==
  ASSUME NEW s \in Written, NEW p, Apart(s, p), p < Len(s)
  PROVE  /\ utf8_seq_len(s[p + 1]) \in 1 .. 4
         /\ Apart(s, p + utf8_seq_len(s[p + 1]))
<1>1. /\ s \in ByteStrings /\ Whole(s) /\ Len(s) \in Nat /\ DOMAIN s = 1 .. Len(s)
      /\ p \in Nat /\ p + 1 \in 1 .. Len(s)
  <2>1. s \in ByteStrings /\ Whole(s) /\ Len(s) \in Nat /\ DOMAIN s = 1 .. Len(s)
    BY Ends, BytesIn DEF Written
  <2> QED
    BY <2>1 DEF Apart
<1> DEFINE n == utf8_seq_len(s[p + 1])
<1>2. n \in 1 .. 4
  BY <1>1, BytesIn
<1>3. p + 1 + n - 1 <= Len(s) /\ \A j \in p + 1 + 1 .. p + 1 + n - 1 : Continues(s[j])
  BY <1>1 DEF Whole
<1> HIDE DEF n
<1>4. p + n \in 0 .. Len(s)
  BY <1>1, <1>2, <1>3
<1>5. ASSUME NEW i \in 1 .. p + n PROVE i + utf8_seq_len(s[i]) - 1 <= p + n
  <2>1. i \in Nat /\ i \in 1 .. Len(s)
    BY <1>1, <1>2, <1>4
  <2>2. s[i] \in 0 .. 255
    BY <1>1, <2>1, BytesIn
  <2>3. CASE i <= p
    <3>1. i \in 1 .. p
      BY <1>1, <2>1, <2>3
    <3>2. i + utf8_seq_len(s[i]) - 1 <= p
      BY <3>1 DEF Apart
    <3>3. utf8_seq_len(s[i]) \in 1 .. 4
      BY <2>2, SeqLen
    <3> QED
      BY <1>1, <1>2, <2>1, <3>2, <3>3
  <2>4. CASE i = p + 1
    <3>1. utf8_seq_len(s[i]) = n
      BY <2>4 DEF n
    <3> QED
      BY <1>1, <1>2, <2>4, <3>1
  <2>5. CASE i > p + 1
    <3>1. i \in p + 1 + 1 .. p + 1 + n - 1
      BY <1>1, <1>2, <2>1, <2>5
    <3>2. Continues(s[i])
      BY <1>3, <3>1
    <3>3. utf8_seq_len(s[i]) = 1
      BY <2>2, <3>2, SeqLen
    <3> QED
      BY <1>1, <1>2, <2>1, <3>3
  <2> QED
    BY <1>1, <2>1, <2>3, <2>4, <2>5
<1>6. Apart(s, p + n)
  BY <1>4, <1>5 DEF Apart
<1> QED
  BY <1>2, <1>6 DEF n

\* One character forward.
LEMMA NextApart ==
  ASSUME NEW s \in Written, NEW p, Apart(s, p)
  PROVE  /\ Apart(s, utf8_next(s, p)) /\ utf8_next(s, p) \in p .. Len(s)
         /\ p < Len(s) => p < utf8_next(s, p)
<1>1. Len(s) \in Nat /\ p \in 0 .. Len(s) /\ p \in Nat
  BY Ends DEF Apart
<1>2. CASE p >= Len(s)
  <2>1. utf8_next(s, p) = p
    BY <1>1, <1>2 DEF utf8_next
  <2> QED
    BY <1>1, <1>2, <2>1
<1>3. CASE p < Len(s)
  <2> DEFINE n == utf8_seq_len(s[p + 1])
  <2>1. utf8_next(s, p) = p + n
    BY <1>1, <1>3 DEF utf8_next
  <2>2. n \in 1 .. 4 /\ Apart(s, p + n)
    BY <1>3, OverCharacter
  <2>3. p + n <= Len(s)
    BY <1>1, <2>2 DEF Apart
  <2> HIDE DEF n
  <2> QED
    BY <1>1, <2>1, <2>2, <2>3
<1> QED
  BY <1>1, <1>2, <1>3

\* Beside a blank every place is apart.
LEMMA BlankApart ==
  ASSUME NEW s \in Written, NEW p \in 1 .. Len(s), s[p] = Blank
  PROVE  Apart(s, p) /\ Apart(s, p - 1)
<1>1. s \in ByteStrings /\ Whole(s) /\ Len(s) \in Nat /\ DOMAIN s = 1 .. Len(s)
  BY Ends, BytesIn DEF Written
<1>2. p \in Nat /\ s[p] \in 0 .. 255 /\ ~ Continues(s[p]) /\ utf8_seq_len(s[p]) = 1
  <2>1. s[p] \in 0 .. 255
    <3>1. \A i \in 1 .. Len(s) : s[i] \in 0 .. 255
      BY <1>1, BytesIn
    <3> QED
      BY <3>1
  <2>2. p \in Nat
    BY <1>1
  <2> QED
    BY <2>1, <2>2, SeqLen
<1>3. ASSUME NEW i \in 1 .. p - 1 PROVE i + utf8_seq_len(s[i]) - 1 <= p - 1
  <2> DEFINE n == utf8_seq_len(s[i])
  <2>1. i \in DOMAIN s /\ i \in Nat /\ n \in 1 .. 4
    <3>1. i \in 1 .. Len(s) /\ i \in Nat
      BY <1>1, <1>2
    <3> QED
      BY <1>1, <3>1, BytesIn
  <2>2. \A j \in i + 1 .. i + n - 1 : Continues(s[j])
    BY <1>1, <2>1 DEF Whole
  <2> HIDE DEF n
  <2>3. p \notin i + 1 .. i + n - 1
    BY <1>2, <2>2
  <2>4. i + n - 1 <= p - 1
    BY <1>2, <2>1, <2>3
  <2> QED
    BY <2>4 DEF n
<1>4. Apart(s, p - 1)
  <2>1. p - 1 \in 0 .. Len(s)
    BY <1>1, <1>2
  <2> QED
    BY <1>3, <2>1 DEF Apart
<1>5. ASSUME NEW i \in 1 .. p PROVE i + utf8_seq_len(s[i]) - 1 <= p
  <2>1. CASE i = p
    BY <1>2, <2>1
  <2>2. CASE i # p
    <3>1. i \in 1 .. p - 1 /\ i \in 1 .. Len(s) /\ i \in Nat
      BY <1>1, <1>2, <2>2
    <3>2. i + utf8_seq_len(s[i]) - 1 <= p - 1 /\ utf8_seq_len(s[i]) \in 1 .. 4
      BY <1>1, <1>3, <3>1, BytesIn
    <3> QED
      BY <1>2, <3>1, <3>2
  <2> QED
    BY <2>1, <2>2
<1> QED
  BY <1>1, <1>2, <1>4, <1>5 DEF Apart

-----------------------------------------------------------------------------
(* Columns *)

\* The character at byte i takes this many columns, and after it comes byte
\* Beyond(s, i).
Width(s, i)  == utf8_col_width(utf8_decode(s, i))
Beyond(s, i) == IF i + utf8_seq_len(s[i]) - 1 > Len(s) THEN i + 1 ELSE i + utf8_seq_len(s[i])

\* f has the columns from each byte of s, from byte m on.
Columns(s, m, f) ==
  f = [i \in m .. Len(s) + 1 |-> IF i > Len(s) THEN 0 ELSE Width(s, i) + f[Beyond(s, i)]]

\* The columns of s are those from its first byte.
Counting(s, f) == /\ Columns(s, 1, f) /\ visual_cols(s) = f[1]
                  /\ \A i \in 1 .. Len(s) + 1 : f[i] \in Nat

\* There are such numbers of columns.
LEMMA Counts ==
  ASSUME NEW s \in ByteStrings
  PROVE  \E f : Counting(s, f)
<1> DEFINE L == Len(s)
           A == {k \in 0 .. L : \E f : Columns(s, L + 1 - k, f)}
<1>1. L \in Nat /\ \A i \in 1 .. L : i < Beyond(s, i) /\ Beyond(s, i) \in 1 .. L + 1
  <2>1. L \in Nat /\ \A i \in 1 .. L : utf8_seq_len(s[i]) \in 1 .. 4
    BY BytesIn
  <2> QED
    BY <2>1 DEF Beyond
<1>2. \A i : Width(s, i) \in {1, 2}
  BY DEF Width, utf8_col_width
<1>3. 0 \in A
  <2> DEFINE f == [i \in L + 1 .. L + 1 |-> 0]
  <2>1. \A i \in L + 1 .. L + 1 : i > L
    BY <1>1
  <2>2. f = [i \in L + 1 .. L + 1 |-> IF i > L THEN 0 ELSE Width(s, i) + f[Beyond(s, i)]]
    BY <2>1
  <2>3. L + 1 - 0 = L + 1 /\ 0 \in 0 .. L
    BY <1>1
  <2>4. Columns(s, L + 1 - 0, f)
    <3> HIDE DEF f
    <3> QED
      BY <2>2, <2>3 DEF Columns
  <2> QED
    BY <2>3, <2>4
<1>4. ASSUME NEW k \in 0 .. L - 1, k \in A PROVE k + 1 \in A
  <2> DEFINE m == L + 1 - (k + 1)
  <2>1. m \in 1 .. L /\ L + 1 - k = m + 1 /\ k + 1 \in 0 .. L
    BY <1>1
  <2>2. PICK f : Columns(s, m + 1, f)
    BY <1>4, <2>1
  <2> HIDE DEF m, L
  <2> DEFINE g == [i \in m .. L + 1 |-> IF i = m THEN Width(s, m) + f[Beyond(s, m)] ELSE f[i]]
  <2>3. ASSUME NEW i \in m .. L + 1
        PROVE  g[i] = IF i > L THEN 0 ELSE Width(s, i) + g[Beyond(s, i)]
    <3>1. CASE i = m
      <4>1. Beyond(s, m) \in m .. L + 1 /\ Beyond(s, m) # m /\ ~ (m > L)
        BY <1>1, <2>1
      <4>2. g[Beyond(s, m)] = f[Beyond(s, m)]
        BY <4>1
      <4> QED
        BY <3>1, <4>1, <4>2
    <3>2. CASE i # m
      <4>1. i \in m + 1 .. L + 1 /\ i \in 1 .. L + 1
        BY <1>1, <2>1, <3>2
      <4>2. g[i] = f[i] /\ f[i] = IF i > L THEN 0 ELSE Width(s, i) + f[Beyond(s, i)]
        BY <2>2, <3>2, <4>1 DEF Columns, L
      <4>3. ~ (i > L) => i \in 1 .. L
        BY <1>1, <4>1
      <4>4. ~ (i > L) => Beyond(s, i) \in m .. L + 1 /\ Beyond(s, i) # m
        BY <1>1, <2>1, <4>1, <4>3
      <4>5. ~ (i > L) => g[Beyond(s, i)] = f[Beyond(s, i)]
        BY <4>4
      <4> QED
        BY <4>2, <4>5
    <3> QED
      BY <3>1, <3>2
  <2>4. g = [i \in m .. L + 1 |-> g[i]]
    OBVIOUS
  <2> HIDE DEF g
  <2>5. Columns(s, m, g)
    BY <2>3, <2>4 DEF Columns, L
  <2> QED
    BY <2>1, <2>5 DEF m
<1>5. PICK f : Columns(s, 1, f)
  <2>1. \A k \in 0 .. L : k \in A
    <3> HIDE DEF L, A
    <3> QED
      BY <1>1, <1>3, <1>4, Counted
  <2>2. L \in A /\ L + 1 - L = 1
    BY <1>1, <2>1
  <2> QED
    BY <2>2
<1> DEFINE h == CHOOSE f_ : Columns(s, 1, f_)
<1>6. Columns(s, 1, h)
  BY <1>5
<1>7. visual_cols(s) = h[1]
  BY DEF visual_cols, Columns, Width, Beyond
<1> HIDE DEF h
<1>8. \A i \in 1 .. L + 1 : h[i] \in Nat
  <2> DEFINE N == {k \in 0 .. L : \A i \in 1 .. L + 1 : L + 1 - i <= k => h[i] \in Nat}
  <2>1. \A i \in 1 .. L + 1 : h[i] = IF i > L THEN 0 ELSE Width(s, i) + h[Beyond(s, i)]
    BY <1>6 DEF Columns
  <2>2. 0 \in N
    <3>1. ASSUME NEW i \in 1 .. L + 1, L + 1 - i <= 0 PROVE h[i] \in Nat
      <4>1. i > L
        BY <1>1, <3>1
      <4> QED
        BY <2>1, <4>1
    <3> QED
      BY <1>1, <3>1
  <2>3. ASSUME NEW k \in 0 .. L - 1, k \in N PROVE k + 1 \in N
    <3>1. ASSUME NEW i \in 1 .. L + 1, L + 1 - i <= k + 1 PROVE h[i] \in Nat
      <4>1. CASE i > L
        BY <2>1, <4>1
      <4>2. CASE ~ (i > L)
        <5>1. i \in 1 .. L
          BY <1>1, <4>2
        <5>2. Beyond(s, i) \in 1 .. L + 1 /\ L + 1 - Beyond(s, i) <= k
          BY <1>1, <3>1, <5>1
        <5>3. h[Beyond(s, i)] \in Nat
          BY <2>3, <5>2
        <5>4. h[i] = Width(s, i) + h[Beyond(s, i)]
          BY <2>1, <4>2
        <5> QED
          BY <1>2, <5>3, <5>4
      <4> QED
        BY <4>1, <4>2
    <3> QED
      BY <1>1, <3>1
  <2>4. \A k \in 0 .. L : k \in N
    <3> HIDE DEF L, N
    <3> QED
      BY <1>1, <2>2, <2>3, Counted
  <2> QED
    BY <1>1, <2>4
<1> QED
  BY <1>6, <1>7, <1>8 DEF Counting

\* The numbers of columns of s, byte by byte.
LEMMA CountingSteps ==
  ASSUME NEW s \in ByteStrings, NEW f, Counting(s, f)
  PROVE  /\ f[Len(s) + 1] = 0
         /\ \A i \in 1 .. Len(s) : f[i] = Width(s, i) + f[Beyond(s, i)]
<1>1. Len(s) \in Nat
  BY BytesIn
<1>2. \A i \in 1 .. Len(s) + 1 : f[i] = IF i > Len(s) THEN 0 ELSE Width(s, i) + f[Beyond(s, i)]
  BY DEF Counting, Columns
<1> QED
  BY <1>1, <1>2

\* t is s from place p on.
EndOf(t, s, p) == Len(t) = Len(s) - p /\ \A i \in 1 .. Len(t) : t[i] = s[p + i]

\* The columns from a byte on are those of the part that begins there.
LEMMA ColumnsAfter ==
  ASSUME NEW s \in ByteStrings, NEW p \in 0 .. Len(s), NEW t \in ByteStrings, EndOf(t, s, p)
  PROVE  \A f, g : Counting(s, f) /\ Counting(t, g) => g[1] = f[p + 1]
<1> SUFFICES ASSUME NEW f, NEW g, Counting(s, f), Counting(t, g)
             PROVE  g[1] = f[p + 1]
  OBVIOUS
<1> DEFINE L == Len(t)
<1>1. /\ L \in Nat /\ Len(s) \in Nat /\ p \in Nat /\ Len(s) = p + L
      /\ \A i \in 1 .. L : t[i] = s[p + i] /\ utf8_seq_len(t[i]) \in 1 .. 4
  <2>1. L \in Nat /\ Len(s) \in Nat /\ \A i \in 1 .. L : utf8_seq_len(t[i]) \in 1 .. 4
    BY BytesIn
  <2> QED
    BY <2>1 DEF EndOf
<1>2. ASSUME NEW i \in 1 .. L
      PROVE  Width(t, i) = Width(s, p + i) /\ Beyond(s, p + i) = p + Beyond(t, i)
             /\ Beyond(t, i) \in i + 1 .. L + 1
  <2> DEFINE n == utf8_seq_len(t[i])
  <2>1. t[i] = s[p + i] /\ n = utf8_seq_len(s[p + i]) /\ n \in 1 .. 4 /\ i \in Nat
    BY <1>1
  <2>2. p + i + n - 1 > Len(s) <=> i + n - 1 > L
    BY <1>1, <2>1
  <2>3. Beyond(s, p + i) = p + Beyond(t, i) /\ Beyond(t, i) \in i + 1 .. L + 1
    <3>1. Beyond(s, p + i) = IF p + i + n - 1 > Len(s) THEN p + i + 1 ELSE p + i + n
      BY <2>1 DEF Beyond
    <3>2. Beyond(t, i) = IF i + n - 1 > L THEN i + 1 ELSE i + n
      BY DEF Beyond
    <3> HIDE DEF n, L
    <3>3. i <= L /\ L \in Nat /\ p \in Nat /\ i \in Nat
      BY <1>1, <2>1
    <3>4. CASE i + n - 1 > L
      <4>1. Beyond(s, p + i) = p + i + 1 /\ Beyond(t, i) = i + 1
        BY <2>2, <3>1, <3>2, <3>4
      <4> QED
        BY <3>3, <4>1
    <3>5. CASE ~ (i + n - 1 > L)
      <4>1. Beyond(s, p + i) = p + i + n /\ Beyond(t, i) = i + n
        BY <2>2, <3>1, <3>2, <3>5
      <4>2. p + i + n = p + (i + n) /\ i + n \in i + 1 .. L + 1
        <5>1. n \in 1 .. 4
          BY <2>1
        <5> QED
          BY <3>3, <3>5, <5>1
      <4> QED
        BY <4>1, <4>2
    <3> QED
      BY <3>4, <3>5
  <2>4. n = 1 \/ n = 2 \/ n = 3 \/ n = 4
    BY <2>1
  <2> HIDE DEF n, L
  <2>5. ASSUME ~ (i + n - 1 > L), NEW k \in 0 .. n - 1 PROVE t[i + k] = s[p + i + k]
    <3>1. i + k \in 1 .. L /\ p + (i + k) = p + i + k
      BY <1>1, <2>1, <2>5
    <3> QED
      BY <1>1, <3>1
  <2>6. utf8_decode(t, i) = utf8_decode(s, p + i)
    <3>1. CASE n = 1 \/ i + n - 1 > L
      BY <2>1, <2>2, <3>1 DEF utf8_decode, n, L
    <3>2. CASE ~ (i + n - 1 > L) /\ n = 2
      <4>1. t[i + 1] = s[p + i + 1]
        BY <2>5, <3>2
      <4> QED
        BY <2>1, <2>2, <3>2, <4>1 DEF utf8_decode, n, L
    <3>3. CASE ~ (i + n - 1 > L) /\ n = 3
      <4>1. t[i + 1] = s[p + i + 1] /\ t[i + 2] = s[p + i + 2]
        BY <2>5, <3>3
      <4> QED
        BY <2>1, <2>2, <3>3, <4>1 DEF utf8_decode, n, L
    <3>4. CASE ~ (i + n - 1 > L) /\ n = 4
      <4>1. t[i + 1] = s[p + i + 1] /\ t[i + 2] = s[p + i + 2] /\ t[i + 3] = s[p + i + 3]
        BY <2>5, <3>4
      <4> QED
        BY <2>1, <2>2, <3>4, <4>1 DEF utf8_decode, n, L
    <3> QED
      BY <2>4, <3>1, <3>2, <3>3, <3>4
  <2> QED
    BY <2>3, <2>6 DEF Width
<1>3. /\ g[L + 1] = 0 /\ f[Len(s) + 1] = 0
      /\ \A i \in 1 .. L : g[i] = Width(t, i) + g[Beyond(t, i)]
      /\ \A i \in 1 .. Len(s) : f[i] = Width(s, i) + f[Beyond(s, i)]
  BY CountingSteps
<1> DEFINE A == {k \in 0 .. L : \A i \in 1 .. L + 1 : L + 1 - i <= k => g[i] = f[p + i]}
<1>4. 0 \in A
  <2>1. ASSUME NEW i \in 1 .. L + 1, L + 1 - i <= 0 PROVE g[i] = f[p + i]
    <3>1. i = L + 1 /\ p + i = Len(s) + 1
      <4> HIDE DEF L
      <4>1. i = L + 1
        BY <1>1, <2>1
      <4> QED
        BY <1>1, <4>1
    <3> QED
      BY <1>3, <3>1
  <2> QED
    BY <1>1, <2>1
<1>5. ASSUME NEW k \in 0 .. L - 1, k \in A PROVE k + 1 \in A
  <2>1. ASSUME NEW i \in 1 .. L + 1, L + 1 - i <= k + 1 PROVE g[i] = f[p + i]
    <3>1. CASE i = L + 1
      <4>1. p + i = Len(s) + 1
        BY <1>1, <3>1
      <4> QED
        BY <1>3, <3>1, <4>1
    <3>2. CASE i # L + 1
      <4>1. i \in 1 .. L /\ p + i \in 1 .. Len(s)
        <5> HIDE DEF L
        <5>1. L \in Nat /\ p \in Nat /\ Len(s) = p + L
          BY <1>1
        <5> QED
          BY <3>2, <5>1
      <4> DEFINE j == Beyond(t, i)
      <4>2. j \in 1 .. L + 1 /\ L + 1 - j <= k
        <5> HIDE DEF L
        <5>1. L \in Nat /\ j \in i + 1 .. L + 1
          BY <1>1, <1>2, <4>1
        <5> HIDE DEF j
        <5> QED
          BY <2>1, <5>1
      <4>3. g[i] = Width(t, i) + g[j]
        BY <1>3, <4>1
      <4>4. f[p + i] = Width(s, p + i) + f[p + j]
        <5>1. f[p + i] = Width(s, p + i) + f[Beyond(s, p + i)]
          <6> DEFINE m == p + i
          <6> HIDE DEF m
          <6>1. m \in 1 .. Len(s)
            BY <4>1 DEF m
          <6>2. f[m] = Width(s, m) + f[Beyond(s, m)]
            BY <1>3, <6>1
          <6> QED
            BY <6>2 DEF m
        <5> QED
          BY <1>2, <4>1, <5>1
      <4>5. Width(t, i) = Width(s, p + i)
        BY <1>2, <4>1
      <4> HIDE DEF j
      <4>6. g[j] = f[p + j]
        BY <1>5, <4>2
      <4> QED
        BY <4>3, <4>4, <4>5, <4>6
    <3> QED
      BY <3>1, <3>2
  <2> QED
    BY <1>1, <2>1
<1>6. \A k \in 0 .. L : k \in A
  <2> HIDE DEF L, A
  <2> QED
    BY <1>1, <1>4, <1>5, Counted
<1>7. L \in A /\ 1 \in 1 .. L + 1 /\ L + 1 - 1 <= L
  BY <1>1, <1>6
<1> QED
  BY <1>7

\* t is the beginning of s up to p.
BeginningOf(t, s, p) == Len(t) = p /\ \A i \in 1 .. p : t[i] = s[i]

\* The columns of a string are those before a place that is apart and those
\* after it.
LEMMA ColumnsBefore ==
  ASSUME NEW s \in Written, NEW p, Apart(s, p), NEW t \in ByteStrings, BeginningOf(t, s, p)
  PROVE  \A f, g : Counting(s, f) /\ Counting(t, g) => f[1] = g[1] + f[p + 1]
<1> SUFFICES ASSUME NEW f, NEW g, Counting(s, f), Counting(t, g)
             PROVE  f[1] = g[1] + f[p + 1]
  OBVIOUS
<1>1. /\ p \in Nat /\ Len(s) \in Nat /\ p <= Len(s) /\ s \in ByteStrings /\ Len(t) = p
      /\ \A i \in 1 .. p : t[i] = s[i] /\ utf8_seq_len(t[i]) \in 1 .. 4
  <2>1. s \in ByteStrings /\ Len(s) \in Nat /\ p \in 0 .. Len(s) /\ Len(t) = p
        /\ \A i \in 1 .. p : t[i] = s[i]
    BY Ends DEF Apart, BeginningOf
  <2>2. \A i \in 1 .. p : utf8_seq_len(t[i]) \in 1 .. 4
    BY <2>1, BytesIn
  <2> QED
    BY <2>1, <2>2
<1>2. ASSUME NEW i \in 1 .. p, Apart(s, i - 1)
      PROVE  Width(t, i) = Width(s, i) /\ Beyond(s, i) = Beyond(t, i)
             /\ Beyond(t, i) \in i + 1 .. p + 1 /\ Apart(s, Beyond(t, i) - 1)
  <2> DEFINE n == utf8_seq_len(s[i])
  <2>1. t[i] = s[i] /\ n = utf8_seq_len(t[i]) /\ n \in 1 .. 4 /\ i \in Nat
    BY <1>1
  <2>2. i + n - 1 <= p
    BY <2>1 DEF Apart
  <2>3. Apart(s, i - 1 + n)
    <3> DEFINE q == i - 1
    <3>1. q < Len(s) /\ q + 1 = i
      BY <1>1, <2>1
    <3> HIDE DEF q
    <3>2. Apart(s, q + utf8_seq_len(s[q + 1]))
      BY <1>2, <3>1, OverCharacter DEF q
    <3> QED
      BY <3>1, <3>2 DEF q
  <2>4. n = 1 \/ n = 2 \/ n = 3 \/ n = 4
    BY <2>1
  <2> HIDE DEF n
  <2>5. Beyond(s, i) = i + n /\ Beyond(t, i) = i + n
    BY <1>1, <2>1, <2>2 DEF Beyond, n
  <2>6. ~ (i + n - 1 > Len(s)) /\ ~ (i + n - 1 > Len(t))
    BY <1>1, <2>1, <2>2
  <2>7. \A k \in 0 .. n - 1 : t[i + k] = s[i + k]
    <3> TAKE k \in 0 .. n - 1
    <3>1. i + k \in 1 .. p
      BY <1>1, <2>1, <2>2
    <3> QED
      BY <1>1, <3>1
  <2>8. utf8_decode(t, i) = utf8_decode(s, i)
    <3>1. CASE n = 1
      BY <2>1, <3>1 DEF utf8_decode, n
    <3>2. CASE n = 2
      <4>1. t[i + 1] = s[i + 1]
        BY <2>7, <3>2
      <4> QED
        BY <2>1, <2>6, <3>2, <4>1 DEF utf8_decode, n
    <3>3. CASE n = 3
      <4>1. t[i + 1] = s[i + 1] /\ t[i + 2] = s[i + 2]
        BY <2>7, <3>3
      <4> QED
        BY <2>1, <2>6, <3>3, <4>1 DEF utf8_decode, n
    <3>4. CASE n = 4
      <4>1. t[i + 1] = s[i + 1] /\ t[i + 2] = s[i + 2] /\ t[i + 3] = s[i + 3]
        BY <2>7, <3>4
      <4> QED
        BY <2>1, <2>6, <3>4, <4>1 DEF utf8_decode, n
    <3> QED
      BY <2>4, <3>1, <3>2, <3>3, <3>4
  <2>9. i + n \in i + 1 .. p + 1 /\ i + n - 1 = i - 1 + n
    BY <1>1, <2>1, <2>2
  <2>10. Apart(s, i + n - 1)
    BY <2>3, <2>9
  <2>11. Width(t, i) = Width(s, i)
    BY <2>8 DEF Width
  <2>12. Beyond(t, i) \in i + 1 .. p + 1 /\ Apart(s, Beyond(t, i) - 1)
    <3>1. Beyond(t, i) = i + n
      BY <2>5
    <3>2. Beyond(t, i) - 1 = i + n - 1
      BY <2>1, <3>1
    <3>3. Apart(s, Beyond(t, i) - 1)
      BY <2>10, <3>2
    <3> QED
      BY <2>9, <3>1, <3>3
  <2> QED
    BY <2>5, <2>11, <2>12
<1>3. /\ g[p + 1] = 0 /\ \A i \in 1 .. p : g[i] = Width(t, i) + g[Beyond(t, i)]
      /\ \A i \in 1 .. Len(s) : f[i] = Width(s, i) + f[Beyond(s, i)]
  BY <1>1, CountingSteps
<1>4. /\ \A i \in 1 .. p + 1 : g[i] \in Nat /\ f[i] \in Nat
      /\ \A i \in 1 .. p : Width(t, i) \in Nat
  <2>1. \A i \in 1 .. p + 1 : g[i] \in Nat /\ i \in 1 .. Len(s) + 1
    BY <1>1 DEF Counting
  <2>2. \A i \in 1 .. p + 1 : f[i] \in Nat
    BY <2>1 DEF Counting
  <2> QED
    BY <2>1, <2>2 DEF Width, utf8_col_width
<1> DEFINE A == {k \in 0 .. p : \A i \in 1 .. p + 1 :
                   p + 1 - i <= k /\ Apart(s, i - 1) => f[i] = g[i] + f[p + 1]}
<1>5. 0 \in A
  <2>1. ASSUME NEW i \in 1 .. p + 1, p + 1 - i <= 0 PROVE f[i] = g[i] + f[p + 1]
    <3>1. i = p + 1
      BY <1>1, <2>1
    <3> QED
      BY <1>3, <1>4, <3>1
  <2> QED
    BY <1>1, <2>1
<1>6. ASSUME NEW k \in 0 .. p - 1, k \in A PROVE k + 1 \in A
  <2>1. ASSUME NEW i \in 1 .. p + 1, p + 1 - i <= k + 1, Apart(s, i - 1)
        PROVE  f[i] = g[i] + f[p + 1]
    <3>1. CASE i = p + 1
      BY <1>3, <1>4, <3>1
    <3>2. CASE i # p + 1
      <4>1. i \in 1 .. p /\ i \in 1 .. Len(s)
        BY <1>1, <3>2
      <4> DEFINE j == Beyond(t, i)
      <4>2. j \in i + 1 .. p + 1 /\ Apart(s, j - 1) /\ Width(t, i) = Width(s, i) /\ Beyond(s, i) = j
        BY <1>2, <2>1, <4>1
      <4>3. g[i] = Width(t, i) + g[j] /\ f[i] = Width(s, i) + f[Beyond(s, i)]
        BY <1>3, <4>1
      <4> HIDE DEF j
      <4>4. j \in 1 .. p + 1 /\ p + 1 - j <= k
        BY <1>1, <2>1, <4>1, <4>2
      <4>5. f[j] = g[j] + f[p + 1]
        BY <1>6, <4>2, <4>4
      <4>6. g[j] \in Nat /\ f[p + 1] \in Nat /\ Width(t, i) \in Nat
        BY <1>1, <1>4, <4>1, <4>4
      <4> QED
        BY <4>2, <4>3, <4>5, <4>6
    <3> QED
      BY <3>1, <3>2
  <2> QED
    BY <1>1, <2>1
<1>7. \A k \in 0 .. p : k \in A
  <2> HIDE DEF A
  <2> QED
    BY <1>1, <1>5, <1>6, Counted
<1>8. p \in A /\ 1 \in 1 .. p + 1 /\ p + 1 - 1 <= p /\ Apart(s, 1 - 1)
  <2>1. Apart(s, 0) /\ 1 - 1 = 0
    BY Ends
  <2>2. p \in 0 .. p
    BY <1>1
  <2>3. p \in A
    BY <1>7, <2>2
  <2> HIDE DEF A
  <2> QED
    BY <1>1, <2>1, <2>3
<1> QED
  BY <1>8

\* The columns of a string are those of its two parts at a place that is apart.
LEMMA ColumnsSplit ==
  ASSUME NEW s \in Written, NEW p, Apart(s, p), NEW t \in ByteStrings, BeginningOf(t, s, p),
         NEW u \in ByteStrings, EndOf(u, s, p)
  PROVE  /\ visual_cols(s) = visual_cols(t) + visual_cols(u)
         /\ visual_cols(t) \in Nat /\ visual_cols(u) \in Nat
<1>1. s \in ByteStrings /\ Len(s) \in Nat /\ Len(t) \in Nat /\ Len(u) \in Nat /\ p \in 0 .. Len(s)
  BY Ends, BytesIn DEF Apart
<1>2. PICK f : Counting(s, f)
  BY <1>1, Counts
<1>3. PICK g : Counting(t, g)
  BY Counts
<1>4. PICK h : Counting(u, h)
  BY Counts
<1>5. f[1] = g[1] + f[p + 1]
  BY <1>2, <1>3, ColumnsBefore
<1>6. h[1] = f[p + 1]
  BY <1>1, <1>2, <1>4, ColumnsAfter
<1>7. visual_cols(s) = f[1] /\ visual_cols(t) = g[1] /\ visual_cols(u) = h[1]
  BY <1>2, <1>3, <1>4 DEF Counting
<1>8. 1 \in 1 .. Len(t) + 1 /\ 1 \in 1 .. Len(u) + 1
  BY <1>1
<1>9. g[1] \in Nat /\ h[1] \in Nat
  BY <1>3, <1>4, <1>8 DEF Counting
<1> QED
  BY <1>5, <1>6, <1>7, <1>9

\* So moving over whole characters moves by the columns they take.
LEMMA ColumnsBetween ==
  ASSUME NEW s \in Written, NEW p, Apart(s, p), NEW q, Apart(s, q), p <= q
  PROVE  /\ visual_cols(SubSeq(s, 1, q)) = visual_cols(SubSeq(s, 1, p)) + visual_cols(SubSeq(s, p + 1, q))
         /\ visual_cols(SubSeq(s, 1, p)) \in Nat /\ visual_cols(SubSeq(s, p + 1, q)) \in Nat
<1> DEFINE w == SubSeq(s, 1, q)
           t == SubSeq(s, 1, p)
           u == SubSeq(s, p + 1, q)
<1>1. s \in ByteStrings /\ Len(s) \in Nat /\ q \in 0 .. Len(s) /\ p \in 0 .. Len(s) /\ p \in Nat /\ q \in Nat
  BY Ends DEF Apart
<1>2. w \in Written /\ Apart(w, p)
  BY ApartBefore
<1>3. w \in ByteStrings /\ Len(w) = q /\ \A i \in 1 .. q : w[i] = s[i]
  <2>1. SubSeq(s, 0 + 1, q) \in ByteStrings /\ Len(SubSeq(s, 0 + 1, q)) = q - 0
        /\ \A i \in 1 .. q - 0 : SubSeq(s, 0 + 1, q)[i] = s[0 + i]
    BY <1>1, PartOf
  <2>2. 0 + 1 = 1 /\ q - 0 = q /\ \A i \in 1 .. q : 0 + i = i
    BY <1>1
  <2> QED
    BY <2>1, <2>2
<1>4. t \in ByteStrings /\ Len(t) = p /\ \A i \in 1 .. p : t[i] = s[i]
  <2>1. SubSeq(s, 0 + 1, p) \in ByteStrings /\ Len(SubSeq(s, 0 + 1, p)) = p - 0
        /\ \A i \in 1 .. p - 0 : SubSeq(s, 0 + 1, p)[i] = s[0 + i]
    BY <1>1, PartOf
  <2>2. 0 + 1 = 1 /\ p - 0 = p /\ \A i \in 1 .. p : 0 + i = i
    BY <1>1
  <2> QED
    BY <2>1, <2>2
<1>5. u \in ByteStrings /\ Len(u) = q - p /\ \A i \in 1 .. q - p : u[i] = s[p + i]
  BY <1>1, PartOf
<1> HIDE DEF w, t, u
<1>6. BeginningOf(t, w, p)
  <2>1. \A i \in 1 .. p : i \in 1 .. q
    BY <1>1
  <2> QED
    BY <1>3, <1>4, <2>1 DEF BeginningOf
<1>7. EndOf(u, w, p)
  <2>1. ASSUME NEW i \in 1 .. q - p PROVE u[i] = w[p + i]
    <3>1. p + i \in 1 .. q
      BY <1>1
    <3> QED
      BY <1>3, <1>5, <3>1
  <2> QED
    BY <1>3, <1>5, <2>1 DEF EndOf
<1>8. /\ visual_cols(w) = visual_cols(t) + visual_cols(u)
      /\ visual_cols(t) \in Nat /\ visual_cols(u) \in Nat
  BY <1>2, <1>4, <1>5, <1>6, <1>7, ColumnsSplit
<1> QED
  BY <1>8 DEF w, t, u

-----------------------------------------------------------------------------
(* The editor *)

\* The states of the editor, its texts made of whole characters.
Editors ==
  [ buf : Written, pos : Nat, history : [0 .. NEXS_LINE_HISTORY - 1 -> Written],
    hist_head : 0 .. NEXS_LINE_HISTORY - 1, hist_count : 0 .. NEXS_LINE_HISTORY,
    hist_nav : -1 .. NEXS_LINE_HISTORY - 1, hist_saved : Written,
    kill_buf : Written, col : Int ]

\* The cursor is between two characters.
Between(e) == e \in Editors /\ Apart(e.buf, e.pos)

\* And the terminal's cursor is there too.
OnScreen(e) == Between(e) /\ e.col = visual_cols(SubSeq(e.buf, 1, e.pos))

\* Another line with a place between its characters.
LEMMA Rewritten ==
  ASSUME NEW e \in Editors, NEW s \in Written, NEW p, Apart(s, p)
  PROVE  /\ Between([e EXCEPT !.buf = s, !.pos = p])
         /\ \A k \in Written : Between([e EXCEPT !.kill_buf = k, !.buf = s, !.pos = p])
<1>1. p \in Nat
  <2>1. Len(s) \in Nat
    BY Ends
  <2> QED
    BY <2>1 DEF Apart
<1> QED
  BY <1>1 DEF Between, Editors

\* Writing the line again puts the terminal's cursor where it belongs.
LEMMA Rendered ==
  ASSUME NEW e, Between(e)
  PROVE  OnScreen(nexs_line_render(e))
<1> DEFINE s == e.buf
           p == e.pos
           c == visual_cols(s) - visual_cols(SubSeq(s, p + 1, Len(s)))
<1>1. e \in Editors /\ s \in Written /\ Apart(s, p)
  BY DEF Between, Editors
<1>2. Apart(s, Len(s)) /\ p <= Len(s) /\ s \in ByteStrings /\ Len(s) \in Nat /\ p \in 0 .. Len(s)
  <2>1. Apart(s, Len(s)) /\ s \in ByteStrings /\ Len(s) \in Nat
    BY <1>1, Ends
  <2> QED
    BY <1>1, <2>1 DEF Apart
<1>3. SubSeq(s, 1, Len(s)) = s
  BY <1>2, SubSeqFull DEF ByteStrings
<1>4. /\ visual_cols(SubSeq(s, 1, Len(s))) = visual_cols(SubSeq(s, 1, p)) + visual_cols(SubSeq(s, p + 1, Len(s)))
      /\ visual_cols(SubSeq(s, 1, p)) \in Nat /\ visual_cols(SubSeq(s, p + 1, Len(s))) \in Nat
  <2> HIDE DEF s, p
  <2> QED
    BY <1>1, <1>2, ColumnsBetween
<1>5. c = visual_cols(SubSeq(s, 1, p)) /\ c \in Int
  <2> DEFINE a == visual_cols(SubSeq(s, 1, p))
             b == visual_cols(SubSeq(s, p + 1, Len(s)))
             d == visual_cols(s)
  <2>1. d = visual_cols(SubSeq(s, 1, Len(s)))
    BY <1>3, Zenon
  <2>2. d = a + b /\ a \in Nat /\ b \in Nat
    BY <1>4, <2>1
  <2>3. c = d - b
    OBVIOUS
  <2> HIDE DEF a, b, c, d
  <2>4. c = a /\ c \in Int
    BY <2>2, <2>3
  <2> QED
    BY <2>4 DEF a
<1>6. nexs_line_render(e) = [e EXCEPT !.col = c]
  BY DEF nexs_line_render
<1> HIDE DEF c
<1>7. [e EXCEPT !.col = c] \in Editors
  BY <1>1, <1>5 DEF Editors
<1>8. /\ [e EXCEPT !.col = c].buf = s /\ [e EXCEPT !.col = c].pos = p
      /\ [e EXCEPT !.col = c].col = c
  BY <1>1 DEF Editors
<1> QED
  BY <1>1, <1>5, <1>6, <1>7, <1>8 DEF OnScreen, Between

-----------------------------------------------------------------------------
(* Over words *)

\* The loop of Skip goes on from q, and the further it has come the lower
\* the rank.
Goes(s, q, blank, how) == Ahead(q, how) \in DOMAIN s /\ (s[Ahead(q, how)] = Blank) = blank
Rank(s, q, how) == IF how = "next" THEN Len(s) + 3 - q ELSE q

\* f is where the loop ends, from each place of D.
Skips(s, blank, how, D, f) ==
  f = [q \in D |-> IF Goes(s, q, blank, how) THEN f[Step(s, q, how)] ELSE q]
Places(s) == 0 .. Len(s) + 3

\* A turn of the loop: back within the line, or forward.
LEMMA Turn ==
  ASSUME NEW s \in Written, NEW how \in {"next", "prev", "byte"}, NEW blank,
         NEW q \in Places(s), Goes(s, q, blank, how)
  PROVE  /\ Step(s, q, how) \in Places(s) /\ q \in 0 .. Len(s)
         /\ Rank(s, Step(s, q, how), how) < Rank(s, q, how)
         /\ how # "next" => Step(s, q, how) \in 0 .. q - 1
         /\ how # "byte" /\ Apart(s, q) => Apart(s, Step(s, q, how))
<1>1. s \in ByteStrings /\ Len(s) \in Nat /\ DOMAIN s = 1 .. Len(s) /\ q \in Nat
  BY Ends, BytesIn DEF Places
<1>2. CASE how = "next"
  <2> DEFINE n == utf8_seq_len(s[q + 1])
  <2>1. q + 1 \in 1 .. Len(s)
    BY <1>1, <1>2 DEF Goes, Ahead
  <2>2. n \in 1 .. 4 /\ q < Len(s)
    BY <1>1, <2>1, BytesIn
  <2>3. Step(s, q, how) = utf8_next(s, q) /\ utf8_next(s, q) = q + n
    BY <1>1, <1>2, <2>2 DEF Step, utf8_next
  <2>4. Apart(s, q) => Apart(s, utf8_next(s, q))
    BY NextApart
  <2> HIDE DEF n
  <2>5. q + n \in Places(s) /\ Len(s) + 3 - (q + n) < Len(s) + 3 - q
    BY <1>1, <2>2 DEF Places
  <2> QED
    BY <1>1, <1>2, <2>2, <2>3, <2>4, <2>5 DEF Rank
<1>3. CASE how = "prev"
  <2>1. q \in 1 .. Len(s)
    BY <1>1, <1>3 DEF Goes, Ahead
  <2>2. q \in 0 .. Len(s) /\ q > 0
    BY <1>1, <2>1
  <2>3. Apart(s, utf8_prev(s, q)) /\ utf8_prev(s, q) \in 0 .. q /\ utf8_prev(s, q) < q
    BY <2>2, PrevApart
  <2>4. Step(s, q, how) = utf8_prev(s, q)
    BY <1>3 DEF Step
  <2> QED
    BY <1>1, <1>3, <2>2, <2>3, <2>4 DEF Rank, Places
<1>4. CASE how = "byte"
  <2>1. q \in 1 .. Len(s)
    BY <1>1, <1>4 DEF Goes, Ahead
  <2>2. Step(s, q, how) = q - 1
    BY <1>4 DEF Step
  <2> QED
    BY <1>1, <1>4, <2>1, <2>2 DEF Rank, Places
<1> QED
  BY <1>2, <1>3, <1>4

\* There is such a function, and Skip is its value.
LEMMA SkipsTo ==
  ASSUME NEW s \in Written, NEW how \in {"next", "prev", "byte"}, NEW blank,
         NEW p \in 0 .. Len(s)
  PROVE  \E f : Skips(s, blank, how, Places(s), f) /\ Skip(s, p, blank, how) = f[p]
<1> DEFINE L == Len(s) + 3
           D(k) == {q \in Places(s) : Rank(s, q, how) <= k}
           A == {k \in 0 .. L : \E f : Skips(s, blank, how, D(k), f)}
<1>1. L \in Nat /\ \A q \in Places(s) : Rank(s, q, how) \in 0 .. L
  <2>1. Len(s) \in Nat
    BY Ends
  <2> QED
    BY <2>1 DEF Rank, Places
<1>2. ASSUME NEW q \in Places(s), Goes(s, q, blank, how)
      PROVE  Step(s, q, how) \in Places(s) /\ Rank(s, Step(s, q, how), how) < Rank(s, q, how)
  BY <1>2, Turn
<1>3. 0 \in A
  <2> DEFINE f == [q \in D(0) |-> q]
  <2>1. \A q \in D(0) : ~ Goes(s, q, blank, how)
    BY <1>1, <1>2
  <2>2. f = [q \in D(0) |-> IF Goes(s, q, blank, how) THEN f[Step(s, q, how)] ELSE q]
    BY <2>1
  <2>3. 0 \in 0 .. L
    BY <1>1
  <2>4. Skips(s, blank, how, D(0), f)
    <3> HIDE DEF f, D
    <3> QED
      BY <2>2 DEF Skips
  <2> HIDE DEF f, D
  <2> QED
    BY <2>3, <2>4
<1>4. ASSUME NEW k \in 0 .. L - 1, k \in A PROVE k + 1 \in A
  <2>1. PICK f : Skips(s, blank, how, D(k), f)
    BY <1>4
  <2>2. k \in Int /\ k + 1 \in 0 .. L
    BY <1>1
  <2> HIDE DEF L
  <2> DEFINE g == [q \in D(k + 1) |-> IF Goes(s, q, blank, how) THEN f[Step(s, q, how)] ELSE q]
  <2>3. ASSUME NEW q \in D(k) PROVE q \in D(k + 1) /\ g[q] = f[q]
    <3>1. q \in D(k + 1)
      BY <1>1, <2>2
    <3>2. f[q] = IF Goes(s, q, blank, how) THEN f[Step(s, q, how)] ELSE q
      <4> HIDE DEF D
      <4> QED
        BY <2>1 DEF Skips
    <3> QED
      BY <3>1, <3>2
  <2>4. ASSUME NEW q \in D(k + 1), Goes(s, q, blank, how) PROVE Step(s, q, how) \in D(k)
    BY <1>1, <1>2, <2>2, <2>4
  <2>5. ASSUME NEW q \in D(k + 1)
        PROVE  g[q] = IF Goes(s, q, blank, how) THEN g[Step(s, q, how)] ELSE q
    <3> HIDE DEF D
    <3> QED
      BY <2>3, <2>4
  <2>6. g = [q \in D(k + 1) |-> g[q]]
    OBVIOUS
  <2> HIDE DEF D, g
  <2>7. Skips(s, blank, how, D(k + 1), g)
    BY <2>5, <2>6 DEF Skips
  <2> QED
    BY <2>2, <2>7 DEF D
<1>5. D(L) = Places(s)
  BY <1>1
<1>6. PICK f : Skips(s, blank, how, Places(s), f)
  <2>1. \A k \in 0 .. L : k \in A
    <3> HIDE DEF L, A
    <3> QED
      BY <1>1, <1>3, <1>4, Counted
  <2>2. L \in 0 .. L
    BY <1>1
  <2>3. L \in A
    BY <2>1, <2>2
  <2> QED
    BY <1>5, <2>3
<1> DEFINE h == CHOOSE f_ : Skips(s, blank, how, Places(s), f_)
<1>7. Skips(s, blank, how, Places(s), h)
  BY <1>6
<1>8. Skip(s, p, blank, how) = h[p]
  BY DEF Skip, Skips, Goes, Places
<1> QED
  BY <1>7, <1>8

\* Where the loop ends: not further back than the beginning and where it
\* does not go on; and over characters it ends apart.
LEMMA Skipped ==
  ASSUME NEW s \in Written, NEW how \in {"next", "prev", "byte"}, NEW blank,
         NEW p \in 0 .. Len(s)
  PROVE  /\ how # "next" => /\ Skip(s, p, blank, how) \in 0 .. p
                            /\ ~ Goes(s, Skip(s, p, blank, how), blank, how)
         /\ how # "byte" /\ Apart(s, p) => Apart(s, Skip(s, p, blank, how))
<1> DEFINE L == Len(s) + 3
<1>1. /\ Len(s) \in Nat /\ L \in Nat /\ p \in Places(s)
      /\ \A q \in Places(s) : Rank(s, q, how) \in 0 .. L /\ q \in Nat
  <2>1. Len(s) \in Nat
    BY Ends
  <2> QED
    BY <2>1 DEF Rank, Places
<1>2. PICK f : Skips(s, blank, how, Places(s), f) /\ Skip(s, p, blank, how) = f[p]
  BY SkipsTo
<1> DEFINE Good(q) == /\ how # "next" => f[q] \in 0 .. q /\ ~ Goes(s, f[q], blank, how)
                      /\ how # "byte" /\ Apart(s, q) => Apart(s, f[q])
           A == {k \in 0 .. L : \A q \in Places(s) : Rank(s, q, how) <= k => Good(q)}
<1>3. ASSUME NEW q \in Places(s),
             Goes(s, q, blank, how) => Good(Step(s, q, how))
      PROVE  Good(q)
  <2>1. f[q] = IF Goes(s, q, blank, how) THEN f[Step(s, q, how)] ELSE q
    BY <1>2 DEF Skips
  <2>2. CASE ~ Goes(s, q, blank, how)
    BY <1>1, <2>1, <2>2
  <2>3. CASE Goes(s, q, blank, how)
    <3>1. f[q] = f[Step(s, q, how)] /\ Good(Step(s, q, how))
      BY <1>3, <2>1, <2>3
    <3>2. /\ how # "next" => Step(s, q, how) \in 0 .. q - 1
          /\ how # "byte" /\ Apart(s, q) => Apart(s, Step(s, q, how))
      BY <2>3, Turn
    <3>3. how # "next" => f[q] \in 0 .. q
      BY <1>1, <3>1, <3>2
    <3> QED
      BY <3>1, <3>2, <3>3
  <2> QED
    BY <2>2, <2>3
<1>4. ASSUME NEW q \in Places(s), Goes(s, q, blank, how)
      PROVE  Step(s, q, how) \in Places(s) /\ Rank(s, Step(s, q, how), how) < Rank(s, q, how)
  BY <1>4, Turn
<1> HIDE DEF Good
<1>5. 0 \in A
  <2>1. ASSUME NEW q \in Places(s), Rank(s, q, how) <= 0 PROVE Good(q)
    <3>1. ~ Goes(s, q, blank, how)
      <4> SUFFICES ASSUME Goes(s, q, blank, how) PROVE FALSE
        OBVIOUS
      <4>1. Step(s, q, how) \in Places(s) /\ Rank(s, Step(s, q, how), how) < Rank(s, q, how)
        BY <1>4
      <4>2. Rank(s, Step(s, q, how), how) \in 0 .. L /\ Rank(s, q, how) \in 0 .. L
        BY <1>1, <4>1
      <4> QED
        BY <2>1, <4>1, <4>2
    <3> QED
      BY <1>3, <3>1
  <2> QED
    BY <1>1, <2>1
<1>6. ASSUME NEW k \in 0 .. L - 1, k \in A PROVE k + 1 \in A
  <2>1. ASSUME NEW q \in Places(s), Rank(s, q, how) <= k + 1 PROVE Good(q)
    <3>1. ASSUME Goes(s, q, blank, how) PROVE Good(Step(s, q, how))
      <4>1. Step(s, q, how) \in Places(s) /\ Rank(s, Step(s, q, how), how) <= k
        <5>1. Step(s, q, how) \in Places(s) /\ Rank(s, Step(s, q, how), how) < Rank(s, q, how)
          BY <1>4, <3>1
        <5>2. Rank(s, Step(s, q, how), how) \in 0 .. L /\ Rank(s, q, how) \in 0 .. L
          BY <1>1, <5>1
        <5> QED
          BY <1>1, <2>1, <5>1, <5>2
      <4> QED
        BY <1>6, <4>1
    <3> QED
      BY <1>3, <3>1
  <2> QED
    BY <1>1, <2>1
<1>7. \A k \in 0 .. L : k \in A
  <2> HIDE DEF L, A
  <2> QED
    BY <1>1, <1>5, <1>6, Counted
<1>8. Good(p)
  <2>1. L \in A /\ Rank(s, p, how) <= L
    BY <1>1, <1>7
  <2> QED
    BY <1>1, <2>1
<1> QED
  BY <1>2, <1>8 DEF Good

\* Over a word: with any step the place is apart, and back is not forward.
LEMMA OverWordApart ==
  ASSUME NEW s \in Written, NEW p, Apart(s, p), NEW how \in {"next", "prev", "byte"}
  PROVE  /\ Apart(s, OverWord(s, p, how))
         /\ how # "next" => OverWord(s, p, how) \in 0 .. p
<1> DEFINE q == Skip(s, p, TRUE, how)
           r == Skip(s, q, FALSE, how)
<1>1. s \in ByteStrings /\ Len(s) \in Nat /\ DOMAIN s = 1 .. Len(s) /\ p \in 0 .. Len(s) /\ p \in Nat
  BY Ends, BytesIn DEF Apart
<1>2. /\ how # "next" => q \in 0 .. p
      /\ how # "byte" => Apart(s, q)
  BY <1>1, Skipped
<1>3. q \in 0 .. Len(s)
  <2> HIDE DEF q
  <2>1. CASE how = "byte"
    BY <1>1, <1>2, <2>1
  <2>2. CASE how # "byte"
    BY <1>2, <2>2 DEF Apart
  <2> QED
    BY <2>1, <2>2
<1> HIDE DEF q
<1>4. /\ how # "next" => r \in 0 .. q /\ ~ Goes(s, r, FALSE, how)
      /\ how # "byte" /\ Apart(s, q) => Apart(s, r)
  BY <1>3, Skipped
<1> HIDE DEF r
<1>5. CASE how = "byte"
  <2>1. r \in 0 .. p /\ r \in 0 .. Len(s) /\ r \in Nat
    BY <1>1, <1>2, <1>4, <1>5
  <2>2. ASSUME r = 0 PROVE Apart(s, r)
    BY <2>2, Ends
  <2>3. ASSUME r # 0 PROVE Apart(s, r)
    <3>1. r \in 1 .. Len(s)
      BY <1>1, <2>1, <2>3
    <3>2. s[r] = Blank
      BY <1>1, <1>4, <1>5, <3>1 DEF Goes, Ahead
    <3> QED
      BY <3>1, <3>2, BlankApart
  <2>4. Apart(s, r)
    BY <2>2, <2>3
  <2> QED
    BY <2>1, <2>4 DEF OverWord, q, r
<1>6. CASE how # "byte"
  <2>1. Apart(s, r)
    BY <1>2, <1>4, <1>6
  <2>2. how # "next" => r \in 0 .. p
    BY <1>1, <1>2, <1>4
  <2> QED
    BY <2>1, <2>2 DEF OverWord, q, r
<1> QED
  BY <1>5, <1>6

-----------------------------------------------------------------------------
(* What the keys do *)

\* Left and right move both cursors over the same character.
LEMMA Moved ==
  ASSUME NEW e, OnScreen(e)
  PROVE  OnScreen(MoveLeft(e)) /\ OnScreen(MoveRight(e))
<1> DEFINE s == e.buf
           p == e.pos
           prev == utf8_prev(s, p)
           next == utf8_next(s, p)
<1>1. e \in Editors /\ s \in Written /\ Apart(s, p) /\ e.col = visual_cols(SubSeq(s, 1, p))
  BY DEF OnScreen, Between, Editors
<1>2. p \in 0 .. Len(s) /\ Len(s) \in Nat /\ p \in Nat /\ Apart(s, 0)
  BY <1>1, Ends DEF Apart
<1>3. Apart(s, prev) /\ prev \in 0 .. p /\ Apart(s, next) /\ next \in p .. Len(s)
  <2> HIDE DEF s, p
  <2> QED
    BY <1>1, <1>2, PrevApart, NextApart
<1> DEFINE here  == visual_cols(SubSeq(s, 1, p))
           left  == visual_cols(SubSeq(s, 1, prev))
           right == visual_cols(SubSeq(s, 1, next))
           back  == visual_cols(SubSeq(s, prev + 1, p))
           forth == visual_cols(SubSeq(s, p + 1, next))
<1>4. /\ here = left + back /\ left \in Nat /\ back \in Nat
      /\ right = here + forth /\ here \in Nat /\ forth \in Nat
  <2>1. prev <= p /\ p <= next
    BY <1>2, <1>3
  <2> HIDE DEF s, p, prev, next
  <2> QED
    BY <1>1, <1>3, <2>1, ColumnsBetween
<1>5. /\ MoveLeft(e) = [e EXCEPT !.pos = prev, !.col = e.col - back]
      /\ MoveRight(e) = [e EXCEPT !.pos = next, !.col = e.col + forth]
  BY DEF MoveLeft, MoveRight
<1>6. e.col = here
  BY <1>1
<1> HIDE DEF prev, next, here, left, right, back, forth
<1>7. e.col - back = left /\ e.col + forth = right /\ left \in Int /\ right \in Int
  BY <1>4, <1>6
<1>8. prev \in Nat /\ next \in Nat
  BY <1>2, <1>3
<1>9. ASSUME NEW q \in Nat, Apart(s, q), NEW c \in Int, c = visual_cols(SubSeq(s, 1, q))
      PROVE  OnScreen([e EXCEPT !.pos = q, !.col = c])
  <2> DEFINE f == [e EXCEPT !.pos = q, !.col = c]
  <2>1. f \in Editors /\ f.buf = s /\ f.pos = q /\ f.col = c
    BY <1>1 DEF Editors
  <2> HIDE DEF f
  <2>2. OnScreen(f)
    BY <1>9, <2>1 DEF OnScreen, Between
  <2> QED
    BY <2>2 DEF f
<1>10. OnScreen([e EXCEPT !.pos = prev, !.col = left])
  BY <1>3, <1>7, <1>8, <1>9 DEF left
<1>11. OnScreen([e EXCEPT !.pos = next, !.col = right])
  BY <1>3, <1>7, <1>8, <1>9 DEF right
<1> QED
  BY <1>5, <1>7, <1>10, <1>11

\* A part of a line between two places that are apart.
LEMMA PartBetween ==
  ASSUME NEW s \in Written, NEW p, Apart(s, p), NEW q, Apart(s, q), p <= q
  PROVE  SubSeq(s, p + 1, q) \in Written /\ Len(SubSeq(s, p + 1, q)) = q - p
         /\ p \in Nat /\ q \in Nat
<1>1. s \in ByteStrings /\ p \in Nat /\ q \in Nat /\ q \in 0 .. Len(s)
  <2>1. s \in ByteStrings /\ Len(s) \in Nat
    BY Ends
  <2> QED
    BY <2>1 DEF Apart
<1> QED
  BY <1>1, PartOf, WholePart

\* The parts of a line before and after such a place.
LEMMA TwoParts ==
  ASSUME NEW s \in Written, NEW p, Apart(s, p)
  PROVE  /\ SubSeq(s, 1, p) \in Written /\ Len(SubSeq(s, 1, p)) = p
         /\ SubSeq(s, p + 1, Len(s)) \in Written
         /\ p \in Nat /\ p <= Len(s) /\ Len(s) \in Nat
<1>1. Apart(s, 0) /\ Apart(s, Len(s)) /\ Len(s) \in Nat /\ p \in 0 .. Len(s)
  BY Ends DEF Apart
<1>2. p <= Len(s) /\ 0 <= p /\ p \in Nat
  BY <1>1
<1>3. SubSeq(s, 1, p) \in Written /\ Len(SubSeq(s, 1, p)) = p
  <2>1. p <= p
    BY <1>2
  <2> QED
    BY <2>1, ApartBefore
<1>4. SubSeq(s, p + 1, Len(s)) \in Written
  BY <1>1, <1>2, PartBetween
<1> QED
  BY <1>1, <1>2, <1>3, <1>4

\* What is between two such places is taken out.
LEMMA CutApart ==
  ASSUME NEW s \in Written, NEW p, Apart(s, p), NEW q, Apart(s, q)
  PROVE  Cut(s, p, q) \in Written /\ Apart(Cut(s, p, q), p)
<1> DEFINE a == SubSeq(s, 1, p)
           b == SubSeq(s, q + 1, Len(s))
<1>1. a \in Written /\ Len(a) = p /\ b \in Written
  BY TwoParts
<1> HIDE DEF a, b
<1>2. a \o b \in Written /\ Apart(a \o b, p)
  BY <1>1, JoinedAt
<1> QED
  BY <1>2 DEF Cut, a, b

\* Characters are put in at the cursor, or there is no room.
LEMMA Inserted ==
  ASSUME NEW e, Between(e), NEW t \in Written
  PROVE  Between(insert_chars(e, t))
<1> DEFINE s == e.buf
           p == e.pos
           a == SubSeq(s, 1, p)
           b == SubSeq(s, p + 1, Len(s))
           u == a \o t \o b
<1>1. e \in Editors /\ s \in Written /\ Apart(s, p)
  BY DEF Between, Editors
<1>2. a \in Written /\ Len(a) = p /\ b \in Written /\ p \in Nat
  BY <1>1, TwoParts
<1> HIDE DEF a, b
<1>3. a \o t \in Written /\ Len(a \o t) = p + Len(t)
  BY <1>2, Joined
<1>4. u \in Written /\ Apart(u, p + Len(t))
  BY <1>2, <1>3, JoinedAt
<1>5. CASE Len(s) + Len(t) >= NEXS_LINE_BUFSIZE
  <2>1. insert_chars(e, t) = e
    BY <1>5 DEF insert_chars
  <2> QED
    BY <2>1
<1>6. CASE ~ (Len(s) + Len(t) >= NEXS_LINE_BUFSIZE)
  <2>1. insert_chars(e, t) = [e EXCEPT !.buf = u, !.pos = p + Len(t)]
    BY <1>6 DEF insert_chars, a, b
  <2> HIDE DEF u
  <2>2. Between([e EXCEPT !.buf = u, !.pos = p + Len(t)])
    BY <1>1, <1>4, Rewritten
  <2> QED
    BY <2>1, <2>2
<1> QED
  BY <1>5, <1>6

\* Backspace and delete take out one character.
LEMMA Deleted ==
  ASSUME NEW e, Between(e)
  PROVE  Between(delete_char_before(e)) /\ Between(delete_char_at(e))
<1> DEFINE s == e.buf
           p == e.pos
           prev == utf8_prev(s, p)
           next == utf8_next(s, p)
<1>1. e \in Editors /\ s \in Written /\ Apart(s, p)
  BY DEF Between, Editors
<1>2. p \in 0 .. Len(s) /\ p \in Nat
  <2>1. Len(s) \in Nat
    BY <1>1, Ends
  <2> QED
    BY <1>1, <2>1 DEF Apart
<1>3. Apart(s, prev) /\ Apart(s, next)
  <2> HIDE DEF s, p
  <2> QED
    BY <1>1, <1>2, PrevApart, NextApart
<1>4. /\ delete_char_before(e) = [e EXCEPT !.buf = Cut(s, prev, p), !.pos = prev]
      /\ delete_char_at(e) = [e EXCEPT !.buf = Cut(s, p, next)]
  BY DEF delete_char_before, delete_char_at
<1>5. [e EXCEPT !.buf = Cut(s, p, next)] = [e EXCEPT !.buf = Cut(s, p, next), !.pos = p]
  BY <1>1 DEF Editors
<1> HIDE DEF prev, next
<1>6. /\ Cut(s, prev, p) \in Written /\ Apart(Cut(s, prev, p), prev)
      /\ Cut(s, p, next) \in Written /\ Apart(Cut(s, p, next), p)
  <2> HIDE DEF s, p
  <2> QED
    BY <1>1, <1>3, CutApart
<1>7. Between([e EXCEPT !.buf = Cut(s, prev, p), !.pos = prev])
  <2> HIDE DEF s, p
  <2> QED
    BY <1>1, <1>6, Rewritten
<1>8. Between([e EXCEPT !.buf = Cut(s, p, next), !.pos = p])
  BY <1>1, <1>6, Rewritten
<1> QED
  BY <1>4, <1>5, <1>7, <1>8

\* What is killed is whole characters too.
LEMMA Killed ==
  ASSUME NEW e, Between(e)
  PROVE  /\ Between(kill_to_end(e)) /\ Between(kill_all(e))
         /\ Between(kill_word_back(e)) /\ Between(yank(e))
<1> DEFINE s == e.buf
           p == e.pos
           w == OverWord(s, p, "byte")
<1>1. e \in Editors /\ s \in Written /\ Apart(s, p) /\ e.kill_buf \in Written
  BY DEF Between, Editors
<1>2. /\ SubSeq(s, 1, p) \in Written /\ Len(SubSeq(s, 1, p)) = p
      /\ SubSeq(s, p + 1, Len(s)) \in Written /\ p \in Nat
  <2> HIDE DEF s, p
  <2> QED
    BY <1>1, TwoParts
<1>3. Between(kill_to_end(e))
  <2>1. CASE p >= Len(s)
    BY <2>1 DEF kill_to_end
  <2>2. CASE ~ (p >= Len(s))
    <3> DEFINE a == SubSeq(s, 1, p)
               b == SubSeq(s, p + 1, Len(s))
    <3>1. kill_to_end(e) = [e EXCEPT !.kill_buf = b, !.buf = a]
      BY <2>2 DEF kill_to_end
    <3>2. [e EXCEPT !.kill_buf = b, !.buf = a] = [e EXCEPT !.kill_buf = b, !.buf = a, !.pos = p]
      BY <1>1 DEF Editors
    <3>3. a \in Written /\ b \in Written /\ Apart(a, p)
      <4>1. Apart(a, Len(a))
        BY <1>2, Ends
      <4> QED
        BY <1>2, <4>1
    <3> HIDE DEF a, b
    <3>4. Between([e EXCEPT !.kill_buf = b, !.buf = a, !.pos = p])
      BY <1>1, <3>3, Rewritten
    <3> QED
      BY <3>1, <3>2, <3>4
  <2> QED
    BY <2>1, <2>2
<1>4. Between(kill_all(e))
  <2>1. kill_all(e) = [e EXCEPT !.kill_buf = s, !.buf = << >>, !.pos = 0]
    BY DEF kill_all
  <2>2. << >> \in Written /\ Apart(<< >>, 0)
    BY Ends
  <2>3. \A k \in Written : Between([e EXCEPT !.kill_buf = k, !.buf = << >>, !.pos = 0])
    BY <1>1, <2>2, Rewritten
  <2> HIDE DEF s
  <2> QED
    BY <1>1, <2>1, <2>3
<1>5. Between(kill_word_back(e))
  <2>1. Apart(s, w) /\ w \in 0 .. p
    <3> HIDE DEF s, p
    <3> QED
      BY <1>1, OverWordApart
  <2> HIDE DEF w
  <2>2. CASE w = p
    BY <2>2 DEF kill_word_back, w
  <2>3. CASE w # p
    <3> DEFINE b == SubSeq(s, w + 1, p)
               a == Cut(s, w, p)
    <3>1. kill_word_back(e) = [e EXCEPT !.kill_buf = b, !.buf = a, !.pos = w]
      BY <2>3 DEF kill_word_back, w
    <3>2. b \in Written
      <4>1. w <= p
        BY <1>2, <2>1
      <4> HIDE DEF s, p
      <4> QED
        BY <1>1, <2>1, <4>1, PartBetween
    <3>3. a \in Written /\ Apart(a, w)
      <4> HIDE DEF s, p
      <4> QED
        BY <1>1, <2>1, CutApart
    <3> HIDE DEF a, b
    <3>4. Between([e EXCEPT !.kill_buf = b, !.buf = a, !.pos = w])
      BY <1>1, <3>2, <3>3, Rewritten
    <3> QED
      BY <3>1, <3>4
  <2> QED
    BY <2>2, <2>3
<1>6. Between(yank(e))
  BY <1>1, Inserted DEF yank
<1> QED
  BY <1>3, <1>4, <1>5, <1>6

\* The two characters before the cursor change places.
LEMMA Transposed ==
  ASSUME NEW e, Between(e)
  PROVE  Between(transpose_chars(e))
<1> DEFINE s == e.buf
           p == e.pos
           p1 == utf8_prev(s, p)
           p0 == utf8_prev(s, p1)
           a == SubSeq(s, 1, p0)
           b == SubSeq(s, p1 + 1, p)
           c == SubSeq(s, p0 + 1, p1)
           d == SubSeq(s, p + 1, Len(s))
           u == a \o b \o c \o d
<1>1. e \in Editors /\ s \in Written /\ Apart(s, p)
  BY DEF Between, Editors
<1>2. p \in 0 .. Len(s) /\ p \in Nat /\ Len(s) \in Nat
  <2>1. Len(s) \in Nat
    BY <1>1, Ends
  <2> QED
    BY <1>1, <2>1 DEF Apart
<1>3. Apart(s, p1) /\ p1 \in 0 .. p
  <2> HIDE DEF s, p
  <2> QED
    BY <1>1, <1>2, PrevApart
<1> HIDE DEF p1
<1>4. Apart(s, p0) /\ p0 \in 0 .. p1
  <2>1. p1 \in 0 .. Len(s)
    BY <1>2, <1>3
  <2> HIDE DEF s, p
  <2> QED
    BY <1>1, <2>1, PrevApart
<1> HIDE DEF p0
<1>5. p0 <= p1 /\ p1 <= p /\ p0 \in Nat /\ p1 \in Nat
  BY <1>2, <1>3, <1>4
<1>6. /\ a \in Written /\ Len(a) = p0 /\ d \in Written
      /\ b \in Written /\ Len(b) = p - p1 /\ c \in Written /\ Len(c) = p1 - p0
  <2> HIDE DEF s, p
  <2>1. a \in Written /\ Len(a) = p0 /\ d \in Written
    BY <1>1, <1>4, TwoParts
  <2>2. b \in Written /\ Len(b) = p - p1
    BY <1>1, <1>3, <1>5, PartBetween
  <2>3. c \in Written /\ Len(c) = p1 - p0
    BY <1>1, <1>3, <1>4, <1>5, PartBetween
  <2> QED
    BY <2>1, <2>2, <2>3
<1> HIDE DEF a, b, c, d
<1>7. a \o b \in Written /\ Len(a \o b) = p0 + (p - p1)
  BY <1>6, Joined
<1>8. a \o b \o c \in Written /\ Len(a \o b \o c) = p0 + (p - p1) + (p1 - p0)
  BY <1>6, <1>7, Joined
<1>9. Len(a \o b \o c) = p
  BY <1>2, <1>5, <1>8
<1>10. u \in Written /\ Apart(u, p)
  BY <1>6, <1>8, <1>9, JoinedAt
<1>11. CASE p < 2
  BY <1>11 DEF transpose_chars
<1>12. CASE ~ (p < 2)
  <2>1. transpose_chars(e) = [e EXCEPT !.buf = u]
    BY <1>12 DEF transpose_chars, p0, p1, a, b, c, d
  <2> HIDE DEF u
  <2>2. [e EXCEPT !.buf = u] = [e EXCEPT !.buf = u, !.pos = p]
    BY <1>1 DEF Editors
  <2>3. Between([e EXCEPT !.buf = u, !.pos = p])
    BY <1>1, <1>10, Rewritten
  <2> QED
    BY <2>1, <2>2, <2>3
<1> QED
  BY <1>11, <1>12

-----------------------------------------------------------------------------
(* The history *)

\* A slot of the ring.
LEMMA SlotIn ==
  ASSUME NEW e \in Editors, NEW nav \in Int
  PROVE  Slot(e, nav) \in 0 .. NEXS_LINE_HISTORY - 1
<1>1. NEXS_LINE_HISTORY \in Nat \ {0} /\ e.hist_head \in Int
  BY TypingAssumption DEF Editors
<1> DEFINE m == e.hist_head - 1 - nav + NEXS_LINE_HISTORY
<1>2. m \in Int
  BY <1>1
<1>3. Slot(e, nav) = m % NEXS_LINE_HISTORY
  BY DEF Slot
<1> HIDE DEF m
<1> QED
  BY <1>1, <1>2, <1>3

\* A remembered line leaves the line that is shown, and the editor what it is.
LEMMA Remembered ==
  ASSUME NEW e \in Editors, NEW t \in Written
  PROVE  /\ nexs_line_add_history(e, t) \in Editors
         /\ nexs_line_add_history(e, t).buf = e.buf /\ nexs_line_add_history(e, t).pos = e.pos
         /\ nexs_line_add_history(e, t).col = e.col
<1>1. NEXS_LINE_HISTORY \in Nat \ {0} /\ e.hist_head \in 0 .. NEXS_LINE_HISTORY - 1
      /\ e.hist_count \in 0 .. NEXS_LINE_HISTORY
  BY TypingAssumption DEF Editors
<1> DEFINE head  == (e.hist_head + 1) % NEXS_LINE_HISTORY
           count == IF e.hist_count < NEXS_LINE_HISTORY THEN e.hist_count + 1 ELSE e.hist_count
           lines == [e.history EXCEPT ![e.hist_head] = t]
           f     == [e EXCEPT !.history = lines, !.hist_head = head, !.hist_count = count]
<1>2. nexs_line_add_history(e, t) = e \/ nexs_line_add_history(e, t) = f
  <2>1. f = [e EXCEPT !.history[e.hist_head] = t, !.hist_head = head, !.hist_count = count]
    BY DEF Editors
  <2> QED
    BY <2>1 DEF nexs_line_add_history
<1>3. head \in 0 .. NEXS_LINE_HISTORY - 1
  <2>1. e.hist_head + 1 \in Int
    BY <1>1
  <2> QED
    BY <1>1, <2>1
<1>4. count \in 0 .. NEXS_LINE_HISTORY
  BY <1>1
<1>5. lines \in [0 .. NEXS_LINE_HISTORY - 1 -> Written]
  BY DEF Editors
<1> HIDE DEF head, count, lines
<1>6. f \in Editors /\ f.buf = e.buf /\ f.pos = e.pos /\ f.col = e.col
  BY <1>3, <1>4, <1>5 DEF Editors
<1> HIDE DEF f
<1> QED
  BY <1>2, <1>6

\* The editor with another line shown, at its end.
LEMMA Shown ==
  ASSUME NEW e \in Editors, NEW t \in Written, NEW nav \in -1 .. NEXS_LINE_HISTORY - 1
  PROVE  Between(Show([e EXCEPT !.hist_nav = nav], t))
<1> DEFINE f == [e EXCEPT !.hist_nav = nav]
<1>1. f \in Editors
  BY DEF Editors
<1> HIDE DEF f
<1>2. Apart(t, Len(t))
  BY Ends
<1>3. Show(f, t) = [f EXCEPT !.buf = t, !.pos = Len(t)]
  BY DEF Show
<1>4. Between([f EXCEPT !.buf = t, !.pos = Len(t)])
  BY <1>1, <1>2, Rewritten
<1> QED
  BY <1>3, <1>4 DEF f

\* A line of the history.
LEMMA Recalled ==
  ASSUME NEW e \in Editors, NEW nav \in 0 .. NEXS_LINE_HISTORY - 1
  PROVE  Between(Recall(e, nav))
<1>1. NEXS_LINE_HISTORY \in Nat \ {0}
  BY TypingAssumption
<1>2. nav \in Int /\ nav \in -1 .. NEXS_LINE_HISTORY - 1
  BY <1>1
<1>3. Slot(e, nav) \in 0 .. NEXS_LINE_HISTORY - 1
  BY <1>2, SlotIn
<1>4. e.history[Slot(e, nav)] \in Written
  BY <1>3 DEF Editors
<1>5. Between(Show([e EXCEPT !.hist_nav = nav], e.history[Slot(e, nav)]))
  BY <1>2, <1>4, Shown
<1>6. [e EXCEPT !.hist_nav = nav].history = e.history
  BY DEF Editors
<1> QED
  BY <1>5 DEF Recall

\* Going through the history shows lines of it, or the line that was left.
LEMMA Navigated ==
  ASSUME NEW e, Between(e)
  PROVE  Between(history_nav(e, 1)) /\ Between(history_nav(e, -1)) /\ Between(page_up(e))
<1> DEFINE left == Leave(e)
<1>1. e \in Editors /\ NEXS_LINE_HISTORY \in Nat \ {0}
  BY TypingAssumption DEF Between
<1>2. /\ e.hist_nav \in -1 .. NEXS_LINE_HISTORY - 1 /\ e.hist_count \in 0 .. NEXS_LINE_HISTORY
      /\ e.hist_nav \in Int /\ e.hist_count \in Int
  BY <1>1 DEF Editors
<1>3. left \in Editors /\ left.buf = e.buf /\ left.pos = e.pos
  BY <1>1 DEF Editors, Leave
<1>4. Between(left) /\ left.hist_saved \in Written
  BY <1>3 DEF Between, Editors
<1> HIDE DEF left
<1>5. ASSUME NEW dir \in {1, -1} PROVE Between(history_nav(e, dir))
  <2> DEFINE nav == e.hist_nav + dir
  <2>1. nav \in Int
    BY <1>2
  <2>2. history_nav(e, dir) = IF e.hist_count = 0 THEN e
                              ELSE IF nav < 0 THEN Show([left EXCEPT !.hist_nav = -1], left.hist_saved)
                              ELSE IF nav >= e.hist_count THEN left
                              ELSE Recall(left, nav)
    BY DEF history_nav, left
  <2> HIDE DEF nav
  <2>3. Between(Show([left EXCEPT !.hist_nav = -1], left.hist_saved))
    <3>1. -1 \in -1 .. NEXS_LINE_HISTORY - 1
      BY <1>1
    <3> QED
      BY <1>3, <1>4, <3>1, Shown
  <2>4. ASSUME ~ (nav < 0), ~ (nav >= e.hist_count) PROVE Between(Recall(left, nav))
    <3>1. nav \in 0 .. NEXS_LINE_HISTORY - 1
      BY <1>1, <1>2, <2>1, <2>4
    <3> QED
      BY <1>3, <3>1, Recalled
  <2> QED
    BY <1>4, <2>2, <2>3, <2>4
<1>6. Between(page_up(e))
  <2>1. CASE e.hist_count = 0
    BY <2>1 DEF page_up
  <2>2. CASE e.hist_count # 0
    <3> DEFINE nav == e.hist_count - 1
    <3>1. nav \in 0 .. NEXS_LINE_HISTORY - 1
      BY <1>1, <1>2, <2>2
    <3>2. page_up(e) = Recall(left, nav)
      BY <2>2 DEF page_up, left
    <3> HIDE DEF nav
    <3> QED
      BY <1>3, <3>1, <3>2, Recalled
  <2> QED
    BY <2>1, <2>2
<1>7. Between(history_nav(e, 1)) /\ Between(history_nav(e, -1))
  BY <1>5
<1> QED
  BY <1>6, <1>7

-----------------------------------------------------------------------------
(* Reading keys *)

\* The keys that act on the line, those that end it, and those that do nothing.
Acting == {"LEFT", "RIGHT", "CHAR", "HOME", "END", "WORD_LEFT", "WORD_RIGHT", "UP",
           "DOWN", "PGDN", "PGUP", "BACKSPACE", "DELETE", "EOF", "KILL_END", "KILL_ALL",
           "KILL_WORD", "YANK", "TRANSPOSE", "CLEAR"}
Ending == {"ENTER", "CTRL_C"}
Idle   == {"ESC", "NONE", "TAB", "CTRL_D", "CTRL_R"}

\* A key with a character in whole, and whole characters after it.
KeyOf(key) == /\ key.code \in Acting \cup Ending \cup Idle
              /\ key.utf8 \in Written /\ key.rest \in Written

\* What has been read so far ends a string of whole characters.
LEMMA AfterWhole ==
  ASSUME NEW in \in Written, NEW i \in Nat \ {0}
  PROVE  After(in, i) \in Written
<1>1. in \in ByteStrings /\ Len(in) \in Nat /\ Apart(in, Len(in))
  BY Ends
<1>2. CASE i - 1 <= Len(in)
  <2> DEFINE p == i - 1
  <2>1. p \in Nat /\ p + 1 = i
    OBVIOUS
  <2> HIDE DEF p
  <2>2. SubSeq(in, p + 1, Len(in)) \in Written
    BY <1>1, <1>2, <2>1, WholePart DEF p
  <2> QED
    BY <2>1, <2>2 DEF After
<1>3. CASE ~ (i - 1 <= Len(in))
  <2>1. Len(in) < i /\ i \in Int
    BY <1>1, <1>3
  <2>2. After(in, i) = << >>
    BY <1>1, <2>1, SubSeqEmpty DEF After
  <2> QED
    BY <2>2, Ends
<1> QED
  BY <1>2, <1>3

\* A key without a character.
LEMMA KeyAlone ==
  ASSUME NEW code \in Acting \cup Ending \cup Idle, NEW rest \in Written
  PROVE  KeyOf(Key(code, << >>, rest))
BY Ends DEF KeyOf, Key

\* The tables name keys.
LEMMA Tables ==
  /\ \A b \in DOMAIN Arrows : Arrows[b] \in Acting
  /\ \A b \in DOMAIN Tildes : Tildes[b] \in Acting
  /\ \A b \in DOMAIN Shifted : Shifted[b] \in Acting
  /\ \A b \in DOMAIN Controlled : Controlled[b] \in Acting
  /\ \A b \in DOMAIN Controls : Controls[b] \in Acting \cup Ending \cup Idle
<1>1. \A b \in DOMAIN Arrows : Arrows[b] \in Acting
  BY DEF Arrows, Acting
<1>2. \A b \in DOMAIN Tildes : Tildes[b] \in Acting
  BY DEF Tildes, Acting
<1>3. \A b \in DOMAIN Shifted : Shifted[b] \in Acting
  BY DEF Shifted, Acting
<1>4. \A b \in DOMAIN Controlled : Controlled[b] \in Acting
  BY DEF Controlled, Acting
<1>5. \A b \in DOMAIN Controls : Controls[b] \in Acting \cup Ending \cup Idle
  BY DEF Controls, Acting, Ending, Idle
<1> QED
  BY <1>1, <1>2, <1>3, <1>4, <1>5

\* Looking a byte up in a table, and a sequence that is not known.
LEMMA LookedUp ==
  ASSUME NEW in \in Written, NEW i \in Nat \ {0}
  PROVE  /\ KeyOf(Nothing(in, i)) /\ KeyOf(Absorb(in, i))
         /\ \A table : (\A b \in DOMAIN table : table[b] \in Acting \cup Ending \cup Idle)
              => KeyOf(Lookup(table, in, i))
<1>1. \A j \in Nat \ {0} : KeyOf(Nothing(in, j))
  <2> TAKE j \in Nat \ {0}
  <2>1. After(in, j) \in Written /\ "NONE" \in Acting \cup Ending \cup Idle
    BY AfterWhole DEF Idle
  <2> QED
    BY <2>1, KeyAlone DEF Nothing
<1>2. KeyOf(Absorb(in, i))
  <2> DEFINE ends == {j \in i .. Len(in) : in[j] \in (65 .. 90) \cup (97 .. 122) \cup {126}}
             next == IF ends = {} THEN Len(in) + 1 ELSE First(ends) + 1
  <2>1. Len(in) \in Nat
    BY Ends
  <2>2. ends \in SUBSET Nat
    BY <2>1
  <2>3. Absorb(in, i) = Nothing(in, next)
    BY DEF Absorb
  <2>4. next \in Nat \ {0}
    <3> HIDE DEF ends
    <3>1. ends # {} => First(ends) \in Nat
      BY <2>2, FirstIn
    <3> QED
      BY <2>1, <3>1
  <2> HIDE DEF next
  <2> QED
    BY <1>1, <2>3, <2>4
<1>3. ASSUME NEW table, \A b \in DOMAIN table : table[b] \in Acting \cup Ending \cup Idle
      PROVE  KeyOf(Lookup(table, in, i))
  <2>1. i + 1 \in Nat \ {0}
    OBVIOUS
  <2>2. KeyOf(Nothing(in, i + 1)) /\ After(in, i + 1) \in Written
    BY <1>1, <2>1, AfterWhole
  <2>3. CASE Byte(in, i) \in DOMAIN table
    <3>1. table[Byte(in, i)] \in Acting \cup Ending \cup Idle
      BY <1>3, <2>3
    <3>2. KeyOf(Key(table[Byte(in, i)], << >>, After(in, i + 1)))
      BY <2>2, <3>1, KeyAlone
    <3> QED
      BY <2>3, <3>2 DEF Lookup
  <2>4. CASE Byte(in, i) \notin DOMAIN table
    BY <2>2, <2>4 DEF Lookup
  <2> QED
    BY <2>3, <2>4
<1> QED
  BY <1>1, <1>2, <1>3

\* Escape sequences leave whole characters, or what is left of one.
LEMMA Escapes ==
  ASSUME NEW in \in Written
  PROVE  KeyOf(EscapeSequence(in))
<1>1. \A i \in {1, 2, 3, 4, 5, 6, 7} : i \in Nat \ {0}
  OBVIOUS
<1>2. \A i \in {1, 2, 3, 4, 5, 6, 7} :
        /\ KeyOf(Nothing(in, i)) /\ KeyOf(Absorb(in, i)) /\ After(in, i) \in Written
        /\ KeyOf(Lookup(Arrows, in, i)) /\ KeyOf(Lookup(Shifted, in, i))
        /\ KeyOf(Lookup(Controlled, in, i))
  <2> TAKE i \in {1, 2, 3, 4, 5, 6, 7}
  <2>1. i \in Nat \ {0}
    BY <1>1
  <2>2. \A table : (\A b \in DOMAIN table : table[b] \in Acting \cup Ending \cup Idle)
              => KeyOf(Lookup(table, in, i))
    BY <2>1, LookedUp
  <2>3. /\ KeyOf(Lookup(Arrows, in, i)) /\ KeyOf(Lookup(Shifted, in, i))
        /\ KeyOf(Lookup(Controlled, in, i))
    <3>1. /\ \A b \in DOMAIN Arrows : Arrows[b] \in Acting \cup Ending \cup Idle
          /\ \A b \in DOMAIN Shifted : Shifted[b] \in Acting \cup Ending \cup Idle
          /\ \A b \in DOMAIN Controlled : Controlled[b] \in Acting \cup Ending \cup Idle
      BY Tables, Zenon
    <3> QED
      BY <2>2, <3>1, Zenon
  <2>4. KeyOf(Nothing(in, i)) /\ KeyOf(Absorb(in, i)) /\ After(in, i) \in Written
    BY <2>1, LookedUp, AfterWhole
  <2> QED
    BY <2>3, <2>4
<1>3. /\ "HOME" \in Acting \cup Ending \cup Idle /\ "ESC" \in Acting \cup Ending \cup Idle
      /\ << >> \in Written
  BY Ends DEF Acting, Idle
<1>4. KeyOf(Modified(in))
  <2>1. KeyOf(Key("HOME", << >>, After(in, 5)))
    BY <1>2, <1>3, KeyAlone
  <2>2. KeyOf(Nothing(in, 5)) /\ KeyOf(Nothing(in, 7)) /\ KeyOf(Lookup(Shifted, in, 6))
        /\ KeyOf(Lookup(Controlled, in, 6))
    BY <1>2
  <2> QED
    BY <2>1, <2>2 DEF Modified
<1>5. KeyOf(Tilde(in))
  <2>1. ASSUME Byte(in, 3) \in DOMAIN Tildes
        PROVE  KeyOf(Key(Tildes[Byte(in, 3)], << >>, After(in, 5)))
    <3>1. Tildes[Byte(in, 3)] \in Acting \cup Ending \cup Idle /\ After(in, 5) \in Written
      BY <1>2, <2>1, Tables
    <3> QED
      BY <3>1, KeyAlone
  <2>2. KeyOf(Absorb(in, 5))
    BY <1>2
  <2> QED
    BY <2>1, <2>2 DEF Tilde
<1>6. KeyOf(Key("ESC", << >>, << >>)) /\ KeyOf(Key("ESC", << >>, After(in, 3)))
  BY <1>2, <1>3, KeyAlone
<1>7. KeyOf(CSI(in))
  <2>1. KeyOf(Lookup(Arrows, in, 3)) /\ KeyOf(Absorb(in, 4))
    BY <1>2
  <2> QED
    BY <1>4, <1>5, <1>6, <2>1 DEF CSI
<1>8. KeyOf(SS3(in))
  BY <1>2 DEF SS3
<1> QED
  BY <1>6, <1>7, <1>8 DEF EscapeSequence

\* Every key that is read has a code, and its character in whole.
LEMMA KeyRead ==
  ASSUME NEW in \in Written
  PROVE  KeyOf(nexs_key_read(in))
<1>1. CASE in = << >>
  <2>1. "EOF" \in Acting \cup Ending \cup Idle /\ << >> \in Written
    BY Ends DEF Acting
  <2>2. KeyOf(Key("EOF", << >>, << >>))
    BY <2>1, KeyAlone
  <2> QED
    BY <1>1, <2>2 DEF nexs_key_read
<1>2. CASE in # << >>
  <2>1. KeyOf(Lookup(Controls, in, 1))
    BY Tables, LookedUp
  <2>2. KeyOf(EscapeSequence(in))
    BY Escapes
  <2>3. KeyOf(Character(in))
    <3> DEFINE n == utf8_seq_len(in[1])
    <3>1. in \in ByteStrings /\ Len(in) \in Nat /\ Apart(in, 0) /\ 0 < Len(in)
      <4>1. in \in ByteStrings /\ Len(in) \in Nat /\ Apart(in, 0)
        BY Ends
      <4> QED
        BY <1>2, <4>1 DEF ByteStrings
    <3>2. utf8_seq_len(in[0 + 1]) \in 1 .. 4 /\ Apart(in, 0 + utf8_seq_len(in[0 + 1]))
      BY <3>1, OverCharacter
    <3>3. n \in 1 .. 4 /\ Apart(in, n)
      <4>1. 0 + 1 = 1
        OBVIOUS
      <4>2. n \in 1 .. 4 /\ Apart(in, 0 + n)
        BY <3>2, <4>1
      <4> HIDE DEF n
      <4>3. 0 + n = n
        BY <4>2
      <4> QED
        BY <4>2, <4>3
    <3> HIDE DEF n
    <3>4. SubSeq(in, 1, n) \in Written /\ After(in, n + 1) \in Written
      <4>1. n + 1 \in Nat \ {0}
        BY <3>3
      <4> QED
        BY <3>3, <4>1, TwoParts, AfterWhole
    <3>5. KeyOf(Key("CHAR", SubSeq(in, 1, n), After(in, n + 1)))
      BY <3>4 DEF KeyOf, Key, Acting
    <3> QED
      BY <3>5 DEF Character, n
  <2> QED
    BY <1>2, <2>1, <2>2, <2>3 DEF nexs_key_read
<1> QED
  BY <1>1, <1>2

-----------------------------------------------------------------------------
(* Reading lines *)

\* The place in the same line of another field.
LEMMA Placed ==
  ASSUME NEW e, Between(e), NEW p, Apart(e.buf, p)
  PROVE  Between(MoveTo(e, p))
<1>1. e \in Editors /\ e.buf \in Written
  BY DEF Between, Editors
<1>2. p \in Nat
  <2>1. Len(e.buf) \in Nat
    BY <1>1, Ends
  <2> QED
    BY <2>1 DEF Apart
<1>3. [e EXCEPT !.pos = p] \in Editors /\ [e EXCEPT !.pos = p].buf = e.buf /\ [e EXCEPT !.pos = p].pos = p
  BY <1>1, <1>2 DEF Editors
<1> QED
  BY <1>3 DEF Between, MoveTo

\* Whatever key is pressed, the terminal's cursor is before the character
\* that the next one will act on.
LEMMA Edited ==
  ASSUME NEW e, OnScreen(e), NEW key, KeyOf(key), key.code \in Acting \cup Idle
  PROVE  OnScreen(edit_key(e, key))
<1> DEFINE k == key.code
<1>1. Between(e) /\ e.buf \in Written /\ Apart(e.buf, e.pos) /\ key.utf8 \in Written
  BY DEF OnScreen, Between, Editors, KeyOf
<1>2. /\ Apart(e.buf, 0) /\ Apart(e.buf, Len(e.buf))
      /\ Apart(e.buf, OverWord(e.buf, e.pos, "prev")) /\ Apart(e.buf, OverWord(e.buf, e.pos, "next"))
  BY <1>1, Ends, OverWordApart
<1>3. CASE k \in Idle
  BY <1>3 DEF edit_key, Idle
<1>4. CASE k = "LEFT"
  <2>1. edit_key(e, key) = MoveLeft(e)
    BY <1>4 DEF edit_key
  <2> QED
    BY <2>1, Moved
<1>5. CASE k = "RIGHT"
  <2>1. edit_key(e, key) = MoveRight(e)
    BY <1>5 DEF edit_key
  <2> QED
    BY <2>1, Moved
<1>6. /\ Between(MoveTo(e, 0)) /\ Between(MoveTo(e, Len(e.buf)))
      /\ Between(MoveTo(e, OverWord(e.buf, e.pos, "prev")))
      /\ Between(MoveTo(e, OverWord(e.buf, e.pos, "next")))
  BY <1>1, <1>2, Placed
<1>7. /\ Between(insert_chars(e, key.utf8)) /\ Between(yank(e))
      /\ Between(delete_char_before(e)) /\ Between(delete_char_at(e))
      /\ Between(kill_to_end(e)) /\ Between(kill_all(e)) /\ Between(kill_word_back(e))
      /\ Between(transpose_chars(e))
      /\ Between(history_nav(e, 1)) /\ Between(history_nav(e, -1)) /\ Between(page_up(e))
  BY <1>1, Inserted, Killed, Deleted, Transposed, Navigated
<1>8. ASSUME NEW f, Between(f), edit_key(e, key) = nexs_line_render(f)
      PROVE  OnScreen(edit_key(e, key))
  BY <1>8, Rendered
<1>9. CASE k \in Acting \ {"LEFT", "RIGHT"}
  <2>1. CASE k = "CHAR"
    <3>1. edit_key(e, key) = nexs_line_render(insert_chars(e, key.utf8))
      BY <2>1 DEF edit_key
    <3> QED
      BY <1>7, <1>8, <3>1
  <2>2. CASE k = "HOME"
    <3>1. edit_key(e, key) = nexs_line_render(MoveTo(e, 0))
      BY <2>2 DEF edit_key
    <3> QED
      BY <1>6, <1>8, <3>1
  <2>3. CASE k = "END"
    <3>1. edit_key(e, key) = nexs_line_render(MoveTo(e, Len(e.buf)))
      BY <2>3 DEF edit_key
    <3> QED
      BY <1>6, <1>8, <3>1
  <2>4. CASE k = "WORD_LEFT"
    <3>1. edit_key(e, key) = nexs_line_render(MoveTo(e, OverWord(e.buf, e.pos, "prev")))
      BY <2>4 DEF edit_key
    <3> QED
      BY <1>6, <1>8, <3>1
  <2>5. CASE k = "WORD_RIGHT"
    <3>1. edit_key(e, key) = nexs_line_render(MoveTo(e, OverWord(e.buf, e.pos, "next")))
      BY <2>5 DEF edit_key
    <3> QED
      BY <1>6, <1>8, <3>1
  <2>6. CASE k = "UP"
    <3>1. edit_key(e, key) = nexs_line_render(history_nav(e, 1))
      BY <2>6 DEF edit_key
    <3> QED
      BY <1>7, <1>8, <3>1
  <2>7. CASE k \in {"DOWN", "PGDN"}
    <3>1. edit_key(e, key) = nexs_line_render(history_nav(e, -1))
      BY <2>7 DEF edit_key
    <3> QED
      BY <1>7, <1>8, <3>1
  <2>8. CASE k = "PGUP"
    <3>1. edit_key(e, key) = nexs_line_render(page_up(e))
      BY <2>8 DEF edit_key
    <3> QED
      BY <1>7, <1>8, <3>1
  <2>9. CASE k = "BACKSPACE"
    <3>1. edit_key(e, key) = nexs_line_render(delete_char_before(e))
      BY <2>9 DEF edit_key
    <3> QED
      BY <1>7, <1>8, <3>1
  <2>10. CASE k \in {"DELETE", "EOF"}
    <3>1. edit_key(e, key) = nexs_line_render(delete_char_at(e))
      BY <2>10 DEF edit_key
    <3> QED
      BY <1>7, <1>8, <3>1
  <2>11. CASE k = "KILL_END"
    <3>1. edit_key(e, key) = nexs_line_render(kill_to_end(e))
      BY <2>11 DEF edit_key
    <3> QED
      BY <1>7, <1>8, <3>1
  <2>12. CASE k = "KILL_ALL"
    <3>1. edit_key(e, key) = nexs_line_render(kill_all(e))
      BY <2>12 DEF edit_key
    <3> QED
      BY <1>7, <1>8, <3>1
  <2>13. CASE k = "KILL_WORD"
    <3>1. edit_key(e, key) = nexs_line_render(kill_word_back(e))
      BY <2>13 DEF edit_key
    <3> QED
      BY <1>7, <1>8, <3>1
  <2>14. CASE k = "YANK"
    <3>1. edit_key(e, key) = nexs_line_render(yank(e))
      BY <2>14 DEF edit_key
    <3> QED
      BY <1>7, <1>8, <3>1
  <2>15. CASE k = "TRANSPOSE"
    <3>1. edit_key(e, key) = nexs_line_render(transpose_chars(e))
      BY <2>15 DEF edit_key
    <3> QED
      BY <1>7, <1>8, <3>1
  <2>16. CASE k = "CLEAR"
    <3>1. edit_key(e, key) = nexs_line_render(e)
      BY <2>16 DEF edit_key
    <3> QED
      BY <1>1, <1>8, <3>1
  <2> QED
    BY <1>9, <2>1, <2>2, <2>3, <2>4, <2>5, <2>6, <2>7, <2>8, <2>9, <2>10, <2>11,
       <2>12, <2>13, <2>14, <2>15, <2>16 DEF Acting
<1> QED
  BY <1>3, <1>4, <1>5, <1>9

\* What the loop of nexs_line_read has: an editor and the bytes not read yet.
Reading(r) == /\ DOMAIN r = {"le", "ends", "rest"}
              /\ r = [x \in DOMAIN r |-> r[x]]
              /\ OnScreen(r.le) /\ r.rest \in Written

\* One key more.
LEMMA ReadOne ==
  ASSUME NEW r, Reading(r)
  PROVE  Reading(ReadKey(r))
<1> DEFINE key == nexs_key_read(r.rest)
<1>1. KeyOf(key)
  BY KeyRead DEF Reading
<1> HIDE DEF key
<1>2. ASSUME NEW how PROVE Reading([r EXCEPT !.ends = how])
  BY DEF Reading
<1>3. CASE key.code \in Ending
  <2>1. ReadKey(r) = [r EXCEPT !.ends = "entered"] \/ ReadKey(r) = [r EXCEPT !.ends = "stopped"]
    BY <1>3 DEF ReadKey, key, Ending
  <2> QED
    BY <1>2, <2>1
<1>4. CASE key.code = "EOF" /\ r.le.buf = << >>
  <2>1. ReadKey(r) = [r EXCEPT !.ends = "stopped"]
    BY <1>4 DEF ReadKey, key
  <2> QED
    BY <1>2, <2>1
<1>5. CASE key.code \notin Ending /\ ~ (key.code = "EOF" /\ r.le.buf = << >>)
  <2> DEFINE e == edit_key(r.le, key)
  <2>1. key.code \in Acting \cup Idle /\ OnScreen(r.le) /\ key.rest \in Written
    BY <1>1, <1>5 DEF KeyOf, Reading
  <2>2. OnScreen(e)
    BY <1>1, <2>1, Edited
  <2>3. ReadKey(r) = [r EXCEPT !.le = e, !.rest = key.rest]
    BY <1>5 DEF ReadKey, key, Ending
  <2> HIDE DEF e
  <2>4. Reading([r EXCEPT !.le = e, !.rest = key.rest])
    BY <2>1, <2>2 DEF Reading
  <2> QED
    BY <2>3, <2>4
<1> QED
  BY <1>3, <1>4, <1>5

\* f is the loop of nexs_line_read over the bytes in, turn by turn.
Read(e, in, m, f) ==
  f = [n \in 0 .. m |->
         IF n = 0 THEN ReadKey([le |-> e, ends |-> "no", rest |-> in])
         ELSE LET r == f[n - 1]
              IN  IF r.ends # "no" \/ r.rest = << >> THEN r ELSE ReadKey(r)]

\* A burst of keys is read.
LEMMA BurstRead ==
  ASSUME NEW e, OnScreen(e), NEW in \in Written
  PROVE  Reading(nexs_line_read(e, in))
<1> DEFINE L == Len(in)
           r0 == [le |-> e, ends |-> "no", rest |-> in]
           more(r) == IF r.ends # "no" \/ r.rest = << >> THEN r ELSE ReadKey(r)
           A == {m \in 0 .. L : \E f : Read(e, in, m, f)}
<1>1. L \in Nat
  BY Ends
<1>2. 0 \in A
  <2> DEFINE f == [n \in 0 .. 0 |-> ReadKey(r0)]
  <2>1. \A n \in 0 .. 0 : n = 0
    OBVIOUS
  <2> DEFINE body(n) == IF n = 0 THEN ReadKey(r0) ELSE more(f[n - 1])
  <2> HIDE DEF more, r0
  <2>2. f = [n \in 0 .. 0 |-> body(n)]
    BY <2>1
  <2> HIDE DEF f
  <2>3. Read(e, in, 0, f)
    BY <2>2 DEF Read, more, r0
  <2> QED
    BY <1>1, <2>3
<1>3. ASSUME NEW m \in 0 .. L - 1, m \in A PROVE m + 1 \in A
  <2>1. PICK f : Read(e, in, m, f)
    BY <1>3
  <2>2. m \in Nat /\ m + 1 \in 0 .. L
    BY <1>1
  <2> HIDE DEF L
  <2>3. f = [n \in 0 .. m |-> IF n = 0 THEN ReadKey(r0) ELSE more(f[n - 1])]
    BY <2>1 DEF Read
  <2> HIDE DEF more, r0
  <2> DEFINE g == [n \in 0 .. m + 1 |-> IF n = 0 THEN ReadKey(r0) ELSE more(f[n - 1])]
  <2>4. \A n \in 0 .. m : g[n] = f[n]
    <3> TAKE n \in 0 .. m
    <3>1. n \in 0 .. m + 1
      BY <2>2
    <3>2. f[n] = IF n = 0 THEN ReadKey(r0) ELSE more(f[n - 1])
      BY <2>3
    <3> QED
      BY <3>1, <3>2
  <2>5. ASSUME NEW n \in 0 .. m + 1
        PROVE  g[n] = IF n = 0 THEN ReadKey(r0) ELSE more(g[n - 1])
    <3>1. n # 0 => n - 1 \in 0 .. m
      BY <2>2
    <3> QED
      BY <2>4, <3>1
  <2>6. g = [n \in 0 .. m + 1 |-> g[n]]
    OBVIOUS
  <2> HIDE DEF g
  <2>7. g = [n \in 0 .. m + 1 |-> IF n = 0 THEN ReadKey(r0) ELSE more(g[n - 1])]
    BY <2>5, <2>6
  <2>8. Read(e, in, m + 1, g)
    BY <2>7 DEF Read, more, r0
  <2> QED
    BY <2>2, <2>8 DEF L
<1>4. \E f : Read(e, in, L, f)
  <2>1. \A m \in 0 .. L : m \in A
    <3> HIDE DEF L, A
    <3> QED
      BY <1>1, <1>2, <1>3, Counted
  <2>2. L \in 0 .. L
    BY <1>1
  <2>3. L \in A
    BY <2>1, <2>2
  <2> QED
    BY <2>3
<1> DEFINE h == CHOOSE f : Read(e, in, L, f)
<1>5. Read(e, in, L, h)
  BY <1>4
<1>6. nexs_line_read(e, in) = h[L]
  BY DEF nexs_line_read, Read
<1> HIDE DEF h
<1> DEFINE B == {m \in 0 .. L : Reading(h[m])}
<1>7. h = [n \in 0 .. L |-> IF n = 0 THEN ReadKey(r0) ELSE more(h[n - 1])]
  BY <1>5 DEF Read
<1>8. 0 \in B
  <2>1. Reading(r0)
    BY DEF Reading
  <2> HIDE DEF r0, more
  <2>2. 0 \in 0 .. L
    BY <1>1
  <2>3. h[0] = ReadKey(r0)
    BY <1>7, <2>2
  <2> QED
    BY <2>1, <2>2, <2>3, ReadOne
<1>9. ASSUME NEW m \in 0 .. L - 1, m \in B PROVE m + 1 \in B
  <2>1. m + 1 \in 0 .. L /\ m + 1 # 0 /\ m + 1 - 1 = m
    BY <1>1
  <2>2. h[m + 1] = more(h[m])
    <3> HIDE DEF r0, more
    <3> DEFINE k == m + 1
    <3>1. k \in 0 .. L /\ k # 0 /\ k - 1 = m
      BY <2>1
    <3> HIDE DEF k
    <3>2. h[k] = more(h[k - 1])
      BY <1>7, <3>1
    <3> QED
      BY <3>1, <3>2 DEF k
  <2>3. Reading(h[m])
    BY <1>9
  <2>4. Reading(more(h[m]))
    BY <2>3, ReadOne
  <2> QED
    BY <2>1, <2>2, <2>4
<1>10. L \in B
  <2>1. \A m \in 0 .. L : m \in B
    <3> HIDE DEF L, B
    <3> QED
      BY <1>1, <1>8, <1>9, Counted
  <2>2. L \in 0 .. L
    BY <1>1
  <2> QED
    BY <2>1, <2>2
<1> QED
  BY <1>6, <1>10

\* f has what the first keys of ks may be in bytes, for every number of keys.
Continued(S, T) == {s \o b : s \in S, b \in T}
Spelled(ks, m, f) ==
  f = [n \in 0 .. m |-> IF n = 0 THEN {<< >>} ELSE Continued(f[n - 1], Spelling(ks[n]))]

\* What is typed is made of whole characters.
LEMMA TypedWhole ==
  ASSUME NEW ks \in Bursts
  PROVE  Spellings(ks) \subseteq Written
<1> DEFINE L == Len(ks)
           A == {m \in 0 .. L : \E f : Spelled(ks, m, f)}
<1>1. L \in Nat /\ \A n \in 1 .. L : ks[n] \in DOMAIN Bytes \cup DOMAIN Encoding
  BY TypingAssumption
<1>2. \A n \in 1 .. L : Spelling(ks[n]) \subseteq Written
  <2> TAKE n \in 1 .. L
  <2>1. CASE ks[n] \in DOMAIN Bytes
    BY <2>1, TypingAssumption DEF Spelling
  <2>2. CASE ks[n] \notin DOMAIN Bytes
    <3>1. ks[n] \in DOMAIN Encoding
      BY <1>1, <2>2
    <3>2. Encoding[ks[n]] \subseteq Written
      BY <3>1, TypingAssumption
    <3> QED
      BY <2>2, <3>2 DEF Spelling
  <2> QED
    BY <2>1, <2>2
<1>3. 0 \in A
  <2> DEFINE f == [n \in 0 .. 0 |-> {<< >>}]
             body(n) == IF n = 0 THEN {<< >>} ELSE Continued(f[n - 1], Spelling(ks[n]))
  <2>1. \A n \in 0 .. 0 : n = 0
    OBVIOUS
  <2>2. f = [n \in 0 .. 0 |-> body(n)]
    BY <2>1
  <2> HIDE DEF f
  <2>3. Spelled(ks, 0, f)
    BY <2>2 DEF Spelled
  <2> QED
    BY <1>1, <2>3
<1>4. ASSUME NEW m \in 0 .. L - 1, m \in A PROVE m + 1 \in A
  <2>1. PICK f : Spelled(ks, m, f)
    BY <1>4
  <2>2. m \in Nat /\ m + 1 \in 0 .. L
    BY <1>1
  <2> HIDE DEF L
  <2>3. f = [n \in 0 .. m |-> IF n = 0 THEN {<< >>} ELSE Continued(f[n - 1], Spelling(ks[n]))]
    BY <2>1 DEF Spelled
  <2> DEFINE g == [n \in 0 .. m + 1 |-> IF n = 0 THEN {<< >>} ELSE Continued(f[n - 1], Spelling(ks[n]))]
  <2>4. \A n \in 0 .. m : g[n] = f[n]
    <3> TAKE n \in 0 .. m
    <3>1. n \in 0 .. m + 1
      BY <2>2
    <3>2. f[n] = IF n = 0 THEN {<< >>} ELSE Continued(f[n - 1], Spelling(ks[n]))
      BY <2>3
    <3> QED
      BY <3>1, <3>2
  <2>5. ASSUME NEW n \in 0 .. m + 1
        PROVE  g[n] = IF n = 0 THEN {<< >>} ELSE Continued(g[n - 1], Spelling(ks[n]))
    <3>1. n # 0 => n - 1 \in 0 .. m
      BY <2>2
    <3> QED
      BY <2>4, <3>1
  <2>6. g = [n \in 0 .. m + 1 |-> g[n]]
    OBVIOUS
  <2> HIDE DEF g
  <2>7. g = [n \in 0 .. m + 1 |-> IF n = 0 THEN {<< >>} ELSE Continued(g[n - 1], Spelling(ks[n]))]
    BY <2>5, <2>6
  <2>8. Spelled(ks, m + 1, g)
    BY <2>7 DEF Spelled
  <2> QED
    BY <2>2, <2>8 DEF L
<1>5. \E f : Spelled(ks, L, f)
  <2>1. \A m \in 0 .. L : m \in A
    <3> HIDE DEF L, A
    <3> QED
      BY <1>1, <1>3, <1>4, Counted
  <2>2. L \in 0 .. L
    BY <1>1
  <2>3. L \in A
    BY <2>1, <2>2
  <2> QED
    BY <2>3
<1> DEFINE h == CHOOSE f : Spelled(ks, L, f)
<1>6. Spelled(ks, L, h)
  BY <1>5
<1>7. Spellings(ks) = h[L]
  BY DEF Spellings, Spelled, Continued
<1> HIDE DEF h
<1> DEFINE B == {m \in 0 .. L : h[m] \subseteq Written}
<1>8. h = [n \in 0 .. L |-> IF n = 0 THEN {<< >>} ELSE Continued(h[n - 1], Spelling(ks[n]))]
  BY <1>6 DEF Spelled
<1>9. 0 \in B
  <2>1. 0 \in 0 .. L
    BY <1>1
  <2>2. h[0] = {<< >>}
    BY <1>8, <2>1
  <2> QED
    BY <2>1, <2>2, Ends
<1>10. ASSUME NEW m \in 0 .. L - 1, m \in B PROVE m + 1 \in B
  <2> DEFINE k == m + 1
  <2>1. k \in 0 .. L /\ k \in 1 .. L /\ k # 0 /\ k - 1 = m
    BY <1>1
  <2> HIDE DEF k
  <2>2. h[k] = Continued(h[m], Spelling(ks[k]))
    BY <1>8, <2>1
  <2>3. h[m] \subseteq Written /\ Spelling(ks[k]) \subseteq Written
    BY <1>2, <1>10, <2>1
  <2>4. \A s \in h[m], b \in Spelling(ks[k]) : s \o b \in Written
    BY <2>3, Joined
  <2>5. Continued(h[m], Spelling(ks[k])) \subseteq Written
    <3> SUFFICES ASSUME NEW x \in Continued(h[m], Spelling(ks[k])) PROVE x \in Written
      OBVIOUS
    <3>1. PICK s \in h[m], b \in Spelling(ks[k]) : x = s \o b
      BY DEF Continued
    <3> QED
      BY <2>4, <3>1
  <2>6. k \in B
    BY <2>1, <2>2, <2>5
  <2> QED
    BY <2>6 DEF k
<1>11. L \in B
  <2>1. \A m \in 0 .. L : m \in B
    <3> HIDE DEF L, B
    <3> QED
      BY <1>1, <1>9, <1>10, Counted
  <2>2. L \in 0 .. L
    BY <1>1
  <2> QED
    BY <2>1, <2>2
<1> QED
  BY <1>7, <1>11

\* f has the editor after the first lines of past, for every number of lines.
Entered(past, m, f) ==
  f = [n \in 0 .. m |-> IF n = 0 THEN nexs_line_init ELSE nexs_line_add_history(f[n - 1], past[n])]

\* An editor with the lines that were entered before.
LEMMA Experienced ==
  ASSUME NEW past \in Pasts
  PROVE  Remembering(past) \in Editors
<1> DEFINE L == Len(past)
           A == {m \in 0 .. L : \E f : Entered(past, m, f)}
<1>1. L \in Nat /\ \A n \in 1 .. L : past[n] \in Written
  BY TypingAssumption
<1>2. 0 \in A
  <2> DEFINE f == [n \in 0 .. 0 |-> nexs_line_init]
             body(n) == IF n = 0 THEN nexs_line_init ELSE nexs_line_add_history(f[n - 1], past[n])
  <2>1. \A n \in 0 .. 0 : n = 0
    OBVIOUS
  <2>2. f = [n \in 0 .. 0 |-> body(n)]
    BY <2>1
  <2> HIDE DEF f
  <2>3. Entered(past, 0, f)
    BY <2>2 DEF Entered
  <2> QED
    BY <1>1, <2>3
<1>3. ASSUME NEW m \in 0 .. L - 1, m \in A PROVE m + 1 \in A
  <2>1. PICK f : Entered(past, m, f)
    BY <1>3
  <2>2. m \in Nat /\ m + 1 \in 0 .. L
    BY <1>1
  <2> HIDE DEF L
  <2>3. f = [n \in 0 .. m |-> IF n = 0 THEN nexs_line_init
                              ELSE nexs_line_add_history(f[n - 1], past[n])]
    BY <2>1 DEF Entered
  <2> DEFINE g == [n \in 0 .. m + 1 |-> IF n = 0 THEN nexs_line_init
                                        ELSE nexs_line_add_history(f[n - 1], past[n])]
  <2>4. \A n \in 0 .. m : g[n] = f[n]
    <3> TAKE n \in 0 .. m
    <3>1. n \in 0 .. m + 1
      BY <2>2
    <3>2. f[n] = IF n = 0 THEN nexs_line_init ELSE nexs_line_add_history(f[n - 1], past[n])
      BY <2>3
    <3> QED
      BY <3>1, <3>2
  <2>5. ASSUME NEW n \in 0 .. m + 1
        PROVE  g[n] = IF n = 0 THEN nexs_line_init ELSE nexs_line_add_history(g[n - 1], past[n])
    <3>1. n # 0 => n - 1 \in 0 .. m
      BY <2>2
    <3> QED
      BY <2>4, <3>1
  <2>6. g = [n \in 0 .. m + 1 |-> g[n]]
    OBVIOUS
  <2> HIDE DEF g
  <2>7. Entered(past, m + 1, g)
    BY <2>5, <2>6 DEF Entered
  <2> QED
    BY <2>2, <2>7 DEF L
<1>4. \E f : Entered(past, L, f)
  <2>1. \A m \in 0 .. L : m \in A
    <3> HIDE DEF L, A
    <3> QED
      BY <1>1, <1>2, <1>3, Counted
  <2>2. L \in 0 .. L
    BY <1>1
  <2>3. L \in A
    BY <2>1, <2>2
  <2> QED
    BY <2>3
<1> DEFINE h == CHOOSE f : Entered(past, L, f)
<1>5. Entered(past, L, h)
  BY <1>4
<1>6. Remembering(past) = h[L]
  BY DEF Remembering, Entered
<1> HIDE DEF h
<1> DEFINE B == {m \in 0 .. L : h[m] \in Editors}
<1>7. \A n \in 0 .. L : h[n] = IF n = 0 THEN nexs_line_init
                               ELSE nexs_line_add_history(h[n - 1], past[n])
  BY <1>5 DEF Entered
<1>8. 0 \in B
  <2>1. NEXS_LINE_HISTORY \in Nat \ {0} /\ << >> \in Written
    BY TypingAssumption, Ends
  <2>2. nexs_line_init \in Editors
    <3>1. 0 \in 0 .. NEXS_LINE_HISTORY - 1 /\ -1 \in -1 .. NEXS_LINE_HISTORY - 1
          /\ 0 \in 0 .. NEXS_LINE_HISTORY
      BY <2>1
    <3> QED
      BY <2>1, <3>1 DEF nexs_line_init, Editors
  <2>3. 0 \in 0 .. L
    BY <1>1
  <2> QED
    BY <1>7, <2>2, <2>3
<1>9. ASSUME NEW m \in 0 .. L - 1, m \in B PROVE m + 1 \in B
  <2> DEFINE k == m + 1
  <2>1. k \in 0 .. L /\ k \in 1 .. L /\ k # 0 /\ k - 1 = m
    BY <1>1
  <2> HIDE DEF k
  <2>2. h[k] = nexs_line_add_history(h[m], past[k])
    BY <1>7, <2>1
  <2>3. h[m] \in Editors /\ past[k] \in Written
    BY <1>1, <1>9, <2>1
  <2>4. nexs_line_add_history(h[m], past[k]) \in Editors
    BY <2>3, Remembered
  <2>5. k \in B
    BY <2>1, <2>2, <2>4
  <2> QED
    BY <2>5 DEF k
<1>10. L \in B
  <2>1. \A m \in 0 .. L : m \in B
    <3> HIDE DEF L, B
    <3> QED
      BY <1>1, <1>8, <1>9, Counted
  <2>2. L \in 0 .. L
    BY <1>1
  <2> QED
    BY <2>1, <2>2
<1> QED
  BY <1>6, <1>10

\* A line without the blanks around it has whole characters.
LEMMA TrimmedWhole ==
  ASSUME NEW s \in Written
  PROVE  nexs_trim(s) \in Written
<1> DEFINE inked == {i \in DOMAIN s : s[i] # Blank}
           from  == First(inked)
           to    == Final(inked)
<1>1. s \in ByteStrings /\ Len(s) \in Nat /\ DOMAIN s = 1 .. Len(s) /\ Apart(s, Len(s))
  BY Ends, BytesIn
<1>2. CASE inked = {}
  BY <1>2, Ends DEF nexs_trim
<1>3. CASE inked # {}
  <2>1. inked \in SUBSET Nat /\ inked \in SUBSET (0 .. Len(s))
    BY <1>1
  <2>2. from \in inked /\ to \in inked /\ (\A j \in inked : j <= to /\ from <= j)
    <3> HIDE DEF inked
    <3> QED
      BY <1>1, <1>3, <2>1, FirstIn, FinalIn
  <2>3. from \in 1 .. Len(s) /\ to \in 1 .. Len(s) /\ from <= to
    BY <1>1, <2>2
  <2>4. \A i \in DOMAIN s : i > to => s[i] = Blank
    BY <1>1, <2>2, <2>3
  <2>5. nexs_trim(s) = SubSeq(s, from, to)
    BY <1>3 DEF nexs_trim
  <2> HIDE DEF from, to, inked
  <2>6. Apart(s, to)
    <3>1. ASSUME to # Len(s) PROVE Apart(s, to)
      <4> DEFINE k == to + 1
      <4>1. k \in 1 .. Len(s) /\ k > to /\ k - 1 = to
        <5>1. to \in Nat /\ Len(s) \in Nat /\ to < Len(s)
          <6>1. Len(s) \in Nat
            BY <1>1
          <6>2. to \in 1 .. Len(s)
            BY <2>3
          <6> QED
            BY <3>1, <6>1, <6>2
        <5> QED
          BY <5>1
      <4> HIDE DEF k
      <4>2. s[k] = Blank
        BY <1>1, <2>4, <4>1
      <4>3. Apart(s, k - 1)
        BY <4>1, <4>2, BlankApart
      <4> QED
        BY <4>1, <4>3
    <3> QED
      BY <1>1, <3>1
  <2> DEFINE p == from - 1
  <2>7. p \in Nat /\ p <= to /\ p + 1 = from
    BY <1>1, <2>3
  <2> HIDE DEF p
  <2>8. SubSeq(s, p + 1, to) \in Written
    BY <2>6, <2>7, WholePart
  <2> QED
    BY <2>5, <2>7, <2>8
<1> QED
  BY <1>2, <1>3

\* A new line.
LEMMA Begun ==
  ASSUME NEW e \in Editors
  PROVE  OnScreen(Begin(e))
<1> DEFINE f == [e EXCEPT !.buf = << >>, !.pos = 0, !.hist_nav = -1]
<1>1. << >> \in Written /\ Apart(<< >>, 0) /\ -1 \in -1 .. NEXS_LINE_HISTORY - 1
  <2>1. NEXS_LINE_HISTORY \in Nat \ {0}
    BY TypingAssumption
  <2> QED
    BY <2>1, Ends
<1>2. f \in Editors /\ f.buf = << >> /\ f.pos = 0
  BY <1>1 DEF Editors
<1>3. Begin(e) = nexs_line_render(f)
  BY DEF Begin
<1> HIDE DEF f
<1>4. Between(f)
  BY <1>1, <1>2 DEF Between
<1> QED
  BY <1>3, <1>4, Rendered

\* Remembering a line moves no cursor.
LEMMA StillOnScreen ==
  ASSUME NEW e, OnScreen(e), NEW t \in Written
  PROVE  OnScreen(nexs_line_add_history(e, t))
<1> DEFINE f == nexs_line_add_history(e, t)
<1>1. e \in Editors
  BY DEF OnScreen, Between
<1>2. f \in Editors /\ f.buf = e.buf /\ f.pos = e.pos /\ f.col = e.col
  BY <1>1, Remembered
<1> HIDE DEF f
<1>3. OnScreen(f)
  BY <1>2 DEF OnScreen, Between
<1> QED
  BY <1>3 DEF f

\* At the first prompt.
LEMMA InitCursor == Init => OnScreen(le)
<1> SUFFICES ASSUME Init
             PROVE  OnScreen(le)
  OBVIOUS
<1>1. PICK past \in Pasts : le = Begin(Remembering(past))
  BY DEF Init
<1>2. Remembering(past) \in Editors
  BY Experienced
<1> QED
  BY <1>1, <1>2, Begun

\* A copy that does not end inside a character is a text again.
LEMMA CopiedWhole ==
  ASSUME NEW s \in Written, Whole(Copied(s))
  PROVE  Copied(s) \in Written
<1>1. s \in ByteStrings
  BY DEF Written, ByteStrings
<1>2. Len(s) \in Nat
  BY <1>1, BytesIn
<1> DEFINE n == IF Len(s) < LINE_SIZE THEN Len(s) ELSE LINE_SIZE - 1
<1>3. n \in 0 .. Len(s) /\ 0 <= n
  BY <1>2, TypingAssumption
<1> HIDE DEF n
<1>4. SubSeq(s, 0 + 1, n) \in ByteStrings
  <2>1. 0 \in Nat
    OBVIOUS
  <2> QED
    BY <1>1, <1>3, <2>1, PartOf
<1>5. SubSeq(s, 1, n) \in ByteStrings
  <2>1. 0 + 1 = 1
    OBVIOUS
  <2> QED
    BY <1>4, <2>1
<1>6. Copied(s) = SubSeq(s, 1, n)
  BY DEF Copied, n
<1> QED
  BY <1>5, <1>6 DEF Written, ByteStrings

\* Bursts, entered lines and prompts keep the cursors together.
LEMMA NextCursor == OnScreen(le) /\ [Next]_vars => OnScreen(le)'
<1> SUFFICES ASSUME OnScreen(le), [Next]_vars
             PROVE  OnScreen(le')
  BY DEF OnScreen, Between
<1>1. CASE Edit
  <2> DEFINE Left(r) == \/ le' = r.le
                        \/ le' = Begin(r.le)
                        \/ /\ Whole(Copied(r.le.buf))
                           /\ le' = nexs_line_add_history(r.le, nexs_trim(Copied(r.le.buf)))
  <2>0. PICK ks \in Bursts : \E in \in Spellings(ks) : Left(nexs_line_read(le, in))
    BY <1>1 DEF Edit
  <2>1. PICK in \in Spellings(ks) : Left(nexs_line_read(le, in))
    BY <2>0
  <2> DEFINE r == nexs_line_read(le, in)
  <2>2. in \in Written
    BY TypedWhole
  <2>3. Reading(r)
    BY <2>2, BurstRead
  <2>4. \/ le' = r.le \/ le' = Begin(r.le)
        \/ /\ Whole(Copied(r.le.buf))
           /\ le' = nexs_line_add_history(r.le, nexs_trim(Copied(r.le.buf)))
    BY <2>1
  <2> HIDE DEF r
  <2>5. OnScreen(r.le) /\ r.le \in Editors /\ r.le.buf \in Written
    BY <2>3 DEF Reading, OnScreen, Between, Editors
  <2>6. OnScreen(Begin(r.le))
    BY <2>5, Begun
  <2>7. Whole(Copied(r.le.buf)) => OnScreen(nexs_line_add_history(r.le, nexs_trim(Copied(r.le.buf))))
    <3> SUFFICES ASSUME Whole(Copied(r.le.buf))
                 PROVE  OnScreen(nexs_line_add_history(r.le, nexs_trim(Copied(r.le.buf))))
      OBVIOUS
    <3>1. nexs_trim(Copied(r.le.buf)) \in Written
      BY <2>5, CopiedWhole, TrimmedWhole
    <3> QED
      BY <2>5, <3>1, StillOnScreen
  <2> QED
    BY <2>4, <2>5, <2>6, <2>7
<1>2. CASE Command
  BY <1>2 DEF Command
<1>3. CASE Prompt
  <2>1. le' = Begin(le) /\ le \in Editors
    BY <1>3 DEF Prompt, OnScreen, Between
  <2> QED
    BY <2>1, Begun
<1>4. CASE UNCHANGED vars
  BY <1>4 DEF vars
<1> QED
  BY <1>1, <1>2, <1>3, <1>4 DEF Next

\* Wherever the keys took it, over wide characters, blanks and words, through
\* the history, and with characters cut in two by an escape sequence: the
\* terminal's cursor is before the character that the next key will act on.
THEOREM CursorIsOnScreen == Spec => []CursorOnScreen
<1>1. OnScreen(le) => CursorOnScreen
  BY DEF OnScreen, CursorOnScreen
<1> QED
  BY <1>1, InitCursor, NextCursor, PTL DEF Spec

-----------------------------------------------------------------------------
(* The terminal *)

Modes == {"raw", "cooked"}

\* The terminal as the line editor and rawon keep it.
TTYs == [attr : Modes, line_raw : BOOLEAN, line_orig : Modes, sys_raw : BOOLEAN, sys_orig : Modes]

\* What the commands so far have asked for.
Asked(t) == IF t.sys_raw THEN "raw" ELSE "cooked"

\* rawon has kept the cooked mode, since it never runs while a line is read.
KeptCooked(t) == t.sys_raw => t.sys_orig = "cooked"

\* While a line is read, the line editor has kept what was asked for.
InLine(t)  == t.line_raw /\ t.attr = "raw" /\ t.line_orig = Asked(t)
OffLine(t) == ~ t.line_raw /\ t.attr = Asked(t)

\* The inductive invariant.
TtyInv ==
  /\ tty \in TTYs /\ KeptCooked(tty)
  /\ mode = "editing" => InLine(tty)
  /\ mode # "editing" => OffLine(tty)

\* nexs_line_raw_on, called on a terminal that is as asked for, keeps that mode.
LEMMA RawOn ==
  ASSUME NEW t \in TTYs, KeptCooked(t), OffLine(t)
  PROVE  /\ nexs_line_raw_on(t) \in TTYs /\ KeptCooked(nexs_line_raw_on(t))
         /\ InLine(nexs_line_raw_on(t))
BY DEF TTYs, Modes, KeptCooked, InLine, OffLine, Asked, nexs_line_raw_on

\* nexs_line_raw_off gives back the mode that was kept.
LEMMA RawOff ==
  ASSUME NEW t \in TTYs, KeptCooked(t), InLine(t)
  PROVE  /\ nexs_line_raw_off(t) \in TTYs /\ KeptCooked(nexs_line_raw_off(t))
         /\ OffLine(nexs_line_raw_off(t))
BY DEF TTYs, Modes, KeptCooked, InLine, OffLine, Asked, nexs_line_raw_off

\* rawon and rawoff, by a command, leave the terminal as it asked last.
LEMMA CommandRaw ==
  ASSUME NEW t \in TTYs, KeptCooked(t), OffLine(t), NEW u \in {bi_rawon(t), bi_rawoff(t)}
  PROVE  u \in TTYs /\ KeptCooked(u) /\ OffLine(u)
<1>1. CASE u = bi_rawon(t)
  BY <1>1 DEF TTYs, Modes, KeptCooked, OffLine, Asked, bi_rawon
<1>2. CASE u = bi_rawoff(t)
  BY <1>2 DEF TTYs, Modes, KeptCooked, OffLine, Asked, bi_rawoff
<1> QED
  BY <1>1, <1>2

\* The first prompt puts a cooked terminal into raw mode.
LEMMA InitTty == Init => TtyInv
<1> SUFFICES ASSUME Init
             PROVE  TtyInv
  OBVIOUS
<1> DEFINE t == [attr |-> "cooked", line_raw |-> FALSE, line_orig |-> "cooked",
                 sys_raw |-> FALSE, sys_orig |-> "cooked"]
<1>1. t \in TTYs /\ KeptCooked(t) /\ OffLine(t)
  BY DEF TTYs, Modes, KeptCooked, OffLine, Asked
<1>2. tty = nexs_line_raw_on(t) /\ mode = "editing"
  BY DEF Init
<1> HIDE DEF t
<1> QED
  BY <1>1, <1>2, RawOn DEF TtyInv

\* Every step leaves the two flags and the two kept modes in agreement.
LEMMA NextTty == TtyInv /\ [Next]_vars => TtyInv'
<1> SUFFICES ASSUME TtyInv, [Next]_vars
             PROVE  TtyInv'
  OBVIOUS
<1>1. CASE Edit
  <2> DEFINE off == nexs_line_raw_off(tty)
  <2>1. tty \in TTYs /\ KeptCooked(tty) /\ InLine(tty) /\ mode = "editing"
    BY <1>1 DEF TtyInv, Edit
  <2>2. \/ tty' = tty /\ mode' = mode
        \/ tty' = off /\ mode' = "over"
        \/ tty' = nexs_line_raw_on(off) /\ mode' = mode
        \/ tty' = off /\ mode' \in {"over", "running", "torn"}
    BY <1>1 DEF Edit
  <2>3. off \in TTYs /\ KeptCooked(off) /\ OffLine(off)
    BY <2>1, RawOff
  <2> HIDE DEF off
  <2>4. nexs_line_raw_on(off) \in TTYs /\ KeptCooked(nexs_line_raw_on(off)) /\ InLine(nexs_line_raw_on(off))
    BY <2>3, RawOn
  <2> QED
    BY <2>1, <2>2, <2>3, <2>4 DEF TtyInv
<1>2. CASE Command
  <2>1. /\ tty \in TTYs /\ KeptCooked(tty) /\ OffLine(tty)
        /\ mode' # "editing" /\ tty' \in {bi_rawon(tty), bi_rawoff(tty)}
    BY <1>2 DEF TtyInv, Command
  <2>2. tty' \in TTYs /\ KeptCooked(tty') /\ OffLine(tty')
    BY <2>1, CommandRaw
  <2> QED
    BY <2>1, <2>2 DEF TtyInv
<1>3. CASE Prompt
  <2>1. /\ tty \in TTYs /\ KeptCooked(tty) /\ OffLine(tty)
        /\ mode' = "editing" /\ tty' = nexs_line_raw_on(tty)
    BY <1>3 DEF TtyInv, Prompt
  <2>2. tty' \in TTYs /\ KeptCooked(tty') /\ InLine(tty')
    BY <2>1, RawOn
  <2> QED
    BY <2>1, <2>2 DEF TtyInv
<1>4. CASE UNCHANGED vars
  BY <1>4 DEF TtyInv, vars
<1> QED
  BY <1>1, <1>2, <1>3, <1>4 DEF Next

\* Whoever turned raw mode on first: a line is read in raw mode, and a command,
\* or the shell at the end, finds the terminal as the commands left it.
THEOREM TerminalIsGivenBack == Spec => []TerminalGivenBack
<1>1. TtyInv => TerminalGivenBack
  BY DEF TtyInv, TerminalGivenBack, InLine, OffLine, Asked
<1> QED
  BY <1>1, InitTty, NextTty, PTL DEF Spec

=============================================================================
