--------------------------- MODULE SequenceLemmas ---------------------------
(***************************************************************************)
(* Sequences, and sequences joined to one: of those a line of a file and   *)
(* the text of a program are made.                                         *)
(***************************************************************************)
EXTENDS SequencesExt, Integers, TLAPS, SequenceTheorems, WellFoundedInduction

(* The order of the natural numbers as a well-founded set of pairs.        *)
LEMMA NatOrder ==
    \E R : IsWellFoundedOn(R, Nat) /\ \A m, n \in Nat : m < n => <<m, n>> \in R
<1>1. \A m, n \in Nat : m < n => <<m, n>> \in OpToRel(<, Nat)
  BY DEF OpToRel
<1> QED
  BY <1>1, NatLessThanWellFounded

LEMMA MinProperties ==
    ASSUME NEW S \in SUBSET Nat, S # {}
    PROVE  Min(S) \in S /\ \A m \in S : Min(S) <= m
<1>1. PICK R : IsWellFoundedOn(R, Nat) /\ \A m, n \in Nat : m < n => <<m, n>> \in R
  BY NatOrder
<1> IsWellFoundedOn(R, Nat)
  BY <1>1
<1>2. PICK n \in S : \A m \in S : ~(<<m, n>> \in R)
  BY WFMin
<1>3. ASSUME NEW m \in S PROVE n <= m
  <2>1. n \in Nat /\ m \in Nat /\ ~(m < n)
    BY <1>1, <1>2
  <2> QED
    BY <2>1
<1> QED
  BY <1>3 DEF Min

(* Induction, for sets of numbers.                                         *)
LEMMA Induction ==
    ASSUME NEW T, 0 \in T, \A n \in Nat : n \in T => n + 1 \in T
    PROVE  \A n \in Nat : n \in T
<1> SUFFICES ASSUME Nat \ T # {} PROVE FALSE
  OBVIOUS
<1> DEFINE Bad == Nat \ T
<1>1. Bad \in SUBSET Nat /\ Bad # {}
  OBVIOUS
<1> HIDE DEF Bad
<1>2. PICK n : n = Min(Bad) /\ n \in Bad /\ \A m \in Bad : n <= m
  BY <1>1, MinProperties
<1>3. n \in Nat /\ n # 0 /\ n - 1 \in Nat /\ ~(n <= n - 1) /\ (n - 1) + 1 = n
  BY <1>2 DEF Bad
<1>4. n - 1 \in T
  BY <1>2, <1>3 DEF Bad
<1> QED
  BY <1>2, <1>3, <1>4 DEF Bad

(* A sequence as a function, and back.                                     *)
LEMMA ConcatFacts ==
    ASSUME NEW S, NEW s \in Seq(S), NEW t \in Seq(S)
    PROVE  /\ s \o t \in Seq(S) /\ Len(s \o t) = Len(s) + Len(t)
           /\ Len(s) \in Nat /\ Len(t) \in Nat
           /\ \A k \in 1 .. Len(s) : (s \o t)[k] = s[k]
           /\ \A k \in 1 .. Len(t) : (s \o t)[Len(s) + k] = t[k]
<1>1. Len(s) \in Nat /\ Len(t) \in Nat
  BY LenProperties
<1>2. /\ s \o t \in Seq(S) /\ Len(s \o t) = Len(s) + Len(t)
      /\ \A k \in 1 .. Len(s) + Len(t) :
            (s \o t)[k] = IF k <= Len(s) THEN s[k] ELSE t[k - Len(s)]
  BY ConcatProperties
<1>3. \A k \in 1 .. Len(s) : k \in 1 .. Len(s) + Len(t) /\ k <= Len(s)
  BY <1>1
<1>4. \A k \in 1 .. Len(t) : /\ Len(s) + k \in 1 .. Len(s) + Len(t)
                             /\ ~(Len(s) + k <= Len(s)) /\ Len(s) + k - Len(s) = k
  BY <1>1
<1> QED
  BY <1>1, <1>2, <1>3, <1>4

LEMMA FunctionIsSeq ==
    ASSUME NEW S, NEW n \in Nat, NEW f \in [1 .. n -> S]
    PROVE  f \in Seq(S) /\ Len(f) = n /\ DOMAIN f = 1 .. n
<1>1. f \in Seq(S)
  BY SeqDef, Zenon
<1> QED
  BY <1>1, LenProperties

LEMMA Prepended ==
    ASSUME NEW S, NEW e \in S, NEW s \in Seq(S), NEW c, c = <<e>> \o s
    PROVE  /\ c \in Seq(S) /\ Len(c) = Len(s) + 1 /\ Len(s) \in Nat /\ c[1] = e
           /\ \A k \in 1 .. Len(s) : c[1 + k] = s[k]
<1> DEFINE mark == <<e>>
<1>1. mark \in Seq(S) /\ Len(mark) = 1 /\ mark[1] = e
  OBVIOUS
<1> HIDE DEF mark
<1>2. /\ c \in Seq(S) /\ Len(c) = Len(mark) + Len(s) /\ Len(s) \in Nat
      /\ \A k \in 1 .. Len(mark) : c[k] = mark[k]
      /\ \A k \in 1 .. Len(s) : c[Len(mark) + k] = s[k]
  <2>1. c = mark \o s
    BY DEF mark
  <2> QED
    BY <1>1, <2>1, ConcatFacts
<1> QED
  BY <1>1, <1>2

LEMMA Ended ==
    ASSUME NEW S, NEW s \in Seq(S), NEW e \in S, NEW c, c = s \o <<e>>
    PROVE  /\ c \in Seq(S) /\ Len(c) = Len(s) + 1 /\ Len(s) \in Nat /\ c[Len(s) + 1] = e
           /\ \A k \in 1 .. Len(s) : c[k] = s[k]
<1> DEFINE mark == <<e>>
<1>1. mark \in Seq(S) /\ Len(mark) = 1 /\ mark[1] = e
  OBVIOUS
<1> HIDE DEF mark
<1>2. /\ c \in Seq(S) /\ Len(c) = Len(s) + Len(mark) /\ Len(s) \in Nat
      /\ \A k \in 1 .. Len(s) : c[k] = s[k]
      /\ \A k \in 1 .. Len(mark) : c[Len(s) + k] = mark[k]
  <2>1. c = s \o mark
    BY DEF mark
  <2> QED
    BY <1>1, <2>1, ConcatFacts
<1> QED
  BY <1>1, <1>2

(* The function FlattenSeq defines: what it has joined up to each element. *)
Joins(q, n, g) ==
    g = [k \in 1 .. n |-> IF k = 1 THEN q[k] ELSE g[k - 1] \o q[k]]

LEMMA JoinsExists ==
    ASSUME NEW q
    PROVE  \A n \in Nat : \E g : Joins(q, n, g)
<1> DEFINE T == {n \in Nat : \E g : Joins(q, n, g)}
<1>1. 0 \in T
  <2> DEFINE none == [k \in {} |-> 0]
  <2>1. none = [k \in 1 .. 0 |-> IF k = 1 THEN q[k] ELSE none[k - 1] \o q[k]]
    <3>1. 1 .. 0 = {}
      OBVIOUS
    <3> QED
      BY <3>1
  <2> QED
    BY <2>1 DEF Joins
<1>2. ASSUME NEW n \in Nat, n \in T PROVE n + 1 \in T
  <2>1. PICK g : Joins(q, n, g)
    BY <1>2
  <2> DEFINE h == [k \in 1 .. n + 1 |-> IF k \in 1 .. n THEN g[k]
                                        ELSE IF k = 1 THEN q[k] ELSE g[k - 1] \o q[k]]
  <2>2. \A k \in 1 .. n : h[k] = g[k] /\ k \in 1 .. n + 1
    OBVIOUS
  <2>3. \A k \in 1 .. n + 1 : k # 1 => k - 1 \in 1 .. n
    OBVIOUS
  <2>4. \A k \in 1 .. n + 1 : h[k] = IF k = 1 THEN q[k] ELSE h[k - 1] \o q[k]
    <3> TAKE k \in 1 .. n + 1
    <3>1. CASE k \in 1 .. n
      <4>1. g[k] = IF k = 1 THEN q[k] ELSE g[k - 1] \o q[k]
        BY <2>1, <3>1 DEF Joins
      <4> QED
        BY <2>2, <2>3, <3>1, <4>1
    <3>2. CASE k \notin 1 .. n
      <4>1. h[k] = IF k = 1 THEN q[k] ELSE g[k - 1] \o q[k]
        BY <3>2
      <4> QED
        BY <2>2, <2>3, <4>1
    <3> QED
      BY <3>1, <3>2
  <2>5. h = [k \in 1 .. n + 1 |-> h[k]]
    OBVIOUS
  <2> HIDE DEF h
  <2>6. h = [k \in 1 .. n + 1 |-> IF k = 1 THEN q[k] ELSE h[k - 1] \o q[k]]
    BY <2>4, <2>5
  <2>7. Joins(q, n + 1, h)
    BY <2>6, Zenon DEF Joins
  <2> QED
    BY <2>7
<1> HIDE DEF T
<1>3. \A n \in Nat : n \in T
  BY <1>1, <1>2, Induction
<1> QED
  BY <1>3 DEF T

LEMMA FlattenJoins ==
    ASSUME NEW q, Len(q) \in Nat \ {0}
    PROVE  \E g : Joins(q, Len(q), g) /\ FlattenSeq(q) = g[Len(q)]
<1> DEFINE g[k \in 1 .. Len(q)] == IF k = 1 THEN q[k] ELSE g[k - 1] \o q[k]
<1>1. \E h : Joins(q, Len(q), h)
  BY JoinsExists
<1>2. Joins(q, Len(q), g)
  BY <1>1, Zenon DEF Joins, g
<1>3. FlattenSeq(q) = g[Len(q)]
  BY DEF FlattenSeq
<1> QED
  BY <1>2, <1>3

(* Where the elements of the joined sequences stand.                       *)
Places(S, q, n, g) ==
    /\ g[n] \in Seq(S)
    /\ n > 1 => g[n - 1] \in Seq(S) /\ Len(g[n]) = Len(g[n - 1]) + Len(q[n])
    /\ \A k \in 1 .. n : /\ g[k] \in Seq(S) /\ Len(g[k]) <= Len(g[n])
                         /\ \A j \in 1 .. Len(g[k]) : g[n][j] = g[k][j]
    /\ \A j \in 1 .. Len(q[n]) : g[n][Len(g[n]) - Len(q[n]) + j] = q[n][j]

LEMMA JoinsPlaces ==
    ASSUME NEW S, NEW q \in Seq(Seq(S)), NEW g, Joins(q, Len(q), g)
    PROVE  \A n \in 1 .. Len(q) : Places(S, q, n, g)
<1>1. Len(q) \in Nat /\ \A k \in 1 .. Len(q) : q[k] \in Seq(S) /\ Len(q[k]) \in Nat
  BY LenProperties, ElementOfSeq
<1>2. \A k \in 1 .. Len(q) : g[k] = IF k = 1 THEN q[k] ELSE g[k - 1] \o q[k]
  BY DEF Joins
<1> DEFINE T == {n \in Nat : n \in 1 .. Len(q) => Places(S, q, n, g)}
<1>3. 0 \in T
  OBVIOUS
<1>4. ASSUME NEW n \in Nat, n \in T PROVE n + 1 \in T
  <2> SUFFICES ASSUME n + 1 \in 1 .. Len(q) PROVE Places(S, q, n + 1, g)
    OBVIOUS
  <2>1. CASE n = 0
    <3>1. g[1] = q[1] /\ g[1] \in Seq(S) /\ Len(q[1]) \in Nat
      BY <1>1, <1>2, <2>1
    <3>2. Len(g[1]) - Len(q[1]) = 0 /\ \A j \in 1 .. Len(q[1]) : 0 + j = j
      BY <3>1
    <3>3. \A k \in 1 .. 1 : k = 1
      OBVIOUS
    <3>4. Places(S, q, 1, g)
      BY <3>1, <3>2, <3>3 DEF Places
    <3> QED
      BY <2>1, <3>4
  <2>2. CASE n # 0
    <3> DEFINE m == n + 1
    <3>1. /\ n \in 1 .. Len(q) /\ m \in 1 .. Len(q) /\ m # 1 /\ m > 1 /\ m - 1 = n
          /\ \A k \in 1 .. m : k = m \/ k \in 1 .. n
      BY <1>1, <2>2
    <3> HIDE DEF m
    <3>2. Places(S, q, n, g)
      BY <1>4, <3>1
    <3> DEFINE a == g[n]
               b == q[m]
               c == g[m]
    <3>3. a \in Seq(S) /\ b \in Seq(S) /\ c = a \o b
      <4>1. a \in Seq(S)
        BY <3>2 DEF Places
      <4>2. b \in Seq(S)
        BY <1>1, <3>1
      <4>3. c = a \o b
        BY <1>2, <3>1
      <4> QED
        BY <4>1, <4>2, <4>3
    <3> HIDE DEF a, b, c
    <3>4. /\ c \in Seq(S) /\ Len(c) = Len(a) + Len(b) /\ Len(a) \in Nat /\ Len(b) \in Nat
          /\ \A k \in 1 .. Len(a) : c[k] = a[k]
          /\ \A k \in 1 .. Len(b) : c[Len(a) + k] = b[k]
      BY <3>3, ConcatFacts
    <3>5. Len(c) - Len(b) = Len(a) /\ Len(a) <= Len(c) /\ Len(c) \in Nat
      BY <3>4
    <3>6. ASSUME NEW k \in 1 .. m
          PROVE  /\ g[k] \in Seq(S) /\ Len(g[k]) <= Len(c)
                 /\ \A j \in 1 .. Len(g[k]) : c[j] = g[k][j]
      <4>1. CASE k = m
        BY <3>4, <3>5, <4>1 DEF c
      <4>2. CASE k \in 1 .. n
        <5>1. /\ g[k] \in Seq(S) /\ Len(g[k]) <= Len(a)
              /\ \A j \in 1 .. Len(g[k]) : a[j] = g[k][j]
          BY <3>2, <4>2 DEF Places, a
        <5>2. Len(g[k]) \in Nat
          BY <5>1, LenProperties
        <5>3. Len(g[k]) <= Len(c) /\ \A j \in 1 .. Len(g[k]) : j \in 1 .. Len(a)
          BY <3>4, <3>5, <5>1, <5>2
        <5> QED
          BY <3>4, <5>1, <5>3
      <4> QED
        BY <3>1, <4>1, <4>2
    <3>7. /\ g[m] \in Seq(S) /\ g[m - 1] \in Seq(S) /\ Len(g[m]) = Len(g[m - 1]) + Len(q[m])
      BY <3>1, <3>3, <3>4 DEF a, b, c
    <3>8. \A j \in 1 .. Len(b) : c[Len(c) - Len(b) + j] = b[j]
      BY <3>4, <3>5
    <3>9. Places(S, q, m, g)
      BY <3>6, <3>7, <3>8, Zenon DEF Places, b, c
    <3> QED
      BY <3>9 DEF m
  <2> QED
    BY <2>1, <2>2
<1> HIDE DEF T
<1>5. \A n \in Nat : n \in T
  BY <1>3, <1>4, Induction
<1> QED
  BY <1>1, <1>5 DEF T

(* The places of the sequences that FlattenSeq joins: off says where each  *)
(* of them ends.                                                           *)
Spread(q, flat, off) ==
    /\ off \in [0 .. Len(q) -> Nat] /\ off[0] = 0 /\ off[Len(q)] = Len(flat)
    /\ \A n \in 1 .. Len(q) :
         /\ off[n] = off[n - 1] + Len(q[n]) /\ off[n] <= Len(flat)
         /\ \A j \in 1 .. Len(q[n]) : flat[off[n - 1] + j] = q[n][j]

LEMMA FlattenPlaces ==
    ASSUME NEW S, NEW q \in Seq(Seq(S)), q # <<>>, NEW flat, flat = FlattenSeq(q)
    PROVE  flat \in Seq(S) /\ \E off : Spread(q, flat, off)
<1> DEFINE N == Len(q)
<1>1. N \in Nat \ {0} /\ \A k \in 1 .. N : q[k] \in Seq(S) /\ Len(q[k]) \in Nat
  BY LenProperties, ElementOfSeq, EmptySeq
<1>2. PICK g : Joins(q, N, g) /\ flat = g[N]
  BY <1>1, FlattenJoins
<1>3. \A n \in 1 .. N : Places(S, q, n, g)
  BY <1>2, JoinsPlaces
<1>4. g[1] = q[1] /\ N \in 1 .. N /\ 1 \in 1 .. N
  BY <1>1, <1>2 DEF Joins
<1> HIDE DEF N
<1> DEFINE off == [n \in 0 .. N |-> IF n = 0 THEN 0 ELSE Len(g[n])]
<1>5. \A n \in 1 .. N : g[n] \in Seq(S) /\ Len(g[n]) \in Nat /\ off[n] = Len(g[n])
  <2> TAKE n \in 1 .. N
  <2>1. g[n] \in Seq(S)
    BY <1>3 DEF Places
  <2>2. n \in 0 .. N /\ n # 0
    BY <1>1
  <2> QED
    BY <2>1, <2>2, LenProperties
<1>6. off \in [0 .. N -> Nat] /\ off[0] = 0
  <2>1. \A n \in 0 .. N : n # 0 => n \in 1 .. N
    BY <1>1
  <2>2. 0 \in 0 .. N
    BY <1>1
  <2> QED
    BY <1>5, <2>1, <2>2
<1> HIDE DEF off
<1>7. ASSUME NEW n \in 1 .. N
      PROVE  /\ off[n] = off[n - 1] + Len(q[n]) /\ off[n] <= Len(flat)
             /\ \A j \in 1 .. Len(q[n]) : flat[off[n - 1] + j] = q[n][j]
  <2>1. off[n] = off[n - 1] + Len(q[n])
    <3>1. CASE n = 1
      BY <1>1, <1>4, <1>5, <1>6, <3>1
    <3>2. CASE n # 1
      <4>1. n - 1 \in 1 .. N /\ n > 1
        BY <1>1, <3>2
      <4> QED
        BY <1>3, <1>5, <4>1 DEF Places
    <3> QED
      BY <3>1, <3>2
  <2>2. /\ off[n] <= Len(flat) /\ off[n] = Len(g[n])
        /\ \A j \in 1 .. Len(g[n]) : flat[j] = g[n][j]
    <3>1. Places(S, q, N, g)
      BY <1>3, <1>4
    <3>2. /\ Len(g[n]) <= Len(g[N])
          /\ \A j \in 1 .. Len(g[n]) : g[N][j] = g[n][j]
      BY <3>1, Zenon DEF Places
    <3> QED
      BY <1>2, <1>5, <3>2
  <2>3. /\ off[n] \in Nat /\ off[n - 1] \in Nat /\ Len(q[n]) \in Nat
    <3>1. n - 1 \in 0 .. N
      BY <1>1
    <3> QED
      BY <1>1, <1>5, <1>6, <3>1
  <2>4. off[n] - Len(q[n]) = off[n - 1]
    BY <2>1, <2>3
  <2>5. \A j \in 1 .. Len(q[n]) : g[n][off[n - 1] + j] = q[n][j]
    <3>1. \A j \in 1 .. Len(q[n]) : g[n][Len(g[n]) - Len(q[n]) + j] = q[n][j]
      BY <1>3 DEF Places
    <3>2. Len(g[n]) - Len(q[n]) = off[n - 1]
      BY <2>2, <2>4
    <3> QED
      BY <3>1, <3>2
  <2>6. \A j \in 1 .. Len(q[n]) : off[n - 1] + j \in 1 .. off[n]
    BY <2>1, <2>3
  <2> QED
    BY <2>1, <2>2, <2>5, <2>6
<1>8. flat \in Seq(S) /\ off[N] = Len(flat)
  BY <1>2, <1>4, <1>5
<1>9. Spread(q, flat, off)
  BY <1>6, <1>7, <1>8 DEF N, Spread
<1> QED
  BY <1>8, <1>9

(* One more sequence at the end is joined at the end.                      *)
LEMMA FlattenAppend ==
    ASSUME NEW S, NEW q \in Seq(Seq(S)), NEW e \in Seq(S), NEW r, r = Append(q, e)
    PROVE  FlattenSeq(r) = FlattenSeq(q) \o e
<1> DEFINE n == Len(q)
<1>1. /\ n \in Nat /\ r \in Seq(Seq(S)) /\ Len(r) = n + 1 /\ r[n + 1] = e
      /\ \A k \in 1 .. n : r[k] = q[k]
  BY AppendProperties, LenProperties
<1>2. PICK h : Joins(r, n + 1, h) /\ FlattenSeq(r) = h[n + 1]
  <2>1. Len(r) \in Nat \ {0}
    BY <1>1
  <2> QED
    BY <1>1, <2>1, FlattenJoins
<1>3. \A k \in 1 .. n + 1 : h[k] = IF k = 1 THEN r[k] ELSE h[k - 1] \o r[k]
  BY <1>2 DEF Joins
<1>4. CASE q = <<>>
  <2>1. n = 0 /\ FlattenSeq(q) = <<>>
    BY <1>4 DEF FlattenSeq
  <2>2. 1 \in 1 .. n + 1 /\ n + 1 = 1
    BY <2>1
  <2>3. FlattenSeq(r) = e
    BY <1>1, <1>2, <1>3, <2>2
  <2> QED
    BY <2>1, <2>3, ConcatEmptySeq
<1>5. CASE q # <<>>
  <2>1. n \in Nat \ {0}
    BY <1>5, EmptySeq
  <2>2. PICK g : Joins(q, n, g) /\ FlattenSeq(q) = g[n]
    BY <2>1, FlattenJoins
  <2>3. \A k \in 1 .. n : g[k] = IF k = 1 THEN q[k] ELSE g[k - 1] \o q[k]
    BY <2>2 DEF Joins
  <2> HIDE DEF n
  <2> DEFINE T == {k \in Nat : k \in 1 .. n => h[k] = g[k]}
  <2>4. 0 \in T
    OBVIOUS
  <2>5. ASSUME NEW k \in Nat, k \in T PROVE k + 1 \in T
    <3> SUFFICES ASSUME k + 1 \in 1 .. n PROVE h[k + 1] = g[k + 1]
      OBVIOUS
    <3>1. PICK j : j = k + 1 /\ j \in 1 .. n /\ j \in 1 .. n + 1 /\ j - 1 = k
      BY <2>1
    <3>2. r[j] = q[j]
      BY <1>1, <3>1 DEF n
    <3>3. CASE j = 1
      BY <1>3, <2>3, <3>1, <3>2, <3>3
    <3>4. CASE j # 1
      <4>1. h[k] = g[k]
        BY <2>1, <2>5, <3>1, <3>4 DEF T
      <4>2. h[j] = h[k] \o r[j]
        BY <1>3, <3>1, <3>4
      <4>3. g[j] = g[k] \o q[j]
        BY <2>3, <3>1, <3>4
      <4> QED
        BY <3>1, <3>2, <4>1, <4>2, <4>3
    <3> QED
      BY <3>3, <3>4
  <2> HIDE DEF T
  <2>6. \A k \in Nat : k \in T
    BY <2>4, <2>5, Induction
  <2>7. h[n] = g[n]
    BY <2>1, <2>6 DEF T
  <2>8. h[n + 1] = h[n] \o e
    <3>1. PICK j : j = n + 1 /\ j \in 1 .. n + 1 /\ j # 1 /\ j - 1 = n
      BY <2>1
    <3>2. h[j] = h[n] \o r[j]
      BY <1>3, <3>1
    <3> QED
      BY <1>1, <3>1, <3>2 DEF n
  <2> QED
    BY <1>2, <2>2, <2>7, <2>8
<1> QED
  BY <1>4, <1>5

(* Together, short sequences are no longer than their number allows.       *)
LEMMA FlattenLength ==
    ASSUME NEW S, NEW q \in Seq(Seq(S)), NEW M \in Nat,
           \A k \in 1 .. Len(q) : Len(q[k]) <= M
    PROVE  Len(FlattenSeq(q)) \in Nat /\ Len(FlattenSeq(q)) <= Len(q) * M
<1>1. Len(q) \in Nat /\ \A k \in 1 .. Len(q) : Len(q[k]) \in Nat
  BY LenProperties, ElementOfSeq
<1>2. CASE q = <<>>
  BY <1>2 DEF FlattenSeq
<1>3. CASE q # <<>>
  <2>1. PICK flat : flat = FlattenSeq(q)
    OBVIOUS
  <2>2. flat \in Seq(S) /\ \E off : Spread(q, flat, off)
    BY <1>3, <2>1, FlattenPlaces
  <2>3. PICK off : Spread(q, flat, off)
    BY <2>2
  <2> DEFINE T == {n \in Nat : n <= Len(q) => off[n] <= n * M}
  <2>4. 0 \in T
    BY <2>3 DEF Spread
  <2>5. ASSUME NEW n \in Nat, n \in T PROVE n + 1 \in T
    <3> SUFFICES ASSUME n + 1 <= Len(q) PROVE off[n + 1] <= (n + 1) * M
      OBVIOUS
    <3>1. PICK m : m = n + 1 /\ m \in 1 .. Len(q) /\ m - 1 = n /\ m \in 0 .. Len(q) /\ n \in 0 .. Len(q)
      BY <1>1
    <3>2. off[m] = off[m - 1] + Len(q[m]) /\ off[m] \in Nat /\ off[n] \in Nat
      BY <2>3, <3>1 DEF Spread
    <3>3. off[n] <= n * M
      BY <1>1, <2>5
    <3>4. Len(q[m]) <= M /\ Len(q[m]) \in Nat
      BY <1>1, <3>1
    <3>5. (n + 1) * M = n * M + M
      OBVIOUS
    <3>6. off[m] <= n * M + M
      <4>1. PICK x, y, l, z : x = off[m] /\ y = off[n] /\ l = Len(q[m]) /\ z = n * M
        OBVIOUS
      <4>2. x \in Nat /\ y \in Nat /\ l \in Nat /\ z \in Nat
        BY <3>2, <3>4, <4>1
      <4>3. x = y + l /\ y <= z /\ l <= M
        BY <3>1, <3>2, <3>3, <3>4, <4>1
      <4>4. x <= z + M
        BY <4>2, <4>3
      <4> QED
        BY <4>1, <4>4
    <3> QED
      BY <3>1, <3>5, <3>6
  <2> HIDE DEF T
  <2>6. \A n \in Nat : n \in T
    BY <2>4, <2>5, Induction
  <2>7. off[Len(q)] <= Len(q) * M /\ off[Len(q)] = Len(flat)
    BY <1>1, <2>3, <2>6 DEF T, Spread
  <2> QED
    BY <2>1, <2>2, <2>7, LenProperties
<1> QED
  BY <1>2, <1>3
=============================================================================
