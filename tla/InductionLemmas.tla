-------------------------- MODULE InductionLemmas ---------------------------
(***************************************************************************)
(* What the proofs of several components need of the integers: a set of    *)
(* them that is bounded has a least and a greatest element, what holds of  *)
(* zero and of every successor holds of all, and a function defined by     *)
(* recursion on the number of steps exists and obeys its equation, and has *)
(* the values of another one as far as their steps agree.  And what an     *)
(* array is when one element of it is taken out, and what maps with some   *)
(* of the keys are.                                                        *)
(*                                                                         *)
(* Induction is stated over a set, {n \in Nat : P(n)} at its uses, so that *)
(* no operator is a parameter.                                             *)
(***************************************************************************)
EXTENDS Integers, Sequences, WellFoundedInduction, TLAPS

\* The naturals are well founded.
LEMMA LeastNatural ==
  ASSUME NEW S \in SUBSET Nat, S # {}
  PROVE  \E n \in S : \A k \in S : n <= k
<1>1. PICK n \in S : \A k \in S : ~(<<k, n>> \in OpToRel(<, Nat))
  BY WFMin, NatLessThanWellFounded
<1>2. ASSUME NEW k \in S PROVE n <= k
  <2>1. n \in Nat /\ k \in Nat
    OBVIOUS
  <2>2. (k < n) => <<k, n>> \in OpToRel(<, Nat)
    BY <2>1 DEF OpToRel
  <2>3. ~(k < n)
    BY <1>1, <2>2
  <2>. QED
    BY <2>1, <2>3
<1>. QED
  BY <1>2

\* A set of integers that is bounded below has a least element.
LEMMA LeastElement ==
  ASSUME NEW S \in SUBSET Int, S # {}, NEW b \in Int, \A x \in S : b <= x
  PROVE  \E m \in S : \A x \in S : m <= x
<1> DEFINE T == {x - b : x \in S}
<1>1. T \in SUBSET Nat /\ T # {}
  <2>1. ASSUME NEW x \in S PROVE x - b \in Nat
    <3>1. x \in Int /\ b <= x
      OBVIOUS
    <3>. QED
      BY <3>1
  <2>. QED
    BY <2>1
<1>2. PICK n \in T : \A k \in T : n <= k
  BY <1>1, LeastNatural
<1>3. PICK m \in S : n = m - b
  OBVIOUS
<1>4. ASSUME NEW x \in S PROVE m <= x
  <2>1. n <= x - b
    BY <1>2
  <2>. QED
    BY <1>3, <2>1
<1>. QED
  BY <1>4

\* A set of integers that is bounded above has a greatest element.
LEMMA GreatestElement ==
  ASSUME NEW S \in SUBSET Int, S # {}, NEW b \in Int, \A x \in S : x <= b
  PROVE  \E m \in S : \A x \in S : x <= m
<1> DEFINE T == {b - x : x \in S}
<1>1. T \in SUBSET Nat /\ T # {}
  <2>1. ASSUME NEW x \in S PROVE b - x \in Nat
    <3>1. x \in Int /\ x <= b
      OBVIOUS
    <3>. QED
      BY <3>1
  <2>. QED
    BY <2>1
<1>2. PICK n \in T : \A k \in T : n <= k
  BY <1>1, LeastNatural
<1>3. PICK m \in S : n = b - m
  OBVIOUS
<1>4. ASSUME NEW x \in S PROVE x <= m
  <2>1. n <= b - x
    BY <1>2
  <2>. QED
    BY <1>3, <2>1
<1>. QED
  BY <1>4

\* Induction: what contains zero, and with a number the next, contains all.
LEMMA SetInduction ==
  ASSUME NEW S, 0 \in S, \A n \in Nat : n \in S => n + 1 \in S
  PROVE  Nat \subseteq S
<1> DEFINE missing == Nat \ S
<1>1. SUFFICES ASSUME missing # {} PROVE FALSE
  OBVIOUS
<1>2. PICK n \in missing : \A k \in missing : n <= k
  BY <1>1, LeastNatural
<1>3. n - 1 \in Nat /\ n - 1 + 1 = n /\ ~(n <= n - 1)
  <2>1. n # 0 /\ n \in Nat
    OBVIOUS
  <2>. QED
    BY <2>1
<1>4. n - 1 \in S
  BY <1>2, <1>3
<1>5. n \in S
  BY <1>3, <1>4
<1>. QED
  BY <1>5

\* g begins with base, and each of its first N values is made of the one before.
Recursion(g, base, N, step) == g[0] = base /\ \A n \in 1 .. N : g[n] = step[n][g[n - 1]]

\* A function defined by recursion on the number of steps exists.
LEMMA RecursiveFunction ==
  ASSUME NEW S, NEW base \in S, NEW N \in Nat, NEW step \in [1 .. N -> [S -> S]]
  PROVE  \E g \in [0 .. N -> S] : Recursion(g, base, N, step)
<1> DEFINE Upto(n, g) == g[0] = base /\ \A k \in 1 .. n : g[k] = step[k][g[k - 1]]
           T == {n \in Nat : n <= N => \E g \in [0 .. n -> S] : Upto(n, g)}
<1>1. 0 \in T
  <2>1. [k \in 0 .. 0 |-> base] \in [0 .. 0 -> S] /\ Upto(0, [k \in 0 .. 0 |-> base])
    OBVIOUS
  <2>. QED
    BY <2>1
<1>2. ASSUME NEW n \in Nat, n \in T PROVE n + 1 \in T
  <2>1. SUFFICES ASSUME n + 1 <= N PROVE \E h \in [0 .. n + 1 -> S] : Upto(n + 1, h)
    OBVIOUS
  <2>2. PICK g \in [0 .. n -> S] : Upto(n, g)
    BY <1>2, <2>1
  <2> DEFINE h == [k \in 0 .. n + 1 |-> IF k <= n THEN g[k] ELSE step[n + 1][g[n]]]
  <2>3. step[n + 1][g[n]] \in S
    BY <2>1
  <2>4. h \in [0 .. n + 1 -> S]
    BY <2>3
  <2>5. h[0] = base
    BY <2>2
  <2>6. ASSUME NEW k \in 1 .. n + 1 PROVE h[k] = step[k][h[k - 1]]
    <3>1. CASE k <= n
      BY <2>2, <3>1
    <3>2. CASE k = n + 1
      BY <3>2
    <3>. QED
      BY <3>1, <3>2
  <2>. QED
    BY <2>4, <2>5, <2>6
<1>3. N \in T
  <2>. HIDE DEF T
  <2>. QED
    BY <1>1, <1>2, SetInduction
<1>. QED
  BY <1>3 DEF Recursion

\* h obeys the equation wherever the value before is right.
Obeys(h, S, base, N, step) ==
  /\ h = [n \in 0 .. N |-> h[n]]
  /\ h[0] = base
  /\ \A n \in 1 .. N : h[n - 1] \in S => h[n] = step[n][h[n - 1]]

\* Then its values are right everywhere.
LEMMA RecursiveValues ==
  ASSUME NEW S, NEW base \in S, NEW N \in Nat, NEW step \in [1 .. N -> [S -> S]],
         NEW h, Obeys(h, S, base, N, step)
  PROVE  h \in [0 .. N -> S] /\ Recursion(h, base, N, step)
<1> USE DEF Obeys
<1> DEFINE T == {n \in Nat : n <= N => h[n] \in S}
<1>1. 0 \in T
  OBVIOUS
<1>2. ASSUME NEW n \in Nat, n \in T PROVE n + 1 \in T
  <2>1. SUFFICES ASSUME n + 1 <= N PROVE h[n + 1] \in S
    OBVIOUS
  <2>2. n + 1 \in 1 .. N /\ (n + 1) - 1 = n /\ h[n] \in S
    BY <1>2, <2>1
  <2>3. h[n + 1] = step[n + 1][h[n]]
    BY <2>2
  <2>. QED
    BY <2>2, <2>3
<1>3. Nat \subseteq T
  <2>. HIDE DEF T
  <2>. QED
    BY <1>1, <1>2, SetInduction
<1>4. \A n \in 0 .. N : h[n] \in S
  BY <1>3
<1>5. \A n \in 1 .. N : h[n - 1] \in S
  BY <1>4
<1>6. \A n \in 1 .. N : h[n] = step[n][h[n - 1]]
  BY <1>5
<1>7. h \in [0 .. N -> S]
  BY <1>4
<1>. QED
  BY <1>6, <1>7 DEF Recursion

\* Two recursions that make the same first steps have the same first values.
LEMMA RecursionAgrees ==
  ASSUME NEW base, NEW N \in Nat, NEW M \in 0 .. N, NEW long, NEW short, NEW g, NEW h,
         Recursion(g, base, N, long), Recursion(h, base, M, short),
         \A n \in 1 .. M : long[n] = short[n]
  PROVE  \A n \in 0 .. M : g[n] = h[n]
<1> USE DEF Recursion
<1> DEFINE T == {n \in Nat : n <= M => g[n] = h[n]}
<1>1. 0 \in T
  OBVIOUS
<1>2. ASSUME NEW n \in Nat, n \in T PROVE n + 1 \in T
  <2>1. SUFFICES ASSUME n + 1 <= M PROVE g[n + 1] = h[n + 1]
    OBVIOUS
  <2>2. n + 1 \in 1 .. M /\ n + 1 \in 1 .. N /\ (n + 1) - 1 = n /\ g[n] = h[n]
    BY <1>2, <2>1
  <2>3. g[n + 1] = long[n + 1][g[n]] /\ h[n + 1] = short[n + 1][h[n]]
    BY <2>2
  <2>4. long[n + 1] = short[n + 1]
    BY <2>2
  <2>. QED
    BY <2>2, <2>3, <2>4
<1>3. Nat \subseteq T
  <2>. HIDE DEF T
  <2>. QED
    BY <1>1, <1>2, SetInduction
<1>. QED
  BY <1>3

-----------------------------------------------------------------------------
\* r is q without its element at p.
WithoutOne(r, q, p) ==
  /\ Len(r) = Len(q) - 1
  /\ \A i \in 1 .. Len(q) - 1 : r[i] = q[IF i < p THEN i ELSE i + 1]

LEMMA OneRemoved ==
  ASSUME NEW S, NEW q \in Seq(S), NEW p \in 1 .. Len(q)
  PROVE  /\ SubSeq(q, 1, p - 1) \o SubSeq(q, p + 1, Len(q)) \in Seq(S)
         /\ WithoutOne(SubSeq(q, 1, p - 1) \o SubSeq(q, p + 1, Len(q)), q, p)
<1> DEFINE a == SubSeq(q, 1, p - 1)
           b == SubSeq(q, p + 1, Len(q))
           d == a \o b
<1>1. Len(q) \in Nat
  OBVIOUS
<1>2. /\ a \in Seq(S) /\ Len(a) = p - 1 /\ b \in Seq(S) /\ Len(b) = Len(q) - p
      /\ \A i \in 1 .. p - 1 : a[i] = q[i]
      /\ \A i \in 1 .. Len(q) - p : b[i] = q[i + p]
  BY SMTT(30), <1>1
<1>. HIDE DEF a, b
<1>3. d = a \o b
  OBVIOUS
<1>. HIDE DEF d
<1>4. d \in Seq(S) /\ Len(d) = Len(q) - 1
  <2>1. a \o b \in Seq(S) /\ Len(a \o b) = Len(a) + Len(b)
    <3>1. a \in Seq(S) /\ b \in Seq(S)
      BY <1>2
    <3>. QED
      BY <3>1
  <2>2. (p - 1) + (Len(q) - p) = Len(q) - 1
    BY <1>1
  <2>. QED
    BY <1>2, <1>3, <2>1, <2>2, Zenon
<1>5. ASSUME NEW i \in 1 .. Len(q) - 1
      PROVE  d[i] = q[IF i < p THEN i ELSE i + 1]
  <2>1. CASE i < p
    <3>1. i \in 1 .. p - 1
      BY <1>1, <2>1
    <3>. QED
      BY <1>2, <1>3, <2>1, <3>1
  <2>2. CASE ~(i < p)
    <3>1. i - (p - 1) \in 1 .. Len(q) - p /\ (i - (p - 1)) + p = i + 1
      BY <1>1, <2>2
    <3>2. d[i] = b[i - (p - 1)]
      BY SMTT(30), <1>1, <1>2, <1>3, <2>2
    <3>. QED
      BY <1>2, <2>2, <3>1, <3>2
  <2>. QED
    BY <2>1, <2>2
<1>6. WithoutOne(d, q, p)
  BY <1>4, <1>5, Zenon DEF WithoutOne
<1>. QED
  BY <1>4, <1>6 DEF a, b, d

\* The maps from some of the keys in D to values in R.
Maps(D, R) == UNION {[S -> R] : S \in SUBSET D}

\* They are functions on those keys, and all of these are.
LEMMA MapsAre ==
  ASSUME NEW D, NEW R, NEW m \in Maps(D, R)
  PROVE  DOMAIN m \subseteq D /\ m = [k \in DOMAIN m |-> m[k]] /\ \A k \in DOMAIN m : m[k] \in R
<1>1. PICK S \in SUBSET D : m \in [S -> R]
  BY Zenon DEF Maps
<1>. QED
  BY <1>1

\* A function on some of the keys is such a map.
LEMMA MapsHave ==
  ASSUME NEW D, NEW R, NEW S \in SUBSET D, NEW m \in [S -> R]
  PROVE  m \in Maps(D, R)
  BY Zenon DEF Maps
=============================================================================
