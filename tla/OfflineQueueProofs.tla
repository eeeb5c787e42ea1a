------------------------- MODULE OfflineQueueProofs -------------------------
(***************************************************************************)
(* The array of offlineQueue.js, for every number of items and calls, every *)
(* size of items and both limits: its running total is right, eviction is  *)
(* exact, and it implements the set of ItemStore.                          *)
(*                                                                         *)
(* The array is in the order of its ids, so it is told by the set of its   *)
(* items, and most of what follows is about that set.                      *)
(***************************************************************************)
EXTENDS OfflineQueue, InductionLemmas, FiniteSetTheorems

(* Sums *)

\* g adds up the first N values of c.
Sums(g, c, N) == g[0] = 0 /\ \A n \in 1 .. N : g[n] = g[n - 1] + c[n]

\* Sums of the same values are the same.
LEMMA SumsAgree ==
  ASSUME NEW N \in Nat, NEW c, NEW d, NEW g, NEW h, Sums(g, c, N), Sums(h, d, N),
         \A n \in 1 .. N : c[n] = d[n]
  PROVE  g[N] = h[N]
<1> DEFINE T == {n \in Nat : n <= N => g[n] = h[n]}
<1>1. 0 \in T
  BY DEF Sums
<1>2. ASSUME NEW n \in Nat, n \in T PROVE n + 1 \in T
  <2>1. SUFFICES ASSUME n + 1 <= N PROVE g[n + 1] = h[n + 1]
    OBVIOUS
  <2>2. n + 1 \in 1 .. N /\ (n + 1) - 1 = n /\ g[n] = h[n]
    BY <1>2, <2>1
  <2>. QED
    BY <2>2 DEF Sums
<1>. HIDE DEF T
<1>3. N \in T
  BY <1>1, <1>2, SetInduction
<1>. QED
  BY <1>3 DEF T

\* g adds up naturals.
Adds(g, c, N) ==
  N \in Nat /\ c \in [1 .. N -> Nat] /\ g \in [0 .. N -> Nat] /\ Sums(g, c, N)

\* d has one value more than c.
OneMore(c, d, N, k) ==
  k \in 1 .. N /\ c[k] = 0 /\ \A n \in 1 .. N : n # k => c[n] = d[n]

\* The sums differ by n.
DifferBy(g, h, N, n) == h[N] = g[N] + n

LEMMA SumsDiffer ==
  ASSUME NEW N, NEW c, NEW d, NEW g, NEW h, Adds(g, c, N), Adds(h, d, N),
         NEW k, OneMore(c, d, N, k)
  PROVE  DifferBy(g, h, N, d[k])
<1>. USE DEF Adds, DifferBy
<1>0. k \in 1 .. N /\ c[k] = 0 /\ \A n \in 1 .. N : n # k => c[n] = d[n]
  BY DEF OneMore
<1> DEFINE T == {n \in Nat : n <= N => h[n] = IF n < k THEN g[n] ELSE g[n] + d[k]}
<1>1. 0 \in T
  BY <1>0 DEF Sums
<1>2. ASSUME NEW n \in Nat, n \in T PROVE n + 1 \in T
  <2>1. SUFFICES ASSUME n + 1 <= N
                 PROVE h[n + 1] = IF n + 1 < k THEN g[n + 1] ELSE g[n + 1] + d[k]
    OBVIOUS
  <2>2. n + 1 \in 1 .. N /\ (n + 1) - 1 = n /\ n \in 0 .. N /\ n + 1 \in 0 .. N
    BY <2>1
  <2>3. h[n] = IF n < k THEN g[n] ELSE g[n] + d[k]
    BY <1>2, <2>1
  <2>4. g[n + 1] = g[n] + c[n + 1] /\ h[n + 1] = h[n] + d[n + 1]
    BY <2>2 DEF Sums
  <2>5. g[n] \in Nat /\ d[n + 1] \in Nat /\ d[k] \in Nat
    BY <1>0, <2>2
  <2>6. n + 1 # k => c[n + 1] = d[n + 1]
    BY <1>0, <2>2
  <2>0. k \in Int
    BY <1>0
  <2>7. CASE n + 1 < k
    <3>1. n < k /\ n + 1 # k
      BY <2>0, <2>7
    <3>. QED
      BY <2>3, <2>4, <2>6, <2>7, <3>1, Zenon
  <2>8. CASE n + 1 = k
    <3>1. n < k /\ ~(n + 1 < k)
      BY <2>8
    <3>2. g[n + 1] = g[n]
      <4>1. c[n + 1] = 0
        BY <1>0, <2>8
      <4>. QED
        BY <2>4, <2>5, <4>1
    <3>. QED
      BY <2>3, <2>4, <2>8, <3>1, <3>2, Zenon
  <2>9. CASE k < n + 1
    <3>1. ~(n < k) /\ ~(n + 1 < k) /\ n + 1 # k
      BY <2>0, <2>9
    <3>2. PICK x, y, z \in Nat : x = g[n] /\ y = d[k] /\ z = d[n + 1]
      BY <2>5, Zenon
    <3>3. (x + y) + z = (x + z) + y
      OBVIOUS
    <3>. QED
      BY <2>3, <2>4, <2>6, <3>1, <3>2, <3>3, Zenon
  <2>. QED
    BY <2>0, <2>7, <2>8, <2>9
<1>3. N \in T
  <2>. HIDE DEF T
  <2>. QED
    BY <1>1, <1>2, SetInduction
<1>4. ~(N < k)
  BY <1>0
<1>. QED
  BY <1>3, <1>4

\* Greater values have a greater sum.
LEMMA SumsGrow ==
  ASSUME NEW N \in Nat, NEW c \in [1 .. N -> Nat], NEW d \in [1 .. N -> Nat],
         NEW g \in [0 .. N -> Nat], NEW h \in [0 .. N -> Nat], Sums(g, c, N), Sums(h, d, N),
         \A n \in 1 .. N : c[n] <= d[n]
  PROVE  g[N] <= h[N]
<1> DEFINE T == {n \in Nat : n <= N => g[n] <= h[n]}
<1>1. 0 \in T
  BY DEF Sums
<1>2. ASSUME NEW n \in Nat, n \in T PROVE n + 1 \in T
  <2>1. SUFFICES ASSUME n + 1 <= N PROVE g[n + 1] <= h[n + 1]
    OBVIOUS
  <2>2. n + 1 \in 1 .. N /\ (n + 1) - 1 = n /\ n \in 0 .. N
    BY <2>1
  <2>3. g[n] <= h[n]
    BY <1>2, <2>1
  <2>4. g[n + 1] = g[n] + c[n + 1] /\ h[n + 1] = h[n] + d[n + 1]
    BY <2>2 DEF Sums
  <2>5. g[n] \in Nat /\ h[n] \in Nat /\ c[n + 1] \in Nat /\ d[n + 1] \in Nat
    BY <2>2
  <2>6. c[n + 1] <= d[n + 1]
    BY <2>2
  <2>7. \A a, b, x, y \in Nat : a <= b /\ x <= y => a + x <= b + y
    OBVIOUS
  <2>. QED
    BY <2>3, <2>4, <2>5, <2>6, <2>7, Zenon
<1>3. N \in T
  <2>. HIDE DEF T
  <2>. QED
    BY <1>1, <1>2, SetInduction
<1>. QED
  BY <1>3

\* A function that adds up naturals exists, and one defined that way does so.
LEMMA SumExists ==
  ASSUME NEW N \in Nat, NEW c \in [1 .. N -> Nat]
  PROVE  \E g \in [0 .. N -> Nat] : Sums(g, c, N)
<1> DEFINE step == [n \in 1 .. N |-> [x \in Nat |-> x + c[n]]]
<1>1. step \in [1 .. N -> [Nat -> Nat]]
  OBVIOUS
<1>2. PICK g \in [0 .. N -> Nat] : Recursion(g, 0, N, step)
  <2>. HIDE DEF step
  <2>. QED
    BY <1>1, RecursiveFunction
<1>3. ASSUME NEW n \in 1 .. N PROVE g[n] = g[n - 1] + c[n]
  <2>1. g[n - 1] \in Nat
    OBVIOUS
  <2>. QED
    BY <1>2, <2>1 DEF Recursion
<1>. QED
  BY <1>2, <1>3 DEF Sums, Recursion

\* A function that obeys the equation adds up c.
LEMMA SumObeys ==
  ASSUME NEW N \in Nat, NEW c \in [1 .. N -> Nat],
         NEW h, h = [n \in 0 .. N |-> IF n = 0 THEN 0 ELSE h[n - 1] + c[n]]
  PROVE  h \in [0 .. N -> Nat] /\ Sums(h, c, N)
<1> DEFINE T == {n \in Nat : n <= N => h[n] \in Nat}
<1>1. h[0] = 0 /\ \A n \in 1 .. N : h[n] = h[n - 1] + c[n]
  OBVIOUS
<1>2. 0 \in T
  BY <1>1
<1>3. ASSUME NEW n \in Nat, n \in T PROVE n + 1 \in T
  <2>1. SUFFICES ASSUME n + 1 <= N PROVE h[n + 1] \in Nat
    OBVIOUS
  <2>2. n + 1 \in 1 .. N /\ (n + 1) - 1 = n /\ h[n] \in Nat
    BY <1>3, <2>1
  <2>3. h[n + 1] = h[n] + c[n + 1] /\ c[n + 1] \in Nat
    BY <1>1, <2>2
  <2>. QED
    BY <2>2, <2>3
<1>4. Nat \subseteq T
  <2>. HIDE DEF T
  <2>. QED
    BY <1>2, <1>3, SetInduction
<1>5. \A n \in 0 .. N : h[n] \in Nat
  BY SMTT(30), <1>4
<1>6. h \in [0 .. N -> Nat]
  BY <1>5
<1>. QED
  BY <1>1, <1>6 DEF Sums

\* The one that a recursive definition chooses does.
LEMMA SumChosen ==
  ASSUME NEW N \in Nat, NEW c \in [1 .. N -> Nat],
         NEW h, h = CHOOSE f : f = [n \in 0 .. N |-> IF n = 0 THEN 0 ELSE f[n - 1] + c[n]]
  PROVE  h \in [0 .. N -> Nat] /\ Sums(h, c, N)
<1> DEFINE next(f) == [n \in 0 .. N |-> IF n = 0 THEN 0 ELSE f[n - 1] + c[n]]
<1>1. PICK g \in [0 .. N -> Nat] : Sums(g, c, N)
  BY SumExists, Zenon
<1>2. g = next(g)
  <2>1. \A n \in 0 .. N : g[n] = next(g)[n]
    BY <1>1 DEF Sums
  <2>. QED
    BY <2>1
<1>3. h = next(h)
  <2>1. h = CHOOSE f : f = next(f)
    OBVIOUS
  <2>. HIDE DEF next
  <2>. QED
    BY <1>2, <2>1
<1>4. h = [n \in 0 .. N |-> IF n = 0 THEN 0 ELSE h[n - 1] + c[n]]
  BY <1>3, Zenon
<1>5. ASSUME NEW f, f = [n \in 0 .. N |-> IF n = 0 THEN 0 ELSE f[n - 1] + c[n]]
      PROVE  f \in [0 .. N -> Nat] /\ Sums(f, c, N)
  BY <1>5, SumObeys
<1>. QED
  BY <1>4, <1>5, ZenonT(60)

\* SizeOf adds up the sizes of the items.
Sizes(q) == [n \in 1 .. Len(q) |-> q[n].sizeBytes]

LEMMA SizeSummed ==
  ASSUME NEW q \in Seq(Item)
  PROVE  /\ Sizes(q) \in [1 .. Len(q) -> Nat]
         /\ \E g \in [0 .. Len(q) -> Nat] : Sums(g, Sizes(q), Len(q)) /\ SizeOf(q) = g[Len(q)]
<1> DEFINE h == CHOOSE f : f = [n \in 0 .. Len(q) |->
                                  IF n = 0 THEN 0 ELSE f[n - 1] + q[n].sizeBytes]
           k == CHOOSE f : f = [n \in 0 .. Len(q) |->
                                  IF n = 0 THEN 0 ELSE f[n - 1] + Sizes(q)[n]]
<1>1. Sizes(q) \in [1 .. Len(q) -> Nat]
  <2>1. ASSUME NEW n \in 1 .. Len(q) PROVE q[n].sizeBytes \in Nat
    <3>1. q[n] \in Item
      OBVIOUS
    <3>2. \A i \in Item : i.sizeBytes \in Nat
      BY QueueAssumption DEF Item
    <3>. QED
      BY <3>1, <3>2
  <2>. QED
    BY <2>1, Zenon DEF Sizes
<1>2. \A n \in 1 .. Len(q) : Sizes(q)[n] = q[n].sizeBytes
  BY DEF Sizes
<1>3. SizeOf(q) = h[Len(q)]
  BY Zenon DEF SizeOf
<1>4. ASSUME NEW f
      PROVE  [n \in 0 .. Len(q) |-> IF n = 0 THEN 0 ELSE f[n - 1] + q[n].sizeBytes]
             = [n \in 0 .. Len(q) |-> IF n = 0 THEN 0 ELSE f[n - 1] + Sizes(q)[n]]
  BY <1>2
<1>5. h = k
  BY <1>4, Zenon
<1>6. k \in [0 .. Len(q) -> Nat] /\ Sums(k, Sizes(q), Len(q))
  <2>1. Len(q) \in Nat
    OBVIOUS
  <2>. QED
    BY <1>1, <2>1, SumChosen, Zenon
<1>. HIDE DEF h, k
<1>. QED
  BY <1>1, <1>3, <1>5, <1>6

LEMMA SizeNothing == SizeOf(<< >>) = 0
<1>1. << >> \in Seq(Item) /\ Len(<< >>) = 0
  OBVIOUS
<1>2. \E g \in [0 .. 0 -> Nat] : Sums(g, Sizes(<< >>), 0) /\ SizeOf(<< >>) = g[0]
  BY <1>1, SizeSummed
<1>. QED
  BY <1>2 DEF Sums

\* One item more adds its size.
LEMMA SizeMore ==
  ASSUME NEW q \in Seq(Item), NEW i \in Item
  PROVE  SizeOf(Append(q, i)) = SizeOf(q) + i.sizeBytes
<1> DEFINE r == Append(q, i)
           N == Len(q)
<1>1. r \in Seq(Item) /\ Len(r) = N + 1 /\ N \in Nat /\ r[N + 1] = i
      /\ \A n \in 1 .. N : r[n] = q[n]
  OBVIOUS
<1>2. PICK g \in [0 .. N -> Nat] : Sums(g, Sizes(q), N) /\ SizeOf(q) = g[N]
  BY SizeSummed
<1>. HIDE DEF r
<1>3. PICK h \in [0 .. N + 1 -> Nat] : Sums(h, Sizes(r), N + 1) /\ SizeOf(r) = h[N + 1]
  BY <1>1, SizeSummed
<1>4. Sums(h, Sizes(r), N)
  BY <1>1, <1>3 DEF Sums
<1>5. \A n \in 1 .. N : Sizes(q)[n] = Sizes(r)[n]
  BY <1>1 DEF Sizes
<1>6. g[N] = h[N]
  <2>1. N \in Nat
    OBVIOUS
  <2>. HIDE DEF N
  <2>. QED
    BY <1>2, <1>4, <1>5, <2>1, SumsAgree
<1>7. h[N + 1] = h[N] + i.sizeBytes
  <2>1. N + 1 \in 1 .. N + 1 /\ (N + 1) - 1 = N
    BY <1>1
  <2>2. Sizes(r)[N + 1] = i.sizeBytes
    BY <1>1, <2>1 DEF Sizes
  <2>. QED
    BY <1>3, <2>1, <2>2 DEF Sums
<1>. QED
  BY <1>2, <1>3, <1>6, <1>7 DEF r

\* What the store calls the bytes of a set adds up the sizes at each id.
Stored == [id : 1 .. MaxSubmitted, priority : Priority, sizeBytes : Size]

SizesAt(Q) == [id \in 1 .. MaxSubmitted |-> Store!SizeAt(Q, id)]

LEMMA BytesSummed ==
  ASSUME NEW Q \in SUBSET Stored
  PROVE  /\ SizesAt(Q) \in [1 .. MaxSubmitted -> Nat]
         /\ \E g \in [0 .. MaxSubmitted -> Nat] :
              Sums(g, SizesAt(Q), MaxSubmitted) /\ Store!Bytes(Q) = g[MaxSubmitted]
<1> DEFINE N == MaxSubmitted
           h == CHOOSE f : f = [id \in 0 .. N |->
                                  IF id = 0 THEN 0 ELSE f[id - 1] + Store!SizeAt(Q, id)]
           k == CHOOSE f : f = [n \in 0 .. N |->
                                  IF n = 0 THEN 0 ELSE f[n - 1] + SizesAt(Q)[n]]
<1>1. SizesAt(Q) \in [1 .. N -> Nat]
  <2>1. ASSUME NEW id \in 1 .. N PROVE Store!SizeAt(Q, id) \in Nat
    <3>1. CASE \E i \in Q : i.id = id
      <4>1. (CHOOSE i \in Q : i.id = id) \in Q
        BY <3>1
      <4>2. (CHOOSE i \in Q : i.id = id).sizeBytes \in Nat
        BY <4>1, QueueAssumption DEF Stored
      <4>. QED
        BY <3>1, <4>2, Zenon DEF Store!SizeAt
    <3>2. CASE ~(\E i \in Q : i.id = id)
      BY <3>2 DEF Store!SizeAt
    <3>. QED
      BY <3>1, <3>2
  <2>. QED
    BY <2>1, Zenon DEF SizesAt
<1>2. \A n \in 1 .. N : SizesAt(Q)[n] = Store!SizeAt(Q, n)
  BY DEF SizesAt
<1>3. Store!Bytes(Q) = h[N]
  BY Zenon DEF Store!Bytes
<1>4. ASSUME NEW f
      PROVE  [n \in 0 .. N |-> IF n = 0 THEN 0 ELSE f[n - 1] + Store!SizeAt(Q, n)]
             = [n \in 0 .. N |-> IF n = 0 THEN 0 ELSE f[n - 1] + SizesAt(Q)[n]]
  <2>1. \A n \in 0 .. N : n # 0 => n \in 1 .. N
    BY QueueAssumption
  <2>. QED
    BY <1>2, <2>1
<1>5. h = k
  BY <1>4, Zenon
<1>6. k \in [0 .. N -> Nat] /\ Sums(k, SizesAt(Q), N)
  BY <1>1, QueueAssumption, SumChosen, Zenon
<1>. HIDE DEF h, k
<1>. QED
  BY <1>1, <1>3, <1>5, <1>6

-----------------------------------------------------------------------------
(* filter *)

\* Items are in the order of their ids, which is that of their creation.
Ascending(q) ==
  \A a, b \in 1 .. Len(q) :
    a < b => q[a].id < q[b].id /\ q[a].createdAt <= q[b].createdAt

\* One step of the filter.
Keep(kept, i, S) == IF i \in S THEN Append(kept, i) ELSE kept

Keeps(g, q, S) == g[0] = << >> /\ \A n \in 1 .. Len(q) : g[n] = Keep(g[n - 1], q[n], S)

LEMMA FilteredOneByOne ==
  ASSUME NEW q \in Seq(Item), NEW S
  PROVE  \E g \in [0 .. Len(q) -> Seq(Item)] : Keeps(g, q, S) /\ Filter(q, S) = g[Len(q)]
<1> DEFINE N == Len(q)
           Q == Seq(Item)
           next(f) == [n \in 0 .. N |->
                         IF n = 0
                         THEN << >>
                         ELSE IF q[n] \in S THEN Append(f[n - 1], q[n]) ELSE f[n - 1]]
           step == [n \in 1 .. N |-> [kept \in Q |-> Keep(kept, q[n], S)]]
           h == CHOOSE f : f = next(f)
<1>1. N \in Nat /\ << >> \in Q
  OBVIOUS
<1>2. step \in [1 .. N -> [Q -> Q]]
  <2>1. ASSUME NEW n \in 1 .. N, NEW kept \in Q PROVE Keep(kept, q[n], S) \in Q
    <3>1. q[n] \in Item
      OBVIOUS
    <3>. QED
      BY <3>1 DEF Keep
  <2>. HIDE DEF Q, N
  <2>. QED
    BY <2>1
<1>3. PICK g \in [0 .. N -> Q] : Recursion(g, << >>, N, step)
  <2>. HIDE DEF step, N, Q
  <2>. QED
    BY <1>1, <1>2, RecursiveFunction
<1>4. \A n \in 1 .. N : g[n] = Keep(g[n - 1], q[n], S)
  <2>1. ASSUME NEW n \in 1 .. N PROVE g[n] = Keep(g[n - 1], q[n], S)
    <3>1. g[n - 1] \in Q
      OBVIOUS
    <3>2. step[n][g[n - 1]] = Keep(g[n - 1], q[n], S)
      <4>. HIDE DEF Q, N
      <4>. QED
        BY <3>1, Zenon
    <3>. QED
      BY <1>3, <3>2, Zenon DEF Recursion
  <2>. QED
    BY <2>1
<1>5. g = next(g)
  <2>1. ASSUME NEW n \in 0 .. N PROVE g[n] = next(g)[n]
    <3>1. CASE n = 0
      BY <1>3, <3>1, Zenon DEF Recursion
    <3>2. CASE n # 0
      <4>1. n \in 1 .. N
        BY <1>1, <3>2
      <4>. QED
        BY <1>4, <3>2, <4>1, Zenon DEF Keep
    <3>. QED
      BY <3>1, <3>2
  <2>2. g = [n \in 0 .. N |-> g[n]]
    BY <1>3
  <2>. QED
    BY <2>1, <2>2, Zenon
<1>6. h = next(h)
  <2>. HIDE DEF next
  <2>. QED
    BY <1>5
<1>7. Filter(q, S) = h[N]
  BY Zenon DEF Filter
<1>. HIDE DEF h
<1>8. /\ h = [n \in 0 .. N |-> h[n]]
      /\ h[0] = << >>
      /\ \A n \in 1 .. N : h[n] = Keep(h[n - 1], q[n], S)
  <2>1. h[0] = << >>
    <3>1. 0 \in 0 .. N
      BY <1>1
    <3>. QED
      BY <1>6, <3>1, Zenon
  <2>2. ASSUME NEW n \in 1 .. N PROVE h[n] = Keep(h[n - 1], q[n], S)
    <3>1. n \in 0 .. N /\ n # 0
      BY <1>1
    <3>. QED
      BY <1>6, <3>1, Zenon DEF Keep
  <2>3. h = [n \in 0 .. N |-> h[n]]
    BY <1>6, Zenon
  <2>. QED
    BY <2>1, <2>2, <2>3
<1>9. \A n \in 1 .. N : h[n - 1] \in Q => h[n] = step[n][h[n - 1]]
  <2>. HIDE DEF Q, N
  <2>. QED
    BY <1>8, Zenon
<1>10. h \in [0 .. N -> Q]
  <2> DEFINE base == << >>
  <2>1. base \in Q /\ h[0] = base
    BY <1>1, <1>8
  <2>2. h = [n \in 0 .. N |-> h[n]]
    BY <1>8
  <2>3. N \in Nat
    OBVIOUS
  <2>. HIDE DEF step, N, Q, base
  <2>4. Obeys(h, Q, base, N, step)
    BY <1>9, <2>1, <2>2, Zenon DEF Obeys
  <2>. QED
    BY <1>2, <2>1, <2>3, <2>4, RecursiveValues, Zenon
<1>. QED
  BY <1>7, <1>8, <1>10, Zenon DEF Keeps

\* What is kept of the first n items.
KeptOf(r, q, S, n) ==
  /\ r \in Seq(Item)
  /\ ToSet(r) = {q[k] : k \in 1 .. n} \cap S
  /\ Ascending(q) => Ascending(r)

LEMMA KeptMore ==
  ASSUME NEW q \in Seq(Item), NEW S, NEW n \in Nat, n + 1 <= Len(q),
         NEW r, KeptOf(r, q, S, n)
  PROVE  KeptOf(Keep(r, q[n + 1], S), q, S, n + 1)
<1> DEFINE i == q[n + 1]
           before == {q[k] : k \in 1 .. n}
<1>1. n + 1 \in 1 .. Len(q) /\ i \in Item /\ r \in Seq(Item)
  BY DEF KeptOf
<1>2. {q[k] : k \in 1 .. n + 1} = before \cup {i}
  <2>1. 1 .. n + 1 = (1 .. n) \cup {n + 1}
    OBVIOUS
  <2>. QED
    BY <2>1, Zenon
<1>. HIDE DEF i, before
<1>3. ToSet(r) = before \cap S
  BY DEF KeptOf, before
<1>4. CASE i \notin S
  <2>1. Keep(r, i, S) = r
    BY <1>4 DEF Keep
  <2>2. (before \cup {i}) \cap S = before \cap S
    BY <1>4
  <2>. QED
    BY <1>2, <1>3, <2>1, <2>2, Zenon DEF KeptOf, i
<1>5. CASE i \in S
  <2> DEFINE s == Append(r, i)
  <2>1. Keep(r, i, S) = s
    BY <1>5, Zenon DEF Keep
  <2>2. s \in Seq(Item) /\ Len(s) = Len(r) + 1 /\ s[Len(r) + 1] = i
        /\ DOMAIN s = 1 .. Len(r) + 1 /\ DOMAIN r = 1 .. Len(r) /\ Len(r) \in Nat
        /\ \A k \in 1 .. Len(r) : s[k] = r[k]
    BY <1>1
  <2>. HIDE DEF s
  <2>3. ToSet(s) = ToSet(r) \cup {i}
    BY <2>2 DEF ToSet
  <2>4. ToSet(s) = (before \cup {i}) \cap S
    BY <1>3, <1>5, <2>3
  <2>5. ASSUME Ascending(q) PROVE Ascending(s)
    <3>1. Ascending(r)
      BY <2>5 DEF KeptOf
    <3>2. ASSUME NEW a \in 1 .. Len(r)
          PROVE  r[a].id < i.id /\ r[a].createdAt <= i.createdAt
      <4>1. r[a] \in before
        BY <1>3, <2>2 DEF ToSet
      <4>2. PICK k \in 1 .. n : r[a] = q[k]
        BY <4>1 DEF before
      <4>3. k \in 1 .. Len(q) /\ k < n + 1
        BY <1>1
      <4>. QED
        BY <1>1, <2>5, <4>2, <4>3 DEF Ascending, i
    <3>3. ASSUME NEW a \in 1 .. Len(s), NEW b \in 1 .. Len(s), a < b
          PROVE  s[a].id < s[b].id /\ s[a].createdAt <= s[b].createdAt
      <4>1. a \in 1 .. Len(r) /\ s[a] = r[a]
        BY <2>2, <3>3
      <4>2. CASE b \in 1 .. Len(r)
        <5>1. s[b] = r[b]
          BY <2>2, <4>2
        <5>. QED
          BY <3>1, <3>3, <4>1, <4>2, <5>1 DEF Ascending
      <4>3. CASE b = Len(r) + 1
        BY <2>2, <3>2, <4>1, <4>3
      <4>. QED
        BY <2>2, <4>2, <4>3
    <3>. QED
      BY <3>3, Zenon DEF Ascending
  <2>6. {q[k] : k \in 1 .. n + 1} \cap S = ToSet(s)
    BY <1>2, <2>4
  <2>. QED
    BY <2>1, <2>2, <2>5, <2>6, Zenon DEF KeptOf, i
<1>. QED
  BY <1>4, <1>5

\* A filter keeps the elements that are in S, in their order.
LEMMA Filtered ==
  ASSUME NEW q \in Seq(Item), NEW S
  PROVE  /\ Filter(q, S) \in Seq(Item)
         /\ ToSet(Filter(q, S)) = ToSet(q) \cap S
         /\ Ascending(q) => Ascending(Filter(q, S))
<1>1. PICK g \in [0 .. Len(q) -> Seq(Item)] : Keeps(g, q, S) /\ Filter(q, S) = g[Len(q)]
  BY FilteredOneByOne, Zenon
<1> DEFINE T == {n \in Nat : n <= Len(q) => KeptOf(g[n], q, S, n)}
<1>2. 0 \in T
  <2>1. g[0] = << >> /\ {q[k] : k \in 1 .. 0} = {}
    BY <1>1 DEF Keeps
  <2>2. << >> \in Seq(Item) /\ ToSet(<< >>) = {} /\ Ascending(<< >>)
    BY DEF ToSet, Ascending
  <2>. QED
    BY <2>1, <2>2 DEF KeptOf
<1>3. ASSUME NEW n \in Nat, n \in T PROVE n + 1 \in T
  <2>1. SUFFICES ASSUME n + 1 <= Len(q) PROVE KeptOf(g[n + 1], q, S, n + 1)
    OBVIOUS
  <2>2. n + 1 \in 1 .. Len(q) /\ (n + 1) - 1 = n /\ KeptOf(g[n], q, S, n)
    BY <1>3, <2>1
  <2>3. g[n + 1] = Keep(g[n], q[n + 1], S)
    BY <1>1, <2>2 DEF Keeps
  <2>4. KeptOf(Keep(g[n], q[n + 1], S), q, S, n + 1)
    BY <2>1, <2>2, KeptMore, Zenon
  <2>. QED
    BY <2>3, <2>4, Zenon
<1>4. Len(q) \in T
  <2>. HIDE DEF T
  <2>1. Len(q) \in Nat
    OBVIOUS
  <2>. QED
    BY <1>2, <1>3, <2>1, SetInduction
<1>5. KeptOf(g[Len(q)], q, S, Len(q))
  BY <1>4
<1>6. ToSet(q) = {q[k] : k \in 1 .. Len(q)}
  BY DEF ToSet
<1>. QED
  BY <1>1, <1>5, <1>6, Zenon DEF KeptOf

-----------------------------------------------------------------------------
(* The array and the set of its items *)

\* What the store knows of an item.
Entry(i) == [id |-> i.id, priority |-> i.priority, sizeBytes |-> i.sizeBytes]

\* Ids tell items apart.
Distinct(Q) == \A x, y \in Q : x.id = y.id => x = y

LEMMA EntriesOf ==
  ASSUME NEW q \in Seq(Item)
  PROVE  /\ StoredItems(q) = {Entry(i) : i \in ToSet(q)}
         /\ StoredItems(q) \in SUBSET Stored
         /\ ToSet(q) \in SUBSET Item
         /\ \A i \in Item : Entry(i) \in Stored /\ Entry(i).id = i.id
                            /\ Entry(i).priority = i.priority /\ Entry(i).sizeBytes = i.sizeBytes
<1>1. StoredItems(q) = {Entry(i) : i \in ToSet(q)}
  BY Zenon DEF StoredItems, Entry
<1>2. ToSet(q) \in SUBSET Item
  BY DEF ToSet
<1>3. \A i \in Item : Entry(i) \in Stored /\ Entry(i).id = i.id
                      /\ Entry(i).priority = i.priority /\ Entry(i).sizeBytes = i.sizeBytes
  BY DEF Entry, Item, Stored
<1>4. StoredItems(q) \in SUBSET Stored
  BY <1>1, <1>2, <1>3
<1>. QED
  BY <1>1, <1>2, <1>3, <1>4

\* In an ascending array no two items have the same id.
LEMMA AscendingDistinct ==
  ASSUME NEW q \in Seq(Item), Ascending(q)
  PROVE  Distinct(ToSet(q)) /\ Distinct(StoredItems(q))
<1>1. ASSUME NEW a \in 1 .. Len(q), NEW b \in 1 .. Len(q), q[a].id = q[b].id PROVE a = b
  <2>1. ~(a < b) /\ ~(b < a)
    <3>1. \A k \in 1 .. Len(q) : q[k].id \in Int
      <4>1. \A k \in 1 .. Len(q) : q[k] \in Item
        OBVIOUS
      <4>. QED
        BY SMTT(30), <4>1 DEF Item
    <3>. QED
      BY <1>1, <3>1 DEF Ascending
  <2>. QED
    BY <2>1
<1>2. Distinct(ToSet(q))
  <2>1. ToSet(q) = {q[k] : k \in 1 .. Len(q)}
    BY DEF ToSet
  <2>. QED
    BY <1>1, <2>1 DEF Distinct
<1>3. Distinct(StoredItems(q))
  <2>1. ASSUME NEW x \in StoredItems(q), NEW y \in StoredItems(q), x.id = y.id PROVE x = y
    <3>1. PICK i \in ToSet(q), j \in ToSet(q) : x = Entry(i) /\ y = Entry(j)
      BY EntriesOf
    <3>2. i.id = j.id
      BY <2>1, <3>1, EntriesOf
    <3>. QED
      BY <1>2, <3>1, <3>2 DEF Distinct
  <2>. QED
    BY <2>1, Zenon DEF Distinct
<1>. QED
  BY <1>2, <1>3

\* The size at an id is that of the item with the id.
LEMMA SizeAtItem ==
  ASSUME NEW Q \in SUBSET Stored, Distinct(Q)
  PROVE  /\ \A x \in Q : Store!SizeAt(Q, x.id) = x.sizeBytes
         /\ \A id : (\A x \in Q : x.id # id) => Store!SizeAt(Q, id) = 0
<1>1. ASSUME NEW x \in Q PROVE Store!SizeAt(Q, x.id) = x.sizeBytes
  <2>1. \E i \in Q : i.id = x.id
    OBVIOUS
  <2>2. (CHOOSE i \in Q : i.id = x.id) \in Q /\ (CHOOSE i \in Q : i.id = x.id).id = x.id
    OBVIOUS
  <2>3. (CHOOSE i \in Q : i.id = x.id) = x
    BY <2>2 DEF Distinct
  <2>. QED
    BY <2>1, <2>3, Zenon DEF Store!SizeAt
<1>2. ASSUME NEW id, \A x \in Q : x.id # id PROVE Store!SizeAt(Q, id) = 0
  <2>1. ~(\E i \in Q : i.id = id)
    BY <1>2
  <2>. QED
    BY <2>1 DEF Store!SizeAt
<1>. QED
  BY <1>1, <1>2

\* An item more or less.
LEMMA BytesMore ==
  ASSUME NEW Q \in SUBSET Stored, Distinct(Q), NEW x \in Stored, \A y \in Q : y.id # x.id
  PROVE  Store!Bytes(Q \cup {x}) = Store!Bytes(Q) + x.sizeBytes
<1> DEFINE R == Q \cup {x}
           N == MaxSubmitted
           k == x.id
<1>1. R \in SUBSET Stored /\ Distinct(R)
  BY DEF Distinct
<1>2. N \in Nat /\ k \in 1 .. N /\ x.sizeBytes \in Nat
  BY QueueAssumption DEF Stored
<1>3. x \in R /\ Q \subseteq R
  OBVIOUS
<1>4. \A y \in R : y = x \/ y \in Q
  OBVIOUS
<1>. HIDE DEF R
<1>5. SizesAt(R)[k] = x.sizeBytes /\ SizesAt(Q)[k] = 0
  <2>1. Store!SizeAt(R, k) = x.sizeBytes
    BY <1>1, <1>3, SizeAtItem
  <2>2. Store!SizeAt(Q, k) = 0
    BY SizeAtItem
  <2>. QED
    BY <1>2, <2>1, <2>2 DEF SizesAt
<1>6. ASSUME NEW n \in 1 .. N, n # k PROVE SizesAt(Q)[n] = SizesAt(R)[n]
  <2>1. CASE \E y \in Q : y.id = n
    <3>1. PICK y \in Q : y.id = n
      BY <2>1
    <3>2. Store!SizeAt(Q, n) = y.sizeBytes
      BY <3>1, SizeAtItem
    <3>3. Store!SizeAt(R, n) = y.sizeBytes
      BY <1>1, <1>3, <3>1, SizeAtItem
    <3>. QED
      BY <3>2, <3>3 DEF SizesAt
  <2>2. CASE \A y \in Q : y.id # n
    <3>1. Store!SizeAt(Q, n) = 0
      BY <2>2, SizeAtItem
    <3>2. \A y \in R : y.id # n
      BY <1>4, <1>6, <2>2
    <3>3. Store!SizeAt(R, n) = 0
      BY <1>1, <3>2, SizeAtItem
    <3>. QED
      BY <3>1, <3>3 DEF SizesAt
  <2>. QED
    BY <2>1, <2>2
<1>7. /\ SizesAt(Q) \in [1 .. N -> Nat]
      /\ \E g \in [0 .. N -> Nat] : Sums(g, SizesAt(Q), N) /\ Store!Bytes(Q) = g[N]
  BY BytesSummed
<1>8. /\ SizesAt(R) \in [1 .. N -> Nat]
      /\ \E h \in [0 .. N -> Nat] : Sums(h, SizesAt(R), N) /\ Store!Bytes(R) = h[N]
  BY <1>1, BytesSummed
<1>9. PICK g \in [0 .. N -> Nat] : Sums(g, SizesAt(Q), N) /\ Store!Bytes(Q) = g[N]
  BY <1>7, Zenon
<1>10. PICK h \in [0 .. N -> Nat] : Sums(h, SizesAt(R), N) /\ Store!Bytes(R) = h[N]
  BY <1>8, Zenon
<1>11. h[N] = g[N] + SizesAt(R)[k]
  <2>1. Adds(g, SizesAt(Q), N) /\ Adds(h, SizesAt(R), N)
    BY <1>2, <1>7, <1>8, <1>9, <1>10 DEF Adds
  <2>2. OneMore(SizesAt(Q), SizesAt(R), N, k)
    BY <1>2, <1>5, <1>6, Zenon DEF OneMore
  <2>. HIDE DEF N, k
  <2>3. DifferBy(g, h, N, SizesAt(R)[k])
    BY <2>1, <2>2, SumsDiffer, Zenon
  <2>. QED
    BY <2>3, Zenon DEF DifferBy
<1>. QED
  BY <1>5, <1>9, <1>10, <1>11 DEF R

\* A part has no more bytes.
LEMMA BytesOfPart ==
  ASSUME NEW R \in SUBSET Stored, Distinct(R), NEW Q \in SUBSET R
  PROVE  Store!Bytes(Q) <= Store!Bytes(R) /\ Store!Bytes(Q) \in Nat /\ Store!Bytes(R) \in Nat
<1> DEFINE N == MaxSubmitted
<1>1. Q \in SUBSET Stored /\ Distinct(Q) /\ N \in Nat
  BY QueueAssumption DEF Distinct
<1>2. /\ SizesAt(Q) \in [1 .. N -> Nat]
      /\ \E g \in [0 .. N -> Nat] : Sums(g, SizesAt(Q), N) /\ Store!Bytes(Q) = g[N]
  BY <1>1, BytesSummed
<1>3. /\ SizesAt(R) \in [1 .. N -> Nat]
      /\ \E h \in [0 .. N -> Nat] : Sums(h, SizesAt(R), N) /\ Store!Bytes(R) = h[N]
  BY BytesSummed
<1>4. ASSUME NEW n \in 1 .. N PROVE SizesAt(Q)[n] <= SizesAt(R)[n]
  <2>1. CASE \E y \in Q : y.id = n
    <3>1. PICK y \in Q : y.id = n
      BY <2>1
    <3>2. Store!SizeAt(Q, n) = y.sizeBytes
      BY <1>1, <3>1, SizeAtItem
    <3>3. Store!SizeAt(R, n) = y.sizeBytes
      BY <3>1, SizeAtItem
    <3>4. SizesAt(Q)[n] = SizesAt(R)[n]
      BY <3>2, <3>3 DEF SizesAt
    <3>. QED
      BY <1>2, <3>4
  <2>2. CASE \A y \in Q : y.id # n
    <3>1. Store!SizeAt(Q, n) = 0
      BY <1>1, <2>2, SizeAtItem
    <3>2. SizesAt(Q)[n] = 0
      BY <3>1 DEF SizesAt
    <3>. QED
      BY <1>3, <3>2
  <2>. QED
    BY <2>1, <2>2
<1>5. PICK g \in [0 .. N -> Nat] : Sums(g, SizesAt(Q), N) /\ Store!Bytes(Q) = g[N]
  BY <1>2, Zenon
<1>6. PICK h \in [0 .. N -> Nat] : Sums(h, SizesAt(R), N) /\ Store!Bytes(R) = h[N]
  BY <1>3, Zenon
<1>7. g[N] <= h[N]
  <2>. HIDE DEF N
  <2>. QED
    BY <1>1, <1>2, <1>3, <1>4, <1>5, <1>6, SumsGrow, Zenon
<1>. QED
  BY <1>1, <1>5, <1>6, <1>7

\* An array and the set of its items have as many bytes and items.
Measured(q) ==
  /\ SizeOf(q) = Store!Bytes(StoredItems(q))
  /\ IsFiniteSet(StoredItems(q))
  /\ Cardinality(StoredItems(q)) = Len(q)

LEMMA MeasuredMore ==
  ASSUME NEW q \in Seq(Item), NEW i \in Item, Ascending(Append(q, i)), Measured(q)
  PROVE  Measured(Append(q, i)) /\ StoredItems(Append(q, i)) = StoredItems(q) \cup {Entry(i)}
<1> DEFINE r == Append(q, i)
<1>1. r \in Seq(Item) /\ Len(r) = Len(q) + 1 /\ r[Len(q) + 1] = i /\ Len(q) \in Nat
      /\ \A n \in 1 .. Len(q) : r[n] = q[n]
  OBVIOUS
<1>. HIDE DEF r
<1>2. ToSet(r) = ToSet(q) \cup {i}
  <2>1. DOMAIN r = 1 .. Len(q) + 1 /\ DOMAIN q = 1 .. Len(q)
    BY <1>1
  <2>. QED
    BY <1>1, <2>1 DEF ToSet
<1>3. StoredItems(r) = StoredItems(q) \cup {Entry(i)}
  <2>1. StoredItems(r) = {Entry(j) : j \in ToSet(r)} /\ StoredItems(q) = {Entry(j) : j \in ToSet(q)}
    BY <1>1, EntriesOf
  <2>. QED
    BY <1>2, <2>1, Zenon
<1>4. Ascending(q)
  <2>1. \A a \in 1 .. Len(q) : a \in 1 .. Len(r)
    BY <1>1
  <2>2. Ascending(r)
    BY DEF r
  <2>. QED
    BY <1>1, <2>1, <2>2 DEF Ascending
<1>5. \A y \in StoredItems(q) : y.id # Entry(i).id
  <2>1. ASSUME NEW n \in 1 .. Len(q) PROVE q[n].id # i.id
    <3>1. n \in 1 .. Len(r) /\ Len(q) + 1 \in 1 .. Len(r) /\ n < Len(q) + 1
      BY <1>1
    <3>2. q[n].id < i.id
      <4>1. Ascending(r)
        BY DEF r
      <4>. QED
        BY <1>1, <3>1, <4>1 DEF Ascending
    <3>3. q[n] \in Item
      OBVIOUS
    <3>. QED
      BY SMTT(30), <3>2, <3>3 DEF Item
  <2>2. \A j \in ToSet(q) : j.id # i.id
    BY <2>1 DEF ToSet
  <2>. QED
    BY <2>2, EntriesOf
<1>6. Store!Bytes(StoredItems(r)) = Store!Bytes(StoredItems(q)) + i.sizeBytes
  <2>1. Distinct(StoredItems(q)) /\ StoredItems(q) \in SUBSET Stored
    BY <1>4, AscendingDistinct, EntriesOf
  <2>2. Entry(i) \in Stored /\ Entry(i).sizeBytes = i.sizeBytes
    BY EntriesOf
  <2>. QED
    BY <1>3, <1>5, <2>1, <2>2, BytesMore
<1>7. SizeOf(r) = SizeOf(q) + i.sizeBytes
  BY SizeMore DEF r
<1>8. IsFiniteSet(StoredItems(r)) /\ Cardinality(StoredItems(r)) = Len(q) + 1
  <2>1. Entry(i) \notin StoredItems(q)
    BY <1>5
  <2>2. IsFiniteSet(StoredItems(q)) /\ Cardinality(StoredItems(q)) = Len(q)
    BY DEF Measured
  <2>. QED
    BY <1>3, <2>1, <2>2, FS_AddElement
<1>. QED
  BY <1>1, <1>3, <1>6, <1>7, <1>8 DEF Measured, r

LEMMA MeasuredBySet ==
  ASSUME NEW q \in Seq(Item), Ascending(q)
  PROVE  Measured(q)
<1> DEFINE T == {n \in Nat : \A r \in Seq(Item) : Len(r) = n /\ Ascending(r) => Measured(r)}
<1>1. 0 \in T
  <2>1. \A r \in Seq(Item) : Len(r) = 0 => r = << >>
    OBVIOUS
  <2>2. Measured(<< >>)
    <3>1. << >> \in Seq(Item) /\ StoredItems(<< >>) = {} /\ Len(<< >>) = 0
      BY DEF StoredItems, ToSet
    <3>2. Store!Bytes({}) = 0
      <4> DEFINE N == MaxSubmitted
      <4>1. PICK g \in [0 .. N -> Nat] : Sums(g, SizesAt({}), N) /\ Store!Bytes({}) = g[N]
        BY BytesSummed
      <4>2. \A n \in 1 .. N : SizesAt({})[n] = 0
        BY DEF SizesAt, Store!SizeAt
      <4> DEFINE U == {n \in Nat : n <= N => g[n] = 0}
      <4>3. 0 \in U
        BY <4>1 DEF Sums
      <4>4. ASSUME NEW n \in Nat, n \in U PROVE n + 1 \in U
        <5>1. SUFFICES ASSUME n + 1 <= N PROVE g[n + 1] = 0
          OBVIOUS
        <5>2. n + 1 \in 1 .. N /\ (n + 1) - 1 = n /\ g[n] = 0
          BY <4>4, <5>1, QueueAssumption
        <5>. QED
          BY <4>1, <4>2, <5>2 DEF Sums
      <4>5. N \in U
        <5>. HIDE DEF U
        <5>. QED
          BY <4>3, <4>4, QueueAssumption, SetInduction
      <4>. QED
        BY <4>1, <4>5
    <3>. QED
      BY <3>1, <3>2, SizeNothing, FS_EmptySet DEF Measured
  <2>. QED
    BY <2>1, <2>2
<1>2. ASSUME NEW n \in Nat, n \in T PROVE n + 1 \in T
  <2>1. SUFFICES ASSUME NEW r \in Seq(Item), Len(r) = n + 1, Ascending(r) PROVE Measured(r)
    OBVIOUS
  <2> DEFINE s == SubSeq(r, 1, n)
             i == r[n + 1]
  <2>2. s \in Seq(Item) /\ Len(s) = n /\ i \in Item /\ r = Append(s, i)
    BY <2>1
  <2>3. \A k \in 1 .. n : s[k] = r[k] /\ k \in 1 .. Len(r)
    BY <2>1
  <2>. HIDE DEF s, i
  <2>4. Ascending(s)
    BY <2>1, <2>2, <2>3 DEF Ascending
  <2>5. Measured(s)
    BY <1>2, <2>2, <2>4
  <2>. QED
    BY <2>1, <2>2, <2>5, MeasuredMore, Zenon
<1>3. Len(q) \in T
  <2>. HIDE DEF T
  <2>. QED
    BY <1>1, <1>2, SetInduction
<1>. QED
  BY <1>3

-----------------------------------------------------------------------------
(* evictToFit *)

\* splice(worst, 1) takes one item out.
LEMMA ItemRemoved ==
  ASSUME NEW q \in Seq(Item), Ascending(q), NEW w \in 1 .. Len(q)
  PROVE  /\ RemoveAt(q, w) \in Seq(Item)
         /\ Len(RemoveAt(q, w)) = Len(q) - 1
         /\ Ascending(RemoveAt(q, w))
         /\ ToSet(RemoveAt(q, w)) = ToSet(q) \ {q[w]}
<1> DEFINE r == RemoveAt(q, w)
           from(i) == IF i < w THEN i ELSE i + 1
<1>1. r \in Seq(Item) /\ WithoutOne(r, q, w)
  BY OneRemoved, Zenon DEF RemoveAt
<1>. HIDE DEF r
<1>2. /\ Len(r) = Len(q) - 1 /\ DOMAIN r = 1 .. Len(q) - 1 /\ DOMAIN q = 1 .. Len(q)
      /\ Len(q) \in Nat
      /\ \A i \in 1 .. Len(q) - 1 : r[i] = q[from(i)]
  BY <1>1 DEF WithoutOne
<1>3. /\ \A i \in 1 .. Len(q) - 1 : from(i) \in 1 .. Len(q) /\ from(i) # w
      /\ \A i, j \in 1 .. Len(q) - 1 : i < j => from(i) < from(j)
      /\ \A k \in 1 .. Len(q) : k # w => \E i \in 1 .. Len(q) - 1 : from(i) = k
  <2>1. \A i \in 1 .. Len(q) - 1 : from(i) \in 1 .. Len(q) /\ from(i) # w
    BY <1>2
  <2>2. \A i, j \in 1 .. Len(q) - 1 : i < j => from(i) < from(j)
    BY <1>2
  <2>3. ASSUME NEW k \in 1 .. Len(q), k # w PROVE \E i \in 1 .. Len(q) - 1 : from(i) = k
    <3>1. CASE k < w
      <4>1. k \in 1 .. Len(q) - 1 /\ from(k) = k
        BY <1>2, <3>1
      <4>. QED
        BY <4>1
    <3>2. CASE w < k
      <4>1. k - 1 \in 1 .. Len(q) - 1 /\ from(k - 1) = k
        BY <1>2, <3>2
      <4>. QED
        BY <4>1
    <3>. QED
      BY <2>3, <3>1, <3>2
  <2>. QED
    BY <2>1, <2>2, <2>3
<1>. HIDE DEF from
<1>4. Ascending(r)
  <2>1. ASSUME NEW a \in 1 .. Len(r), NEW b \in 1 .. Len(r), a < b
        PROVE  r[a].id < r[b].id /\ r[a].createdAt <= r[b].createdAt
    <3>1. a \in 1 .. Len(q) - 1 /\ b \in 1 .. Len(q) - 1
      BY <1>2
    <3>2. from(a) \in 1 .. Len(q) /\ from(b) \in 1 .. Len(q) /\ from(a) < from(b)
      BY <1>3, <2>1, <3>1
    <3>3. r[a] = q[from(a)] /\ r[b] = q[from(b)]
      BY <1>2, <3>1
    <3>. QED
      BY <3>2, <3>3, Zenon DEF Ascending
  <2>. QED
    BY <2>1, Zenon DEF Ascending
<1>5. ToSet(r) = ToSet(q) \ {q[w]}
  <2>1. \A k \in 1 .. Len(q) : q[k] = q[w] => k = w
    <3>1. \A k \in 1 .. Len(q) : q[k].id \in Int
      <4>1. \A k \in 1 .. Len(q) : q[k] \in Item
        OBVIOUS
      <4>. QED
        BY SMTT(30), <4>1 DEF Item
    <3>2. ASSUME NEW k \in 1 .. Len(q), q[k] = q[w] PROVE k = w
      <4>1. ~(k < w) /\ ~(w < k)
        BY <3>1, <3>2 DEF Ascending
      <4>. QED
        BY <4>1
    <3>. QED
      BY <3>2
  <2>2. ToSet(r) = {r[i] : i \in 1 .. Len(q) - 1} /\ ToSet(q) = {q[k] : k \in 1 .. Len(q)}
    BY <1>2 DEF ToSet
  <2>. QED
    BY <1>2, <1>3, <2>1, <2>2
<1>. QED
  BY <1>1, <1>2, <1>4, <1>5 DEF r

\* The scan for the worst item.
Scans(g, q) ==
  /\ g[0] = 1
  /\ \A n \in 1 .. Len(q) : g[n] = IF Worse(q[n], q[g[n - 1]]) THEN n ELSE g[n - 1]

LEMMA ScannedOneByOne ==
  ASSUME NEW q \in Seq(Item), q # << >>
  PROVE  \E g \in [0 .. Len(q) -> 1 .. Len(q)] : Scans(g, q) /\ WorstIdx(q) = g[Len(q)]
<1> DEFINE N == Len(q)
           S == 1 .. N
           next(f) == [n \in 0 .. N |->
                         IF n = 0
                         THEN 1
                         ELSE IF Worse(q[n], q[f[n - 1]]) THEN n ELSE f[n - 1]]
           step == [n \in 1 .. N |-> [w \in S |-> IF Worse(q[n], q[w]) THEN n ELSE w]]
           h == CHOOSE f : f = next(f)
<1>1. N \in Nat /\ 1 \in S
  OBVIOUS
<1>2. step \in [1 .. N -> [S -> S]]
  <2>1. ASSUME NEW n \in 1 .. N, NEW w \in S
        PROVE  (IF Worse(q[n], q[w]) THEN n ELSE w) \in S
    BY Zenon
  <2>. HIDE DEF N
  <2>. QED
    BY <2>1, Zenon
<1>3. PICK g \in [0 .. N -> S] : Recursion(g, 1, N, step)
  <2>. HIDE DEF step, N, S
  <2>. QED
    BY <1>1, <1>2, RecursiveFunction
<1>4. \A n \in 1 .. N : g[n] = IF Worse(q[n], q[g[n - 1]]) THEN n ELSE g[n - 1]
  <2>1. ASSUME NEW n \in 1 .. N
        PROVE  g[n] = IF Worse(q[n], q[g[n - 1]]) THEN n ELSE g[n - 1]
    <3>1. g[n - 1] \in S
      BY <1>1
    <3>2. step[n][g[n - 1]] = IF Worse(q[n], q[g[n - 1]]) THEN n ELSE g[n - 1]
      <4>. HIDE DEF S, N
      <4>. QED
        BY <3>1, Zenon
    <3>. QED
      BY <1>3, <3>2, Zenon DEF Recursion
  <2>. QED
    BY <2>1
<1>5. g = next(g)
  <2>1. ASSUME NEW n \in 0 .. N PROVE g[n] = next(g)[n]
    <3>1. CASE n = 0
      BY <1>3, <3>1, Zenon DEF Recursion
    <3>2. CASE n # 0
      <4>1. n \in 1 .. N
        BY <1>1, <3>2
      <4>. QED
        BY <1>4, <3>2, <4>1, Zenon
    <3>. QED
      BY <3>1, <3>2
  <2>2. g = [n \in 0 .. N |-> g[n]]
    BY <1>3
  <2>. QED
    BY <2>1, <2>2, Zenon
<1>6. h = next(h)
  <2>. HIDE DEF next
  <2>. QED
    BY <1>5
<1>7. WorstIdx(q) = h[N]
  BY Zenon DEF WorstIdx
<1>. HIDE DEF h
<1>8. h[0] = 1
  <2>1. 0 \in 0 .. N
    BY <1>1
  <2>. QED
    BY <1>6, <2>1, Zenon
<1>9. ASSUME NEW n \in 1 .. N
      PROVE  h[n] = IF Worse(q[n], q[h[n - 1]]) THEN n ELSE h[n - 1]
  <2>1. n \in 0 .. N /\ n # 0
    BY <1>1
  <2>. QED
    BY <1>6, <2>1, Zenon
<1>10. h = [n \in 0 .. N |-> h[n]]
  BY <1>6, Zenon
<1>11. Obeys(h, S, 1, N, step)
  <2>1. \A n \in 1 .. N : h[n - 1] \in S => h[n] = step[n][h[n - 1]]
    <3>. HIDE DEF S, N
    <3>. QED
      BY <1>9, Zenon
  <2>. HIDE DEF S, N, step
  <2>. QED
    BY <1>8, <1>10, <2>1, Zenon DEF Obeys
<1>12. h \in [0 .. N -> S]
  <2>. HIDE DEF step, N, S
  <2>. QED
    BY <1>1, <1>2, <1>11, RecursiveValues, Zenon
<1>. QED
  BY <1>7, <1>8, <1>9, <1>12, Zenon DEF Scans

\* It finds the item that goes before all others.
LEMMA WorstGoesFirst ==
  ASSUME NEW q \in Seq(Item), q # << >>, Ascending(q)
  PROVE  /\ WorstIdx(q) \in 1 .. Len(q)
         /\ \A k \in 1 .. Len(q) :
              k # WorstIdx(q) => Store!EvictedBefore(q[WorstIdx(q)], q[k])
<1>1. PICK g \in [0 .. Len(q) -> 1 .. Len(q)] : Scans(g, q) /\ WorstIdx(q) = g[Len(q)]
  BY ScannedOneByOne, Zenon
<1>2. \A k \in 1 .. Len(q) : q[k].priority \in Int /\ q[k].id \in Int /\ q[k].createdAt \in Int
  <2>1. \A k \in 1 .. Len(q) : q[k] \in Item
    OBVIOUS
  <2>2. ASSUME NEW i \in Item PROVE i.priority \in Int /\ i.id \in Int /\ i.createdAt \in Int
    <3>1. i.priority \in Priority /\ i.id \in 1 .. MaxSubmitted /\ i.createdAt \in 0 .. MaxTime
      BY DEF Item
    <3>2. i.priority \in Int
      BY <3>1, QueueAssumption
    <3>3. i.id \in Int /\ i.createdAt \in Int
      BY <3>1
    <3>. QED
      BY <3>2, <3>3
  <2>. QED
    BY <2>1, <2>2
<1> DEFINE First(n, w) ==
             /\ w <= n \/ n = 0
             /\ \A k \in 1 .. n : k # w => \/ q[w].priority > q[k].priority
                                           \/ q[w].priority = q[k].priority /\ w < k
           T == {n \in Nat : n <= Len(q) => First(n, g[n])}
<1>3. 0 \in T
  OBVIOUS
<1>4. ASSUME NEW n \in Nat, n \in T PROVE n + 1 \in T
  <2>1. SUFFICES ASSUME n + 1 <= Len(q) PROVE First(n + 1, g[n + 1])
    OBVIOUS
  <2>2. n + 1 \in 1 .. Len(q) /\ (n + 1) - 1 = n /\ n \in 0 .. Len(q)
    BY <2>1
  <2>3. First(n, g[n])
    BY <1>4, <2>1
  <2> DEFINE w == g[n]
             m == n + 1
  <2>4. w \in 1 .. Len(q)
    BY <2>2
  <2>5. g[m] = IF Worse(q[m], q[w]) THEN m ELSE w
    BY <1>1, <2>2 DEF Scans
  <2>6. n = 0 => w = 1
    BY <1>1 DEF Scans
  <2>. HIDE DEF w
  <2>7. CASE n = 0
    <3>1. w = 1 /\ m = 1 /\ g[m] = 1
      BY <2>5, <2>6, <2>7
    <3>. QED
      BY <2>7, <3>1
  <2>8. CASE n # 0
    <3>1. w <= n /\ w < m
      BY <2>3, <2>4, <2>8 DEF w
    <3>2. q[w].createdAt <= q[m].createdAt
      BY <2>2, <2>4, <3>1 DEF Ascending
    <3>3. \A k \in 1 .. n : k # w => \/ q[w].priority > q[k].priority
                                     \/ q[w].priority = q[k].priority /\ w < k
      BY <2>3 DEF w
    <3>4. CASE Worse(q[m], q[w])
      <4>1. q[m].priority > q[w].priority
        BY <1>2, <2>2, <2>4, <3>2, <3>4 DEF Worse
      <4>2. ASSUME NEW k \in 1 .. m, k # m PROVE q[m].priority > q[k].priority
        <5>1. k \in 1 .. n /\ k \in 1 .. Len(q)
          BY <2>2, <4>2
        <5>2. q[w].priority >= q[k].priority
          BY <1>2, <2>4, <3>3, <5>1
        <5>. QED
          BY SMTT(30), <1>2, <2>2, <2>4, <4>1, <5>1, <5>2
      <4>. QED
        BY <2>5, <3>4, <4>2
    <3>5. CASE ~Worse(q[m], q[w])
      <4>1. g[m] = w
        BY <2>5, <3>5
      <4>2. ASSUME NEW k \in 1 .. m, k # w
            PROVE  \/ q[w].priority > q[k].priority
                   \/ q[w].priority = q[k].priority /\ w < k
        <5>1. CASE k = m
          <6>1. ~(q[m].priority > q[w].priority)
            BY <3>5 DEF Worse
          <6>. QED
            BY <1>2, <2>2, <2>4, <3>1, <5>1, <6>1
        <5>2. CASE k # m
          <6>1. k \in 1 .. n
            BY <5>2
          <6>. QED
            BY <3>3, <4>2, <6>1
        <5>. QED
          BY <5>1, <5>2
      <4>. QED
        BY <3>1, <4>1, <4>2
    <3>. QED
      BY <3>4, <3>5
  <2>. QED
    BY <2>7, <2>8
<1>5. Len(q) \in T
  <2>. HIDE DEF T
  <2>1. Len(q) \in Nat
    OBVIOUS
  <2>. QED
    BY <1>3, <1>4, <2>1, SetInduction
<1>6. First(Len(q), g[Len(q)])
  BY <1>5
<1>7. WorstIdx(q) \in 1 .. Len(q)
  BY <1>1
<1>8. ASSUME NEW k \in 1 .. Len(q), k # WorstIdx(q)
      PROVE  Store!EvictedBefore(q[WorstIdx(q)], q[k])
  <2>1. \/ q[WorstIdx(q)].priority > q[k].priority
        \/ q[WorstIdx(q)].priority = q[k].priority /\ WorstIdx(q) < k
    BY <1>1, <1>6, <1>8
  <2>2. WorstIdx(q) < k => q[WorstIdx(q)].id < q[k].id
    BY <1>7 DEF Ascending
  <2>. QED
    BY <2>1, <2>2 DEF Store!EvictedBefore
<1>. QED
  BY <1>7, <1>8

\* What the loop carries.
Left == [queue : Seq(Item), bytes : Int]

LEMMA EvictWorstTyped ==
  ASSUME NEW left \in Left, NEW needed
  PROVE  EvictWorst(left, needed) \in Left
<1> DEFINE q == left.queue
           w == WorstIdx(q)
<1>1. q \in Seq(Item) /\ left.bytes \in Int
  BY DEF Left
<1>2. CASE ~Overfull(left, needed)
  BY <1>2 DEF EvictWorst
<1>3. CASE Overfull(left, needed)
  <2>1. q # << >>
    BY <1>3 DEF Overfull
  <2>2. w \in 1 .. Len(q)
    <3>1. PICK g \in [0 .. Len(q) -> 1 .. Len(q)] : Scans(g, q) /\ w = g[Len(q)]
      BY <1>1, <2>1, ScannedOneByOne, Zenon
    <3>2. Len(q) \in 0 .. Len(q)
      BY <1>1
    <3>. QED
      BY <3>1, <3>2
  <2>. HIDE DEF w, q
  <2>3. RemoveAt(q, w) \in Seq(Item)
    BY <1>1, <2>2, OneRemoved, Zenon DEF RemoveAt
  <2>4. left.bytes - q[w].sizeBytes \in Int
    <3>1. q[w] \in Item
      BY <1>1, <2>2
    <3>2. q[w].sizeBytes \in Size
      BY <3>1 DEF Item
    <3>3. q[w].sizeBytes \in Nat
      BY <3>2, QueueAssumption
    <3>4. \A a \in Int, b \in Nat : a - b \in Int
      OBVIOUS
    <3>5. left.bytes \in Int
      BY <1>1
    <3>. QED
      BY <3>3, <3>4, <3>5, Zenon
  <2>5. EvictWorst(left, needed) = [queue |-> RemoveAt(q, w), bytes |-> left.bytes - q[w].sizeBytes]
    BY <1>3, Zenon DEF EvictWorst, q, w
  <2>. QED
    BY <2>3, <2>4, <2>5 DEF Left
<1>. QED
  BY <1>2, <1>3

EvictsWorst(g, q, bytes, needed) ==
  /\ g[0] = [queue |-> q, bytes |-> bytes]
  /\ \A n \in 1 .. Len(q) : g[n] = EvictWorst(g[n - 1], needed)

LEMMA EvictedOneByOne ==
  ASSUME NEW q \in Seq(Item), NEW bytes \in Int, NEW needed
  PROVE  \E g \in [0 .. Len(q) -> Left] :
           EvictsWorst(g, q, bytes, needed) /\ EvictToFit(q, bytes, needed) = g[Len(q)]
<1> DEFINE N == Len(q)
           start == [queue |-> q, bytes |-> bytes]
           next(f) == [n \in 0 .. N |->
                         IF n = 0
                         THEN [queue |-> q, bytes |-> bytes]
                         ELSE EvictWorst(f[n - 1], needed)]
           step == [n \in 1 .. N |-> [left \in Left |-> EvictWorst(left, needed)]]
           h == CHOOSE f : f = next(f)
<1>1. N \in Nat /\ start \in Left
  BY DEF Left
<1>2. step \in [1 .. N -> [Left -> Left]]
  <2>1. ASSUME NEW left \in Left PROVE EvictWorst(left, needed) \in Left
    BY EvictWorstTyped, Zenon
  <2>. HIDE DEF N
  <2>. QED
    BY <2>1, Zenon
<1>3. PICK g \in [0 .. N -> Left] : Recursion(g, start, N, step)
  <2>. HIDE DEF step, N, start
  <2>. QED
    BY <1>1, <1>2, RecursiveFunction
<1>4. \A n \in 1 .. N : g[n] = EvictWorst(g[n - 1], needed)
  <2>1. ASSUME NEW n \in 1 .. N PROVE g[n] = EvictWorst(g[n - 1], needed)
    <3>1. n - 1 \in 0 .. N
      BY <1>1
    <3>2. g[n - 1] \in Left
      BY <3>1, Zenon
    <3>3. step[n][g[n - 1]] = EvictWorst(g[n - 1], needed)
      <4>. HIDE DEF N
      <4>. QED
        BY <3>2, Zenon
    <3>. QED
      BY <1>3, <3>3, Zenon DEF Recursion
  <2>. QED
    BY <2>1
<1>5. g = next(g)
  <2>1. ASSUME NEW n \in 0 .. N PROVE g[n] = next(g)[n]
    <3>1. CASE n = 0
      BY <1>3, <3>1, Zenon DEF Recursion
    <3>2. CASE n # 0
      <4>1. n \in 1 .. N
        BY <1>1, <3>2
      <4>. QED
        BY <1>4, <3>2, <4>1, Zenon
    <3>. QED
      BY <3>1, <3>2
  <2>2. g = [n \in 0 .. N |-> g[n]]
    BY <1>3, Zenon
  <2>. QED
    BY <2>1, <2>2, Zenon
<1>6. h = next(h)
  <2>. HIDE DEF next
  <2>. QED
    BY <1>5
<1>7. EvictToFit(q, bytes, needed) = h[N]
  BY Zenon DEF EvictToFit
<1>. HIDE DEF h
<1>8. h[0] = start
  <2>1. 0 \in 0 .. N
    BY <1>1
  <2>. QED
    BY <1>6, <2>1, Zenon
<1>9. ASSUME NEW n \in 1 .. N PROVE h[n] = EvictWorst(h[n - 1], needed)
  <2>1. n \in 0 .. N /\ n # 0
    BY <1>1
  <2>. QED
    BY <1>6, <2>1, Zenon
<1>10. h = [n \in 0 .. N |-> h[n]]
  BY <1>6, Zenon
<1>11. Obeys(h, Left, start, N, step)
  <2>1. \A n \in 1 .. N : h[n - 1] \in Left => h[n] = step[n][h[n - 1]]
    <3>. HIDE DEF N
    <3>. QED
      BY <1>9, Zenon
  <2>. HIDE DEF N, step, start
  <2>. QED
    BY <1>8, <1>10, <2>1, Zenon DEF Obeys
<1>12. h \in [0 .. N -> Left]
  <2>. HIDE DEF step, N, start
  <2>. QED
    BY <1>1, <1>2, <1>11, RecursiveValues, Zenon
<1>. QED
  BY <1>7, <1>8, <1>9, <1>12, Zenon DEF EvictsWorst

\* The items of Q that do not go before v.
UpTo(Q, v) == {x \in Q : ~Store!EvictedBefore(x, v)}

\* r is what the loop leaves of the items Q: the most important ones, and those that
\* are gone did not fit beside the ones that outrank them.
Leaves(r, Q, needed) ==
  /\ StoredItems(r) \subseteq Q
  /\ Store!KeepsMostImportant(Q, StoredItems(r))
  /\ \A v \in Q \ StoredItems(r) : Store!Overfull(UpTo(Q, v), needed)

\* The store counts as the array does.
LEMMA SameCount == \A S : Store!Cardinality(S) = Cardinality(S)
  BY Zenon DEF Store!Cardinality, Cardinality

LEMMA OverfullArray ==
  ASSUME NEW left, left.queue \in Seq(Item), Ascending(left.queue),
         left.bytes = SizeOf(left.queue), NEW needed
  PROVE  Overfull(left, needed) <=> Store!Overfull(StoredItems(left.queue), needed)
<1> DEFINE q == left.queue
<1>1. Measured(q)
  BY MeasuredBySet
<1>2. q = << >> <=> StoredItems(q) = {}
  <2>1. q = << >> <=> Len(q) = 0
    OBVIOUS
  <2>2. Cardinality(StoredItems(q)) = 0 <=> StoredItems(q) = {}
    BY <1>1, FS_EmptySet DEF Measured
  <2>. QED
    BY <1>1, <2>1, <2>2 DEF Measured
<1>3. left.bytes = Store!Bytes(StoredItems(q)) /\ Len(q) = Cardinality(StoredItems(q))
  BY <1>1, Zenon DEF Measured
<1> DEFINE Q == StoredItems(q)
<1>4. left.queue # << >> <=> Q # {}
  BY <1>2
<1>5. /\ left.bytes + needed > MaxBytes <=> Store!Bytes(Q) + needed > MaxBytes
      /\ Len(left.queue) >= MaxItems <=> Store!Cardinality(Q) >= MaxItems
  BY <1>3, SameCount, Zenon
<1>. HIDE DEF Q
<1>6. Overfull(left, needed) <=> Store!Overfull(Q, needed)
  BY <1>4, <1>5, Zenon DEF Overfull, Store!Overfull
<1>. QED
  BY <1>6 DEF Q

\* One turn of the loop.
LEMMA EvictTurn ==
  ASSUME NEW left \in Left, Ascending(left.queue), left.bytes = SizeOf(left.queue),
         NEW Q \in SUBSET Stored, NEW needed, Leaves(left.queue, Q, needed),
         Overfull(left, needed)
  PROVE  LET after == EvictWorst(left, needed)
         IN  /\ Ascending(after.queue) /\ after.bytes = SizeOf(after.queue)
             /\ ToSet(after.queue) \subseteq ToSet(left.queue)
             /\ Len(after.queue) = Len(left.queue) - 1
             /\ Leaves(after.queue, Q, needed)
<1> DEFINE q == left.queue
           w == WorstIdx(q)
           r == RemoveAt(q, w)
           i == q[w]
           e == Entry(i)
<1>1. q \in Seq(Item) /\ q # << >>
  BY DEF Left, Overfull
<1>2. w \in 1 .. Len(q) /\ \A k \in 1 .. Len(q) : k # w => Store!EvictedBefore(i, q[k])
  BY <1>1, WorstGoesFirst, Zenon
<1>3. EvictWorst(left, needed) = [queue |-> r, bytes |-> left.bytes - i.sizeBytes]
  BY Zenon DEF EvictWorst
<1>. HIDE DEF w
<1>4. r \in Seq(Item) /\ Len(r) = Len(q) - 1 /\ Ascending(r) /\ ToSet(r) = ToSet(q) \ {i}
  BY <1>1, <1>2, ItemRemoved, Zenon
<1>5. i \in Item /\ i \in ToSet(q)
  BY <1>1, <1>2 DEF ToSet
<1>. HIDE DEF r
<1>6. StoredItems(q) = StoredItems(r) \cup {e} /\ e \notin StoredItems(r)
  <2>1. StoredItems(r) = {Entry(j) : j \in ToSet(r)} /\ StoredItems(q) = {Entry(j) : j \in ToSet(q)}
    BY <1>1, <1>4, EntriesOf
  <2>2. ASSUME NEW j \in ToSet(r) PROVE Entry(j) # e
    <3>1. j \in ToSet(q) /\ j # i
      BY <1>4
    <3>2. j.id # i.id
      <4>1. Distinct(ToSet(q))
        BY <1>1, AscendingDistinct
      <4>. QED
        BY <1>5, <3>1, <4>1 DEF Distinct
    <3>. QED
      BY <3>2 DEF Entry
  <2>. QED
    BY <1>4, <1>5, <2>1, <2>2
<1>7. e \in Stored /\ e.sizeBytes = i.sizeBytes
  BY <1>1, <1>5, EntriesOf
<1>8. SizeOf(q) = SizeOf(r) + i.sizeBytes
  <2>1. StoredItems(r) \in SUBSET Stored /\ StoredItems(q) \in SUBSET Stored
    BY <1>1, <1>4, EntriesOf
  <2>2. Distinct(StoredItems(r)) /\ Distinct(StoredItems(q))
    BY <1>1, <1>4, AscendingDistinct
  <2>3. \A y \in StoredItems(r) : y.id # e.id
    BY <1>6, <2>2 DEF Distinct
  <2>4. Store!Bytes(StoredItems(q)) = Store!Bytes(StoredItems(r)) + e.sizeBytes
    BY <1>6, <1>7, <2>1, <2>2, <2>3, BytesMore
  <2>5. Measured(q) /\ Measured(r)
    BY <1>1, <1>4, MeasuredBySet
  <2>. QED
    BY <1>7, <2>4, <2>5 DEF Measured
<1>9. left.bytes - i.sizeBytes = SizeOf(r)
  <2>1. i.sizeBytes \in Nat
    <3>1. i.sizeBytes \in Size
      BY <1>5 DEF Item
    <3>. QED
      BY <3>1, QueueAssumption
  <2>2. SizeOf(r) \in Nat
    <3>1. PICK g \in [0 .. Len(r) -> Nat] : SizeOf(r) = g[Len(r)]
      BY <1>4, SizeSummed
    <3>. QED
      BY <1>4, <3>1
  <2>. QED
    BY <1>8, <2>1, <2>2
<1>10. \A x \in StoredItems(r) : Store!EvictedBefore(e, x)
  <2>1. ASSUME NEW x \in StoredItems(r) PROVE Store!EvictedBefore(e, x)
    <3>1. PICK j \in ToSet(r) : x = Entry(j)
      BY <1>4, EntriesOf
    <3>2. j \in ToSet(q) /\ j # i
      BY <1>4
    <3>3. PICK k \in 1 .. Len(q) : j = q[k]
      BY <1>1, <3>2 DEF ToSet
    <3>4. Store!EvictedBefore(i, j)
      BY <1>2, <3>2, <3>3
    <3>. QED
      BY <3>1, <3>4 DEF Entry, Store!EvictedBefore
  <2>. QED
    BY <2>1
<1>11. Leaves(r, Q, needed)
  <2>1. StoredItems(r) \subseteq Q /\ e \in Q
    BY <1>6 DEF Leaves
  <2>2. Store!KeepsMostImportant(Q, StoredItems(r))
    <3>1. ASSUME NEW v \in Q \ StoredItems(r), NEW k \in StoredItems(r)
          PROVE  Store!EvictedBefore(v, k)
      <4>1. CASE v = e
        BY <1>10, <4>1
      <4>2. CASE v # e
        BY <1>6, <4>2 DEF Leaves, Store!KeepsMostImportant
      <4>. QED
        BY <4>1, <4>2
    <3>. QED
      BY <3>1, Zenon DEF Store!KeepsMostImportant
  <2>3. UpTo(Q, e) = StoredItems(q)
    <3>1. ASSUME NEW x \in Q, x \notin StoredItems(q) PROVE Store!EvictedBefore(x, e)
      BY <1>6, <3>1 DEF Leaves, Store!KeepsMostImportant
    <3>2. ASSUME NEW x \in StoredItems(q) PROVE x \in Q /\ ~Store!EvictedBefore(x, e)
      <4>1. x \in Q /\ x.priority \in Int /\ x.id \in Int /\ e.priority \in Int /\ e.id \in Int
        <5>1. x \in Stored /\ x \in Q
          BY DEF Leaves
        <5>2. \A y \in Stored : y.priority \in Int /\ y.id \in Int
          <6>1. ASSUME NEW y \in Stored PROVE y.priority \in Int
            <7>1. y.priority \in Priority
              BY DEF Stored
            <7>2. Priority \subseteq Int
              BY QueueAssumption
            <7>. QED
              BY <7>1, <7>2, Zenon
          <6>2. ASSUME NEW y \in Stored PROVE y.id \in Int
            BY DEF Stored
          <6>. QED
            BY <6>1, <6>2
        <5>. QED
          BY <1>7, <5>1, <5>2
      <4>2. x = e \/ Store!EvictedBefore(e, x)
        BY <1>6, <1>10
      <4>. QED
        BY <4>1, <4>2 DEF Store!EvictedBefore
    <3>. QED
      BY <3>1, <3>2 DEF UpTo
  <2>4. Store!Overfull(StoredItems(q), needed)
    BY <1>1, OverfullArray
  <2>5. ASSUME NEW v \in Q \ StoredItems(r) PROVE Store!Overfull(UpTo(Q, v), needed)
    <3>1. CASE v = e
      BY <2>3, <2>4, <3>1
    <3>2. CASE v # e
      BY <1>6, <3>2 DEF Leaves
    <3>. QED
      BY <3>1, <3>2
  <2>. QED
    BY <2>1, <2>2, <2>5, Zenon DEF Leaves
<1>. QED
  BY <1>3, <1>4, <1>9, <1>11


\* Where the loop is after n turns over q.
Turned(left, q, n, needed) ==
  /\ left \in Left
  /\ Ascending(left.queue)
  /\ left.bytes = SizeOf(left.queue)
  /\ ToSet(left.queue) \subseteq ToSet(q)
  /\ Leaves(left.queue, StoredItems(q), needed)
  /\ ~Overfull(left, needed) \/ Len(left.queue) = Len(q) - n

LEMMA TurnedMore ==
  ASSUME NEW q \in Seq(Item), NEW needed, NEW n \in Nat, NEW left, Turned(left, q, n, needed)
  PROVE  Turned(EvictWorst(left, needed), q, n + 1, needed)
<1>1. CASE ~Overfull(left, needed)
  <2>1. EvictWorst(left, needed) = left
    BY <1>1, Zenon DEF EvictWorst
  <2>. QED
    BY <1>1, <2>1, Zenon DEF Turned
<1>2. CASE Overfull(left, needed)
  <2> DEFINE after == EvictWorst(left, needed)
             Q == StoredItems(q)
  <2>1. Q \in SUBSET Stored
    BY EntriesOf
  <2>2. left \in Left /\ Ascending(left.queue) /\ left.bytes = SizeOf(left.queue)
        /\ ToSet(left.queue) \subseteq ToSet(q) /\ Leaves(left.queue, Q, needed)
        /\ Len(left.queue) = Len(q) - n
    BY <1>2, Zenon DEF Turned
  <2>3. after \in Left
    BY <2>2, EvictWorstTyped, Zenon
  <2>. HIDE DEF Q
  <2>4. /\ Ascending(after.queue) /\ after.bytes = SizeOf(after.queue)
        /\ ToSet(after.queue) \subseteq ToSet(left.queue)
        /\ Len(after.queue) = Len(left.queue) - 1
        /\ Leaves(after.queue, Q, needed)
    BY <1>2, <2>1, <2>2, EvictTurn, Zenon
  <2>. HIDE DEF after
  <2>5. Len(after.queue) = Len(q) - (n + 1)
    <3>1. Len(q) \in Nat
      OBVIOUS
    <3>. QED
      BY <2>2, <2>4, <3>1
  <2>6. ToSet(after.queue) \subseteq ToSet(q)
    BY <2>2, <2>4, Zenon
  <2>7. Turned(after, q, n + 1, needed)
    BY <2>3, <2>4, <2>5, <2>6, Zenon DEF Turned, Q
  <2>. QED
    BY <2>7 DEF after
<1>. QED
  BY <1>1, <1>2

\* What the loop leaves when it ends.
Evicted(left, q, needed) ==
  /\ left \in Left
  /\ Ascending(left.queue)
  /\ left.bytes = SizeOf(left.queue)
  /\ ToSet(left.queue) \subseteq ToSet(q)
  /\ Leaves(left.queue, StoredItems(q), needed)
  /\ ~Overfull(left, needed)

LEMMA Evicts ==
  ASSUME NEW q \in Seq(Item), Ascending(q), NEW needed
  PROVE  Evicted(EvictToFit(q, SizeOf(q), needed), q, needed)
<1>1. SizeOf(q) \in Int
  <2>1. PICK g \in [0 .. Len(q) -> Nat] : SizeOf(q) = g[Len(q)]
    BY SizeSummed
  <2>2. Len(q) \in 0 .. Len(q)
    OBVIOUS
  <2>. QED
    BY <2>1, <2>2
<1>2. PICK g \in [0 .. Len(q) -> Left] :
        EvictsWorst(g, q, SizeOf(q), needed) /\ EvictToFit(q, SizeOf(q), needed) = g[Len(q)]
  BY <1>1, EvictedOneByOne, Zenon
<1> DEFINE T == {n \in Nat : n <= Len(q) => Turned(g[n], q, n, needed)}
<1>3. 0 \in T
  <2> DEFINE start == [queue |-> q, bytes |-> SizeOf(q)]
  <2>1. start \in Left /\ start.queue = q /\ start.bytes = SizeOf(q)
    BY <1>1 DEF Left
  <2>2. g[0] = start
    BY <1>2, Zenon DEF EvictsWorst
  <2>. HIDE DEF start
  <2>3. Leaves(q, StoredItems(q), needed)
    BY Zenon DEF Leaves, Store!KeepsMostImportant
  <2>4. Len(q) = Len(q) - 0
    OBVIOUS
  <2>5. Turned(start, q, 0, needed)
    BY <2>1, <2>3, <2>4, Zenon DEF Turned
  <2>. QED
    BY <2>2, <2>5
<1>4. ASSUME NEW n \in Nat, n \in T PROVE n + 1 \in T
  <2>1. SUFFICES ASSUME n + 1 <= Len(q) PROVE Turned(g[n + 1], q, n + 1, needed)
    OBVIOUS
  <2>2. n + 1 \in 1 .. Len(q) /\ (n + 1) - 1 = n /\ Turned(g[n], q, n, needed)
    BY <1>4, <2>1
  <2>3. g[n + 1] = EvictWorst(g[n], needed)
    BY <1>2, <2>2, Zenon DEF EvictsWorst
  <2>. QED
    BY <2>2, <2>3, TurnedMore, Zenon
<1>5. Len(q) \in T
  <2>. HIDE DEF T
  <2>1. Len(q) \in Nat
    OBVIOUS
  <2>. QED
    BY <1>3, <1>4, <2>1, SetInduction
<1>6. Turned(g[Len(q)], q, Len(q), needed)
  BY <1>5
<1> DEFINE left == g[Len(q)]
<1>7. ~Overfull(left, needed)
  <2>1. CASE Len(left.queue) = Len(q) - Len(q)
    <3>1. left.queue \in Seq(Item)
      BY <1>6 DEF Turned, Left
    <3>2. Len(left.queue) = 0
      <4>1. Len(q) - Len(q) = 0
        OBVIOUS
      <4>. QED
        BY <2>1, <4>1
    <3>. HIDE DEF left
    <3>3. left.queue = << >>
      BY <3>1, <3>2
    <3>. QED
      BY <3>3 DEF Overfull
  <2>. QED
    BY <1>6, <2>1, Zenon DEF Turned
<1>. QED
  BY <1>2, <1>6, <1>7, Zenon DEF Turned, Evicted

-----------------------------------------------------------------------------
(* Eviction leaves what the store leaves *)

\* What does not fit does not fit beside more.
LEMMA OverfullMore ==
  ASSUME NEW q \in Seq(Item), Ascending(q), NEW P, NEW R, P \subseteq R, R \subseteq StoredItems(q),
         NEW needed \in Int, Store!Overfull(P, needed)
  PROVE  Store!Overfull(R, needed)
<1> DEFINE Q == StoredItems(q)
<1>1. Q \in SUBSET Stored /\ Distinct(Q) /\ IsFiniteSet(Q)
  BY MeasuredBySet, AscendingDistinct, EntriesOf DEF Measured
<1>. HIDE DEF Q
<1>2. R \in SUBSET Stored /\ Distinct(R) /\ IsFiniteSet(R)
  <2>1. R \subseteq Q
    BY DEF Q
  <2>2. IsFiniteSet(R)
    BY <1>1, <2>1, FS_Subset
  <2>. QED
    BY <1>1, <2>1, <2>2 DEF Distinct
<1>3. Store!Bytes(P) <= Store!Bytes(R) /\ Store!Bytes(P) \in Nat /\ Store!Bytes(R) \in Nat
  BY <1>2, BytesOfPart
<1>4. Cardinality(P) <= Cardinality(R) /\ Cardinality(P) \in Nat /\ Cardinality(R) \in Nat
  BY <1>2, FS_Subset, FS_CardinalityType
<1>5. P # {} /\ (Store!Bytes(P) + needed > MaxBytes \/ Cardinality(P) >= MaxItems)
  BY SameCount, Zenon DEF Store!Overfull
<1>6. Store!Bytes(R) + needed > MaxBytes \/ Cardinality(R) >= MaxItems
  <2>1. MaxBytes \in Int /\ MaxItems \in Int
    BY QueueAssumption
  <2>. QED
    BY <1>3, <1>4, <1>5, <2>1
<1>7. R # {}
  BY <1>5
<1>. QED
  BY <1>6, <1>7, SameCount, Zenon DEF Store!Overfull

\* The order of eviction is one.
LEMMA EvictionOrder ==
  ASSUME NEW x \in Stored, NEW y \in Stored, NEW z \in Stored
  PROVE  /\ ~Store!EvictedBefore(x, x)
         /\ Store!EvictedBefore(x, y) => ~Store!EvictedBefore(y, x)
         /\ Store!EvictedBefore(x, y) /\ Store!EvictedBefore(y, z) => Store!EvictedBefore(x, z)
         /\ x.id # y.id => Store!EvictedBefore(x, y) \/ Store!EvictedBefore(y, x)
<1>1. ASSUME NEW s \in Stored PROVE s.priority \in Int
  <2>1. s.priority \in Priority
    BY DEF Stored
  <2>2. Priority \subseteq Int
    BY QueueAssumption
  <2>. QED
    BY <2>1, <2>2, Zenon
<1>2. ASSUME NEW s \in Stored PROVE s.id \in Int
  BY DEF Stored
<1>3. /\ x.priority \in Int /\ y.priority \in Int /\ z.priority \in Int
      /\ x.id \in Int /\ y.id \in Int /\ z.id \in Int
  BY <1>1, <1>2
<1>. QED
  BY <1>3 DEF Store!EvictedBefore

LEMMA EvictsToFit ==
  ASSUME NEW q \in Seq(Item), Ascending(q), NEW needed \in Int, NEW left, Evicted(left, q, needed)
  PROVE  Store!EvictToFit(StoredItems(q), needed, StoredItems(left.queue))
<1> DEFINE Q == StoredItems(q)
           K == StoredItems(left.queue)
<1>1. /\ left.queue \in Seq(Item) /\ Ascending(left.queue) /\ left.bytes = SizeOf(left.queue)
      /\ Leaves(left.queue, Q, needed) /\ ~Overfull(left, needed)
  BY DEF Evicted, Left
<1>2. ~Store!Overfull(K, needed)
  BY <1>1, OverfullArray, Zenon
<1>3. K \subseteq Q /\ Store!KeepsMostImportant(Q, K)
      /\ \A v \in Q \ K : Store!Overfull(UpTo(Q, v), needed)
  BY <1>1, Zenon DEF Leaves
<1>4. Q \in SUBSET Stored
  BY EntriesOf
<1>. HIDE DEF K
<1>5. ASSUME NEW larger \in SUBSET Q, Store!KeepsMostImportant(Q, larger),
             ~Store!Overfull(larger, needed)
      PROVE  larger \subseteq K
  <2>1. SUFFICES ASSUME NEW v \in larger, v \notin K PROVE FALSE
    OBVIOUS
  <2>2. v \in Q \ K
    BY <2>1
  <2>3. UpTo(Q, v) \subseteq larger
    BY <1>5, <2>1 DEF UpTo, Store!KeepsMostImportant
  <2>4. Store!Overfull(UpTo(Q, v), needed)
    BY <1>3, <2>2
  <2>. QED
    BY <1>5, <2>3, <2>4, OverfullMore
<1>. QED
  BY <1>2, <1>3, <1>5, Zenon DEF Store!EvictToFit, K

-----------------------------------------------------------------------------
(* The inductive invariant *)

LEMMA SizeNat ==
  ASSUME NEW q \in Seq(Item)
  PROVE  SizeOf(q) \in Nat
<1>1. PICK g \in [0 .. Len(q) -> Nat] : SizeOf(q) = g[Len(q)]
  BY SizeSummed
<1>2. Len(q) \in 0 .. Len(q)
  OBVIOUS
<1>. QED
  BY <1>1, <1>2

\* q holds items made so far, in order, and within both limits.
Kept(q, last, time) ==
  /\ q \in Seq(Item)
  /\ Ascending(q)
  /\ \A i \in ToSet(q) : i.id <= last /\ i.createdAt <= time
  /\ SizeOf(q) <= MaxBytes
  /\ Len(q) <= MaxItems

QueueInv ==
  /\ TypeOK
  /\ Kept(queue, lastId, now)
  /\ Kept(disk, lastId, now)
  /\ totalBytes = SizeOf(queue)

LEMMA KeptNothing ==
  ASSUME NEW last, NEW time
  PROVE  Kept(<< >>, last, time)
<1>1. << >> \in Seq(Item) /\ ToSet(<< >>) = {} /\ Len(<< >>) = 0 /\ Ascending(<< >>)
  BY DEF ToSet, Ascending
<1>2. 0 <= MaxBytes /\ 0 <= MaxItems
  BY QueueAssumption
<1>. QED
  BY <1>1, <1>2, SizeNothing DEF Kept

LEMMA KeptLater ==
  ASSUME NEW q, NEW last \in Int, NEW later \in Int, last <= later,
         NEW time \in Int, NEW then \in Int, time <= then, Kept(q, last, time)
  PROVE  Kept(q, later, then)
<1>1. ASSUME NEW i \in ToSet(q) PROVE i.id <= later /\ i.createdAt <= then
  <2>1. i \in Item
    BY DEF Kept, ToSet
  <2>2. i.id \in Int /\ i.createdAt \in Int
    BY <2>1 DEF Item
  <2>3. i.id <= last /\ i.createdAt <= time
    BY DEF Kept
  <2>. QED
    BY <2>2, <2>3
<1>. QED
  BY <1>1, Zenon DEF Kept

\* A part of the array, in order.
LEMMA KeptPart ==
  ASSUME NEW q, NEW last, NEW time, Kept(q, last, time),
         NEW r \in Seq(Item), Ascending(r), ToSet(r) \subseteq ToSet(q)
  PROVE  Kept(r, last, time) /\ Len(r) <= Len(q)
<1> DEFINE P == StoredItems(r)
           Q == StoredItems(q)
<1>1. q \in Seq(Item) /\ Ascending(q)
  BY DEF Kept
<1>2. Measured(q) /\ Measured(r)
  BY <1>1, MeasuredBySet
<1>3. Q \in SUBSET Stored /\ Distinct(Q) /\ P \subseteq Q
  <2>1. P = {Entry(i) : i \in ToSet(r)} /\ Q = {Entry(i) : i \in ToSet(q)} /\ Q \in SUBSET Stored
    BY <1>1, EntriesOf
  <2>2. Distinct(Q)
    BY <1>1, AscendingDistinct
  <2>. QED
    BY <2>1, <2>2
<1>. HIDE DEF P, Q
<1>4. Store!Bytes(P) <= Store!Bytes(Q) /\ Store!Bytes(P) \in Nat /\ Store!Bytes(Q) \in Nat
  BY <1>3, BytesOfPart
<1>5. IsFiniteSet(Q) /\ Cardinality(Q) = Len(q) /\ Cardinality(P) = Len(r)
      /\ SizeOf(q) = Store!Bytes(Q) /\ SizeOf(r) = Store!Bytes(P)
  BY <1>2, Zenon DEF Measured, P, Q
<1>6. Cardinality(P) <= Cardinality(Q)
  BY <1>3, <1>5, FS_Subset
<1>7. Len(r) <= Len(q)
  BY <1>5, <1>6, Zenon
<1>8. SizeOf(r) <= MaxBytes /\ Len(r) <= MaxItems
  <2>1. SizeOf(q) <= MaxBytes /\ Len(q) <= MaxItems
    BY DEF Kept
  <2>2. MaxBytes \in Int /\ MaxItems \in Int
    BY QueueAssumption
  <2>3. Len(q) \in Int /\ Len(r) \in Int
    BY <1>1
  <2>. QED
    BY <1>4, <1>5, <1>7, <2>1, <2>2, <2>3
<1>. QED
  BY <1>7, <1>8, Zenon DEF Kept

\* acknowledge and removeExpired.
LEMMA KeptFiltered ==
  ASSUME NEW q, NEW last, NEW time, Kept(q, last, time), NEW S
  PROVE  /\ Kept(Filter(q, S), last, time)
         /\ ToSet(Filter(q, S)) = ToSet(q) \cap S
         /\ Len(Filter(q, S)) <= Len(q)
         /\ Len(Filter(q, S)) < Len(q) <=> StoredItems(Filter(q, S)) # StoredItems(q)
<1> DEFINE r == Filter(q, S)
           P == StoredItems(r)
           Q == StoredItems(q)
<1>1. q \in Seq(Item) /\ Ascending(q)
  BY DEF Kept
<1>2. r \in Seq(Item) /\ ToSet(r) = ToSet(q) \cap S /\ Ascending(r)
  BY <1>1, Filtered
<1>. HIDE DEF r
<1>3. Kept(r, last, time) /\ Len(r) <= Len(q)
  BY <1>2, KeptPart
<1>4. P \subseteq Q
  <2>1. P = {Entry(i) : i \in ToSet(r)} /\ Q = {Entry(i) : i \in ToSet(q)}
    BY <1>1, <1>2, EntriesOf
  <2>. QED
    BY <1>2, <2>1
<1>5. IsFiniteSet(Q) /\ Cardinality(Q) = Len(q) /\ Cardinality(P) = Len(r)
  BY <1>1, <1>2, MeasuredBySet DEF Measured
<1>. HIDE DEF P, Q
<1>6. Len(r) < Len(q) <=> P # Q
  <2>1. Cardinality(P) = Cardinality(Q) => P = Q
    BY <1>4, <1>5, FS_Subset
  <2>2. Len(r) \in Nat /\ Len(q) \in Nat
    BY <1>1, <1>2
  <2>3. CASE P = Q
    BY <1>5, <2>2, <2>3
  <2>4. CASE P # Q
    BY <1>3, <1>5, <2>1, <2>2, <2>4
  <2>. QED
    BY <2>3, <2>4
<1>. QED
  BY <1>2, <1>3, <1>6 DEF r, P, Q

\* The push.
LEMMA KeptAppended ==
  ASSUME NEW q, NEW last \in Nat, NEW time \in Nat, Kept(q, last, time),
         NEW i \in Item, i.id = last + 1, i.createdAt = time,
         SizeOf(q) + i.sizeBytes <= MaxBytes, Len(q) < MaxItems
  PROVE  /\ Kept(Append(q, i), last + 1, time)
         /\ SizeOf(Append(q, i)) = SizeOf(q) + i.sizeBytes
         /\ StoredItems(Append(q, i)) = StoredItems(q) \cup {Entry(i)}
         /\ ToSet(Append(q, i)) = ToSet(q) \cup {i} /\ i \notin ToSet(q)
<1> DEFINE r == Append(q, i)
<1>1. q \in Seq(Item) /\ Ascending(q)
  BY DEF Kept
<1>2. /\ r \in Seq(Item) /\ Len(r) = Len(q) + 1 /\ r[Len(q) + 1] = i /\ Len(q) \in Nat
      /\ \A n \in 1 .. Len(q) : r[n] = q[n]
      /\ DOMAIN r = 1 .. Len(q) + 1 /\ DOMAIN q = 1 .. Len(q)
  BY <1>1
<1>3. SizeOf(r) = SizeOf(q) + i.sizeBytes
  BY <1>1, SizeMore
<1>. HIDE DEF r
<1>4. ToSet(r) = ToSet(q) \cup {i}
  BY <1>2 DEF ToSet
<1>5. ASSUME NEW j \in ToSet(q)
      PROVE  j.id \in Int /\ j.createdAt \in Int /\ j.id <= last /\ j.createdAt <= time
  <2>1. j \in Item
    BY <1>1 DEF ToSet
  <2>. QED
    BY <2>1 DEF Kept, Item
<1>6. Ascending(r)
  <2>1. ASSUME NEW a \in 1 .. Len(r), NEW b \in 1 .. Len(r), a < b
        PROVE  r[a].id < r[b].id /\ r[a].createdAt <= r[b].createdAt
    <3>1. a \in 1 .. Len(q) /\ r[a] = q[a]
      BY <1>2, <2>1
    <3>2. CASE b \in 1 .. Len(q)
      BY <1>1, <1>2, <2>1, <3>1, <3>2 DEF Ascending
    <3>3. CASE b = Len(q) + 1
      <4>1. q[a] \in ToSet(q)
        BY <1>2, <3>1 DEF ToSet
      <4>2. r[b] = i
        BY <1>2, <3>3
      <4>. QED
        BY <1>5, <3>1, <4>1, <4>2
    <3>. QED
      BY <1>2, <3>2, <3>3
  <2>. QED
    BY <2>1, Zenon DEF Ascending
<1>7. ASSUME NEW j \in ToSet(r) PROVE j.id <= last + 1 /\ j.createdAt <= time
  <2>1. CASE j \in ToSet(q)
    BY <1>5, <2>1
  <2>2. CASE j = i
    BY <2>2
  <2>. QED
    BY <1>4, <2>1, <2>2
<1>8. Len(r) <= MaxItems
  BY <1>2, QueueAssumption
<1>9. StoredItems(r) = StoredItems(q) \cup {Entry(i)}
  BY <1>1, <1>6, MeasuredBySet, MeasuredMore DEF r
<1>10. i \notin ToSet(q)
  BY <1>5
<1>11. Kept(r, last + 1, time)
  BY <1>2, <1>3, <1>6, <1>7, <1>8, Zenon DEF Kept
<1>. QED
  BY <1>3, <1>4, <1>9, <1>10, <1>11 DEF r

-----------------------------------------------------------------------------
(* The actions *)

\* What enqueue leaves room for, and puts there.
NewItem(p, size) ==
  [id |-> lastId + 1, createdAt |-> now, retryCount |-> 0, sizeBytes |-> size, priority |-> p]

LEMMA EnqueueStep ==
  ASSUME QueueInv, NEW p \in Priority, NEW size \in Size, Enqueue(p, size)
  PROVE  \E left :
           /\ Evicted(left, queue, size)
           /\ Kept(left.queue, lastId, now)
           /\ NewItem(p, size) \in Item
           /\ queue' = Append(left.queue, NewItem(p, size))
           /\ Kept(queue', lastId + 1, now)
           /\ totalBytes' = SizeOf(queue')
           /\ StoredItems(queue') = StoredItems(left.queue) \cup {Entry(NewItem(p, size))}
           /\ ToSet(queue') = ToSet(left.queue) \cup {NewItem(p, size)}
           /\ NewItem(p, size) \notin ToSet(queue)
<1> DEFINE left == EvictToFit(queue, totalBytes, size)
           item == NewItem(p, size)
<1>1. /\ queue \in Seq(Item) /\ Ascending(queue) /\ Kept(queue, lastId, now)
      /\ totalBytes = SizeOf(queue)
      /\ lastId \in 0 .. MaxSubmitted /\ now \in 0 .. MaxTime
  BY DEF QueueInv, TypeOK, Kept
<1>2. /\ queue' = Append(left.queue, item)
      /\ totalBytes' = left.bytes + size
      /\ size <= MaxBytes /\ lastId < MaxSubmitted
  BY Zenon DEF Enqueue, NewItem
<1>3. Evicted(left, queue, size)
  BY <1>1, Evicts
<1>4. item \in Item /\ item.id = lastId + 1 /\ item.createdAt = now /\ item.sizeBytes = size
  <2>1. lastId + 1 \in 1 .. MaxSubmitted /\ 0 \in 0 .. MaxRetries
    BY <1>1, <1>2, QueueAssumption
  <2>. QED
    BY <1>1, <2>1 DEF NewItem, Item
<1>. HIDE DEF left, item
<1>5. /\ left.queue \in Seq(Item) /\ Ascending(left.queue) /\ left.bytes = SizeOf(left.queue)
      /\ ToSet(left.queue) \subseteq ToSet(queue) /\ ~Overfull(left, size)
  BY <1>3, Zenon DEF Evicted, Left
<1>6. Kept(left.queue, lastId, now)
  BY <1>1, <1>5, KeptPart
<1>7. SizeOf(left.queue) + item.sizeBytes <= MaxBytes /\ Len(left.queue) < MaxItems
  <2>1. CASE left.queue = << >>
    <3>1. SizeOf(left.queue) = 0 /\ Len(left.queue) = 0
      BY <2>1, SizeNothing
    <3>2. size \in Nat
      BY QueueAssumption
    <3>. QED
      BY <1>2, <1>4, <3>1, <3>2, QueueAssumption
  <2>2. CASE left.queue # << >>
    <3>1. ~(left.bytes + size > MaxBytes) /\ ~(Len(left.queue) >= MaxItems)
      BY <1>5, <2>2, Zenon DEF Overfull
    <3>2. SizeOf(left.queue) \in Nat /\ Len(left.queue) \in Nat
      BY <1>5, SizeNat
    <3>3. size \in Nat /\ MaxBytes \in Int /\ MaxItems \in Int
      BY QueueAssumption
    <3>. QED
      BY <1>4, <1>5, <3>1, <3>2, <3>3
  <2>. QED
    BY <2>1, <2>2
<1> DEFINE r == Append(left.queue, item)
<1>8. /\ Kept(r, lastId + 1, now)
      /\ SizeOf(r) = SizeOf(left.queue) + item.sizeBytes
      /\ StoredItems(r) = StoredItems(left.queue) \cup {Entry(item)}
      /\ ToSet(r) = ToSet(left.queue) \cup {item} /\ item \notin ToSet(left.queue)
  <2>1. lastId \in Nat /\ now \in Nat
    BY <1>1
  <2>. QED
    BY <1>4, <1>6, <1>7, <2>1, KeptAppended
<1>9. item \notin ToSet(queue)
  <2>1. ASSUME NEW j \in ToSet(queue) PROVE j # item
    <3>1. j.id <= lastId
      BY <1>1 DEF Kept
    <3>2. ~(lastId + 1 <= lastId)
      BY <1>1
    <3>. QED
      BY <1>4, <3>1, <3>2
  <2>. QED
    BY <2>1
<1>10. queue' = r /\ totalBytes' = SizeOf(queue')
  <2>1. queue' = r
    BY <1>2
  <2>. HIDE DEF r
  <2>2. left.bytes + size = SizeOf(left.queue) + item.sizeBytes
    BY <1>4, <1>5, Zenon
  <2>3. totalBytes' = SizeOf(r)
    BY <1>2, <1>8, <2>2, Zenon
  <2>. QED
    BY <2>1, <2>3
<1>. HIDE DEF r
<1>11. /\ queue' = Append(left.queue, item)
       /\ Kept(queue', lastId + 1, now)
       /\ StoredItems(queue') = StoredItems(left.queue) \cup {Entry(item)}
       /\ ToSet(queue') = ToSet(left.queue) \cup {item}
  BY <1>2, <1>8, <1>10, Zenon
<1>. QED
  BY <1>3, <1>4, <1>6, <1>9, <1>10, <1>11, Zenon DEF item

\* One attempt more is all that changes.
LEMMA RetryCounted ==
  ASSUME NEW i \in Item, i.retryCount < MaxRetries
  PROVE  LET j == [i EXCEPT !.retryCount = @ + 1]
         IN  j \in Item /\ Entry(j) = Entry(i) /\ j.createdAt = i.createdAt
<1> DEFINE j == [i EXCEPT !.retryCount = @ + 1]
<1>1. j.id = i.id /\ j.createdAt = i.createdAt /\ j.sizeBytes = i.sizeBytes
      /\ j.priority = i.priority
  BY DEF Item
<1>2. i.retryCount + 1 \in 0 .. MaxRetries
  <2>1. i.retryCount \in 0 .. MaxRetries
    BY DEF Item
  <2>. QED
    BY <2>1, QueueAssumption
<1>3. j \in Item
  BY <1>2 DEF Item
<1>. QED
  BY <1>1, <1>3, Zenon DEF Entry

LEMMA MarkFailedStep ==
  ASSUME QueueInv, NEW ids, MarkFailed(ids)
  PROVE  /\ Kept(queue', lastId, now)
         /\ SizeOf(queue') = SizeOf(queue)
         /\ StoredItems(queue') = StoredItems(queue)
<1> DEFINE q == queue
           r == queue'
<1>1. q \in Seq(Item) /\ Ascending(q) /\ Kept(q, lastId, now) /\ DOMAIN q = 1 .. Len(q)
      /\ Len(q) \in Nat
  BY DEF QueueInv, Kept
<1>2. ASSUME NEW k \in 1 .. Len(q)
      PROVE  r[k] \in Item /\ Entry(r[k]) = Entry(q[k]) /\ r[k].createdAt = q[k].createdAt
  <2>1. q[k] \in Item
    BY <1>1
  <2>2. r[k] = IF q[k].id \in ids THEN [q[k] EXCEPT !.retryCount = @ + 1] ELSE q[k]
    BY <1>1, Zenon DEF MarkFailed
  <2>3. CASE q[k].id \in ids
    <3>1. q[k].retryCount < MaxRetries
      BY <1>1, <2>3, Zenon DEF MarkFailed
    <3>2. r[k] = [q[k] EXCEPT !.retryCount = @ + 1]
      BY <2>2, <2>3, Zenon
    <3>. QED
      BY <2>1, <3>1, <3>2, RetryCounted, Zenon
  <2>4. CASE q[k].id \notin ids
    BY <2>1, <2>2, <2>4, Zenon
  <2>. QED
    BY <2>3, <2>4
<1>3. r = [k \in 1 .. Len(q) |-> r[k]]
  BY <1>1, Zenon DEF MarkFailed
<1>. HIDE DEF r
<1>4. r \in Seq(Item) /\ Len(r) = Len(q) /\ DOMAIN r = 1 .. Len(q)
  <2>1. r \in [1 .. Len(q) -> Item]
    BY <1>2, <1>3
  <2>. QED
    BY <1>1, <2>1
<1>5. ASSUME NEW k \in 1 .. Len(q)
      PROVE  r[k].id = q[k].id
  <2>1. Entry(r[k]).id = r[k].id /\ Entry(q[k]).id = q[k].id
    BY DEF Entry
  <2>. QED
    BY <1>2, <2>1
<1>6. Ascending(r)
  BY <1>1, <1>2, <1>4, <1>5 DEF Ascending
<1>7. StoredItems(r) = StoredItems(q)
  <2>1. StoredItems(r) = {Entry(i) : i \in ToSet(r)} /\ StoredItems(q) = {Entry(i) : i \in ToSet(q)}
    BY <1>1, <1>4, EntriesOf
  <2>2. ToSet(r) = {r[k] : k \in 1 .. Len(q)} /\ ToSet(q) = {q[k] : k \in 1 .. Len(q)}
    BY <1>1, <1>4, Zenon DEF ToSet
  <2>3. \A k \in 1 .. Len(q) : Entry(r[k]) = Entry(q[k])
    BY <1>2
  <2>. HIDE DEF q
  <2>4. StoredItems(r) = {Entry(r[k]) : k \in 1 .. Len(q)}
    BY <2>1, <2>2
  <2>5. StoredItems(q) = {Entry(q[k]) : k \in 1 .. Len(q)}
    BY <2>1, <2>2
  <2>. QED
    BY <2>3, <2>4, <2>5
<1>8. SizeOf(r) = SizeOf(q)
  <2>1. Measured(r) /\ Measured(q)
    BY <1>1, <1>4, <1>6, MeasuredBySet
  <2>. QED
    BY <1>7, <2>1, Zenon DEF Measured
<1>9. \A i \in ToSet(r) : i.id <= lastId /\ i.createdAt <= now
  <2>1. ASSUME NEW i \in ToSet(r) PROVE i.id <= lastId /\ i.createdAt <= now
    <3>1. PICK k \in 1 .. Len(q) : i = r[k]
      BY <1>4 DEF ToSet
    <3>2. q[k] \in ToSet(q)
      BY <1>1 DEF ToSet
    <3>. QED
      BY <1>1, <1>2, <1>5, <3>1, <3>2 DEF Kept
  <2>. QED
    BY <2>1
<1>10. Kept(r, lastId, now)
  BY <1>1, <1>4, <1>6, <1>8, <1>9, Zenon DEF Kept
<1>. QED
  BY <1>7, <1>8, <1>10, Zenon DEF r, q

LEMMA QueueInvInit == Init => QueueInv
<1> SUFFICES ASSUME Init PROVE QueueInv
  OBVIOUS
<1>1. /\ queue = << >> /\ disk = << >> /\ totalBytes = 0 /\ persistTimer = FALSE
      /\ diskStale = FALSE /\ lastId = 0 /\ now = 0
  BY DEF Init
<1>2. << >> \in Seq(Item) /\ 0 \in 0 .. MaxSubmitted /\ 0 \in 0 .. MaxTime
  BY QueueAssumption
<1>3. TypeOK
  BY <1>1, <1>2 DEF TypeOK
<1>. QED
  BY <1>1, <1>3, KeptNothing, SizeNothing DEF QueueInv

\* The queue of the next state is right: the rest of the invariant follows.
LEMMA QueueInvNext ==
  ASSUME QueueInv, Kept(queue', lastId', now'), totalBytes' = SizeOf(queue'),
         disk' = disk \/ disk' = queue,
         persistTimer' \in BOOLEAN, diskStale' \in BOOLEAN,
         lastId' \in 0 .. MaxSubmitted, lastId <= lastId',
         now' \in 0 .. MaxTime, now <= now'
  PROVE  QueueInv'
<1>1. /\ lastId \in 0 .. MaxSubmitted /\ now \in 0 .. MaxTime
      /\ Kept(queue, lastId, now) /\ Kept(disk, lastId, now)
  BY DEF QueueInv, TypeOK
<1>2. lastId \in Int /\ now \in Int /\ lastId' \in Int /\ now' \in Int
  BY <1>1
<1>3. Kept(queue, lastId', now') /\ Kept(disk, lastId', now')
  BY <1>1, <1>2, KeptLater
<1>4. Kept(disk', lastId', now')
  BY <1>3
<1>5. queue' \in Seq(Item) /\ disk' \in Seq(Item)
  BY <1>4 DEF Kept
<1>6. totalBytes' \in Nat
  BY <1>5, SizeNat
<1>7. TypeOK'
  BY <1>5, <1>6 DEF TypeOK
<1>. QED
  BY <1>4, <1>7 DEF QueueInv

LEMMA QueueInvStep == QueueInv /\ [Next]_vars => QueueInv'
<1> SUFFICES ASSUME QueueInv, [Next]_vars PROVE QueueInv'
  OBVIOUS
<1>0. /\ Kept(queue, lastId, now) /\ Kept(disk, lastId, now) /\ totalBytes = SizeOf(queue)
      /\ persistTimer \in BOOLEAN /\ diskStale \in BOOLEAN
      /\ lastId \in 0 .. MaxSubmitted /\ now \in 0 .. MaxTime
      /\ queue \in Seq(Item) /\ disk \in Seq(Item)
      /\ lastId <= lastId /\ now <= now
  BY DEF QueueInv, TypeOK
<1>1. ASSUME NEW p \in Priority, NEW size \in Size, Enqueue(p, size) PROVE QueueInv'
  <2>1. Kept(queue', lastId + 1, now) /\ totalBytes' = SizeOf(queue')
    BY <1>1, EnqueueStep
  <2>2. lastId' = lastId + 1 /\ lastId < MaxSubmitted /\ now' = now /\ disk' = disk
        /\ persistTimer' = TRUE /\ diskStale' = diskStale
    BY <1>1, Zenon DEF Enqueue
  <2>3. lastId' \in 0 .. MaxSubmitted /\ lastId <= lastId'
    BY <1>0, <2>2, QueueAssumption
  <2>. QED
    BY <1>0, <2>1, <2>2, <2>3, QueueInvNext
<1>2. ASSUME NEW ids, Acknowledge(ids) PROVE QueueInv'
  <2>1. queue' = Filter(queue, {i \in ToSet(queue) : i.id \notin ids})
        /\ totalBytes' = SizeOf(queue')
        /\ persistTimer' = (persistTimer \/ Len(queue') < Len(queue))
        /\ disk' = disk /\ diskStale' = diskStale /\ lastId' = lastId /\ now' = now
    BY <1>2, Zenon DEF Acknowledge, Without
  <2>2. Kept(queue', lastId, now)
    BY <1>0, <2>1, KeptFiltered, Zenon
  <2>3. persistTimer' \in BOOLEAN
    BY <1>0, <2>1
  <2>. QED
    BY <1>0, <2>1, <2>2, <2>3, QueueInvNext
<1>3. ASSUME NEW ids, MarkFailed(ids) PROVE QueueInv'
  <2>1. Kept(queue', lastId, now) /\ SizeOf(queue') = SizeOf(queue)
    BY <1>3, MarkFailedStep
  <2>. QED
    BY <1>0, <1>3, <2>1, QueueInvNext DEF MarkFailed
<1>4. CASE PersistNow
  BY <1>0, <1>4, QueueInvNext DEF PersistNow
<1>5. CASE Restart
  <2>1. queue' = Filter(disk, {i \in ToSet(disk) : i.createdAt >= now - MaxAge})
        /\ totalBytes' = SizeOf(queue')
        /\ persistTimer' = (Len(queue') < Len(disk)) /\ diskStale' = FALSE
        /\ disk' = disk /\ lastId' = lastId /\ now' = now
    BY <1>5, Zenon DEF Restart, RemoveExpired
  <2>2. Kept(queue', lastId, now)
    BY <1>0, <2>1, KeptFiltered, Zenon
  <2>3. persistTimer' \in BOOLEAN
    BY <2>1
  <2>. QED
    BY <1>0, <2>1, <2>2, <2>3, QueueInvNext
<1>6. CASE RestartUnreadable
  <2>1. Kept(queue', lastId', now') /\ totalBytes' = SizeOf(queue')
    BY <1>6, KeptNothing, SizeNothing DEF RestartUnreadable
  <2>. QED
    BY <1>0, <1>6, <2>1, QueueInvNext DEF RestartUnreadable
<1>7. CASE Tick
  <2>1. now' \in 0 .. MaxTime /\ now <= now' /\ lastId' = lastId /\ queue' = queue
        /\ totalBytes' = totalBytes /\ disk' = disk /\ persistTimer' = persistTimer
        /\ diskStale' = diskStale
    BY <1>0, <1>7, QueueAssumption DEF Tick
  <2>2. Kept(queue', lastId', now')
    <3>1. lastId \in Int /\ now \in Int /\ now' \in Int
      BY <1>0, <2>1
    <3>2. Kept(queue, lastId, now')
      BY <1>0, <2>1, <3>1, KeptLater
    <3>. QED
      BY <2>1, <3>2
  <2>. QED
    BY <1>0, <2>1, <2>2, QueueInvNext
<1>8. CASE UNCHANGED vars
  BY <1>0, <1>8, QueueInvNext DEF vars
<1>. QED
  BY <1>1, <1>2, <1>3, <1>4, <1>5, <1>6, <1>7, <1>8 DEF Next

THEOREM QueueInvariant == Spec => []QueueInv
  BY QueueInvInit, QueueInvStep, PTL DEF Spec

\* Items are whole, totals are numbers, and the file holds a queue, whatever the
\* calls, crashes and errors.
THEOREM QueueTyping == Spec => []TypeOK
<1>1. QueueInv => TypeOK
  BY DEF QueueInv
<1>. QED
  BY <1>1, QueueInvariant, PTL

\* The running total evictToFit decides by never drifts from the sizes of the
\* items, and neither limit is ever exceeded.
THEOREM QueueWithinLimits == Spec => []WithinLimits
<1>1. QueueInv => WithinLimits
  BY DEF QueueInv, Kept, WithinLimits
<1>. QED
  BY <1>1, QueueInvariant, PTL

-----------------------------------------------------------------------------
(* Eviction is exact *)

\* The array of what outranks v holds the items of the store that do not go before v.
LEMMA OutrankingItems ==
  ASSUME queue \in Seq(Item), NEW v \in ToSet(queue)
  PROVE  StoredItems(OutranksOf(v)) = UpTo(StoredItems(queue), Entry(v))
<1> DEFINE S == {i \in ToSet(queue) : Outranks(i, v)}
           r == OutranksOf(v)
<1>1. r \in Seq(Item) /\ ToSet(r) = S
  <2>1. r = Filter(queue, S)
    BY Zenon DEF OutranksOf
  <2>2. S \subseteq ToSet(queue)
    OBVIOUS
  <2>. HIDE DEF S, r
  <2>3. r \in Seq(Item) /\ ToSet(r) = ToSet(queue) \cap S
    BY <2>1, Filtered
  <2>. QED
    BY <2>2, <2>3
<1>. HIDE DEF r
<1>2. ASSUME NEW i \in ToSet(queue)
      PROVE  Outranks(i, v) <=> ~Store!EvictedBefore(Entry(i), Entry(v))
  <2>1. i \in Item /\ v \in Item
    BY EntriesOf
  <2>2. Priority \subseteq Int
    BY QueueAssumption
  <2>3. \A j \in Item : j.priority \in Priority /\ j.id \in 1 .. MaxSubmitted
    BY DEF Item
  <2>4. i.priority \in Int /\ v.priority \in Int
    BY <2>1, <2>2, <2>3, Zenon
  <2>5. i.id \in Int /\ v.id \in Int
    BY <2>1, <2>3
  <2>6. Entry(i).priority = i.priority /\ Entry(v).priority = v.priority
        /\ Entry(i).id = i.id /\ Entry(v).id = v.id
    BY DEF Entry
  <2>. QED
    BY <2>4, <2>5, <2>6 DEF Outranks, Store!EvictedBefore
<1>3. StoredItems(r) = {Entry(i) : i \in ToSet(r)}
      /\ StoredItems(queue) = {Entry(i) : i \in ToSet(queue)}
  BY <1>1, EntriesOf
<1>4. ToSet(r) = S
  BY <1>1
<1>5. {Entry(i) : i \in S} = {x \in {Entry(i) : i \in ToSet(queue)} : ~Store!EvictedBefore(x, Entry(v))}
  BY <1>2
<1>. QED
  BY <1>3, <1>4, <1>5, Zenon DEF UpTo, r

\* An item of the array is told by its entry.
LEMMA EntryTells ==
  ASSUME NEW q \in Seq(Item), Ascending(q), NEW r \in Seq(Item), ToSet(r) \subseteq ToSet(q),
         NEW v \in ToSet(q)
  PROVE  v \in ToSet(r) <=> Entry(v) \in StoredItems(r)
<1>1. StoredItems(r) = {Entry(i) : i \in ToSet(r)}
  BY EntriesOf
<1>2. ASSUME NEW i \in ToSet(r), Entry(i) = Entry(v) PROVE i = v
  <2>1. i.id = v.id
    BY <1>2 DEF Entry
  <2>2. Distinct(ToSet(q)) /\ i \in ToSet(q)
    BY AscendingDistinct
  <2>. QED
    BY <2>1, <2>2 DEF Distinct
<1>. QED
  BY <1>1, <1>2

LEMMA EvictionStep ==
  ASSUME QueueInv, NEW p \in Priority, NEW size \in Size, Enqueue(p, size),
         NEW v \in ToSet(queue)
  PROVE  v \in ToSet(queue') <=> /\ SizeOf(OutranksOf(v)) + Last(queue').sizeBytes <= MaxBytes
                                 /\ Len(OutranksOf(v)) < MaxItems
<1>1. PICK left :
        /\ Evicted(left, queue, size)
        /\ NewItem(p, size) \in Item
        /\ queue' = Append(left.queue, NewItem(p, size))
        /\ ToSet(queue') = ToSet(left.queue) \cup {NewItem(p, size)}
        /\ NewItem(p, size) \notin ToSet(queue)
  BY EnqueueStep, Zenon
<1> DEFINE r == OutranksOf(v)
           Q == StoredItems(queue)
           K == StoredItems(left.queue)
           U == UpTo(Q, Entry(v))
<1>2. queue \in Seq(Item) /\ Ascending(queue) /\ size \in Int
  BY QueueAssumption DEF QueueInv, Kept
<1>3. left.queue \in Seq(Item) /\ ToSet(left.queue) \subseteq ToSet(queue)
  BY <1>1 DEF Evicted, Left
<1>4. Last(queue').sizeBytes = size
  <2>1. Last(queue') = NewItem(p, size)
    BY <1>1, <1>3 DEF Last
  <2>. QED
    BY <2>1 DEF NewItem
<1>5. v \in ToSet(queue') <=> Entry(v) \in K
  <2>1. v \in ToSet(queue') <=> v \in ToSet(left.queue)
    BY <1>1
  <2>. QED
    BY <1>2, <1>3, <2>1, EntryTells
<1>6. Store!EvictToFit(Q, size, K)
  BY <1>1, <1>2, EvictsToFit
<1>7. K \subseteq Q /\ \A x \in Q \ K : Store!Overfull(UpTo(Q, x), size)
  BY <1>1, Zenon DEF Evicted, Leaves
<1>8. Entry(v) \in U /\ Entry(v) \in Q
  <2>1. v \in Item /\ Entry(v) \in Q
    BY <1>2, EntriesOf
  <2>2. Entry(v) \in Stored
    BY <1>2, <2>1, EntriesOf
  <2>. QED
    BY <2>1, <2>2, EvictionOrder, Zenon DEF UpTo
<1>9. r \in Seq(Item) /\ Ascending(r) /\ StoredItems(r) = U
  <2>1. r \in Seq(Item) /\ Ascending(r)
    BY <1>2, Filtered DEF OutranksOf
  <2>. QED
    BY <1>2, <2>1, OutrankingItems
<1>. HIDE DEF r, U, K
<1>10. Store!Overfull(U, size) <=> ~(SizeOf(r) + size <= MaxBytes /\ Len(r) < MaxItems)
  <2>1. SizeOf(r) = Store!Bytes(U) /\ Len(r) = Store!Cardinality(U)
    BY <1>9, MeasuredBySet, SameCount, Zenon DEF Measured
  <2>2. Store!Overfull(U, size) <=> (SizeOf(r) + size > MaxBytes \/ Len(r) >= MaxItems)
    <3>1. U # {}
      BY <1>8
    <3>. QED
      BY <2>1, <3>1, Zenon DEF Store!Overfull
  <2>3. SizeOf(r) \in Nat /\ Len(r) \in Nat
    BY <1>9, SizeNat
  <2>4. MaxBytes \in Int /\ MaxItems \in Int
    BY QueueAssumption
  <2>. QED
    BY <1>2, <2>2, <2>3, <2>4
<1>11. CASE Entry(v) \in K
  <2>1. U \subseteq K
    BY <1>6, <1>11 DEF U, UpTo, Store!EvictToFit, Store!KeepsMostImportant
  <2>2. ~Store!Overfull(K, size)
    BY <1>6, Zenon DEF Store!EvictToFit
  <2>3. ~Store!Overfull(U, size)
    <3>. HIDE DEF Q
    <3>. QED
      BY <1>2, <1>7, <2>1, <2>2, OverfullMore DEF Q
  <2>. QED
    BY <1>4, <1>5, <1>10, <1>11, <2>3, Zenon DEF r
<1>12. CASE Entry(v) \notin K
  <2>1. Store!Overfull(U, size)
    BY <1>7, <1>8, <1>12, Zenon DEF U
  <2>. QED
    BY <1>4, <1>5, <1>10, <1>12, <2>1, Zenon DEF r
<1>. QED
  BY <1>11, <1>12

\* Making room never costs an item that could have stayed, and never keeps one
\* that had to go, for any limits and any number of evictions at once.
THEOREM QueueEvictionIsExact == Spec => EvictionIsExact
<1> DEFINE Exact ==
      lastId' > lastId =>
        \A v \in ToSet(queue) :
          v \in ToSet(queue') <=> /\ SizeOf(OutranksOf(v)) + Last(queue').sizeBytes <= MaxBytes
                                  /\ Len(OutranksOf(v)) < MaxItems
<1>1. QueueInv /\ [Next]_vars => [Exact]_vars
  <2> SUFFICES ASSUME QueueInv, Next PROVE Exact
    OBVIOUS
  <2>0. lastId \in Int
    BY DEF QueueInv, TypeOK
  <2>1. ASSUME NEW p \in Priority, NEW size \in Size, Enqueue(p, size) PROVE Exact
    BY <2>1, EvictionStep
  <2>2. ASSUME lastId' = lastId PROVE Exact
    BY <2>0, <2>2
  <2>3. \/ \E p \in Priority, size \in Size : Enqueue(p, size)
        \/ lastId' = lastId
    BY DEF Next, Acknowledge, MarkFailed, PersistNow, Restart, RestartUnreadable, Tick
  <2>. HIDE DEF Exact
  <2>. QED
    BY <2>1, <2>2, <2>3, Zenon
<1>2. Spec => [][Exact]_vars
  <2>. HIDE DEF Exact
  <2>. QED
    BY <1>1, QueueInvariant, PTL DEF Spec
<1>. QED
  BY <1>2 DEF EvictionIsExact

-----------------------------------------------------------------------------
(* The array implements the set *)

LEMMA StoreEnqueues ==
  ASSUME QueueInv, NEW p \in Priority, NEW size \in Size, Enqueue(p, size)
  PROVE  Store!Enqueue(p, size)
<1>1. PICK left :
        /\ Evicted(left, queue, size)
        /\ StoredItems(queue') = StoredItems(left.queue) \cup {Entry(NewItem(p, size))}
  BY EnqueueStep, Zenon
<1>2. queue \in Seq(Item) /\ Ascending(queue) /\ size \in Int
  BY QueueAssumption DEF QueueInv, Kept
<1>3. Store!EvictToFit(StoredItems(queue), size, StoredItems(left.queue))
  BY <1>1, <1>2, EvictsToFit
<1>4. StoredItems(left.queue) \in SUBSET StoredItems(queue)
  BY <1>1, Zenon DEF Evicted, Leaves
<1>5. Entry(NewItem(p, size)) = [id |-> lastId + 1, priority |-> p, sizeBytes |-> size]
  BY DEF Entry, NewItem
<1>6. \E kept \in SUBSET StoredItems(queue) :
        /\ Store!EvictToFit(StoredItems(queue), size, kept)
        /\ StoredItems(queue)' = kept \cup {[id |-> lastId + 1, priority |-> p, sizeBytes |-> size]}
  BY <1>1, <1>3, <1>4, <1>5, Zenon
<1>7. /\ lastId < MaxSubmitted /\ size <= MaxBytes /\ persistTimer' = TRUE
      /\ lastId' = lastId + 1 /\ diskStale' = diskStale /\ disk' = disk
  BY Zenon DEF Enqueue
<1>8. StoredItems(disk)' = StoredItems(disk)
  BY <1>7
<1>. QED
  BY <1>6, <1>7, <1>8, Zenon DEF Store!Enqueue

LEMMA StoreAcknowledges ==
  ASSUME QueueInv, NEW ids, Acknowledge(ids)
  PROVE  Store!Acknowledge(ids)
<1> DEFINE S == {i \in ToSet(queue) : i.id \notin ids}
<1>1. /\ queue' = Filter(queue, S)
      /\ persistTimer' = (persistTimer \/ Len(queue') < Len(queue))
      /\ disk' = disk /\ diskStale' = diskStale /\ lastId' = lastId
  BY Zenon DEF Acknowledge, Without
<1>2. queue \in Seq(Item) /\ Kept(queue, lastId, now)
  BY DEF QueueInv, Kept
<1>. HIDE DEF S
<1>3. /\ ToSet(queue') = ToSet(queue) \cap S
      /\ Len(queue') < Len(queue) <=> StoredItems(queue') # StoredItems(queue)
      /\ Kept(queue', lastId, now)
  BY <1>1, <1>2, KeptFiltered, Zenon
<1>4. StoredItems(queue') = {e \in StoredItems(queue) : e.id \notin ids}
  <2>1. queue' \in Seq(Item)
    BY <1>3 DEF Kept
  <2>2. StoredItems(queue') = {Entry(i) : i \in ToSet(queue')}
        /\ StoredItems(queue) = {Entry(i) : i \in ToSet(queue)}
    BY <1>2, <2>1, EntriesOf
  <2>3. \A i : Entry(i).id = i.id
    BY DEF Entry
  <2>. QED
    BY <1>3, <2>2, <2>3 DEF S
<1>5. persistTimer' = (persistTimer \/ StoredItems(queue') # StoredItems(queue))
  BY <1>1, <1>3
<1>6. StoredItems(disk)' = StoredItems(disk)
  BY <1>1
<1>. QED
  BY <1>1, <1>4, <1>5, <1>6, Zenon DEF Store!Acknowledge

\* A younger item has a greater id.
LEMMA OlderFirst ==
  ASSUME NEW q \in Seq(Item), Ascending(q)
  PROVE  \A i, j \in ToSet(q) : i.createdAt < j.createdAt => i.id < j.id
<1>1. ASSUME NEW i \in ToSet(q), NEW j \in ToSet(q), i.createdAt < j.createdAt
      PROVE  i.id < j.id
  <2>1. PICK a \in 1 .. Len(q), b \in 1 .. Len(q) : i = q[a] /\ j = q[b]
    BY DEF ToSet
  <2>2. i.createdAt \in Int /\ j.createdAt \in Int
    <3>1. i \in Item /\ j \in Item
      BY <2>1
    <3>. QED
      BY <3>1 DEF Item
  <2>3. a # b
    BY <1>1, <2>1, <2>2
  <2>4. ~(b < a)
    BY <1>1, <2>1, <2>2 DEF Ascending
  <2>5. a < b
    BY <2>3, <2>4
  <2>. QED
    BY <2>1, <2>5 DEF Ascending
<1>. QED
  BY <1>1

LEMMA StoreRestarts ==
  ASSUME QueueInv, Restart
  PROVE  \E expired \in 0 .. lastId : Store!Restart(expired)
<1> DEFINE S == {i \in ToSet(disk) : i.createdAt >= now - MaxAge}
           E == {i.id : i \in {j \in ToSet(disk) : ~(j.createdAt >= now - MaxAge)}}
<1>1. /\ queue' = Filter(disk, S)
      /\ persistTimer' = (Len(queue') < Len(disk))
      /\ disk' = disk /\ diskStale' = FALSE /\ lastId' = lastId
  BY Zenon DEF Restart, RemoveExpired
<1>2. disk \in Seq(Item) /\ Kept(disk, lastId, now) /\ Ascending(disk)
      /\ lastId \in Nat /\ now - MaxAge \in Int
  BY QueueAssumption DEF QueueInv, Kept, TypeOK
<1>3. /\ ToSet(queue') = ToSet(disk) \cap S
      /\ Len(queue') < Len(disk) <=> StoredItems(queue') # StoredItems(disk)
      /\ Kept(queue', lastId, now)
  <2>. HIDE DEF S
  <2>. QED
    BY <1>1, <1>2, KeptFiltered, Zenon
<1>4. ASSUME NEW i \in ToSet(disk)
      PROVE  i.id \in 1 .. MaxSubmitted /\ i.id <= lastId /\ i.createdAt \in Int
  <2>1. i \in Item
    BY <1>2 DEF ToSet
  <2>. QED
    BY <1>2, <2>1 DEF Item, Kept
<1>5. PICK expired \in 0 .. lastId :
        \A i \in ToSet(disk) : i \in S <=> i.id > expired
  <2>1. CASE E = {}
    <3>1. \A i \in ToSet(disk) : i \in S /\ i.id > 0
      BY <1>4, <2>1
    <3>. QED
      BY <1>2, <3>1
  <2>2. CASE E # {}
    <3>1. E \in SUBSET Int /\ \A x \in E : x <= lastId
      BY <1>4
    <3>2. PICK m \in E : \A x \in E : x <= m
      <4>. HIDE DEF E
      <4>1. lastId \in Int
        BY <1>2
      <4>. QED
        BY <2>2, <3>1, <4>1, GreatestElement, Zenon
    <3>3. PICK j \in ToSet(disk) : m = j.id /\ ~(j.createdAt >= now - MaxAge)
      BY <3>2
    <3>4. m \in 0 .. lastId
      BY <1>2, <1>4, <3>3
    <3>5. ASSUME NEW i \in ToSet(disk) PROVE i \in S <=> i.id > m
      <4>1. i.id \in Int /\ m \in Int
        BY <1>4, <3>3
      <4>2. CASE i \in S
        <5>1. j.createdAt < i.createdAt
          BY <1>2, <1>4, <3>3, <4>2
        <5>2. j.id < i.id
          BY <1>2, <5>1, OlderFirst
        <5>. QED
          BY <3>3, <4>1, <4>2, <5>2
      <4>3. CASE i \notin S
        <5>1. i.id \in E
          BY <4>3
        <5>. QED
          BY <3>2, <4>1, <4>3, <5>1
      <4>. QED
        BY <4>2, <4>3
    <3>. HIDE DEF S
    <3>. QED
      BY <3>4, <3>5, Zenon
  <2>. QED
    BY <2>1, <2>2
<1>6. StoredItems(queue') = {e \in StoredItems(disk) : e.id > expired}
  <2>1. queue' \in Seq(Item)
    BY <1>3 DEF Kept
  <2>2. StoredItems(queue') = {Entry(i) : i \in ToSet(queue')}
        /\ StoredItems(disk) = {Entry(i) : i \in ToSet(disk)}
    BY <1>2, <2>1, EntriesOf
  <2>3. \A i : Entry(i).id = i.id
    BY DEF Entry
  <2>. HIDE DEF S
  <2>. QED
    BY <1>3, <1>5, <2>2, <2>3
<1>7. persistTimer' = (StoredItems(queue') # StoredItems(disk))
  BY <1>1, <1>3
<1>8. StoredItems(disk)' = StoredItems(disk)
  BY <1>1
<1>9. Store!Restart(expired)
  BY <1>1, <1>6, <1>7, <1>8, Zenon DEF Store!Restart
<1>. QED
  BY <1>5, <1>9

LEMMA StoreStarts == Init => Store!StoreInit
<1> SUFFICES ASSUME Init PROVE Store!StoreInit
  OBVIOUS
<1>1. StoredItems(<< >>) = {}
  BY DEF StoredItems, ToSet
<1>. QED
  BY <1>1 DEF Init, Store!StoreInit

LEMMA StoreStep == QueueInv /\ [Next]_vars => [Store!StoreNext]_(Store!storeVars)
<1> SUFFICES ASSUME QueueInv, [Next]_vars
             PROVE  Store!StoreNext \/ UNCHANGED Store!storeVars
  OBVIOUS
<1>0. lastId \in 0 .. MaxSubmitted
  BY DEF QueueInv, TypeOK
<1>1. ASSUME NEW p \in Priority, NEW size \in Size, Enqueue(p, size)
      PROVE  Store!StoreNext
  BY <1>1, StoreEnqueues, Zenon DEF Store!StoreNext
<1>2. ASSUME NEW ids \in SUBSET (1 .. lastId), Acknowledge(ids) PROVE Store!StoreNext
  <2>1. ids \in SUBSET (1 .. MaxSubmitted)
    BY <1>0, QueueAssumption
  <2>2. Store!Acknowledge(ids)
    BY <1>2, StoreAcknowledges
  <2>. QED
    BY <2>1, <2>2, Zenon DEF Store!StoreNext
<1>3. ASSUME NEW ids, MarkFailed(ids) PROVE UNCHANGED Store!storeVars
  <2>1. StoredItems(queue') = StoredItems(queue)
    BY <1>3, MarkFailedStep
  <2>. QED
    BY <1>3, <2>1 DEF MarkFailed, Store!storeVars
<1>4. CASE PersistNow
  <2>1. CASE disk' = queue /\ diskStale' = FALSE
    BY <1>4, <2>1 DEF PersistNow, Store!PersistNow, Store!StoreNext
  <2>2. CASE disk' = disk /\ diskStale' = TRUE
    BY <1>4, <2>2 DEF PersistNow, Store!PersistFails, Store!StoreNext
  <2>. QED
    BY <1>4, <2>1, <2>2 DEF PersistNow
<1>5. CASE Restart
  BY <1>5, StoreRestarts, Zenon DEF Store!StoreNext
<1>6. CASE RestartUnreadable
  <2>1. StoredItems(<< >>) = {}
    BY DEF StoredItems, ToSet
  <2>. QED
    BY <1>6, <2>1 DEF RestartUnreadable, Store!RestartUnreadable, Store!StoreNext
<1>7. CASE Tick
  BY <1>7 DEF Tick, Store!storeVars
<1>8. CASE UNCHANGED vars
  BY <1>8 DEF vars, Store!storeVars
<1>. QED
  BY <1>1, <1>2, <1>3, <1>4, <1>5, <1>6, <1>7, <1>8 DEF Next

\* Every step of the array, its running total, the eviction loop and the clock is
\* a step of the set of items that the flush loop relies on, or none.
THEOREM QueueImplementsStore == Spec => ImplementsItemStore
<1>1. Spec => Store!StoreSpec
  BY StoreStarts, StoreStep, QueueInvariant, PTL DEF Spec, Store!StoreSpec
<1>. QED
  BY <1>1 DEF ImplementsItemStore
=============================================================================
