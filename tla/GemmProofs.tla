------------------------------ MODULE GemmProofs ------------------------------
(***************************************************************************)
(* Proofs about Gemm, for every size, tile and number of lanes and         *)
(* threads, and about the ranges of parallelFor.                           *)
(*                                                                         *)
(* The argument: a buffer element is always the sum of its first products, *)
(* as many as Reach says for the tile its range is at (Accumulated).  A    *)
(* tile adds the next Tile of them to its own elements (TileAdded), from   *)
(* the operands or from pack buffers that hold the same elements           *)
(* (PackedA, PackedB), and the next tile starts from there                 *)
(* (AdvanceKeeps).  The ranges partition the rows (RangesPartition) and a  *)
(* thread works on one range at a time, so no step of another range        *)
(* touches its elements or its buffers (OthersKept).                       *)
(***************************************************************************)
EXTENDS Gemm, WellFoundedInduction, NaturalsInduction, FiniteSetTheorems, TLAPS

--------------------------------------------------------------------------------

(***************************************************************************)
(* Sums.                                                                   *)
(***************************************************************************)
\* Induction, over a set of numbers.
LEMMA Induct ==
  ASSUME NEW S, 0 \in S, \A n \in Nat : n \in S => n + 1 \in S
  PROVE  Nat \subseteq S
<1> DEFINE Bad == Nat \ S
<1>1. SUFFICES ASSUME Bad # {} PROVE FALSE
  OBVIOUS
<1>2. IsWellFoundedOn(OpToRel(<, Nat), Nat)
  BY NatLessThanWellFounded
<1>3. PICK m \in Bad : \A k \in Bad : ~ (<<k, m>> \in OpToRel(<, Nat))
  <2>1. Bad \subseteq Nat
    OBVIOUS
  <2> HIDE DEF Bad
  <2> QED
    BY <1>1, <1>2, <2>1, WFMin
<1>4. m \in Nat /\ m # 0 /\ m - 1 \in Nat /\ m - 1 < m /\ (m - 1) + 1 = m
  OBVIOUS
<1>5. <<m - 1, m>> \in OpToRel(<, Nat)
  BY <1>4 DEF OpToRel
<1>6. m - 1 \in S
  BY <1>3, <1>4, <1>5
<1> QED
  BY <1>4, <1>6

\* g holds the sums up to n.
Adds(f, from, g, n) ==
  g = [k \in 0 .. n |-> IF k <= from THEN 0 ELSE g[k - 1] + f[k - 1]]

\* Sums up to any number exist.
LEMMA SumsExist ==
  ASSUME NEW f, NEW from \in Nat
  PROVE  \A n \in Nat : \E g : Adds(f, from, g, n)
<1> DEFINE S == {n \in Nat : \E g : Adds(f, from, g, n)}
<1>1. 0 \in S
  <2> DEFINE g == [k \in 0 .. 0 |-> 0]
  <2>1. Adds(f, from, g, 0)
    BY DEF Adds
  <2> QED
    BY <2>1
<1>2. ASSUME NEW n \in Nat, n \in S PROVE n + 1 \in S
  <2>1. PICK g : Adds(f, from, g, n)
    BY <1>2
  <2> DEFINE h == [k \in 0 .. n + 1 |-> IF k <= n THEN g[k] ELSE IF k <= from THEN 0 ELSE g[n] + f[n]]
  <2>2. \A k \in 0 .. n : g[k] = IF k <= from THEN 0 ELSE g[k - 1] + f[k - 1]
    BY <2>1 DEF Adds
  <2>3. \A k \in 0 .. n + 1 : h[k] = IF k <= from THEN 0 ELSE h[k - 1] + f[k - 1]
    <3> TAKE k \in 0 .. n + 1
    <3>1. CASE k \in 0 .. n
      <4>1. k <= from \/ k - 1 \in 0 .. n
        BY <3>1
      <4> QED
        BY <2>2, <3>1, <4>1
    <3>2. CASE k = n + 1
      BY <3>2
    <3> QED
      BY <3>1, <3>2
  <2>4. DOMAIN h = 0 .. n + 1 /\ h = [k \in 0 .. n + 1 |-> h[k]]
    OBVIOUS
  <2> HIDE DEF h
  <2>5. Adds(f, from, h, n + 1)
    BY <2>3, <2>4 DEF Adds
  <2> QED
    BY <2>5
<1> HIDE DEF S
<1>3. Nat \subseteq S
  BY <1>1, <1>2, Induct
<1> QED
  BY <1>3 DEF S

\* They do not depend on how far they go.
LEMMA SumsAgree ==
  ASSUME NEW f, NEW from \in Nat, NEW n \in Nat, NEW m \in Nat,
         NEW g, Adds(f, from, g, n), NEW h, Adds(f, from, h, m)
  PROVE  \A k \in Nat : k <= n /\ k <= m => g[k] = h[k]
<1> DEFINE S == {k \in Nat : k <= n /\ k <= m => g[k] = h[k]}
<1>1. /\ \A k \in 0 .. n : g[k] = IF k <= from THEN 0 ELSE g[k - 1] + f[k - 1]
      /\ \A k \in 0 .. m : h[k] = IF k <= from THEN 0 ELSE h[k - 1] + f[k - 1]
  BY DEF Adds
<1>2. 0 \in S
  BY <1>1
<1>3. ASSUME NEW k \in Nat, k \in S PROVE k + 1 \in S
  BY <1>1, <1>3
<1> HIDE DEF S
<1>4. Nat \subseteq S
  BY <1>2, <1>3, Induct
<1> QED
  BY <1>4 DEF S

\* Sum is the last of them.
LEMMA SumIs ==
  ASSUME NEW f, NEW from \in Nat, NEW n \in Nat, NEW g, Adds(f, from, g, n),
         NEW k \in 0 .. n
  PROVE  Sum(f, from, k) = g[k]
<1> DEFINE total == CHOOSE h : Adds(f, from, h, k)
<1>1. Sum(f, from, k) = total[k]
  BY DEF Sum, Adds
<1>2. Adds(f, from, total, k)
  BY SumsExist
<1> HIDE DEF total
<1>3. total[k] = g[k]
  BY <1>2, SumsAgree
<1> QED
  BY <1>1, <1>3

\* Nothing is added up.
LEMMA SumNone ==
  ASSUME NEW f, NEW from \in Nat, NEW n \in Nat, n <= from
  PROVE  Sum(f, from, n) = 0
<1>1. PICK g : Adds(f, from, g, n)
  BY SumsExist
<1>2. Sum(f, from, n) = g[n]
  BY <1>1, SumIs
<1>3. g[n] = 0
  BY <1>1 DEF Adds
<1> QED
  BY <1>2, <1>3

\* One more element is added.
LEMMA SumNext ==
  ASSUME NEW f, NEW from \in Nat, NEW n \in Nat, from <= n
  PROVE  Sum(f, from, n + 1) = Sum(f, from, n) + f[n]
<1>1. PICK g : Adds(f, from, g, n + 1)
  BY SumsExist
<1>2. Sum(f, from, n) = g[n] /\ Sum(f, from, n + 1) = g[n + 1]
  BY <1>1, SumIs
<1>3. \A k \in 0 .. n + 1 : g[k] = IF k <= from THEN 0 ELSE g[k - 1] + f[k - 1]
  BY <1>1 DEF Adds
<1> QED
  BY <1>2, <1>3

\* A sum of integers is an integer.
LEMMA SumIsInt ==
  ASSUME NEW f, NEW from \in Nat, NEW to \in Nat, \A k \in from .. to - 1 : f[k] \in Int
  PROVE  Sum(f, from, to) \in Int
<1> DEFINE S == {n \in Nat : n <= to => Sum(f, from, n) \in Int}
<1>1. 0 \in S
  BY SumNone
<1>2. ASSUME NEW n \in Nat, n + 1 <= to, Sum(f, from, n) \in Int PROVE Sum(f, from, n + 1) \in Int
  <2>1. CASE n + 1 <= from
    BY <2>1, SumNone
  <2>2. CASE from <= n
    <3>1. Sum(f, from, n + 1) = Sum(f, from, n) + f[n]
      BY <2>2, SumNext
    <3>2. f[n] \in Int
      BY <1>2, <2>2
    <3> QED
      BY <1>2, <3>1, <3>2
  <2> QED
    BY <2>1, <2>2
<1>4. \A n \in Nat : n \in S => n + 1 \in S
  <2> TAKE n \in Nat
  <2> QED
    BY <1>2
<1> HIDE DEF S
<1>3. Nat \subseteq S
  BY <1>1, <1>4, Induct
<1> QED
  BY <1>3 DEF S

\* Equal elements have equal sums.
LEMMA SumSame ==
  ASSUME NEW f, NEW g, NEW from \in Nat, NEW to \in Nat, \A k \in from .. to - 1 : f[k] = g[k]
  PROVE  Sum(f, from, to) = Sum(g, from, to)
<1> DEFINE S == {n \in Nat : n <= to => Sum(f, from, n) = Sum(g, from, n)}
<1>1. 0 \in S
  BY SumNone
<1>2. ASSUME NEW n \in Nat, n + 1 <= to, Sum(f, from, n) = Sum(g, from, n)
      PROVE  Sum(f, from, n + 1) = Sum(g, from, n + 1)
  <2>1. CASE n + 1 <= from
    BY <2>1, SumNone
  <2>2. CASE from <= n
    <3>1. Sum(f, from, n + 1) = Sum(f, from, n) + f[n] /\ Sum(g, from, n + 1) = Sum(g, from, n) + g[n]
      BY <2>2, SumNext
    <3>2. f[n] = g[n]
      BY <1>2, <2>2
    <3> QED
      BY <1>2, <3>1, <3>2
  <2> QED
    BY <2>1, <2>2
<1>4. \A n \in Nat : n \in S => n + 1 \in S
  <2> TAKE n \in Nat
  <2> QED
    BY <1>2
<1> HIDE DEF S
<1>3. Nat \subseteq S
  BY <1>1, <1>4, Induct
<1> QED
  BY <1>3 DEF S

\* A sum in two parts.
LEMMA SumSplit ==
  ASSUME NEW f, NEW from \in Nat, NEW mid \in Nat, NEW to \in Nat, from <= mid, mid <= to,
         \A k \in from .. to - 1 : f[k] \in Int
  PROVE  Sum(f, from, to) = Sum(f, from, mid) + Sum(f, mid, to)
<1> DEFINE S == {n \in Nat : mid <= n /\ n <= to => Sum(f, from, n) = Sum(f, from, mid) + Sum(f, mid, n)}
<1>1. Sum(f, from, mid) \in Int
  <2>1. \A k \in from .. mid - 1 : f[k] \in Int
    OBVIOUS
  <2> QED
    BY <2>1, SumIsInt
<1>2. Sum(f, mid, mid) = 0
  BY SumNone
<1>3. 0 \in S
  BY <1>1, <1>2
<1>4. ASSUME NEW n \in Nat, mid <= n, n + 1 <= to, Sum(f, from, n) = Sum(f, from, mid) + Sum(f, mid, n)
      PROVE  Sum(f, from, n + 1) = Sum(f, from, mid) + Sum(f, mid, n + 1)
  <2>1. Sum(f, from, n + 1) = Sum(f, from, n) + f[n] /\ Sum(f, mid, n + 1) = Sum(f, mid, n) + f[n]
    BY <1>4, SumNext
  <2>2. f[n] \in Int
    BY <1>4
  <2>3. Sum(f, mid, n) \in Int
    BY <1>4, SumIsInt
  <2> QED
    BY <1>1, <1>4, <2>1, <2>2, <2>3
<1>6. \A n \in Nat : n \in S => n + 1 \in S
  <2> TAKE n \in Nat
  <2>1. CASE n + 1 = mid
    BY <1>1, <1>2, <2>1
  <2>2. CASE n + 1 # mid
    BY <1>4, <2>2
  <2> QED
    BY <2>1, <2>2
<1> HIDE DEF S
<1>5. Nat \subseteq S
  BY <1>3, <1>6, Induct
<1> QED
  BY <1>5 DEF S

\* The same elements, counted from 0.
LEMMA SumShift ==
  ASSUME NEW f, NEW g, NEW from \in Nat, NEW length \in Nat, \A k \in 0 .. length - 1 : g[k] = f[from + k]
  PROVE  Sum(f, from, from + length) = Sum(g, 0, length)
<1> DEFINE S == {n \in Nat : n <= length => Sum(f, from, from + n) = Sum(g, 0, n)}
<1>1. 0 \in S
  BY SumNone
<1>2. ASSUME NEW n \in Nat, n \in S PROVE n + 1 \in S
  <2>1. Sum(f, from, (from + n) + 1) = Sum(f, from, from + n) + f[from + n]
    BY SumNext
  <2>2. Sum(g, 0, n + 1) = Sum(g, 0, n) + g[n]
    BY SumNext
  <2>3. (from + n) + 1 = from + (n + 1)
    OBVIOUS
  <2> QED
    BY <1>2, <2>1, <2>2, <2>3
<1> HIDE DEF S
<1>3. Nat \subseteq S
  BY <1>1, <1>2, Induct
<1> QED
  BY <1>3 DEF S

\* The sum of sums.
LEMMA SumAdd ==
  ASSUME NEW f, NEW g, NEW h, NEW to \in Nat,
         \A k \in 0 .. to - 1 : f[k] \in Int /\ g[k] \in Int /\ h[k] = f[k] + g[k]
  PROVE  Sum(h, 0, to) = Sum(f, 0, to) + Sum(g, 0, to)
<1> DEFINE S == {n \in Nat : n <= to => Sum(h, 0, n) = Sum(f, 0, n) + Sum(g, 0, n)}
<1>1. 0 \in S
  BY SumNone
<1>2. ASSUME NEW n \in Nat, n + 1 <= to, Sum(h, 0, n) = Sum(f, 0, n) + Sum(g, 0, n)
      PROVE  Sum(h, 0, n + 1) = Sum(f, 0, n + 1) + Sum(g, 0, n + 1)
  <2>1. /\ Sum(h, 0, n + 1) = Sum(h, 0, n) + h[n]
        /\ Sum(f, 0, n + 1) = Sum(f, 0, n) + f[n]
        /\ Sum(g, 0, n + 1) = Sum(g, 0, n) + g[n]
    BY SumNext
  <2>2. \A k \in 0 .. n - 1 : f[k] \in Int /\ g[k] \in Int
    BY <1>2
  <2>3. Sum(f, 0, n) \in Int /\ Sum(g, 0, n) \in Int
    BY <2>2, SumIsInt
  <2>4. f[n] \in Int /\ g[n] \in Int /\ h[n] = f[n] + g[n]
    BY <1>2
  <2> QED
    BY <1>2, <2>1, <2>3, <2>4
<1>3. \A n \in Nat : n \in S => n + 1 \in S
  BY <1>2
<1> HIDE DEF S
<1>4. Nat \subseteq S
  BY <1>1, <1>3, Induct
<1> QED
  BY <1>4 DEF S

\* Nothing adds up to nothing.
LEMMA SumZero ==
  ASSUME NEW f, NEW to \in Nat, \A k \in 0 .. to - 1 : f[k] = 0
  PROVE  Sum(f, 0, to) = 0
<1>1. \A k \in 0 .. to - 1 : f[k] \in Int /\ f[k] = f[k] + f[k]
  OBVIOUS
<1>2. Sum(f, 0, to) = Sum(f, 0, to) + Sum(f, 0, to)
  BY <1>1, SumAdd
<1>3. Sum(f, 0, to) \in Int
  BY <1>1, SumIsInt
<1>4. \A x \in Int : x = x + x => x = 0
  OBVIOUS
<1> QED
  BY <1>2, <1>3, <1>4, Zenon

--------------------------------------------------------------------------------

(***************************************************************************)
(* Division, and the ranges of parallelFor: the chunk is rounded up, so    *)
(* shards * chunk reaches the count; index i lies in shard i \div chunk,   *)
(* and two shards are a chunk apart.                                       *)
(***************************************************************************)
\* What division by a positive number means.
LEMMA Division ==
  ASSUME NEW a \in Nat, NEW b \in Nat \ {0}
  PROVE  /\ a \div b \in Nat
         /\ (a \div b) * b <= a
         /\ a < (a \div b) * b + b
OBVIOUS

\* Rounding up reaches the whole, and is positive for a positive whole.
LEMMA CeilDivReaches ==
  ASSUME NEW a \in Nat, NEW b \in Nat \ {0}
  PROVE  /\ CeilDiv(a, b) \in Nat
         /\ a <= CeilDiv(a, b) * b
         /\ a > 0 => CeilDiv(a, b) > 0
<1> DEFINE q == CeilDiv(a, b)
<1>1. a + b - 1 \in Nat
  OBVIOUS
<1>2. q \in Nat /\ q * b <= a + b - 1 /\ a + b - 1 < q * b + b
  BY <1>1, Division DEF CeilDiv
<1>3. a <= q * b
  BY <1>2
<1>4. ASSUME a > 0, q = 0 PROVE FALSE
  BY <1>3, <1>4
<1> QED
  BY <1>2, <1>3, <1>4

\* Multiplying keeps the order of natural numbers.
LEMMA Monotone ==
  ASSUME NEW x \in Nat, NEW y \in Nat, NEW z \in Nat, x <= y
  PROVE  x * z <= y * z
OBVIOUS

\* The chunks of Cut.
LEMMA CutPartitions ==
  ASSUME NEW count \in Nat \ {0}, NEW shards \in Nat \ {0}
  PROVE  Partitions(Cut(count, shards), count)
<1> DEFINE chunk == CeilDiv(count, shards)
           Upto(s) == IF s * chunk + chunk > count THEN count ELSE s * chunk + chunk
           used == {s \in 0 .. shards - 1 : s * chunk < count}
<1>1. chunk \in Nat \ {0} /\ count <= chunk * shards
  BY CeilDivReaches
<1>2. Cut(count, shards) = {<<s * chunk, Upto(s)>> : s \in used}
  BY DEF Cut
<1> HIDE DEF chunk
<1>3. ASSUME NEW s \in used
      PROVE  /\ s \in Nat /\ s * chunk \in Nat /\ Upto(s) \in Nat
             /\ s * chunk < Upto(s) /\ Upto(s) <= count /\ Upto(s) <= s * chunk + chunk
  BY <1>1
<1>4. ASSUME NEW i \in 0 .. count - 1
      PROVE  \E s \in used : s * chunk <= i /\ i < Upto(s)
  <2> DEFINE s == i \div chunk
  <2>1. s \in Nat /\ s * chunk <= i /\ i < s * chunk + chunk
    BY <1>1, Division
  <2> HIDE DEF s
  <2>2. s < shards
    <3>1. ASSUME shards <= s PROVE FALSE
      <4>1. shards * chunk <= s * chunk
        BY <1>1, <2>1, <3>1, Monotone
      <4>2. shards * chunk = chunk * shards
        BY <1>1
      <4> QED
        BY <1>1, <2>1, <4>1, <4>2
    <3> QED
      BY <2>1, <3>1
  <2>3. s \in used /\ i < Upto(s)
    BY <1>1, <2>1, <2>2
  <2> QED
    BY <2>1, <2>3
<1>5. ASSUME NEW s \in used, NEW t \in used, s < t
      PROVE  Upto(s) <= t * chunk
  <2>1. s + 1 <= t /\ s \in Nat /\ t \in Nat
    BY <1>5, <1>3
  <2>2. (s + 1) * chunk <= t * chunk
    BY <1>1, <2>1, Monotone
  <2>3. (s + 1) * chunk = s * chunk + chunk
    BY <1>1, <2>1
  <2>4. Upto(s) <= s * chunk + chunk
    BY <1>3
  <2>5. Upto(s) \in Nat /\ s * chunk \in Nat /\ t * chunk \in Nat
    BY <1>3
  <2> HIDE DEF Upto
  <2> QED
    BY <1>1, <2>2, <2>3, <2>4, <2>5
<1> HIDE DEF Upto
<1>6. \A r \in Cut(count, shards) : 0 <= r[1] /\ r[1] < r[2] /\ r[2] <= count
  BY <1>2, <1>3
<1>7. ASSUME NEW i \in 0 .. count - 1
      PROVE  \E r \in Cut(count, shards) : r[1] <= i /\ i < r[2]
  <2>1. PICK s \in used : s * chunk <= i /\ i < Upto(s)
    BY <1>4
  <2>2. <<s * chunk, Upto(s)>> \in Cut(count, shards)
    BY <1>2
  <2> QED
    BY <2>1, <2>2
<1>8. ASSUME NEW r \in Cut(count, shards), NEW q \in Cut(count, shards), r # q
      PROVE  r[2] <= q[1] \/ q[2] <= r[1]
  <2>1. PICK s \in used : r = <<s * chunk, Upto(s)>>
    BY <1>2
  <2>2. PICK t \in used : q = <<t * chunk, Upto(t)>>
    BY <1>2
  <2>3. s # t
    BY <1>8, <2>1, <2>2
  <2>4. s < t \/ t < s
    BY <1>3, <2>3
  <2> QED
    BY <1>5, <2>1, <2>2, <2>4
<1> QED
  BY <1>6, <1>7, <1>8 DEF Partitions

(***************************************************************************)
(* parallelFor calls body for every index exactly once, however few or     *)
(* many threads there are and whatever the smallest chunk is.              *)
(***************************************************************************)
THEOREM RangesPartition ==
  ASSUME NEW count \in Nat, NEW minChunk \in Nat, NEW workers \in Nat, NEW inside \in BOOLEAN
  PROVE  Partitions(Ranges(count, minChunk, workers, inside), count)
<1> DEFINE shards == ShardCount(count, minChunk, workers)
<1>1. CASE count = 0
  BY <1>1 DEF Ranges, Partitions
<1>2. ASSUME count # 0 PROVE Partitions({<<0, count>>}, count)
  BY <1>2 DEF Partitions
<1>3. CASE count # 0 /\ shards > 1 /\ workers # 0 /\ ~ inside
  <2>1. shards \in Nat \ {0}
    <3>1. CeilDiv(count, IF minChunk = 0 THEN 1 ELSE minChunk) \in Nat
      BY CeilDivReaches
    <3> QED
      BY <1>3, <3>1 DEF ShardCount
  <2> HIDE DEF shards
  <2>2. Ranges(count, minChunk, workers, inside) = Cut(count, shards)
    BY <1>3, <2>1 DEF Ranges, shards
  <2> QED
    BY <1>3, <2>1, <2>2, CutPartitions
<1>4. CASE count # 0 /\ (shards <= 1 \/ workers = 0 \/ inside)
  BY <1>2, <1>4 DEF Ranges
<1>5. shards \in Nat
  <2>1. CeilDiv(count, IF minChunk = 0 THEN 1 ELSE minChunk) \in Nat
    BY CeilDivReaches
  <2> QED
    BY <2>1 DEF ShardCount
<1> QED
  BY <1>1, <1>3, <1>4, <1>5

\* The ranges are pairs of numbers.
LEMMA RangesAreNat ==
  ASSUME NEW count \in Nat, NEW minChunk \in Nat, NEW workers \in Nat, NEW inside \in BOOLEAN
  PROVE  Ranges(count, minChunk, workers, inside) \subseteq Nat \X Nat
<1> DEFINE shards == ShardCount(count, minChunk, workers)
           chunk == CeilDiv(count, shards)
<1>1. shards \in Nat
  <2>1. CeilDiv(count, IF minChunk = 0 THEN 1 ELSE minChunk) \in Nat
    BY CeilDivReaches
  <2> QED
    BY <2>1 DEF ShardCount
<1>2. CASE count = 0 \/ shards <= 1 \/ workers = 0 \/ inside
  BY <1>2 DEF Ranges
<1>3. CASE count # 0 /\ shards > 1 /\ workers # 0 /\ ~ inside
  <2> HIDE DEF shards
  <2>1. Ranges(count, minChunk, workers, inside) = Cut(count, shards)
    BY <1>1, <1>3 DEF Ranges, shards
  <2>2. chunk \in Nat
    BY <1>1, <1>3, CeilDivReaches
  <2> HIDE DEF chunk
  <2>3. \A s \in 0 .. shards - 1 : s * chunk \in Nat
    BY <1>1, <2>2
  <2>4. Cut(count, shards) \subseteq Nat \X Nat
    BY <2>2, <2>3 DEF Cut, chunk
  <2> QED
    BY <2>1, <2>4
<1> QED
  BY <1>1, <1>2, <1>3

\* The quotient and the remainder of a place.
LEMMA DivMod ==
  ASSUME NEW q \in Nat, NEW b \in Nat \ {0}, NEW x \in 0 .. b - 1
  PROVE  (q * b + x) \div b = q /\ (q * b + x) % b = x
<1> DEFINE a == q * b + x
<1>1. a \in Nat
  OBVIOUS
<1>2. a \div b \in Nat /\ (a \div b) * b <= a /\ a < (a \div b) * b + b
  BY <1>1, Division
<1>3. a % b = a - (a \div b) * b
  BY <1>1
<1> DEFINE d == a \div b
<1> HIDE DEF d
<1>4. d \in Nat /\ d * b <= q * b + x /\ q * b + x < d * b + b
  BY <1>2 DEF d
<1>5. ASSUME d < q PROVE FALSE
  <2>1. (d + 1) * b <= q * b
    BY <1>4, <1>5, Monotone
  <2>2. (d + 1) * b = d * b + b
    BY <1>4
  <2> QED
    BY <1>4, <2>1, <2>2
<1>6. ASSUME q < d PROVE FALSE
  <2>1. (q + 1) * b <= d * b
    BY <1>4, <1>6, Monotone
  <2>2. (q + 1) * b = q * b + b
    OBVIOUS
  <2> QED
    BY <1>4, <2>1, <2>2
<1>7. d = q
  BY <1>4, <1>5, <1>6
<1> QED
  BY <1>3, <1>7 DEF d

\* Row i and column j of n rows of m have a place.
LEMMA Place ==
  ASSUME NEW n \in Nat, NEW m \in Nat, NEW i \in 0 .. n - 1, NEW j \in 0 .. m - 1
  PROVE  i * m + j \in 0 .. n * m - 1
<1>1. (i + 1) * m <= n * m
  BY Monotone
<1>2. (i + 1) * m = i * m + m /\ i * m \in Nat /\ n * m \in Nat
  OBVIOUS
<1> QED
  BY <1>1, <1>2

\* And a place has its row and its column.
LEMMA PlaceOf ==
  ASSUME NEW n \in Nat, NEW m \in Nat, NEW x \in 0 .. n * m - 1
  PROVE  m # 0 /\ x \div m \in 0 .. n - 1 /\ x % m \in 0 .. m - 1
<1>1. m # 0 /\ x \in Nat
  OBVIOUS
<1>2. x \div m \in Nat /\ (x \div m) * m <= x
  BY <1>1, Division
<1>3. ASSUME n <= x \div m PROVE FALSE
  <2>1. n * m <= (x \div m) * m
    BY <1>2, <1>3, Monotone
  <2>2. (x \div m) * m \in Nat
    BY <1>2
  <2> QED
    BY <1>2, <2>1, <2>2
<1>4. x % m \in 0 .. m - 1
  BY <1>1
<1> QED
  BY <1>1, <1>2, <1>3, <1>4

--------------------------------------------------------------------------------

(***************************************************************************)
(* accumulateDotContiguous: the lanes add up what one loop adds up.        *)
(***************************************************************************)
LEMMA LanesAdd ==
  ASSUME NEW f, NEW blocks \in Nat, \A k \in 0 .. Lanes * blocks - 1 : f[k] \in Int
  PROVE  Sum([l \in 0 .. Lanes - 1 |-> Sum([q \in 0 .. blocks - 1 |-> f[Lanes * q + l]], 0, blocks)], 0, Lanes)
           = Sum(f, 0, Lanes * blocks)
<1> DEFINE lane(l) == [q \in 0 .. blocks - 1 |-> f[Lanes * q + l]]
           upTo(b) == [l \in 0 .. Lanes - 1 |-> Sum(lane(l), 0, b)]
           S == {b \in Nat : b <= blocks => Sum(upTo(b), 0, Lanes) = Sum(f, 0, Lanes * b)}
<1>1. Lanes \in Nat \ {0}
  BY TileAssumption
<1>2. \A q \in 0 .. blocks - 1, l \in 0 .. Lanes - 1 : f[Lanes * q + l] \in Int
  <2> TAKE q \in 0 .. blocks - 1, l \in 0 .. Lanes - 1
  <2>1. q * Lanes + l \in 0 .. blocks * Lanes - 1
    BY <1>1, Place
  <2>2. q * Lanes = Lanes * q /\ blocks * Lanes = Lanes * blocks
    BY <1>1
  <2> QED
    BY <2>1, <2>2
<1>3. 0 \in S
  <2>1. \A l \in 0 .. Lanes - 1 : Sum(lane(l), 0, 0) = 0
    BY SumNone
  <2>2. \A l \in 0 .. Lanes - 1 : upTo(0)[l] = 0
    BY <2>1
  <2> HIDE DEF upTo
  <2>3. Sum(upTo(0), 0, Lanes) = 0
    BY <1>1, <2>2, SumZero
  <2>4. Lanes * 0 = 0 /\ Sum(f, 0, 0) = 0
    BY <1>1, SumNone
  <2> QED
    BY <2>3, <2>4
<1>4. ASSUME NEW b \in Nat, b + 1 <= blocks, Sum(upTo(b), 0, Lanes) = Sum(f, 0, Lanes * b)
      PROVE  Sum(upTo(b + 1), 0, Lanes) = Sum(f, 0, Lanes * (b + 1))
  <2> DEFINE block == [l \in 0 .. Lanes - 1 |-> f[Lanes * b + l]]
  <2>1. \A l \in 0 .. Lanes - 1 : block[l] \in Int
    BY <1>2, <1>4
  <2>2. ASSUME NEW l \in 0 .. Lanes - 1
        PROVE  upTo(b)[l] \in Int /\ upTo(b + 1)[l] = upTo(b)[l] + block[l]
    <3>1. \A q \in 0 .. b - 1 : lane(l)[q] \in Int
      BY <1>2, <1>4
    <3>2. lane(l)[b] = block[l]
      BY <1>4
    <3> HIDE DEF lane, block
    <3>3. Sum(lane(l), 0, b) \in Int
      BY <3>1, SumIsInt
    <3>4. Sum(lane(l), 0, b + 1) = Sum(lane(l), 0, b) + lane(l)[b]
      BY SumNext
    <3> QED
      BY <3>2, <3>3, <3>4
  <2>3. Lanes * b \in Nat /\ Lanes * (b + 1) = Lanes * b + Lanes
    BY <1>1
  <2>4. \A k \in 0 .. Lanes * (b + 1) - 1 : f[k] \in Int
    <3>1. (b + 1) * Lanes <= blocks * Lanes
      BY <1>1, <1>4, Monotone
    <3>2. (b + 1) * Lanes = Lanes * (b + 1) /\ blocks * Lanes = Lanes * blocks
      BY <1>1
    <3>3. Lanes * (b + 1) \in Nat /\ Lanes * blocks \in Nat
      BY <1>1
    <3> QED
      BY <3>1, <3>2, <3>3
  <2>5. \A l \in 0 .. Lanes - 1 : block[l] = f[Lanes * b + l]
    OBVIOUS
  <2> HIDE DEF upTo, block
  <2>6. Sum(upTo(b + 1), 0, Lanes) = Sum(upTo(b), 0, Lanes) + Sum(block, 0, Lanes)
    BY <1>1, <2>1, <2>2, SumAdd
  <2>7. Sum(f, Lanes * b, Lanes * b + Lanes) = Sum(block, 0, Lanes)
    BY <1>1, <2>3, <2>5, SumShift
  <2> DEFINE mid == Lanes * b
             to == mid + Lanes
  <2>8. Sum(f, 0, to) = Sum(f, 0, mid) + Sum(f, mid, to)
    <3>1. mid \in Nat /\ to \in Nat /\ mid <= to /\ \A k \in 0 .. to - 1 : f[k] \in Int
      BY <1>1, <2>3, <2>4
    <3> HIDE DEF mid, to
    <3> QED
      BY <3>1, SumSplit
  <2> QED
    BY <1>4, <2>3, <2>6, <2>7, <2>8
<1>5. \A b \in Nat : b \in S => b + 1 \in S
  <2> TAKE b \in Nat
  <2> HIDE DEF upTo
  <2> QED
    BY <1>4
<1> HIDE DEF S
<1>6. Nat \subseteq S
  BY <1>3, <1>5, Induct
<1>7. blocks \in S
  BY <1>6
<1> QED
  BY <1>7 DEF S

--------------------------------------------------------------------------------

(***************************************************************************)
(* The inductive invariant.                                                *)
(***************************************************************************)
\* The first products of row i and column j, added up.
Partial(i, j, to) == Sum(Products(i, j), 0, to)

\* How many of them are in the buffer when a range is at a tile.
Reach(tile, i, j) ==
  IF i < tile[1] THEN K ELSE IF tile[1] + Tile <= i THEN 0
  ELSE IF j < tile[3] THEN Low(tile[2] + Tile, K) ELSE tile[2]

Accumulated(r, tile) ==
  \A x \in Rows(r) : out[x] = Partial(RowOf(x), x % M, Reach(tile, RowOf(x), x % M))

\* The pack buffers of its thread hold the tile a range is at.
PackedA(r) ==
  \A i \in 0 .. Height(r) - 1, k \in 0 .. Depth(r) - 1 :
    packA[shard[r].thread][i * Depth(r) + k] = ElemA(shard[r].tile[1] + i, shard[r].tile[2] + k)
PackedB(r) ==
  \A k \in 0 .. Depth(r) - 1, j \in 0 .. Width(r) - 1 :
    packB[shard[r].thread][k * Width(r) + j] = ElemB(shard[r].tile[2] + k, shard[r].tile[3] + j)

InTile(r, tile) ==
  r[1] <= tile[1] /\ tile[1] < r[2] /\ tile[2] < K /\ tile[3] < M

\* What is done of a range.
Progress(r) ==
  LET stage == shard[r].stage  tile == shard[r].tile IN
  /\ stage \in {"tile", "packA", "packB", "micro"} => InTile(r, tile) /\ Accumulated(r, tile)
  /\ stage = "queued" => tile = <<r[1], 0, 0>>
  /\ stage = "tile" => kernel # "packed"
  /\ stage \in {"packB", "micro"} => PackedA(r)
  /\ stage = "micro" => PackedB(r)
  /\ stage = "finalize" => \A x \in Rows(r) : out[x] = Partial(RowOf(x), x % M, K)
  /\ stage = "done" =>
       \A x \in Rows(r) : out[x] = Finished(RowOf(x), x % M, Partial(RowOf(x), x % M, K))

Working(r) == shard[r].stage \notin {"queued", "done"}

Shard == [stage : {"queued", "rows", "tile", "packA", "packB", "micro", "finalize", "done"},
          thread : Thread, tile : Nat \X Nat \X Nat]

\* A pack buffer for each thread.
Buffers(pack) ==
  DOMAIN pack = Thread /\ \A t \in Thread : DOMAIN pack[t] = 0 .. Tile * Tile - 1

\* The rows are shared out, to a thread each.
SharedOut ==
  /\ call.fits
  /\ DOMAIN shard \subseteq Nat \X Nat
  /\ N = 0 \/ Partitions(DOMAIN shard, N)
  /\ \A r \in DOMAIN shard : shard[r] \in Shard
  /\ \A r, q \in DOMAIN shard :
       r # q /\ Working(r) /\ Working(q) => shard[r].thread # shard[q].thread

Begun == pc \in {"running", "finished"}

IInv ==
  /\ call \in Problem
  /\ DOMAIN out = 0 .. N * M - 1
  /\ Buffers(packA) /\ Buffers(packB)
  /\ Begun => SharedOut /\ \A r \in DOMAIN shard : Progress(r)
  /\ pc = "finished" => \A r \in DOMAIN shard : shard[r].stage = "done"

--------------------------------------------------------------------------------

(***************************************************************************)
(* The elements, and what the kernels that take a row at a time add up.    *)
(***************************************************************************)
LEMMA SizesAreNat ==
  ASSUME call \in Problem
  PROVE  N \in Nat /\ K \in Nat /\ M \in Nat
BY ProblemAssumption DEF N, K, M

LEMMA ElementsAreInts ==
  ASSUME call \in Problem, call.fits, NEW k \in 0 .. K - 1
  PROVE  /\ \A i \in 0 .. N - 1 : ElemA(i, k) \in Int
         /\ \A j \in 0 .. M - 1 : ElemB(k, j) \in Int
<1>1. N \in Nat /\ K \in Nat /\ M \in Nat
  BY SizesAreNat
<1>2. (\A x \in 0 .. N * K - 1 : A[x] \in Int) /\ (\A x \in 0 .. K * M - 1 : B[x] \in Int)
  BY ProblemAssumption DEF N, K, M
<1>3. ASSUME NEW i \in 0 .. N - 1 PROVE ElemA(i, k) \in Int
  <2>1. i * K + k \in 0 .. N * K - 1
    BY <1>1, Place
  <2>2. k * N + i \in 0 .. K * N - 1
    BY <1>1, Place
  <2>3. K * N = N * K
    BY <1>1
  <2> QED
    BY <1>2, <2>1, <2>2, <2>3 DEF ElemA
<1>4. ASSUME NEW j \in 0 .. M - 1 PROVE ElemB(k, j) \in Int
  <2>1. k * M + j \in 0 .. K * M - 1
    BY <1>1, Place
  <2>2. j * K + k \in 0 .. M * K - 1
    BY <1>1, Place
  <2>3. M * K = K * M
    BY <1>1
  <2> QED
    BY <1>2, <2>1, <2>2, <2>3 DEF ElemB
<1> QED
  BY <1>3, <1>4

\* Products are integers, and a skipped one is 0.
LEMMA ProductsAreInts ==
  ASSUME call \in Problem, call.fits, NEW i \in 0 .. N - 1, NEW j \in 0 .. M - 1, NEW k \in 0 .. K - 1
  PROVE  /\ Products(i, j)[k] = ElemA(i, k) * ElemB(k, j)
         /\ Products(i, j)[k] \in Int
         /\ Nonzero(i, j)[k] = Products(i, j)[k]
<1>1. ElemA(i, k) \in Int /\ ElemB(k, j) \in Int
  BY ElementsAreInts
<1>2. \A a, b \in Int : a * b \in Int /\ (a = 0 => a * b = 0)
  OBVIOUS
<1>3. Products(i, j)[k] = ElemA(i, k) * ElemB(k, j)
  BY DEF Products
<1>4. Nonzero(i, j)[k] = IF ElemA(i, k) = 0 THEN 0 ELSE ElemA(i, k) * ElemB(k, j)
  BY DEF Nonzero
<1>5. CASE ElemA(i, k) = 0
  BY <1>1, <1>2, <1>3, <1>4, <1>5
<1>6. CASE ElemA(i, k) # 0
  BY <1>1, <1>2, <1>3, <1>4, <1>6
<1> QED
  BY <1>5, <1>6

\* accumulateReordered adds up what accumulateNaive does.
LEMMA ReorderedIsNaive ==
  ASSUME call \in Problem, call.fits, NEW i \in 0 .. N - 1, NEW j \in 0 .. M - 1
  PROVE  Reordered(i, j) = Partial(i, j, K)
<1> DEFINE f == Products(i, j)
           blocks == K \div Lanes
<1>1. K \in Nat /\ Lanes \in Nat \ {0}
  BY SizesAreNat, TileAssumption
<1>2. \A k \in 0 .. K - 1 : f[k] \in Int
  BY ProductsAreInts
<1>3. CASE call.transB /\ ~ call.transA
  <2>1. blocks \in Nat /\ blocks * Lanes <= K
    BY <1>1, Division
  <2> DEFINE mid == Lanes * blocks
  <2>2. Reordered(i, j) =
          Sum([l \in 0 .. Lanes - 1 |-> Sum([q \in 0 .. blocks - 1 |-> f[Lanes * q + l]], 0, blocks)], 0, Lanes)
            + Sum(f, mid, K)
    BY <1>3 DEF Reordered, DotContiguous
  <2> HIDE DEF f, blocks
  <2>3. mid \in Nat /\ mid <= K
    BY <1>1, <2>1
  <2>4. \A k \in 0 .. mid - 1 : f[k] \in Int
    BY <1>1, <1>2, <2>3
  <2>5. Sum([l \in 0 .. Lanes - 1 |-> Sum([q \in 0 .. blocks - 1 |-> f[Lanes * q + l]], 0, blocks)], 0, Lanes)
          = Sum(f, 0, mid)
    BY <2>1, <2>4, LanesAdd
  <2> HIDE DEF mid
  <2>6. Sum(f, 0, K) = Sum(f, 0, mid) + Sum(f, mid, K)
    BY <1>1, <1>2, <2>3, SumSplit
  <2>7. Partial(i, j, K) = Sum(f, 0, K)
    BY DEF Partial, f
  <2> QED
    BY <2>2, <2>5, <2>6, <2>7
<1>4. CASE ~ (call.transB /\ ~ call.transA)
  <2>1. Reordered(i, j) = Sum(Nonzero(i, j), 0, K)
    BY <1>4 DEF Reordered
  <2>2. \A k \in 0 .. K - 1 : Nonzero(i, j)[k] = f[k]
    BY ProductsAreInts
  <2> HIDE DEF f
  <2>3. Sum(Nonzero(i, j), 0, K) = Sum(f, 0, K)
    BY <1>1, <2>2, SumSame
  <2> QED
    BY <2>1, <2>3 DEF Partial, f
<1> QED
  BY <1>3, <1>4

\* Where the elements of a range are.
LEMMA RowsOf ==
  ASSUME call \in Problem, DOMAIN out = 0 .. N * M - 1, NEW r, NEW x \in Rows(r)
  PROVE  /\ RowOf(x) \in 0 .. N - 1 /\ x % M \in 0 .. M - 1
         /\ r[1] <= RowOf(x) /\ RowOf(x) < r[2]
<1>1. N \in Nat /\ M \in Nat
  BY SizesAreNat
<1>2. x \in 0 .. N * M - 1 /\ r[1] <= RowOf(x) /\ RowOf(x) < r[2]
  BY DEF Rows
<1>3. x \div M \in 0 .. N - 1 /\ x % M \in 0 .. M - 1
  BY <1>1, <1>2, PlaceOf
<1> QED
  BY <1>2, <1>3 DEF RowOf

\* No two ranges share an element.
LEMMA RowsLieApart ==
  ASSUME call \in Problem, DOMAIN out = 0 .. N * M - 1, SharedOut,
         NEW r \in DOMAIN shard, NEW q \in DOMAIN shard, r # q
  PROVE  Rows(r) \cap Rows(q) = {}
<1>1. SUFFICES ASSUME NEW x \in Rows(r), x \in Rows(q) PROVE FALSE
  OBVIOUS
<1>2. RowOf(x) \in 0 .. N - 1 /\ r[1] <= RowOf(x) /\ RowOf(x) < r[2]
  BY <1>1, RowsOf
<1>3. q[1] <= RowOf(x) /\ RowOf(x) < q[2]
  BY <1>1, RowsOf
<1>4. N \in Nat
  BY SizesAreNat
<1>5. r[2] <= q[1] \/ q[2] <= r[1]
  BY <1>2, <1>4 DEF SharedOut, Partitions
<1>6. r[1] \in Nat /\ r[2] \in Nat /\ q[1] \in Nat /\ q[2] \in Nat
  BY DEF SharedOut
<1> QED
  BY <1>2, <1>3, <1>5, <1>6

--------------------------------------------------------------------------------

(***************************************************************************)
(* The tiles.                                                              *)
(***************************************************************************)
\* The elements, their places and their sums do not change in a call.
LEMMA SameProblem ==
  ASSUME UNCHANGED call, DOMAIN out' = DOMAIN out
  PROVE  /\ N' = N /\ K' = K /\ M' = M
         /\ \A x : RowOf(x)' = RowOf(x)
         /\ \A r : Rows(r)' = Rows(r)
         /\ \A i, k : ElemA(i, k)' = ElemA(i, k) /\ ElemB(i, k)' = ElemB(i, k)
         /\ \A i, j, to : Partial(i, j, to)' = Partial(i, j, to)
         /\ \A i, j, raw : Finished(i, j, raw)' = Finished(i, j, raw)
<1>1. N' = N /\ K' = K /\ M' = M
  BY DEF N, K, M
<1>2. \A x : RowOf(x)' = RowOf(x)
  BY <1>1 DEF RowOf
<1>3. \A r : Rows(r)' = Rows(r)
  BY <1>2 DEF Rows
<1>4. \A i, k : ElemA(i, k)' = ElemA(i, k) /\ ElemB(i, k)' = ElemB(i, k)
  BY <1>1 DEF ElemA, ElemB
<1>5. ASSUME NEW i, NEW j, NEW to PROVE Partial(i, j, to)' = Partial(i, j, to)
  BY DEF Partial, Products, ElemA, ElemB, N, K, M
<1>6. ASSUME NEW i, NEW j, NEW raw PROVE Finished(i, j, raw)' = Finished(i, j, raw)
  BY <1>1 DEF Finished, BiasAt
<1> QED
  BY <1>1, <1>2, <1>3, <1>4, <1>5, <1>6

\* The sizes of a tile: it ends with its range, or a whole tile further.
LEMMA TileSizes ==
  ASSUME call \in Problem, SharedOut, NEW r \in DOMAIN shard, InTile(r, shard[r].tile)
  PROVE  LET tile == shard[r].tile IN
         /\ r[1] \in Nat /\ r[2] \in Nat /\ tile[1] \in Nat /\ tile[2] \in Nat /\ tile[3] \in Nat
         /\ Height(r) \in 1 .. Tile /\ tile[1] + Height(r) = Low(tile[1] + Tile, r[2])
         /\ Depth(r) \in 1 .. Tile /\ tile[2] + Depth(r) = Low(tile[2] + Tile, K)
         /\ Width(r) \in 1 .. Tile /\ tile[3] + Width(r) = Low(tile[3] + Tile, M)
<1>1. shard[r].tile \in Nat \X Nat \X Nat /\ r \in Nat \X Nat
  BY DEF SharedOut, Shard
<1>2. K \in Nat /\ M \in Nat /\ Tile \in Nat \ {0}
  BY SizesAreNat, TileAssumption
<1> QED
  BY <1>1, <1>2 DEF InTile, Height, Depth, Width, Low

\* An index in a tile of at most t that ends at e.
LEMMA Within ==
  ASSUME NEW i \in Int, NEW a \in Int, NEW h \in Int, NEW t \in Int, NEW e \in Int,
         i < e, a + h = IF a + t < e THEN a + t ELSE e
  PROVE  i - a \in 0 .. h - 1 <=> a <= i /\ i < a + t
OBVIOUS

\* A tile's products continue the sums that are there.
LEMMA TileContinues ==
  ASSUME call \in Problem, call.fits, NEW i \in 0 .. N - 1, NEW j \in 0 .. M - 1,
         NEW kk \in Nat, NEW depth \in Nat, kk + depth <= K
  PROVE  Partial(i, j, kk) + Sum(Products(i, j), kk, kk + depth) = Partial(i, j, kk + depth)
<1> DEFINE f == Products(i, j)
           to == kk + depth
<1>1. \A k \in 0 .. K - 1 : f[k] \in Int
  BY ProductsAreInts
<1>2. K \in Nat /\ to \in Nat /\ kk <= to /\ to <= K
  BY SizesAreNat
<1>3. \A k \in 0 .. to - 1 : f[k] \in Int
  BY <1>1, <1>2
<1> HIDE DEF f, to
<1>4. 0 \in Nat /\ 0 <= kk
  OBVIOUS
<1>5. Sum(f, 0, to) = Sum(f, 0, kk) + Sum(f, kk, to)
  BY <1>2, <1>3, <1>4, SumSplit, Zenon
<1> QED
  BY <1>5 DEF Partial, f, to

\* After a tile the buffer is where the next column of tiles starts.
LEMMA TileAdded ==
  ASSUME call \in Problem, DOMAIN out = 0 .. N * M - 1, SharedOut,
         NEW r \in DOMAIN shard, InTile(r, shard[r].tile), Accumulated(r, shard[r].tile),
         \A x \in Rows(r) : out'[x] =
           IF /\ RowOf(x) - shard[r].tile[1] \in 0 .. Height(r) - 1
              /\ (x % M) - shard[r].tile[3] \in 0 .. Width(r) - 1
           THEN out[x] + Sum(Products(RowOf(x), x % M), shard[r].tile[2], shard[r].tile[2] + Depth(r))
           ELSE out[x],
         NEW x \in Rows(r)
  PROVE  out'[x] = Partial(RowOf(x), x % M,
           Reach(<<shard[r].tile[1], shard[r].tile[2], shard[r].tile[3] + Tile>>, RowOf(x), x % M))
<1> DEFINE i == RowOf(x)
           j == x % M
           ii == shard[r].tile[1]
           kk == shard[r].tile[2]
           jj == shard[r].tile[3]
           next == <<ii, kk, jj + Tile>>
<1>1. /\ r[1] \in Nat /\ r[2] \in Nat /\ ii \in Nat /\ kk \in Nat /\ jj \in Nat
      /\ Height(r) \in 1 .. Tile /\ ii + Height(r) = Low(ii + Tile, r[2])
      /\ Depth(r) \in 1 .. Tile /\ kk + Depth(r) = Low(kk + Tile, K)
      /\ Width(r) \in 1 .. Tile /\ jj + Width(r) = Low(jj + Tile, M)
  BY TileSizes
<1>2. i \in 0 .. N - 1 /\ j \in 0 .. M - 1 /\ i < r[2]
  BY RowsOf
<1>3. N \in Nat /\ K \in Nat /\ M \in Nat /\ Tile \in Nat \ {0}
  BY SizesAreNat, TileAssumption
<1>4. out[x] = Partial(i, j, Reach(shard[r].tile, i, j))
  BY DEF Accumulated
<1>5. out'[x] = IF i - ii \in 0 .. Height(r) - 1 /\ j - jj \in 0 .. Width(r) - 1
                THEN out[x] + Sum(Products(i, j), kk, kk + Depth(r)) ELSE out[x]
  OBVIOUS
<1>6. Reach(next, i, j) = IF i < ii THEN K ELSE IF ii + Tile <= i THEN 0
                          ELSE IF j < jj + Tile THEN Low(kk + Tile, K) ELSE kk
  BY DEF Reach
<1>7. Reach(shard[r].tile, i, j) = IF i < ii THEN K ELSE IF ii + Tile <= i THEN 0
                                   ELSE IF j < jj THEN Low(kk + Tile, K) ELSE kk
  BY DEF Reach
<1> DEFINE h == Height(r)
           d == Depth(r)
           w == Width(r)
<1> HIDE DEF i, j, ii, kk, jj, next, h, d, w
<1>8. /\ i \in Nat /\ j \in Nat /\ ii \in Nat /\ jj \in Nat /\ kk \in Nat /\ d \in Nat
      /\ kk + d = Low(kk + Tile, K) /\ kk + d <= K
      /\ i - ii \in 0 .. h - 1 <=> ii <= i /\ i < ii + Tile
      /\ j - jj \in 0 .. w - 1 <=> jj <= j /\ j < jj + Tile
  <2>1. h \in Int /\ ii + h = IF ii + Tile < r[2] THEN ii + Tile ELSE r[2]
    BY <1>1 DEF h, Low
  <2>2. w \in Int /\ jj + w = IF jj + Tile < M THEN jj + Tile ELSE M
    BY <1>1 DEF w, Low
  <2>3. d \in Nat /\ kk + d = IF kk + Tile < K THEN kk + Tile ELSE K
    BY <1>1 DEF d, Low
  <2>4. i \in Nat /\ j \in Nat /\ i < r[2] /\ j < M
    BY <1>2, <1>3
  <2>5. i - ii \in 0 .. h - 1 <=> ii <= i /\ i < ii + Tile
    <3>1. i \in Int /\ ii \in Int /\ h \in Int /\ Tile \in Int /\ r[2] \in Int /\ i < r[2]
      BY <1>1, <1>3, <2>1, <2>4
    <3> QED
      BY <2>1, <3>1, Within, Zenon
  <2>6. j - jj \in 0 .. w - 1 <=> jj <= j /\ j < jj + Tile
    <3>1. j \in Int /\ jj \in Int /\ w \in Int /\ Tile \in Int /\ M \in Int /\ j < M
      BY <1>1, <1>3, <2>2, <2>4
    <3> QED
      BY <2>2, <3>1, Within, Zenon
  <2> QED
    BY <1>1, <1>3, <2>3, <2>4, <2>5, <2>6 DEF Low
<1>9. CASE ii <= i /\ i < ii + Tile /\ jj <= j /\ j < jj + Tile
  <2>1. Reach(shard[r].tile, i, j) = kk /\ Reach(next, i, j) = kk + d
    BY <1>3, <1>6, <1>7, <1>8, <1>9
  <2>2. Partial(i, j, kk) + Sum(Products(i, j), kk, kk + d) = Partial(i, j, kk + d)
    <3>1. call.fits /\ i \in 0 .. N - 1 /\ j \in 0 .. M - 1 /\ kk \in Nat /\ d \in Nat /\ kk + d <= K
      BY <1>2, <1>8 DEF SharedOut
    <3> QED
      BY <3>1, TileContinues, Zenon
  <2>3. out'[x] = out[x] + Sum(Products(i, j), kk, kk + d)
    BY <1>5, <1>8, <1>9 DEF h, w, d
  <2> QED
    BY <1>4, <2>1, <2>2, <2>3 DEF i, j, ii, kk, jj, next
<1>10. CASE ~ (ii <= i /\ i < ii + Tile /\ jj <= j /\ j < jj + Tile)
  <2>1. Reach(shard[r].tile, i, j) = Reach(next, i, j)
    BY <1>3, <1>6, <1>7, <1>8, <1>10
  <2>2. out'[x] = out[x]
    BY <1>5, <1>8, <1>10 DEF h, w
  <2> QED
    BY <1>4, <2>1, <2>2 DEF i, j, ii, kk, jj, next
<1> QED
  BY <1>9, <1>10

--------------------------------------------------------------------------------

(***************************************************************************)
(* A step of one range leaves the others alone.                            *)
(***************************************************************************)
\* What is done of a range changes only with its elements, its record and
\* the buffers of its thread.
LEMMA OthersKept ==
  ASSUME call \in Problem, DOMAIN out = 0 .. N * M - 1, SharedOut,
         NEW s \in DOMAIN shard, NEW r \in DOMAIN shard, r # s, Progress(r),
         UNCHANGED <<call, kernel>>, DOMAIN out' = DOMAIN out,
         \A x \in DOMAIN out : x \notin Rows(s) => out'[x] = out[x],
         shard'[r] = shard[r],
         Working(r) => /\ packA'[shard[r].thread] = packA[shard[r].thread]
                       /\ packB'[shard[r].thread] = packB[shard[r].thread]
  PROVE  Progress(r)'
<1>1. /\ K' = K /\ M' = M
      /\ \A x : RowOf(x)' = RowOf(x)
      /\ Rows(r)' = Rows(r)
      /\ \A i, k : ElemA(i, k)' = ElemA(i, k) /\ ElemB(i, k)' = ElemB(i, k)
      /\ \A i, j, to : Partial(i, j, to)' = Partial(i, j, to)
      /\ \A i, j, raw : Finished(i, j, raw)' = Finished(i, j, raw)
  BY SameProblem
<1>2. \A x \in Rows(r) : out'[x] = out[x]
  BY RowsLieApart DEF Rows
<1>3. \A tile, i, j : Reach(tile, i, j)' = Reach(tile, i, j)
  BY <1>1 DEF Reach
<1>4. Height(r)' = Height(r) /\ Depth(r)' = Depth(r) /\ Width(r)' = Width(r)
  BY <1>1 DEF Height, Depth, Width
<1>5. Accumulated(r, shard[r].tile) => Accumulated(r, shard[r].tile)'
  BY <1>1, <1>2, <1>3 DEF Accumulated
<1>6. InTile(r, shard[r].tile) => InTile(r, shard[r].tile)'
  BY <1>1 DEF InTile
<1>7. shard[r].stage \in {"packB", "micro"} /\ PackedA(r) => PackedA(r)'
  BY <1>1, <1>4 DEF PackedA, Working
<1>8. shard[r].stage = "micro" /\ PackedB(r) => PackedB(r)'
  BY <1>1, <1>4 DEF PackedB, Working
<1>9. (\A x \in Rows(r) : out[x] = Partial(RowOf(x), x % M, K))
        => (\A x \in Rows(r) : out[x] = Partial(RowOf(x), x % M, K))'
  BY <1>1, <1>2
<1>10. (\A x \in Rows(r) : out[x] = Finished(RowOf(x), x % M, Partial(RowOf(x), x % M, K)))
         => (\A x \in Rows(r) : out[x] = Finished(RowOf(x), x % M, Partial(RowOf(x), x % M, K)))'
  BY <1>1, <1>2
<1> QED
  BY <1>5, <1>6, <1>7, <1>8, <1>9, <1>10 DEF Progress

\* So a step of a range has only that range to answer for.
LEMMA StepKeeps ==
  ASSUME IInv, pc = "running", NEW s \in DOMAIN shard,
         UNCHANGED <<call, pc, kernel>>,
         DOMAIN shard' = DOMAIN shard,
         \A r \in DOMAIN shard : r # s => shard'[r] = shard[r],
         shard'[s] \in Shard,
         DOMAIN out' = DOMAIN out,
         \A x \in DOMAIN out : x \notin Rows(s) => out'[x] = out[x],
         Buffers(packA)', Buffers(packB)',
         \A r \in DOMAIN shard : r # s /\ Working(r) =>
           /\ shard[r].thread # shard'[s].thread
           /\ packA'[shard[r].thread] = packA[shard[r].thread]
           /\ packB'[shard[r].thread] = packB[shard[r].thread],
         Progress(s)'
  PROVE  IInv'
<1>1. call \in Problem /\ DOMAIN out = 0 .. N * M - 1 /\ SharedOut /\ \A r \in DOMAIN shard : Progress(r)
  BY DEF IInv, Begun
<1>2. N' = N /\ M' = M
  BY DEF N, M
<1>3. \A r \in DOMAIN shard : Progress(r)'
  BY <1>1, OthersKept
<1>4. SharedOut'
  <2>1. \A r \in DOMAIN shard : shard'[r] \in Shard
    BY <1>1 DEF SharedOut
  <2>2. ASSUME NEW r \in DOMAIN shard, NEW q \in DOMAIN shard, r # q, Working(r)', Working(q)'
        PROVE  shard'[r].thread # shard'[q].thread
    <3>1. r # s => Working(r)
      BY <2>2 DEF Working
    <3>2. q # s => Working(q)
      BY <2>2 DEF Working
    <3> QED
      BY <1>1, <2>2, <3>1, <3>2 DEF SharedOut
  <2> QED
    BY <1>1, <1>2, <2>1, <2>2 DEF SharedOut, Partitions, Shard, Thread
<1> QED
  BY <1>1, <1>2, <1>3, <1>4 DEF IInv, Begun

--------------------------------------------------------------------------------

(***************************************************************************)
(* The steps.                                                              *)
(***************************************************************************)
\* What is known of a range before a step of it.
LEMMA Known ==
  ASSUME IInv, pc = "running", NEW r \in DOMAIN shard
  PROVE  /\ call \in Problem /\ DOMAIN out = 0 .. N * M - 1 /\ SharedOut /\ Progress(r)
         /\ N \in Nat /\ K \in Nat /\ M \in Nat /\ Tile \in Nat \ {0}
         /\ r \in Nat \X Nat /\ shard[r] \in Shard
         /\ Buffers(packA) /\ Buffers(packB)
<1>1. call \in Problem /\ DOMAIN out = 0 .. N * M - 1 /\ SharedOut /\ Progress(r)
  BY DEF IInv, Begun
<1>2. N \in Nat /\ K \in Nat /\ M \in Nat /\ Tile \in Nat \ {0}
  BY <1>1, SizesAreNat, TileAssumption
<1>3. r \in Nat \X Nat /\ shard[r] \in Shard
  BY <1>1 DEF SharedOut
<1> QED
  BY <1>1, <1>2, <1>3 DEF IInv

\* The blocked kernels begin with nothing added up.
LEMMA BeginKeeps ==
  ASSUME IInv, NEW t \in Thread, NEW r \in DOMAIN shard, Begin(t, r)
  PROVE  IInv'
<1> DEFINE blocked == kernel \in {"tiled", "packed"}
           first == IF kernel = "tiled" THEN "tile" ELSE "packA"
           next == IF ~ blocked THEN "rows" ELSE IF K > 0 /\ M > 0 /\ N > 0 THEN first ELSE "finalize"
<1>1. /\ pc = "running" /\ shard[r].stage = "queued" /\ Idle(t)
      /\ shard' = [shard EXCEPT ![r].stage = next, ![r].thread = t]
      /\ out' = [x \in DOMAIN out |-> IF blocked /\ x \in Rows(r) THEN 0 ELSE out[x]]
      /\ UNCHANGED <<call, pc, kernel, packA, packB>>
  BY DEF Begin, At
<1>2. /\ call \in Problem /\ DOMAIN out = 0 .. N * M - 1 /\ SharedOut /\ Progress(r)
      /\ N \in Nat /\ K \in Nat /\ M \in Nat /\ Tile \in Nat \ {0}
      /\ r \in Nat \X Nat /\ shard[r] \in Shard
      /\ Buffers(packA) /\ Buffers(packB)
  BY <1>1, Known
<1>3. /\ next \in {"rows", "tile", "packA", "finalize"}
      /\ next \in {"tile", "packA", "finalize"} => blocked
      /\ next \in {"tile", "packA"} => K > 0 /\ M > 0 /\ N > 0
      /\ next = "finalize" => ~ (K > 0 /\ M > 0 /\ N > 0)
      /\ next = "tile" => kernel # "packed"
  OBVIOUS
<1> HIDE DEF next
<1>4. /\ DOMAIN shard' = DOMAIN shard
      /\ \A q \in DOMAIN shard : q # r => shard'[q] = shard[q]
      /\ shard'[r].stage = next /\ shard'[r].thread = t /\ shard'[r].tile = shard[r].tile
      /\ shard'[r] \in Shard
  BY <1>1, <1>2, <1>3 DEF Shard
<1>5. DOMAIN out' = DOMAIN out /\ \A x \in DOMAIN out : x \notin Rows(r) => out'[x] = out[x]
  BY <1>1
<1>6. \A q \in DOMAIN shard : q # r /\ Working(q) => shard[q].thread # t
  BY <1>1 DEF Idle, Working
<1>7. shard[r].tile = <<r[1], 0, 0>>
  BY <1>1, <1>2 DEF Progress
<1>8. /\ K' = K /\ M' = M
      /\ \A x : RowOf(x)' = RowOf(x)
      /\ Rows(r)' = Rows(r)
      /\ \A i, j, to : Partial(i, j, to)' = Partial(i, j, to)
  BY <1>1, <1>5, SameProblem
<1>9. \A i, j : Partial(i, j, 0) = 0
  BY SumNone DEF Partial
<1>10. ASSUME blocked, NEW x \in Rows(r) PROVE out'[x] = Partial(RowOf(x), x % M, 0)
  BY <1>1, <1>9, <1>10 DEF Rows
<1>11. ASSUME next \in {"tile", "packA"} PROVE InTile(r, shard[r].tile)' /\ Accumulated(r, shard[r].tile)'
  <2>1. r[1] < r[2]
    BY <1>2, <1>3, <1>11 DEF SharedOut, Partitions
  <2>2. InTile(r, shard[r].tile)'
    BY <1>2, <1>3, <1>4, <1>7, <1>8, <1>11, <2>1 DEF InTile
  <2>3. ASSUME NEW x \in Rows(r) PROVE Reach(shard[r].tile, RowOf(x), x % M) = 0
    <3>1. RowOf(x) \in 0 .. N - 1 /\ x % M \in 0 .. M - 1 /\ r[1] <= RowOf(x)
      BY <1>2, RowsOf
    <3> QED
      BY <1>2, <1>7, <3>1 DEF Reach
  <2>4. \A i, j : Reach(shard[r].tile, i, j)' = Reach(shard[r].tile, i, j)
    BY <1>4, <1>8 DEF Reach
  <2>5. ASSUME NEW x \in Rows(r)
        PROVE  out'[x] = Partial(RowOf(x), x % M, Reach(shard[r].tile, RowOf(x), x % M))
    BY <1>3, <1>10, <1>11, <2>3
  <2> QED
    BY <1>8, <2>2, <2>4, <2>5 DEF Accumulated
<1>12. ASSUME next = "finalize", NEW x \in Rows(r)
       PROVE  out'[x] = Partial(RowOf(x), x % M, K)
  <2>1. RowOf(x) \in 0 .. N - 1 /\ x % M \in 0 .. M - 1
    BY <1>2, RowsOf
  <2>2. K = 0
    BY <1>2, <1>3, <1>12, <2>1
  <2> QED
    BY <1>3, <1>10, <1>12, <2>2
<1>13. Progress(r)'
  BY <1>1, <1>3, <1>4, <1>8, <1>11, <1>12 DEF Progress
<1> QED
  BY <1>1, <1>2, <1>4, <1>5, <1>6, <1>13, StepKeeps DEF Buffers

LEMMA WholeRowsKeeps ==
  ASSUME IInv, NEW r \in DOMAIN shard, WholeRows(r)
  PROVE  IInv'
<1>1. /\ pc = "running" /\ shard[r].stage = "rows"
      /\ out' = [x \in DOMAIN out |->
               IF x \notin Rows(r) THEN out[x]
               ELSE IF kernel = "naive" THEN Naive(RowOf(x), x % M) ELSE Reordered(RowOf(x), x % M)]
      /\ shard' = [shard EXCEPT ![r].stage = "finalize"]
      /\ UNCHANGED <<call, pc, kernel, packA, packB>>
  BY DEF WholeRows, At, Goto
<1>2. /\ call \in Problem /\ DOMAIN out = 0 .. N * M - 1 /\ SharedOut /\ Progress(r)
      /\ r \in Nat \X Nat /\ shard[r] \in Shard
      /\ Buffers(packA) /\ Buffers(packB)
  BY <1>1, Known
<1>3. /\ DOMAIN shard' = DOMAIN shard
      /\ \A q \in DOMAIN shard : q # r => shard'[q] = shard[q]
      /\ shard'[r].stage = "finalize" /\ shard'[r].thread = shard[r].thread
      /\ shard'[r] \in Shard
  BY <1>1, <1>2 DEF Shard
<1>4. DOMAIN out' = DOMAIN out /\ \A x \in DOMAIN out : x \notin Rows(r) => out'[x] = out[x]
  BY <1>1
<1>5. ASSUME NEW x \in Rows(r) PROVE out'[x] = Partial(RowOf(x), x % M, K)
  <2>1. RowOf(x) \in 0 .. N - 1 /\ x % M \in 0 .. M - 1
    BY <1>2, RowsOf
  <2>2. Reordered(RowOf(x), x % M) = Partial(RowOf(x), x % M, K)
    BY <1>2, <2>1, ReorderedIsNaive DEF SharedOut
  <2>3. Naive(RowOf(x), x % M) = Partial(RowOf(x), x % M, K)
    BY DEF Naive, Partial
  <2> QED
    BY <1>1, <2>2, <2>3 DEF Rows
<1>6. Progress(r)'
  BY <1>1, <1>3, <1>4, <1>5, SameProblem DEF Progress
<1>7. \A q \in DOMAIN shard : q # r /\ Working(q) => shard[q].thread # shard[r].thread
  BY <1>1, <1>2 DEF SharedOut, Working
<1> QED
  BY <1>1, <1>2, <1>3, <1>4, <1>6, <1>7, StepKeeps DEF Buffers

LEMMA FinalizeKeeps ==
  ASSUME IInv, NEW r \in DOMAIN shard, Finalize(r)
  PROVE  IInv'
<1>1. /\ pc = "running" /\ shard[r].stage = "finalize"
      /\ out' = [x \in DOMAIN out |-> IF x \in Rows(r) THEN Finished(RowOf(x), x % M, out[x]) ELSE out[x]]
      /\ shard' = [shard EXCEPT ![r].stage = "done"]
      /\ UNCHANGED <<call, pc, kernel, packA, packB>>
  BY DEF Finalize, At, Goto
<1>2. /\ call \in Problem /\ DOMAIN out = 0 .. N * M - 1 /\ SharedOut /\ Progress(r)
      /\ r \in Nat \X Nat /\ shard[r] \in Shard
      /\ Buffers(packA) /\ Buffers(packB)
  BY <1>1, Known
<1>3. /\ DOMAIN shard' = DOMAIN shard
      /\ \A q \in DOMAIN shard : q # r => shard'[q] = shard[q]
      /\ shard'[r].stage = "done" /\ shard'[r].thread = shard[r].thread
      /\ shard'[r] \in Shard
  BY <1>1, <1>2 DEF Shard
<1>4. DOMAIN out' = DOMAIN out /\ \A x \in DOMAIN out : x \notin Rows(r) => out'[x] = out[x]
  BY <1>1
<1>5. \A x \in Rows(r) : out[x] = Partial(RowOf(x), x % M, K)
  BY <1>1, <1>2 DEF Progress
<1>6. \A x \in Rows(r) : out'[x] = Finished(RowOf(x), x % M, Partial(RowOf(x), x % M, K))
  BY <1>1, <1>5 DEF Rows
<1>7. Progress(r)'
  BY <1>1, <1>3, <1>4, <1>6, SameProblem DEF Progress
<1>8. \A q \in DOMAIN shard : q # r /\ Working(q) => shard[q].thread # shard[r].thread
  BY <1>1, <1>2 DEF SharedOut, Working
<1> QED
  BY <1>1, <1>2, <1>3, <1>4, <1>7, <1>8, StepKeeps DEF Buffers

\* A tile of A fits its buffer, an element to a place.
LEMMA PackAKeeps ==
  ASSUME IInv, NEW r \in DOMAIN shard, PackA(r)
  PROVE  IInv'
<1> DEFINE ii == shard[r].tile[1]
           kk == shard[r].tile[2]
           t == shard[r].thread
           h == Height(r)
           d == Depth(r)
<1>1. /\ pc = "running" /\ shard[r].stage = "packA"
      /\ packA' = [packA EXCEPT ![t] =
           [x \in DOMAIN @ |-> IF x < h * d THEN ElemA(ii + x \div d, kk + (x % d)) ELSE @[x]]]
      /\ shard' = [shard EXCEPT ![r].stage = "packB"]
      /\ UNCHANGED <<call, pc, kernel, out, packB>>
  BY DEF PackA, At, Goto, Buffer
<1>2. /\ call \in Problem /\ DOMAIN out = 0 .. N * M - 1 /\ SharedOut /\ Progress(r)
      /\ K \in Nat /\ Tile \in Nat \ {0}
      /\ r \in Nat \X Nat /\ shard[r] \in Shard
      /\ Buffers(packA) /\ Buffers(packB)
  BY <1>1, Known
<1>3. /\ DOMAIN shard' = DOMAIN shard
      /\ \A q \in DOMAIN shard : q # r => shard'[q] = shard[q]
      /\ shard'[r].stage = "packB" /\ shard'[r].thread = t /\ shard'[r].tile = shard[r].tile
      /\ shard'[r] \in Shard
  BY <1>1, <1>2 DEF Shard
<1>4. InTile(r, shard[r].tile) /\ Accumulated(r, shard[r].tile)
  BY <1>1, <1>2 DEF Progress
<1>5. h \in 1 .. Tile /\ d \in 1 .. Tile
  BY <1>2, <1>4, TileSizes
<1>6. t \in Thread
  BY <1>2 DEF Shard
<1>7. /\ DOMAIN packA' = DOMAIN packA
      /\ \A u \in Thread : u # t => packA'[u] = packA[u]
      /\ packA'[t] = [x \in DOMAIN packA[t] |->
                        IF x < h * d THEN ElemA(ii + x \div d, kk + (x % d)) ELSE packA[t][x]]
  BY <1>1, <1>2, <1>6 DEF Buffers
<1>8. Buffers(packA)' /\ Buffers(packB)'
  BY <1>1, <1>2, <1>6, <1>7 DEF Buffers, Thread
<1>9. /\ K' = K /\ M' = M
      /\ \A x : RowOf(x)' = RowOf(x)
      /\ Rows(r)' = Rows(r)
      /\ \A i, k : ElemA(i, k)' = ElemA(i, k)
      /\ \A i, j, to : Partial(i, j, to)' = Partial(i, j, to)
  BY <1>1, SameProblem
<1>10. h' = h /\ d' = d
  BY <1>3, <1>9 DEF Height, Depth
<1>11. ASSUME NEW i \in 0 .. h - 1, NEW k \in 0 .. d - 1
       PROVE  packA'[t][i * d + k] = ElemA(ii + i, kk + k)
  <2> HIDE DEF h, d, ii, kk, t
  <2>1. i \in Nat /\ d \in Nat \ {0} /\ h \in Nat /\ k \in 0 .. d - 1
    BY <1>2, <1>5
  <2>2. i * d + k \in 0 .. h * d - 1
    BY <2>1, Place
  <2>3. (i * d + k) \div d = i /\ (i * d + k) % d = k
    BY <2>1, DivMod
  <2>4. h * d <= Tile * Tile
    <3>1. h * d <= Tile * d
      BY <1>2, <1>5, <2>1, Monotone
    <3>2. d * Tile <= Tile * Tile
      BY <1>2, <1>5, <2>1, Monotone
    <3>3. d * Tile = Tile * d /\ h * d \in Nat /\ Tile * d \in Nat /\ Tile * Tile \in Nat
      BY <1>2, <2>1
    <3> QED
      BY <3>1, <3>2, <3>3
  <2>5. i * d + k \in 0 .. Tile * Tile - 1 /\ i * d + k < h * d
    <3>1. h * d \in Nat /\ Tile * Tile \in Nat
      BY <1>2, <2>1
    <3> QED
      BY <2>2, <2>4, <3>1
  <2>6. i * d + k \in DOMAIN packA[t]
    BY <1>2, <1>6, <2>5 DEF Buffers
  <2> QED
    BY <1>7, <2>3, <2>5, <2>6
<1>12. PackedA(r)'
  BY <1>3, <1>9, <1>10, <1>11 DEF PackedA
<1>13. InTile(r, shard[r].tile)' /\ Accumulated(r, shard[r].tile)'
  BY <1>1, <1>3, <1>4, <1>9 DEF InTile, Accumulated, Reach
<1>14. Progress(r)'
  BY <1>3, <1>12, <1>13 DEF Progress
<1>15. \A q \in DOMAIN shard : q # r /\ Working(q) => shard[q].thread # t /\ shard[q].thread \in Thread
  BY <1>1, <1>2 DEF SharedOut, Working, Shard
<1>16. \A q \in DOMAIN shard : q # r /\ Working(q) =>
         /\ shard[q].thread # shard'[r].thread
         /\ packA'[shard[q].thread] = packA[shard[q].thread]
         /\ packB'[shard[q].thread] = packB[shard[q].thread]
  BY <1>1, <1>3, <1>7, <1>15
<1>17. DOMAIN out' = DOMAIN out /\ \A x \in DOMAIN out : x \notin Rows(r) => out'[x] = out[x]
  BY <1>1
<1>18. UNCHANGED <<call, pc, kernel>> /\ pc = "running"
  BY <1>1
<1> HIDE DEF t
<1> QED
  BY <1>3, <1>8, <1>14, <1>16, <1>17, <1>18, StepKeeps

\* And so does a tile of B.
LEMMA PackBKeeps ==
  ASSUME IInv, NEW r \in DOMAIN shard, PackB(r)
  PROVE  IInv'
<1> DEFINE kk == shard[r].tile[2]
           jj == shard[r].tile[3]
           t == shard[r].thread
           d == Depth(r)
           w == Width(r)
<1>1. /\ pc = "running" /\ shard[r].stage = "packB"
      /\ packB' = [packB EXCEPT ![t] =
           [x \in DOMAIN @ |-> IF x < d * w THEN ElemB(kk + x \div w, jj + (x % w)) ELSE @[x]]]
      /\ shard' = [shard EXCEPT ![r].stage = "micro"]
      /\ UNCHANGED <<call, pc, kernel, out, packA>>
  BY DEF PackB, At, Goto, Buffer
<1>2. /\ call \in Problem /\ DOMAIN out = 0 .. N * M - 1 /\ SharedOut /\ Progress(r)
      /\ K \in Nat /\ M \in Nat /\ Tile \in Nat \ {0}
      /\ r \in Nat \X Nat /\ shard[r] \in Shard
      /\ Buffers(packA) /\ Buffers(packB)
  BY <1>1, Known
<1>3. /\ DOMAIN shard' = DOMAIN shard
      /\ \A q \in DOMAIN shard : q # r => shard'[q] = shard[q]
      /\ shard'[r].stage = "micro" /\ shard'[r].thread = t /\ shard'[r].tile = shard[r].tile
      /\ shard'[r] \in Shard
  BY <1>1, <1>2 DEF Shard
<1>4. InTile(r, shard[r].tile) /\ Accumulated(r, shard[r].tile) /\ PackedA(r)
  BY <1>1, <1>2 DEF Progress
<1>5. d \in 1 .. Tile /\ w \in 1 .. Tile
  BY <1>2, <1>4, TileSizes
<1>6. t \in Thread
  BY <1>2 DEF Shard
<1>7. /\ DOMAIN packB' = DOMAIN packB
      /\ \A u \in Thread : u # t => packB'[u] = packB[u]
      /\ packB'[t] = [x \in DOMAIN packB[t] |->
                        IF x < d * w THEN ElemB(kk + x \div w, jj + (x % w)) ELSE packB[t][x]]
  BY <1>1, <1>2, <1>6 DEF Buffers
<1>8. Buffers(packA)' /\ Buffers(packB)'
  BY <1>1, <1>2, <1>6, <1>7 DEF Buffers, Thread
<1>9. /\ K' = K /\ M' = M
      /\ \A x : RowOf(x)' = RowOf(x)
      /\ Rows(r)' = Rows(r)
      /\ \A i, k : ElemA(i, k)' = ElemA(i, k) /\ ElemB(i, k)' = ElemB(i, k)
      /\ \A i, j, to : Partial(i, j, to)' = Partial(i, j, to)
  BY <1>1, SameProblem
<1>10. Height(r)' = Height(r) /\ d' = d /\ w' = w
  BY <1>3, <1>9 DEF Height, Depth, Width
<1>11. ASSUME NEW k \in 0 .. d - 1, NEW j \in 0 .. w - 1
       PROVE  packB'[t][k * w + j] = ElemB(kk + k, jj + j)
  <2> HIDE DEF d, w, kk, jj, t
  <2>1. k \in Nat /\ w \in Nat \ {0} /\ d \in Nat /\ j \in 0 .. w - 1
    BY <1>2, <1>5
  <2>2. k * w + j \in 0 .. d * w - 1
    BY <2>1, Place
  <2>3. (k * w + j) \div w = k /\ (k * w + j) % w = j
    BY <2>1, DivMod
  <2>4. d * w <= Tile * Tile
    <3>1. d * w <= Tile * w
      BY <1>2, <1>5, <2>1, Monotone
    <3>2. w * Tile <= Tile * Tile
      BY <1>2, <1>5, <2>1, Monotone
    <3>3. w * Tile = Tile * w /\ d * w \in Nat /\ Tile * w \in Nat /\ Tile * Tile \in Nat
      BY <1>2, <2>1
    <3> QED
      BY <3>1, <3>2, <3>3
  <2>5. k * w + j \in 0 .. Tile * Tile - 1 /\ k * w + j < d * w
    <3>1. d * w \in Nat /\ Tile * Tile \in Nat
      BY <1>2, <2>1
    <3> QED
      BY <2>2, <2>4, <3>1
  <2>6. k * w + j \in DOMAIN packB[t]
    BY <1>2, <1>6, <2>5 DEF Buffers
  <2> QED
    BY <1>7, <2>3, <2>5, <2>6
<1>12. PackedB(r)'
  BY <1>3, <1>9, <1>10, <1>11 DEF PackedB
<1>13. InTile(r, shard[r].tile)' /\ Accumulated(r, shard[r].tile)' /\ PackedA(r)'
  BY <1>1, <1>3, <1>4, <1>9, <1>10 DEF InTile, Accumulated, Reach, PackedA
<1>14. Progress(r)'
  BY <1>3, <1>12, <1>13 DEF Progress
<1>15. \A q \in DOMAIN shard : q # r /\ Working(q) => shard[q].thread # t /\ shard[q].thread \in Thread
  BY <1>1, <1>2 DEF SharedOut, Working, Shard
<1>16. \A q \in DOMAIN shard : q # r /\ Working(q) =>
         /\ shard[q].thread # shard'[r].thread
         /\ packA'[shard[q].thread] = packA[shard[q].thread]
         /\ packB'[shard[q].thread] = packB[shard[q].thread]
  BY <1>1, <1>3, <1>7, <1>15
<1>17. DOMAIN out' = DOMAIN out /\ \A x \in DOMAIN out : x \notin Rows(r) => out'[x] = out[x]
  BY <1>1
<1>18. UNCHANGED <<call, pc, kernel>> /\ pc = "running"
  BY <1>1
<1> HIDE DEF t
<1> QED
  BY <1>3, <1>8, <1>14, <1>16, <1>17, <1>18, StepKeeps

\* An index below a size is below what reaches the size.
LEMMA Below ==
  ASSUME NEW a \in Int, NEW b \in Int, NEW c \in Int, a < b, b <= c
  PROVE  a < c /\ ~ (c <= a)
OBVIOUS

\* The next tile starts from what the last one left.
LEMMA AdvanceKeeps ==
  ASSUME IInv, pc = "running", NEW r \in DOMAIN shard, shard[r].stage \in {"tile", "micro"},
         Advance(r), UNCHANGED <<call, pc, kernel, packA, packB>>,
         DOMAIN out' = DOMAIN out,
         \A x \in DOMAIN out : x \notin Rows(r) => out'[x] = out[x],
         \A x \in Rows(r) : out'[x] = Partial(RowOf(x), x % M,
           Reach(<<shard[r].tile[1], shard[r].tile[2], shard[r].tile[3] + Tile>>, RowOf(x), x % M))
  PROVE  IInv'
<1> DEFINE ii == shard[r].tile[1]
           kk == shard[r].tile[2]
           jj == shard[r].tile[3]
           next == <<ii, kk, jj + Tile>>
           packed(stage) == IF kernel = "packed" THEN stage ELSE "tile"
<1>1. /\ call \in Problem /\ DOMAIN out = 0 .. N * M - 1 /\ SharedOut /\ Progress(r)
      /\ N \in Nat /\ K \in Nat /\ M \in Nat /\ Tile \in Nat \ {0}
      /\ r \in Nat \X Nat /\ shard[r] \in Shard
      /\ Buffers(packA) /\ Buffers(packB)
  BY Known
<1>2. /\ InTile(r, shard[r].tile)
      /\ shard[r].stage = "tile" => kernel # "packed"
      /\ shard[r].stage = "micro" => PackedA(r)
  BY <1>1 DEF Progress
<1>3. /\ ii \in Nat /\ kk \in Nat /\ jj \in Nat /\ r[1] \in Nat /\ r[2] \in Nat
      /\ shard[r].tile = <<ii, kk, jj>>
      /\ r[1] <= ii /\ ii < r[2] /\ kk < K /\ jj < M
  BY <1>1, <1>2 DEF Shard, InTile
<1>4. PICK stage, tile :
        /\ shard' = [shard EXCEPT ![r].stage = stage, ![r].tile = tile]
        /\ \/ jj + Tile < M /\ stage = packed("packB") /\ tile = <<ii, kk, jj + Tile>>
           \/ jj + Tile >= M /\ kk + Tile < K /\ stage = packed("packA") /\ tile = <<ii, kk + Tile, 0>>
           \/ /\ jj + Tile >= M /\ kk + Tile >= K /\ ii + Tile < r[2]
              /\ stage = packed("packA") /\ tile = <<ii + Tile, 0, 0>>
           \/ /\ jj + Tile >= M /\ kk + Tile >= K /\ ii + Tile >= r[2]
              /\ stage = "finalize" /\ tile = shard[r].tile
  BY DEF Advance
<1> DEFINE jt == jj + Tile
           kt == kk + Tile
           it == ii + Tile
<1> HIDE DEF ii, kk, jj
<1>5. jt \in Nat /\ kt \in Nat /\ it \in Nat /\ r[1] <= it
  BY <1>1, <1>3
<1> HIDE DEF jt, kt, it
<1>6. \/ jt < M /\ stage = packed("packB") /\ tile = <<ii, kk, jt>>
      \/ jt >= M /\ kt < K /\ stage = packed("packA") /\ tile = <<ii, kt, 0>>
      \/ jt >= M /\ kt >= K /\ it < r[2] /\ stage = packed("packA") /\ tile = <<it, 0, 0>>
      \/ jt >= M /\ kt >= K /\ it >= r[2] /\ stage = "finalize" /\ tile = <<ii, kk, jj>>
  BY <1>3, <1>4 DEF jt, kt, it
<1>7. stage \in {"tile", "packA", "packB", "finalize"} /\ tile \in Nat \X Nat \X Nat
  BY <1>3, <1>5, <1>6
<1>8. /\ DOMAIN shard' = DOMAIN shard
      /\ \A q \in DOMAIN shard : q # r => shard'[q] = shard[q]
      /\ shard'[r].stage = stage /\ shard'[r].thread = shard[r].thread /\ shard'[r].tile = tile
      /\ shard'[r] \in Shard
  BY <1>1, <1>4, <1>7 DEF Shard
<1>9. /\ K' = K /\ M' = M
      /\ \A x : RowOf(x)' = RowOf(x)
      /\ Rows(r)' = Rows(r)
      /\ \A i, k : ElemA(i, k)' = ElemA(i, k)
      /\ \A i, j, to : Partial(i, j, to)' = Partial(i, j, to)
  BY SameProblem
<1>10. \A place, i, j : Reach(place, i, j)' = Reach(place, i, j)
  BY <1>9 DEF Reach
<1>11. ASSUME NEW x \in Rows(r)
      PROVE  /\ RowOf(x) \in Nat /\ RowOf(x) < r[2] /\ x % M \in Nat /\ x % M < M
             /\ Reach(next, RowOf(x), x % M) =
                  IF RowOf(x) < ii THEN K ELSE IF it <= RowOf(x) THEN 0
                  ELSE IF x % M < jt THEN Low(kt, K) ELSE kk
             /\ out'[x] = Partial(RowOf(x), x % M, Reach(next, RowOf(x), x % M))
  <2>1. RowOf(x) \in 0 .. N - 1 /\ x % M \in 0 .. M - 1 /\ RowOf(x) < r[2]
    BY <1>1, RowsOf
  <2>2. next[1] = ii /\ next[2] = kk /\ next[3] = jj + Tile
    OBVIOUS
  <2>3. out'[x] = Partial(RowOf(x), x % M, Reach(next, RowOf(x), x % M))
    BY DEF ii, kk, jj
  <2> HIDE DEF next
  <2> QED
    BY <1>1, <2>1, <2>2, <2>3 DEF Reach, jt, kt, it
<1> HIDE DEF next
<1>12. stage = "packB" => PackedA(r)'
  <2>1. SUFFICES ASSUME stage = "packB" PROVE PackedA(r)'
    OBVIOUS
  <2>2. kernel = "packed" /\ tile = <<ii, kk, jt>>
    BY <1>6, <2>1
  <2>3. PackedA(r)
    BY <1>2, <2>2
  <2>4. Height(r)' = Height(r) /\ Depth(r)' = Depth(r)
    BY <1>3, <1>8, <1>9, <2>2 DEF Height, Depth
  <2> QED
    BY <1>3, <1>8, <1>9, <2>2, <2>3, <2>4 DEF PackedA
<1>13. stage = "tile" => kernel # "packed"
  BY <1>6
<1>14. ASSUME stage # "finalize" PROVE InTile(r, shard[r].tile)' /\ Accumulated(r, shard[r].tile)'
  <2>1. InTile(r, tile)
    <3>1. CASE jt < M /\ tile = <<ii, kk, jt>>
      BY <1>3, <3>1 DEF InTile
    <3>2. CASE kt < K /\ tile = <<ii, kt, 0>>
      BY <1>1, <1>3, <3>2 DEF InTile
    <3>3. CASE it < r[2] /\ tile = <<it, 0, 0>>
      BY <1>1, <1>3, <1>5, <3>3 DEF InTile
    <3> QED
      BY <1>14, <1>6, <3>1, <3>2, <3>3
  <2>2. ASSUME NEW x \in Rows(r)
        PROVE  Reach(tile, RowOf(x), x % M) = Reach(next, RowOf(x), x % M)
    <3> DEFINE i == RowOf(x)
               j == x % M
    <3>1. /\ i \in Nat /\ i < r[2] /\ j \in Nat /\ j < M
          /\ Reach(next, i, j) = IF i < ii THEN K ELSE IF it <= i THEN 0
                                 ELSE IF j < jt THEN Low(kt, K) ELSE kk
      BY <1>11
    <3>2. Reach(tile, i, j) = IF i < tile[1] THEN K ELSE IF tile[1] + Tile <= i THEN 0
                              ELSE IF j < tile[3] THEN Low(tile[2] + Tile, K) ELSE tile[2]
      BY DEF Reach
    <3> HIDE DEF i, j
    <3>3. ASSUME tile = <<ii, kk, jt>>
         PROVE  Reach(tile, i, j) = Reach(next, i, j)
      <4>1. tile[1] = ii /\ tile[2] = kk /\ tile[3] = jt
        BY <3>3
      <4> QED
        BY <3>1, <3>2, <4>1 DEF it, kt
    <3>4. ASSUME jt >= M /\ kt < K /\ tile = <<ii, kt, 0>>
         PROVE  Reach(tile, i, j) = Reach(next, i, j)
      <4>1. tile[1] = ii /\ tile[2] = kt /\ tile[3] = 0 /\ Low(kt, K) = kt
        BY <3>4 DEF Low
      <4>2. j < jt /\ ~ (j < 0)
        <5>1. j \in Int /\ jt \in Int /\ M \in Int /\ j < M /\ 0 <= j
          BY <1>1, <1>5, <3>1
        <5>2. M <= jt
          BY <3>4, <5>1
        <5> QED
          BY <5>1, <5>2, Below
      <4> QED
        BY <3>1, <3>2, <4>1, <4>2 DEF it
    <3>5. ASSUME jt >= M /\ kt >= K /\ tile = <<it, 0, 0>>
         PROVE  Reach(tile, i, j) = Reach(next, i, j)
      <4>1. tile[1] = it /\ tile[2] = 0 /\ tile[3] = 0 /\ Low(kt, K) = K
        BY <1>1, <1>5, <3>5 DEF Low
      <4>2. j < jt /\ ~ (j < 0)
        <5>1. j \in Int /\ jt \in Int /\ M \in Int /\ j < M /\ 0 <= j
          BY <1>1, <1>5, <3>1
        <5>2. M <= jt
          BY <3>5, <5>1
        <5> QED
          BY <5>1, <5>2, Below
      <4>3. ii <= it
        BY <1>1, <1>3 DEF it
      <4> QED
        BY <1>3, <1>5, <3>1, <3>2, <4>1, <4>2, <4>3
    <3> QED
      BY <1>14, <1>6, <3>3, <3>4, <3>5 DEF i, j
  <2>3. \A x \in Rows(r) : out'[x] = Partial(RowOf(x), x % M, Reach(tile, RowOf(x), x % M))
    BY <1>11, <2>2
  <2> QED
    BY <1>8, <1>9, <1>10, <2>1, <2>3 DEF InTile, Accumulated
<1>15. ASSUME stage = "finalize", NEW x \in Rows(r) PROVE out'[x] = Partial(RowOf(x), x % M, K)
  <2>1. jt >= M /\ kt >= K /\ it >= r[2]
    BY <1>15, <1>6
  <2> DEFINE i == RowOf(x)
             j == x % M
  <2>2. /\ i \in Nat /\ i < r[2] /\ j \in Nat /\ j < M
        /\ Reach(next, i, j) = IF i < ii THEN K ELSE IF it <= i THEN 0
                               ELSE IF j < jt THEN Low(kt, K) ELSE kk
        /\ out'[x] = Partial(i, j, Reach(next, i, j))
    BY <1>11
  <2>3. Low(kt, K) = K
    BY <1>1, <1>5, <2>1 DEF Low
  <2> HIDE DEF i, j
  <2>4. ~ (it <= i) /\ j < jt
    <3>1. i \in Int /\ j \in Int /\ it \in Int /\ jt \in Int /\ r[2] \in Int /\ M \in Int
      BY <1>1, <1>3, <1>5, <2>2
    <3>2. i < r[2] /\ r[2] <= it /\ j < M /\ M <= jt
      BY <2>1, <2>2, <3>1
    <3> QED
      BY <3>1, <3>2, Below
  <2>5. Reach(next, i, j) = K
    BY <2>2, <2>3, <2>4
  <2> QED
    BY <2>2, <2>5 DEF i, j
<1> HIDE DEF packed
<1>16. Progress(r)'
  BY <1>7, <1>8, <1>9, <1>12, <1>13, <1>14, <1>15 DEF Progress
<1>17. \A q \in DOMAIN shard : q # r /\ Working(q) => shard[q].thread # shard[r].thread
  BY <1>1 DEF SharedOut, Working
<1>18. Buffers(packA)' /\ Buffers(packB)'
  BY <1>1 DEF Buffers, Thread
<1> QED
  BY <1>8, <1>16, <1>17, <1>18, StepKeeps

\* A place in the tile a range is at is in the range's rows.
LEMMA TileInRows ==
  ASSUME call \in Problem, DOMAIN out = 0 .. N * M - 1, SharedOut,
         NEW r \in DOMAIN shard, InTile(r, shard[r].tile), NEW x \in DOMAIN out,
         RowOf(x) - shard[r].tile[1] \in 0 .. Height(r) - 1
  PROVE  x \in Rows(r)
<1> DEFINE i == RowOf(x)
           ii == shard[r].tile[1]
           h == Height(r)
<1>1. /\ r[1] \in Nat /\ r[2] \in Nat /\ ii \in Nat /\ r[1] <= ii
      /\ h \in Nat /\ ii + h = IF ii + Tile < r[2] THEN ii + Tile ELSE r[2]
  BY TileSizes DEF InTile, Low
<1>2. i \in Nat
  <2>1. N \in Nat /\ M \in Nat
    BY SizesAreNat
  <2>2. x \div M \in 0 .. N - 1
    BY <2>1, PlaceOf
  <2> QED
    BY <2>1, <2>2 DEF RowOf
<1>3. i - ii \in 0 .. h - 1 /\ Tile \in Nat
  BY TileAssumption
<1> HIDE DEF i, ii, h
<1>4. r[1] <= i /\ i < r[2]
  BY <1>1, <1>2, <1>3
<1> QED
  BY <1>4 DEF Rows, i

\* A tile of the tiled kernel, zero multipliers skipped.
LEMMA TileStepKeeps ==
  ASSUME IInv, NEW r \in DOMAIN shard, TileStep(r)
  PROVE  IInv'
<1> DEFINE ii == shard[r].tile[1]
           kk == shard[r].tile[2]
           jj == shard[r].tile[3]
           inside(x) == RowOf(x) - ii \in 0 .. Height(r) - 1 /\ (x % M) - jj \in 0 .. Width(r) - 1
<1>1. /\ pc = "running" /\ shard[r].stage = "tile"
      /\ out' = [x \in DOMAIN out |->
                   IF inside(x)
                   THEN out[x] + Sum(Nonzero(ii + (RowOf(x) - ii), jj + ((x % M) - jj)), kk, kk + Depth(r))
                   ELSE out[x]]
      /\ Advance(r)
      /\ UNCHANGED <<call, pc, kernel, packA, packB>>
  BY DEF TileStep, At, AddToTile
<1>2. /\ call \in Problem /\ DOMAIN out = 0 .. N * M - 1 /\ SharedOut /\ Progress(r)
      /\ N \in Nat /\ K \in Nat /\ M \in Nat /\ Tile \in Nat \ {0}
  BY <1>1, Known
<1>3. InTile(r, shard[r].tile) /\ Accumulated(r, shard[r].tile)
  BY <1>1, <1>2 DEF Progress
<1>4. /\ ii \in Nat /\ kk \in Nat /\ jj \in Nat
      /\ Depth(r) \in 1 .. Tile /\ kk + Depth(r) = Low(kk + Tile, K)
  BY <1>2, <1>3, TileSizes
<1>5. ASSUME NEW x \in Rows(r)
      PROVE  Sum(Nonzero(ii + (RowOf(x) - ii), jj + ((x % M) - jj)), kk, kk + Depth(r))
               = Sum(Products(RowOf(x), x % M), kk, kk + Depth(r))
  <2> DEFINE i == RowOf(x)
             j == x % M
             d == Depth(r)
  <2>1. i \in 0 .. N - 1 /\ j \in 0 .. M - 1
    BY <1>2, RowsOf
  <2> HIDE DEF i, j, d, ii, jj, kk
  <2>2. ii + (i - ii) = i /\ jj + (j - jj) = j
    BY <1>2, <1>4, <2>1
  <2>3. \A k \in 0 .. K - 1 : Nonzero(i, j)[k] = Products(i, j)[k]
    BY <1>2, <2>1, ProductsAreInts DEF SharedOut
  <2>4. kk \in Nat /\ d \in Nat /\ kk + d \in Nat /\ kk + d <= K
    BY <1>2, <1>4 DEF Low, d
  <2>5. \A k \in kk .. (kk + d) - 1 : Nonzero(i, j)[k] = Products(i, j)[k]
    BY <1>2, <2>3, <2>4
  <2> DEFINE to == kk + d
  <2> HIDE DEF to
  <2>6. Sum(Nonzero(i, j), kk, to) = Sum(Products(i, j), kk, to)
    BY <2>4, <2>5, SumSame, Zenon DEF to
  <2> QED
    BY <2>2, <2>6 DEF i, j, d, to
<1>6. DOMAIN out' = DOMAIN out
  BY <1>1
<1>7. \A x \in DOMAIN out : x \notin Rows(r) => out'[x] = out[x]
  BY <1>1, <1>2, <1>3, TileInRows
<1>8. \A x \in Rows(r) : out'[x] =
        IF inside(x) THEN out[x] + Sum(Products(RowOf(x), x % M), kk, kk + Depth(r)) ELSE out[x]
  <2> HIDE DEF inside
  <2> QED
    BY <1>1, <1>5 DEF Rows
<1>9. \A x \in Rows(r) : out'[x] = Partial(RowOf(x), x % M, Reach(<<ii, kk, jj + Tile>>, RowOf(x), x % M))
  BY <1>2, <1>3, <1>8, TileAdded
<1> QED
  BY <1>1, <1>6, <1>7, <1>9, AdvanceKeeps

\* A tile of the packed kernel: the buffers hold what the tile needs.
LEMMA MicroKernelKeeps ==
  ASSUME IInv, NEW r \in DOMAIN shard, MicroKernel(r)
  PROVE  IInv'
<1> DEFINE ii == shard[r].tile[1]
           kk == shard[r].tile[2]
           jj == shard[r].tile[3]
           d == Depth(r)
           w == Width(r)
           a == packA[shard[r].thread]
           b == packB[shard[r].thread]
           product(x, y) == IF x = 0 THEN 0 ELSE x * y
           pairs(i, j) == [k \in 0 .. d - 1 |-> product(a[i * d + k], b[k * w + j])]
           inside(x) == RowOf(x) - ii \in 0 .. Height(r) - 1 /\ (x % M) - jj \in 0 .. w - 1
<1>1. /\ pc = "running" /\ shard[r].stage = "micro"
      /\ out' = [x \in DOMAIN out |->
                   IF inside(x) THEN out[x] + Sum(pairs(RowOf(x) - ii, (x % M) - jj), 0, d) ELSE out[x]]
      /\ Advance(r)
      /\ UNCHANGED <<call, pc, kernel, packA, packB>>
  BY DEF MicroKernel, At, AddToTile, Buffer
<1>2. /\ call \in Problem /\ DOMAIN out = 0 .. N * M - 1 /\ SharedOut /\ Progress(r)
      /\ N \in Nat /\ K \in Nat /\ M \in Nat /\ Tile \in Nat \ {0}
  BY <1>1, Known
<1>3. InTile(r, shard[r].tile) /\ Accumulated(r, shard[r].tile) /\ PackedA(r) /\ PackedB(r)
  BY <1>1, <1>2 DEF Progress
<1>4. /\ ii \in Nat /\ kk \in Nat /\ jj \in Nat
      /\ d \in 1 .. Tile /\ kk + d = Low(kk + Tile, K)
  BY <1>2, <1>3, TileSizes
<1>5. ASSUME NEW x \in Rows(r), inside(x)
      PROVE  Sum(pairs(RowOf(x) - ii, (x % M) - jj), 0, d) = Sum(Products(RowOf(x), x % M), kk, kk + d)
  <2> DEFINE i == RowOf(x)
             j == x % M
  <2>1. i \in 0 .. N - 1 /\ j \in 0 .. M - 1
    BY <1>2, RowsOf
  <2>2. i - ii \in 0 .. Height(r) - 1 /\ j - jj \in 0 .. w - 1
    BY <1>5
  <2>3. \A k \in 0 .. d - 1 :
          a[(i - ii) * d + k] = ElemA(ii + (i - ii), kk + k) /\ b[k * w + (j - jj)] = ElemB(kk + k, jj + (j - jj))
    BY <1>3, <2>2 DEF PackedA, PackedB
  <2> HIDE DEF i, j, d, w, ii, jj, kk, a, b
  <2>4. ii + (i - ii) = i /\ jj + (j - jj) = j
    BY <1>2, <1>4, <2>1
  <2>5. kk \in Nat /\ d \in Nat /\ kk + d <= K
    BY <1>2, <1>4 DEF Low
  <2>6. ASSUME NEW k \in 0 .. d - 1 PROVE pairs(i - ii, j - jj)[k] = Products(i, j)[kk + k]
    <3>1. kk + k \in 0 .. K - 1
      BY <1>2, <2>5
    <3>2. Products(i, j)[kk + k] = Nonzero(i, j)[kk + k]
      BY <1>2, <2>1, <3>1, ProductsAreInts DEF SharedOut
    <3>3. Nonzero(i, j)[kk + k] = product(ElemA(i, kk + k), ElemB(kk + k, j))
      BY <3>1 DEF Nonzero
    <3>4. pairs(i - ii, j - jj)[k] = product(a[(i - ii) * d + k], b[k * w + (j - jj)])
      OBVIOUS
    <3> HIDE DEF pairs, product
    <3> QED
      BY <2>3, <2>4, <3>2, <3>3, <3>4
  <2> HIDE DEF pairs
  <2>7. Sum(Products(i, j), kk, kk + d) = Sum(pairs(i - ii, j - jj), 0, d)
    BY <2>5, <2>6, SumShift
  <2> QED
    BY <2>7 DEF i, j
<1>6. DOMAIN out' = DOMAIN out
  BY <1>1
<1>7. \A x \in DOMAIN out : x \notin Rows(r) => out'[x] = out[x]
  <2> HIDE DEF pairs
  <2> QED
    BY <1>1, <1>2, <1>3, TileInRows
<1>8. \A x \in Rows(r) : out'[x] =
        IF inside(x) THEN out[x] + Sum(Products(RowOf(x), x % M), kk, kk + d) ELSE out[x]
  <2> HIDE DEF inside, pairs
  <2> QED
    BY <1>1, <1>5 DEF Rows
<1>9. \A x \in Rows(r) : out'[x] = Partial(RowOf(x), x % M, Reach(<<ii, kk, jj + Tile>>, RowOf(x), x % M))
  BY <1>2, <1>3, <1>8, TileAdded
<1> QED
  BY <1>1, <1>6, <1>7, <1>9, AdvanceKeeps

\* Compute shares the rows out.
LEMMA ComputeKeeps ==
  ASSUME IInv, Compute
  PROVE  IInv'
<1> DEFINE worthSharding == Worker # {} /\ N > 1 /\ K * M * N >= ShardWork
           ranges == IF worthSharding THEN Ranges(N, 1, Cardinality(Worker), call.inside) ELSE {<<0, N>>}
<1>1. /\ pc = "called" /\ Valid /\ pc' = "running"
      /\ out' = IF call.shaped THEN out ELSE [x \in 0 .. N * M - 1 |-> 0]
      /\ shard' = [r \in ranges |-> [stage |-> "queued", thread |-> Caller, tile |-> <<r[1], 0, 0>>]]
      /\ UNCHANGED <<call, packA, packB>>
  BY DEF Compute
<1>2. call \in Problem /\ DOMAIN out = 0 .. N * M - 1 /\ Buffers(packA) /\ Buffers(packB)
  BY DEF IInv
<1>3. N \in Nat /\ K \in Nat /\ M \in Nat /\ call.inside \in BOOLEAN /\ Cardinality(Worker) \in Nat
  BY <1>2, SizesAreNat, ProblemAssumption, WorkerAssumption, FS_CardinalityType
<1>4. N' = N /\ M' = M
  BY <1>1 DEF N, M
<1>5. ranges \subseteq Nat \X Nat /\ (N = 0 \/ Partitions(ranges, N))
  <2>1. CASE worthSharding
    BY <1>3, <2>1, RangesAreNat, RangesPartition
  <2>2. CASE ~ worthSharding
    <3>1. ranges = {<<0, N>>}
      BY <2>2
    <3>2. N # 0 => Partitions({<<0, N>>}, N)
      BY <1>3 DEF Partitions
    <3> QED
      BY <1>3, <3>1, <3>2
  <2> QED
    BY <2>1, <2>2
<1> HIDE DEF ranges
<1>6. DOMAIN shard' = ranges
  BY <1>1
<1>7. \A r \in ranges : shard'[r] = [stage |-> "queued", thread |-> Caller, tile |-> <<r[1], 0, 0>>]
  BY <1>1
<1>8. ASSUME NEW r \in ranges PROVE shard'[r] \in Shard
  <2>1. <<r[1], 0, 0>> \in Nat \X Nat \X Nat
    BY <1>5
  <2>2. Caller \in Thread
    BY DEF Thread
  <2>3. shard'[r] = [stage |-> "queued", thread |-> Caller, tile |-> <<r[1], 0, 0>>]
    BY <1>7
  <2> QED
    BY <2>1, <2>2, <2>3 DEF Shard
<1>9. ASSUME NEW r \in ranges PROVE shard'[r].stage = "queued" /\ shard'[r].tile = <<r[1], 0, 0>>
  <2>1. shard'[r] = [stage |-> "queued", thread |-> Caller, tile |-> <<r[1], 0, 0>>]
    BY <1>7
  <2> QED
    BY <2>1
<1>10. SharedOut'
  <2>1. call.fits
    BY <1>1 DEF Valid
  <2> QED
    BY <1>1, <1>4, <1>5, <1>6, <1>8, <1>9, <2>1 DEF SharedOut, Working, Partitions, Shard, Thread
<1>11. \A r \in ranges : Progress(r)'
  BY <1>9 DEF Progress
<1>12. DOMAIN out' = 0 .. N * M - 1
  BY <1>1, <1>2
<1>13. Buffers(packA)' /\ Buffers(packB)'
  BY <1>1, <1>2 DEF Buffers, Thread
<1> QED
  BY <1>1, <1>2, <1>4, <1>6, <1>10, <1>11, <1>12, <1>13 DEF IInv, Begun

LEMMA InitIsRight ==
  ASSUME Init
  PROVE  IInv
<1>1. call \in Problem /\ pc = "called" /\ DOMAIN out = 0 .. N * M - 1
  BY DEF Init
<1>2. Buffers(packA) /\ Buffers(packB)
  BY DEF Init, Buffers
<1> QED
  BY <1>1, <1>2 DEF IInv, Begun

\* A step that leaves the shards and the buffers as they are.
LEMMA RestKeeps ==
  ASSUME IInv, Refuse \/ Return \/ UNCHANGED vars
  PROVE  IInv'
<1>1. UNCHANGED <<call, kernel, out, shard, packA, packB>>
  BY DEF Refuse, Return, vars
<1>2. /\ Begun' => Begun
      /\ pc' = "finished" => \A r \in DOMAIN shard : shard[r].stage = "done"
  BY DEF IInv, Begun, Refuse, Return, vars
<1>3. N' = N /\ M' = M
  BY <1>1 DEF N, M
<1>4. Buffers(packA)' /\ Buffers(packB)'
  BY <1>1 DEF IInv, Buffers, Thread
<1>5. SharedOut => SharedOut'
  BY <1>1, <1>3 DEF SharedOut, Shard, Thread, Working, Partitions
<1>6. \A r : Progress(r) => Progress(r)'
  <2> TAKE r
  <2>1. /\ K' = K /\ M' = M
        /\ \A x : RowOf(x)' = RowOf(x)
        /\ Rows(r)' = Rows(r)
        /\ \A i, k : ElemA(i, k)' = ElemA(i, k) /\ ElemB(i, k)' = ElemB(i, k)
        /\ \A i, j, to : Partial(i, j, to)' = Partial(i, j, to)
        /\ \A i, j, raw : Finished(i, j, raw)' = Finished(i, j, raw)
    BY <1>1, SameProblem
  <2>2. \A tile, i, j : Reach(tile, i, j)' = Reach(tile, i, j)
    BY <2>1 DEF Reach
  <2>3. Height(r)' = Height(r) /\ Depth(r)' = Depth(r) /\ Width(r)' = Width(r)
    BY <1>1, <2>1 DEF Height, Depth, Width
  <2>4. (PackedA(r) => PackedA(r)') /\ (PackedB(r) => PackedB(r)')
    BY <1>1, <2>1, <2>3 DEF PackedA, PackedB
  <2>5. /\ Accumulated(r, shard[r].tile) => Accumulated(r, shard[r].tile)'
        /\ InTile(r, shard[r].tile) => InTile(r, shard[r].tile)'
    BY <1>1, <2>1, <2>2 DEF Accumulated, InTile
  <2> QED
    BY <1>1, <2>1, <2>4, <2>5 DEF Progress
<1> QED
  BY <1>1, <1>2, <1>3, <1>4, <1>5, <1>6 DEF IInv, Begun

LEMMA NextKeeps ==
  ASSUME IInv, [Next]_vars
  PROVE  IInv'
<1>1. CASE Refuse \/ Return \/ UNCHANGED vars
  BY <1>1, RestKeeps
<1>2. CASE Compute
  BY <1>2, ComputeKeeps
<1>3. ASSUME NEW t \in Thread, NEW r \in DOMAIN shard, Begin(t, r) PROVE IInv'
  BY <1>3, BeginKeeps
<1>4. ASSUME NEW r \in DOMAIN shard, KernelStep(r) PROVE IInv'
  BY <1>4, WholeRowsKeeps, TileStepKeeps, PackAKeeps, PackBKeeps, MicroKernelKeeps, FinalizeKeeps
     DEF KernelStep
<1> QED
  BY <1>1, <1>2, <1>3, <1>4 DEF Next

--------------------------------------------------------------------------------

(***************************************************************************)
(* When every range is done, every element is.                             *)
(***************************************************************************)
LEMMA IInvIsEnough ==
  ASSUME IInv
  PROVE  ProductIsRight
<1>1. SUFFICES ASSUME pc = "finished", NEW i \in 0 .. N - 1, NEW j \in 0 .. M - 1
               PROVE  out[i * M + j] = Finished(i, j, Naive(i, j))
  BY DEF ProductIsRight
<1>2. /\ call \in Problem /\ DOMAIN out = 0 .. N * M - 1 /\ SharedOut
      /\ \A r \in DOMAIN shard : Progress(r) /\ shard[r].stage = "done"
  BY <1>1 DEF IInv, Begun
<1>3. N \in Nat /\ M \in Nat
  BY <1>2, SizesAreNat
<1> DEFINE x == i * M + j
<1>4. x \in DOMAIN out
  BY <1>2, <1>3, Place
<1>5. RowOf(x) = i /\ x % M = j
  BY <1>3, DivMod DEF RowOf
<1> HIDE DEF x
<1>6. PICK r \in DOMAIN shard : r[1] <= i /\ i < r[2]
  BY <1>2, <1>3 DEF SharedOut, Partitions
<1>7. x \in Rows(r)
  BY <1>4, <1>5, <1>6 DEF Rows
<1>8. out[x] = Finished(RowOf(x), x % M, Partial(RowOf(x), x % M, K))
  BY <1>2, <1>7 DEF Progress
<1>9. Naive(i, j) = Partial(i, j, K)
  BY DEF Naive, Partial
<1> QED
  BY <1>5, <1>8, <1>9 DEF x

(***************************************************************************)
(* Whatever the sizes, the tile, the threads and the turns they take,      *)
(* whichever kernel is chosen and whatever the buffers held before: when   *)
(* compute returns, every element of the output is what the plain triple   *)
(* loop and the finalize pass give.                                        *)
(***************************************************************************)
THEOREM ProductsAreRight == Spec => []ProductIsRight
<1>1. Init => IInv
  BY InitIsRight
<1>2. IInv /\ [Next]_vars => IInv'
  BY NextKeeps
<1>3. IInv => ProductIsRight
  BY IInvIsEnough
<1> QED
  BY <1>1, <1>2, <1>3, PTL DEF Spec

================================================================================
