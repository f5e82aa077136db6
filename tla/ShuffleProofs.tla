----------------------------- MODULE ShuffleProofs -----------------------------
(***************************************************************************)
(* Proofs about the files of a job, for any number of tasks, attempts,     *)
(* partitions, lines and records, and any sizes of spills.                 *)
(*                                                                         *)
(* The argument about directories: an attempt touches only files of its    *)
(* own task (DirectoryOfOthers), and nothing removes a part                *)
(* (PartsOnlyGrow), so what an attempt has put in place by the time it     *)
(* reports stays there.  While an attempt has the directory to itself      *)
(* nobody else touches it (Exclusive), so the spills in it are those of    *)
(* the runs it has written so far, and the one temporary file is its own   *)
(* (Tidy).                                                                 *)
(*                                                                         *)
(* The argument about what files hold: a sequence tells the totals of some *)
(* keys when it is in key order, has those keys of the partition and each  *)
(* one's records add up to its total (Tells).  Sorting, joining neighbours *)
(* and merging keep that (RunTells, GroupedTells, MergedTells), and one    *)
(* pass over the lines of a task cuts them into runs that account for all  *)
(* (RunsAccount).  If the attempts of a task spill at the same size each   *)
(* is somewhere on that one pass (OnPass), so whoever wrote a spill wrote  *)
(* the run of its number, and whoever merged them the same part.           *)
(***************************************************************************)
EXTENDS Shuffle, SequenceTheorems, FiniteSetTheorems, WellFoundedInduction,
        NaturalsInduction, TLAPS

--------------------------------------------------------------------------------

(***************************************************************************)
(* Sums over finite sets.                                                  *)
(***************************************************************************)
\* Induction, over a set of numbers.
LEMMA Induct ==
  ASSUME NEW S, 0 \in S, \A n \in Nat : n \in S => n + 1 \in S
  PROVE  Nat \subseteq S
<1> DEFINE Bad == Nat \ S
<1>1. SUFFICES ASSUME Bad # {} PROVE FALSE
  OBVIOUS
<1>2. IsWellFoundedOn(OpToRel(<, Nat), Nat)
  BY NatLessThanWellFounded
<1>3. PICK m \in Bad : \A k \in Bad : ~ (<<k, m>> \in OpToRel(<, Nat))
  <2>1. Bad \subseteq Nat
    OBVIOUS
  <2> HIDE DEF Bad
  <2> QED
    BY <1>1, <1>2, <2>1, WFMin
<1>4. m \in Nat /\ m # 0 /\ m - 1 \in Nat /\ m - 1 < m /\ (m - 1) + 1 = m
  OBVIOUS
<1>5. <<m - 1, m>> \in OpToRel(<, Nat)
  BY <1>4 DEF OpToRel
<1>6. m - 1 \in S
  BY <1>3, <1>4, <1>5
<1> QED
  BY <1>4, <1>6

\* Arithmetic.
LEMMA Sums3 == \A a, b, c \in Nat : c + (a + b) = (c + a) + b /\ a + b = b + a
  OBVIOUS

\* What taking any element out of a finite set does.
LEMMA TakeOut ==
  ASSUME NEW S, IsFiniteSet(S), NEW x \in S
  PROVE  /\ IsFiniteSet(S \ {x}) /\ Cardinality(S \ {x}) \in Nat
         /\ Cardinality(S) = Cardinality(S \ {x}) + 1
<1>1. IsFiniteSet(S \ {x}) /\ Cardinality(S \ {x}) = Cardinality(S) - 1
  BY FS_RemoveElement
<1>2. Cardinality(S) \in Nat /\ Cardinality(S \ {x}) \in Nat
  BY <1>1, FS_CardinalityType
<1> QED
  BY <1>1, <1>2

\* g holds the sums of f over the subsets of S with n elements or fewer.
Least(T) == CHOOSE x \in T : TRUE
AddsUp(f, S, g, n) ==
  /\ g = [T \in SUBSET S |-> g[T]]
  /\ \A T \in SUBSET S :
       Cardinality(T) <= n => g[T] = IF T = {} THEN 0 ELSE f[Least(T)] + g[T \ {Least(T)}]

\* Sums over smaller subsets lead to those over larger ones.
LEMMA SumsExist ==
  ASSUME NEW f, NEW S, IsFiniteSet(S)
  PROVE  \A n \in Nat : \E g : AddsUp(f, S, g, n)
<1> DEFINE Good == {n \in Nat : \E g : AddsUp(f, S, g, n)}
<1>t. \A T \in SUBSET S : /\ IsFiniteSet(T) /\ Cardinality(T) \in Nat
                          /\ Cardinality(T) = 0 <=> T = {}
                          /\ T # {} => Least(T) \in T /\ Cardinality(T \ {Least(T)}) = Cardinality(T) - 1
  <2> TAKE T \in SUBSET S
  <2>1. IsFiniteSet(T) /\ Cardinality(T) \in Nat /\ (Cardinality(T) = 0 <=> T = {})
    BY FS_Subset, FS_CardinalityType, FS_EmptySet
  <2>2. T # {} => Least(T) \in T
    BY DEF Least
  <2>3. T # {} => Cardinality(T \ {Least(T)}) = Cardinality(T) - 1
    <3>1. ASSUME T # {}
          PROVE  Cardinality(T) = Cardinality(T \ {Least(T)}) + 1 /\ Cardinality(T \ {Least(T)}) \in Nat
      BY <2>1, <2>2, <3>1, TakeOut
    <3> QED
      BY <3>1
  <2> QED
    BY <2>1, <2>2, <2>3
<1>1. 0 \in Good
  <2> DEFINE g == [T \in SUBSET S |-> 0]
  <2>1. AddsUp(f, S, g, 0)
    BY <1>t DEF AddsUp
  <2> QED
    BY <2>1
<1>2. ASSUME NEW n \in Nat, n \in Good PROVE n + 1 \in Good
  <2>1. PICK g : AddsUp(f, S, g, n)
    BY <1>2
  <2> DEFINE h == [T \in SUBSET S |-> IF Cardinality(T) <= n THEN g[T]
                                      ELSE f[Least(T)] + g[T \ {Least(T)}]]
  <2>2. ASSUME NEW T \in SUBSET S, Cardinality(T) <= n + 1
        PROVE  h[T] = IF T = {} THEN 0 ELSE f[Least(T)] + h[T \ {Least(T)}]
    <3>1. T # {} => T \ {Least(T)} \in SUBSET S /\ Cardinality(T \ {Least(T)}) <= n
      BY <1>t, <2>2
    <3>2. T # {} => h[T \ {Least(T)}] = g[T \ {Least(T)}]
      BY <3>1
    <3>3. CASE Cardinality(T) <= n
      <4>1. h[T] = g[T]
        BY <3>3
      <4>2. g[T] = IF T = {} THEN 0 ELSE f[Least(T)] + g[T \ {Least(T)}]
        BY <2>1, <3>3 DEF AddsUp
      <4> QED
        BY <3>2, <4>1, <4>2, Zenon
    <3>4. CASE ~ (Cardinality(T) <= n)
      <4>1. Cardinality(T) \in Nat /\ (Cardinality(T) = 0 <=> T = {})
        BY <1>t
      <4>3. T # {}
        BY <3>4, <4>1
      <4>2. h[T] = f[Least(T)] + g[T \ {Least(T)}]
        BY <3>4
      <4> QED
        BY <3>2, <4>2, <4>3, Zenon
    <3> QED
      BY <3>3, <3>4
  <2>3. h = [T \in SUBSET S |-> h[T]]
    OBVIOUS
  <2> HIDE DEF h
  <2>4. AddsUp(f, S, h, n + 1)
    BY <2>2, <2>3 DEF AddsUp
  <2> QED
    BY <2>4
<1> HIDE DEF Good
<1>3. Nat \subseteq Good
  BY <1>1, <1>2, Induct
<1> QED
  BY <1>3 DEF Good

\* The sums over all subsets.
Sums(f, S, g) ==
  g = [T \in SUBSET S |-> IF T = {} THEN 0 ELSE f[Least(T)] + g[T \ {Least(T)}]]

\* There are such sums, and the sum over S is one of them.
LEMMA SumIsOne ==
  ASSUME NEW f, NEW S, IsFiniteSet(S)
  PROVE  \E g : Sums(f, S, g) /\ SumFunctionOnSet(f, S) = g[S]
<1> DEFINE iter == CHOOSE g : Sums(f, S, g)
<1>1. SumFunctionOnSet(f, S) = iter[S]
  BY DEF SumFunctionOnSet, FoldFunctionOnSet, MapThenFoldSet, Sums, Least
<1>2. Cardinality(S) \in Nat /\ \A T \in SUBSET S : Cardinality(T) <= Cardinality(S)
  BY FS_CardinalityType, FS_Subset
<1>3. PICK g : AddsUp(f, S, g, Cardinality(S))
  BY <1>2, SumsExist
<1>4. Sums(f, S, g)
  BY <1>2, <1>3 DEF AddsUp, Sums
<1>5. Sums(f, S, iter)
  BY <1>4
<1> HIDE DEF iter
<1> QED
  BY <1>1, <1>5

\* They do not depend on the set.
LEMMA SumsAgree ==
  ASSUME NEW f, NEW S, NEW g, Sums(f, S, g), NEW R, NEW h, Sums(f, R, h),
         NEW U, U \subseteq S, U \subseteq R, IsFiniteSet(U)
  PROVE  g[U] = h[U]
<1> DEFINE Good == {n \in Nat : \A T : /\ T \subseteq S /\ T \subseteq R
                                       /\ IsFiniteSet(T) /\ Cardinality(T) = n
                                       => g[T] = h[T]}
<1>1. 0 \in Good
  BY FS_EmptySet DEF Sums
<1>2. ASSUME NEW n \in Nat, n \in Good,
             NEW T, T \subseteq S, T \subseteq R, IsFiniteSet(T), Cardinality(T) = n + 1
      PROVE  g[T] = h[T]
  <2>1. T # {}
    BY <1>2, FS_EmptySet
  <2>2. Least(T) \in T
    BY <2>1 DEF Least
  <2>3. g[T \ {Least(T)}] = h[T \ {Least(T)}]
    BY <1>2, <2>2, TakeOut
  <2>4. /\ g[T] = f[Least(T)] + g[T \ {Least(T)}]
        /\ h[T] = f[Least(T)] + h[T \ {Least(T)}]
    BY <1>2, <2>1 DEF Sums
  <2> QED
    BY <2>3, <2>4, Zenon
<1>3. \A n \in Nat : n \in Good => n + 1 \in Good
  BY <1>2
<1>4. Cardinality(U) \in Nat
  BY FS_CardinalityType
<1> HIDE DEF Good
<1>5. Nat \subseteq Good
  BY <1>1, <1>3, Induct
<1> QED
  BY <1>4, <1>5 DEF Good

\* Nothing adds up to nothing.
LEMMA SumOfNone == \A f : SumFunctionOnSet(f, {}) = 0
<1> TAKE f
<1>1. PICK g : Sums(f, {}, g) /\ SumFunctionOnSet(f, {}) = g[{}]
  BY SumIsOne, FS_EmptySet
<1> QED
  BY <1>1 DEF Sums

\* One element is taken out.
LEMMA SumOfOneLess ==
  ASSUME NEW f, NEW S, IsFiniteSet(S), S # {}
  PROVE  /\ Least(S) \in S
         /\ SumFunctionOnSet(f, S) = f[Least(S)] + SumFunctionOnSet(f, S \ {Least(S)})
<1>1. Least(S) \in S
  BY DEF Least
<1>2. PICK g : Sums(f, S, g) /\ SumFunctionOnSet(f, S) = g[S]
  BY SumIsOne
<1>3. IsFiniteSet(S \ {Least(S)})
  BY <1>1, TakeOut
<1>4. PICK h : /\ Sums(f, S \ {Least(S)}, h)
               /\ SumFunctionOnSet(f, S \ {Least(S)}) = h[S \ {Least(S)}]
  BY <1>3, SumIsOne
<1>5. g[S \ {Least(S)}] = h[S \ {Least(S)}]
  BY <1>2, <1>3, <1>4, SumsAgree
<1>6. g[S] = f[Least(S)] + g[S \ {Least(S)}]
  BY <1>2 DEF Sums
<1> QED
  BY <1>1, <1>2, <1>4, <1>5, <1>6

\* Induction, over the subsets of a finite set.
LEMMA SetInduct ==
  ASSUME NEW S, IsFiniteSet(S), NEW Good, {} \in Good,
         \A T \in SUBSET S, x \in S : T \in Good /\ x \notin T => T \cup {x} \in Good
  PROVE  S \in Good
<1> DEFINE N == {n \in Nat : \A T \in SUBSET S : Cardinality(T) = n => T \in Good}
<1>1. \A T \in SUBSET S : IsFiniteSet(T)
  BY FS_Subset
<1>2. 0 \in N
  BY <1>1, FS_EmptySet
<1>3. ASSUME NEW n \in Nat, n \in N, NEW T \in SUBSET S, Cardinality(T) = n + 1
      PROVE  T \in Good
  <2>1. PICK x : x \in T
    <3>1. Cardinality({}) = 0 /\ n + 1 # 0
      BY FS_EmptySet
    <3> QED
      BY <1>3, <3>1
  <2>2. Cardinality(T \ {x}) = n
    <3>1. Cardinality(T) = Cardinality(T \ {x}) + 1 /\ Cardinality(T \ {x}) \in Nat
      BY <1>1, <2>1, TakeOut
    <3> QED
      BY <1>3, <3>1
  <2>3. T \ {x} \in Good
    BY <1>3, <2>2
  <2>4. (T \ {x}) \cup {x} = T
    BY <2>1
  <2>5. T \ {x} \in SUBSET S /\ x \in S /\ x \notin T \ {x}
    BY <2>1
  <2> QED
    BY <2>3, <2>4, <2>5, Zenon
<1>4. \A n \in Nat : n \in N => n + 1 \in N
  BY <1>3
<1>5. Cardinality(S) \in Nat
  BY FS_CardinalityType
<1> HIDE DEF N
<1>6. Nat \subseteq N
  BY <1>2, <1>4, Induct
<1> QED
  BY <1>5, <1>6 DEF N

\* A sum of numbers is a number.
LEMMA SumIsNat ==
  ASSUME NEW S, IsFiniteSet(S), NEW f, \A x \in S : f[x] \in Nat
  PROVE  SumFunctionOnSet(f, S) \in Nat
<1> DEFINE N == {n \in Nat : \A T \in SUBSET S :
                   Cardinality(T) = n => SumFunctionOnSet(f, T) \in Nat}
<1>1. \A T \in SUBSET S : IsFiniteSet(T)
  BY FS_Subset
<1>2. 0 \in N
  BY <1>1, SumOfNone, FS_EmptySet
<1>3. ASSUME NEW n \in Nat, n \in N, NEW T \in SUBSET S, Cardinality(T) = n + 1
      PROVE  SumFunctionOnSet(f, T) \in Nat
  <2>1. T # {}
    BY <1>3, FS_EmptySet
  <2>2. Least(T) \in T /\ SumFunctionOnSet(f, T) = f[Least(T)] + SumFunctionOnSet(f, T \ {Least(T)})
    BY <1>1, <2>1, SumOfOneLess
  <2>3. Cardinality(T \ {Least(T)}) = n
    BY <1>1, <1>3, <2>2, TakeOut
  <2>4. SumFunctionOnSet(f, T \ {Least(T)}) \in Nat /\ f[Least(T)] \in Nat
    BY <1>3, <2>2, <2>3
  <2> QED
    BY <2>2, <2>4
<1>4. \A n \in Nat : n \in N => n + 1 \in N
  BY <1>3
<1>5. Cardinality(S) \in Nat
  BY FS_CardinalityType
<1> HIDE DEF N
<1>6. Nat \subseteq N
  BY <1>2, <1>4, Induct
<1> QED
  BY <1>5, <1>6 DEF N

\* Any element can be taken out of a sum.
LEMMA SumTakesOut ==
  ASSUME NEW S, IsFiniteSet(S), NEW f, \A x \in S : f[x] \in Nat, NEW y \in S
  PROVE  SumFunctionOnSet(f, S) = f[y] + SumFunctionOnSet(f, S \ {y})
<1> DEFINE Splits(T) == \A x \in T : SumFunctionOnSet(f, T) = f[x] + SumFunctionOnSet(f, T \ {x})
           N == {n \in Nat : \A T \in SUBSET S : Cardinality(T) = n => Splits(T)}
<1>1. \A T \in SUBSET S : IsFiniteSet(T) /\ SumFunctionOnSet(f, T) \in Nat
  <2> TAKE T \in SUBSET S
  <2>1. IsFiniteSet(T) /\ \A x \in T : f[x] \in Nat
    BY FS_Subset
  <2> QED
    BY <2>1, SumIsNat
<1>2. 0 \in N
  BY <1>1, FS_EmptySet
<1>3. ASSUME NEW n \in Nat, n \in N, NEW T \in SUBSET S, Cardinality(T) = n + 1, NEW x \in T
      PROVE  SumFunctionOnSet(f, T) = f[x] + SumFunctionOnSet(f, T \ {x})
  <2> DEFINE z == Least(T)
  <2>2. z \in T /\ SumFunctionOnSet(f, T) = f[z] + SumFunctionOnSet(f, T \ {z})
    BY <1>1, <1>3, SumOfOneLess
  <2> HIDE DEF z
  <2>3. ASSUME NEW u \in T
        PROVE  T \ {u} \in SUBSET S /\ Cardinality(T \ {u}) = n
    <3>1. Cardinality(T) = Cardinality(T \ {u}) + 1 /\ Cardinality(T \ {u}) \in Nat
      BY <1>1, TakeOut
    <3> QED
      BY <1>3, <3>1
  <2>4. \A u \in T : Splits(T \ {u})
    BY <1>3, <2>3
  <2>5. CASE x # z
    <3>1. (T \ {z}) \ {x} = (T \ {x}) \ {z} /\ x \in T \ {z} /\ z \in T \ {x}
      BY <2>2, <2>5
    <3>2. SumFunctionOnSet(f, T \ {z}) = f[x] + SumFunctionOnSet(f, (T \ {x}) \ {z})
      BY <2>2, <2>4, <3>1
    <3>3. SumFunctionOnSet(f, T \ {x}) = f[z] + SumFunctionOnSet(f, (T \ {x}) \ {z})
      BY <2>4, <3>1
    <3>4. f[x] \in Nat /\ f[z] \in Nat /\ SumFunctionOnSet(f, (T \ {x}) \ {z}) \in Nat
      BY <1>1, <2>2
    <3> QED
      BY <2>2, <3>2, <3>3, <3>4
  <2> QED
    BY <2>2, <2>5
<1>4. ASSUME NEW n \in Nat, n \in N
      PROVE  n + 1 \in N
  <2>1. ASSUME NEW T \in SUBSET S, Cardinality(T) = n + 1
        PROVE  Splits(T)
    BY <1>3, <1>4, <2>1
  <2> QED
    BY <2>1
<1>5. Cardinality(S) \in Nat
  BY FS_CardinalityType
<1> HIDE DEF N
<1>6. Nat \subseteq N
  BY <1>2, <1>4, Induct
<1> QED
  BY <1>5, <1>6 DEF N

\* An element is added to a sum.
LEMMA SumAdds ==
  ASSUME NEW S, IsFiniteSet(S), NEW f, NEW y, y \notin S, \A x \in S \cup {y} : f[x] \in Nat
  PROVE  SumFunctionOnSet(f, S \cup {y}) = f[y] + SumFunctionOnSet(f, S)
<1>1. IsFiniteSet(S \cup {y}) /\ (S \cup {y}) \ {y} = S /\ y \in S \cup {y}
  BY FS_AddElement
<1>2. SumFunctionOnSet(f, S \cup {y}) = f[y] + SumFunctionOnSet(f, (S \cup {y}) \ {y})
  BY <1>1, SumTakesOut
<1> QED
  BY <1>1, <1>2

\* The same numbers, found at other places, have the same sum.
LEMMA SumMoved ==
  ASSUME NEW S, IsFiniteSet(S), NEW f, NEW R, NEW g, NEW e,
         \A x \in S : e[x] \in R /\ f[x] = g[e[x]] /\ g[e[x]] \in Nat,
         \A x, y \in S : e[x] = e[y] => x = y,
         \A y \in R : \E x \in S : y = e[x]
  PROVE  SumFunctionOnSet(f, S) = SumFunctionOnSet(g, R)
<1> DEFINE Image(T) == {e[x] : x \in T}
           Good == {T \in SUBSET S : /\ IsFiniteSet(Image(T))
                                     /\ SumFunctionOnSet(f, T) = SumFunctionOnSet(g, Image(T))}
<1>1. {} \in Good
  <2>1. Image({}) = {}
    OBVIOUS
  <2> QED
    BY <2>1, SumOfNone, FS_EmptySet
<1>2. ASSUME NEW T \in SUBSET S, NEW x \in S, T \in Good, x \notin T
      PROVE  T \cup {x} \in Good
  <2>1. Image(T \cup {x}) = Image(T) \cup {e[x]} /\ e[x] \notin Image(T)
    BY <1>2
  <2>2. \A y \in Image(T) \cup {e[x]} : g[y] \in Nat
    BY <1>2
  <2>3. IsFiniteSet(T) /\ \A y \in T \cup {x} : f[y] \in Nat
    BY FS_Subset
  <2>4. IsFiniteSet(Image(T)) /\ SumFunctionOnSet(f, T) = SumFunctionOnSet(g, Image(T))
    BY <1>2
  <2>5. SumFunctionOnSet(f, T \cup {x}) = f[x] + SumFunctionOnSet(f, T)
    BY <1>2, <2>3, SumAdds
  <2> HIDE DEF Image
  <2>6. SumFunctionOnSet(g, Image(T) \cup {e[x]}) = g[e[x]] + SumFunctionOnSet(g, Image(T))
    BY <2>1, <2>2, <2>4, SumAdds
  <2>7. IsFiniteSet(Image(T) \cup {e[x]})
    BY <2>4, FS_AddElement
  <2>8. f[x] = g[e[x]]
    OBVIOUS
  <2> QED
    BY <2>1, <2>4, <2>5, <2>6, <2>7, <2>8
<1>3. Image(S) = R
  OBVIOUS
<1> HIDE DEF Image
<1>4. \A T \in SUBSET S, x \in S : T \in Good /\ x \notin T => T \cup {x} \in Good
  BY <1>2
<1> HIDE DEF Good
<1>5. S \in Good
  BY <1>1, <1>4, SetInduct
<1> QED
  BY <1>3, <1>5 DEF Good

\* Equal numbers have equal sums.
LEMMA SumSame ==
  ASSUME NEW S, IsFiniteSet(S), NEW f, NEW g, \A x \in S : f[x] = g[x] /\ f[x] \in Nat
  PROVE  SumFunctionOnSet(f, S) = SumFunctionOnSet(g, S)
<1> DEFINE e == [x \in S |-> x]
<1>1. /\ \A x \in S : e[x] \in S /\ f[x] = g[e[x]] /\ g[e[x]] \in Nat
      /\ \A x, y \in S : e[x] = e[y] => x = y
      /\ \A y \in S : \E x \in S : y = e[x]
  OBVIOUS
<1> HIDE DEF e
<1> QED
  BY <1>1, SumMoved

\* A sum in two parts.
LEMMA SumOfTwo ==
  ASSUME NEW S, IsFiniteSet(S), NEW R, IsFiniteSet(R), S \cap R = {},
         NEW f, \A x \in S \cup R : f[x] \in Nat
  PROVE  SumFunctionOnSet(f, S \cup R) = SumFunctionOnSet(f, S) + SumFunctionOnSet(f, R)
<1> DEFINE Good == {T \in SUBSET S : SumFunctionOnSet(f, T \cup R)
                                      = SumFunctionOnSet(f, T) + SumFunctionOnSet(f, R)}
<1>0. SumFunctionOnSet(f, R) \in Nat
  BY SumIsNat
<1>1. {} \in Good
  <2>1. {} \cup R = R
    OBVIOUS
  <2> QED
    BY <1>0, <2>1, SumOfNone
<1>2. ASSUME NEW T \in SUBSET S, NEW x \in S, T \in Good, x \notin T
      PROVE  T \cup {x} \in Good
  <2>1. IsFiniteSet(T) /\ IsFiniteSet(T \cup R)
    BY FS_Subset, FS_Union
  <2>2. x \notin T \cup R /\ (T \cup {x}) \cup R = (T \cup R) \cup {x}
    BY <1>2
  <2>3. SumFunctionOnSet(f, T \cup {x}) = f[x] + SumFunctionOnSet(f, T)
    BY <1>2, <2>1, SumAdds
  <2>4. SumFunctionOnSet(f, (T \cup R) \cup {x}) = f[x] + SumFunctionOnSet(f, T \cup R)
    BY <2>1, <2>2, SumAdds
  <2>5. SumFunctionOnSet(f, T) \in Nat
    BY <2>1, SumIsNat
  <2>6. f[x] \in Nat /\ SumFunctionOnSet(f, T \cup R) = SumFunctionOnSet(f, T) + SumFunctionOnSet(f, R)
    BY <1>2
  <2>7. SumFunctionOnSet(f, (T \cup {x}) \cup R) = SumFunctionOnSet(f, T \cup {x}) + SumFunctionOnSet(f, R)
    <3>1. f[x] + (SumFunctionOnSet(f, T) + SumFunctionOnSet(f, R))
            = (f[x] + SumFunctionOnSet(f, T)) + SumFunctionOnSet(f, R)
      BY <1>0, <2>5, <2>6, Sums3
    <3> QED
      BY <2>2, <2>3, <2>4, <2>6, <3>1, Zenon
  <2> QED
    BY <2>7
<1>3. \A T \in SUBSET S, x \in S : T \in Good /\ x \notin T => T \cup {x} \in Good
  BY <1>2
<1> HIDE DEF Good
<1>4. S \in Good
  BY <1>1, <1>3, SetInduct
<1> QED
  BY <1>4 DEF Good

\* A sum in many parts.
LEMMA SumOfParts ==
  ASSUME NEW S, IsFiniteSet(S), NEW c, \A i \in S : IsFiniteSet(c[i]),
         \A i, j \in S : i # j => c[i] \cap c[j] = {},
         NEW f, \A i \in S : \A x \in c[i] : f[x] \in Nat
  PROVE  LET all == UNION {c[i] : i \in S} IN
         /\ IsFiniteSet(all)
         /\ SumFunctionOnSet(f, all)
              = SumFunctionOnSet([i \in S |-> SumFunctionOnSet(f, c[i])], S)
<1> DEFINE Whole(T) == UNION {c[i] : i \in T}
           g == [i \in S |-> SumFunctionOnSet(f, c[i])]
           Good == {T \in SUBSET S : /\ IsFiniteSet(Whole(T))
                                     /\ SumFunctionOnSet(f, Whole(T)) = SumFunctionOnSet(g, T)}
<1>0. \A i \in S : g[i] = SumFunctionOnSet(f, c[i]) /\ g[i] \in Nat
  BY SumIsNat
<1> HIDE DEF g
<1>1. {} \in Good
  <2>1. Whole({}) = {}
    OBVIOUS
  <2> QED
    BY <2>1, SumOfNone, FS_EmptySet
<1>2. ASSUME NEW T \in SUBSET S, NEW x \in S, T \in Good, x \notin T
      PROVE  T \cup {x} \in Good
  <2>1. Whole(T \cup {x}) = Whole(T) \cup c[x]
    OBVIOUS
  <2>2. Whole(T) \cap c[x] = {}
    BY <1>2
  <2>3. \A y \in Whole(T) \cup c[x] : f[y] \in Nat
    OBVIOUS
  <2>4. IsFiniteSet(Whole(T)) /\ SumFunctionOnSet(f, Whole(T)) = SumFunctionOnSet(g, T)
    BY <1>2
  <2> HIDE DEF Whole
  <2>5. /\ IsFiniteSet(Whole(T) \cup c[x])
        /\ SumFunctionOnSet(f, Whole(T) \cup c[x])
             = SumFunctionOnSet(f, Whole(T)) + SumFunctionOnSet(f, c[x])
    BY <2>2, <2>3, <2>4, SumOfTwo, FS_Union
  <2>6. SumFunctionOnSet(g, T \cup {x}) = g[x] + SumFunctionOnSet(g, T)
    <3>1. IsFiniteSet(T) /\ \A i \in T \cup {x} : g[i] \in Nat
      BY <1>0, FS_Subset
    <3> QED
      BY <1>2, <3>1, SumAdds
  <2>7. SumFunctionOnSet(g, T) \in Nat
    BY <1>0, SumIsNat, FS_Subset
  <2>8. SumFunctionOnSet(f, Whole(T \cup {x})) = SumFunctionOnSet(g, T \cup {x})
    <3>1. g[x] = SumFunctionOnSet(f, c[x]) /\ g[x] \in Nat
      BY <1>0
    <3> QED
      BY <2>1, <2>4, <2>5, <2>6, <2>7, <3>1, Sums3, Zenon
  <2> QED
    BY <2>1, <2>5, <2>8
<1>3. \A T \in SUBSET S, x \in S : T \in Good /\ x \notin T => T \cup {x} \in Good
  BY <1>2
<1> HIDE DEF Good
<1>4. S \in Good
  BY <1>1, <1>3, SetInduct
<1> QED
  BY <1>4 DEF Good, g

--------------------------------------------------------------------------------

(***************************************************************************)
(* Taking the members of a set one by one.                                 *)
(***************************************************************************)
\* The sets that are left.
LeftOver(S, first, left, n) ==
  left = [k \in 0 .. n |->
            IF k = 0 THEN S ELSE LET before == left[k - 1] IN before \ {first[before]}]

\* They exist.
LEMMA LeftOversExist ==
  ASSUME NEW S, NEW first
  PROVE  \A n \in Nat : \E left : LeftOver(S, first, left, n)
<1> DEFINE Good == {n \in Nat : \E left : LeftOver(S, first, left, n)}
<1>1. 0 \in Good
  <2> DEFINE left == [k \in 0 .. 0 |-> S]
  <2>1. LeftOver(S, first, left, 0)
    BY DEF LeftOver
  <2> QED
    BY <2>1
<1>2. ASSUME NEW n \in Nat, n \in Good PROVE n + 1 \in Good
  <2>1. PICK left : LeftOver(S, first, left, n)
    BY <1>2
  <2> DEFINE more == [k \in 0 .. n + 1 |-> IF k <= n THEN left[k] ELSE left[n] \ {first[left[n]]}]
  <2>2. \A k \in 0 .. n : left[k] = IF k = 0 THEN S ELSE left[k - 1] \ {first[left[k - 1]]}
    BY <2>1 DEF LeftOver
  <2>4. more = [k \in 0 .. n + 1 |-> more[k]]
    OBVIOUS
  <2>6. /\ \A k \in 0 .. n : more[k] = left[k]
        /\ more[n + 1] = left[n] \ {first[left[n]]}
    BY SMT
  <2> HIDE DEF more
  <2>3. ASSUME NEW k \in 0 .. n + 1
        PROVE  more[k] = IF k = 0 THEN S ELSE more[k - 1] \ {first[more[k - 1]]}
    <3>1. CASE k \in 0 .. n
      <4>1. k = 0 \/ k - 1 \in 0 .. n
        BY <3>1
      <4> QED
        BY <2>2, <2>6, <3>1, <4>1
    <3>2. CASE k = n + 1
      BY <2>6, <3>2
    <3> QED
      BY <3>1, <3>2
  <2>5. LeftOver(S, first, more, n + 1)
    BY <2>3, <2>4 DEF LeftOver
  <2> QED
    BY <2>5
<1> HIDE DEF Good
<1>3. Nat \subseteq Good
  BY <1>1, <1>2, Induct
<1> QED
  BY <1>3 DEF Good

\* What is left at first, and after each turn.
LEMMA LeftOverIs ==
  \A S, first, left : \A n \in Nat :
    LeftOver(S, first, left, n)
      => left[0] = S /\ \A k \in 1 .. n : left[k] = left[k - 1] \ {first[left[k - 1]]}
<1> SUFFICES ASSUME NEW S, NEW first, NEW left, NEW n \in Nat, LeftOver(S, first, left, n)
             PROVE  left[0] = S /\ \A k \in 1 .. n : left[k] = left[k - 1] \ {first[left[k - 1]]}
  OBVIOUS
<1>1. \A k \in 0 .. n : left[k] = IF k = 0 THEN S ELSE left[k - 1] \ {first[left[k - 1]]}
  BY Zenon DEF LeftOver
<1>2. 0 \in 0 .. n /\ \A k \in 1 .. n : k \in 0 .. n /\ k # 0
  OBVIOUS
<1> QED
  BY <1>1, <1>2, Zenon

\* Every member has its turn, once, and is the first of those left.
TakesTurns(S, first, turn, n) ==
  /\ n \in Nat /\ turn = [k \in 1 .. n |-> turn[k]]
  /\ \A k \in 1 .. n : turn[k] \in S
  /\ \A j, k \in 1 .. n : j < k => turn[j] # turn[k]
  /\ \A x \in S : \E k \in 1 .. n : x = turn[k]
  /\ \A k \in 1 .. n : turn[k] = first[{turn[j] : j \in k .. n}]

\* InTurn does this.
LEMMA InTurnTakes ==
  ASSUME NEW S, IsFiniteSet(S), NEW first, \A T \in SUBSET S : T # {} => first[T] \in T
  PROVE  TakesTurns(S, first, InTurn(S, first), Cardinality(S))
<1> DEFINE n == Cardinality(S)
           left == CHOOSE f : LeftOver(S, first, f, n)
           turn == [k \in 1 .. n |-> first[left[k - 1]]]
<1>n. n \in Nat
  BY FS_CardinalityType
<1>1. InTurn(S, first) = turn
  BY DEF InTurn, LeftOver
<1>2. LeftOver(S, first, left, n)
  BY <1>n, LeftOversExist
<1> HIDE DEF left
<1>3. left[0] = S /\ \A k \in 1 .. n : left[k] = left[k - 1] \ {first[left[k - 1]]}
  <2>1. PICK m, l : m = n /\ l = left
    OBVIOUS
  <2>2. m \in Nat /\ LeftOver(S, first, l, m)
    BY <1>n, <1>2, <2>1
  <2> HIDE DEF n
  <2>3. l[0] = S /\ \A k \in 1 .. m : l[k] = l[k - 1] \ {first[l[k - 1]]}
    BY <2>2, LeftOverIs
  <2> QED
    BY <2>1, <2>3
<1>4. \A k \in 1 .. n : turn[k] = first[left[k - 1]]
  OBVIOUS
<1>4a. turn = [k \in 1 .. n |-> turn[k]]
  OBVIOUS
<1> HIDE DEF n, turn
<1>5. \A k \in 0 .. n : left[k] \in SUBSET S /\ IsFiniteSet(left[k]) /\ Cardinality(left[k]) = n - k
                        /\ left[k] = S \ {turn[j] : j \in 1 .. k}
  <2> DEFINE Good == {k \in Nat : k <= n => /\ left[k] \in SUBSET S
                                           /\ IsFiniteSet(left[k]) /\ Cardinality(left[k]) = n - k
                                           /\ left[k] = S \ {turn[j] : j \in 1 .. k}}
  <2>1. 0 \in Good
    BY <1>n, <1>3 DEF n
  <2>2. ASSUME NEW k \in Nat, k \in Good, k + 1 <= n
        PROVE  k + 1 \in Good
    <3>1. /\ left[k] \in SUBSET S /\ IsFiniteSet(left[k]) /\ Cardinality(left[k]) = n - k
          /\ left[k] = S \ {turn[j] : j \in 1 .. k}
      BY <1>n, <2>2
    <3>2. left[k] # {}
      BY <1>n, <2>2, <3>1, FS_EmptySet
    <3>3. left[k + 1] = left[k] \ {turn[k + 1]} /\ turn[k + 1] = first[left[k]]
      BY <1>n, <1>3, <1>4, <2>2
    <3>4. turn[k + 1] \in left[k]
      BY <3>1, <3>2, <3>3
    <3>5. IsFiniteSet(left[k + 1]) /\ Cardinality(left[k + 1]) = n - (k + 1)
      <4>1. /\ IsFiniteSet(left[k + 1]) /\ Cardinality(left[k + 1]) \in Nat
            /\ Cardinality(left[k]) = Cardinality(left[k + 1]) + 1
        <5>1. PICK T, x : T = left[k] /\ x = turn[k + 1]
          OBVIOUS
        <5>2. IsFiniteSet(T) /\ x \in T /\ left[k + 1] = T \ {x}
          BY <3>1, <3>3, <3>4, <5>1
        <5>3. /\ IsFiniteSet(T \ {x}) /\ Cardinality(T \ {x}) \in Nat
              /\ Cardinality(T) = Cardinality(T \ {x}) + 1
          BY <5>2, TakeOut
        <5> QED
          BY <5>1, <5>2, <5>3
      <4> QED
        BY <1>n, <3>1, <4>1
    <3>6. {turn[j] : j \in 1 .. k + 1} = {turn[j] : j \in 1 .. k} \cup {turn[k + 1]}
      <4>1. 1 .. k + 1 = 1 .. k \cup {k + 1}
        OBVIOUS
      <4> QED
        BY <4>1
    <3>7. left[k + 1] = S \ {turn[j] : j \in 1 .. k + 1} /\ left[k + 1] \in SUBSET S
      BY <3>1, <3>3, <3>6, Zenon
    <3>8. k + 1 \in Nat
      BY <2>2
    <3> QED
      BY <3>5, <3>7, <3>8, Zenon
  <2>3. \A k \in Nat : k \in Good => k + 1 \in Good
    BY <1>n, <2>2
  <2> HIDE DEF Good
  <2>4. Nat \subseteq Good
    BY <2>1, <2>3, Induct
  <2> QED
    BY <1>n, <2>4 DEF Good
<1>6. ASSUME NEW k \in 1 .. n
      PROVE  turn[k] \in left[k - 1] /\ turn[k] \in S
  <2>1. k - 1 \in 0 .. n /\ n - (k - 1) # 0
    BY <1>n
  <2>2. left[k - 1] # {}
    BY <1>5, <2>1, FS_EmptySet
  <2> QED
    BY <1>4, <1>5, <2>1, <2>2
<1>7. ASSUME NEW j \in 1 .. n, NEW k \in 1 .. n, j < k
      PROVE  turn[j] # turn[k]
  <2>1. k - 1 \in 0 .. n /\ j \in 1 .. k - 1
    BY <1>n, <1>7
  <2>2. turn[k] \notin {turn[i] : i \in 1 .. k - 1}
    BY <1>5, <1>6, <2>1
  <2> QED
    BY <2>1, <2>2
<1>8. left[n] = {}
  <2>1. n \in 0 .. n /\ n - n = 0
    BY <1>n
  <2> QED
    BY <1>5, <2>1, FS_EmptySet
<1>9. \A x \in S : \E k \in 1 .. n : x = turn[k]
  <2>1. n \in 0 .. n
    BY <1>n
  <2> QED
    BY <1>5, <1>8, <2>1
<1>10. ASSUME NEW k \in 1 .. n
       PROVE  turn[k] = first[{turn[j] : j \in k .. n}]
  <2>1. k - 1 \in 0 .. n /\ \A j \in 1 .. n : j \in k .. n \/ j \in 1 .. k - 1
    BY <1>n
  <2>2. left[k - 1] = S \ {turn[j] : j \in 1 .. k - 1}
    BY <1>5, <2>1
  <2>3. left[k - 1] \subseteq {turn[j] : j \in k .. n}
    BY <1>9, <2>1, <2>2
  <2>4. {turn[j] : j \in k .. n} \subseteq left[k - 1]
    <3> SUFFICES ASSUME NEW j \in k .. n PROVE turn[j] \in left[k - 1]
      OBVIOUS
    <3>1. j \in 1 .. n /\ \A i \in 1 .. k - 1 : i \in 1 .. n /\ i < j
      BY <1>n
    <3>2. \A i \in 1 .. k - 1 : turn[i] # turn[j]
      BY <1>7, <3>1
    <3> QED
      BY <1>6, <2>2, <3>1, <3>2
  <2>5. left[k - 1] = {turn[j] : j \in k .. n}
    BY <2>3, <2>4
  <2> QED
    BY <1>4, <2>5
<1>11. TakesTurns(S, first, turn, n)
  BY <1>n, <1>4a, <1>6, <1>7, <1>9, <1>10 DEF TakesTurns
<1> QED
  BY <1>1, <1>11 DEF n

\* A set of numbers has a least one.
LEMMA LeastNumber ==
  ASSUME NEW T \in SUBSET Nat, T # {}
  PROVE  \E m \in T : \A k \in T : m <= k
<1>1. IsWellFoundedOn(OpToRel(<, Nat), Nat)
  BY NatLessThanWellFounded
<1>2. PICK m \in T : \A k \in T : ~ (<<k, m>> \in OpToRel(<, Nat))
  BY <1>1, WFMin
<1>3. \A k \in T : ~ (k < m)
  BY <1>2 DEF OpToRel
<1> QED
  BY <1>3

\* Among pairs of numbers there is a first one.
LEMMA FirstPair ==
  ASSUME NEW T, T # {}, NEW f, \A x \in T : f[x] \in Nat \X Nat
  PROVE  \E x \in T : \A y \in T : Precedes(f[x], f[y])
<1> DEFINE Ones == {f[x][1] : x \in T}
<1>0. \A x \in T : f[x][1] \in Nat /\ f[x][2] \in Nat
  OBVIOUS
<1>1. PICK m \in Ones : \A k \in Ones : m <= k
  <2>1. Ones \in SUBSET Nat /\ Ones # {}
    BY <1>0
  <2> HIDE DEF Ones
  <2> QED
    BY <2>1, LeastNumber
<1> DEFINE Twos == {f[x][2] : x \in {y \in T : f[y][1] = m}}
<1>2. PICK l \in Twos : \A k \in Twos : l <= k
  <2>1. Twos \in SUBSET Nat /\ Twos # {}
    BY <1>0, <1>1
  <2> HIDE DEF Twos
  <2> QED
    BY <2>1, LeastNumber
<1>3. PICK x \in T : f[x][1] = m /\ f[x][2] = l
  BY <1>2
<1>4. ASSUME NEW y \in T
      PROVE  Precedes(f[x], f[y])
  <2>1. m <= f[y][1] /\ (f[y][1] = m => l <= f[y][2]) /\ m \in Nat /\ f[y][1] \in Nat
    BY <1>0, <1>1, <1>2
  <2> QED
    BY <1>3, <2>1 DEF Precedes
<1> QED
  BY <1>4

--------------------------------------------------------------------------------

(***************************************************************************)
(* Sequences of records: what the records of a key are worth.              *)
(***************************************************************************)
Rec == Nat \X Nat

\* In key order, and with each key once.
Ordered(s) == \A i, j \in DOMAIN s : i < j => s[i][1] <= s[j][1]
Strict(s) == \A i, j \in DOMAIN s : i < j => s[i][1] < s[j][1]

\* What one record adds.
Adds(rec, key) == IF rec[1] = key THEN rec[2] ELSE 0
Parts(s, key) == [i \in DOMAIN s |-> Adds(s[i], key)]

\* The domain of a sequence, and what its members add.
LEMMA RecordsAre ==
  ASSUME NEW s \in Seq(Rec), NEW key
  PROVE  /\ Len(s) \in Nat /\ DOMAIN s = 1 .. Len(s) /\ IsFiniteSet(DOMAIN s)
         /\ \A i \in DOMAIN s : /\ s[i] \in Rec /\ s[i][1] \in Nat /\ s[i][2] \in Nat
                                /\ Parts(s, key)[i] = Adds(s[i], key)
                                /\ Parts(s, key)[i] \in Nat
         /\ Worth(s, key) = SumFunctionOnSet(Parts(s, key), DOMAIN s)
         /\ Worth(s, key) \in Nat
<1>1. Len(s) \in Nat /\ DOMAIN s = 1 .. Len(s) /\ \A i \in DOMAIN s : s[i] \in Rec
  OBVIOUS
<1>2. IsFiniteSet(DOMAIN s)
  BY <1>1, FS_Interval
<1>3. \A rec \in Rec : rec[1] \in Nat /\ rec[2] \in Nat
  BY DEF Rec
<1>4. \A i \in DOMAIN s : Parts(s, key)[i] = Adds(s[i], key) /\ Parts(s, key)[i] \in Nat
  BY <1>1, <1>3 DEF Parts, Adds
<1>5. Worth(s, key) = SumFunctionOnSet(Parts(s, key), DOMAIN s)
  BY DEF Worth, SumFunction, Parts, Adds
<1>6. Worth(s, key) \in Nat
  BY <1>2, <1>4, <1>5, SumIsNat
<1> QED
  BY <1>1, <1>2, <1>3, <1>4, <1>5, <1>6

\* No records.
LEMMA NoRecords ==
  /\ <<>> \in Seq(Rec) /\ \A key : Worth(<<>>, key) = 0
  /\ KeysOf(<<>>) = {} /\ Strict(<<>>) /\ Ordered(<<>>)
<1>1. <<>> \in Seq(Rec) /\ DOMAIN <<>> = {}
  OBVIOUS
<1>2. ASSUME NEW key
      PROVE  Worth(<<>>, key) = 0
  BY <1>1, RecordsAre, SumOfNone
<1> QED
  BY <1>1, <1>2 DEF KeysOf, Strict, Ordered

\* One record more.
LEMMA OneMore ==
  ASSUME NEW s \in Seq(Rec), NEW rec \in Rec
  PROVE  /\ Append(s, rec) \in Seq(Rec)
         /\ \A key : Worth(Append(s, rec), key) = Worth(s, key) + Adds(rec, key)
         /\ KeysOf(Append(s, rec)) = KeysOf(s) \cup {rec[1]}
         /\ Strict(Append(s, rec)) <=> Strict(s) /\ \A key \in KeysOf(s) : key < rec[1]
<1> DEFINE t == Append(s, rec)
           n == Len(s)
<1>1. /\ t \in Seq(Rec) /\ n \in Nat /\ Len(t) = n + 1
      /\ \A i \in 1 .. n : t[i] = s[i]
      /\ t[n + 1] = rec
      /\ DOMAIN s = 1 .. n /\ DOMAIN t = 1 .. n + 1
  BY AppendProperties, LenProperties
<1>2. DOMAIN t = DOMAIN s \cup {n + 1} /\ n + 1 \notin DOMAIN s
  BY <1>1
<1> HIDE DEF t, n
<1>3. ASSUME NEW key
      PROVE  Worth(t, key) = Worth(s, key) + Adds(rec, key)
  <2> DEFINE f == Parts(t, key)
             g == Parts(s, key)
  <2>1. /\ IsFiniteSet(DOMAIN s) /\ \A i \in DOMAIN s : g[i] = Adds(s[i], key) /\ g[i] \in Nat
        /\ Worth(s, key) = SumFunctionOnSet(g, DOMAIN s) /\ Worth(s, key) \in Nat
    BY RecordsAre
  <2>2. /\ \A i \in DOMAIN t : f[i] = Adds(t[i], key) /\ f[i] \in Nat
        /\ Worth(t, key) = SumFunctionOnSet(f, DOMAIN t)
    BY <1>1, RecordsAre
  <2> HIDE DEF f, g
  <2>3. SumFunctionOnSet(f, DOMAIN s \cup {n + 1}) = f[n + 1] + SumFunctionOnSet(f, DOMAIN s)
    BY <1>2, <2>1, <2>2, SumAdds
  <2>4. SumFunctionOnSet(g, DOMAIN s) = SumFunctionOnSet(f, DOMAIN s)
    <3>1. \A i \in DOMAIN s : g[i] = f[i] /\ g[i] \in Nat
      BY <1>1, <1>2, <2>1, <2>2
    <3> QED
      BY <2>1, <3>1, SumSame
  <2>5. f[n + 1] = Adds(rec, key) /\ f[n + 1] \in Nat
    BY <1>1, <1>2, <2>2
  <2> QED
    <3>1. Worth(t, key) = Adds(rec, key) + Worth(s, key)
      BY <1>2, <2>1, <2>2, <2>3, <2>4, <2>5, Zenon
    <3>2. Adds(rec, key) \in Nat /\ Worth(s, key) \in Nat
      BY <2>1, <2>5
    <3> QED
      BY <3>1, <3>2
<1>4. KeysOf(t) = KeysOf(s) \cup {rec[1]}
  BY <1>1, <1>2 DEF KeysOf
<1>5. Strict(t) <=> Strict(s) /\ \A key \in KeysOf(s) : key < rec[1]
  <2>1. ASSUME Strict(t)
        PROVE  Strict(s) /\ \A key \in KeysOf(s) : key < rec[1]
    <3>1. \A i, j \in DOMAIN s : i < j => s[i][1] < s[j][1]
      BY <1>1, <1>2, <2>1 DEF Strict
    <3>2. ASSUME NEW i \in DOMAIN s
          PROVE  s[i][1] < rec[1]
      <4>1. i \in DOMAIN t /\ n + 1 \in DOMAIN t /\ i < n + 1 /\ t[i] = s[i]
        BY <1>1, <1>2
      <4> QED
        BY <1>1, <2>1, <4>1 DEF Strict
    <3> QED
      BY <3>1, <3>2 DEF Strict, KeysOf
  <2>2. ASSUME Strict(s), \A key \in KeysOf(s) : key < rec[1], NEW i \in DOMAIN t, NEW j \in DOMAIN t, i < j
        PROVE  t[i][1] < t[j][1]
    <3>1. i \in DOMAIN s /\ t[i] = s[i] /\ t[i][1] \in KeysOf(s)
      BY <1>1, <2>2 DEF KeysOf
    <3>2. CASE j = n + 1
      BY <1>1, <2>2, <3>1, <3>2
    <3>3. CASE j # n + 1
      BY <1>1, <1>2, <2>2, <3>1, <3>3 DEF Strict
    <3> QED
      BY <3>2, <3>3
  <2> QED
    BY <2>1, <2>2 DEF Strict
<1> QED
  BY <1>1, <1>3, <1>4, <1>5 DEF t

\* A sequence is empty, or its front and its last record.
LEMMA FrontAndLast ==
  ASSUME NEW s \in Seq(Rec), s # <<>>
  PROVE  Front(s) \in Seq(Rec) /\ Last(s) \in Rec /\ s = Append(Front(s), Last(s))
<1>1. PICK r \in Seq(Rec), rec \in Rec : s = Append(r, rec)
  BY SequenceEmptyOrAppend
<1>2. /\ Len(r) \in Nat /\ Len(s) = Len(r) + 1 /\ s[Len(r) + 1] = rec
      /\ \A i \in 1 .. Len(r) : s[i] = r[i]
  BY <1>1, AppendProperties
<1>3. Last(s) = rec
  BY <1>2 DEF Last
<1>4. Front(s) = r
  <2>1. Len(s) - 1 = Len(r)
    BY <1>2
  <2>2. Front(s) = SubSeq(s, 1, Len(r))
    BY <2>1 DEF Front
  <2>3. \A i \in 1 .. Len(r) : s[i] \in Rec
    BY <1>2
  <2>4. /\ SubSeq(s, 1, Len(r)) \in Seq(Rec)
        /\ Len(SubSeq(s, 1, Len(r))) = Len(r)
        /\ \A i \in 1 .. Len(r) : SubSeq(s, 1, Len(r))[i] = s[i]
    BY <1>2, <2>3, SubSeqProperties
  <2>5. \A i \in 1 .. Len(r) : SubSeq(s, 1, Len(r))[i] = r[i]
    BY <1>2, <2>4
  <2>6. SubSeq(s, 1, Len(r)) = r
    BY <2>4, <2>5, SeqEqual
  <2> QED
    BY <2>2, <2>6
<1> QED
  BY <1>1, <1>3, <1>4

\* Induction over sequences, with a set.
LEMMA SeqInduct ==
  ASSUME NEW S, NEW Good, <<>> \in Good, \A s \in Seq(S), x \in S : s \in Good => Append(s, x) \in Good
  PROVE  Seq(S) \subseteq Good
<1> DEFINE N == {n \in Nat : \A s \in Seq(S) : Len(s) = n => s \in Good}
<1>1. 0 \in N
  BY EmptySeq
<1>2. ASSUME NEW n \in Nat, n \in N, NEW s \in Seq(S), Len(s) = n + 1
      PROVE  s \in Good
  <2>1. s # <<>>
    BY <1>2
  <2>2. PICK r \in Seq(S), x \in S : s = Append(r, x)
    BY <2>1, SequenceEmptyOrAppend
  <2>3. Len(r) = n
    BY <1>2, <2>2
  <2> QED
    BY <1>2, <2>2, <2>3
<1>3. \A n \in Nat : n \in N => n + 1 \in N
  BY <1>2
<1>4. \A s \in Seq(S) : Len(s) \in Nat
  OBVIOUS
<1> HIDE DEF N
<1>5. Nat \subseteq N
  BY <1>1, <1>3, Induct
<1> QED
  BY <1>4, <1>5 DEF N

\* One sequence after another.
LEMMA OneAfterAnother ==
  ASSUME NEW s \in Seq(Rec), NEW t \in Seq(Rec)
  PROVE  /\ s \o t \in Seq(Rec)
         /\ \A key : Worth(s \o t, key) = Worth(s, key) + Worth(t, key)
         /\ KeysOf(s \o t) = KeysOf(s) \cup KeysOf(t)
<1> DEFINE Good == {r \in Seq(Rec) : /\ \A key : Worth(s \o r, key) = Worth(s, key) + Worth(r, key)
                                     /\ KeysOf(s \o r) = KeysOf(s) \cup KeysOf(r)}
<1>1. <<>> \in Good
  <2>1. s \o <<>> = s
    BY ConcatEmptySeq
  <2>2. \A key : Worth(s, key) \in Nat
    BY RecordsAre
  <2> QED
    BY <2>1, <2>2, NoRecords
<1>2. ASSUME NEW r \in Seq(Rec), NEW rec \in Rec, r \in Good
      PROVE  Append(r, rec) \in Good
  <2>1. s \o r \in Seq(Rec) /\ s \o Append(r, rec) = Append(s \o r, rec)
    OBVIOUS
  <2>2. /\ \A key : Worth(Append(s \o r, rec), key) = Worth(s \o r, key) + Adds(rec, key)
        /\ KeysOf(Append(s \o r, rec)) = KeysOf(s \o r) \cup {rec[1]}
    BY <2>1, OneMore
  <2>3. /\ Append(r, rec) \in Seq(Rec)
        /\ \A key : Worth(Append(r, rec), key) = Worth(r, key) + Adds(rec, key)
        /\ KeysOf(Append(r, rec)) = KeysOf(r) \cup {rec[1]}
    BY OneMore
  <2>4. \A key : Worth(s, key) \in Nat /\ Worth(r, key) \in Nat /\ Adds(rec, key) \in Nat
    BY RecordsAre DEF Adds, Rec
  <2>5. ASSUME NEW key
        PROVE  Worth(s \o Append(r, rec), key) = Worth(s, key) + Worth(Append(r, rec), key)
    <3>1. Worth(s \o r, key) = Worth(s, key) + Worth(r, key)
      BY <1>2
    <3> QED
      BY <2>1, <2>2, <2>3, <2>4, <3>1
  <2>6. KeysOf(s \o Append(r, rec)) = KeysOf(s) \cup KeysOf(Append(r, rec))
    BY <1>2, <2>1, <2>2, <2>3
  <2> QED
    BY <2>3, <2>5, <2>6
<1>3. s \o t \in Seq(Rec)
  OBVIOUS
<1> HIDE DEF Good
<1>4. t \in Good
  BY <1>1, <1>2, SeqInduct
<1> QED
  BY <1>3, <1>4 DEF Good

--------------------------------------------------------------------------------

(***************************************************************************)
(* Groups of neighbours with equal keys.                                   *)
(***************************************************************************)
\* A record joins.
LEMMA JoinIs ==
  ASSUME NEW g \in Seq(Rec), NEW rec \in Rec
  PROVE  /\ Join(g, rec) \in Seq(Rec)
         /\ \A key : Worth(Join(g, rec), key) = Worth(g, key) + Adds(rec, key)
         /\ KeysOf(Join(g, rec)) = KeysOf(g) \cup {rec[1]}
         /\ Strict(g) /\ (\A key \in KeysOf(g) : key <= rec[1]) => Strict(Join(g, rec))
<1>r. rec[1] \in Nat /\ rec[2] \in Nat
  BY DEF Rec
<1>1. CASE g # <<>> /\ Last(g)[1] = rec[1]
  <2> DEFINE f == Front(g)
             l == Last(g)
             both == <<rec[1], l[2] + rec[2]>>
  <2>1. f \in Seq(Rec) /\ l \in Rec /\ g = Append(f, l)
    BY <1>1, FrontAndLast
  <2>2. both \in Rec /\ l[1] = rec[1] /\ both[1] = rec[1] /\ both[2] = l[2] + rec[2] /\ l[2] \in Nat
    BY <1>r, <1>1, <2>1 DEF Rec
  <2>3. Join(g, rec) = Append(f, both)
    BY <1>1 DEF Join
  <2> HIDE DEF f, l, both
  <2>4. /\ \A key : Worth(g, key) = Worth(f, key) + Adds(l, key)
        /\ KeysOf(g) = KeysOf(f) \cup {rec[1]}
        /\ Strict(g) <=> Strict(f) /\ \A key \in KeysOf(f) : key < rec[1]
    BY <2>1, <2>2, OneMore
  <2>5. /\ Append(f, both) \in Seq(Rec)
        /\ \A key : Worth(Append(f, both), key) = Worth(f, key) + Adds(both, key)
        /\ KeysOf(Append(f, both)) = KeysOf(f) \cup {rec[1]}
        /\ Strict(Append(f, both)) <=> Strict(f) /\ \A key \in KeysOf(f) : key < rec[1]
    BY <2>1, <2>2, OneMore
  <2>6. ASSUME NEW key
        PROVE  Worth(Append(f, both), key) = Worth(g, key) + Adds(rec, key)
    <3>1. Worth(f, key) \in Nat
      BY <2>1, RecordsAre
    <3>2. Adds(both, key) = Adds(l, key) + Adds(rec, key) /\ Adds(l, key) \in Nat /\ Adds(rec, key) \in Nat
      BY <1>r, <2>2 DEF Adds
    <3>3. Worth(Append(f, both), key) = Worth(f, key) + Adds(both, key)
      BY <2>5
    <3>4. Worth(g, key) = Worth(f, key) + Adds(l, key)
      BY <2>4
    <3> QED
      BY <3>1, <3>2, <3>3, <3>4
  <2> QED
    BY <2>3, <2>4, <2>5, <2>6, Zenon
<1>2. CASE ~ (g # <<>> /\ Last(g)[1] = rec[1])
  <2>1. Join(g, rec) = Append(g, rec)
    BY <1>2 DEF Join
  <2>2. /\ Append(g, rec) \in Seq(Rec)
        /\ \A key : Worth(Append(g, rec), key) = Worth(g, key) + Adds(rec, key)
        /\ KeysOf(Append(g, rec)) = KeysOf(g) \cup {rec[1]}
        /\ Strict(Append(g, rec)) <=> Strict(g) /\ \A key \in KeysOf(g) : key < rec[1]
    BY OneMore
  <2>3. ASSUME Strict(g), \A key \in KeysOf(g) : key <= rec[1], NEW key \in KeysOf(g)
        PROVE  key < rec[1]
    <3>1. CASE g = <<>>
      BY <2>3, <3>1, NoRecords
    <3>2. CASE g # <<>>
      <4> DEFINE f == Front(g)
                 l == Last(g)
      <4>1. f \in Seq(Rec) /\ l \in Rec /\ g = Append(f, l) /\ l[1] # rec[1]
        BY <1>2, <3>2, FrontAndLast
      <4> HIDE DEF f, l
      <4>2. /\ KeysOf(g) = KeysOf(f) \cup {l[1]}
            /\ \A k \in KeysOf(f) : k < l[1]
        BY <2>3, <4>1, OneMore
      <4>3. l[1] <= rec[1] /\ l[1] \in Nat
        BY <2>3, <4>1, <4>2 DEF Rec
      <4>4. \A k \in KeysOf(f) : k \in Nat
        BY <4>1, RecordsAre DEF KeysOf
      <4> QED
        BY <1>r, <2>3, <4>1, <4>2, <4>3, <4>4
    <3> QED
      BY <3>1, <3>2
  <2>4. Strict(g) /\ (\A key \in KeysOf(g) : key <= rec[1]) => Strict(Append(g, rec))
    BY <2>2, <2>3
  <2> QED
    BY <2>1, <2>2, <2>4, Zenon
<1> QED
  BY <1>1, <1>2

\* The groups of the first records.
GroupsOf(s, groups, n) ==
  groups = [k \in 0 .. n |-> IF k = 0 THEN <<>> ELSE Join(groups[k - 1], s[k])]

\* They exist.
LEMMA GroupsExist ==
  ASSUME NEW s
  PROVE  \A n \in Nat : \E groups : GroupsOf(s, groups, n)
<1> DEFINE Good == {n \in Nat : \E groups : GroupsOf(s, groups, n)}
<1>1. 0 \in Good
  <2> DEFINE groups == [k \in 0 .. 0 |-> <<>>]
  <2>1. GroupsOf(s, groups, 0)
    BY DEF GroupsOf
  <2> QED
    BY <2>1
<1>2. ASSUME NEW n \in Nat, n \in Good PROVE n + 1 \in Good
  <2>1. PICK groups : GroupsOf(s, groups, n)
    BY <1>2
  <2> DEFINE more == [k \in 0 .. n + 1 |-> IF k <= n THEN groups[k] ELSE Join(groups[n], s[n + 1])]
  <2>2. \A k \in 0 .. n : groups[k] = IF k = 0 THEN <<>> ELSE Join(groups[k - 1], s[k])
    BY <2>1 DEF GroupsOf
  <2>3. /\ more = [k \in 0 .. n + 1 |-> more[k]]
        /\ \A k \in 0 .. n : more[k] = groups[k]
        /\ more[n + 1] = Join(groups[n], s[n + 1])
    BY SMT
  <2> HIDE DEF more
  <2>4. ASSUME NEW k \in 0 .. n + 1
        PROVE  more[k] = IF k = 0 THEN <<>> ELSE Join(more[k - 1], s[k])
    <3>1. CASE k \in 0 .. n
      <4>1. k = 0 \/ k - 1 \in 0 .. n
        BY <3>1
      <4> QED
        BY <2>2, <2>3, <3>1, <4>1
    <3>2. CASE k = n + 1
      <4>1. k # 0 /\ k - 1 = n /\ n \in 0 .. n
        BY <3>2
      <4> QED
        BY <2>3, <3>2, <4>1
    <3> QED
      BY <3>1, <3>2
  <2>5. GroupsOf(s, more, n + 1)
    BY <2>3, <2>4 DEF GroupsOf
  <2> QED
    BY <2>5
<1> HIDE DEF Good
<1>3. Nat \subseteq Good
  BY <1>1, <1>2, Induct
<1> QED
  BY <1>3 DEF Good

\* Groups have the keys and the worth of the records, and one group a key.
LEMMA GroupedIs ==
  ASSUME NEW s \in Seq(Rec)
  PROVE  /\ Grouped(s) \in Seq(Rec)
         /\ \A key : Worth(Grouped(s), key) = Worth(s, key)
         /\ KeysOf(Grouped(s)) = KeysOf(s)
         /\ Ordered(s) => Strict(Grouped(s))
<1> DEFINE n == Len(s)
           groups == CHOOSE g : GroupsOf(s, g, n)
           Pre(k) == SubSeq(s, 1, k)
<1>n. n \in Nat /\ DOMAIN s = 1 .. n /\ \A i \in 1 .. n : s[i] \in Rec
  OBVIOUS
<1>1. Grouped(s) = groups[n]
  BY DEF Grouped, GroupsOf
<1>2. GroupsOf(s, groups, n)
  BY <1>n, GroupsExist
<1> HIDE DEF groups
<1>3. groups[0] = <<>> /\ \A k \in 1 .. n : groups[k] = Join(groups[k - 1], s[k])
  BY <1>n, <1>2 DEF GroupsOf
<1>4. ASSUME NEW k \in 0 .. n
      PROVE  /\ Pre(k) \in Seq(Rec) /\ Len(Pre(k)) = k
             /\ \A i \in 1 .. k : Pre(k)[i] = s[i]
  <2>1. \A i \in 1 .. k : s[i] \in Rec
    BY <1>n
  <2> QED
    BY <1>n, <2>1, SubSeqProperties
<1>5. Pre(0) = <<>> /\ Pre(n) = s
  BY <1>n, SubSeqFull, SubSeqEmpty
<1>6. ASSUME NEW k \in Nat, k + 1 <= n
      PROVE  Pre(k + 1) = Append(Pre(k), s[k + 1])
  <2>0. k \in 0 .. n /\ k + 1 \in 0 .. n /\ s[k + 1] \in Rec
    BY <1>n, <1>6
  <2>1. /\ Pre(k) \in Seq(Rec) /\ Len(Pre(k)) = k /\ \A i \in 1 .. k : Pre(k)[i] = s[i]
        /\ Pre(k + 1) \in Seq(Rec) /\ Len(Pre(k + 1)) = k + 1 /\ \A i \in 1 .. k + 1 : Pre(k + 1)[i] = s[i]
    BY <1>4, <2>0
  <2> HIDE DEF Pre
  <2>2. /\ Append(Pre(k), s[k + 1]) \in Seq(Rec) /\ Len(Append(Pre(k), s[k + 1])) = k + 1
        /\ \A i \in 1 .. k : Append(Pre(k), s[k + 1])[i] = s[i]
        /\ Append(Pre(k), s[k + 1])[k + 1] = s[k + 1]
    BY <2>0, <2>1, AppendProperties
  <2>3. \A i \in 1 .. k + 1 : i \in 1 .. k \/ i = k + 1
    OBVIOUS
  <2>4. \A i \in 1 .. Len(Pre(k + 1)) : Pre(k + 1)[i] = Append(Pre(k), s[k + 1])[i]
    BY <2>1, <2>2, <2>3
  <2> QED
    BY <2>1, <2>2, <2>4, SeqEqual
<1> DEFINE Right(k) == /\ groups[k] \in Seq(Rec)
                       /\ \A key : Worth(groups[k], key) = Worth(Pre(k), key)
                       /\ KeysOf(groups[k]) = KeysOf(Pre(k))
                       /\ Ordered(s) => Strict(groups[k])
           Good == {k \in Nat : k <= n => Right(k)}
<1>7. 0 \in Good
  BY <1>3, <1>5, NoRecords
<1>8. ASSUME NEW k \in Nat, k + 1 <= n, Right(k)
      PROVE  Right(k + 1)
  <2>1. k \in 0 .. n /\ k + 1 \in 1 .. n /\ s[k + 1] \in Rec /\ (k + 1) - 1 = k
    BY <1>n, <1>8
  <2>2. groups[k + 1] = Join(groups[k], s[k + 1])
    BY <1>3, <2>1
  <2>3. /\ Pre(k) \in Seq(Rec) /\ Len(Pre(k)) = k /\ \A i \in 1 .. k : Pre(k)[i] = s[i]
        /\ Pre(k + 1) = Append(Pre(k), s[k + 1])
    BY <1>4, <1>6, <1>8, <2>1
  <2>4. groups[k] \in Seq(Rec)
    BY <1>8
  <2> HIDE DEF Pre
  <2>5. /\ groups[k + 1] \in Seq(Rec)
        /\ \A key : Worth(groups[k + 1], key) = Worth(groups[k], key) + Adds(s[k + 1], key)
        /\ KeysOf(groups[k + 1]) = KeysOf(groups[k]) \cup {s[k + 1][1]}
        /\ Strict(groups[k]) /\ (\A key \in KeysOf(groups[k]) : key <= s[k + 1][1])
             => Strict(groups[k + 1])
    <3>1. PICK g \in Seq(Rec), rec \in Rec : g = groups[k] /\ rec = s[k + 1]
      BY <2>1, <2>4
    <3>2. groups[k + 1] = Join(g, rec)
      BY <2>2, <3>1
    <3> QED
      <4>1. /\ Join(g, rec) \in Seq(Rec)
            /\ \A key : Worth(Join(g, rec), key) = Worth(g, key) + Adds(rec, key)
            /\ KeysOf(Join(g, rec)) = KeysOf(g) \cup {rec[1]}
            /\ Strict(g) /\ (\A key \in KeysOf(g) : key <= rec[1]) => Strict(Join(g, rec))
        BY JoinIs
      <4> QED
        BY <3>1, <3>2, <4>1
  <2>6. /\ \A key : Worth(Pre(k + 1), key) = Worth(Pre(k), key) + Adds(s[k + 1], key)
        /\ KeysOf(Pre(k + 1)) = KeysOf(Pre(k)) \cup {s[k + 1][1]}
    <3>1. PICK r \in Seq(Rec), rec \in Rec : r = Pre(k) /\ rec = s[k + 1]
      BY <2>1, <2>3
    <3>2. Pre(k + 1) = Append(r, rec)
      BY <2>3, <3>1
    <3> QED
      <4>1. /\ \A key : Worth(Append(r, rec), key) = Worth(r, key) + Adds(rec, key)
            /\ KeysOf(Append(r, rec)) = KeysOf(r) \cup {rec[1]}
        BY OneMore
      <4> QED
        BY <3>1, <3>2, <4>1
  <2>7. ASSUME Ordered(s)
        PROVE  \A key \in KeysOf(groups[k]) : key <= s[k + 1][1]
    <3> SUFFICES ASSUME NEW key \in KeysOf(Pre(k)) PROVE key <= s[k + 1][1]
      BY <1>8
    <3>1. PICK i \in 1 .. k : key = s[i][1]
      BY <2>3 DEF KeysOf
    <3>2. i \in DOMAIN s /\ k + 1 \in DOMAIN s /\ i < k + 1
      BY <1>n, <2>1
    <3> QED
      BY <2>7, <3>1, <3>2 DEF Ordered
  <2>8. Ordered(s) => Strict(groups[k + 1])
    BY <1>8, <2>5, <2>7
  <2>9. \A key : Worth(groups[k + 1], key) = Worth(Pre(k + 1), key)
    BY <1>8, <2>5, <2>6, Zenon
  <2>10. KeysOf(groups[k + 1]) = KeysOf(Pre(k + 1))
    BY <1>8, <2>5, <2>6, Zenon
  <2> QED
    BY <2>5, <2>8, <2>9, <2>10
<1>9. \A k \in Nat : k \in Good => k + 1 \in Good
  <2> SUFFICES ASSUME NEW k \in Nat, k \in Good, k + 1 <= n PROVE Right(k + 1)
    OBVIOUS
  <2>1. Right(k)
    BY <1>n
  <2> HIDE DEF Right
  <2> QED
    BY <1>8, <2>1
<1> HIDE DEF Good
<1>10. Nat \subseteq Good
  BY <1>7, <1>9, Induct
<1>11. Right(n)
  BY <1>n, <1>10 DEF Good
<1> QED
  BY <1>1, <1>5, <1>11

--------------------------------------------------------------------------------

(***************************************************************************)
(* Runs and merged sources.                                                *)
(***************************************************************************)
\* Zeroes add up to zero.
LEMMA SumOfZeroes ==
  ASSUME NEW S, IsFiniteSet(S), NEW f, \A x \in S : f[x] = 0
  PROVE  SumFunctionOnSet(f, S) = 0
<1> DEFINE Good == {T \in SUBSET S : SumFunctionOnSet(f, T) = 0}
<1>1. {} \in Good
  BY SumOfNone
<1>2. ASSUME NEW T \in SUBSET S, NEW x \in S, T \in Good, x \notin T
      PROVE  T \cup {x} \in Good
  <2>1. IsFiniteSet(T) /\ \A y \in T \cup {x} : f[y] \in Nat
    BY FS_Subset
  <2>2. SumFunctionOnSet(f, T \cup {x}) = f[x] + SumFunctionOnSet(f, T)
    BY <1>2, <2>1, SumAdds
  <2> QED
    BY <1>2, <2>2
<1>3. \A T \in SUBSET S, x \in S : T \in Good /\ x \notin T => T \cup {x} \in Good
  BY <1>2
<1> HIDE DEF Good
<1>4. S \in Good
  BY <1>1, <1>3, SetInduct
<1> QED
  BY <1>4 DEF Good

\* Records r with the places of their turns: they tell what the places hold.
LEMMA TurnsTell ==
  ASSUME NEW S, IsFiniteSet(S), NEW r, \A x \in S : r[x] \in Rec,
         NEW first, NEW turn, NEW n, TakesTurns(S, first, turn, n),
         NEW s, s = [k \in 1 .. n |-> r[turn[k]]]
  PROVE  /\ s \in Seq(Rec)
         /\ KeysOf(s) = {r[x][1] : x \in S}
         /\ \A key : Worth(s, key) = SumFunctionOnSet([x \in S |-> Adds(r[x], key)], S)
<1>1. n \in Nat /\ \A k \in 1 .. n : turn[k] \in S /\ s[k] = r[turn[k]] /\ s[k] \in Rec
  BY DEF TakesTurns
<1>2. s \in Seq(Rec) /\ DOMAIN s = 1 .. n
  BY <1>1
<1>3. KeysOf(s) = {r[x][1] : x \in S}
  BY <1>1, <1>2 DEF KeysOf, TakesTurns
<1>4. ASSUME NEW key
      PROVE  Worth(s, key) = SumFunctionOnSet([x \in S |-> Adds(r[x], key)], S)
  <2> DEFINE f == Parts(s, key)
             g == [x \in S |-> Adds(r[x], key)]
  <2>1. /\ IsFiniteSet(1 .. n) /\ \A k \in 1 .. n : f[k] = Adds(s[k], key) /\ f[k] \in Nat
        /\ Worth(s, key) = SumFunctionOnSet(f, 1 .. n)
    BY <1>2, RecordsAre
  <2>2. \A k \in 1 .. n : turn[k] \in S /\ f[k] = g[turn[k]] /\ g[turn[k]] \in Nat
    BY <1>1, <2>1
  <2> HIDE DEF f, g
  <2>3. \A j, k \in 1 .. n : turn[j] = turn[k] => j = k
    <3>1. \A j, k \in 1 .. n : j < k => turn[j] # turn[k]
      BY DEF TakesTurns
    <3> QED
      BY <1>1, <3>1
  <2>4. \A x \in S : \E k \in 1 .. n : x = turn[k]
    BY DEF TakesTurns
  <2>5. SumFunctionOnSet(f, 1 .. n) = SumFunctionOnSet(g, S)
    <3>1. PICK D : D = 1 .. n
      OBVIOUS
    <3>2. /\ IsFiniteSet(D)
          /\ \A k \in D : turn[k] \in S /\ f[k] = g[turn[k]] /\ g[turn[k]] \in Nat
          /\ \A j, k \in D : turn[j] = turn[k] => j = k
          /\ \A x \in S : \E k \in D : x = turn[k]
      BY <2>1, <2>2, <2>3, <2>4, <3>1
    <3>3. SumFunctionOnSet(f, D) = SumFunctionOnSet(g, S)
      BY <3>2, SumMoved
    <3> QED
      BY <3>1, <3>3
  <2> QED
    BY <2>1, <2>5 DEF g
<1> QED
  BY <1>2, <1>3, <1>4

\* A sorted buffer.
LEMMA SortedIs ==
  ASSUME NEW buffer \in Seq(Rec), NEW p
  PROVE  /\ Sorted(buffer, p) \in Seq(Rec) /\ Ordered(Sorted(buffer, p))
         /\ KeysOf(Sorted(buffer, p)) = {key \in KeysOf(buffer) : Partition(key) = p}
         /\ \A key : Partition(key) = p => Worth(Sorted(buffer, p), key) = Worth(buffer, key)
<1> DEFINE mine == {i \in DOMAIN buffer : Partition(buffer[i][1]) = p}
           least == [left \in SUBSET mine |->
                       CHOOSE i \in left : \A j \in left : Precedes(buffer[i], buffer[j])]
           turn == InTurn(mine, least)
           n == Cardinality(mine)
           s == Sorted(buffer, p)
<1>1. s = [k \in 1 .. n |-> buffer[turn[k]]]
  BY DEF Sorted
<1>2. IsFiniteSet(DOMAIN buffer) /\ \A i \in DOMAIN buffer : buffer[i] \in Rec
  BY RecordsAre
<1>3. IsFiniteSet(mine) /\ mine \subseteq DOMAIN buffer
  BY <1>2, FS_Subset
<1>4. ASSUME NEW T \in SUBSET mine, T # {}
      PROVE  least[T] \in T /\ \A j \in T : Precedes(buffer[least[T]], buffer[j])
  <2>1. \A x \in T : buffer[x] \in Nat \X Nat
    BY <1>2, <1>3 DEF Rec
  <2>2. \E x \in T : \A y \in T : Precedes(buffer[x], buffer[y])
    BY <1>4, <2>1, FirstPair
  <2>3. least[T] = CHOOSE i \in T : \A j \in T : Precedes(buffer[i], buffer[j])
    OBVIOUS
  <2> HIDE DEF least
  <2> QED
    BY <2>2, <2>3
<1>m. \A i \in mine : i \in DOMAIN buffer /\ Partition(buffer[i][1]) = p
  OBVIOUS
<1>k. {buffer[x][1] : x \in mine} = {key \in KeysOf(buffer) : Partition(key) = p}
  BY DEF KeysOf
<1>o. \A i \in DOMAIN buffer \ mine : Partition(buffer[i][1]) # p
  OBVIOUS
<1> HIDE DEF mine, least, s
<1>5. TakesTurns(mine, least, turn, n)
  BY <1>3, <1>4, InTurnTakes
<1> HIDE DEF turn, n
<1>6. /\ s \in Seq(Rec)
      /\ KeysOf(s) = {buffer[x][1] : x \in mine}
      /\ \A key : Worth(s, key) = SumFunctionOnSet([x \in mine |-> Adds(buffer[x], key)], mine)
  <2>1. \A x \in mine : buffer[x] \in Rec
    BY <1>2, <1>m
  <2> QED
    BY <1>1, <1>3, <1>5, <2>1, TurnsTell
<1>7. Ordered(s)
  <2>1. DOMAIN s = 1 .. n /\ n \in Nat
    BY <1>1, <1>5 DEF TakesTurns
  <2>2. ASSUME NEW i \in 1 .. n, NEW j \in 1 .. n, i < j
        PROVE  s[i][1] <= s[j][1]
    <3> DEFINE T == {turn[k] : k \in i .. n}
    <3>1. turn[i] = least[T] /\ \A k \in 1 .. n : turn[k] \in mine
      BY <1>5 DEF TakesTurns
    <3>2. turn[j] \in T /\ T \subseteq mine
      BY <2>1, <2>2, <3>1
    <3>3. Precedes(buffer[turn[i]], buffer[turn[j]])
      <4> HIDE DEF T
      <4>1. T \in SUBSET mine /\ T # {}
        BY <3>2
      <4> QED
        BY <1>4, <3>1, <3>2, <4>1
    <3>4. s[i] = buffer[turn[i]] /\ s[j] = buffer[turn[j]] /\ s[i][1] \in Nat /\ s[j][1] \in Nat
      BY <1>1, <1>6, <2>1, RecordsAre
    <3> QED
      BY <3>3, <3>4 DEF Precedes
  <2> QED
    BY <2>1, <2>2 DEF Ordered
<1>8. ASSUME NEW key, Partition(key) = p
      PROVE  Worth(s, key) = Worth(buffer, key)
  <2> DEFINE f == Parts(buffer, key)
             g == [x \in mine |-> Adds(buffer[x], key)]
             rest == DOMAIN buffer \ mine
  <2>1. /\ \A i \in DOMAIN buffer : f[i] = Adds(buffer[i], key) /\ f[i] \in Nat
        /\ Worth(buffer, key) = SumFunctionOnSet(f, DOMAIN buffer)
    BY RecordsAre
  <2>2. \A x \in mine : g[x] = f[x] /\ g[x] \in Nat
    BY <1>m, <2>1
  <2>3. \A x \in rest : f[x] = 0
    BY <1>8, <1>o, <2>1 DEF Adds
  <2>4. IsFiniteSet(rest) /\ mine \cap rest = {} /\ DOMAIN buffer = mine \cup rest
    BY <1>2, <1>3, FS_Subset
  <2>5. Worth(s, key) = SumFunctionOnSet(g, mine)
    BY <1>6
  <2> HIDE DEF f, g, rest
  <2>6. SumFunctionOnSet(g, mine) = SumFunctionOnSet(f, mine)
    BY <1>3, <2>2, SumSame
  <2>7. SumFunctionOnSet(f, mine \cup rest) = SumFunctionOnSet(f, mine) + SumFunctionOnSet(f, rest)
    BY <1>3, <2>1, <2>4, SumOfTwo
  <2>8. SumFunctionOnSet(f, rest) = 0 /\ SumFunctionOnSet(f, mine) \in Nat
    <3>1. \A x \in mine : f[x] \in Nat
      BY <2>1, <2>4
    <3> QED
      BY <1>3, <2>3, <2>4, <3>1, SumOfZeroes, SumIsNat
  <2> QED
    BY <2>1, <2>4, <2>5, <2>6, <2>7, <2>8
<1> QED
  BY <1>6, <1>7, <1>8, <1>k DEF s

\* What a sequence of a partition tells: its keys, of some, and their worth.
Tells(s, p, keys, worth) ==
  /\ s \in Seq(Rec) /\ Ordered(s)
  /\ KeysOf(s) = {key \in keys : Partition(key) = p}
  /\ \A key \in Nat : Partition(key) = p => Worth(s, key) = worth[key]

\* Strict order is order.
LEMMA StrictIsOrdered == \A s \in Seq(Rec) : Strict(s) => Ordered(s)
<1> SUFFICES ASSUME NEW s \in Seq(Rec), Strict(s) PROVE Ordered(s)
  OBVIOUS
<1>1. \A i \in DOMAIN s : s[i][1] \in Nat
  BY RecordsAre
<1> QED
  BY <1>1 DEF Strict, Ordered

\* Groups tell what the records do.
LEMMA GroupedTells ==
  ASSUME NEW p, NEW keys, NEW worth, NEW s, Tells(s, p, keys, worth)
  PROVE  Tells(Grouped(s), p, keys, worth) /\ Strict(Grouped(s))
<1>1. s \in Seq(Rec) /\ Ordered(s)
  BY DEF Tells
<1>2. /\ Grouped(s) \in Seq(Rec)
      /\ \A key : Worth(Grouped(s), key) = Worth(s, key)
      /\ KeysOf(Grouped(s)) = KeysOf(s)
      /\ Strict(Grouped(s))
  BY <1>1, GroupedIs
<1> QED
  BY <1>2, StrictIsOrdered DEF Tells

\* What is written for a buffer.
WorthBy(records) == [key \in Nat |-> Worth(records, key)]
\* What is written for a partition tells its records.
LEMMA RunTells ==
  ASSUME NEW buffer \in Seq(Rec), NEW p
  PROVE  Tells(Run(buffer, p), p, KeysOf(buffer), WorthBy(buffer))
<1>1. Tells(Sorted(buffer, p), p, KeysOf(buffer), WorthBy(buffer))
  BY SortedIs DEF Tells, WorthBy
<1> QED
  BY <1>1, GroupedTells DEF Run

--------------------------------------------------------------------------------

(***************************************************************************)
(* Several sequences, and the merged one.                                  *)
(***************************************************************************)
\* The sequences, and what they are worth together.
LEMMA SourcesAre ==
  ASSUME NEW sources \in Seq(Seq(Rec)), NEW key
  PROVE  /\ Len(sources) \in Nat /\ DOMAIN sources = 1 .. Len(sources)
         /\ IsFiniteSet(DOMAIN sources)
         /\ \A i \in DOMAIN sources : sources[i] \in Seq(Rec) /\ Worth(sources[i], key) \in Nat
         /\ WorthOfAll(sources, key)
              = SumFunctionOnSet([i \in DOMAIN sources |-> Worth(sources[i], key)], DOMAIN sources)
         /\ WorthOfAll(sources, key) \in Nat
<1>1. /\ Len(sources) \in Nat /\ DOMAIN sources = 1 .. Len(sources)
      /\ \A i \in DOMAIN sources : sources[i] \in Seq(Rec)
  OBVIOUS
<1>2. IsFiniteSet(DOMAIN sources)
  BY <1>1, FS_Interval
<1>3. \A i \in DOMAIN sources : Worth(sources[i], key) \in Nat
  BY <1>1, RecordsAre
<1> DEFINE f == [i \in DOMAIN sources |-> Worth(sources[i], key)]
<1>4. WorthOfAll(sources, key) = SumFunctionOnSet(f, DOMAIN sources)
  BY DEF WorthOfAll, SumFunction, SumFunctionOnSet, FoldFunction, FoldFunctionOnSet
<1>5. \A i \in DOMAIN sources : f[i] \in Nat
  BY <1>3
<1> HIDE DEF f
<1>6. SumFunctionOnSet(f, DOMAIN sources) \in Nat
  BY <1>2, <1>5, SumIsNat
<1> QED
  BY <1>1, <1>2, <1>3, <1>4, <1>6 DEF f

\* The places of a sequence among others.
LEMMA PlacesAre ==
  ASSUME NEW i, NEW D, IsFiniteSet(D)
  PROVE  IsFiniteSet({<<i, n>> : n \in D})
<1> DEFINE C == {<<i, n>> : n \in D}
           e == [n \in D |-> <<i, n>>]
<1>0. /\ e \in [D -> C]
      /\ \A m, n \in D : e[m] = e[n] => m = n
      /\ \A x \in C : \E n \in D : e[n] = x
  OBVIOUS
<1>1. e \in Bijection(D, C)
  BY <1>0, Zenon DEF Bijection, Injection, Surjection, IsInjective
<1>2. ExistsBijection(D, C)
  BY <1>1 DEF ExistsBijection
<1> HIDE DEF C
<1>3. IsFiniteSet(C)
  BY <1>2, FS_Bijection
<1> QED
  BY <1>3 DEF C

\* What the records of one sequence add, at other places.
AddsAt(s, key, C, e, f) ==
  /\ \A n \in DOMAIN s : e[n] \in C /\ f[e[n]] = Adds(s[n], key)
  /\ \A m, n \in DOMAIN s : e[m] = e[n] => m = n
  /\ \A x \in C : \E n \in DOMAIN s : x = e[n]

\* The sum over such places is what a sequence is worth for the key.
LEMMA OnePlace ==
  ASSUME NEW s \in Seq(Rec), NEW key, NEW C, NEW e, NEW f, AddsAt(s, key, C, e, f)
  PROVE  SumFunctionOnSet(f, C) = Worth(s, key) /\ \A x \in C : f[x] \in Nat
<1>1. PICK h, D : h = Parts(s, key) /\ D = DOMAIN s
  OBVIOUS
<1>2. /\ IsFiniteSet(D) /\ Worth(s, key) = SumFunctionOnSet(h, D)
      /\ \A n \in D : h[n] = Adds(s[n], key) /\ h[n] \in Nat
  BY <1>1, RecordsAre
<1>3. /\ \A n \in D : e[n] \in C /\ h[n] = f[e[n]] /\ f[e[n]] \in Nat
      /\ \A m, n \in D : e[m] = e[n] => m = n
      /\ \A x \in C : \E n \in D : x = e[n]
  BY <1>1, <1>2 DEF AddsAt
<1>4. SumFunctionOnSet(h, D) = SumFunctionOnSet(f, C)
  BY <1>2, <1>3, SumMoved
<1> QED
  BY <1>2, <1>3, <1>4

\* The places of all records, and the records there.
PlacesOf(sources, all, r) ==
  /\ all = UNION {{<<i, n>> : n \in DOMAIN sources[i]} : i \in DOMAIN sources}
  /\ r = [x \in all |-> sources[x[1]][x[2]]]

\* Numbers found in several sequences: the sum over all places.
LEMMA SumOfPlaces ==
  ASSUME NEW sources \in Seq(Seq(Rec)), NEW key, NEW all, NEW r, PlacesOf(sources, all, r),
         NEW f, \A x \in all : f[x] = Adds(r[x], key)
  PROVE  IsFiniteSet(all) /\ SumFunctionOnSet(f, all) = WorthOfAll(sources, key)
<1>1. PICK D, c, g : /\ D = DOMAIN sources
                     /\ c = [i \in D |-> {<<i, n>> : n \in DOMAIN sources[i]}]
                     /\ g = [i \in D |-> Worth(sources[i], key)]
  OBVIOUS
<1>2. /\ IsFiniteSet(D) /\ \A i \in D : sources[i] \in Seq(Rec) /\ Worth(sources[i], key) \in Nat
      /\ WorthOfAll(sources, key) = SumFunctionOnSet(g, D)
  BY <1>1, SourcesAre
<1>3. all = UNION {c[i] : i \in D}
  BY <1>1 DEF PlacesOf
<1>4. ASSUME NEW i \in D
      PROVE  /\ IsFiniteSet(c[i])
             /\ \A x \in c[i] : f[x] \in Nat
             /\ SumFunctionOnSet(f, c[i]) = g[i]
  <2>1. PICK s, C, e : s = sources[i] /\ C = c[i] /\ e = [n \in DOMAIN s |-> <<i, n>>]
    OBVIOUS
  <2>2. s \in Seq(Rec) /\ IsFiniteSet(DOMAIN s) /\ g[i] = Worth(s, key)
    BY <1>1, <1>2, <2>1, RecordsAre
  <2>3. C = {<<i, n>> : n \in DOMAIN s}
    BY <1>1, <2>1
  <2>4. \A n \in DOMAIN s : e[n] = <<i, n>> /\ e[n] \in C /\ e[n] \in all
    BY <1>3, <2>1, <2>3
  <2>5. \A n \in DOMAIN s : r[e[n]] = s[n]
    BY <2>1, <2>4 DEF PlacesOf
  <2>6. AddsAt(s, key, C, e, f)
    <3>1. \A n \in DOMAIN s : e[n] \in C /\ f[e[n]] = Adds(s[n], key)
      BY <2>4, <2>5
    <3>2. \A m, n \in DOMAIN s : e[m] = e[n] => m = n
      BY <2>4
    <3>3. \A x \in C : \E n \in DOMAIN s : x = e[n]
      BY <2>3, <2>4
    <3> QED
      BY <3>1, <3>2, <3>3, Zenon DEF AddsAt
  <2>7. SumFunctionOnSet(f, C) = Worth(s, key) /\ \A x \in C : f[x] \in Nat
    BY <2>2, <2>6, OnePlace
  <2>8. IsFiniteSet(C)
    BY <2>2, <2>3, PlacesAre
  <2> QED
    BY <2>1, <2>2, <2>7, <2>8
<1>5. \A i, j \in D : i # j => c[i] \cap c[j] = {}
  BY <1>1
<1>6. /\ IsFiniteSet(UNION {c[i] : i \in D})
      /\ SumFunctionOnSet(f, UNION {c[i] : i \in D})
           = SumFunctionOnSet([i \in D |-> SumFunctionOnSet(f, c[i])], D)
  BY <1>2, <1>4, <1>5, SumOfParts
<1>7. PICK k : k = [i \in D |-> SumFunctionOnSet(f, c[i])]
  OBVIOUS
<1>8. \A i \in D : k[i] = g[i] /\ k[i] \in Nat
  <2> SUFFICES ASSUME NEW i \in D PROVE k[i] = g[i] /\ k[i] \in Nat
    OBVIOUS
  <2>1. k[i] = SumFunctionOnSet(f, c[i]) /\ g[i] = Worth(sources[i], key)
    BY <1>1, <1>7
  <2> QED
    BY <1>2, <1>4, <2>1
<1>9. SumFunctionOnSet(k, D) = SumFunctionOnSet(g, D)
  BY <1>2, <1>8, SumSame
<1> QED
  BY <1>2, <1>3, <1>6, <1>7, <1>9

\* TurnsTell, with its hypotheses in one.
InTurns(S, r, first, turn, n, s) ==
  /\ IsFiniteSet(S) /\ \A x \in S : r[x] \in Rec
  /\ TakesTurns(S, first, turn, n)
  /\ s = [k \in 1 .. n |-> r[turn[k]]]

\* What is read in turn is a sequence of all there is to read.
LEMMA TurnsRead ==
  ASSUME NEW S, NEW r, NEW first, NEW turn, NEW n, NEW s, InTurns(S, r, first, turn, n, s)
  PROVE  /\ s \in Seq(Rec)
         /\ KeysOf(s) = {r[x][1] : x \in S}
         /\ \A key : Worth(s, key) = SumFunctionOnSet([x \in S |-> Adds(r[x], key)], S)
<1>1. /\ IsFiniteSet(S) /\ \A x \in S : r[x] \in Rec
      /\ TakesTurns(S, first, turn, n)
      /\ s = [k \in 1 .. n |-> r[turn[k]]]
  BY Zenon DEF InTurns
<1> QED
  BY <1>1, TurnsTell

\* The records left have heads, and one of them is on top.
IsHead(left, x) == x \in left /\ \A y \in left : y[1] = x[1] => x[2] <= y[2]

\* Every source with something left has a head.
LEMMA HeadsAre ==
  ASSUME NEW T, \A x \in T : x[1] \in Nat /\ x[2] \in Nat, NEW z \in T
  PROVE  \E x \in T : IsHead(T, x) /\ x[1] = z[1] /\ x[2] <= z[2]
<1> DEFINE N == {x[2] : x \in {y \in T : y[1] = z[1]}}
<1>1. z[2] \in N /\ N \subseteq Nat
  OBVIOUS
<1>2. \A x \in T : x[1] = z[1] => x[2] \in N
  OBVIOUS
<1>3. \A m \in N : \E x \in T : x[1] = z[1] /\ x[2] = m
  OBVIOUS
<1> HIDE DEF N
<1>4. PICK m \in N : \A k \in N : m <= k
  BY <1>1, LeastNumber
<1>5. PICK x \in T : x[1] = z[1] /\ x[2] = m
  BY <1>3
<1>6. \A y \in T : y[1] = x[1] => x[2] <= y[2]
  BY <1>2, <1>4, <1>5
<1> QED
  BY <1>1, <1>4, <1>5, <1>6 DEF IsHead

\* The merged sequence is in order, and has the keys and the worth of all.
LEMMA MergedIs ==
  ASSUME NEW sources \in Seq(Seq(Rec)), \A i \in DOMAIN sources : Ordered(sources[i])
  PROVE  /\ Merged(sources) \in Seq(Rec) /\ Ordered(Merged(sources))
         /\ KeysOf(Merged(sources)) = KeysOfAll(sources)
         /\ \A key : Worth(Merged(sources), key) = WorthOfAll(sources, key)
<1> DEFINE places == UNION {{<<i, n>> : n \in DOMAIN sources[i]} : i \in DOMAIN sources}
           Heads(left) == {x \in left : \A y \in left : y[1] = x[1] => x[2] <= y[2]}
           Entry(x) == <<sources[x[1]][x[2]][1], x[1]>>
           first == [left \in SUBSET places |->
                CHOOSE x \in Heads(left) : \A y \in Heads(left) : Precedes(Entry(x), Entry(y))]
           takes == InTurn(places, first)
<1>1. Merged(sources) = [n \in 1 .. Cardinality(places) |-> sources[takes[n][1]][takes[n][2]]]
  BY DEF Merged
<1>2. PICK all, r : all = places /\ r = [x \in all |-> sources[x[1]][x[2]]]
  OBVIOUS
<1>3. PlacesOf(sources, all, r)
  BY <1>2 DEF PlacesOf
<1>4. \A x \in all : /\ x = <<x[1], x[2]>> /\ x[1] \in DOMAIN sources /\ x[2] \in DOMAIN sources[x[1]]
                     /\ r[x] = sources[x[1]][x[2]]
  BY <1>2
<1>5. ASSUME NEW T \in SUBSET all
      PROVE  first[T] = CHOOSE x \in Heads(T) : \A y \in Heads(T) : Precedes(Entry(x), Entry(y))
  BY <1>2
<1>6. ASSUME NEW T, NEW x
      PROVE  x \in Heads(T) <=> IsHead(T, x)
  BY DEF IsHead
<1> HIDE DEF places, first, Heads
<1>7. PICK top, turn, N : top = first /\ turn = takes /\ N = Cardinality(all)
  OBVIOUS
<1> HIDE DEF takes
<1>s. /\ \A i \in DOMAIN sources : i \in Nat /\ sources[i] \in Seq(Rec)
      /\ \A x \in all : /\ x[1] \in Nat /\ x[2] \in Nat /\ r[x] \in Rec
                        /\ sources[x[1]] \in Seq(Rec) /\ r[x][1] \in Nat
  <2>1. \A i \in DOMAIN sources : i \in Nat /\ sources[i] \in Seq(Rec)
    BY SourcesAre
  <2> SUFFICES ASSUME NEW x \in all
               PROVE  /\ x[1] \in Nat /\ x[2] \in Nat /\ r[x] \in Rec
                      /\ sources[x[1]] \in Seq(Rec) /\ r[x][1] \in Nat
    BY <2>1
  <2>2. PICK s : s = sources[x[1]]
    OBVIOUS
  <2>3. s \in Seq(Rec) /\ x[2] \in DOMAIN s
    BY <1>4, <2>1, <2>2
  <2>4. x[2] \in Nat /\ s[x[2]] \in Rec /\ s[x[2]][1] \in Nat
    BY <2>3, RecordsAre
  <2> QED
    BY <1>4, <2>1, <2>2, <2>3, <2>4
<1>8. ASSUME NEW T \in SUBSET all, T # {}
      PROVE  /\ top[T] \in T
             /\ \A y \in T : IsHead(T, y) => Precedes(Entry(top[T]), Entry(y))
  <2>1. PICK H : H = Heads(T)
    OBVIOUS
  <2>2. \A x : x \in H <=> IsHead(T, x)
    BY <1>6, <2>1
  <2>3. H # {} /\ H \subseteq T
    <3>1. PICK z \in T : TRUE
      BY <1>8
    <3>2. \A x \in T : x[1] \in Nat /\ x[2] \in Nat
      BY <1>s
    <3>3. \E x \in T : IsHead(T, x)
      BY <3>2, HeadsAre
    <3> QED
      BY <2>2, <3>3 DEF IsHead
  <2>4. PICK f : f = [x \in H |-> Entry(x)]
    OBVIOUS
  <2>5. \A x \in H : f[x] = Entry(x) /\ f[x] \in Nat \X Nat
    <3> SUFFICES ASSUME NEW x \in H PROVE f[x] = Entry(x) /\ f[x] \in Nat \X Nat
      OBVIOUS
    <3>1. x \in all /\ f[x] = Entry(x)
      BY <2>3, <2>4
    <3>2. Entry(x) = <<r[x][1], x[1]>>
      BY <1>4, <3>1
    <3> QED
      BY <1>s, <3>1, <3>2
  <2>6. \E x \in H : \A y \in H : Precedes(f[x], f[y])
    BY <2>3, <2>5, FirstPair
  <2>7. \E x \in H : \A y \in H : Precedes(Entry(x), Entry(y))
    BY <2>5, <2>6
  <2>8. top[T] = CHOOSE x \in H : \A y \in H : Precedes(Entry(x), Entry(y))
    BY <1>5, <1>7, <2>1
  <2>9. top[T] \in H /\ \A y \in H : Precedes(Entry(top[T]), Entry(y))
    BY <2>7, <2>8
  <2> QED
    BY <2>2, <2>3, <2>9
<1>9. ASSUME NEW key, NEW f, \A x \in all : f[x] = Adds(r[x], key)
      PROVE  IsFiniteSet(all) /\ SumFunctionOnSet(f, all) = WorthOfAll(sources, key)
  BY <1>3, <1>9, SumOfPlaces
<1>10. IsFiniteSet(all)
  <2>1. PICK f : f = [x \in all |-> Adds(r[x], 0)]
    OBVIOUS
  <2>2. \A x \in all : f[x] = Adds(r[x], 0)
    BY <2>1
  <2> QED
    BY <1>9, <2>2
<1>11. TakesTurns(all, top, turn, N)
  <2>1. turn = InTurn(all, top)
    BY <1>2, <1>7 DEF takes
  <2>2. TakesTurns(all, top, InTurn(all, top), Cardinality(all))
    BY <1>8, <1>10, InTurnTakes
  <2> QED
    BY <1>7, <2>1, <2>2
<1>12. PICK s : s = Merged(sources)
  OBVIOUS
<1>13. N \in Nat /\ \A k \in 1 .. N : turn[k] \in all
  BY <1>11 DEF TakesTurns
<1>14. s = [k \in 1 .. N |-> r[turn[k]]]
  <2>1. s = [k \in 1 .. N |-> sources[turn[k][1]][turn[k][2]]]
    BY <1>1, <1>2, <1>7, <1>12
  <2> QED
    BY <1>4, <1>13, <2>1
<1>15. /\ s \in Seq(Rec)
       /\ KeysOf(s) = {r[x][1] : x \in all}
       /\ \A key : Worth(s, key) = SumFunctionOnSet([x \in all |-> Adds(r[x], key)], all)
  <2>1. \A x \in all : r[x] \in Rec
    BY <1>s
  <2>2. InTurns(all, r, top, turn, N, s)
    BY <1>10, <1>11, <1>14, <2>1 DEF InTurns
  <2> QED
    BY <2>2, TurnsRead
<1>16. ASSUME NEW key
       PROVE  Worth(s, key) = WorthOfAll(sources, key)
  <2>1. PICK f : f = [x \in all |-> Adds(r[x], key)]
    OBVIOUS
  <2>2. \A x \in all : f[x] = Adds(r[x], key)
    BY <2>1
  <2>3. SumFunctionOnSet(f, all) = WorthOfAll(sources, key)
    BY <1>9, <2>2
  <2> QED
    BY <1>15, <2>1, <2>3
<1>17. KeysOf(s) = KeysOfAll(sources)
  <2>1. ASSUME NEW x \in all
        PROVE  r[x][1] \in KeysOfAll(sources)
    BY <1>4 DEF KeysOfAll, KeysOf
  <2>2. ASSUME NEW i \in DOMAIN sources, NEW n \in DOMAIN sources[i]
        PROVE  sources[i][n][1] \in {r[x][1] : x \in all}
    <3>1. <<i, n>> \in all
      BY <1>2 DEF places
    <3> QED
      BY <1>4, <3>1
  <2>3. KeysOfAll(sources) \subseteq {r[x][1] : x \in all}
    <3>1. \A i \in DOMAIN sources : KeysOf(sources[i]) \subseteq {r[x][1] : x \in all}
      BY <2>2 DEF KeysOf
    <3> QED
      BY <3>1, Zenon DEF KeysOfAll
  <2>4. {r[x][1] : x \in all} \subseteq KeysOfAll(sources)
    BY <2>1
  <2> QED
    BY <1>15, <2>3, <2>4
<1>18. Ordered(s)
  <2>1. DOMAIN s = 1 .. N
    BY <1>14
  <2>2. ASSUME NEW j \in 1 .. N, NEW k \in 1 .. N, j < k
        PROVE  s[j][1] <= s[k][1]
    <3>1. PICK T, z : T = {turn[i] : i \in j .. N} /\ z = turn[k]
      OBVIOUS
    <3>2. T \in SUBSET all /\ z \in T
      BY <1>13, <2>2, <3>1
    <3>3. turn[j] = top[T]
      BY <1>11, <3>1 DEF TakesTurns
    <3>4. top[T] \in T /\ \A y \in T : IsHead(T, y) => Precedes(Entry(top[T]), Entry(y))
      BY <1>8, <3>2
    <3>5. \A x \in T : x \in all /\ x[1] \in Nat /\ x[2] \in Nat
      BY <1>s, <3>2
    <3>6. PICK h \in T : IsHead(T, h) /\ h[1] = z[1] /\ h[2] <= z[2]
      BY <3>2, <3>5, HeadsAre
    <3>7. \A x \in T : Entry(x) = <<r[x][1], x[1]>>
      BY <1>4, <3>5
    <3>8. r[top[T]][1] <= r[h][1]
      <4>1. PICK x, y : x = Entry(top[T]) /\ y = Entry(h)
        OBVIOUS
      <4>2. Precedes(x, y) /\ x[1] = r[top[T]][1] /\ y[1] = r[h][1]
        BY <3>4, <3>6, <3>7, <4>1
      <4>3. r[top[T]][1] \in Nat /\ r[h][1] \in Nat
        BY <1>s, <3>4, <3>5
      <4> QED
        BY <4>2, <4>3 DEF Precedes
    <3>9. r[h][1] <= r[z][1]
      <4>1. PICK q : q = sources[z[1]]
        OBVIOUS
      <4>2. /\ h[2] \in DOMAIN q /\ z[2] \in DOMAIN q /\ r[h] = q[h[2]] /\ r[z] = q[z[2]]
            /\ Ordered(q)
        BY <1>4, <3>2, <3>5, <3>6, <4>1
      <4>3. r[z][1] \in Nat
        BY <1>s, <3>2
      <4> QED
        BY <3>2, <3>5, <3>6, <4>2, <4>3 DEF Ordered
    <3>10. s[j] = r[top[T]] /\ s[k] = r[z]
      BY <1>14, <3>1, <3>3
    <3>11. r[top[T]][1] \in Nat /\ r[h][1] \in Nat /\ r[z][1] \in Nat
      BY <1>s, <3>2, <3>4, <3>5
    <3> QED
      BY <3>8, <3>9, <3>10, <3>11
  <2> QED
    BY <2>1, <2>2 DEF Ordered
<1> QED
  BY <1>12, <1>15, <1>16, <1>17, <1>18

--------------------------------------------------------------------------------

(***************************************************************************)
(* What is told of totals.                                                 *)
(***************************************************************************)
\* Merged sequences of a partition tell what they told, together.
AllTell(sources, p, keys, worth) ==
  \A i \in DOMAIN sources : Tells(sources[i], p, keys[i], worth[i])

\* A merge of sequences that tell tells the sums.
LEMMA MergedTells ==
  ASSUME NEW p, NEW keys, NEW worth, NEW sources, NEW n \in Nat, DOMAIN sources = 1 .. n,
         sources = [i \in 1 .. n |-> sources[i]], AllTell(sources, p, keys, worth),
         NEW every, every = UNION {keys[i] : i \in 1 .. n},
         NEW sum, \A key \in Nat : sum[key] = SumFunctionOnSet([i \in 1 .. n |-> worth[i][key]], 1 .. n)
  PROVE  Tells(Merged(sources), p, every, sum)
<1>1. \A i \in 1 .. n : /\ sources[i] \in Seq(Rec) /\ Ordered(sources[i])
                        /\ KeysOf(sources[i]) = {key \in keys[i] : Partition(key) = p}
                        /\ \A key \in Nat : Partition(key) = p => Worth(sources[i], key) = worth[i][key]
  BY DEF AllTell, Tells
<1>2. sources \in Seq(Seq(Rec)) /\ \A i \in DOMAIN sources : Ordered(sources[i])
  <2>1. PICK S : S = Seq(Rec)
    OBVIOUS
  <2>2. \A i \in 1 .. n : sources[i] \in S
    BY <1>1, <2>1
  <2>3. sources \in [1 .. n -> S]
    BY <2>2, Zenon
  <2>4. sources \in Seq(S)
    BY <2>3
  <2> QED
    BY <1>1, <2>1, <2>4
<1>3. PICK s : s = Merged(sources)
  OBVIOUS
<1>4. /\ s \in Seq(Rec) /\ Ordered(s) /\ KeysOf(s) = KeysOfAll(sources)
      /\ \A key : Worth(s, key) = WorthOfAll(sources, key)
  BY <1>2, <1>3, MergedIs
<1>5. KeysOf(s) = {key \in every : Partition(key) = p}
  <2>1. KeysOf(s) = UNION {{key \in keys[i] : Partition(key) = p} : i \in 1 .. n}
    <3>1. KeysOf(s) = UNION {KeysOf(sources[i]) : i \in 1 .. n}
      BY <1>4, Zenon DEF KeysOfAll
    <3>2. \A i \in 1 .. n : KeysOf(sources[i]) = {key \in keys[i] : Partition(key) = p}
      BY <1>1, Zenon
    <3> QED
      BY <3>1, <3>2, Zenon
  <2> QED
    BY <2>1
<1>6. ASSUME NEW key \in Nat, Partition(key) = p
      PROVE  Worth(s, key) = sum[key]
  <2>1. PICK f, g, D : /\ D = 1 .. n /\ f = [i \in D |-> Worth(sources[i], key)]
                       /\ g = [i \in D |-> worth[i][key]]
    OBVIOUS
  <2>2. /\ IsFiniteSet(D) /\ WorthOfAll(sources, key) = SumFunctionOnSet(f, D)
        /\ \A i \in D : Worth(sources[i], key) \in Nat
    BY <1>2, <2>1, SourcesAre
  <2>3. \A i \in D : f[i] = g[i] /\ f[i] \in Nat
    BY <1>1, <1>6, <2>1, <2>2
  <2>4. SumFunctionOnSet(f, D) = SumFunctionOnSet(g, D)
    BY <2>2, <2>3, SumSame
  <2> QED
    BY <1>4, <2>1, <2>2, <2>4
<1> QED
  BY <1>3, <1>4, <1>5, <1>6 DEF Tells

\* Where each key is once, a record is what its key is worth.
LEMMA OnceIsAll ==
  ASSUME NEW s \in Seq(Rec), Strict(s), NEW i \in DOMAIN s
  PROVE  s[i] = <<s[i][1], Worth(s, s[i][1])>>
<1>1. PICK key, D, f : key = s[i][1] /\ D = DOMAIN s /\ f = Parts(s, key)
  OBVIOUS
<1>2. /\ D \subseteq Nat /\ IsFiniteSet(D) /\ s[i] \in Rec
      /\ \A j \in D : s[j][1] \in Nat /\ f[j] = Adds(s[j], key) /\ f[j] \in Nat
      /\ Worth(s, key) = SumFunctionOnSet(f, D)
  BY <1>1, RecordsAre
<1>3. ASSUME NEW j \in D \ {i}
      PROVE  f[j] = 0
  <2>1. j < i \/ i < j
    BY <1>1, <1>2, <1>3
  <2>2. s[j][1] # key
    BY <1>1, <1>2, <1>3, <2>1 DEF Strict
  <2> QED
    BY <1>2, <2>2 DEF Adds
<1>4. IsFiniteSet(D \ {i}) /\ i \in D
  BY <1>1, <1>2, FS_Subset
<1>5. SumFunctionOnSet(f, D \ {i}) = 0
  BY <1>3, <1>4, SumOfZeroes
<1>6. SumFunctionOnSet(f, D) = f[i] + SumFunctionOnSet(f, D \ {i})
  BY <1>2, <1>4, SumTakesOut
<1>7. f[i] = s[i][2] /\ f[i] \in Nat
  BY <1>1, <1>2, <1>4 DEF Adds
<1>8. Worth(s, key) = s[i][2]
  BY <1>2, <1>5, <1>6, <1>7
<1> QED
  BY <1>1, <1>2, <1>8 DEF Rec

\* What tells the totals holds them.
LEMMA TellsTotals ==
  ASSUME NEW p, NEW tasks, NEW keys, keys = UNION {KeysOfAll(Lines[t]) : t \in tasks},
         NEW worth, \A key \in Nat : worth[key] = Total(key, tasks),
         NEW s, Tells(s, p, keys, worth)
  PROVE  HoldsTotals(s, tasks, p)
<1>1. PICK g : g = Grouped(s)
  OBVIOUS
<1>2. Tells(g, p, keys, worth) /\ Strict(g)
  BY <1>1, GroupedTells
<1>3. /\ g \in Seq(Rec) /\ KeysOf(g) = Keys(tasks, p)
      /\ \A key \in Nat : Partition(key) = p => Worth(g, key) = Total(key, tasks)
  BY <1>2 DEF Tells, Keys
<1>4. ASSUME NEW i \in DOMAIN g
      PROVE  /\ g[i][1] \in Keys(tasks, p)
             /\ g[i] = <<g[i][1], Total(g[i][1], tasks)>>
  <2>1. g[i][1] \in Nat
    BY <1>3, RecordsAre
  <2>2. g[i][1] \in Keys(tasks, p)
    BY <1>3 DEF KeysOf
  <2>3. Partition(g[i][1]) = p
    BY <2>2 DEF Keys
  <2>4. g[i] = <<g[i][1], Worth(g, g[i][1])>>
    BY <1>2, <1>3, OnceIsAll
  <2> QED
    BY <1>3, <2>1, <2>2, <2>3, <2>4
<1>5. \A key \in Keys(tasks, p) : \E i \in DOMAIN g : key = g[i][1]
  BY <1>3 DEF KeysOf
<1>6. PICK T, D : T = Totals(tasks, p) /\ D = DOMAIN g
  OBVIOUS
<1>7. \A i \in D : g[i] \in T
  BY <1>4, <1>6, Zenon DEF Totals
<1>8. \A x \in T : \E i \in D : g[i] = x
  <2> SUFFICES ASSUME NEW x \in T PROVE \E i \in D : g[i] = x
    OBVIOUS
  <2>1. PICK key \in Keys(tasks, p) : x = <<key, Total(key, tasks)>>
    BY <1>6 DEF Totals
  <2>2. PICK i \in D : key = g[i][1]
    BY <1>5, <1>6
  <2> QED
    BY <1>4, <1>6, <2>1, <2>2
<1>9. ToSet(g) = T
  BY <1>6, <1>7, <1>8 DEF ToSet
<1>10. Len(g) \in Nat /\ D = 1 .. Len(g) /\ g = [i \in D |-> g[i]] /\ \A i \in D : g[i][1] \in Nat
  BY <1>3, <1>6, RecordsAre
<1>11. \A i, j \in D : g[i] = g[j] => i = j
  <2>1. \A i, j \in D : i < j => g[i][1] < g[j][1]
    BY <1>2, <1>6 DEF Strict
  <2>2. SUFFICES ASSUME NEW i \in D, NEW j \in D, g[i] = g[j] PROVE i = j
    OBVIOUS
  <2>3. ~ (g[i][1] < g[j][1]) /\ ~ (g[j][1] < g[i][1])
    <3>1. PICK x, y : x = g[i][1] /\ y = g[j][1]
      OBVIOUS
    <3>2. x \in Nat /\ x = y
      BY <1>10, <2>2, <3>1, Zenon
    <3> QED
      BY <3>1, <3>2
  <2>4. i \in Nat /\ j \in Nat /\ ~ (i < j) /\ ~ (j < i)
    <3>1. i \in 1 .. Len(g) /\ j \in 1 .. Len(g)
      BY <1>10, Zenon
    <3>2. ~ (i < j) /\ ~ (j < i)
      BY <2>1, <2>3, Zenon
    <3> QED
      BY <3>1, <3>2
  <2> QED
    BY <2>4
<1>12. g \in Bijection(1 .. Len(g), T)
  <2>1. g \in [D -> T]
    BY <1>7, <1>10
  <2> QED
    BY <1>8, <1>10, <1>11, <2>1, Zenon DEF Bijection, Injection, Surjection, IsInjective
<1>13. Cardinality(T) = Len(g)
  <2>1. ExistsBijection(1 .. Len(g), T)
    BY <1>12 DEF ExistsBijection
  <2> QED
    BY <1>10, <2>1, FS_CountingElements
<1> QED
  BY <1>1, <1>6, <1>9, <1>13 DEF HoldsTotals

--------------------------------------------------------------------------------

(***************************************************************************)
(* One pass over the lines of a map task.                                  *)
(***************************************************************************)
\* No sequences.
LEMMA NoSources ==
  <<>> \in Seq(Seq(Rec)) /\ (\A key : WorthOfAll(<<>>, key) = 0) /\ KeysOfAll(<<>>) = {}
<1>1. <<>> \in Seq(Seq(Rec)) /\ DOMAIN <<>> = {}
  OBVIOUS
<1>2. KeysOfAll(<<>>) = {}
  BY <1>1 DEF KeysOfAll
<1>3. ASSUME NEW key
      PROVE  WorthOfAll(<<>>, key) = 0
  <2>1. PICK f : f = [i \in DOMAIN <<>> |-> Worth(<<>>[i], key)]
    OBVIOUS
  <2>2. WorthOfAll(<<>>, key) = SumFunctionOnSet(f, DOMAIN <<>>)
    BY <1>1, <2>1, SourcesAre
  <2> QED
    BY <1>1, <2>2, SumOfNone
<1> QED
  BY <1>1, <1>2, <1>3

\* One sequence more.
LEMMA OneMoreSource ==
  ASSUME NEW sources \in Seq(Seq(Rec)), NEW s \in Seq(Rec)
  PROVE  /\ Append(sources, s) \in Seq(Seq(Rec))
         /\ \A key : WorthOfAll(Append(sources, s), key) = WorthOfAll(sources, key) + Worth(s, key)
         /\ KeysOfAll(Append(sources, s)) = KeysOfAll(sources) \cup KeysOf(s)
<1>1. PICK more, n : more = Append(sources, s) /\ n = Len(sources)
  OBVIOUS
<1>2. /\ more \in Seq(Seq(Rec)) /\ n \in Nat /\ Len(more) = n + 1
      /\ \A i \in 1 .. n : more[i] = sources[i]
      /\ more[n + 1] = s
      /\ DOMAIN sources = 1 .. n /\ DOMAIN more = 1 .. n + 1
  BY <1>1, AppendProperties, LenProperties
<1>3. PICK D : D = DOMAIN sources
  OBVIOUS
<1>4. DOMAIN more = D \cup {n + 1} /\ n + 1 \notin D /\ \A i \in D : more[i] = sources[i]
  BY <1>2, <1>3
<1>5. ASSUME NEW key
      PROVE  WorthOfAll(more, key) = WorthOfAll(sources, key) + Worth(s, key)
  <2>1. PICK f, g : /\ f = [i \in DOMAIN more |-> Worth(more[i], key)]
                    /\ g = [i \in D |-> Worth(sources[i], key)]
    OBVIOUS
  <2>2. /\ IsFiniteSet(D) /\ \A i \in D : Worth(sources[i], key) \in Nat
        /\ WorthOfAll(sources, key) = SumFunctionOnSet(g, D) /\ WorthOfAll(sources, key) \in Nat
    BY <1>3, <2>1, SourcesAre
  <2>3. /\ \A i \in DOMAIN more : Worth(more[i], key) \in Nat
        /\ WorthOfAll(more, key) = SumFunctionOnSet(f, DOMAIN more)
    BY <1>2, <2>1, SourcesAre
  <2>4. \A i \in D \cup {n + 1} : f[i] = Worth(more[i], key) /\ f[i] \in Nat
    BY <1>4, <2>1, <2>3
  <2>5. SumFunctionOnSet(f, D \cup {n + 1}) = f[n + 1] + SumFunctionOnSet(f, D)
    BY <1>4, <2>2, <2>4, SumAdds
  <2>6. SumFunctionOnSet(g, D) = SumFunctionOnSet(f, D)
    <3>1. \A i \in D : g[i] = f[i] /\ g[i] \in Nat
      BY <1>4, <2>1, <2>2, <2>4
    <3> QED
      BY <2>2, <3>1, SumSame
  <2>7. f[n + 1] = Worth(s, key) /\ Worth(s, key) \in Nat
    BY <1>2, <2>4
  <2>8. WorthOfAll(more, key) = Worth(s, key) + WorthOfAll(sources, key)
    BY <1>4, <2>2, <2>3, <2>5, <2>6, <2>7, Zenon
  <2> QED
    BY <2>2, <2>7, <2>8
<1>6. KeysOfAll(more) = KeysOfAll(sources) \cup KeysOf(s)
  <2>1. KeysOfAll(sources) = UNION {KeysOf(sources[i]) : i \in D}
    BY <1>3 DEF KeysOfAll
  <2>2. KeysOfAll(more) = UNION {KeysOf(more[i]) : i \in D \cup {n + 1}}
    BY <1>4 DEF KeysOfAll
  <2>3. \A i \in D : KeysOf(more[i]) = KeysOf(sources[i])
    BY <1>4
  <2>4. KeysOf(more[n + 1]) = KeysOf(s)
    BY <1>2
  <2>5. \A key : key \in KeysOfAll(more) <=> \E i \in D \cup {n + 1} : key \in KeysOf(more[i])
    BY <2>2
  <2>6. \A key : key \in KeysOfAll(sources) <=> \E i \in D : key \in KeysOf(sources[i])
    BY <2>1
  <2>7. \A key : key \in KeysOfAll(more) <=> key \in KeysOfAll(sources) \cup KeysOf(s)
    BY <2>3, <2>4, <2>5, <2>6
  <2> QED
    BY <2>7
<1> QED
  BY <1>1, <1>2, <1>5, <1>6

\* The first lines.
FirstLines(lines, l) == [i \in 1 .. l |-> lines[i]]

\* Reading on reads one more line, and in the end all.
LEMMA LinesRead ==
  ASSUME NEW lines \in Seq(Seq(Rec))
  PROVE  /\ FirstLines(lines, 0) = <<>>
         /\ FirstLines(lines, Len(lines)) = lines
         /\ \A l \in 0 .. Len(lines) - 1 :
              FirstLines(lines, l + 1) = Append(FirstLines(lines, l), lines[l + 1])
         /\ \A l \in 0 .. Len(lines) : FirstLines(lines, l) \in Seq(Seq(Rec))
<1>1. PICK S : S = Seq(Rec)
  OBVIOUS
<1>2. lines \in Seq(S)
  BY <1>1
<1>3. /\ FirstLines(lines, 0) = <<>>
      /\ FirstLines(lines, Len(lines)) = lines
  BY <1>2 DEF FirstLines
<1>4. ASSUME NEW l \in 0 .. Len(lines)
      PROVE  FirstLines(lines, l) \in Seq(S)
  BY <1>2, <1>4 DEF FirstLines
<1>5. ASSUME NEW l \in 0 .. Len(lines) - 1
      PROVE  FirstLines(lines, l + 1) = Append(FirstLines(lines, l), lines[l + 1])
  BY <1>2, <1>5 DEF FirstLines
<1> QED
  BY <1>1, <1>3, <1>4, <1>5

\* One more line is read, and what is buffered becomes a run or not.
ReadOn(pass, line, size) ==
  LET buffer == pass.buffer \o line IN
    IF Len(buffer) >= size
    THEN [buffer |-> <<>>, runs |-> Append(pass.runs, buffer)]
    ELSE [buffer |-> buffer, runs |-> pass.runs]

PassOver(lines, size, pass, n) ==
  pass = [l \in 0 .. n |-> IF l = 0 THEN [buffer |-> <<>>, runs |-> <<>>]
                           ELSE ReadOn(pass[l - 1], lines[l], size)]

\* There is such a pass.
LEMMA PassExists ==
  ASSUME NEW lines, NEW size
  PROVE  \A n \in Nat : \E pass : PassOver(lines, size, pass, n)
<1> DEFINE Good == {n \in Nat : \E pass : PassOver(lines, size, pass, n)}
           none == [buffer |-> <<>>, runs |-> <<>>]
<1>1. 0 \in Good
  <2> DEFINE pass == [l \in 0 .. 0 |-> none]
  <2>1. PassOver(lines, size, pass, 0)
    BY DEF PassOver
  <2> QED
    BY <2>1
<1>n. PICK start : start = none
  OBVIOUS
<1>2. ASSUME NEW n \in Nat, n \in Good PROVE n + 1 \in Good
  <2>1. PICK pass : PassOver(lines, size, pass, n)
    BY <1>2
  <2> DEFINE more == [l \in 0 .. n + 1 |-> IF l <= n THEN pass[l] ELSE ReadOn(pass[n], lines[n + 1], size)]
  <2>2. \A l \in 0 .. n : pass[l] = IF l = 0 THEN start ELSE ReadOn(pass[l - 1], lines[l], size)
    BY <1>n, <2>1 DEF PassOver
  <2>3. /\ more = [l \in 0 .. n + 1 |-> more[l]]
        /\ \A l \in 0 .. n : more[l] = pass[l]
        /\ more[n + 1] = ReadOn(pass[n], lines[n + 1], size)
    BY SMT
  <2> HIDE DEF more, none
  <2>4. ASSUME NEW l \in 0 .. n + 1
        PROVE  more[l] = IF l = 0 THEN start ELSE ReadOn(more[l - 1], lines[l], size)
    <3>1. CASE l \in 0 .. n
      <4>1. l = 0 \/ l - 1 \in 0 .. n
        BY <3>1
      <4> QED
        BY <2>2, <2>3, <3>1, <4>1
    <3>2. CASE l = n + 1
      <4>1. l # 0 /\ l - 1 = n /\ n \in 0 .. n
        BY <3>2
      <4> QED
        BY <2>3, <3>2, <4>1
    <3> QED
      BY <3>1, <3>2
  <2>5. PassOver(lines, size, more, n + 1)
    BY <1>n, <2>3, <2>4 DEF PassOver, none
  <2> QED
    BY <2>5
<1> HIDE DEF Good
<1>3. Nat \subseteq Good
  BY <1>1, <1>2, Induct
<1> QED
  BY <1>3 DEF Good

\* What was read is in the runs and in the buffer.
Accounts(s, lines) ==
  /\ s.buffer \in Seq(Rec) /\ s.runs \in Seq(Seq(Rec))
  /\ \A key : WorthOfAll(s.runs, key) + Worth(s.buffer, key) = WorthOfAll(lines, key)
  /\ KeysOfAll(s.runs) \cup KeysOf(s.buffer) = KeysOfAll(lines)

\* ReadOn forgets nothing.
LEMMA ReadOnAccounts ==
  ASSUME NEW s, NEW lines \in Seq(Seq(Rec)), Accounts(s, lines), NEW line \in Seq(Rec), NEW size
  PROVE  Accounts(ReadOn(s, line, size), Append(lines, line))
<1>1. PICK b, r, buffer, n : /\ b = s.buffer /\ r = s.runs /\ buffer = b \o line
                             /\ n = ReadOn(s, line, size)
  OBVIOUS
<1>2. /\ b \in Seq(Rec) /\ r \in Seq(Seq(Rec))
      /\ \A key : WorthOfAll(r, key) + Worth(b, key) = WorthOfAll(lines, key)
      /\ KeysOfAll(r) \cup KeysOf(b) = KeysOfAll(lines)
  BY <1>1 DEF Accounts
<1>3. /\ buffer \in Seq(Rec)
      /\ \A key : Worth(buffer, key) = Worth(b, key) + Worth(line, key)
      /\ KeysOf(buffer) = KeysOf(b) \cup KeysOf(line)
  BY <1>1, <1>2, OneAfterAnother
<1>4. /\ \A key : WorthOfAll(Append(lines, line), key) = WorthOfAll(lines, key) + Worth(line, key)
      /\ KeysOfAll(Append(lines, line)) = KeysOfAll(lines) \cup KeysOf(line)
  BY OneMoreSource
<1>5. \A key : Worth(b, key) \in Nat /\ Worth(line, key) \in Nat /\ WorthOfAll(r, key) \in Nat
  BY <1>2, RecordsAre, SourcesAre
<1>6. \A key : WorthOfAll(r, key) + Worth(buffer, key) = WorthOfAll(Append(lines, line), key)
  <2> SUFFICES ASSUME NEW key
               PROVE  WorthOfAll(r, key) + Worth(buffer, key) = WorthOfAll(Append(lines, line), key)
    OBVIOUS
  <2>1. PICK x, y, z : x = WorthOfAll(r, key) /\ y = Worth(b, key) /\ z = Worth(line, key)
    OBVIOUS
  <2>2. x \in Nat /\ y \in Nat /\ z \in Nat
    BY <1>5, <2>1
  <2>3. Worth(buffer, key) = y + z /\ WorthOfAll(Append(lines, line), key) = (x + y) + z
    BY <1>2, <1>3, <1>4, <2>1
  <2> QED
    BY <2>1, <2>2, <2>3
<1>7. KeysOfAll(r) \cup KeysOf(buffer) = KeysOfAll(Append(lines, line))
  BY <1>2, <1>3, <1>4
<1>8. CASE Len(buffer) >= size
  <2>0. buffer = s.buffer \o line
    BY <1>1
  <2>1. n.buffer = <<>> /\ n.runs = Append(r, buffer)
    BY <1>1, <1>8, <2>0 DEF ReadOn
  <2>2. /\ Append(r, buffer) \in Seq(Seq(Rec))
        /\ \A key : WorthOfAll(Append(r, buffer), key) = WorthOfAll(r, key) + Worth(buffer, key)
        /\ KeysOfAll(Append(r, buffer)) = KeysOfAll(r) \cup KeysOf(buffer)
    BY <1>2, <1>3, OneMoreSource
  <2>3. ASSUME NEW key
        PROVE  WorthOfAll(n.runs, key) + Worth(n.buffer, key) = WorthOfAll(Append(lines, line), key)
    <3>1. Worth(n.buffer, key) = 0
      BY <2>1, NoRecords
    <3>2. WorthOfAll(n.runs, key) = WorthOfAll(Append(lines, line), key)
      BY <1>6, <2>1, <2>2
    <3>3. WorthOfAll(n.runs, key) \in Nat
      BY <2>1, <2>2, SourcesAre
    <3> QED
      BY <3>1, <3>2, <3>3
  <2>4. KeysOfAll(n.runs) \cup KeysOf(n.buffer) = KeysOfAll(Append(lines, line))
    BY <1>7, <2>1, <2>2, NoRecords
  <2>5. n.buffer \in Seq(Rec) /\ n.runs \in Seq(Seq(Rec))
    BY <2>1, <2>2, NoRecords
  <2>6. Accounts(n, Append(lines, line))
    BY <2>3, <2>4, <2>5 DEF Accounts
  <2> QED
    BY <1>1, <2>6
<1>9. CASE ~ Len(buffer) >= size
  <2>0. buffer = s.buffer \o line
    BY <1>1
  <2>1. n.buffer = buffer /\ n.runs = r
    BY <1>1, <1>9, <2>0 DEF ReadOn
  <2>2. Accounts(n, Append(lines, line))
    BY <1>2, <1>3, <1>6, <1>7, <2>1 DEF Accounts
  <2> QED
    BY <1>1, <2>2
<1> QED
  BY <1>8, <1>9

\* After each line of a pass.
LEMMA PassSteps ==
  ASSUME NEW lines, NEW n \in Nat, NEW size, NEW pass, PassOver(lines, size, pass, n)
  PROVE  /\ pass[0].buffer = <<>> /\ pass[0].runs = <<>>
         /\ \A l \in 0 .. n - 1 : pass[l + 1] = ReadOn(pass[l], lines[l + 1], size)
<1>1. PICK none : none = [buffer |-> <<>>, runs |-> <<>>]
  OBVIOUS
<1>2. \A l \in 0 .. n : pass[l] = IF l = 0 THEN none ELSE ReadOn(pass[l - 1], lines[l], size)
  BY <1>1, Zenon DEF PassOver
<1>3. pass[0] = none
  BY <1>2
<1>4. ASSUME NEW l \in 0 .. n - 1
      PROVE  pass[l + 1] = ReadOn(pass[l], lines[l + 1], size)
  <2>1. l + 1 \in 0 .. n /\ l + 1 # 0 /\ (l + 1) - 1 = l
    BY <1>4
  <2>2. pass[l + 1] = ReadOn(pass[(l + 1) - 1], lines[l + 1], size)
    BY <1>2, <2>1, Zenon
  <2> QED
    BY <2>1, <2>2
<1> QED
  BY <1>1, <1>3, <1>4

\* At every line the pass accounts for all it has read.
LEMMA PassAccounts ==
  ASSUME NEW lines \in Seq(Seq(Rec)), NEW size, NEW pass, PassOver(lines, size, pass, Len(lines))
  PROVE  \A l \in 0 .. Len(lines) : Accounts(pass[l], FirstLines(lines, l))
<1>1. PICK n : n = Len(lines)
  OBVIOUS
<1>2. /\ n \in Nat
      /\ FirstLines(lines, 0) = <<>>
      /\ \A l \in 0 .. n - 1 : /\ FirstLines(lines, l + 1) = Append(FirstLines(lines, l), lines[l + 1])
                               /\ lines[l + 1] \in Seq(Rec)
      /\ \A l \in 0 .. n : FirstLines(lines, l) \in Seq(Seq(Rec))
  <2>1. n \in Nat /\ \A l \in 0 .. n - 1 : l + 1 \in DOMAIN lines
    BY <1>1
  <2>2. \A i \in DOMAIN lines : lines[i] \in Seq(Rec)
    BY SourcesAre
  <2> QED
    BY <1>1, <2>1, <2>2, LinesRead
<1>3. /\ pass[0].buffer = <<>> /\ pass[0].runs = <<>>
      /\ \A l \in 0 .. n - 1 : pass[l + 1] = ReadOn(pass[l], lines[l + 1], size)
  <2>1. PassOver(lines, size, pass, n)
    BY <1>1
  <2> QED
    BY <1>2, <2>1, PassSteps
<1> DEFINE Good == {l \in Nat : l <= n => Accounts(pass[l], FirstLines(lines, l))}
<1>4. 0 \in Good
  <2>1. /\ \A key : WorthOfAll(<<>>, key) = 0 /\ Worth(<<>>, key) = 0
        /\ KeysOfAll(<<>>) = {} /\ KeysOf(<<>>) = {}
        /\ <<>> \in Seq(Rec) /\ <<>> \in Seq(Seq(Rec))
    BY NoSources, NoRecords
  <2>2. Accounts(pass[0], <<>>)
    BY <1>3, <2>1 DEF Accounts
  <2> QED
    BY <1>2, <2>2
<1>5. ASSUME NEW l \in Nat, l \in Good PROVE l + 1 \in Good
  <2> SUFFICES ASSUME l + 1 <= n PROVE Accounts(pass[l + 1], FirstLines(lines, l + 1))
    OBVIOUS
  <2>1. l \in 0 .. n - 1 /\ l \in 0 .. n /\ l <= n
    BY <1>2
  <2>2. Accounts(pass[l], FirstLines(lines, l))
    BY <1>5, <2>1
  <2> HIDE DEF Good
  <2>3. Accounts(ReadOn(pass[l], lines[l + 1], size), Append(FirstLines(lines, l), lines[l + 1]))
    BY <1>2, <2>1, <2>2, ReadOnAccounts
  <2> QED
    BY <1>2, <1>3, <2>1, <2>3
<1> HIDE DEF Good
<1>6. Nat \subseteq Good
  BY <1>4, <1>5, Induct
<1>7. \A l \in 0 .. n : l \in Nat /\ l <= n
  BY <1>2
<1> QED
  BY <1>1, <1>6, <1>7 DEF Good

--------------------------------------------------------------------------------

(***************************************************************************)
(* What attempts of a task write, when they spill at the same size.        *)
(***************************************************************************)
\* Attempts of a task spill at the same size: the spill_bytes of all workers agree.
SpillsAgree == \A a, b \in MapAttempt : TaskOf[a] = TaskOf[b] => SpillAt[a] = SpillAt[b]

SizeFor(t) == SpillAt[CHOOSE a \in MapAttempt : TaskOf[a] = t]
Pass(t) == CHOOSE pass : PassOver(Lines[t], SizeFor(t), pass, Len(Lines[t]))

\* What is buffered, and what was spilled, after a number of lines.
Buffered(t, l) == Pass(t)[l].buffer
Spilled(t, l) == Pass(t)[l].runs
Rest(t) == Buffered(t, Len(Lines[t]))
First(t) == Spilled(t, Len(Lines[t]))
Runs(t) == IF First(t) # <<>> /\ Rest(t) # <<>> THEN Append(First(t), Rest(t)) ELSE First(t)

\* The size is the same for all attempts.
LEMMA SizeIsSame ==
  ASSUME SpillsAgree, NEW a \in MapAttempt
  PROVE  SpillAt[a] = SizeFor(TaskOf[a])
  BY DEF SpillsAgree, SizeFor

\* The lines of a task.
LEMMA LinesAre ==
  ASSUME NEW t \in MapTask
  PROVE  /\ Lines[t] \in Seq(Seq(Rec)) /\ Len(Lines[t]) \in Nat
         /\ \A l \in 1 .. Len(Lines[t]) : Lines[t][l] \in Seq(Rec)
<1>1. PICK S : S = Seq(Rec)
  OBVIOUS
<1>2. Lines \in Seq(Seq(S))
  BY <1>1, LinesAssumption DEF Rec
<1>3. Lines[t] \in Seq(S)
  BY <1>2 DEF MapTask
<1> QED
  BY <1>1, <1>3

\* One pass over the lines.
LEMMA OnePass ==
  ASSUME NEW t \in MapTask
  PROVE  /\ Buffered(t, 0) = <<>> /\ Spilled(t, 0) = <<>>
         /\ \A l \in 0 .. Len(Lines[t]) : /\ Buffered(t, l) \in Seq(Rec)
                                          /\ Spilled(t, l) \in Seq(Seq(Rec))
         /\ \A l \in 0 .. Len(Lines[t]) - 1 :
              LET buffer == Buffered(t, l) \o Lines[t][l + 1] IN
              /\ Len(buffer) >= SizeFor(t) => /\ Buffered(t, l + 1) = <<>>
                                              /\ Spilled(t, l + 1) = Append(Spilled(t, l), buffer)
              /\ ~ (Len(buffer) >= SizeFor(t)) => /\ Buffered(t, l + 1) = buffer
                                                  /\ Spilled(t, l + 1) = Spilled(t, l)
         /\ \A key : WorthOfAll(First(t), key) + Worth(Rest(t), key) = WorthOfAll(Lines[t], key)
         /\ KeysOfAll(First(t)) \cup KeysOf(Rest(t)) = KeysOfAll(Lines[t])
<1>1. PICK lines, n, size, pass : /\ lines = Lines[t] /\ n = Len(lines) /\ size = SizeFor(t)
                                  /\ pass = Pass(t)
  OBVIOUS
<1>2. lines \in Seq(Seq(Rec)) /\ n \in Nat
  BY <1>1, LinesAre
<1>3. PassOver(lines, size, pass, n)
  <2>1. \E f : PassOver(lines, size, f, n)
    BY <1>2, PassExists
  <2> QED
    BY <1>1, <2>1 DEF Pass
<1>4. /\ pass[0].buffer = <<>> /\ pass[0].runs = <<>>
      /\ \A l \in 0 .. n - 1 : pass[l + 1] = ReadOn(pass[l], lines[l + 1], size)
  BY <1>2, <1>3, PassSteps
<1>5. /\ \A l \in 0 .. n : Accounts(pass[l], FirstLines(lines, l))
      /\ FirstLines(lines, n) = lines
  <2>1. PassOver(lines, size, pass, Len(lines))
    BY <1>1, <1>3
  <2>2. \A l \in 0 .. Len(lines) : Accounts(pass[l], FirstLines(lines, l))
    BY <1>2, <2>1, PassAccounts
  <2>3. FirstLines(lines, Len(lines)) = lines
    BY <1>2, LinesRead
  <2> QED
    BY <1>1, <2>2, <2>3
<1>6. Accounts(pass[n], lines)
  <2>1. n \in 0 .. n
    BY <1>2
  <2> QED
    BY <1>5, <2>1
<1>7. ASSUME NEW l \in 0 .. n - 1
      PROVE  LET buffer == pass[l].buffer \o lines[l + 1] IN
             /\ Len(buffer) >= size => /\ pass[l + 1].buffer = <<>>
                                       /\ pass[l + 1].runs = Append(pass[l].runs, buffer)
             /\ ~ (Len(buffer) >= size) => /\ pass[l + 1].buffer = buffer
                                           /\ pass[l + 1].runs = pass[l].runs
  <2>1. PICK s, line, buffer : s = pass[l] /\ line = lines[l + 1] /\ buffer = s.buffer \o line
    OBVIOUS
  <2>2. pass[l + 1] = ReadOn(s, line, size)
    BY <1>4, <2>1
  <2>3. /\ Len(buffer) >= size => /\ ReadOn(s, line, size).buffer = <<>>
                                  /\ ReadOn(s, line, size).runs = Append(s.runs, buffer)
        /\ ~ (Len(buffer) >= size) => /\ ReadOn(s, line, size).buffer = buffer
                                      /\ ReadOn(s, line, size).runs = s.runs
    BY <2>1 DEF ReadOn
  <2>4. buffer = pass[l].buffer \o lines[l + 1]
    BY <2>1
  <2> QED
    BY <2>1, <2>2, <2>3, <2>4, Zenon
<1>8. \A l : Buffered(t, l) = pass[l].buffer /\ Spilled(t, l) = pass[l].runs
  BY <1>1 DEF Buffered, Spilled
<1>9. First(t) = pass[n].runs /\ Rest(t) = pass[n].buffer
  BY <1>1, <1>8 DEF First, Rest
<1>10. /\ \A key : WorthOfAll(First(t), key) + Worth(Rest(t), key) = WorthOfAll(Lines[t], key)
       /\ KeysOfAll(First(t)) \cup KeysOf(Rest(t)) = KeysOfAll(Lines[t])
  BY <1>1, <1>6, <1>9 DEF Accounts
<1>11. \A l \in 0 .. n : pass[l].buffer \in Seq(Rec) /\ pass[l].runs \in Seq(Seq(Rec))
  BY <1>5 DEF Accounts
<1>12. n = Len(Lines[t])
  BY <1>1
<1>13. \A l \in 0 .. Len(Lines[t]) : Buffered(t, l) \in Seq(Rec) /\ Spilled(t, l) \in Seq(Seq(Rec))
  BY <1>8, <1>11, <1>12, Zenon
<1>14. \A l \in 0 .. Len(Lines[t]) - 1 :
         LET buffer == Buffered(t, l) \o Lines[t][l + 1] IN
         /\ Len(buffer) >= SizeFor(t) => /\ Buffered(t, l + 1) = <<>>
                                         /\ Spilled(t, l + 1) = Append(Spilled(t, l), buffer)
         /\ ~ (Len(buffer) >= SizeFor(t)) => /\ Buffered(t, l + 1) = buffer
                                             /\ Spilled(t, l + 1) = Spilled(t, l)
  BY <1>1, <1>7, <1>8, <1>12, Zenon
<1> QED
  BY <1>4, <1>8, <1>10, <1>13, <1>14, Zenon

\* big begins with the members of small.
Begins(big, small) ==
  Len(small) <= Len(big) /\ \A n \in 1 .. Len(small) : big[n] = small[n]

\* A sequence to which something is appended begins with it.
LEMMA AppendBegins ==
  ASSUME NEW S, NEW s \in Seq(S), NEW x \in S
  PROVE  /\ Begins(Append(s, x), s)
         /\ Append(s, x) \in Seq(S) /\ Len(Append(s, x)) = Len(s) + 1
         /\ Append(s, x)[Len(s) + 1] = x
         /\ Append(s, x) # <<>>
  BY AppendProperties, LenProperties DEF Begins

\* What is spilled stays at the beginning of the runs.
LEMMA RunsBegin ==
  ASSUME NEW t \in MapTask
  PROVE  /\ Runs(t) \in Seq(Seq(Rec))
         /\ \A l \in 0 .. Len(Lines[t]) : Begins(Runs(t), Spilled(t, l))
<1>1. PICK S, n, runs : S = Seq(Rec) /\ n = Len(Lines[t]) /\ runs = Runs(t)
  OBVIOUS
<1>2. n \in Nat /\ n \in 0 .. n
  BY <1>1, LinesAre
<1>3. \A l \in 0 .. n : Spilled(t, l) \in Seq(S) /\ Buffered(t, l) \in S
  BY <1>1, OnePass
<1>4. \A l \in 0 .. n : Len(Spilled(t, l)) \in Nat
  BY <1>3
<1>5. runs \in Seq(S) /\ Begins(runs, Spilled(t, n))
  <2>1. PICK s, b : s = Spilled(t, n) /\ b = Buffered(t, n)
    OBVIOUS
  <2>2. s \in Seq(S) /\ b \in S /\ Len(s) \in Nat
    BY <1>2, <1>3, <2>1
  <2>3. runs = s \/ runs = Append(s, b)
    BY <1>1, <2>1 DEF Runs, First, Rest
  <2>4. Begins(s, s)
    BY <2>2 DEF Begins
  <2>5. Begins(Append(s, b), s) /\ Append(s, b) \in Seq(S)
    BY <2>2, AppendBegins
  <2> QED
    BY <2>1, <2>2, <2>3, <2>4, <2>5
<1>6. ASSUME NEW l \in 0 .. n - 1
      PROVE  Begins(Spilled(t, l + 1), Spilled(t, l))
  <2>0. l \in 0 .. n /\ l + 1 \in 0 .. n
    BY <1>2
  <2>1. PICK s, b : s = Spilled(t, l) /\ b = Buffered(t, l) \o Lines[t][l + 1]
    OBVIOUS
  <2>2. Spilled(t, l + 1) = s \/ Spilled(t, l + 1) = Append(s, b)
    BY <1>1, <2>1, OnePass, Zenon
  <2>3. s \in Seq(S) /\ b \in S /\ Len(s) \in Nat
    <3>1. Buffered(t, l) \in Seq(Rec) /\ s \in Seq(S)
      BY <1>1, <1>3, <2>0, <2>1
    <3>2. Lines[t][l + 1] \in Seq(Rec)
      <4>1. l + 1 \in 1 .. Len(Lines[t])
        BY <1>1, <1>2
      <4> QED
        BY <4>1, LinesAre
    <3>3. b \in S
      BY <1>1, <2>1, <3>1, <3>2
    <3> QED
      BY <3>1, <3>3
  <2>4. Begins(s, s)
    BY <2>3 DEF Begins
  <2>5. Begins(Append(s, b), s)
    BY <2>3, AppendBegins
  <2> QED
    BY <2>1, <2>2, <2>4, <2>5
<1> DEFINE Good == {k \in Nat : \A l \in 0 .. n : l + k = n => Begins(runs, Spilled(t, l))}
<1>7. 0 \in Good
  BY <1>2, <1>5
<1>8. ASSUME NEW k \in Nat, k \in Good PROVE k + 1 \in Good
  <2> SUFFICES ASSUME NEW l \in 0 .. n, l + (k + 1) = n PROVE Begins(runs, Spilled(t, l))
    OBVIOUS
  <2>1. l \in 0 .. n - 1 /\ l + 1 \in 0 .. n /\ (l + 1) + k = n
    BY <1>2
  <2>2. Begins(runs, Spilled(t, l + 1)) /\ Begins(Spilled(t, l + 1), Spilled(t, l))
    BY <1>6, <1>8, <2>1
  <2>3. PICK big, s : big = Spilled(t, l + 1) /\ s = Spilled(t, l)
    OBVIOUS
  <2>4. Len(big) \in Nat /\ Len(s) \in Nat /\ Len(runs) \in Nat
    BY <1>4, <1>5, <2>1, <2>3
  <2>5. Begins(runs, big) /\ Begins(big, s)
    BY <2>2, <2>3
  <2> HIDE DEF Good
  <2>6. /\ Len(s) <= Len(big) /\ \A m \in 1 .. Len(s) : big[m] = s[m]
        /\ Len(big) <= Len(runs) /\ \A m \in 1 .. Len(big) : runs[m] = big[m]
    BY <2>5 DEF Begins
  <2>7. Begins(runs, s)
    <3>1. Len(s) <= Len(runs) /\ 1 .. Len(s) \subseteq 1 .. Len(big)
      BY <2>4, <2>6
    <3> QED
      BY <2>6, <3>1 DEF Begins
  <2> QED
    BY <2>3, <2>7
<1> HIDE DEF Good
<1>9. Nat \subseteq Good
  BY <1>7, <1>8, Induct
<1>10. ASSUME NEW l \in 0 .. n
       PROVE  Begins(runs, Spilled(t, l))
  <2>1. n - l \in Nat /\ l + (n - l) = n
    BY <1>2
  <2> QED
    BY <1>9, <2>1 DEF Good
<1> QED
  BY <1>1, <1>5, <1>10

\* The runs of a task, or the one buffer if nothing was spilled, have all its records.
LEMMA RunsAccount ==
  ASSUME NEW t \in MapTask
  PROVE  /\ First(t) = <<>> => /\ Runs(t) = <<>>
                               /\ \A key : Worth(Rest(t), key) = WorthOfAll(Lines[t], key)
                               /\ KeysOf(Rest(t)) = KeysOfAll(Lines[t])
         /\ First(t) # <<>> => /\ \A key : WorthOfAll(Runs(t), key) = WorthOfAll(Lines[t], key)
                               /\ KeysOfAll(Runs(t)) = KeysOfAll(Lines[t])
<1>1. PICK s, b, lines : s = First(t) /\ b = Rest(t) /\ lines = Lines[t]
  OBVIOUS
<1>2. /\ s \in Seq(Seq(Rec)) /\ b \in Seq(Rec)
      /\ \A key : WorthOfAll(s, key) + Worth(b, key) = WorthOfAll(lines, key)
      /\ KeysOfAll(s) \cup KeysOf(b) = KeysOfAll(lines)
  <2>1. Len(Lines[t]) \in 0 .. Len(Lines[t])
    BY LinesAre
  <2> QED
    BY <1>1, <2>1, OnePass DEF First, Rest
<1>3. \A key : Worth(b, key) \in Nat /\ WorthOfAll(s, key) \in Nat
  BY <1>2, RecordsAre, SourcesAre
<1>4. CASE s = <<>>
  <2>1. KeysOfAll(s) = {} /\ \A key : WorthOfAll(s, key) = 0
    BY <1>4, NoSources
  <2>2. \A key : Worth(b, key) = WorthOfAll(lines, key)
    BY <1>2, <1>3, <2>1
  <2> QED
    BY <1>1, <1>2, <1>4, <2>1, <2>2 DEF Runs
<1>5. CASE s # <<>> /\ b = <<>>
  <2>1. KeysOf(b) = {} /\ \A key : Worth(b, key) = 0
    BY <1>5, NoRecords
  <2>2. \A key : WorthOfAll(s, key) = WorthOfAll(lines, key)
    BY <1>2, <1>3, <2>1
  <2> QED
    BY <1>1, <1>2, <1>5, <2>1, <2>2 DEF Runs
<1>6. CASE s # <<>> /\ b # <<>>
  <2>1. Runs(t) = Append(s, b)
    BY <1>1, <1>6 DEF Runs
  <2>2. /\ \A key : WorthOfAll(Append(s, b), key) = WorthOfAll(s, key) + Worth(b, key)
        /\ KeysOfAll(Append(s, b)) = KeysOfAll(s) \cup KeysOf(b)
    BY <1>2, OneMoreSource
  <2> QED
    BY <1>1, <1>2, <1>6, <2>1, <2>2
<1> QED
  BY <1>4, <1>5, <1>6

--------------------------------------------------------------------------------

(***************************************************************************)
(* What holds of the state.                                                *)
(***************************************************************************)
\* The paths of files, and the temporary files.
Path == {"spill", "part", "out"} \X (MapTask \cup {0}) \X Nat \X Partitions
Temp == Path \X MapAttempt

\* x is a spill of task t, or a temporary file for one.
OwnSpill(x, t) ==
  \/ x \in Path /\ IsSpillOf(x, t)
  \/ x \in Temp /\ IsSpillOf(x[1], t)

\* A sequence of whatever files hold.
IsSeqOfAny(s) == \E S : s \in Seq(S)

\* The fields of an attempt.
Fields(m) ==
  [at : MapLabel, line : Nat, buffer : Seq(Nat \X Nat), spills : Nat, part : Partitions,
   opened : {m.opened}, writing : BOOLEAN, todo : {m.todo}]

Writers == {"spill", "final", "merge"}

\* What holds of any attempt of task t.
Sound(m, t) ==
  /\ m \in Fields(m)
  /\ m.line \in 0 .. Len(Lines[t])
  /\ m.writing => m.at \in Writers
  /\ m.at \in {"new", "stale", "consume"} => m.part = 0
  /\ m.at \in {"new", "stale", "consume", "spill", "final"} => m.opened = <<>>
  /\ m.at \in {"new", "stale"} => m.spills = 0
  /\ IsSeqOfAny(m.opened)
  /\ \A x \in m.todo : OwnSpill(x, t)

DirTyped == DOMAIN files \subseteq Path /\ temps \subseteq Temp

MapTyped ==
  /\ map = [a \in MapAttempt |-> map[a]]
  /\ \A a \in MapAttempt : Sound(map[a], TaskOf[a])

\* A reducer that was handed out goes on until it stops.
ReduceSound(q) ==
  /\ q \in [at : {"new", "open", "done", "crashed"}, next : Nat \ {0}, opened : {q.opened}]
  /\ IsSeqOfAny(q.opened)

ReduceTyped ==
  /\ reduce = [r \in ReduceAttempt |-> reduce[r]]
  /\ \A r \in ReduceAttempt : ReduceSound(reduce[r])

Types ==
  /\ DirTyped /\ MapTyped /\ ReduceTyped
  /\ doneTasks \subseteq MapTask
  /\ overlapped \subseteq MapAttempt

USE TaskOfAssumption, NumReduceAssumption

--------------------------------------------------------------------------------

(***************************************************************************)
(* Helpers.                                                                *)
(***************************************************************************)
\* The first partition.
LEMMA ZeroIsPartition == 0 \in Partitions
  BY DEF Partitions

\* Spills, parts and outputs are paths.
LEMMA PathsAre ==
  ASSUME NEW n \in Nat, NEW p \in Partitions
  PROVE  /\ \A t \in MapTask : Spill(t, n, p) \in Path /\ Part(t, p) \in Path
         /\ Out(p) \in Path
  BY DEF Spill, Part, Out, Path

\* A path that looks like a spill is one.
LEMMA SpillsAre ==
  ASSUME NEW t \in MapTask, NEW path \in Path, IsSpillOf(path, t)
  PROVE  \E n \in Nat, p \in Partitions : path = Spill(t, n, p)
<1>1. path = Spill(t, path[3], path[4]) /\ path[3] \in Nat /\ path[4] \in Partitions
  BY DEF Path, IsSpillOf, Spill
<1> QED
  BY <1>1

\* Sequences to which something is appended.
LEMMA AppendIsSeq ==
  ASSUME NEW s, NEW x, IsSeqOfAny(s)
  PROVE  /\ IsSeqOfAny(Append(s, x))
         /\ Len(s) \in Nat
         /\ Len(Append(s, x)) = Len(s) + 1
<1>1. PICK S : s \in Seq(S)
  BY DEF IsSeqOfAny
<1>2. s \in Seq(S \cup {x})
  BY <1>1
<1>3. Append(s, x) \in Seq(S \cup {x}) /\ Len(Append(s, x)) = Len(s) + 1 /\ Len(s) \in Nat
  BY <1>2
<1> QED
  BY <1>3 DEF IsSeqOfAny

\* The empty sequence is one.
LEMMA EmptyIsSeq == IsSeqOfAny(<<>>) /\ Len(<<>>) = 0
<1>1. <<>> \in Seq(Nat) /\ Len(<<>>) = 0
  OBVIOUS
<1> QED
  BY <1>1 DEF IsSeqOfAny

\* What Become does to the attempts.
LEMMA Becomes ==
  ASSUME MapTyped, NEW a \in MapAttempt, NEW new, Become(a, new)
  PROVE  /\ map'[a] = new
         /\ map' = [b \in MapAttempt |-> map'[b]]
         /\ \A b \in MapAttempt \ {a} : map'[b] = map[b]
  BY DEF MapTyped, Become

\* If the new state of the attempt is sound, all are.
LEMMA BecomesSound ==
  ASSUME MapTyped, NEW a \in MapAttempt, NEW new, Become(a, new), Sound(new, TaskOf[a])
  PROVE  MapTyped'
<1>1. /\ map'[a] = new
      /\ map' = [b \in MapAttempt |-> map'[b]]
      /\ \A b \in MapAttempt \ {a} : map'[b] = map[b]
  BY Becomes
<1>2. ASSUME NEW b \in MapAttempt
      PROVE  Sound(map'[b], TaskOf[b])
  BY <1>1 DEF MapTyped
<1> QED
  BY <1>1, <1>2 DEF MapTyped

\* What follows a rename, case by case.
AllSpills(m, t) == {Spill(t, n, p) : n \in 0 .. m.spills - 1, p \in Partitions}
ToNextPart(m) == [m EXCEPT !.part = @ + 1, !.writing = FALSE, !.opened = <<>>]
AfterSpill(m) ==
  [m EXCEPT !.at = "consume", !.part = 0, !.writing = FALSE, !.buffer = <<>>, !.spills = @ + 1]
AfterFinal(m) == [m EXCEPT !.at = "done", !.writing = FALSE]
AfterMerge(m, t) ==
  [m EXCEPT !.at = "cleanup", !.writing = FALSE, !.opened = <<>>, !.todo = AllSpills(m, t)]

\* AfterWrite is one of these.
LEMMA AfterWriteCases ==
  ASSUME NEW m, NEW t, NEW after, after = AfterWrite(m, t), m.part \in Partitions, m.at \in Writers
  PROVE  \/ m.part + 1 \in Partitions /\ after = ToNextPart(m)
         \/ m.part + 1 = NumReduce /\ m.at = "spill" /\ after = AfterSpill(m)
         \/ m.part + 1 = NumReduce /\ m.at = "final" /\ after = AfterFinal(m)
         \/ m.part + 1 = NumReduce /\ m.at = "merge" /\ after = AfterMerge(m, t)
<1>1. (m.part + 1 < NumReduce /\ m.part + 1 \in Partitions) \/ m.part + 1 = NumReduce
  BY DEF Partitions
<1>2. CASE m.part + 1 < NumReduce /\ m.part + 1 \in Partitions
  BY <1>2 DEF AfterWrite, Partitions, ToNextPart
<1>3. CASE m.part + 1 = NumReduce /\ m.at = "spill"
  BY <1>3 DEF AfterWrite, Partitions, AfterSpill
<1>4. CASE m.part + 1 = NumReduce /\ m.at = "final"
  BY <1>4 DEF AfterWrite, Partitions, AfterFinal
<1>5. CASE m.part + 1 = NumReduce /\ m.at = "merge"
  BY <1>5 DEF AfterWrite, Partitions, AfterMerge, AllSpills
<1> QED
  BY <1>1, <1>2, <1>3, <1>4, <1>5 DEF Writers

--------------------------------------------------------------------------------

(***************************************************************************)
(* Types, action by action.                                                *)
(***************************************************************************)
\* What an attempt removes is a spill of its task, or a temporary file for one.
LEMMA DeleteTyped ==
  ASSUME DirTyped, NEW x, Delete(x)
  PROVE  /\ DirTyped'
         /\ DOMAIN files' = DOMAIN files \ {x}
         /\ temps' = temps \ {x}
  BY DEF Delete, DirTyped

\* A rename puts one path in place.
LEMMA PutInPlace ==
  ASSUME NEW path, NEW content, Place(path, content)
  PROVE  DOMAIN files' = DOMAIN files \cup {path}
  BY DEF Place

\* An attempt writes spills or parts of its task.
LEMMA TargetIs ==
  ASSUME Types, NEW a \in MapAttempt
  PROVE  /\ Target(a) \in Path
         /\ Target(a)[2] = TaskOf[a]
         /\ map[a].at = "spill" => Target(a) = Spill(TaskOf[a], map[a].spills, map[a].part)
         /\ map[a].at # "spill" => Target(a) = Part(TaskOf[a], map[a].part)
<1>1. TaskOf[a] \in MapTask /\ map[a].spills \in Nat /\ map[a].part \in Partitions
  BY DEF Types, MapTyped, Sound, Fields
<1> QED
  BY <1>1, PathsAre DEF Target, Spill, Part

\* Failing keeps an attempt sound.
LEMMA FailTyped ==
  ASSUME MapTyped, NEW a \in MapAttempt, Fail(a)
  PROVE  MapTyped'
<1> DEFINE m == map[a]
           new == [m EXCEPT !.at = "failed", !.writing = FALSE]
<1>1. Sound(m, TaskOf[a])
  BY DEF MapTyped
<1>2. Sound(new, TaskOf[a])
  BY <1>1 DEF Sound, Fields, MapLabel
<1>3. Become(a, new)
  BY DEF Fail
<1> HIDE DEF new
<1> QED
  BY <1>2, <1>3, BecomesSound

\* Each step of a map attempt keeps the types.
LEMMA MapStepTyped ==
  ASSUME Types, NEW a \in MapAttempt, MapStep(a)
  PROVE  Types'
<1> DEFINE t == TaskOf[a]
           m == map[a]
<1>t. t \in MapTask
  OBVIOUS
<1>m. DirTyped /\ MapTyped /\ Sound(m, t)
  BY DEF Types, MapTyped
<1>f. /\ m \in Fields(m) /\ m.at \in MapLabel /\ m.line \in Nat /\ m.buffer \in Seq(Nat \X Nat)
      /\ m.spills \in Nat /\ m.part \in Partitions /\ m.writing \in BOOLEAN
  BY <1>m DEF Sound, Fields
<1>1. CASE StartMap(a)
  <2> DEFINE todo == {path \in DOMAIN files : IsSpillOf(path, t)}
                     \cup {temp \in temps : IsSpillOf(temp[1], t)}
             new == [m EXCEPT !.at = "stale", !.todo = todo]
  <2>1. Become(a, new) /\ m.at = "new"
    BY <1>1 DEF StartMap
  <2>2. \A x \in todo : OwnSpill(x, t)
    BY <1>m DEF DirTyped, OwnSpill
  <2>3. Sound(new, t)
    <3> HIDE DEF todo
    <3> QED
      BY <1>m, <2>1, <2>2 DEF Sound, Fields, MapLabel, Writers
  <2>4. overlapped' \subseteq MapAttempt
    BY <1>1 DEF StartMap, Types
  <2>5. MapTyped'
    <3> HIDE DEF new
    <3> QED
      BY <1>m, <2>1, <2>3, BecomesSound
  <2> QED
    BY <1>1, <2>4, <2>5 DEF StartMap, Types, DirTyped, ReduceTyped
<1>2. CASE RemoveStale(a)
  <2>1. PICK x \in m.todo :
          \/ Delete(x) /\ Become(a, [m EXCEPT !.todo = @ \ {x}])
          \/ Fail(a) /\ UNCHANGED <<files, temps>>
    BY <1>2 DEF RemoveStale
  <2>2. MapTyped' /\ DirTyped'
    <3>1. CASE Fail(a) /\ UNCHANGED <<files, temps>>
      BY <3>1, <1>m, FailTyped DEF DirTyped
    <3>2. CASE Delete(x) /\ Become(a, [m EXCEPT !.todo = @ \ {x}])
      <4> DEFINE new == [m EXCEPT !.todo = @ \ {x}]
      <4>1. Sound(new, t)
        BY <1>m DEF Sound, Fields
      <4>2. Become(a, new)
        BY <3>2
      <4> HIDE DEF new
      <4> QED
        BY <1>m, <3>2, <4>1, <4>2, BecomesSound, DeleteTyped
    <3> QED
      BY <2>1, <3>1, <3>2
  <2> QED
    BY <1>2, <2>2 DEF RemoveStale, Types, ReduceTyped
<1>3. CASE StaleRemoved(a)
  <2> DEFINE new == [m EXCEPT !.at = "consume"]
  <2>1. Become(a, new) /\ m.at = "stale"
    BY <1>3 DEF StaleRemoved
  <2>2. Sound(new, t)
    BY <1>m, <2>1 DEF Sound, Fields, MapLabel, Writers
  <2>3. MapTyped'
    <3> HIDE DEF new
    <3> QED
      BY <1>m, <2>1, <2>2, BecomesSound
  <2> QED
    BY <1>3, <2>3 DEF StaleRemoved, Types, DirTyped, ReduceTyped
<1>4. CASE ReadLine(a)
  <2> DEFINE buffer == m.buffer \o Lines[t][m.line + 1]
             at == IF Len(buffer) >= SpillAt[a] THEN "spill" ELSE m.at
             new == [m EXCEPT !.line = @ + 1, !.buffer = buffer, !.at = at]
  <2>1. Become(a, new) /\ m.at = "consume" /\ m.line < Len(Lines[t])
    BY <1>4 DEF ReadLine
  <2>2. Len(Lines[t]) \in Nat /\ m.line + 1 \in 1 .. Len(Lines[t])
    BY <1>t, <1>f, <2>1, LinesAre
  <2>3. Lines[t][m.line + 1] \in Seq(Nat \X Nat)
    BY <1>t, <2>2, LinesAre DEF Rec
  <2>4. buffer \in Seq(Nat \X Nat)
    BY <1>f, <2>3
  <2>5. at \in {"spill", "consume"}
    BY <2>1
  <2>6. Sound(new, t)
    <3> HIDE DEF buffer, at
    <3>1. PICK n : n = new
      OBVIOUS
    <3>2. m.line + 1 \in Nat /\ at \in MapLabel
      BY <1>f, <2>5 DEF MapLabel
    <3>3. /\ n \in Fields(n)
          /\ n.at = at /\ n.line = m.line + 1 /\ n.writing = m.writing /\ n.part = m.part
          /\ n.opened = m.opened /\ n.todo = m.todo
      BY <1>f, <2>4, <3>1, <3>2 DEF Fields
    <3>4. m.line + 1 \in 0 .. Len(Lines[t])
      BY <2>2
    <3>5. Sound(n, t)
      BY <1>m, <2>1, <2>5, <3>3, <3>4 DEF Sound, Writers
    <3> QED
      BY <3>1, <3>5
  <2>7. MapTyped'
    <3> HIDE DEF new
    <3> QED
      BY <1>m, <2>1, <2>6, BecomesSound
  <2> QED
    BY <1>4, <2>7 DEF ReadLine, Types, DirTyped, ReduceTyped
<1>5. CASE InputOver(a)
  <2>1. PICK at : /\ at \in {"final", "spill", "merge"}
                  /\ Become(a, [m EXCEPT !.at = at])
                  /\ m.at = "consume"
    <3> DEFINE at == CASE m.spills = 0 -> "final"
                       [] m.spills > 0 /\ m.buffer # <<>> -> "spill"
                       [] OTHER -> "merge"
    <3>1. at \in {"final", "spill", "merge"}
      OBVIOUS
    <3>2. Become(a, [m EXCEPT !.at = at]) /\ m.at = "consume"
      BY <1>5 DEF InputOver
    <3> HIDE DEF at
    <3> QED
      BY <3>1, <3>2
  <2> DEFINE new == [m EXCEPT !.at = at]
  <2>2. Sound(new, t)
    BY <1>m, <2>1 DEF Sound, Fields, MapLabel, Writers
  <2>3. MapTyped'
    <3> HIDE DEF new
    <3>1. Become(a, new)
      BY <2>1 DEF new
    <3> QED
      BY <1>m, <3>1, <2>2, BecomesSound
  <2> QED
    BY <1>5, <2>3 DEF InputOver, Types, DirTyped, ReduceTyped
<1>6. CASE OpenSpill(a)
  <2>1. MapTyped'
    <3> DEFINE content == files[Spill(t, Len(m.opened), m.part)]
               opened == Append(m.opened, content)
               new == [m EXCEPT !.opened = opened]
    <3>1. Become(a, new) \/ Fail(a)
      BY <1>6 DEF OpenSpill
    <3>2. m.at = "merge"
      BY <1>6 DEF OpenSpill
    <3>3. IsSeqOfAny(opened)
      BY <1>m, AppendIsSeq DEF Sound
    <3>4. Sound(new, t)
      <4> HIDE DEF opened
      <4> QED
        BY <1>m, <3>2, <3>3 DEF Sound, Fields, Writers
    <3> HIDE DEF new
    <3> QED
      BY <1>m, <3>1, <3>4, BecomesSound, FailTyped
  <2> QED
    BY <1>6, <2>1 DEF OpenSpill, Types, DirTyped, ReduceTyped
<1>7. CASE CreateTemp(a)
  <2> DEFINE new == [m EXCEPT !.writing = TRUE]
  <2>1. Become(a, new) /\ m.at \in Writers
    BY <1>7 DEF CreateTemp, Writers
  <2>2. Sound(new, t)
    BY <1>m, <2>1 DEF Sound, Fields
  <2>3. MapTyped'
    <3> HIDE DEF new
    <3> QED
      BY <1>m, <2>1, <2>2, BecomesSound
  <2>4. <<Target(a), a>> \in Temp
    BY TargetIs DEF Temp
  <2> QED
    BY <1>7, <2>3, <2>4 DEF CreateTemp, Types, DirTyped, ReduceTyped
<1>8. CASE RenameTemp(a)
  <2>1. m.at \in Writers
    BY <1>m, <1>8 DEF RenameTemp, Sound
  <2>2. MapTyped' /\ DirTyped'
    <3>1. CASE Fail(a) /\ UNCHANGED <<files, temps>>
      BY <3>1, <1>m, FailTyped DEF DirTyped
    <3>2. CASE /\ Place(Target(a), Content(a))
               /\ temps' = temps \ {<<Target(a), a>>}
               /\ Become(a, AfterWrite(m, t))
      <4>1. DirTyped'
        <5>1. DOMAIN files' = DOMAIN files \cup {Target(a)}
          BY <3>2, PutInPlace
        <5> QED
          BY <1>m, <3>2, <5>1, TargetIs DEF DirTyped
      <4>2. Sound(AfterWrite(m, t), t)
        <5>1. PICK n : n = AfterWrite(m, t)
          OBVIOUS
        <5>2. CASE m.part + 1 \in Partitions /\ n = ToNextPart(m)
          <6>2. /\ n \in Fields(n)
                /\ n.at = m.at /\ n.writing = FALSE /\ n.opened = <<>> /\ n.todo = m.todo
                /\ n.line = m.line
            BY <1>f, <5>2 DEF ToNextPart, Fields
          <6> QED
            BY <1>m, <2>1, <5>1, <6>2, EmptyIsSeq DEF Sound, Writers
        <5>3. CASE m.at = "spill" /\ n = AfterSpill(m)
          <6>1. m.spills + 1 \in Nat /\ <<>> \in Seq(Nat \X Nat)
            BY <1>f
          <6>2. /\ n \in Fields(n)
                /\ n.at = "consume" /\ n.part = 0 /\ n.writing = FALSE /\ n.opened = m.opened
                /\ n.todo = m.todo /\ n.line = m.line
            BY <1>f, <5>3, <6>1, ZeroIsPartition DEF AfterSpill, Fields, MapLabel
          <6> QED
            BY <1>m, <5>1, <5>3, <6>2 DEF Sound
        <5>4. CASE n = AfterFinal(m)
          BY <1>m, <1>f, <5>1, <5>4 DEF AfterFinal, Sound, Fields, MapLabel
        <5>5. CASE n = AfterMerge(m, t)
          <6>1. \A x \in AllSpills(m, t) : OwnSpill(x, t)
            BY <1>t, <1>f, PathsAre DEF AllSpills, OwnSpill, IsSpillOf, Spill
          <6>2. /\ n \in Fields(n)
                /\ n.at = "cleanup" /\ n.writing = FALSE /\ n.opened = <<>>
                /\ n.todo = AllSpills(m, t) /\ n.line = m.line
            BY <1>f, <5>5 DEF AfterMerge, Fields, MapLabel
          <6> QED
            BY <1>m, <5>1, <6>1, <6>2, EmptyIsSeq DEF Sound
        <5>6. \/ m.part + 1 \in Partitions /\ n = ToNextPart(m)
              \/ m.at = "spill" /\ n = AfterSpill(m)
              \/ n = AfterFinal(m)
              \/ n = AfterMerge(m, t)
          BY <1>f, <2>1, <5>1, AfterWriteCases
        <5> QED
          BY <5>2, <5>3, <5>4, <5>5, <5>6
      <4> QED
        BY <1>m, <3>2, <4>1, <4>2, BecomesSound
    <3> QED
      BY <1>8, <3>1, <3>2 DEF RenameTemp
  <2> QED
    BY <1>8, <2>2 DEF RenameTemp, Types, ReduceTyped
<1>9. CASE RemoveSpill(a)
  <2>1. PICK x \in m.todo : Delete(x) /\ Become(a, [m EXCEPT !.todo = @ \ {x}])
    BY <1>9 DEF RemoveSpill
  <2> DEFINE new == [m EXCEPT !.todo = @ \ {x}]
  <2>2. Sound(new, t)
    BY <1>m DEF Sound, Fields
  <2>3. MapTyped' /\ DirTyped'
    <3>1. Become(a, new)
      BY <2>1
    <3> HIDE DEF new
    <3> QED
      BY <1>m, <2>1, <2>2, <3>1, BecomesSound, DeleteTyped
  <2> QED
    BY <1>9, <2>3 DEF RemoveSpill, Types, ReduceTyped
<1>10. CASE SpillsRemoved(a) \/ ReportMap(a) \/ CrashMap(a)
  <2>1. PICK at : /\ at \in {"done", "reported", "crashed"}
                  /\ \/ Become(a, [m EXCEPT !.at = at]) /\ ~ m.writing
                     \/ Become(a, [m EXCEPT !.at = at, !.writing = FALSE])
    BY <1>10, <1>m DEF SpillsRemoved, ReportMap, CrashMap, Sound, Writers
  <2>2. PICK new : Become(a, new) /\ Sound(new, t)
    <3>1. CASE Become(a, [m EXCEPT !.at = at]) /\ ~ m.writing
      <4>1. Sound([m EXCEPT !.at = at], t)
        BY <1>m, <2>1, <3>1 DEF Sound, Fields, MapLabel
      <4> QED
        BY <3>1, <4>1
    <3>2. CASE Become(a, [m EXCEPT !.at = at, !.writing = FALSE])
      <4>1. Sound([m EXCEPT !.at = at, !.writing = FALSE], t)
        BY <1>m, <2>1 DEF Sound, Fields, MapLabel
      <4> QED
        BY <3>2, <4>1
    <3> QED
      BY <2>1, <3>1, <3>2
  <2>3. MapTyped'
    BY <1>m, <2>2, BecomesSound
  <2>4. doneTasks' \subseteq MapTask
    BY <1>10, <1>t DEF SpillsRemoved, ReportMap, CrashMap, Types
  <2> QED
    BY <1>10, <2>3, <2>4 DEF SpillsRemoved, ReportMap, CrashMap, Types, DirTyped, ReduceTyped
<1> QED
  BY <1>1, <1>2, <1>3, <1>4, <1>5, <1>6, <1>7, <1>8, <1>9, <1>10 DEF MapStep

\* Each step of a reduce attempt keeps the types.
LEMMA ReduceStepTyped ==
  ASSUME Types, NEW r \in ReduceAttempt, ReduceStep(r)
  PROVE  Types'
<1> DEFINE q == reduce[r]
<1>q. ReduceTyped /\ ReduceSound(q) /\ DirTyped
  BY DEF Types, ReduceTyped
<1>1. PICK new : /\ reduce' = [reduce EXCEPT ![r] = new]
                 /\ ReduceSound(new)
  <2>1. CASE StartReduce(r)
    <3>1. reduce' = [reduce EXCEPT ![r] = [q EXCEPT !.at = "open"]]
      BY <2>1 DEF StartReduce
    <3>2. ReduceSound([q EXCEPT !.at = "open"])
      BY <1>q DEF ReduceSound
    <3> QED
      BY <3>1, <3>2
  <2>2. CASE OpenPart(r)
    <3> DEFINE path == Part(q.next, PartitionOf[r])
               opened == IF path \in DOMAIN files THEN Append(q.opened, files[path]) ELSE q.opened
               new == [q EXCEPT !.next = @ + 1, !.opened = opened]
    <3>1. reduce' = [reduce EXCEPT ![r] = new]
      BY <2>2 DEF OpenPart
    <3>2. IsSeqOfAny(opened)
      BY <1>q, AppendIsSeq DEF ReduceSound
    <3>3. ReduceSound(new)
      <4>1. q.next \in Nat \ {0} /\ q.next + 1 \in Nat \ {0}
        BY <1>q DEF ReduceSound
      <4> HIDE DEF opened
      <4>2. /\ new \in [at : {"new", "open", "done", "crashed"}, next : Nat \ {0}, opened : {new.opened}]
            /\ new.opened = opened
        BY <1>q, <4>1 DEF ReduceSound
      <4> HIDE DEF new
      <4> QED
        BY <3>2, <4>2 DEF ReduceSound
    <3> HIDE DEF new
    <3> QED
      BY <3>1, <3>3
  <2>3. CASE WriteOutput(r)
    <3>1. reduce' = [reduce EXCEPT ![r] = [q EXCEPT !.at = "done"]]
      BY <2>3 DEF WriteOutput
    <3>2. ReduceSound([q EXCEPT !.at = "done"])
      BY <1>q DEF ReduceSound
    <3> QED
      BY <3>1, <3>2
  <2>4. CASE CrashReduce(r)
    <3>1. reduce' = [reduce EXCEPT ![r] = [q EXCEPT !.at = "crashed"]]
      BY <2>4 DEF CrashReduce
    <3>2. ReduceSound([q EXCEPT !.at = "crashed"])
      BY <1>q DEF ReduceSound
    <3> QED
      BY <3>1, <3>2
  <2> QED
    BY <2>1, <2>2, <2>3, <2>4 DEF ReduceStep
<1>2. ReduceTyped'
  BY <1>q, <1>1 DEF ReduceTyped
<1>3. DirTyped'
  <2>1. CASE WriteOutput(r)
    <3>1. DOMAIN files' = DOMAIN files \cup {Out(PartitionOf[r])}
      BY <2>1, PutInPlace DEF WriteOutput
    <3>2. Out(PartitionOf[r]) \in Path
      BY PartitionOfAssumption, PathsAre
    <3> QED
      BY <1>q, <2>1, <3>1, <3>2 DEF WriteOutput, DirTyped
  <2>2. CASE ~ WriteOutput(r)
    BY <1>q, <2>2 DEF ReduceStep, StartReduce, OpenPart, CrashReduce, DirTyped
  <2> QED
    BY <2>1, <2>2
<1>4. UNCHANGED <<map, doneTasks, overlapped>>
  BY DEF ReduceStep, StartReduce, OpenPart, WriteOutput, CrashReduce
<1> QED
  BY <1>2, <1>3, <1>4 DEF Types, MapTyped

--------------------------------------------------------------------------------

(***************************************************************************)
(* What a step leaves alone.                                               *)
(***************************************************************************)
\* The step keeps every file but the spills, and the temporary files of parts.
PartsOnlyGrow == \A path \in DOMAIN files : path[1] # "spill" => path \in DOMAIN files'

\* The step changes nothing of task u.
Untouched(u) ==
  /\ \A path \in Path :
       path[1] # "out" /\ path[2] = u => (path \in DOMAIN files' <=> path \in DOMAIN files)
  /\ \A temp \in Temp : temp[1][2] = u => (temp \in temps' <=> temp \in temps)

\* A path is not a temporary file.
LEMMA PathsAreNotTemps ==
  ASSUME NEW x \in Path, NEW y \in Temp
  PROVE  x # y
<1>1. PICK k, u, n, p : x = <<k, u, n, p>>
  BY DEF Path
<1>2. PICK path, a : y = <<path, a>>
  BY DEF Temp
<1>3. 4 \in DOMAIN x /\ 4 \notin DOMAIN y
  BY <1>1, <1>2
<1> QED
  BY <1>3

\* Removing a spill of task t, or a temporary file for one.
LEMMA DeleteIsOwn ==
  ASSUME DirTyped, NEW t \in MapTask, NEW x, OwnSpill(x, t), Delete(x)
  PROVE  /\ PartsOnlyGrow
         /\ \A u : u # t => Untouched(u)
<1>1. DOMAIN files' = DOMAIN files \ {x} /\ temps' = temps \ {x}
  BY DeleteTyped
<1>2. CASE x \in Path /\ IsSpillOf(x, t)
  <2>1. PartsOnlyGrow
    BY <1>1, <1>2 DEF PartsOnlyGrow, IsSpillOf
  <2>2. x \notin Temp
    BY <1>2, PathsAreNotTemps
  <2>3. ASSUME NEW u, u # t
        PROVE  Untouched(u)
    BY <1>1, <1>2, <2>2, <2>3 DEF Untouched, IsSpillOf
  <2> QED
    BY <2>1, <2>3
<1>3. CASE x \in Temp /\ IsSpillOf(x[1], t)
  <2>1. x \notin Path
    BY <1>3, PathsAreNotTemps
  <2>2. PartsOnlyGrow
    BY <1>1, <2>1 DEF PartsOnlyGrow, DirTyped
  <2>3. ASSUME NEW u, u # t
        PROVE  Untouched(u)
    BY <1>1, <1>3, <2>1, <2>3 DEF Untouched, IsSpillOf
  <2> QED
    BY <2>2, <2>3
<1> QED
  BY <1>2, <1>3 DEF OwnSpill

\* An attempt leaves the files of other tasks alone, and removes no part.
LEMMA DirectoryOfOthers ==
  ASSUME Types, NEW a \in MapAttempt, MapStep(a)
  PROVE  /\ PartsOnlyGrow
         /\ \A u : u # TaskOf[a] => Untouched(u)
<1> DEFINE t == TaskOf[a]
<1>t. t \in MapTask
  OBVIOUS
<1>m. DirTyped /\ \A x \in map[a].todo : OwnSpill(x, t)
  BY DEF Types, MapTyped, Sound
<1>1. CASE UNCHANGED <<files, temps>>
  BY <1>1 DEF PartsOnlyGrow, Untouched
<1>2. CASE \E x \in map[a].todo : Delete(x)
  BY <1>t, <1>m, <1>2, DeleteIsOwn
<1>3. CASE files' = files /\ temps' = temps \cup {<<Target(a), a>>}
  <2>1. \A temp \in Temp : temp = <<Target(a), a>> => temp[1][2] = t
    BY TargetIs
  <2> QED
    BY <1>3, <2>1 DEF PartsOnlyGrow, Untouched
<1>4. CASE Place(Target(a), Content(a)) /\ temps' = temps \ {<<Target(a), a>>}
  <2>1. \A temp \in Temp : temp = <<Target(a), a>> => temp[1][2] = t
    BY TargetIs
  <2>2. DOMAIN files' = DOMAIN files \cup {Target(a)} /\ Target(a)[2] = t
    BY <1>4, PutInPlace, TargetIs
  <2> QED
    BY <1>4, <2>1, <2>2 DEF PartsOnlyGrow, Untouched
<1>5. \/ UNCHANGED <<files, temps>>
      \/ \E x \in map[a].todo : Delete(x)
      \/ files' = files /\ temps' = temps \cup {<<Target(a), a>>}
      \/ Place(Target(a), Content(a)) /\ temps' = temps \ {<<Target(a), a>>}
  <2>1. CASE RemoveStale(a) \/ RemoveSpill(a)
    BY <2>1 DEF RemoveStale, RemoveSpill
  <2>2. CASE RenameTemp(a)
    BY <2>2 DEF RenameTemp
  <2>3. CASE CreateTemp(a)
    BY <2>3 DEF CreateTemp
  <2>4. CASE StartMap(a) \/ StaleRemoved(a) \/ ReadLine(a) \/ InputOver(a) \/ OpenSpill(a)
             \/ SpillsRemoved(a) \/ ReportMap(a) \/ CrashMap(a)
    BY <2>4 DEF StartMap, StaleRemoved, ReadLine, InputOver, OpenSpill, SpillsRemoved,
                ReportMap, CrashMap
  <2> QED
    BY <2>1, <2>2, <2>3, <2>4 DEF MapStep
<1> QED
  BY <1>1, <1>2, <1>3, <1>4, <1>5

\* A reducer leaves the directories of the map tasks alone.
LEMMA ReducersLeaveDirectories ==
  ASSUME Types, NEW r \in ReduceAttempt, ReduceStep(r)
  PROVE  /\ PartsOnlyGrow
         /\ \A u : Untouched(u)
         /\ UNCHANGED <<map, doneTasks, overlapped>>
<1>1. CASE WriteOutput(r)
  <2>1. DOMAIN files' = DOMAIN files \cup {Out(PartitionOf[r])} /\ temps' = temps
    BY <1>1, PutInPlace DEF WriteOutput
  <2>2. Out(PartitionOf[r])[1] = "out"
    BY DEF Out
  <2> QED
    BY <1>1, <2>1, <2>2 DEF PartsOnlyGrow, Untouched, WriteOutput
<1>2. CASE ~ WriteOutput(r)
  <2>1. UNCHANGED <<files, temps, map, doneTasks, overlapped>>
    BY <1>2 DEF ReduceStep, StartReduce, OpenPart, CrashReduce
  <2> QED
    BY <2>1 DEF PartsOnlyGrow, Untouched
<1> QED
  BY <1>1, <1>2

--------------------------------------------------------------------------------

(***************************************************************************)
(* Nothing is missed.                                                      *)
(***************************************************************************)
\* Attempt a has put its part of partition p in place.
HasPut(a, p) ==
  \/ map[a].at \in {"cleanup", "done", "reported"}
  \/ map[a].at \in {"final", "merge"} /\ p < map[a].part

PutParts ==
  \A a \in MapAttempt, p \in Partitions : HasPut(a, p) => Part(TaskOf[a], p) \in DOMAIN files

DoneParts == \A t \in doneTasks, p \in Partitions : Part(t, p) \in DOMAIN files

\* A reducer starts when all tasks are done, and finds every part.
ReducersGated ==
  \A r \in ReduceAttempt :
    /\ reduce[r].at # "new" => doneTasks = MapTask
    /\ Len(reduce[r].opened) = reduce[r].next - 1

PartsInv == PutParts /\ DoneParts /\ ReducersGated

\* A part that is in place stays there.
LEMMA PartsStay ==
  ASSUME PartsOnlyGrow, NEW t, NEW p, Part(t, p) \in DOMAIN files
  PROVE  Part(t, p) \in DOMAIN files'
  BY DEF PartsOnlyGrow, Part

\* A map attempt has put what it counts as put.
LEMMA PutPartsStep ==
  ASSUME Types, PutParts, NEW a \in MapAttempt, MapStep(a)
  PROVE  PutParts'
<1> DEFINE t == TaskOf[a]
           m == map[a]
<1>m. /\ Sound(m, t) /\ MapTyped
      /\ m.at \in MapLabel /\ m.part \in Partitions /\ m.spills \in Nat /\ m \in Fields(m)
  BY DEF Types, MapTyped, Sound, Fields
<1>0. PartsOnlyGrow
  BY DirectoryOfOthers
<1>1. ASSUME NEW p \in Partitions, HasPut(a, p)'
      PROVE  Part(t, p) \in DOMAIN files'
  <2>1. CASE HasPut(a, p)
    BY <2>1, <1>0, PartsStay DEF PutParts
  <2>2. CASE ~ HasPut(a, p)
    <3>1. CASE RenameTemp(a)
      <4>0. m.at \in Writers
        BY <3>1, <1>m DEF RenameTemp, Sound
      <4>1. Place(Target(a), Content(a)) /\ Become(a, AfterWrite(m, t))
        <5>1. CASE Fail(a)
          <6>1. Become(a, [m EXCEPT !.at = "failed", !.writing = FALSE])
            BY <5>1 DEF Fail
          <6>2. map'[a] = [m EXCEPT !.at = "failed", !.writing = FALSE]
            <7> DEFINE new == [m EXCEPT !.at = "failed", !.writing = FALSE]
            <7> HIDE DEF new
            <7>1. Become(a, new)
              BY <6>1 DEF new
            <7>2. map'[a] = new
              BY <1>m, <7>1, Becomes
            <7> QED
              BY <7>2 DEF new
          <6> QED
            BY <1>m, <6>2, <1>1 DEF HasPut, Fields
        <5> QED
          BY <3>1, <5>1 DEF RenameTemp
      <4>2. PICK n : n = AfterWrite(m, t) /\ map'[a] = n
        BY <1>m, <4>1, Becomes
      <4>3. /\ m.at \in {"final", "merge"}
            /\ p = m.part
        <5>1. CASE n = ToNextPart(m)
          <6>1. n.at = m.at /\ n.part = m.part + 1
            BY <1>m, <5>1 DEF ToNextPart, Fields
          <6> QED
            BY <1>m, <1>1, <2>2, <4>0, <4>2, <6>1 DEF HasPut, Writers, Partitions
        <5>2. CASE m.at = "spill" /\ n = AfterSpill(m)
          <6>1. n.at = "consume"
            BY <1>m, <5>2 DEF AfterSpill, Fields
          <6> QED
            BY <1>1, <4>2, <6>1 DEF HasPut
        <5>3. CASE m.part + 1 = NumReduce /\ m.at \in {"final", "merge"}
          BY <1>m, <2>2, <5>3 DEF HasPut, Partitions
        <5> QED
          BY <1>m, <4>0, <4>2, <5>1, <5>2, <5>3, AfterWriteCases
      <4>4. Target(a) = Part(t, p)
        BY <4>3 DEF Target
      <4>5. DOMAIN files' = DOMAIN files \cup {Target(a)}
        BY <4>1, PutInPlace
      <4> QED
        BY <4>4, <4>5
    <3>2. CASE ~ RenameTemp(a)
      <4>1. PICK n : Become(a, n) /\ ~ \/ n.at \in {"cleanup", "done", "reported"}
                                       \/ n.at \in {"final", "merge"} /\ p < n.part
        <5>f. [m EXCEPT !.at = "failed", !.writing = FALSE].at = "failed"
          BY <1>m DEF Fields
        <5>1. CASE StartMap(a)
          <6>1. PICK x : Become(a, [m EXCEPT !.at = "stale", !.todo = x])
            BY <5>1 DEF StartMap
          <6>2. [m EXCEPT !.at = "stale", !.todo = x].at = "stale"
            BY <1>m DEF Fields
          <6> QED
            BY <6>1, <6>2
        <5>2. CASE RemoveStale(a)
          <6>1. CASE Fail(a)
            BY <5>f, <6>1 DEF Fail
          <6>2. CASE ~ Fail(a)
            <7>1. PICK x : Become(a, [m EXCEPT !.todo = x]) /\ m.at = "stale"
              BY <5>2, <6>2 DEF RemoveStale
            <7>2. [m EXCEPT !.todo = x].at = m.at
              BY <1>m DEF Fields
            <7> QED
              BY <7>1, <7>2
          <6> QED
            BY <6>1, <6>2
        <5>3. CASE StaleRemoved(a)
          <6>1. [m EXCEPT !.at = "consume"].at = "consume"
            BY <1>m DEF Fields
          <6> QED
            BY <5>3, <6>1 DEF StaleRemoved
        <5>4. CASE ReadLine(a)
          <6>1. PICK x, y, z : Become(a, [m EXCEPT !.line = x, !.buffer = y, !.at = z])
                              /\ z \in {"consume", "spill"}
            BY <5>4 DEF ReadLine
          <6>2. [m EXCEPT !.line = x, !.buffer = y, !.at = z].at = z
            BY <1>m DEF Fields
          <6> QED
            BY <6>1, <6>2
        <5>5. CASE InputOver(a)
          <6>1. PICK n : /\ Become(a, n)
                         /\ n.at \in {"final", "spill", "merge"}
                         /\ n.part = m.part
                         /\ m.at = "consume"
            BY <1>m, <5>5 DEF InputOver, Fields
          <6>2. m.part = 0
            BY <1>m, <6>1 DEF Sound
          <6> QED
            BY <6>1, <6>2 DEF Partitions
        <5>6. CASE OpenSpill(a)
          <6>1. CASE Fail(a)
            BY <5>f, <6>1 DEF Fail
          <6>2. CASE ~ Fail(a)
            <7>1. PICK x : Become(a, [m EXCEPT !.opened = x]) /\ m.at = "merge"
              BY <5>6, <6>2 DEF OpenSpill
            <7>2. [m EXCEPT !.opened = x].at = m.at /\ [m EXCEPT !.opened = x].part = m.part
              BY <1>m DEF Fields
            <7> QED
              BY <2>2, <7>1, <7>2 DEF HasPut
          <6> QED
            BY <6>1, <6>2
        <5>7. CASE CreateTemp(a)
          <6>1. /\ [m EXCEPT !.writing = TRUE].at = m.at
                /\ [m EXCEPT !.writing = TRUE].part = m.part
            BY <1>m DEF Fields
          <6> QED
            BY <2>2, <5>7, <6>1 DEF CreateTemp, HasPut
        <5>8. CASE RemoveSpill(a) \/ SpillsRemoved(a) \/ ReportMap(a)
          BY <2>2, <5>8 DEF RemoveSpill, SpillsRemoved, ReportMap, HasPut
        <5>9. CASE CrashMap(a)
          <6>1. [m EXCEPT !.at = "crashed", !.writing = FALSE].at = "crashed"
            BY <1>m DEF Fields
          <6> QED
            BY <5>9, <6>1 DEF CrashMap
        <5> QED
          BY <3>2, <5>1, <5>2, <5>3, <5>4, <5>5, <5>6, <5>7, <5>8, <5>9 DEF MapStep
      <4>2. map'[a] = n
        BY <1>m, <4>1, Becomes
      <4> QED
        BY <1>1, <4>1, <4>2 DEF HasPut
    <3> QED
      BY <3>1, <3>2
  <2> QED
    BY <2>1, <2>2
<1>2. ASSUME NEW b \in MapAttempt \ {a}
      PROVE  map'[b] = map[b]
  <2>1. \E n : Become(a, n)
    BY DEF MapStep, StartMap, RemoveStale, StaleRemoved, ReadLine, InputOver, OpenSpill, CreateTemp,
           RenameTemp, RemoveSpill, SpillsRemoved, ReportMap, CrashMap, Fail
  <2> QED
    BY <1>m, <2>1, Becomes
<1>3. ASSUME NEW b \in MapAttempt \ {a}, NEW p \in Partitions, HasPut(b, p)'
      PROVE  Part(TaskOf[b], p) \in DOMAIN files'
  <2>1. HasPut(b, p)
    BY <1>2, <1>3 DEF HasPut
  <2> QED
    BY <2>1, <1>0, PartsStay DEF PutParts
<1> QED
  BY <1>1, <1>3 DEF PutParts

\* And so has every task the coordinator has a success of.
LEMMA MapPartsInv ==
  ASSUME Types, PartsInv, NEW a \in MapAttempt, MapStep(a)
  PROVE  PartsInv'
<1>1. PutParts'
  BY PutPartsStep DEF PartsInv
<1>2. PartsOnlyGrow
  BY DirectoryOfOthers
<1>3. CASE ReportMap(a)
  <2>1. \A p \in Partitions : HasPut(a, p)
    BY <1>3 DEF ReportMap, HasPut
  <2>2. DoneParts'
    BY <1>2, <1>3, <2>1, PartsStay DEF PartsInv, PutParts, DoneParts, ReportMap
  <2>3. reduce' = reduce /\ (doneTasks = MapTask => doneTasks' = MapTask)
    BY <1>3 DEF ReportMap
  <2> QED
    BY <1>1, <2>2, <2>3 DEF PartsInv, ReducersGated
<1>4. CASE ~ ReportMap(a)
  <2>1. UNCHANGED <<reduce, doneTasks>>
    BY <1>4 DEF MapStep, StartMap, RemoveStale, StaleRemoved, ReadLine, InputOver, OpenSpill,
                CreateTemp, RenameTemp, RemoveSpill, SpillsRemoved, CrashMap
  <2>2. DoneParts'
    BY <1>2, <2>1, PartsStay DEF PartsInv, DoneParts
  <2> QED
    BY <1>1, <2>1, <2>2 DEF PartsInv, ReducersGated
<1> QED
  BY <1>3, <1>4

\* A reducer opens a part for each task it goes past.
LEMMA ReducePartsInv ==
  ASSUME Types, PartsInv, NEW r \in ReduceAttempt, ReduceStep(r)
  PROVE  PartsInv'
<1> DEFINE q == reduce[r]
<1>q. ReduceTyped /\ ReduceSound(q) /\ q.next \in Nat /\ IsSeqOfAny(q.opened)
  BY DEF Types, ReduceTyped, ReduceSound
<1>1. PartsOnlyGrow /\ UNCHANGED <<map, doneTasks>>
  BY ReducersLeaveDirectories
<1>2. PutParts' /\ DoneParts'
  BY <1>1, PartsStay DEF PartsInv, PutParts, DoneParts, HasPut
<1>3. PICK n : /\ reduce' = [reduce EXCEPT ![r] = n]
               /\ doneTasks = MapTask
               /\ Len(n.opened) = n.next - 1
  <2>0. Len(q.opened) = q.next - 1
    BY DEF PartsInv, ReducersGated
  <2>1. CASE StartReduce(r)
    <3>1. /\ [q EXCEPT !.at = "open"].opened = q.opened
          /\ [q EXCEPT !.at = "open"].next = q.next
      BY <1>q DEF ReduceSound
    <3> QED
      BY <2>0, <2>1, <3>1 DEF StartReduce
  <2>2. CASE OpenPart(r)
    <3>1. q.at = "open" /\ q.next \in MapTask
      BY <2>2 DEF OpenPart
    <3>2. doneTasks = MapTask
      BY <3>1 DEF PartsInv, ReducersGated
    <3>3. Part(q.next, PartitionOf[r]) \in DOMAIN files
      BY <3>1, <3>2, PartitionOfAssumption DEF PartsInv, DoneParts
    <3> DEFINE opened == Append(q.opened, files[Part(q.next, PartitionOf[r])])
               n == [q EXCEPT !.next = @ + 1, !.opened = opened]
    <3>4. reduce' = [reduce EXCEPT ![r] = n]
      BY <2>2, <3>3 DEF OpenPart
    <3>5. Len(opened) = q.next + 1 - 1
      BY <1>q, <2>0, AppendIsSeq
    <3>6. n.opened = opened /\ n.next = q.next + 1
      <4> HIDE DEF opened
      <4> QED
        BY <1>q DEF ReduceSound
    <3>7. Len(n.opened) = n.next - 1
      <4> HIDE DEF n, opened
      <4> QED
        BY <1>q, <3>5, <3>6
    <3> HIDE DEF n, opened
    <3> QED
      BY <3>2, <3>4, <3>7
  <2>3. CASE WriteOutput(r) \/ CrashReduce(r)
    <3>1. q.at # "new"
      BY <2>3 DEF WriteOutput, CrashReduce
    <3>2. doneTasks = MapTask
      BY <3>1 DEF PartsInv, ReducersGated
    <3>3. PICK at : reduce' = [reduce EXCEPT ![r] = [q EXCEPT !.at = at]]
      BY <2>3 DEF WriteOutput, CrashReduce
    <3>4. /\ [q EXCEPT !.at = at].opened = q.opened
          /\ [q EXCEPT !.at = at].next = q.next
      BY <1>q DEF ReduceSound
    <3> QED
      BY <2>0, <3>2, <3>3, <3>4
  <2> QED
    BY <2>1, <2>2, <2>3 DEF ReduceStep
<1>4. ReducersGated'
  BY <1>q, <1>1, <1>3 DEF PartsInv, ReducersGated, ReduceTyped
<1> QED
  BY <1>2, <1>4 DEF PartsInv

--------------------------------------------------------------------------------

(***************************************************************************)
(* An attempt that has the directory of its task to itself.                *)
(***************************************************************************)
SpillFiles(t) == {path \in DOMAIN files : IsSpillOf(path, t)}
SpillTemps(t) == {temp \in temps : IsSpillOf(temp[1], t)}

\* The attempt has written run n of partition p.
Written(m, n, p) == n < m.spills \/ (m.at = "spill" /\ n = m.spills /\ p < m.part)

SpillsAreWritten(a) ==
  \A n \in Nat, p \in Partitions :
    Spill(TaskOf[a], n, p) \in DOMAIN files <=> Written(map[a], n, p)

\* No temporary file is a spill's but the one the attempt is writing.
TempIsOwn(a) ==
  /\ \A temp \in SpillTemps(TaskOf[a]) : map[a].writing /\ temp = <<Target(a), a>>
  /\ map[a].writing => <<Target(a), a>> \in temps

\* What is in the directory, by where the attempt is.
Tidy(a) ==
  /\ map[a].at # "failed"
  /\ map[a].at = "stale" => map[a].todo = SpillFiles(TaskOf[a]) \cup SpillTemps(TaskOf[a])
  /\ map[a].at \in {"consume"} \cup Writers => SpillsAreWritten(a) /\ TempIsOwn(a)
  /\ map[a].at = "final" => map[a].spills = 0
  /\ map[a].at = "cleanup" =>
       SpillFiles(TaskOf[a]) \subseteq map[a].todo /\ SpillTemps(TaskOf[a]) = {}

NoSpills(a) == SpillFiles(TaskOf[a]) = {} /\ SpillTemps(TaskOf[a]) = {}

\* Nobody else runs while an attempt has the directory to itself.
Exclusive ==
  \A a \in MapAttempt \ overlapped : Running(a) =>
    \A b \in MapAttempt \ {a} : TaskOf[b] = TaskOf[a] => ~ Running(b)

Alone == Exclusive /\ \A a \in MapAttempt \ overlapped : Tidy(a)

\* A step of an attempt changes no other attempt.
LEMMA OthersStay ==
  ASSUME Types, NEW a \in MapAttempt, MapStep(a)
  PROVE  /\ \A b \in MapAttempt \ {a} : map'[b] = map[b]
         /\ overlapped \subseteq overlapped'
<1>1. \E n : Become(a, n)
  BY DEF MapStep, StartMap, RemoveStale, StaleRemoved, ReadLine, InputOver, OpenSpill, CreateTemp,
         RenameTemp, RemoveSpill, SpillsRemoved, ReportMap, CrashMap, Fail
<1>2. overlapped \subseteq overlapped'
  BY DEF MapStep, StartMap, RemoveStale, StaleRemoved, ReadLine, InputOver, OpenSpill, CreateTemp,
         RenameTemp, RemoveSpill, SpillsRemoved, ReportMap, CrashMap
<1> QED
  BY <1>1, <1>2, Becomes DEF Types

\* Starting is the only step that makes an attempt run.
LEMMA StartIsStart ==
  ASSUME Types, NEW a \in MapAttempt, MapStep(a), ~ StartMap(a), Running(a)'
  PROVE  Running(a)
<1>1. CASE ReportMap(a)
  <2>1. map' = [map EXCEPT ![a] = [map[a] EXCEPT !.at = "reported"]]
    BY <1>1 DEF ReportMap, Become
  <2>2. map'[a].at = "reported"
    BY <2>1 DEF Types, MapTyped, Sound, Fields
  <2> QED
    BY <2>2 DEF Running
<1>2. CASE RenameTemp(a)
  BY <1>2 DEF RenameTemp, Types, MapTyped, Sound, Writers, Running
<1>3. CASE ~ ReportMap(a) /\ ~ RenameTemp(a)
  BY <1>3 DEF MapStep, RemoveStale, StaleRemoved, ReadLine, InputOver, OpenSpill, CreateTemp,
              RemoveSpill, SpillsRemoved, CrashMap, Running
<1> QED
  BY <1>1, <1>2, <1>3

\* Attempts that run at the same time are marked.
LEMMA ExclusiveStep ==
  ASSUME Types, Exclusive, NEW c \in MapAttempt, MapStep(c)
  PROVE  Exclusive'
<1>0. /\ \A b \in MapAttempt \ {c} : map'[b] = map[b]
      /\ overlapped \subseteq overlapped'
  BY OthersStay
<1>1. CASE ~ StartMap(c)
  <2>1. \A b \in MapAttempt : Running(b)' => Running(b)
    BY <1>0, <1>1, StartIsStart DEF Running
  <2> QED
    BY <1>0, <2>1 DEF Exclusive
<1>2. CASE StartMap(c)
  <2> DEFINE others == {b \in MapAttempt \ {c} : TaskOf[b] = TaskOf[c] /\ Running(b)}
  <2>1. overlapped' = IF others = {} THEN overlapped ELSE overlapped \cup others \cup {c}
    BY <1>2 DEF StartMap
  <2>2. SUFFICES ASSUME NEW a \in MapAttempt \ overlapped', Running(a)',
                        NEW b \in MapAttempt \ {a}, TaskOf[b] = TaskOf[a], Running(b)'
                 PROVE  FALSE
    BY DEF Exclusive
  <2>3. a \notin overlapped /\ b \in MapAttempt
    BY <1>0, <2>2
  <2>4. CASE a = c
    <3>1. Running(b)
      BY <1>0, <2>2, <2>4 DEF Running
    <3>2. b \in others
      BY <2>2, <2>4, <3>1
    <3> QED
      BY <2>1, <2>2, <2>4, <3>2
  <2>5. CASE b = c
    <3>1. Running(a)
      BY <1>0, <2>2, <2>5 DEF Running
    <3>2. a \in others
      BY <2>2, <2>5, <3>1
    <3> QED
      BY <2>1, <2>2, <3>2
  <2>6. CASE a # c /\ b # c
    <3>1. Running(a) /\ Running(b)
      BY <1>0, <2>2, <2>6 DEF Running
    <3> QED
      BY <2>2, <2>3, <3>1 DEF Exclusive
  <2> QED
    BY <2>4, <2>5, <2>6
<1> QED
  BY <1>1, <1>2

\* Steps that leave the directory and the attempt alone.
LEMMA TidyKept ==
  ASSUME Types, Types', NEW a \in MapAttempt, Tidy(a), Untouched(TaskOf[a]), map'[a] = map[a]
  PROVE  Tidy(a)'
<1> DEFINE t == TaskOf[a]
<1>1. /\ DirTyped /\ DirTyped' /\ t \in MapTask
      /\ map[a].spills \in Nat /\ map[a].part \in Partitions
  BY DEF Types, MapTyped, Sound, Fields
<1>2. SpillFiles(t)' = SpillFiles(t)
  BY <1>1 DEF SpillFiles, Untouched, DirTyped, IsSpillOf
<1>3. SpillTemps(t)' = SpillTemps(t)
  BY <1>1 DEF SpillTemps, Untouched, DirTyped, IsSpillOf
<1>4. SpillsAreWritten(a) => SpillsAreWritten(a)'
  <2>1. \A n \in Nat, p \in Partitions :
          Spill(t, n, p) \in DOMAIN files' <=> Spill(t, n, p) \in DOMAIN files
    BY <1>1, PathsAre DEF Untouched, Spill
  <2> QED
    BY <2>1 DEF SpillsAreWritten, Written
<1>5. TempIsOwn(a) => TempIsOwn(a)'
  <2>1. Target(a)' = Target(a)
    BY DEF Target
  <2>2. <<Target(a), a>> \in Temp /\ <<Target(a), a>>[1][2] = t
    BY TargetIs DEF Temp
  <2>3. <<Target(a), a>> \in temps => <<Target(a), a>> \in temps'
    BY <2>2 DEF Untouched
  <2> QED
    BY <1>3, <2>1, <2>3 DEF TempIsOwn
<1> QED
  BY <1>2, <1>3, <1>4, <1>5 DEF Tidy

\* Spills of different runs or partitions are different files, and none is a part.
LEMMA SpillsDiffer ==
  ASSUME NEW t
  PROVE  /\ \A n, p, k, q : Spill(t, n, p) = Spill(t, k, q) => n = k /\ p = q
         /\ \A n, p, q : Spill(t, n, p) # Part(t, q)
         /\ \A n, p : IsSpillOf(Spill(t, n, p), t)
         /\ \A q : ~ IsSpillOf(Part(t, q), t)
  BY DEF Spill, Part, IsSpillOf

\* If no run has been written there is no spill.
LEMMA NothingWritten ==
  ASSUME Types, NEW a \in MapAttempt, SpillsAreWritten(a),
         \A n \in Nat, p \in Partitions : ~ Written(map[a], n, p)
  PROVE  SpillFiles(TaskOf[a]) = {}
<1>1. SUFFICES ASSUME NEW path \in SpillFiles(TaskOf[a])
               PROVE  FALSE
  OBVIOUS
<1>2. path \in Path /\ IsSpillOf(path, TaskOf[a]) /\ path \in DOMAIN files
  BY <1>1 DEF SpillFiles, Types, DirTyped
<1>3. PICK n \in Nat, p \in Partitions : path = Spill(TaskOf[a], n, p)
  BY <1>2, SpillsAre
<1> QED
  BY <1>2, <1>3 DEF SpillsAreWritten

\* An attempt alone in its directory keeps it tidy: the steps up to the first line.
LEMMA TidyStart ==
  ASSUME Types, NEW a \in MapAttempt, Tidy(a),
         StartMap(a) \/ RemoveStale(a) \/ StaleRemoved(a)
  PROVE  Tidy(a)' /\ map'[a].at # "done"
<1> DEFINE t == TaskOf[a]
           m == map[a]
<1>m. MapTyped /\ Sound(m, t) /\ m \in Fields(m) /\ DirTyped /\ t \in MapTask
      /\ m.spills \in Nat /\ m.part \in Partitions
  BY DEF Types, MapTyped, Sound, Fields
<1>1. CASE StartMap(a)
  <2> DEFINE todo == SpillFiles(t) \cup SpillTemps(t)
             n == [m EXCEPT !.at = "stale", !.todo = todo]
  <2>1. Become(a, n) /\ UNCHANGED <<files, temps>>
    BY <1>1 DEF StartMap, SpillFiles, SpillTemps
  <2>2. n.at = "stale" /\ n.todo = todo
    <3> HIDE DEF todo
    <3> QED
      BY <1>m DEF Fields
  <2> HIDE DEF n
  <2>3. map'[a] = n
    BY <1>m, <2>1, Becomes
  <2>4. todo' = todo
    BY <2>1 DEF SpillFiles, SpillTemps
  <2> QED
    BY <2>2, <2>3, <2>4 DEF Tidy, Writers
<1>2. CASE RemoveStale(a)
  <2>0. m.at = "stale" /\ m.todo = SpillFiles(t) \cup SpillTemps(t)
    BY <1>2 DEF RemoveStale, Tidy
  <2>1. PICK x \in m.todo : Delete(x) /\ Become(a, [m EXCEPT !.todo = @ \ {x}])
    BY <1>2, <2>0 DEF RemoveStale, SpillFiles, SpillTemps
  <2> DEFINE n == [m EXCEPT !.todo = @ \ {x}]
  <2>2. n.at = "stale" /\ n.todo = m.todo \ {x}
    BY <1>m, <2>0 DEF Fields
  <2>3. Become(a, n)
    BY <2>1
  <2> HIDE DEF n
  <2>4. map'[a] = n
    BY <1>m, <2>3, Becomes
  <2>5. DOMAIN files' = DOMAIN files \ {x} /\ temps' = temps \ {x}
    BY <1>m, <2>1, DeleteTyped
  <2>6. (SpillFiles(t) \cup SpillTemps(t))' = (SpillFiles(t) \cup SpillTemps(t)) \ {x}
    BY <2>5 DEF SpillFiles, SpillTemps
  <2> QED
    BY <2>0, <2>2, <2>4, <2>6 DEF Tidy, Writers
<1>3. CASE StaleRemoved(a)
  <2>0. m.at = "stale" /\ SpillFiles(t) = {} /\ SpillTemps(t) = {} /\ m.spills = 0 /\ ~ m.writing
    BY <1>3, <1>m DEF StaleRemoved, Tidy, Sound, Writers
  <2> DEFINE n == [m EXCEPT !.at = "consume"]
  <2>1. Become(a, n) /\ UNCHANGED <<files, temps>>
    BY <1>3 DEF StaleRemoved
  <2>2. n.at = "consume" /\ n.spills = 0 /\ ~ n.writing
    BY <1>m, <2>0 DEF Fields
  <2> HIDE DEF n
  <2>3. map'[a] = n
    BY <1>m, <2>1, Becomes
  <2>4. SpillsAreWritten(a)'
    <3>1. ASSUME NEW k \in Nat, NEW p \in Partitions
          PROVE  Spill(t, k, p) \notin DOMAIN files
      BY <2>0, SpillsDiffer DEF SpillFiles
    <3>2. ASSUME NEW k \in Nat, NEW p \in Partitions
          PROVE  ~ Written(n, k, p)
      BY <2>2 DEF Written
    <3> QED
      BY <2>1, <2>3, <3>1, <3>2 DEF SpillsAreWritten
  <2>5. TempIsOwn(a)'
    BY <2>0, <2>1, <2>2, <2>3 DEF TempIsOwn, SpillTemps
  <2> QED
    BY <2>2, <2>3, <2>4, <2>5 DEF Tidy
<1> QED
  BY <1>1, <1>2, <1>3

\* The same, while it reads lines and opens runs.
LEMMA TidyReading ==
  ASSUME Types, NEW a \in MapAttempt, Tidy(a),
         ReadLine(a) \/ InputOver(a) \/ OpenSpill(a)
  PROVE  Tidy(a)' /\ map'[a].at # "done"
<1> DEFINE t == TaskOf[a]
           m == map[a]
<1>m. MapTyped /\ Sound(m, t) /\ m \in Fields(m) /\ t \in MapTask
      /\ m.spills \in Nat /\ m.part \in Partitions
  BY DEF Types, MapTyped, Sound, Fields
<1>u. UNCHANGED <<files, temps>>
  BY DEF ReadLine, InputOver, OpenSpill
<1>1. SUFFICES \E n : /\ Become(a, n)
                      /\ n.at \in {"consume"} \cup Writers
                      /\ n.at = "final" => n.spills = 0
                      /\ n.writing = m.writing /\ n.spills = m.spills /\ n.part = m.part
                      /\ m.writing => n.at = m.at
                      /\ m.at \in {"consume"} \cup Writers
                      /\ n.at = "spill" \/ m.at = "spill" => m.part = 0
  <2>1. PICK n : /\ Become(a, n)
                 /\ n.at \in {"consume"} \cup Writers
                 /\ n.at = "final" => n.spills = 0
                 /\ n.writing = m.writing /\ n.spills = m.spills /\ n.part = m.part
                 /\ m.writing => n.at = m.at
                 /\ m.at \in {"consume"} \cup Writers
                 /\ n.at = "spill" \/ m.at = "spill" => m.part = 0
    BY <1>1
  <2>2. map'[a] = n
    BY <1>m, <2>1, Becomes
  <2>3. SpillsAreWritten(a) /\ TempIsOwn(a)
    BY <2>1 DEF Tidy
  <2>4. SpillsAreWritten(a)'
    <3>1. ASSUME NEW k \in Nat, NEW p \in Partitions
          PROVE  Written(n, k, p) <=> Written(m, k, p)
      BY <2>1 DEF Written, Partitions
    <3> QED
      BY <1>u, <2>2, <2>3, <3>1 DEF SpillsAreWritten
  <2>5. TempIsOwn(a)'
    <3>1. m.writing => Target(a)' = Target(a)
      BY <2>1, <2>2 DEF Target
    <3> QED
      BY <1>u, <2>1, <2>2, <2>3, <3>1 DEF TempIsOwn, SpillTemps
  <2> QED
    BY <2>1, <2>2, <2>4, <2>5 DEF Tidy, Writers
<1>2. CASE ReadLine(a)
  <2>1. m.at = "consume" /\ m.part = 0 /\ ~ m.writing
    BY <1>2, <1>m DEF ReadLine, Sound, Writers
  <2>2. PICK x, y, z : /\ Become(a, [m EXCEPT !.line = x, !.buffer = y, !.at = z])
                       /\ z \in {"consume", "spill"}
    BY <1>2, <2>1 DEF ReadLine
  <2> DEFINE n == [m EXCEPT !.line = x, !.buffer = y, !.at = z]
  <2>3. n.at = z /\ n.writing = m.writing /\ n.spills = m.spills /\ n.part = m.part
    BY <1>m DEF Fields
  <2>4. Become(a, n)
    BY <2>2
  <2> HIDE DEF n
  <2> QED
    BY <2>1, <2>2, <2>3, <2>4 DEF Writers
<1>3. CASE InputOver(a)
  <2>1. m.at = "consume" /\ m.part = 0 /\ ~ m.writing
    BY <1>3, <1>m DEF InputOver, Sound, Writers
  <2> DEFINE z == CASE m.spills = 0 -> "final"
                    [] m.spills > 0 /\ m.buffer # <<>> -> "spill"
                    [] OTHER -> "merge"
             n == [m EXCEPT !.at = z]
  <2>2. Become(a, n)
    BY <1>3 DEF InputOver
  <2>3. z \in {"final", "spill", "merge"} /\ (z = "final" => m.spills = 0)
    BY <1>m
  <2> HIDE DEF z
  <2>4. n.at = z /\ n.writing = m.writing /\ n.spills = m.spills /\ n.part = m.part
    BY <1>m DEF Fields
  <2> HIDE DEF n
  <2> QED
    BY <2>1, <2>2, <2>3, <2>4 DEF Writers
<1>4. CASE OpenSpill(a)
  <2>1. m.at = "merge" /\ ~ m.writing /\ Len(m.opened) < m.spills
    BY <1>4 DEF OpenSpill
  <2>2. Len(m.opened) \in Nat
    BY <1>m, AppendIsSeq DEF Sound
  <2>3. Spill(t, Len(m.opened), m.part) \in DOMAIN files
    BY <1>m, <2>1, <2>2 DEF Tidy, Writers, SpillsAreWritten, Written
  <2>4. PICK x : Become(a, [m EXCEPT !.opened = x])
    BY <1>4, <2>3 DEF OpenSpill
  <2> DEFINE n == [m EXCEPT !.opened = x]
  <2>5. n.at = m.at /\ n.writing = m.writing /\ n.spills = m.spills /\ n.part = m.part
    BY <1>m DEF Fields
  <2>6. Become(a, n)
    BY <2>4
  <2> HIDE DEF n
  <2> QED
    BY <2>1, <2>5, <2>6 DEF Writers
<1> QED
  BY <1>2, <1>3, <1>4

\* The same, while it writes.
LEMMA TidyWriting ==
  ASSUME Types, Types', NEW a \in MapAttempt, Tidy(a), CreateTemp(a) \/ RenameTemp(a)
  PROVE  Tidy(a)' /\ (map'[a].at = "done" => NoSpills(a)')
<1> DEFINE t == TaskOf[a]
           m == map[a]
<1>m. MapTyped /\ Sound(m, t) /\ m \in Fields(m) /\ DirTyped /\ t \in MapTask
      /\ m.spills \in Nat /\ m.part \in Partitions
  BY DEF Types, MapTyped, Sound, Fields
<1>w. m.at \in Writers
  BY <1>m DEF CreateTemp, RenameTemp, Sound, Writers
<1>t. SpillsAreWritten(a) /\ TempIsOwn(a)
  BY <1>w DEF Tidy
<1>1. CASE CreateTemp(a)
  <2> DEFINE n == [m EXCEPT !.writing = TRUE]
  <2>1. /\ Become(a, n) /\ files' = files /\ ~ m.writing
        /\ temps' = temps \cup {<<Target(a), a>>}
    BY <1>1 DEF CreateTemp
  <2>2. n.at = m.at /\ n.writing = TRUE /\ n.spills = m.spills /\ n.part = m.part
    BY <1>m DEF Fields
  <2> HIDE DEF n
  <2>3. map'[a] = n
    BY <1>m, <2>1, Becomes
  <2>4. Target(a)' = Target(a)
    BY <2>2, <2>3 DEF Target
  <2>5. TempIsOwn(a)'
    <3>1. SpillTemps(t) = {}
      BY <1>t, <2>1 DEF TempIsOwn
    <3> QED
      BY <2>1, <2>2, <2>3, <2>4, <3>1 DEF TempIsOwn, SpillTemps
  <2>6. SpillsAreWritten(a)'
    BY <1>t, <2>1, <2>2, <2>3 DEF SpillsAreWritten, Written
  <2> QED
    BY <1>w, <2>2, <2>3, <2>5, <2>6 DEF Tidy, Writers
<1>2. CASE RenameTemp(a)
  <2>1. PICK n : n = AfterWrite(m, t)
    OBVIOUS
  <2>2. /\ Place(Target(a), Content(a)) /\ temps' = temps \ {<<Target(a), a>>}
        /\ Become(a, n) /\ m.writing
    BY <1>2, <1>t, <2>1 DEF RenameTemp, TempIsOwn
  <2>3. map'[a] = n
    BY <1>m, <2>2, Becomes
  <2>4. DOMAIN files' = DOMAIN files \cup {Target(a)}
    BY <2>2, PutInPlace
  <2>5. SpillTemps(t)' = {}
    BY <1>t, <2>2 DEF TempIsOwn, SpillTemps
  <2>6. ASSUME ~ n.writing
        PROVE  TempIsOwn(a)'
    BY <2>3, <2>5, <2>6 DEF TempIsOwn
  <2>7. ASSUME m.at # "spill", NEW k \in Nat, NEW p \in Partitions
        PROVE  Spill(t, k, p) \in DOMAIN files' <=> k < m.spills
    <3>1. Spill(t, k, p) # Target(a)
      BY <2>7, SpillsDiffer DEF Target
    <3> QED
      BY <1>t, <2>4, <2>7, <3>1 DEF SpillsAreWritten, Written
  <2>8. ASSUME m.at = "spill", NEW k \in Nat, NEW p \in Partitions
        PROVE  Spill(t, k, p) \in DOMAIN files' <=>
                 \/ k < m.spills
                 \/ k = m.spills /\ p < m.part + 1
    <3>1. Spill(t, k, p) = Target(a) <=> k = m.spills /\ p = m.part
      BY <2>8, SpillsDiffer DEF Target
    <3>2. p < m.part + 1 <=> p < m.part \/ p = m.part
      BY <1>m DEF Partitions
    <3> QED
      BY <1>t, <2>4, <2>8, <3>1, <3>2 DEF SpillsAreWritten, Written
  <2>9. CASE m.part + 1 \in Partitions /\ n = ToNextPart(m)
    <3>1. n.at = m.at /\ n.part = m.part + 1 /\ n.spills = m.spills /\ n.writing = FALSE
      BY <1>m, <2>9 DEF ToNextPart, Fields
    <3>2. SpillsAreWritten(a)'
      <4>1. CASE m.at = "spill"
        BY <2>3, <2>8, <3>1, <4>1 DEF SpillsAreWritten, Written
      <4>2. CASE m.at # "spill"
        BY <2>3, <2>7, <3>1, <4>2 DEF SpillsAreWritten, Written
      <4> QED
        BY <4>1, <4>2
    <3> QED
      BY <1>w, <2>3, <2>6, <3>1, <3>2 DEF Tidy, Writers
  <2>10. CASE m.part + 1 = NumReduce /\ m.at = "spill" /\ n = AfterSpill(m)
    <3>1. n.at = "consume" /\ n.spills = m.spills + 1 /\ n.writing = FALSE
      BY <1>m, <2>10 DEF AfterSpill, Fields
    <3>2. SpillsAreWritten(a)'
      <4>1. ASSUME NEW k \in Nat, NEW p \in Partitions
            PROVE  Spill(t, k, p) \in DOMAIN files' <=> Written(n, k, p)
        <5>1. Written(n, k, p) <=> \/ k < m.spills
                                   \/ k = m.spills /\ p < m.part + 1
          BY <1>m, <2>10, <3>1 DEF Written, Partitions
        <5> QED
          BY <2>8, <2>10, <5>1
      <4> QED
        BY <2>3, <4>1 DEF SpillsAreWritten
    <3> QED
      BY <2>3, <2>6, <3>1, <3>2 DEF Tidy, Writers
  <2>11. CASE m.at = "final" /\ n = AfterFinal(m)
    <3>1. n.at = "done" /\ n.writing = FALSE
      BY <1>m, <2>11 DEF AfterFinal, Fields
    <3>2. m.spills = 0
      BY <2>11 DEF Tidy
    <3>3. SpillFiles(t)' = {}
      <4>1. SUFFICES ASSUME NEW path \in DOMAIN files', IsSpillOf(path, t)
                     PROVE  FALSE
        BY DEF SpillFiles
      <4>2. path \in Path
        BY <4>1 DEF Types, DirTyped
      <4>3. PICK k \in Nat, p \in Partitions : path = Spill(t, k, p)
        BY <1>m, <4>1, <4>2, SpillsAre
      <4> QED
        BY <2>7, <2>11, <3>2, <4>1, <4>3
    <3> QED
      BY <2>3, <2>5, <3>1, <3>3 DEF Tidy, NoSpills, Writers
  <2>12. CASE m.at = "merge" /\ n = AfterMerge(m, t)
    <3>1. n.at = "cleanup" /\ n.todo = AllSpills(m, t)
      BY <1>m, <2>12 DEF AfterMerge, Fields
    <3>2. SpillFiles(t)' \subseteq AllSpills(m, t)
      <4>1. SUFFICES ASSUME NEW path \in DOMAIN files', IsSpillOf(path, t)
                     PROVE  path \in AllSpills(m, t)
        BY DEF SpillFiles
      <4>2. path \in Path
        BY <4>1 DEF Types, DirTyped
      <4>3. PICK k \in Nat, p \in Partitions : path = Spill(t, k, p)
        BY <1>m, <4>1, <4>2, SpillsAre
      <4>4. k \in 0 .. m.spills - 1
        BY <1>m, <2>7, <2>12, <4>1, <4>3
      <4> QED
        BY <4>3, <4>4 DEF AllSpills
    <3> QED
      BY <2>3, <2>5, <3>1, <3>2 DEF Tidy, Writers
  <2> QED
    BY <1>m, <1>w, <2>1, <2>9, <2>10, <2>11, <2>12, AfterWriteCases
<1> QED
  BY <1>1, <1>2

\* The same, when it removes its spills, reports or is killed.
LEMMA TidyEnd ==
  ASSUME Types, NEW a \in MapAttempt, Tidy(a),
         RemoveSpill(a) \/ SpillsRemoved(a) \/ ReportMap(a) \/ CrashMap(a)
  PROVE  Tidy(a)' /\ (map'[a].at = "done" => NoSpills(a)')
<1> DEFINE t == TaskOf[a]
           m == map[a]
<1>m. MapTyped /\ m \in Fields(m) /\ DirTyped
  BY DEF Types, MapTyped, Sound
<1>1. CASE RemoveSpill(a)
  <2>0. m.at = "cleanup" /\ SpillFiles(t) \subseteq m.todo /\ SpillTemps(t) = {}
    BY <1>1 DEF RemoveSpill, Tidy
  <2>1. PICK x \in m.todo : Delete(x) /\ Become(a, [m EXCEPT !.todo = @ \ {x}])
    BY <1>1 DEF RemoveSpill
  <2> DEFINE n == [m EXCEPT !.todo = @ \ {x}]
  <2>2. n.at = "cleanup" /\ n.todo = m.todo \ {x}
    BY <1>m, <2>0 DEF Fields
  <2>3. Become(a, n)
    BY <2>1
  <2> HIDE DEF n
  <2>4. map'[a] = n
    BY <1>m, <2>3, Becomes
  <2>5. DOMAIN files' = DOMAIN files \ {x} /\ temps' = temps \ {x}
    BY <1>m, <2>1, DeleteTyped
  <2>6. SpillFiles(t)' \subseteq m.todo \ {x} /\ SpillTemps(t)' = {}
    BY <2>0, <2>5 DEF SpillFiles, SpillTemps
  <2> QED
    BY <2>2, <2>4, <2>6 DEF Tidy, Writers
<1>2. CASE SpillsRemoved(a)
  <2>1. NoSpills(a)
    BY <1>2 DEF SpillsRemoved, Tidy, NoSpills
  <2> DEFINE n == [m EXCEPT !.at = "done"]
  <2>2. Become(a, n) /\ UNCHANGED <<files, temps>>
    BY <1>2 DEF SpillsRemoved
  <2>3. n.at = "done"
    BY <1>m DEF Fields
  <2> HIDE DEF n
  <2>4. map'[a] = n
    BY <1>m, <2>2, Becomes
  <2> QED
    BY <2>1, <2>2, <2>3, <2>4 DEF Tidy, Writers, NoSpills, SpillFiles, SpillTemps
<1>3. CASE ReportMap(a) \/ CrashMap(a)
  <2>1. PICK n : Become(a, n) /\ n.at \in {"reported", "crashed"}
    <3>1. /\ [m EXCEPT !.at = "reported"].at = "reported"
          /\ [m EXCEPT !.at = "crashed", !.writing = FALSE].at = "crashed"
      BY <1>m DEF Fields
    <3> QED
      BY <1>3, <3>1 DEF ReportMap, CrashMap
  <2>2. map'[a] = n
    BY <1>m, <2>1, Becomes
  <2> QED
    BY <2>1, <2>2 DEF Tidy, Writers
<1> QED
  BY <1>1, <1>2, <1>3

\* A map step keeps what is said of attempts alone, and is an AloneStep.
LEMMA MapAlone ==
  ASSUME Types, Types', Alone, NEW c \in MapAttempt, MapStep(c)
  PROVE  Alone' /\ AloneStep
<1>0. /\ \A b \in MapAttempt \ {c} : map'[b] = map[b]
      /\ overlapped \subseteq overlapped'
      /\ \A u : u # TaskOf[c] => Untouched(u)
  BY OthersStay, DirectoryOfOthers
<1>1. Exclusive'
  BY ExclusiveStep DEF Alone
<1>2. ASSUME NEW a \in MapAttempt \ overlapped'
      PROVE  Tidy(a)' /\ (map[a].at # "done" /\ map'[a].at = "done" => NoSpills(a)')
  <2>0. a \in MapAttempt \ overlapped /\ Tidy(a)
    BY <1>0 DEF Alone
  <2>1. CASE a = c
    BY <2>0, <2>1, TidyStart, TidyReading, TidyWriting, TidyEnd DEF MapStep
  <2>2. CASE a # c
    <3>1. map'[a] = map[a]
      BY <1>0, <2>2
    <3>2. CASE TaskOf[a] # TaskOf[c]
      BY <1>0, <2>0, <3>1, <3>2, TidyKept
    <3>3. CASE TaskOf[a] = TaskOf[c] /\ ~ Running(a)
      BY <2>0, <3>1, <3>3 DEF Tidy, Running, Writers, Types, MapTyped, Sound, Fields, MapLabel
    <3>4. CASE TaskOf[a] = TaskOf[c] /\ Running(a)
      <4>1. Running(a)'
        BY <3>1, <3>4 DEF Running
      <4>2. ~ Running(c) /\ ~ Running(c)'
        BY <1>1, <2>0, <2>2, <3>4, <4>1 DEF Alone, Exclusive
      <4>3. ReportMap(c)
        <5>1. ~ StartMap(c)
          <6>1. SUFFICES ASSUME StartMap(c) PROVE FALSE
            OBVIOUS
          <6>2. a \in {b \in MapAttempt \ {c} : TaskOf[b] = TaskOf[c] /\ Running(b)}
            BY <2>0, <2>2, <3>4
          <6>3. a \in overlapped'
            BY <6>1, <6>2 DEF StartMap
          <6> QED
            BY <6>3
        <5>2. ~ RenameTemp(c)
          BY <4>2 DEF RenameTemp, Types, MapTyped, Sound, Writers, Running
        <5> QED
          BY <4>2, <5>1, <5>2 DEF MapStep, RemoveStale, StaleRemoved, ReadLine, InputOver, OpenSpill,
                CreateTemp, RemoveSpill, SpillsRemoved, CrashMap, Running
      <4>4. Untouched(TaskOf[a])
        BY <4>3 DEF ReportMap, Untouched
      <4> QED
        BY <2>0, <3>1, <4>4, TidyKept
    <3> QED
      BY <3>1, <3>2, <3>3, <3>4
  <2> QED
    BY <2>1, <2>2
<1>3. AloneStep
  BY <1>2 DEF AloneStep, Tidy, NoSpills, SpillFiles, SpillTemps
<1> QED
  BY <1>1, <1>2, <1>3 DEF Alone

\* And so does a step of a reducer, and one that changes nothing.
LEMMA OtherAlone ==
  ASSUME Types, Types', Alone, \A u : Untouched(u), UNCHANGED <<map, overlapped>>
  PROVE  Alone' /\ AloneStep
<1>1. Exclusive'
  BY DEF Alone, Exclusive, Running
<1>2. \A a \in MapAttempt \ overlapped' : Tidy(a)'
  BY TidyKept DEF Alone
<1>3. AloneStep
  BY <1>2 DEF AloneStep, Tidy
<1> QED
  BY <1>1, <1>2, <1>3 DEF Alone

--------------------------------------------------------------------------------

(***************************************************************************)
(* The invariant, and what follows from it.                                *)
(***************************************************************************)
Inv == Types /\ PartsInv /\ Alone

\* It holds at the start.
LEMMA InitInv == Init => Inv
<1> SUFFICES ASSUME Init PROVE Inv
  OBVIOUS
<1>1. DirTyped
  BY DEF Init, DirTyped
<1>2. MapTyped
  <2>1. 0 \in Nat /\ <<>> \in Seq(Nat \X Nat)
    OBVIOUS
  <2>2. \A a \in MapAttempt : Len(Lines[TaskOf[a]]) \in Nat
    BY LinesAre
  <2> QED
    BY <2>1, <2>2, ZeroIsPartition, EmptyIsSeq
       DEF Init, MapTyped, Sound, Fields, MapLabel, Writers
<1>3. ReduceTyped
  BY EmptyIsSeq DEF Init, ReduceTyped, ReduceSound
<1>4. PartsInv
  BY EmptyIsSeq DEF Init, PartsInv, PutParts, DoneParts, ReducersGated, HasPut
<1>5. Alone
  BY DEF Init, Alone, Exclusive, Running, Tidy, Writers
<1> QED
  BY <1>1, <1>2, <1>3, <1>4, <1>5 DEF Init, Inv, Types

\* Every step keeps it, and is an AloneStep.
LEMMA NextInv == Inv /\ [Next]_vars => Inv' /\ AloneStep
<1> SUFFICES ASSUME Inv, [Next]_vars PROVE Inv' /\ AloneStep
  OBVIOUS
<1>1. CASE \E a \in MapAttempt : MapStep(a)
  <2>1. PICK a \in MapAttempt : MapStep(a)
    BY <1>1
  <2>2. Types'
    BY <2>1, MapStepTyped DEF Inv
  <2> QED
    BY <2>1, <2>2, MapPartsInv, MapAlone DEF Inv
<1>2. CASE \E r \in ReduceAttempt : ReduceStep(r)
  <2>1. PICK r \in ReduceAttempt : ReduceStep(r)
    BY <1>2
  <2>2. Types'
    BY <2>1, ReduceStepTyped DEF Inv
  <2> QED
    BY <2>1, <2>2, ReducePartsInv, ReducersLeaveDirectories, OtherAlone DEF Inv
<1>3. CASE UNCHANGED vars
  <2>1. Types'
    BY <1>3 DEF vars, Inv, Types, DirTyped, MapTyped, ReduceTyped
  <2>2. PartsInv'
    BY <1>3 DEF vars, Inv, PartsInv, PutParts, DoneParts, ReducersGated, HasPut
  <2>3. \A u : Untouched(u)
    BY <1>3 DEF vars, Untouched
  <2> QED
    BY <1>3, <2>1, <2>2, <2>3, OtherAlone DEF vars, Inv
<1> QED
  BY <1>1, <1>2, <1>3 DEF Next

\* Every state reached keeps the invariant.
LEMMA InvHolds == Spec => []Inv
<1>1. Inv /\ [Next]_vars => Inv'
  BY NextInv
<1> QED
  BY InitInv, <1>1, PTL DEF Spec

(***************************************************************************)
(* The state of the attempts and the directory is typed.                   *)
(***************************************************************************)
THEOREM ShuffleTyped == Spec => []TypeOK
<1>1. Inv => TypeOK
  <2> SUFFICES ASSUME Inv PROVE TypeOK
    OBVIOUS
  <2>1. \A a \in MapAttempt : Sound(map[a], TaskOf[a])
    BY DEF Inv, Types, MapTyped
  <2>2. \A r \in ReduceAttempt : reduce[r].at \in {"new", "open", "done", "crashed"}
    BY DEF Inv, Types, ReduceTyped, ReduceSound
  <2>3. \A temp \in temps : temp[2] \in MapAttempt
    BY DEF Inv, Types, DirTyped, Temp
  <2> QED
    BY <2>1, <2>2, <2>3 DEF Inv, Types, TypeOK, Sound, Fields, Writers
<1> QED
  BY InvHolds, <1>1, PTL

(***************************************************************************)
(* A reducer never meets a missing file (reducer.Run takes one for an      *)
(* empty one): tasks with a success have all parts in place, and one file  *)
(* was opened for each map task gone past.                                 *)
(***************************************************************************)
THEOREM ReducersMissNothing == Spec => []NothingIsMissed
<1>1. Inv => NothingIsMissed
  BY DEF Inv, PartsInv, DoneParts, ReducersGated, NothingIsMissed
<1> QED
  BY InvHolds, <1>1, PTL

(***************************************************************************)
(* An attempt that has the directory to itself does not fail on what       *)
(* killed attempts left there, and leaves no spill when it is done.        *)
(***************************************************************************)
THEOREM AloneAttemptsSucceed == Spec => AloneIsSafe
<1>1. Inv /\ [Next]_vars => [AloneStep]_vars
  BY NextInv
<1> QED
  BY InvHolds, <1>1, PTL DEF Spec, AloneIsSafe

--------------------------------------------------------------------------------

(***************************************************************************)
(* What files hold, when attempts of a task spill at the same size.        *)
(***************************************************************************)
WorthByAll(lines) == [key \in Nat |-> WorthOfAll(lines, key)]

\* s is run n of task t for the partition, its part, the output.
RunIs(s, t, n, p) == Tells(s, p, KeysOf(Runs(t)[n]), WorthBy(Runs(t)[n]))
PartIs(s, t, p) == Tells(s, p, KeysOfAll(Lines[t]), WorthByAll(Lines[t]))
OutIs(s, p) ==
  Tells(s, p, UNION {KeysOfAll(Lines[t]) : t \in MapTask}, [key \in Nat |-> Total(key, MapTask)])

FilesTell ==
  /\ \A t \in MapTask, n \in Nat, p \in Partitions :
       Spill(t, n, p) \in DOMAIN files =>
         n + 1 \in 1 .. Len(Runs(t)) /\ RunIs(files[Spill(t, n, p)], t, n + 1, p)
  /\ \A t \in MapTask, p \in Partitions :
       Part(t, p) \in DOMAIN files => PartIs(files[Part(t, p)], t, p)
  /\ \A p \in Partitions : Out(p) \in DOMAIN files => OutIs(files[Out(p)], p)

\* All runs of the task were written, and there are some.
AllWritten(m, t) == m.spills = Len(Runs(t)) /\ m.spills # 0

\* The attempt is where one pass over the lines is at some time.
Reads(m, t) ==
  \/ m.buffer = Buffered(t, m.line) /\ m.spills = Len(Spilled(t, m.line))
  \/ AllWritten(m, t) /\ m.line = Len(Lines[t]) /\ m.buffer = <<>>

Spills(m, t) ==
  /\ m.spills + 1 \in 1 .. Len(Runs(t)) /\ m.buffer = Runs(t)[m.spills + 1]
  /\ \/ m.spills + 1 = Len(Spilled(t, m.line)) /\ Buffered(t, m.line) = <<>>
     \/ m.spills + 1 = Len(Runs(t)) /\ m.line = Len(Lines[t])

Merges(m, t) ==
  /\ AllWritten(m, t)
  /\ Len(m.opened) <= m.spills /\ (m.writing => Len(m.opened) = m.spills)
  /\ \A i \in DOMAIN m.opened : RunIs(m.opened[i], t, i, m.part)

OnPass(m, t) ==
  /\ m.at \in {"new", "stale"} => m.line = 0 /\ m.buffer = <<>>
  /\ m.at = "consume" => Reads(m, t)
  /\ m.at = "spill" => Spills(m, t)
  /\ m.at = "final" => m.buffer = Rest(t) /\ First(t) = <<>>
  /\ m.at = "merge" => Merges(m, t)

AllOnPass == \A a \in MapAttempt : OnPass(map[a], TaskOf[a])

\* A reducer has opened the parts of the first tasks, in order.
Collects(q, p) == \A i \in DOMAIN q.opened : i \in MapTask /\ PartIs(q.opened[i], i, p)
AllCollect == \A r \in ReduceAttempt : Collects(reduce[r], PartitionOf[r])

DataInv == FilesTell /\ AllOnPass /\ AllCollect

\* Worth that is equal tells the same.
LEMMA TellsSame ==
  ASSUME NEW s, NEW p, NEW keys, NEW worth, Tells(s, p, keys, worth),
         NEW sum, \A key \in Nat : sum[key] = worth[key]
  PROVE  Tells(s, p, keys, sum)
  BY DEF Tells

\* A spill that is written is the run of its number.
LEMMA SpillTells ==
  ASSUME NEW t \in MapTask, NEW n \in 1 .. Len(Runs(t)), NEW p
  PROVE  RunIs(Run(Runs(t)[n], p), t, n, p)
<1>1. Runs(t)[n] \in Seq(Rec)
  BY RunsBegin
<1> QED
  BY <1>1, RunTells DEF RunIs

\* A part written from the buffer is whole if nothing was spilled.
LEMMA FinalTells ==
  ASSUME NEW t \in MapTask, First(t) = <<>>, NEW p
  PROVE  PartIs(Run(Rest(t), p), t, p)
<1>1. PICK b : b = Rest(t)
  OBVIOUS
<1>2. b \in Seq(Rec)
  <2>1. Len(Lines[t]) \in 0 .. Len(Lines[t])
    BY LinesAre
  <2> QED
    BY <1>1, <2>1, OnePass DEF Rest
<1>3. /\ \A key : Worth(b, key) = WorthOfAll(Lines[t], key)
      /\ KeysOf(b) = KeysOfAll(Lines[t])
  BY <1>1, RunsAccount
<1>4. Tells(Run(b, p), p, KeysOf(b), WorthBy(b))
  BY <1>2, RunTells
<1>5. \A key \in Nat : WorthByAll(Lines[t])[key] = WorthBy(b)[key]
  BY <1>3 DEF WorthByAll, WorthBy
<1> QED
  BY <1>1, <1>3, <1>4, <1>5, TellsSame DEF PartIs

\* A sequence is the function of its members.
LEMMA SeqIsFunction ==
  ASSUME NEW s, IsSeqOfAny(s)
  PROVE  Len(s) \in Nat /\ DOMAIN s = 1 .. Len(s) /\ s = [i \in 1 .. Len(s) |-> s[i]]
  BY DEF IsSeqOfAny

\* A part merged from all runs is whole.
LEMMA MergeTells ==
  ASSUME NEW t \in MapTask, NEW p, NEW opened, IsSeqOfAny(opened),
         Len(opened) = Len(Runs(t)), Len(opened) # 0,
         \A i \in DOMAIN opened : RunIs(opened[i], t, i, p)
  PROVE  PartIs(Merged(opened), t, p)
<1>1. PICK runs, n : runs = Runs(t) /\ n = Len(runs)
  OBVIOUS
<1>2. /\ runs \in Seq(Seq(Rec)) /\ n \in Nat /\ n # 0
      /\ DOMAIN opened = 1 .. n /\ opened = [i \in 1 .. n |-> opened[i]]
      /\ DOMAIN runs = 1 .. n
  BY <1>1, RunsBegin, SeqIsFunction
<1>3. First(t) # <<>>
  <2>1. runs # <<>>
    BY <1>1, <1>2
  <2> QED
    BY <1>1, <2>1, RunsAccount
<1>4. /\ \A key : WorthOfAll(runs, key) = WorthOfAll(Lines[t], key)
      /\ KeysOfAll(runs) = KeysOfAll(Lines[t])
  BY <1>1, <1>3, RunsAccount
<1>5. PICK keys, worth : /\ keys = [i \in 1 .. n |-> KeysOf(runs[i])]
                         /\ worth = [i \in 1 .. n |-> WorthBy(runs[i])]
  OBVIOUS
<1>6. AllTell(opened, p, keys, worth)
  BY <1>1, <1>2, <1>5 DEF AllTell, RunIs
<1>7. PICK every : every = UNION {keys[i] : i \in 1 .. n}
  OBVIOUS
<1>8. every = KeysOfAll(Lines[t])
  <2>1. \A i \in 1 .. n : keys[i] = KeysOf(runs[i])
    BY <1>5
  <2>2. every = UNION {KeysOf(runs[i]) : i \in 1 .. n}
    BY <1>7, <2>1
  <2> QED
    BY <1>2, <1>4, <2>2 DEF KeysOfAll
<1>9. PICK sum : sum = [key \in Nat |-> SumFunctionOnSet([i \in 1 .. n |-> worth[i][key]], 1 .. n)]
  OBVIOUS
<1>10. \A key \in Nat : sum[key] = SumFunctionOnSet([i \in 1 .. n |-> worth[i][key]], 1 .. n)
  BY <1>9
<1>11. Tells(Merged(opened), p, every, sum)
  <2>1. n \in Nat /\ DOMAIN opened = 1 .. n /\ opened = [i \in 1 .. n |-> opened[i]]
    BY <1>2
  <2> QED
    BY <1>6, <1>7, <1>10, <2>1, MergedTells
<1>12. ASSUME NEW key \in Nat
       PROVE  WorthByAll(Lines[t])[key] = sum[key]
  <2>1. WorthByAll(Lines[t])[key] = WorthOfAll(runs, key)
    BY <1>4 DEF WorthByAll
  <2>2. PICK D, f, g : /\ D = 1 .. n /\ f = [i \in D |-> worth[i][key]]
                       /\ g = [i \in D |-> Worth(runs[i], key)]
    OBVIOUS
  <2>3. WorthOfAll(runs, key) = SumFunctionOnSet(g, D)
    BY <1>2, <2>2, SourcesAre
  <2>4. f = g
    <3>1. \A i \in D : worth[i][key] = Worth(runs[i], key)
      BY <1>5, <2>2 DEF WorthBy
    <3> QED
      BY <2>2, <3>1
  <2> QED
    BY <1>10, <2>1, <2>2, <2>3, <2>4
<1> QED
  BY <1>8, <1>11, <1>12, TellsSame DEF PartIs

\* An output reduced from the parts of all tasks is right.
LEMMA OutputTells ==
  ASSUME NEW p, NEW opened, IsSeqOfAny(opened), DOMAIN opened = MapTask,
         \A i \in DOMAIN opened : PartIs(opened[i], i, p)
  PROVE  OutIs(Grouped(Merged(opened)), p)
<1>1. PICK n : n = Len(opened)
  OBVIOUS
<1>2. /\ n \in Nat /\ MapTask = 1 .. n
      /\ DOMAIN opened = 1 .. n /\ opened = [i \in 1 .. n |-> opened[i]]
  BY <1>1, SeqIsFunction
<1>3. PICK keys, worth : /\ keys = [i \in 1 .. n |-> KeysOfAll(Lines[i])]
                         /\ worth = [i \in 1 .. n |-> WorthByAll(Lines[i])]
  OBVIOUS
<1>4. AllTell(opened, p, keys, worth)
  BY <1>2, <1>3 DEF AllTell, PartIs
<1>5. PICK every : every = UNION {keys[i] : i \in 1 .. n}
  OBVIOUS
<1>6. every = UNION {KeysOfAll(Lines[t]) : t \in MapTask}
  <2>1. \A i \in 1 .. n : keys[i] = KeysOfAll(Lines[i])
    BY <1>3
  <2> QED
    BY <1>2, <1>5, <2>1
<1>7. PICK sum : sum = [key \in Nat |-> SumFunctionOnSet([i \in 1 .. n |-> worth[i][key]], 1 .. n)]
  OBVIOUS
<1>8. \A key \in Nat : sum[key] = SumFunctionOnSet([i \in 1 .. n |-> worth[i][key]], 1 .. n)
  BY <1>7
<1>9. Tells(Merged(opened), p, every, sum)
  <2>1. n \in Nat /\ DOMAIN opened = 1 .. n /\ opened = [i \in 1 .. n |-> opened[i]]
    BY <1>2
  <2> QED
    BY <1>4, <1>5, <1>8, <2>1, MergedTells
<1>10. ASSUME NEW key \in Nat
       PROVE  sum[key] = Total(key, MapTask)
  <2>1. PICK D, f, g : /\ D = MapTask /\ f = [i \in 1 .. n |-> worth[i][key]]
                       /\ g = [t \in D |-> WorthOfAll(Lines[t], key)]
    OBVIOUS
  <2>2. Total(key, MapTask) = SumFunctionOnSet(g, D)
    <3>1. Total(key, MapTask) = SumFunction(g)
      BY <2>1 DEF Total
    <3>2. DOMAIN g = D
      BY <2>1
    <3> QED
      BY <3>1, <3>2 DEF SumFunction, SumFunctionOnSet, FoldFunction, FoldFunctionOnSet
  <2>3. f = g
    <3>1. \A i \in 1 .. n : worth[i][key] = WorthOfAll(Lines[i], key)
      BY <1>3 DEF WorthByAll
    <3> QED
      BY <1>2, <2>1, <3>1
  <2> QED
    BY <1>2, <1>8, <2>1, <2>2, <2>3
<1>11. PICK total : total = [key \in Nat |-> Total(key, MapTask)]
  OBVIOUS
<1>12. \A key \in Nat : total[key] = sum[key]
  BY <1>10, <1>11
<1>13. Tells(Merged(opened), p, every, total)
  BY <1>9, <1>12, TellsSame
<1>14. Tells(Grouped(Merged(opened)), p, every, total)
  BY <1>13, GroupedTells
<1> QED
  BY <1>6, <1>11, <1>14 DEF OutIs

--------------------------------------------------------------------------------

(***************************************************************************)
(* What files hold, step by step.                                          *)
(***************************************************************************)
\* Files that stay hold what they held.
LEMMA FilesKept ==
  ASSUME FilesTell, \A path \in DOMAIN files' : path \in DOMAIN files /\ files'[path] = files[path]
  PROVE  FilesTell'
<1>1. ASSUME NEW t \in MapTask, NEW n \in Nat, NEW p \in Partitions, Spill(t, n, p) \in DOMAIN files'
      PROVE  n + 1 \in 1 .. Len(Runs(t)) /\ RunIs(files'[Spill(t, n, p)], t, n + 1, p)
  <2>1. Spill(t, n, p) \in DOMAIN files /\ files'[Spill(t, n, p)] = files[Spill(t, n, p)]
    BY <1>1
  <2> QED
    BY <2>1 DEF FilesTell
<1>2. ASSUME NEW t \in MapTask, NEW p \in Partitions, Part(t, p) \in DOMAIN files'
      PROVE  PartIs(files'[Part(t, p)], t, p)
  <2>1. Part(t, p) \in DOMAIN files /\ files'[Part(t, p)] = files[Part(t, p)]
    BY <1>2
  <2> QED
    BY <2>1 DEF FilesTell
<1>3. ASSUME NEW p \in Partitions, Out(p) \in DOMAIN files'
      PROVE  OutIs(files'[Out(p)], p)
  <2>1. Out(p) \in DOMAIN files /\ files'[Out(p)] = files[Out(p)]
    BY <1>3
  <2> QED
    BY <2>1 DEF FilesTell
<1> QED
  BY <1>1, <1>2, <1>3 DEF FilesTell

\* A file that is removed is one less.
LEMMA DeleteKeeps ==
  ASSUME FilesTell, NEW x, Delete(x)
  PROVE  FilesTell'
<1>1. \A path \in DOMAIN files' : path \in DOMAIN files /\ files'[path] = files[path]
  BY DEF Delete
<1> QED
  BY <1>1, FilesKept

\* A file that is put in place is one of these, and must hold what it should.
MayHold(path, content) ==
  /\ \A t \in MapTask, n \in Nat, p \in Partitions :
       path = Spill(t, n, p) => n + 1 \in 1 .. Len(Runs(t)) /\ RunIs(content, t, n + 1, p)
  /\ \A t \in MapTask, p \in Partitions : path = Part(t, p) => PartIs(content, t, p)
  /\ \A p \in Partitions : path = Out(p) => OutIs(content, p)

\* A rename of a file that holds what it should.
LEMMA PlaceTells ==
  ASSUME FilesTell, NEW path, NEW content, Place(path, content), MayHold(path, content)
  PROVE  FilesTell'
<1>0. \A x \in DOMAIN files' : \/ x = path /\ files'[x] = content
                               \/ x \in DOMAIN files /\ files'[x] = files[x]
  BY DEF Place
<1>1. ASSUME NEW t \in MapTask, NEW n \in Nat, NEW p \in Partitions, Spill(t, n, p) \in DOMAIN files'
      PROVE  n + 1 \in 1 .. Len(Runs(t)) /\ RunIs(files'[Spill(t, n, p)], t, n + 1, p)
  <2>1. PICK x : x = Spill(t, n, p)
    OBVIOUS
  <2>2. CASE x = path /\ files'[x] = content
    BY <2>1, <2>2 DEF MayHold
  <2>3. CASE x \in DOMAIN files /\ files'[x] = files[x]
    BY <2>1, <2>3 DEF FilesTell
  <2> QED
    BY <1>0, <1>1, <2>1, <2>2, <2>3
<1>2. ASSUME NEW t \in MapTask, NEW p \in Partitions, Part(t, p) \in DOMAIN files'
      PROVE  PartIs(files'[Part(t, p)], t, p)
  <2>1. PICK x : x = Part(t, p)
    OBVIOUS
  <2>2. CASE x = path /\ files'[x] = content
    BY <2>1, <2>2 DEF MayHold
  <2>3. CASE x \in DOMAIN files /\ files'[x] = files[x]
    BY <2>1, <2>3 DEF FilesTell
  <2> QED
    BY <1>0, <1>2, <2>1, <2>2, <2>3
<1>3. ASSUME NEW p \in Partitions, Out(p) \in DOMAIN files'
      PROVE  OutIs(files'[Out(p)], p)
  <2>1. PICK x : x = Out(p)
    OBVIOUS
  <2>2. CASE x = path /\ files'[x] = content
    BY <2>1, <2>2 DEF MayHold
  <2>3. CASE x \in DOMAIN files /\ files'[x] = files[x]
    BY <2>1, <2>3 DEF FilesTell
  <2> QED
    BY <1>0, <1>3, <2>1, <2>2, <2>3
<1> QED
  BY <1>1, <1>2, <1>3 DEF FilesTell

\* Runs, parts and outputs may be put at their paths.
LEMMA MayHoldThese ==
  ASSUME NEW content, NEW t \in MapTask, NEW p \in Partitions
  PROVE  /\ \A n \in Nat : n + 1 \in 1 .. Len(Runs(t)) /\ RunIs(content, t, n + 1, p)
                             => MayHold(Spill(t, n, p), content)
         /\ PartIs(content, t, p) => MayHold(Part(t, p), content)
<1>1. ASSUME NEW n \in Nat, n + 1 \in 1 .. Len(Runs(t)), RunIs(content, t, n + 1, p)
      PROVE  MayHold(Spill(t, n, p), content)
  <2>1. \A u, k, q : Spill(t, n, p) = Spill(u, k, q) => t = u /\ n = k /\ p = q
    BY DEF Spill
  <2>2. \A u, q : Spill(t, n, p) # Part(u, q) /\ Spill(t, n, p) # Out(q)
    BY DEF Spill, Part, Out
  <2> QED
    BY <1>1, <2>1, <2>2, Zenon DEF MayHold
<1>2. ASSUME PartIs(content, t, p)
      PROVE  MayHold(Part(t, p), content)
  <2>1. \A u, q : Part(t, p) = Part(u, q) => t = u /\ p = q
    BY DEF Part
  <2>2. \A u, k, q : Part(t, p) # Spill(u, k, q) /\ Part(t, p) # Out(q)
    BY DEF Spill, Part, Out
  <2> QED
    BY <1>2, <2>1, <2>2, Zenon DEF MayHold
<1> QED
  BY <1>1, <1>2

\* And so may an output.
LEMMA MayHoldOut ==
  ASSUME NEW content, NEW p \in Partitions, OutIs(content, p)
  PROVE  MayHold(Out(p), content)
<1>1. \A q : Out(p) = Out(q) => p = q
  BY DEF Out
<1>2. \A u, k, q : Out(p) # Spill(u, k, q) /\ Out(p) # Part(u, q)
  BY DEF Spill, Part, Out
<1> QED
  BY <1>1, <1>2, Zenon DEF MayHold

\* If the new state of the attempt is on the pass, all are.
LEMMA BecomesOnPass ==
  ASSUME MapTyped, AllOnPass, NEW a \in MapAttempt, NEW new, Become(a, new), OnPass(new, TaskOf[a])
  PROVE  AllOnPass'
<1>1. /\ map'[a] = new
      /\ \A b \in MapAttempt \ {a} : map'[b] = map[b]
  BY Becomes
<1>2. ASSUME NEW b \in MapAttempt
      PROVE  OnPass(map'[b], TaskOf[b])
  BY <1>1 DEF AllOnPass
<1> QED
  BY <1>2 DEF AllOnPass

\* Steps that only say where the attempt is.
Elsewhere == {"done", "failed", "crashed", "reported", "cleanup"}

\* An attempt that is there is on the pass.
LEMMA ElsewhereIsOnPass ==
  ASSUME NEW m, NEW t, m.at \in Elsewhere
  PROVE  OnPass(m, t)
  BY DEF Elsewhere, OnPass

\* An attempt that fails is there.
LEMMA FailKeeps ==
  ASSUME MapTyped, AllOnPass, NEW a \in MapAttempt, Fail(a)
  PROVE  AllOnPass'
<1>1. PICK n : n = [map[a] EXCEPT !.at = "failed", !.writing = FALSE]
  OBVIOUS
<1>2. n.at = "failed"
  BY <1>1 DEF MapTyped, Sound, Fields
<1>3. Become(a, n)
  BY <1>1 DEF Fail
<1>4. OnPass(n, TaskOf[a])
  BY <1>2, ElsewhereIsOnPass DEF Elsewhere
<1> QED
  BY <1>3, <1>4, BecomesOnPass

\* Sequences to which something is appended: the members.
LEMMA AppendMembers ==
  ASSUME NEW s, NEW x, IsSeqOfAny(s)
  PROVE  /\ Len(s) \in Nat
         /\ DOMAIN Append(s, x) = 1 .. Len(s) + 1 /\ DOMAIN s = 1 .. Len(s)
         /\ Len(Append(s, x)) = Len(s) + 1
         /\ \A i \in 1 .. Len(s) : Append(s, x)[i] = s[i]
         /\ Append(s, x)[Len(s) + 1] = x
<1>1. PICK S : s \in Seq(S)
  BY DEF IsSeqOfAny
<1>2. PICK T : T = S \cup {x}
  OBVIOUS
<1>3. s \in Seq(T) /\ x \in T
  BY <1>1, <1>2
<1> QED
  BY <1>3, AppendProperties, LenProperties

\* A line is read, and what is buffered becomes a run or not.
LEMMA ReadLineOnPass ==
  ASSUME SpillsAgree, Types, AllOnPass, NEW a \in MapAttempt, ReadLine(a)
  PROVE  AllOnPass'
<1> DEFINE t == TaskOf[a]
           m == map[a]
<1>t. t \in MapTask
  BY TaskOfAssumption
<1>m. /\ MapTyped /\ Sound(m, t) /\ OnPass(m, t) /\ m \in Fields(m)
      /\ m.line \in Nat /\ m.spills \in Nat
  BY DEF Types, MapTyped, Sound, Fields, AllOnPass
<1>1. PICK buffer, n : /\ buffer = m.buffer \o Lines[t][m.line + 1]
                       /\ n = [m EXCEPT !.line = @ + 1, !.buffer = buffer,
                                        !.at = IF Len(buffer) >= SpillAt[a] THEN "spill" ELSE @]
  OBVIOUS
<1>2. Become(a, n) /\ m.at = "consume" /\ m.line < Len(Lines[t])
  BY <1>1 DEF ReadLine
<1>3. /\ n.line = m.line + 1 /\ n.buffer = buffer /\ n.spills = m.spills
      /\ n.at = IF Len(buffer) >= SpillAt[a] THEN "spill" ELSE "consume"
  BY <1>m, <1>1, <1>2 DEF Fields
<1>4. PICK l, L, s, b : l = m.line /\ L = Len(Lines[t]) /\ s = Spilled(t, l) /\ b = Buffered(t, l)
  OBVIOUS
<1>5. L \in Nat /\ l \in 0 .. L - 1 /\ l \in 0 .. L /\ l + 1 \in 0 .. L /\ l # L
  BY <1>t, <1>m, <1>2, <1>4, LinesAre
<1>6. m.buffer = b /\ m.spills = Len(s)
  BY <1>m, <1>2, <1>4, <1>5 DEF OnPass, Reads
<1>7. buffer = b \o Lines[t][l + 1]
  BY <1>1, <1>4, <1>6
<1>8. /\ Len(buffer) >= SizeFor(t) => Buffered(t, l + 1) = <<>> /\ Spilled(t, l + 1) = Append(s, buffer)
      /\ ~ (Len(buffer) >= SizeFor(t)) => Buffered(t, l + 1) = buffer /\ Spilled(t, l + 1) = s
  BY <1>t, <1>4, <1>5, <1>7, OnePass, Zenon
<1>9. SpillAt[a] = SizeFor(t)
  BY SizeIsSame
<1>10. OnPass(n, t)
  <2>1. CASE Len(buffer) >= SizeFor(t)
    <3>1. n.at = "spill"
      BY <1>3, <1>9, <2>1
    <3>2. Buffered(t, l + 1) = <<>> /\ Spilled(t, l + 1) = Append(s, buffer)
      BY <1>8, <2>1
    <3>3. PICK S, runs : S = Seq(Rec) /\ runs = Runs(t)
      OBVIOUS
    <3>4. runs \in Seq(S) /\ Begins(runs, Append(s, buffer)) /\ Append(s, buffer) \in Seq(S) /\ s \in Seq(S)
      BY <1>t, <1>4, <1>5, <3>2, <3>3, OnePass, RunsBegin
    <3>5. Len(runs) \in Nat /\ Len(s) \in Nat
      BY <3>4
    <3>6. Len(Append(s, buffer)) = Len(s) + 1 /\ Append(s, buffer)[Len(s) + 1] = buffer
      BY <3>4
    <3>7. Len(s) + 1 <= Len(runs) /\ runs[Len(s) + 1] = buffer
      BY <3>4, <3>5, <3>6 DEF Begins
    <3>8. Len(s) + 1 \in 1 .. Len(runs)
      BY <3>5, <3>7
    <3>9. Spills(n, t)
      BY <1>3, <1>4, <1>6, <3>2, <3>3, <3>6, <3>7, <3>8 DEF Spills
    <3> QED
      BY <3>1, <3>9 DEF OnPass
  <2>2. CASE ~ (Len(buffer) >= SizeFor(t))
    <3>1. n.at = "consume"
      BY <1>3, <1>9, <2>2
    <3>2. Reads(n, t)
      BY <1>3, <1>4, <1>6, <1>8, <2>2 DEF Reads
    <3> QED
      BY <3>1, <3>2 DEF OnPass
  <2> QED
    BY <2>1, <2>2
<1> QED
  BY <1>m, <1>2, <1>10, BecomesOnPass

\* At the end of the input the buffer is all, or one more run, or empty.
LEMMA InputOverOnPass ==
  ASSUME Types, AllOnPass, NEW a \in MapAttempt, InputOver(a)
  PROVE  AllOnPass'
<1> DEFINE t == TaskOf[a]
           m == map[a]
<1>t. t \in MapTask
  BY TaskOfAssumption
<1>m. /\ MapTyped /\ Sound(m, t) /\ OnPass(m, t) /\ m \in Fields(m)
      /\ m.line \in Nat /\ m.spills \in Nat
  BY DEF Types, MapTyped, Sound, Fields, AllOnPass
<1>1. PICK at, n : /\ at = CASE m.spills = 0 -> "final"
                            [] m.spills > 0 /\ m.buffer # <<>> -> "spill"
                            [] OTHER -> "merge"
                   /\ n = [m EXCEPT !.at = at]
  OBVIOUS
<1>2. Become(a, n) /\ m.at = "consume" /\ m.line = Len(Lines[t])
  BY <1>1 DEF InputOver
<1>3. /\ n.line = m.line /\ n.buffer = m.buffer /\ n.spills = m.spills /\ n.at = at
      /\ n.opened = m.opened /\ n.writing = m.writing
  BY <1>m, <1>1 DEF Fields
<1>4. \/ m.buffer = Rest(t) /\ m.spills = Len(First(t))
      \/ AllWritten(m, t) /\ m.buffer = <<>>
  BY <1>m, <1>2 DEF OnPass, Reads, Rest, First
<1>5. PICK S, s, b : S = Seq(Rec) /\ s = First(t) /\ b = Rest(t)
  OBVIOUS
<1>6. s \in Seq(S) /\ b \in S /\ Len(s) \in Nat /\ (Len(s) = 0 <=> s = <<>>)
  <2>1. Len(Lines[t]) \in 0 .. Len(Lines[t])
    BY <1>t, LinesAre
  <2>2. s \in Seq(S) /\ b \in S
    BY <1>t, <1>5, <2>1, OnePass DEF First, Rest
  <2> QED
    BY <2>2
<1>7. OnPass(n, t)
  <2>1. CASE m.spills = 0
    <3>1. n.at = "final"
      BY <1>1, <1>3, <2>1
    <3>2. m.buffer = b /\ s = <<>>
      BY <1>4, <1>5, <1>6, <2>1 DEF AllWritten
    <3> QED
      BY <1>3, <1>5, <3>1, <3>2 DEF OnPass
  <2>2. CASE m.spills # 0 /\ m.buffer # <<>>
    <3>1. n.at = "spill"
      BY <1>m, <1>1, <1>3, <2>2
    <3>2. m.buffer = b /\ m.spills = Len(s) /\ s # <<>> /\ b # <<>>
      BY <1>4, <1>5, <1>6, <2>2
    <3>3. Runs(t) = Append(s, b)
      BY <1>5, <3>2 DEF Runs
    <3>4. Len(Append(s, b)) = Len(s) + 1 /\ Append(s, b)[Len(s) + 1] = b
      BY <1>6
    <3>5. Len(s) + 1 \in 1 .. Len(s) + 1
      BY <1>6
    <3>6. Spills(n, t)
      BY <1>2, <1>3, <3>2, <3>3, <3>4, <3>5 DEF Spills
    <3> QED
      BY <3>1, <3>6 DEF OnPass
  <2>3. CASE m.spills # 0 /\ m.buffer = <<>>
    <3>1. n.at = "merge"
      BY <1>m, <1>1, <1>3, <2>3
    <3>2. AllWritten(m, t)
      <4>1. CASE m.buffer = Rest(t) /\ m.spills = Len(First(t))
        <5>1. Runs(t) = First(t)
          BY <2>3, <4>1 DEF Runs
        <5> QED
          BY <2>3, <4>1, <5>1 DEF AllWritten
      <4> QED
        BY <1>4, <4>1
    <3>3. n.opened = <<>> /\ ~ n.writing
      BY <1>m, <1>2, <1>3 DEF Sound, Writers
    <3>4. DOMAIN <<>> = {} /\ Len(<<>>) = 0
      OBVIOUS
    <3>5. Merges(n, t)
      BY <1>m, <1>3, <3>2, <3>3, <3>4 DEF Merges, AllWritten
    <3> QED
      BY <3>1, <3>5 DEF OnPass
  <2> QED
    BY <2>1, <2>2, <2>3
<1> QED
  BY <1>m, <1>2, <1>7, BecomesOnPass

\* A run is opened for the merge.
LEMMA OpenSpillOnPass ==
  ASSUME Types, FilesTell, AllOnPass, NEW a \in MapAttempt, OpenSpill(a)
  PROVE  AllOnPass'
<1> DEFINE t == TaskOf[a]
           m == map[a]
<1>t. t \in MapTask
  BY TaskOfAssumption
<1>m. /\ MapTyped /\ Sound(m, t) /\ OnPass(m, t) /\ m \in Fields(m)
      /\ m.spills \in Nat /\ m.part \in Partitions /\ IsSeqOfAny(m.opened)
  BY DEF Types, MapTyped, Sound, Fields, AllOnPass
<1>1. CASE Fail(a)
  BY <1>m, <1>1, FailKeeps
<1>2. CASE ~ Fail(a)
  <2>1. PICK k, content, n : /\ k = Len(m.opened)
                             /\ content = files[Spill(t, k, m.part)]
                             /\ n = [m EXCEPT !.opened = Append(@, content)]
    OBVIOUS
  <2>2. /\ m.at = "merge" /\ ~ m.writing /\ k < m.spills
        /\ Spill(t, k, m.part) \in DOMAIN files /\ Become(a, n)
    BY <1>2, <2>1 DEF OpenSpill
  <2>3. /\ n.at = m.at /\ n.spills = m.spills /\ n.part = m.part /\ n.writing = m.writing
        /\ n.opened = Append(m.opened, content)
    BY <1>m, <2>1 DEF Fields
  <2>4. /\ k \in Nat /\ DOMAIN n.opened = 1 .. k + 1 /\ DOMAIN m.opened = 1 .. k
        /\ Len(n.opened) = k + 1
        /\ \A i \in 1 .. k : n.opened[i] = m.opened[i]
        /\ n.opened[k + 1] = content
    BY <1>m, <2>1, <2>3, AppendMembers
  <2>5. Merges(m, t)
    BY <1>m, <2>2 DEF OnPass
  <2>6. RunIs(content, t, k + 1, m.part)
    BY <1>t, <1>m, <2>1, <2>2, <2>4 DEF FilesTell
  <2>7. \A i \in DOMAIN n.opened : RunIs(n.opened[i], t, i, n.part)
    <3> SUFFICES ASSUME NEW i \in 1 .. k + 1 PROVE RunIs(n.opened[i], t, i, m.part)
      BY <2>3, <2>4
    <3>1. CASE i = k + 1
      BY <2>4, <2>6, <3>1
    <3>2. CASE i \in 1 .. k
      BY <2>4, <2>5, <3>2 DEF Merges
    <3> QED
      BY <2>4, <3>1, <3>2
  <2>8. Len(n.opened) <= n.spills
    BY <1>m, <2>2, <2>3, <2>4
  <2>9. Merges(n, t)
    BY <2>2, <2>3, <2>5, <2>7, <2>8 DEF Merges, AllWritten
  <2>10. OnPass(n, t)
    BY <2>2, <2>3, <2>9 DEF OnPass
  <2> QED
    BY <1>m, <2>2, <2>10, BecomesOnPass
<1> QED
  BY <1>1, <1>2

\* A temporary file is created.
LEMMA CreateTempOnPass ==
  ASSUME Types, AllOnPass, NEW a \in MapAttempt, CreateTemp(a)
  PROVE  AllOnPass'
<1> DEFINE t == TaskOf[a]
           m == map[a]
<1>m. MapTyped /\ Sound(m, t) /\ OnPass(m, t) /\ m \in Fields(m)
  BY DEF Types, MapTyped, Sound, Fields, AllOnPass
<1>1. PICK n : n = [m EXCEPT !.writing = TRUE]
  OBVIOUS
<1>2. /\ Become(a, n) /\ m.at \in {"spill", "final", "merge"}
      /\ m.at = "merge" => Len(m.opened) = m.spills
  BY <1>1 DEF CreateTemp
<1>3. /\ n.at = m.at /\ n.line = m.line /\ n.buffer = m.buffer /\ n.spills = m.spills
      /\ n.part = m.part /\ n.opened = m.opened
  BY <1>m, <1>1 DEF Fields
<1>4. Spills(m, t) => Spills(n, t)
  BY <1>3 DEF Spills
<1>5. m.at = "merge" /\ Merges(m, t) => Merges(n, t)
  BY <1>2, <1>3 DEF Merges, AllWritten
<1>6. OnPass(n, t)
  BY <1>m, <1>2, <1>3, <1>4, <1>5 DEF OnPass
<1> QED
  BY <1>m, <1>2, <1>6, BecomesOnPass

\* What is put in place is the run, or the whole part.
LEMMA ContentTells ==
  ASSUME Types, AllOnPass, NEW a \in MapAttempt, map[a].writing
  PROVE  MayHold(Target(a), Content(a))
<1> DEFINE t == TaskOf[a]
           m == map[a]
<1>t. t \in MapTask
  BY TaskOfAssumption
<1>m. /\ Sound(m, t) /\ OnPass(m, t) /\ m \in Fields(m)
      /\ m.spills \in Nat /\ m.part \in Partitions /\ IsSeqOfAny(m.opened) /\ m.at \in Writers
  BY DEF Types, MapTyped, Sound, Fields, AllOnPass
<1>1. CASE m.at = "spill"
  <2>1. m.spills + 1 \in 1 .. Len(Runs(t)) /\ m.buffer = Runs(t)[m.spills + 1]
    BY <1>m, <1>1 DEF OnPass, Spills
  <2>2. Content(a) = Run(Runs(t)[m.spills + 1], m.part) /\ Target(a) = Spill(t, m.spills, m.part)
    BY <1>1, <2>1 DEF Content, Target
  <2>3. RunIs(Content(a), t, m.spills + 1, m.part)
    <3>1. PICK n : n = m.spills + 1
      OBVIOUS
    <3>2. RunIs(Run(Runs(t)[n], m.part), t, n, m.part)
      BY <1>t, <2>1, <3>1, SpillTells
    <3> QED
      BY <2>2, <3>1, <3>2
  <2> QED
    BY <1>t, <1>m, <2>1, <2>2, <2>3, MayHoldThese
<1>2. CASE m.at = "final"
  <2>1. Content(a) = Run(Rest(t), m.part) /\ Target(a) = Part(t, m.part) /\ First(t) = <<>>
    BY <1>m, <1>2 DEF OnPass, Content, Target
  <2>2. PartIs(Content(a), t, m.part)
    BY <1>t, <2>1, FinalTells
  <2> QED
    BY <1>t, <1>m, <2>1, <2>2, MayHoldThese
<1>3. CASE m.at = "merge"
  <2>1. Merges(m, t) /\ Content(a) = Merged(m.opened) /\ Target(a) = Part(t, m.part)
    BY <1>m, <1>3 DEF OnPass, Content, Target
  <2>2. /\ Len(m.opened) = Len(Runs(t)) /\ Len(m.opened) # 0
        /\ \A i \in DOMAIN m.opened : RunIs(m.opened[i], t, i, m.part)
    BY <2>1 DEF Merges, AllWritten
  <2>3. PartIs(Merged(m.opened), t, m.part)
    BY <1>t, <1>m, <2>2, MergeTells
  <2> QED
    BY <1>t, <1>m, <2>1, <2>3, MayHoldThese
<1> QED
  BY <1>m, <1>1, <1>2, <1>3 DEF Writers

\* After a rename the attempt is on the pass.
LEMMA RenameTempOnPass ==
  ASSUME Types, AllOnPass, NEW a \in MapAttempt, RenameTemp(a)
  PROVE  AllOnPass'
<1> DEFINE t == TaskOf[a]
           m == map[a]
<1>m. /\ MapTyped /\ Sound(m, t) /\ OnPass(m, t) /\ m \in Fields(m)
      /\ m.spills \in Nat /\ m.part \in Partitions /\ m.at \in Writers
  BY DEF Types, MapTyped, Sound, Fields, AllOnPass, RenameTemp
<1>1. CASE Fail(a)
  BY <1>m, <1>1, FailKeeps
<1>2. CASE ~ Fail(a)
  <2>1. PICK n : n = AfterWrite(m, t)
    OBVIOUS
  <2>2. Become(a, n)
    BY <1>2, <2>1 DEF RenameTemp
  <2>3. ASSUME n = ToNextPart(m)
        PROVE  OnPass(n, t)
    <3>1. /\ n.at = m.at /\ n.line = m.line /\ n.buffer = m.buffer /\ n.spills = m.spills
          /\ n.opened = <<>> /\ ~ n.writing
      BY <1>m, <2>3 DEF ToNextPart, Fields
    <3>2. Spills(m, t) => Spills(n, t)
      BY <3>1 DEF Spills
    <3>3. DOMAIN <<>> = {} /\ Len(<<>>) = 0
      OBVIOUS
    <3>4. Merges(m, t) => Merges(n, t)
      BY <1>m, <3>1, <3>3 DEF Merges, AllWritten
    <3> QED
      BY <1>m, <3>1, <3>2, <3>4 DEF OnPass, Writers
  <2>4. ASSUME m.at = "spill", n = AfterSpill(m)
        PROVE  OnPass(n, t)
    <3>1. /\ n.at = "consume" /\ n.line = m.line /\ n.buffer = <<>> /\ n.spills = m.spills + 1
      BY <1>m, <2>4 DEF AfterSpill, Fields
    <3>2. Spills(m, t)
      BY <1>m, <2>4 DEF OnPass
    <3>3. Reads(n, t)
      BY <1>m, <3>1, <3>2 DEF Spills, Reads, AllWritten
    <3> QED
      BY <3>1, <3>3 DEF OnPass
  <2>5. ASSUME n = AfterFinal(m) \/ n = AfterMerge(m, t)
        PROVE  OnPass(n, t)
    <3>1. n.at \in Elsewhere
      BY <1>m, <2>5 DEF AfterFinal, AfterMerge, Fields, Elsewhere
    <3> QED
      BY <3>1, ElsewhereIsOnPass
  <2>6. OnPass(n, t)
    BY <1>m, <2>1, <2>3, <2>4, <2>5, AfterWriteCases
  <2> QED
    BY <1>m, <2>2, <2>6, BecomesOnPass
<1> QED
  BY <1>1, <1>2

\* A map attempt that cleans up, stops or has not begun to read.
LEMMA StepsElsewhere ==
  ASSUME Types, AllOnPass, NEW a \in MapAttempt,
         \/ StartMap(a) \/ RemoveStale(a) \/ StaleRemoved(a)
         \/ RemoveSpill(a) \/ SpillsRemoved(a) \/ ReportMap(a) \/ CrashMap(a)
  PROVE  AllOnPass'
<1> DEFINE t == TaskOf[a]
           m == map[a]
<1>t. t \in MapTask
  BY TaskOfAssumption
<1>m. MapTyped /\ Sound(m, t) /\ OnPass(m, t) /\ m \in Fields(m)
  BY DEF Types, MapTyped, Sound, Fields, AllOnPass
<1>1. ASSUME NEW n, Become(a, n), m.at \in {"new", "stale"}, n.at = "stale",
             n.line = m.line, n.buffer = m.buffer
      PROVE  AllOnPass'
  <2>1. OnPass(n, t)
    BY <1>m, <1>1 DEF OnPass
  <2> QED
    BY <1>m, <1>1, <2>1, BecomesOnPass
<1>2. ASSUME NEW n, Become(a, n), n.at \in Elsewhere
      PROVE  AllOnPass'
  BY <1>m, <1>2, ElsewhereIsOnPass, BecomesOnPass
<1>3. CASE StartMap(a)
  <2>1. PICK todo, n : n = [m EXCEPT !.at = "stale", !.todo = todo] /\ Become(a, n) /\ m.at = "new"
    BY <1>3 DEF StartMap
  <2>2. n.at = "stale" /\ n.line = m.line /\ n.buffer = m.buffer
    BY <1>m, <2>1 DEF Fields
  <2> QED
    BY <1>1, <2>1, <2>2
<1>4. CASE RemoveStale(a)
  <2>1. PICK x \in m.todo : \/ Become(a, [m EXCEPT !.todo = @ \ {x}])
                            \/ Fail(a)
    BY <1>4 DEF RemoveStale
  <2>2. CASE Fail(a)
    BY <1>m, <2>2, FailKeeps
  <2>3. CASE Become(a, [m EXCEPT !.todo = @ \ {x}])
    <3>1. PICK n : n = [m EXCEPT !.todo = @ \ {x}]
      OBVIOUS
    <3>2. m.at = "stale" /\ n.at = m.at /\ n.line = m.line /\ n.buffer = m.buffer
      BY <1>m, <1>4, <3>1 DEF Fields, RemoveStale
    <3> QED
      BY <1>1, <2>3, <3>1, <3>2
  <2> QED
    BY <2>1, <2>2, <2>3
<1>5. CASE StaleRemoved(a)
  <2>1. PICK n : n = [m EXCEPT !.at = "consume"] /\ Become(a, n) /\ m.at = "stale"
    BY <1>5 DEF StaleRemoved
  <2>2. n.at = "consume" /\ n.line = m.line /\ n.buffer = m.buffer /\ n.spills = m.spills
    BY <1>m, <2>1 DEF Fields
  <2>3. m.line = 0 /\ m.buffer = <<>> /\ m.spills = 0
    BY <1>m, <2>1 DEF OnPass, Sound
  <2>4. Buffered(t, 0) = <<>> /\ Len(Spilled(t, 0)) = 0
    <3>1. Buffered(t, 0) = <<>> /\ Spilled(t, 0) = <<>>
      BY <1>t, OnePass
    <3> QED
      BY <3>1
  <2>5. OnPass(n, t)
    BY <2>2, <2>3, <2>4 DEF OnPass, Reads
  <2> QED
    BY <1>m, <2>1, <2>5, BecomesOnPass
<1>6. CASE RemoveSpill(a)
  <2>1. PICK x : Become(a, [m EXCEPT !.todo = @ \ {x}]) /\ m.at = "cleanup"
    BY <1>6 DEF RemoveSpill
  <2>2. PICK n : n = [m EXCEPT !.todo = @ \ {x}]
    OBVIOUS
  <2>3. n.at \in Elsewhere
    BY <1>m, <2>1, <2>2 DEF Fields, Elsewhere
  <2> QED
    BY <1>2, <2>1, <2>2, <2>3
<1>7. CASE SpillsRemoved(a) \/ ReportMap(a)
  <2>1. PICK at, n : Become(a, n) /\ n = [m EXCEPT !.at = at] /\ at \in Elsewhere
    BY <1>7 DEF SpillsRemoved, ReportMap, Elsewhere
  <2>2. n.at \in Elsewhere
    BY <1>m, <2>1 DEF Fields
  <2> QED
    BY <1>2, <2>1, <2>2
<1>8. CASE CrashMap(a)
  <2>1. PICK n : Become(a, n) /\ n = [m EXCEPT !.at = "crashed", !.writing = FALSE]
    BY <1>8 DEF CrashMap
  <2>2. n.at \in Elsewhere
    BY <1>m, <2>1 DEF Fields, Elsewhere
  <2> QED
    BY <1>2, <2>1, <2>2
<1> QED
  BY <1>3, <1>4, <1>5, <1>6, <1>7, <1>8

\* What the files hold after a step of a map attempt.
LEMMA MapFilesTell ==
  ASSUME Types, FilesTell, AllOnPass, NEW a \in MapAttempt, MapStep(a)
  PROVE  FilesTell'
<1>1. ASSUME UNCHANGED files
      PROVE  FilesTell'
  BY <1>1, FilesKept
<1>2. CASE RemoveStale(a) \/ RemoveSpill(a)
  <2>1. (\E x : Delete(x)) \/ UNCHANGED files
    BY <1>2 DEF RemoveStale, RemoveSpill
  <2> QED
    BY <1>1, <2>1, DeleteKeeps
<1>3. CASE RenameTemp(a)
  <2>1. map[a].writing /\ (Place(Target(a), Content(a)) \/ UNCHANGED files)
    BY <1>3 DEF RenameTemp
  <2>2. MayHold(Target(a), Content(a))
    BY <2>1, ContentTells
  <2> QED
    BY <1>1, <2>1, <2>2, PlaceTells
<1>4. CASE ~ (RemoveStale(a) \/ RemoveSpill(a) \/ RenameTemp(a))
  <2>1. UNCHANGED files
    BY <1>4 DEF MapStep, StartMap, StaleRemoved, ReadLine, InputOver, OpenSpill, CreateTemp,
                SpillsRemoved, ReportMap, CrashMap
  <2> QED
    BY <1>1, <2>1
<1> QED
  BY <1>2, <1>3, <1>4

\* A step of a map attempt keeps what files and attempts hold.
LEMMA MapStepData ==
  ASSUME SpillsAgree, Types, DataInv, NEW a \in MapAttempt, MapStep(a)
  PROVE  DataInv'
<1>1. FilesTell /\ AllOnPass /\ AllCollect
  BY DEF DataInv
<1>2. FilesTell'
  BY <1>1, MapFilesTell
<1>3. AllOnPass'
  <2>1. CASE StartMap(a) \/ RemoveStale(a) \/ StaleRemoved(a) \/ RemoveSpill(a)
              \/ SpillsRemoved(a) \/ ReportMap(a) \/ CrashMap(a)
    BY <1>1, <2>1, StepsElsewhere
  <2>2. CASE ReadLine(a) \/ InputOver(a)
    BY <1>1, <2>2, ReadLineOnPass, InputOverOnPass
  <2>3. CASE OpenSpill(a) \/ CreateTemp(a) \/ RenameTemp(a)
    BY <1>1, <2>3, OpenSpillOnPass, CreateTempOnPass, RenameTempOnPass
  <2> QED
    BY <2>1, <2>2, <2>3 DEF MapStep
<1>4. AllCollect'
  <2>1. UNCHANGED reduce
    BY DEF MapStep, StartMap, RemoveStale, StaleRemoved, ReadLine, InputOver, OpenSpill,
           CreateTemp, RenameTemp, RemoveSpill, SpillsRemoved, ReportMap, CrashMap
  <2> QED
    BY <1>1, <2>1 DEF AllCollect
<1> QED
  BY <1>2, <1>3, <1>4 DEF DataInv

\* A reducer opens what the next task put in place.
LEMMA OpenPartCollects ==
  ASSUME Types, PartsInv, FilesTell, AllCollect, NEW r \in ReduceAttempt, OpenPart(r)
  PROVE  AllCollect'
<1> DEFINE q == reduce[r]
           p == PartitionOf[r]
<1>q. /\ ReduceTyped /\ ReduceSound(q) /\ q.next \in Nat /\ IsSeqOfAny(q.opened)
      /\ p \in Partitions /\ Collects(q, p)
  BY PartitionOfAssumption DEF Types, ReduceTyped, ReduceSound, AllCollect
<1>1. q.at = "open" /\ q.next \in MapTask
  BY DEF OpenPart
<1>2. doneTasks = MapTask /\ Len(q.opened) = q.next - 1
  BY <1>1 DEF PartsInv, ReducersGated
<1>3. PICK content : content = files[Part(q.next, p)]
  OBVIOUS
<1>4. Part(q.next, p) \in DOMAIN files /\ PartIs(content, q.next, p)
  BY <1>q, <1>1, <1>2, <1>3 DEF PartsInv, DoneParts, FilesTell
<1>5. PICK opened, n : opened = Append(q.opened, content)
                       /\ n = [q EXCEPT !.next = @ + 1, !.opened = opened]
  OBVIOUS
<1>6. reduce' = [reduce EXCEPT ![r] = n]
  BY <1>3, <1>4, <1>5 DEF OpenPart
<1>7. n.opened = opened
  BY <1>q, <1>5 DEF ReduceSound
<1>8. Collects(n, p)
  <2> SUFFICES ASSUME NEW i \in DOMAIN opened PROVE i \in MapTask /\ PartIs(opened[i], i, p)
    BY <1>7 DEF Collects
  <2>1. PICK k : k = Len(q.opened)
    OBVIOUS
  <2>2. /\ k \in Nat /\ DOMAIN opened = 1 .. k + 1 /\ DOMAIN q.opened = 1 .. k
        /\ \A j \in 1 .. k : opened[j] = q.opened[j]
        /\ opened[k + 1] = content
    BY <1>q, <1>5, <2>1, AppendMembers
  <2>3. q.next = k + 1
    BY <1>q, <1>2, <2>1, <2>2
  <2>4. CASE i = k + 1
    BY <1>1, <1>4, <2>2, <2>3, <2>4
  <2>5. CASE i \in 1 .. k
    BY <1>q, <2>2, <2>5 DEF Collects
  <2> QED
    BY <2>2, <2>4, <2>5
<1>9. /\ reduce'[r] = n
      /\ \A s \in ReduceAttempt \ {r} : reduce'[s] = reduce[s]
  BY <1>q, <1>6 DEF ReduceTyped
<1> QED
  BY <1>8, <1>9 DEF AllCollect

\* A step that opens nothing leaves reducers what they have.
LEMMA OthersCollect ==
  ASSUME Types, AllCollect, NEW r \in ReduceAttempt,
         StartReduce(r) \/ WriteOutput(r) \/ CrashReduce(r)
  PROVE  AllCollect'
<1> DEFINE q == reduce[r]
<1>q. ReduceTyped /\ ReduceSound(q) /\ Collects(q, PartitionOf[r])
  BY DEF Types, ReduceTyped, AllCollect
<1>1. PICK at, n : n = [q EXCEPT !.at = at] /\ reduce' = [reduce EXCEPT ![r] = n]
  BY DEF StartReduce, WriteOutput, CrashReduce
<1>2. n.opened = q.opened
  BY <1>q, <1>1 DEF ReduceSound
<1>3. Collects(n, PartitionOf[r])
  BY <1>q, <1>2 DEF Collects
<1>4. /\ reduce'[r] = n
      /\ \A s \in ReduceAttempt \ {r} : reduce'[s] = reduce[s]
  BY <1>q, <1>1 DEF ReduceTyped
<1> QED
  BY <1>3, <1>4 DEF AllCollect

\* The output is made of the parts of all tasks.
LEMMA WriteOutputTells ==
  ASSUME Types, PartsInv, FilesTell, AllCollect, NEW r \in ReduceAttempt, WriteOutput(r)
  PROVE  FilesTell'
<1> DEFINE q == reduce[r]
           p == PartitionOf[r]
<1>q. /\ ReduceSound(q) /\ q.next \in Nat \ {0} /\ IsSeqOfAny(q.opened)
      /\ p \in Partitions /\ Collects(q, p)
  BY PartitionOfAssumption DEF Types, ReduceTyped, ReduceSound, AllCollect
<1>1. /\ q.at = "open" /\ q.next \notin MapTask
      /\ Place(Out(p), Grouped(Merged(q.opened)))
  BY DEF WriteOutput
<1>2. Len(q.opened) = q.next - 1
  BY DEF PartsInv, ReducersGated
<1>3. PICK k, n : k = Len(q.opened) /\ n = Len(Lines)
  OBVIOUS
<1>4. /\ k \in Nat /\ DOMAIN q.opened = 1 .. k
      /\ n \in Nat /\ MapTask = 1 .. n
  BY <1>q, <1>3, SeqIsFunction, LinesAssumption DEF MapTask
<1>5. \A i \in 1 .. k : i \in 1 .. n
  BY <1>q, <1>4 DEF Collects
<1>6. k + 1 \notin 1 .. n
  BY <1>q, <1>1, <1>2, <1>3, <1>4
<1>7. k = n
  <2>1. ~ (k < n)
    BY <1>4, <1>6
  <2>2. ~ (k > n)
    BY <1>4, <1>5
  <2> QED
    BY <1>4, <2>1, <2>2
<1>8. DOMAIN q.opened = MapTask
  BY <1>4, <1>7
<1>9. OutIs(Grouped(Merged(q.opened)), p)
  BY <1>q, <1>8, OutputTells DEF Collects
<1>10. PICK content : content = Grouped(Merged(q.opened))
  OBVIOUS
<1>11. MayHold(Out(p), content)
  BY <1>q, <1>9, <1>10, MayHoldOut
<1> QED
  BY <1>1, <1>10, <1>11, PlaceTells

\* A step of a reducer keeps what files and attempts hold.
LEMMA ReduceStepData ==
  ASSUME Types, PartsInv, DataInv, NEW r \in ReduceAttempt, ReduceStep(r)
  PROVE  DataInv'
<1>1. FilesTell /\ AllOnPass /\ AllCollect
  BY DEF DataInv
<1>2. AllOnPass'
  <2>1. UNCHANGED map
    BY DEF ReduceStep, StartReduce, OpenPart, WriteOutput, CrashReduce
  <2> QED
    BY <1>1, <2>1 DEF AllOnPass
<1>3. AllCollect'
  BY <1>1, OpenPartCollects, OthersCollect DEF ReduceStep
<1>4. FilesTell'
  <2>1. CASE WriteOutput(r)
    BY <1>1, <2>1, WriteOutputTells
  <2>2. CASE ~ WriteOutput(r)
    <3>1. UNCHANGED files
      BY <2>2 DEF ReduceStep, StartReduce, OpenPart, CrashReduce
    <3> QED
      BY <1>1, <3>1, FilesKept
  <2> QED
    BY <2>1, <2>2
<1> QED
  BY <1>2, <1>3, <1>4 DEF DataInv

\* It holds at the start, and every step keeps it.
LEMMA InitData == Init => DataInv
<1> SUFFICES ASSUME Init PROVE DataInv
  OBVIOUS
<1>1. DOMAIN <<>> = {}
  OBVIOUS
<1>2. FilesTell
  BY <1>1 DEF Init, FilesTell
<1>3. AllOnPass
  BY DEF Init, AllOnPass, OnPass
<1>4. AllCollect
  BY <1>1 DEF Init, AllCollect, Collects
<1> QED
  BY <1>2, <1>3, <1>4 DEF DataInv

\* Each step keeps it.
LEMMA NextData ==
  ASSUME SpillsAgree, Inv, DataInv, [Next]_vars
  PROVE  DataInv'
<1>1. Types /\ PartsInv
  BY DEF Inv
<1>2. CASE \E a \in MapAttempt : MapStep(a)
  BY <1>1, <1>2, MapStepData
<1>3. CASE \E r \in ReduceAttempt : ReduceStep(r)
  BY <1>1, <1>3, ReduceStepData
<1>4. CASE UNCHANGED vars
  <2>1. FilesTell'
    BY <1>4, FilesKept DEF vars, DataInv
  <2>2. AllOnPass' /\ AllCollect'
    BY <1>4 DEF vars, DataInv, AllOnPass, AllCollect
  <2> QED
    BY <2>1, <2>2 DEF DataInv
<1> QED
  BY <1>2, <1>3, <1>4 DEF Next

\* The total over one task is its own.
LEMMA TotalOfOne ==
  ASSUME NEW t \in MapTask, NEW key
  PROVE  Total(key, {t}) = WorthOfAll(Lines[t], key)
<1>1. PICK D, g : D = {t} /\ g = [u \in D |-> WorthOfAll(Lines[u], key)]
  OBVIOUS
<1>2. DOMAIN g = D /\ g[t] = WorthOfAll(Lines[t], key) /\ D \ {t} = {} /\ t \in D
  BY <1>1
<1>3. Total(key, {t}) = SumFunctionOnSet(g, D)
  <2>1. Total(key, {t}) = SumFunction(g)
    BY <1>1 DEF Total
  <2> QED
    BY <1>2, <2>1 DEF SumFunction, SumFunctionOnSet, FoldFunction, FoldFunctionOnSet
<1>4. WorthOfAll(Lines[t], key) \in Nat
  BY LinesAre, SourcesAre
<1>5. IsFiniteSet(D)
  BY <1>1, FS_Singleton
<1>6. SumFunctionOnSet(g, D) = g[t] + SumFunctionOnSet(g, D \ {t})
  BY <1>1, <1>2, <1>4, <1>5, SumTakesOut
<1> QED
  BY <1>2, <1>3, <1>4, <1>6, SumOfNone

\* What the files hold is right.
LEMMA DataIsRight == DataInv => FilesAreRight
<1> SUFFICES ASSUME FilesTell PROVE FilesAreRight
  BY DEF DataInv
<1>1. ASSUME NEW t \in MapTask, NEW p \in Partitions, Part(t, p) \in DOMAIN files
      PROVE  HoldsTotals(files[Part(t, p)], {t}, p)
  <2>1. PICK s, worth, keys : /\ s = files[Part(t, p)] /\ worth = WorthByAll(Lines[t])
                              /\ keys = KeysOfAll(Lines[t])
    OBVIOUS
  <2>2. Tells(s, p, keys, worth)
    BY <1>1, <2>1 DEF FilesTell, PartIs
  <2>3. \A key \in Nat : worth[key] = Total(key, {t})
    BY <2>1, TotalOfOne DEF WorthByAll
  <2>4. keys = UNION {KeysOfAll(Lines[u]) : u \in {t}}
    BY <2>1
  <2> QED
    BY <2>1, <2>2, <2>3, <2>4, TellsTotals
<1>2. ASSUME NEW p \in Partitions, Out(p) \in DOMAIN files
      PROVE  HoldsTotals(files[Out(p)], MapTask, p)
  <2>1. PICK s, worth, keys : /\ s = files[Out(p)] /\ worth = [key \in Nat |-> Total(key, MapTask)]
                              /\ keys = UNION {KeysOfAll(Lines[t]) : t \in MapTask}
    OBVIOUS
  <2>2. Tells(s, p, keys, worth)
    BY <1>2, <2>1 DEF FilesTell, OutIs
  <2>3. \A key \in Nat : worth[key] = Total(key, MapTask)
    BY <2>1
  <2> QED
    BY <2>1, <2>2, <2>3, TellsTotals
<1> QED
  BY <1>1, <1>2 DEF FilesAreRight, PartsAreWhole, OutputIsRight

(***************************************************************************)
(* Whatever is in place, a part or an output, holds each key of its        *)
(* partition in one group with the right total, when the attempts of a     *)
(* task spill at the same size (the spill_bytes of all workers agree):     *)
(* though attempts crash, overlap, overwrite files and merge each other's  *)
(* spills, and late ones rewrite parts that reducers read.                 *)
(***************************************************************************)
THEOREM FilesStayRight == ASSUME SpillsAgree PROVE Spec => []FilesAreRight
<1>1. Inv /\ DataInv /\ [Next]_vars => DataInv'
  BY NextData
<1>2. Inv /\ [Next]_vars => Inv'
  BY NextInv
<1> QED
  BY InitData, InvHolds, DataIsRight, <1>1, PTL DEF Spec

================================================================================
