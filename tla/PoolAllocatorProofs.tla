-------------------------- MODULE PoolAllocatorProofs --------------------------
(***************************************************************************)
(* That the arena's blocks lie apart, that no two tensors share one and    *)
(* none is lost, and that the pool stops growing: for every alignment,     *)
(* chunk size, set of tensors and set of buffer sizes.                     *)
(***************************************************************************)
EXTENDS PoolAllocator, FiniteSetTheorems, WellFoundedInduction, TLAPS

--------------------------------------------------------------------------------

(***************************************************************************)
(* The inductive invariant.                                                *)
(***************************************************************************)
Block == Pointer \X Class
Place(x) == x[1][1]
Start(x) == x[1][2]
EndOf(x) == x[1][2] + x[2]

\* No property reads the statistics.
ArenaTypeOK ==
  /\ chunks \in Seq(Nat) /\ Len(chunks) <= MaxChunks
  /\ cursor \in Pointer \cup {Null}
  /\ remaining \in Nat
  /\ freeLists \in [Class -> Seq(Pointer)]
  /\ carved \in SUBSET Block
  /\ most \in [Class -> Nat]

TensorTypeOK ==
  /\ tensor \in [Tensor -> Buffer]
  /\ doing \in [Tensor -> {"idle", "resize", "copy"}]
  /\ incoming \in [Tensor -> Buffer]

\* The cursor is where the blocks of the newest chunk end.
CursorInv ==
  IF cursor = Null THEN chunks = <<>> /\ remaining = 0
  ELSE /\ cursor[1] = Len(chunks)
       /\ cursor[2] + remaining = chunks[Len(chunks)]
       /\ cursor[2] % Alignment = 0

BlockInv ==
  \A x \in carved :
    /\ Place(x) \in 1 .. Len(chunks)
    /\ Start(x) % Alignment = 0
    /\ EndOf(x) <= chunks[Place(x)]
    /\ Place(x) = Len(chunks) => EndOf(x) <= cursor[2]

Apart(C) ==
  \A x, y \in C :
    x # y /\ Place(x) = Place(y) => EndOf(x) <= Start(y) \/ EndOf(y) <= Start(x)

\* Who has the blocks C, with the buffers H and the free lists F.
Having(H) == {h \in Holder : H[h].data # Null}

Owned(H, F, C) ==
  /\ \A h \in Having(H) : H[h].size # 0 /\ <<H[h].data, SizeClass(H[h].size)>> \in C
  /\ \A g, h \in Having(H) : g # h => H[g].data # H[h].data
  /\ \A h \in Having(H), c \in Class : H[h].data \notin Range(F[c])
  /\ \A c \in Class : IsInjective(F[c])
  /\ \A c \in Class : \A p \in Range(F[c]) : <<p, c>> \in C
  /\ \A x \in C : \/ x[1] \in Range(F[x[2]])
                  \/ \E h \in Having(H) : H[h].data = x[1]

HeldBy == [h \in Holder |-> Held(h)]

\* What a tensor has in the middle of an assignment.
DoingInv ==
  \A t \in Tensor :
    /\ doing[t] # "resize" => incoming[t].data = Null
    /\ doing[t] = "copy" => tensor[t].data = Null

ArenaInv ==
  /\ ArenaTypeOK
  /\ CursorInv
  /\ BlockInv
  /\ Apart(carved)
  /\ NoGrowthAfterWarmUp

PoolInv ==
  /\ ArenaInv
  /\ TensorTypeOK
  /\ DoingInv
  /\ Owned(HeldBy, freeLists, carved)

--------------------------------------------------------------------------------

(***************************************************************************)
(* Arithmetic: sizeClass.                                                  *)
(***************************************************************************)
\* A product below its factor is a product with zero.
LEMMA SmallMultiple ==
  ASSUME NEW a \in Nat \ {0}, NEW q \in Int, a * q > 0 - a, a * q <= 0
  PROVE  q = 0
<1>1. q <= 0
  <2>1. ASSUME q >= 1 PROVE FALSE
    <3>1. a * q >= a
      BY <2>1, SMT
    <3> QED
      BY <3>1, SMT
  <2> QED
    BY <2>1
<1>2. q >= 0
  <2>1. ASSUME q <= -1 PROVE FALSE
    <3>1. a * q <= 0 - a
      BY <2>1, SMT
    <3> QED
      BY <3>1, SMT
  <2> QED
    BY <2>1
<1> QED
  BY <1>1, <1>2

\* Division with remainder.
LEMMA Division ==
  ASSUME NEW a \in Nat \ {0}, NEW n \in Nat
  PROVE  /\ n \div a \in Nat /\ n % a \in 0 .. a - 1
         /\ n = a * (n \div a) + (n % a)
  OBVIOUS

\* A multiple is aligned.
LEMMA MultipleAligned ==
  ASSUME NEW a \in Nat \ {0}, NEW q \in Nat
  PROVE  a * q \in Nat /\ (a * q) % a = 0
<1>1. a * q \in Nat
  OBVIOUS
<1> DEFINE n == a * q
<1>2. n \div a \in Nat /\ n % a \in 0 .. a - 1 /\ n = a * (n \div a) + (n % a)
  BY <1>1, Division
<1>3. a * ((n \div a) - q) = 0 - (n % a)
  BY <1>2
<1>4. (n \div a) - q = 0
  BY <1>2, <1>3, SmallMultiple
<1> QED
  BY <1>1, <1>3, <1>4

\* A sum of aligned numbers is aligned.
LEMMA SumAligned ==
  ASSUME NEW a \in Nat \ {0}, NEW m \in Nat, NEW n \in Nat, m % a = 0, n % a = 0
  PROVE  (m + n) % a = 0
<1>1. m = a * (m \div a) /\ n = a * (n \div a) /\ m \div a \in Nat /\ n \div a \in Nat
  BY Division
<1>2. m + n = a * ((m \div a) + (n \div a))
  BY <1>1
<1>3. (m \div a) + (n \div a) \in Nat
  BY <1>1
<1> QED
  BY <1>2, <1>3, MultipleAligned

\* Rounding up to the alignment adds less than the alignment.
LEMMA RoundedHolds ==
  ASSUME NEW b \in Bytes
  PROVE  Rounded(b) \in Nat /\ Rounded(b) >= b /\ Rounded(b) <= b + Alignment - 1
<1>1. b + Alignment - 1 \in Nat
  BY AlignmentAssumption, BytesAssumption
<1>2. PICK q \in Nat, r \in 0 .. Alignment - 1 :
        b + Alignment - 1 = Alignment * q + r /\ q = (b + Alignment - 1) \div Alignment
  BY <1>1, Division, AlignmentAssumption
<1>3. Rounded(b) = Alignment * q
  BY <1>2, AlignmentAssumption DEF Rounded
<1> QED
  BY <1>2, <1>3, AlignmentAssumption, BytesAssumption

\* The class of a size exists; it is aligned and holds that many bytes.
LEMMA ClassHolds ==
  ASSUME NEW b \in Bytes \ {0}
  PROVE  /\ SizeClass(b) \in Nat /\ SizeClass(b) >= b
         /\ SizeClass(b) % Alignment = 0
<1> DEFINE Power == {Alignment * 2 ^ k : k \in 0 .. b}
           Fits == {p \in Power : p >= Rounded(b)}
           Below == OpToRel(<, Nat)
<1>1. b \in Nat /\ b >= 1
  BY BytesAssumption
<1>2. \A k \in 0 .. b : 2 ^ k \in Nat \ {0}
  BY PowerAssumption
<1>3. Power \subseteq Nat
  BY <1>2, AlignmentAssumption
<1>4. Alignment * 2 ^ b \in Fits
  <2>1. 2 ^ b \in Nat /\ 2 ^ b >= b + 1
    BY <1>1, <1>2, PowerAssumption
  <2>2. PICK p \in Nat : p = 2 ^ b
    BY <2>1
  <2>3. Alignment * p >= Alignment * (b + 1)
    BY <2>1, <2>2, <1>1, AlignmentAssumption
  <2>4. Alignment * (b + 1) >= b + Alignment
    BY <1>1, AlignmentAssumption
  <2>5. Alignment * p \in Nat
    BY AlignmentAssumption
  <2>6. Alignment * p >= Rounded(b)
    BY <2>3, <2>4, <2>5, <1>1, RoundedHolds, AlignmentAssumption
  <2> QED
    BY <2>2, <2>6, <1>1
<1>5. \E m \in Fits : \A k \in Fits : ~ (<<k, m>> \in Below)
  <2>1. IsWellFoundedOn(Below, Nat)
    BY NatLessThanWellFounded
  <2> HIDE DEF Fits, Below
  <2>2. Fits \subseteq Nat /\ Fits # {}
    BY <1>3, <1>4 DEF Fits
  <2> QED
    BY <2>1, <2>2, WFMin
<1>6. PICK m \in Fits : \A k \in Fits : m <= k
  <2>1. PICK n \in Fits : \A k \in Fits : ~ (<<k, n>> \in Below)
    BY <1>5
  <2>2. \A i, j \in Nat : <<i, j>> \in Below <=> i < j
    BY DEF OpToRel
  <2>3. Fits \subseteq Nat
    BY <1>3
  <2> HIDE DEF Fits, Below
  <2>4. \A k \in Fits : n <= k
    <3> TAKE k \in Fits
    <3>1. n \in Nat /\ k \in Nat
      BY <2>3
    <3>2. ~ (k < n)
      BY <2>1, <2>2, <3>1
    <3> QED
      BY <3>1, <3>2
  <2> QED
    BY <2>1, <2>4
<1>7. /\ m \in Power /\ m >= Rounded(b)
      /\ \A k \in 0 .. b : Alignment * 2 ^ k >= Rounded(b) => m <= Alignment * 2 ^ k
  BY <1>6
<1>8. SizeClass(b) \in Power /\ SizeClass(b) >= Rounded(b)
  BY <1>7 DEF SizeClass
<1>9. SizeClass(b) % Alignment = 0
  <2>1. PICK k \in 0 .. b : SizeClass(b) = Alignment * 2 ^ k
    BY <1>8
  <2>2. 2 ^ k \in Nat
    BY <1>2
  <2> QED
    BY <2>1, <2>2, MultipleAligned, AlignmentAssumption
<1> QED
  BY <1>1, <1>3, <1>8, <1>9, RoundedHolds

\* What is known of every class.
LEMMA ClassType ==
  /\ \A c \in Class : c \in Nat /\ c > 0 /\ c % Alignment = 0
  /\ \A b \in Bytes \ {0} : SizeClass(b) \in Class /\ SizeClass(b) >= b
<1>1. \A b \in Bytes \ {0} : b \in Nat /\ b >= 1
  BY BytesAssumption
<1> QED
  BY <1>1, ClassHolds DEF Class

--------------------------------------------------------------------------------

(***************************************************************************)
(* Who has which block, for any buffers H, free lists F and blocks C.      *)
(***************************************************************************)
One(C) == \A x, y \in C : x[1] = y[1] => x = y

\* A pointer is the start of one block.
LEMMA ApartIsOne ==
  ASSUME NEW C \in SUBSET Block, Apart(C)
  PROVE  One(C)
<1> SUFFICES ASSUME NEW x \in C, NEW y \in C, x[1] = y[1], x # y
             PROVE  FALSE
  BY DEF One
<1>1. /\ x[1][1] = y[1][1] /\ x[1][2] = y[1][2]
      /\ x[1][2] \in Nat /\ x[2] \in Class /\ y[2] \in Class
  BY DEF Block, Pointer
<1>2. x[2] \in Nat /\ x[2] > 0 /\ y[2] \in Nat /\ y[2] > 0
  BY <1>1, ClassType
<1>3. x[1][2] + x[2] <= y[1][2] \/ y[1][2] + y[2] <= x[1][2]
  BY <1>1 DEF Apart, Place, Start, EndOf
<1> QED
  BY <1>1, <1>2, <1>3

\* What the holders have, by its type.
LEMMA HavingType ==
  ASSUME NEW H \in [Holder -> Buffer], NEW h \in Having(H)
  PROVE  /\ h \in Holder /\ H[h].data \in Pointer /\ H[h].data # Null
         /\ H[h].size \in Bytes
  BY DEF Having, Buffer

\* A pointer is never null.
LEMMA NullIsNoPointer == Null \notin Pointer
  BY DEF Null, Pointer

\* A buffer given back goes to the free list of its class.
LEMMA ReleaseKeepsOwned ==
  ASSUME NEW H \in [Holder -> Buffer], NEW F \in [Class -> Seq(Pointer)],
         NEW C \in SUBSET Block, One(C), Owned(H, F, C),
         NEW s \in Having(H), NEW n \in Bytes,
         NEW c, c = SizeClass(H[s].size),
         NEW J, J = [H EXCEPT ![s] = [size |-> n, data |-> Null]],
         NEW G, G = [F EXCEPT ![c] = Append(@, H[s].data)]
  PROVE  Owned(J, G, C)
<1> DEFINE p == H[s].data
<1>1. s \in Holder /\ p \in Pointer /\ c \in Class /\ <<p, c>> \in C
  BY HavingType, ClassType DEF Owned
<1>2. J \in [Holder -> Buffer] /\ G \in [Class -> Seq(Pointer)]
  BY <1>1 DEF Buffer
<1>3. /\ Having(J) = Having(H) \ {s}
      /\ \A h \in Having(J) : J[h] = H[h]
  BY <1>1 DEF Having
<1>4. \A d \in Class : G[d] = IF d = c THEN Append(F[c], p) ELSE F[d]
  BY <1>1
<1>5. \A d \in Class : Range(G[d]) = IF d = c THEN Range(F[c]) \cup {p} ELSE Range(F[d])
  <2> TAKE d \in Class
  <2>1. CASE d = c
    <3>1. F[c] \in Seq(Pointer) /\ G[c] = Append(F[c], p)
      BY <1>1, <1>4
    <3>2. /\ DOMAIN G[c] = 1 .. Len(F[c]) + 1 /\ DOMAIN F[c] = 1 .. Len(F[c])
          /\ \A i \in 1 .. Len(F[c]) : G[c][i] = F[c][i]
          /\ G[c][Len(F[c]) + 1] = p
      BY <3>1, <1>1
    <3>3. Len(F[c]) \in Nat
      BY <3>1
    <3> QED
      BY <2>1, <3>2, <3>3 DEF Range
  <2>2. CASE d # c
    BY <2>2, <1>4 DEF Range
  <2> QED
    BY <2>1, <2>2
<1> HIDE DEF p
<1>6. \A h \in Having(J) : J[h].size # 0 /\ <<J[h].data, SizeClass(J[h].size)>> \in C
  BY <1>3 DEF Owned
<1>7. \A g, h \in Having(J) : g # h => J[g].data # J[h].data
  <2> TAKE g, h \in Having(J)
  <2>1. g \in Having(H) /\ h \in Having(H) /\ J[g] = H[g] /\ J[h] = H[h]
    BY <1>3
  <2>2. g # h => H[g].data # H[h].data
    BY <2>1 DEF Owned
  <2> QED
    BY <2>1, <2>2
<1>8. \A h \in Having(J), d \in Class : J[h].data \notin Range(G[d])
  <2> TAKE h \in Having(J), d \in Class
  <2>1. h \in Having(H) /\ h # s /\ J[h] = H[h]
    BY <1>3
  <2>2. H[h].data # p /\ H[h].data \notin Range(F[d])
    BY <2>1 DEF Owned, p
  <2> QED
    BY <2>1, <2>2, <1>5
<1>9. \A d \in Class : IsInjective(G[d])
  <2> TAKE d \in Class
  <2>1. CASE d # c
    BY <2>1, <1>4 DEF Owned
  <2>2. CASE d = c
    <3>1. F[c] \in Seq(Pointer) /\ G[c] = Append(F[c], p)
      BY <1>1, <1>4
    <3>2. p \notin Range(F[c])
      BY <1>1 DEF Owned, p
    <3>3. \A i \in DOMAIN F[c] : F[c][i] # p
      BY <3>2 DEF Range
    <3>4. \A i, j \in DOMAIN F[c] : F[c][i] = F[c][j] => i = j
      BY <1>1 DEF Owned, IsInjective
    <3>5. /\ DOMAIN G[c] = 1 .. Len(F[c]) + 1 /\ DOMAIN F[c] = 1 .. Len(F[c])
          /\ \A i \in 1 .. Len(F[c]) : G[c][i] = F[c][i]
          /\ G[c][Len(F[c]) + 1] = p /\ Len(F[c]) \in Nat
      BY <3>1, <1>1
    <3> QED
      BY <2>2, <3>3, <3>4, <3>5 DEF IsInjective
  <2> QED
    BY <2>1, <2>2
<1>10. \A d \in Class : \A q \in Range(G[d]) : <<q, d>> \in C
  BY <1>1, <1>5 DEF Owned
<1>11. \A x \in C : x[1] \in Range(G[x[2]]) \/ \E h \in Having(J) : J[h].data = x[1]
  <2> TAKE x \in C
  <2>1. x[2] \in Class
    BY DEF Block
  <2>2. CASE x[1] \in Range(F[x[2]])
    BY <2>1, <2>2, <1>5
  <2>3. CASE x[1] = p
    <3>1. x = <<p, c>>
      BY <2>3, <1>1 DEF One
    <3> QED
      BY <3>1, <1>1, <1>5
  <2>4. CASE x[1] \notin Range(F[x[2]]) /\ x[1] # p
    <3>1. PICK h \in Having(H) : H[h].data = x[1]
      BY <2>4 DEF Owned
    <3>2. h # s
      BY <3>1, <2>4 DEF p
    <3> QED
      BY <3>1, <3>2, <1>3
  <2> QED
    BY <2>2, <2>3, <2>4
<1> QED
  BY <1>2, <1>6, <1>7, <1>8, <1>9, <1>10, <1>11 DEF Owned

\* A holder without a block may change its size.
LEMMA EmptyKeepsOwned ==
  ASSUME NEW H \in [Holder -> Buffer], NEW F, NEW C, Owned(H, F, C),
         NEW s \in Holder, H[s].data = Null, NEW n \in Bytes,
         NEW J, J = [H EXCEPT ![s] = [size |-> n, data |-> Null]]
  PROVE  J \in [Holder -> Buffer] /\ Owned(J, F, C)
<1>1. J \in [Holder -> Buffer]
  BY DEF Buffer
<1>2. Having(J) = Having(H) /\ \A h \in Having(H) : J[h] = H[h]
  BY DEF Having
<1>3. \A h \in Having(J) : J[h].size # 0 /\ <<J[h].data, SizeClass(J[h].size)>> \in C
  <2> TAKE h \in Having(J)
  <2>1. h \in Having(H) /\ J[h] = H[h]
    BY <1>2
  <2> QED
    BY <2>1 DEF Owned
<1>4. \A g, h \in Having(J) : g # h => J[g].data # J[h].data
  <2> TAKE g, h \in Having(J)
  <2>1. g \in Having(H) /\ h \in Having(H) /\ J[g] = H[g] /\ J[h] = H[h]
    BY <1>2
  <2> QED
    BY <2>1, Zenon DEF Owned
<1>5. \A h \in Having(J), d \in Class : J[h].data \notin Range(F[d])
  BY <1>2 DEF Owned
<1>6. \A x \in C : x[1] \in Range(F[x[2]]) \/ \E h \in Having(J) : J[h].data = x[1]
  <2> TAKE x \in C
  <2>1. x[1] \in Range(F[x[2]]) \/ \E h \in Having(H) : H[h].data = x[1]
    BY DEF Owned
  <2> QED
    BY <2>1, <1>2
<1> QED
  BY <1>1, <1>3, <1>4, <1>5, <1>6 DEF Owned

\* A block changes hands.
LEMMA MoveKeepsOwned ==
  ASSUME NEW H \in [Holder -> Buffer], NEW F, NEW C, Owned(H, F, C),
         NEW s \in Holder, NEW r \in Holder, s # r, H[s].data = Null,
         NEW J, J = [H EXCEPT ![s] = H[r], ![r] = NoBuffer]
  PROVE  J \in [Holder -> Buffer] /\ Owned(J, F, C)
<1> DEFINE From(h) == IF h = s THEN r ELSE h
<1>1. J \in [Holder -> Buffer]
  BY BytesAssumption DEF Buffer, NoBuffer
<1>2. \A h \in Holder : J[h] = IF h = s THEN H[r] ELSE IF h = r THEN NoBuffer ELSE H[h]
  OBVIOUS
<1>3. \A h \in Having(J) : /\ From(h) \in Having(H) /\ J[h] = H[From(h)]
                           /\ h # r
  BY <1>2 DEF Having, NoBuffer
<1>4. \A g, h \in Having(J) : g # h => From(g) # From(h)
  BY <1>3
<1>5. \A h \in Having(H) : \E g \in Having(J) : J[g].data = H[h].data
  <2> TAKE h \in Having(H)
  <2>1. h \in Holder /\ h # s /\ H[h].data # Null
    BY DEF Having
  <2>2. CASE h = r
    <3>1. s \in Having(J) /\ J[s] = H[h]
      BY <2>1, <2>2, <1>2 DEF Having
    <3> QED
      BY <3>1
  <2>3. CASE h # r
    <3>1. h \in Having(J) /\ J[h] = H[h]
      BY <2>1, <2>3, <1>2 DEF Having
    <3> QED
      BY <3>1
  <2> QED
    BY <2>2, <2>3
<1> HIDE DEF From
<1>6. \A h \in Having(J) : J[h].size # 0 /\ <<J[h].data, SizeClass(J[h].size)>> \in C
  <2> TAKE h \in Having(J)
  <2>1. From(h) \in Having(H) /\ J[h] = H[From(h)]
    BY <1>3
  <2>2. H[From(h)].size # 0 /\ <<H[From(h)].data, SizeClass(H[From(h)].size)>> \in C
    BY <2>1 DEF Owned
  <2> QED
    BY <2>1, <2>2
<1>7. \A g, h \in Having(J) : g # h => J[g].data # J[h].data
  <2> TAKE g, h \in Having(J)
  <2>1. /\ From(g) \in Having(H) /\ J[g] = H[From(g)]
        /\ From(h) \in Having(H) /\ J[h] = H[From(h)]
        /\ g # h => From(g) # From(h)
    BY <1>3, <1>4
  <2>2. From(g) # From(h) => H[From(g)].data # H[From(h)].data
    BY <2>1 DEF Owned
  <2> QED
    BY <2>1, <2>2
<1>8. \A h \in Having(J), d \in Class : J[h].data \notin Range(F[d])
  BY <1>3 DEF Owned
<1>9. \A x \in C : x[1] \in Range(F[x[2]]) \/ \E h \in Having(J) : J[h].data = x[1]
  <2> TAKE x \in C
  <2>1. x[1] \in Range(F[x[2]]) \/ \E h \in Having(H) : H[h].data = x[1]
    BY DEF Owned
  <2> QED
    BY <2>1, <1>5
<1> QED
  BY <1>1, <1>6, <1>7, <1>8, <1>9 DEF Owned

\* What is left of a free list when its last block is taken.
LEMMA TakeLast ==
  ASSUME NEW f \in Seq(Pointer), f # <<>>, IsInjective(f),
         NEW g, g = SubSeq(f, 1, Len(f) - 1)
  PROVE  /\ g \in Seq(Pointer) /\ Len(g) = Len(f) - 1 /\ IsInjective(g)
         /\ LastOf(f) \in Pointer /\ LastOf(f) \in Range(f)
         /\ Range(g) = Range(f) \ {LastOf(f)}
<1>1. Len(f) \in Nat /\ Len(f) >= 1 /\ DOMAIN f = 1 .. Len(f)
  OBVIOUS
<1>2. /\ g \in Seq(Pointer) /\ Len(g) = Len(f) - 1 /\ DOMAIN g = 1 .. Len(f) - 1
      /\ \A i \in 1 .. Len(f) - 1 : g[i] = f[i]
  BY <1>1
<1>3. LastOf(f) = f[Len(f)] /\ LastOf(f) \in Pointer
  BY <1>1 DEF LastOf
<1>4. \A i, j \in DOMAIN f : f[i] = f[j] => i = j
  BY DEF IsInjective
<1>5. IsInjective(g)
  BY <1>1, <1>2, <1>4 DEF IsInjective
<1>6. \A i \in DOMAIN g : g[i] \in Range(f) /\ g[i] # LastOf(f)
  BY <1>1, <1>2, <1>3, <1>4 DEF Range
<1>7. \A k \in DOMAIN f : f[k] = LastOf(f) \/ f[k] \in Range(g)
  <2> TAKE k \in DOMAIN f
  <2>1. k = Len(f) \/ (k \in DOMAIN g /\ g[k] = f[k])
    BY <1>1, <1>2
  <2> QED
    BY <2>1, <1>3 DEF Range
<1>8. Range(g) = Range(f) \ {LastOf(f)}
  BY <1>6, <1>7 DEF Range
<1>9. LastOf(f) \in Range(f)
  BY <1>1, <1>3 DEF Range
<1> QED
  BY <1>2, <1>3, <1>5, <1>8, <1>9

\* allocate hands out the block that was freed last ...
LEMMA HitKeepsOwned ==
  ASSUME NEW H \in [Holder -> Buffer], NEW F \in [Class -> Seq(Pointer)],
         NEW C \in SUBSET Block, One(C), Owned(H, F, C),
         NEW s \in Holder, H[s].data = Null, NEW b \in Bytes \ {0},
         NEW c, c = SizeClass(b), F[c] # <<>>,
         NEW J, J = [H EXCEPT ![s] = [size |-> b, data |-> LastOf(F[c])]],
         NEW G, G = [F EXCEPT ![c] = SubSeq(@, 1, Len(@) - 1)]
  PROVE  Owned(J, G, C)
<1>1. PICK p : p = LastOf(F[c])
  OBVIOUS
<1>2. c \in Class /\ F[c] \in Seq(Pointer)
  BY ClassType
<1>3. \A d \in Class : G[d] = IF d = c THEN SubSeq(F[c], 1, Len(F[c]) - 1) ELSE F[d]
  BY <1>2
<1>4. IsInjective(F[c])
  BY <1>2 DEF Owned
<1>5. /\ G[c] \in Seq(Pointer) /\ p \in Pointer /\ p \in Range(F[c])
      /\ IsInjective(G[c]) /\ Range(G[c]) = Range(F[c]) \ {p}
  <2>1. G[c] = SubSeq(F[c], 1, Len(F[c]) - 1)
    BY <1>2, <1>3
  <2> QED
    BY <1>1, <1>2, <1>4, <2>1, TakeLast
<1>6. \A d \in Class : d # c => Range(G[d]) = Range(F[d])
  BY <1>3 DEF Range
<1>7. <<p, c>> \in C
  BY <1>2, <1>5 DEF Owned
<1>8. \A d \in Class : p \notin Range(G[d])
  <2> TAKE d \in Class
  <2>1. CASE d = c
    BY <2>1, <1>5
  <2>2. CASE d # c
    <3>1. p \in Range(F[d]) => <<p, d>> \in C
      BY DEF Owned
    <3>2. <<p, d>> \in C => d = c
      BY <1>7 DEF One
    <3> QED
      BY <3>1, <3>2, <2>2, <1>6
  <2> QED
    BY <2>1, <2>2
<1>9. \A d \in Class : Range(G[d]) \subseteq Range(F[d])
  BY <1>5, <1>6
<1>10. J \in [Holder -> Buffer] /\ J[s] = [size |-> b, data |-> p]
  BY <1>1, <1>5 DEF Buffer
<1>11. /\ Having(J) = Having(H) \cup {s} /\ s \notin Having(H)
       /\ \A h \in Having(H) : J[h] = H[h] /\ H[h].data # p
  <2>1. p # Null
    BY <1>5, NullIsNoPointer
  <2>2. \A h \in Having(H) : H[h].data # p
    BY <1>2, <1>5 DEF Owned
  <2> QED
    BY <1>10, <2>1, <2>2 DEF Having
<1>12. G \in [Class -> Seq(Pointer)]
  BY <1>2, <1>5
<1>13. \A h \in Having(J) : J[h].size # 0 /\ <<J[h].data, SizeClass(J[h].size)>> \in C
  <2> TAKE h \in Having(J)
  <2>1. CASE h = s
    BY <2>1, <1>7, <1>10
  <2>2. CASE h # s
    BY <2>2, <1>11 DEF Owned
  <2> QED
    BY <2>1, <2>2
<1>14. \A g, h \in Having(J) : g # h => J[g].data # J[h].data
  <2> TAKE g, h \in Having(J)
  <2>1. CASE g # s /\ h # s
    <3>1. g \in Having(H) /\ h \in Having(H) /\ J[g] = H[g] /\ J[h] = H[h]
      BY <2>1, <1>11
    <3>2. g # h => H[g].data # H[h].data
      BY <3>1 DEF Owned
    <3> QED
      BY <3>1, <3>2
  <2>2. CASE g = s \/ h = s
    BY <2>2, <1>10, <1>11
  <2> QED
    BY <2>1, <2>2
<1>15. \A h \in Having(J), d \in Class : J[h].data \notin Range(G[d])
  <2> TAKE h \in Having(J), d \in Class
  <2>1. CASE h = s
    BY <2>1, <1>8, <1>10
  <2>2. CASE h # s
    <3>1. h \in Having(H) /\ J[h] = H[h]
      BY <2>2, <1>11
    <3>2. H[h].data \notin Range(F[d])
      BY <3>1 DEF Owned
    <3> QED
      BY <3>1, <3>2, <1>9
  <2> QED
    BY <2>1, <2>2
<1>16. \A d \in Class : IsInjective(G[d])
  BY <1>3, <1>5 DEF Owned
<1>17. \A d \in Class : \A q \in Range(G[d]) : <<q, d>> \in C
  BY <1>9 DEF Owned
<1>18. \A x \in C : x[1] \in Range(G[x[2]]) \/ \E h \in Having(J) : J[h].data = x[1]
  <2> TAKE x \in C
  <2>1. x[2] \in Class
    BY DEF Block
  <2>2. CASE x[1] = p
    BY <2>2, <1>10, <1>11
  <2>3. CASE x[1] # p
    <3>1. x[1] \in Range(F[x[2]]) => x[1] \in Range(G[x[2]])
      BY <2>1, <2>3, <1>5, <1>6
    <3>2. \A h \in Having(H) : H[h].data = x[1] => h \in Having(J) /\ J[h].data = x[1]
      BY <1>11
    <3>3. x[1] \in Range(F[x[2]]) \/ \E h \in Having(H) : H[h].data = x[1]
      BY DEF Owned
    <3> QED
      BY <3>1, <3>2, <3>3
  <2> QED
    BY <2>2, <2>3
<1> QED
  BY <1>10, <1>12, <1>13, <1>14, <1>15, <1>16, <1>17, <1>18 DEF Owned

\* ... or one that nobody had.
LEMMA CarveKeepsOwned ==
  ASSUME NEW H \in [Holder -> Buffer], NEW F,
         NEW C \in SUBSET Block, Owned(H, F, C),
         NEW s \in Holder, H[s].data = Null, NEW b \in Bytes \ {0},
         NEW c, c = SizeClass(b), NEW p \in Pointer, \A x \in C : x[1] # p,
         NEW J, J = [H EXCEPT ![s] = [size |-> b, data |-> p]],
         NEW D, D = C \cup {<<p, c>>}
  PROVE  Owned(J, F, D)
<1>1. c \in Class /\ D \in SUBSET Block
  BY ClassType DEF Block
<1>2. J \in [Holder -> Buffer] /\ J[s] = [size |-> b, data |-> p]
  BY DEF Buffer
<1>3. \A d \in Class : p \notin Range(F[d])
  <2> TAKE d \in Class
  <2>1. p \in Range(F[d]) => <<p, d>> \in C
    BY DEF Owned
  <2> QED
    BY <2>1
<1>4. /\ Having(J) = Having(H) \cup {s} /\ s \notin Having(H)
      /\ \A h \in Having(H) : J[h] = H[h] /\ H[h].data # p
  <2>1. p # Null
    BY NullIsNoPointer
  <2>2. \A h \in Having(H) : H[h].data # p
    BY DEF Owned
  <2> QED
    BY <1>2, <2>1, <2>2 DEF Having
<1>5. \A h \in Having(J) : J[h].size # 0 /\ <<J[h].data, SizeClass(J[h].size)>> \in D
  <2> TAKE h \in Having(J)
  <2>1. CASE h = s
    BY <2>1, <1>2
  <2>2. CASE h # s
    <3>1. h \in Having(H) /\ J[h] = H[h]
      BY <2>2, <1>4
    <3>2. H[h].size # 0 /\ <<H[h].data, SizeClass(H[h].size)>> \in C
      BY <3>1 DEF Owned
    <3> QED
      BY <3>1, <3>2
  <2> QED
    BY <2>1, <2>2
<1>6. \A g, h \in Having(J) : g # h => J[g].data # J[h].data
  <2> TAKE g, h \in Having(J)
  <2>1. CASE g # s /\ h # s
    <3>1. g \in Having(H) /\ h \in Having(H) /\ J[g] = H[g] /\ J[h] = H[h]
      BY <2>1, <1>4
    <3>2. g # h => H[g].data # H[h].data
      BY <3>1 DEF Owned
    <3> QED
      BY <3>1, <3>2
  <2>2. CASE g = s \/ h = s
    BY <2>2, <1>2, <1>4
  <2> QED
    BY <2>1, <2>2
<1>7. \A h \in Having(J), d \in Class : J[h].data \notin Range(F[d])
  <2> TAKE h \in Having(J), d \in Class
  <2>1. CASE h = s
    BY <2>1, <1>2, <1>3
  <2>2. CASE h # s
    BY <2>2, <1>4 DEF Owned
  <2> QED
    BY <2>1, <2>2
<1>8. \A d \in Class : \A q \in Range(F[d]) : <<q, d>> \in D
  BY DEF Owned
<1>9. \A x \in D : x[1] \in Range(F[x[2]]) \/ \E h \in Having(J) : J[h].data = x[1]
  <2> TAKE x \in D
  <2>1. CASE x = <<p, c>>
    BY <2>1, <1>2, <1>4
  <2>2. CASE x \in C
    <3>1. \A h \in Having(H) : H[h].data = x[1] => h \in Having(J) /\ J[h].data = x[1]
      BY <1>4
    <3>2. x[1] \in Range(F[x[2]]) \/ \E h \in Having(H) : H[h].data = x[1]
      BY <2>2 DEF Owned
    <3> QED
      BY <3>1, <3>2
  <2> QED
    BY <2>1, <2>2
<1> QED
  BY <1>1, <1>2, <1>5, <1>6, <1>7, <1>8, <1>9 DEF Owned

--------------------------------------------------------------------------------

(***************************************************************************)
(* How many blocks of a class there are.                                   *)
(***************************************************************************)
OfClass(C, c) == {x \in C : x[2] = c}
Holding(H, c) == {h \in Having(H) : SizeClass(H[h].size) = c}

\* A set and its image under an injective function are as large.
LEMMA ImageCount ==
  ASSUME NEW S, IsFiniteSet(S), NEW f, DOMAIN f = S, f = [x \in S |-> f[x]], IsInjective(f)
  PROVE  IsFiniteSet(Range(f)) /\ Cardinality(Range(f)) = Cardinality(S)
<1>1. f \in [S -> Range(f)]
  BY DEF Range
<1>2. f \in Injection(S, Range(f)) /\ f \in Surjection(S, Range(f))
  BY <1>1 DEF Injection, Surjection, Range
<1>3. ExistsBijection(S, Range(f))
  BY <1>2 DEF Bijection, ExistsBijection
<1> QED
  BY <1>3, FS_Bijection

\* A free list without repetitions has as many members as it is long.
LEMMA RangeCount ==
  ASSUME NEW f \in Seq(Pointer), IsInjective(f)
  PROVE  IsFiniteSet(Range(f)) /\ Cardinality(Range(f)) = Len(f)
<1>1. PICK n \in Nat : n = Len(f)
  OBVIOUS
<1>2. DOMAIN f = 1 .. n /\ f = [i \in 1 .. n |-> f[i]]
  BY <1>1
<1>3. IsFiniteSet(1 .. n) /\ Cardinality(1 .. n) = IF 1 > n THEN 0 ELSE n - 1 + 1
  BY FS_Interval
<1> QED
  BY <1>1, <1>2, <1>3, ImageCount

\* There are finitely many holders.
LEMMA HolderFinite == IsFiniteSet(Holder)
<1> DEFINE Pairs == Tensor \X {"own", "incoming"}
           f == [x \in Pairs |-> [owner |-> x[1], part |-> x[2]]]
<1>1. IsFiniteSet({"own", "incoming"})
  <2>1. IsFiniteSet({"own"})
    BY FS_Singleton
  <2>2. {"own", "incoming"} = {"own"} \cup {"incoming"}
    OBVIOUS
  <2> QED
    BY <2>1, <2>2, FS_AddElement
<1>2. IsFiniteSet(Pairs)
  BY <1>1, TensorAssumption, FS_Product
<1>3. f \in [Pairs -> Holder]
  BY DEF Holder
<1>4. \A h \in Holder : \E x \in Pairs : f[x] = h
  <2> TAKE h \in Holder
  <2>1. <<h.owner, h.part>> \in Pairs /\ f[<<h.owner, h.part>>] = h
    BY DEF Holder
  <2> QED
    BY <2>1
<1> HIDE DEF f
<1>5. f \in Surjection(Pairs, Holder)
  BY <1>3, <1>4 DEF Surjection
<1> QED
  BY <1>2, <1>5, FS_Surjection

\* Each block of a class is in its free list or with one holder.
LEMMA BlocksCount ==
  ASSUME NEW H \in [Holder -> Buffer], NEW F \in [Class -> Seq(Pointer)],
         NEW C \in SUBSET Block, One(C), Owned(H, F, C), NEW c \in Class
  PROVE  /\ IsFiniteSet(OfClass(C, c)) /\ Cardinality(Holding(H, c)) \in Nat
         /\ Cardinality(OfClass(C, c)) = Len(F[c]) + Cardinality(Holding(H, c))
<1>1. PICK data : data = [h \in Holding(H, c) |-> H[h].data]
  OBVIOUS
<1>2. PICK ptr : ptr = [x \in OfClass(C, c) |-> x[1]]
  OBVIOUS
<1>3. /\ IsFiniteSet(Range(F[c])) /\ Cardinality(Range(F[c])) = Len(F[c])
  BY RangeCount DEF Owned
<1>4. IsFiniteSet(Holding(H, c))
  <2>1. Holding(H, c) \in SUBSET Holder
    BY DEF Holding, Having
  <2> QED
    BY <2>1, HolderFinite, FS_Subset
<1>5. /\ IsFiniteSet(Range(data)) /\ Cardinality(Range(data)) = Cardinality(Holding(H, c))
  <2>1. \A g, h \in Holding(H, c) : H[g].data = H[h].data => g = h
    <3> TAKE g, h \in Holding(H, c)
    <3>1. g \in Having(H) /\ h \in Having(H)
      BY DEF Holding
    <3>2. g # h => H[g].data # H[h].data
      BY <3>1 DEF Owned
    <3> QED
      BY <3>2
  <2>2. IsInjective(data)
    BY <2>1, <1>1 DEF IsInjective
  <2> QED
    BY <2>2, <1>1, <1>4, ImageCount
<1>6. \A x \in OfClass(C, c) : x[1] \in Range(F[c]) \/ x[1] \in Range(data)
  <2> TAKE x \in OfClass(C, c)
  <2>1. x \in C /\ x[2] = c
    BY DEF OfClass
  <2>2. x[1] \in Range(F[c]) \/ \E h \in Having(H) : H[h].data = x[1]
    BY <2>1 DEF Owned
  <2>3. ASSUME NEW h \in Having(H), H[h].data = x[1]
        PROVE  x[1] \in Range(data)
    <3>1. <<H[h].data, SizeClass(H[h].size)>> \in C
      BY DEF Owned
    <3>2. SizeClass(H[h].size) = c
      BY <2>1, <2>3, <3>1 DEF One
    <3>3. h \in Holding(H, c)
      BY <3>2 DEF Holding
    <3> QED
      BY <3>3, <2>3, <1>1 DEF Range
  <2> QED
    BY <2>2, <2>3
<1>7. \A p \in Range(F[c]) : <<p, c>> \in OfClass(C, c)
  BY DEF Owned, OfClass
<1>8. \A p \in Range(data) : <<p, c>> \in OfClass(C, c)
  <2> TAKE p \in Range(data)
  <2>1. PICK h \in Holding(H, c) : p = H[h].data
    BY <1>1 DEF Range
  <2>2. h \in Having(H) /\ SizeClass(H[h].size) = c
    BY DEF Holding
  <2>3. <<p, c>> \in C
    BY <2>1, <2>2 DEF Owned
  <2> QED
    BY <2>3 DEF OfClass
<1>9. Range(ptr) = Range(F[c]) \cup Range(data)
  <2>1. \A p \in Range(ptr) : p \in Range(F[c]) \cup Range(data)
    BY <1>2, <1>6 DEF Range
  <2>2. \A p \in Range(F[c]) \cup Range(data) : p \in Range(ptr)
    <3> TAKE p \in Range(F[c]) \cup Range(data)
    <3>1. <<p, c>> \in OfClass(C, c)
      BY <1>7, <1>8
    <3>2. ptr[<<p, c>>] = p
      BY <3>1, <1>2
    <3> QED
      BY <3>1, <3>2, <1>2 DEF Range
  <2> QED
    BY <2>1, <2>2
<1>10. IsInjective(ptr)
  BY <1>2 DEF IsInjective, One, OfClass
<1>11. Range(F[c]) \cap Range(data) = {}
  <2>1. \A h \in Holding(H, c) : H[h].data \notin Range(F[c])
    BY DEF Owned, Holding
  <2> QED
    BY <2>1, <1>1 DEF Range
<1>12. /\ IsFiniteSet(Range(ptr))
       /\ Cardinality(Range(ptr)) = Len(F[c]) + Cardinality(Holding(H, c))
  <2>1. Cardinality(Range(F[c]) \cap Range(data)) = 0
    BY <1>11, FS_EmptySet
  <2>2. Cardinality(Holding(H, c)) \in Nat /\ Len(F[c]) \in Nat
    BY <1>4, FS_CardinalityType
  <2>3. PICK R, S : R = Range(F[c]) /\ S = Range(data)
    OBVIOUS
  <2>4. /\ IsFiniteSet(R \cup S)
        /\ Cardinality(R \cup S) = Cardinality(R) + Cardinality(S) - Cardinality(R \cap S)
    BY <2>3, <1>3, <1>5, FS_Union
  <2>5. Range(ptr) = R \cup S /\ Cardinality(R \cap S) = 0
    BY <2>1, <2>3, <1>9
  <2>6. Cardinality(R) = Len(F[c]) /\ Cardinality(S) = Cardinality(Holding(H, c))
    BY <2>3, <1>3, <1>5
  <2> QED
    BY <2>2, <2>4, <2>5, <2>6
<1>13. IsFiniteSet(OfClass(C, c)) /\ Cardinality(OfClass(C, c)) = Cardinality(Range(ptr))
  <2>1. ptr \in Injection(OfClass(C, c), Range(ptr)) /\ ptr \in Surjection(OfClass(C, c), Range(ptr))
    BY <1>2, <1>10 DEF Injection, Surjection, Range
  <2> QED
    BY <2>1, <1>12, FS_Injection
<1> QED
  BY <1>4, <1>12, <1>13, FS_CardinalityType

--------------------------------------------------------------------------------

(***************************************************************************)
(* What the pool's operations preserve.                                    *)
(***************************************************************************)
LEMMA HeldByType ==
  ASSUME TensorTypeOK
  PROVE  HeldBy \in [Holder -> Buffer]
  BY DEF TensorTypeOK, HeldBy, Held, Holder

\* InUse counts the holders with a block of the class.
LEMMA InUseIs ==
  ASSUME NEW c \in Class
  PROVE  InUse(c) = Cardinality(Holding(HeldBy, c))
<1>1. \A h \in Holder : HeldBy[h] = Held(h)
  BY DEF HeldBy
<1>2. {h \in Holders : SizeClass(Held(h).size) = c} = Holding(HeldBy, c)
  BY <1>1 DEF Holders, Holding, Having
<1> QED
  BY <1>2 DEF InUse

\* The pool and its free lists before a step, in numbers.
LEMMA BlocksInUse ==
  ASSUME PoolInv, NEW c \in Class
  PROVE  /\ IsFiniteSet(OfClass(carved, c)) /\ InUse(c) \in Nat
         /\ Cardinality(OfClass(carved, c)) = most[c]
         /\ most[c] = Len(freeLists[c]) + InUse(c)
<1>1. HeldBy \in [Holder -> Buffer]
  BY HeldByType DEF PoolInv
<1>2. One(carved)
  BY ApartIsOne DEF PoolInv, ArenaInv, ArenaTypeOK
<1>3. /\ freeLists \in [Class -> Seq(Pointer)] /\ carved \in SUBSET Block
      /\ Owned(HeldBy, freeLists, carved)
  BY DEF PoolInv, ArenaInv, ArenaTypeOK
<1>4. /\ IsFiniteSet(OfClass(carved, c)) /\ Cardinality(Holding(HeldBy, c)) \in Nat
      /\ Cardinality(OfClass(carved, c)) = Len(freeLists[c]) + Cardinality(Holding(HeldBy, c))
  BY <1>1, <1>2, <1>3, BlocksCount
<1>5. Cardinality(OfClass(carved, c)) = most[c]
  BY DEF PoolInv, ArenaInv, NoGrowthAfterWarmUp, OfClass
<1> QED
  BY <1>4, <1>5, InUseIs

\* A block that is taken from a free list was in use before ...
LEMMA HitKeepsMost ==
  ASSUME PoolInv, NEW c \in Class, NEW updated, CountLive(c, updated),
         freeLists[c] # <<>>, carved' = carved
  PROVE  most' = most /\ NoGrowthAfterWarmUp'
<1>1. InUse(c) \in Nat /\ most[c] = Len(freeLists[c]) + InUse(c)
  BY BlocksInUse
<1>2. freeLists[c] \in Seq(Pointer) /\ most \in [Class -> Nat]
  BY DEF PoolInv, ArenaInv, ArenaTypeOK
<1>3. Len(freeLists[c]) >= 1
  BY <1>2
<1>4. ~ (InUse(c) + 1 > most[c])
  BY <1>1, <1>2, <1>3
<1>5. most' = [most EXCEPT ![c] = IF InUse(c) + 1 > @ THEN InUse(c) + 1 ELSE @]
  BY DEF CountLive
<1>6. most' = most
  BY <1>2, <1>4, <1>5
<1> QED
  BY <1>6 DEF PoolInv, ArenaInv, NoGrowthAfterWarmUp

\* ... and a new one is cut when all of its class are in use.
LEMMA CarveKeepsMost ==
  ASSUME PoolInv, NEW c \in Class, NEW updated, CountLive(c, updated),
         freeLists[c] = <<>>, NEW p \in Pointer, \A x \in carved : x[1] # p,
         carved' = carved \cup {<<p, c>>}
  PROVE  most' \in [Class -> Nat] /\ NoGrowthAfterWarmUp'
<1>1. /\ IsFiniteSet(OfClass(carved, c)) /\ InUse(c) \in Nat
      /\ Cardinality(OfClass(carved, c)) = most[c] /\ most[c] = InUse(c)
  BY BlocksInUse
<1>2. most \in [Class -> Nat]
  BY DEF PoolInv, ArenaInv, ArenaTypeOK
<1>3. most' = [most EXCEPT ![c] = IF InUse(c) + 1 > @ THEN InUse(c) + 1 ELSE @]
  BY DEF CountLive
<1>4. most' = [most EXCEPT ![c] = most[c] + 1]
  <2>1. (IF InUse(c) + 1 > most[c] THEN InUse(c) + 1 ELSE most[c]) = most[c] + 1
    BY <1>1
  <2> QED
    BY <1>3, <2>1
<1>5. most' \in [Class -> Nat]
  BY <1>2, <1>4
<1>6. ASSUME NEW d \in Class
      PROVE  Cardinality({x \in carved' : x[2] = d}) = most'[d]
  <2>1. CASE d = c
    <3>1. {x \in carved' : x[2] = d} = OfClass(carved, c) \cup {<<p, c>>}
      BY <2>1 DEF OfClass
    <3>2. <<p, c>> \notin OfClass(carved, c)
      BY DEF OfClass
    <3> QED
      BY <1>1, <1>2, <1>4, <2>1, <3>1, <3>2, FS_AddElement
  <2>2. CASE d # c
    <3>1. {x \in carved' : x[2] = d} = {x \in carved : x[2] = d}
      BY <2>2
    <3>2. most'[d] = most[d]
      BY <1>2, <1>4, <2>2
    <3> QED
      BY <3>1, <3>2 DEF PoolInv, ArenaInv, NoGrowthAfterWarmUp
  <2> QED
    BY <2>1, <2>2
<1> QED
  BY <1>5, <1>6 DEF NoGrowthAfterWarmUp

\* A block that is cut behind all others of its chunk lies apart from them.
LEMMA CarveKeepsApart ==
  ASSUME NEW C \in SUBSET Block, Apart(C), NEW p \in Pointer, NEW c \in Class,
         \A x \in C : Place(x) = p[1] => EndOf(x) <= p[2]
  PROVE  Apart(C \cup {<<p, c>>}) /\ \A x \in C : x[1] # p
<1>1. \A x \in C : x[1][2] \in Nat /\ x[2] \in Nat /\ x[2] > 0
  BY ClassType DEF Block, Pointer
<1>2. p[2] \in Nat /\ c \in Nat
  BY ClassType DEF Pointer
<1>3. \A x \in C : x[1] # p
  <2> TAKE x \in C
  <2>1. Place(x) = p[1] => x[1][2] + x[2] <= p[2]
    BY DEF EndOf
  <2>2. x[1] = p => Place(x) = p[1] /\ x[1][2] = p[2]
    BY DEF Place
  <2> QED
    BY <1>1, <1>2, <2>1, <2>2
<1>4. Place(<<p, c>>) = p[1] /\ Start(<<p, c>>) = p[2]
  BY DEF Place, Start
<1>5. Apart(C \cup {<<p, c>>})
  <2> SUFFICES ASSUME NEW x \in C \cup {<<p, c>>}, NEW y \in C \cup {<<p, c>>},
                      x # y, Place(x) = Place(y)
               PROVE  EndOf(x) <= Start(y) \/ EndOf(y) <= Start(x)
    BY DEF Apart
  <2>1. CASE x \in C /\ y \in C
    BY <2>1, Zenon DEF Apart
  <2>2. CASE x = <<p, c>> /\ y \in C
    BY <2>2, <1>4
  <2>3. CASE x \in C /\ y = <<p, c>>
    BY <2>3, <1>4
  <2> QED
    BY <2>1, <2>2, <2>3
<1> QED
  BY <1>3, <1>5

\* allocate.
LEMMA AllocateKeeps ==
  ASSUME PoolInv, NEW s \in Holder, HeldBy[s].data = Null,
         NEW b \in Bytes \ {0}, Allocate(SizeClass(b)),
         NEW J, J = [HeldBy EXCEPT ![s] = NewBuffer(b)]
  PROVE  /\ ArenaInv' /\ NewBuffer(b) \in Buffer
         /\ J \in [Holder -> Buffer] /\ Owned(J, freeLists', carved')
<1>1. PICK c : c = SizeClass(b)
  OBVIOUS
<1>2. PICK H \in [Holder -> Buffer] : H = HeldBy
  BY HeldByType DEF PoolInv
<1>3. c \in Class /\ c \in Nat /\ c > 0 /\ c % Alignment = 0
  BY <1>1, ClassType
<1>4. /\ ArenaTypeOK /\ CursorInv /\ BlockInv /\ Apart(carved) /\ NoGrowthAfterWarmUp
      /\ Owned(H, freeLists, carved) /\ One(carved)
  BY <1>2, ApartIsOne DEF PoolInv, ArenaInv, ArenaTypeOK
<1>5. NewBuffer(b) = [size |-> b, data |-> Allocated(c)]
  BY <1>1 DEF NewBuffer
<1>6. CASE Hit(c)
  <2>1. /\ freeLists[c] # <<>>
        /\ freeLists' = [freeLists EXCEPT ![c] = SubSeq(@, 1, Len(@) - 1)]
        /\ CountLive(c, stats)
        /\ UNCHANGED <<chunks, cursor, remaining, carved>>
    BY <1>6 DEF Hit
  <2>2. most' = most /\ NoGrowthAfterWarmUp'
    BY <1>3, <2>1, HitKeepsMost
  <2>3. Allocated(c) = LastOf(freeLists[c])
    BY <2>1 DEF Allocated
  <2>4. J = [H EXCEPT ![s] = [size |-> b, data |-> LastOf(freeLists[c])]]
    BY <1>2, <1>5, <2>3
  <2>5. /\ freeLists \in [Class -> Seq(Pointer)] /\ carved \in SUBSET Block
        /\ H[s].data = Null
    BY <1>2, <1>4 DEF ArenaTypeOK
  <2>6. /\ J \in [Holder -> Buffer] /\ freeLists' \in [Class -> Seq(Pointer)]
        /\ Owned(J, freeLists', carved)
    <3>1. PICK F, C, G, K : F = freeLists /\ C = carved /\ G = freeLists' /\ K = J
      OBVIOUS
    <3>2. /\ F \in [Class -> Seq(Pointer)] /\ C \in SUBSET Block /\ One(C) /\ Owned(H, F, C)
          /\ H[s].data = Null /\ F[c] # <<>>
          /\ K = [H EXCEPT ![s] = [size |-> b, data |-> LastOf(F[c])]]
          /\ G = [F EXCEPT ![c] = SubSeq(@, 1, Len(@) - 1)]
      BY <1>4, <2>1, <2>4, <2>5, <3>1
    <3>3. Owned(K, G, C)
      BY <1>1, <3>2, HitKeepsOwned, Zenon
    <3>4. LastOf(F[c]) \in Pointer /\ SubSeq(F[c], 1, Len(F[c]) - 1) \in Seq(Pointer)
      BY <1>3, <3>2, TakeLast DEF Owned
    <3>5. K \in [Holder -> Buffer] /\ G \in [Class -> Seq(Pointer)]
      BY <1>3, <3>2, <3>4 DEF Buffer
    <3> QED
      BY <3>1, <3>3, <3>5
  <2>7. ArenaTypeOK' /\ CursorInv' /\ BlockInv' /\ Apart(carved')
    BY <1>4, <2>1, <2>2, <2>6 DEF ArenaTypeOK, CursorInv, BlockInv
  <2>8. NewBuffer(b) \in Buffer
    <3>1. J[s] = NewBuffer(b)
      BY <2>4, <1>5, <2>3
    <3> QED
      BY <2>6, <3>1
  <2> QED
    BY <2>1, <2>2, <2>6, <2>7, <2>8 DEF ArenaInv
<1>7. CASE Cut(c)
  <2>1. /\ freeLists[c] = <<>> /\ remaining >= c
        /\ cursor' = <<cursor[1], cursor[2] + c>> /\ remaining' = remaining - c
        /\ carved' = carved \cup {<<cursor, c>>}
        /\ CountLive(c, stats)
        /\ UNCHANGED <<chunks, freeLists>>
    BY <1>7 DEF Cut
  <2>2. /\ chunks \in Seq(Nat) /\ Len(chunks) <= MaxChunks /\ remaining \in Nat
        /\ carved \in SUBSET Block /\ cursor \in Pointer \cup {Null}
    BY <1>4 DEF ArenaTypeOK
  <2>3. /\ cursor \in Pointer /\ cursor # Null /\ cursor[1] = Len(chunks)
        /\ cursor[2] + remaining = chunks[Len(chunks)] /\ cursor[2] % Alignment = 0
    BY <1>3, <1>4, <2>1, <2>2 DEF CursorInv
  <2>4. \A x \in carved : Place(x) = cursor[1] => EndOf(x) <= cursor[2]
    BY <1>4, <2>3 DEF BlockInv
  <2>5. Apart(carved') /\ \A x \in carved : x[1] # cursor
    BY <1>3, <1>4, <2>1, <2>2, <2>3, <2>4, CarveKeepsApart
  <2>6. most' \in [Class -> Nat] /\ NoGrowthAfterWarmUp'
    BY <1>3, <2>1, <2>3, <2>5, CarveKeepsMost
  <2>7. Allocated(c) = cursor
    BY <2>1 DEF Allocated
  <2>8. /\ J \in [Holder -> Buffer] /\ carved' \in SUBSET Block
        /\ Owned(J, freeLists, carved')
    <3>1. J = [H EXCEPT ![s] = [size |-> b, data |-> cursor]] /\ H[s].data = Null
      BY <1>2, <1>5, <2>7
    <3>2. PICK F, C, D, K, p : F = freeLists /\ C = carved /\ D = carved' /\ K = J /\ p = cursor
      OBVIOUS
    <3>3. /\ C \in SUBSET Block /\ Owned(H, F, C) /\ p \in Pointer /\ \A x \in C : x[1] # p
          /\ K = [H EXCEPT ![s] = [size |-> b, data |-> p]]
          /\ D = C \cup {<<p, c>>}
      BY <1>4, <2>1, <2>2, <2>3, <2>5, <3>1, <3>2
    <3>4. Owned(K, F, D)
      BY <1>1, <3>1, <3>3, CarveKeepsOwned, Zenon
    <3>5. K \in [Holder -> Buffer] /\ D \in SUBSET Block
      BY <1>3, <3>3 DEF Buffer, Block
    <3> QED
      BY <3>2, <3>4, <3>5
  <2>9. cursor' \in Pointer /\ remaining' \in Nat
    BY <1>3, <2>1, <2>2, <2>3 DEF Pointer
  <2>10. ArenaTypeOK'
    BY <1>4, <2>1, <2>6, <2>8, <2>9 DEF ArenaTypeOK
  <2>11. CursorInv'
    <3>1. cursor[2] \in Nat /\ (cursor[2] + c) % Alignment = 0
      BY <1>3, <2>3, AlignmentAssumption, SumAligned DEF Pointer
    <3>2. cursor'[1] = Len(chunks) /\ cursor'[2] = cursor[2] + c /\ cursor' # Null
      BY <2>1, <2>3, <2>9, NullIsNoPointer
    <3>3. cursor'[2] + remaining' = chunks[Len(chunks)]
      BY <1>3, <2>1, <2>2, <2>3, <3>1, <3>2
    <3> QED
      BY <2>1, <3>1, <3>2, <3>3 DEF CursorInv
  <2>12. BlockInv'
    <3>1. /\ cursor[1] \in 1 .. MaxChunks /\ cursor[2] \in Nat
          /\ cursor[2] + c <= chunks[Len(chunks)] /\ cursor'[2] = cursor[2] + c
      BY <1>3, <2>1, <2>2, <2>3 DEF Pointer
    <3>2. ASSUME NEW x \in carved'
          PROVE  /\ Place(x) \in 1 .. Len(chunks) /\ Start(x) % Alignment = 0
                 /\ EndOf(x) <= chunks[Place(x)]
                 /\ Place(x) = Len(chunks) => EndOf(x) <= cursor'[2]
      <4>1. CASE x \in carved
        <5>1. /\ Place(x) \in 1 .. Len(chunks) /\ Start(x) % Alignment = 0
              /\ EndOf(x) <= chunks[Place(x)]
              /\ Place(x) = Len(chunks) => EndOf(x) <= cursor[2]
          BY <1>4, <4>1 DEF BlockInv
        <5>2. EndOf(x) \in Nat
          BY <2>2, <4>1, ClassType DEF Block, Pointer, EndOf
        <5> QED
          BY <1>3, <3>1, <5>1, <5>2
      <4>2. CASE x = <<cursor, c>>
        <5>1. Place(x) = Len(chunks) /\ Start(x) = cursor[2] /\ EndOf(x) = cursor[2] + c
          BY <2>3, <4>2 DEF Place, Start, EndOf
        <5>2. Len(chunks) \in 1 .. Len(chunks)
          BY <2>2, <2>3, <3>1
        <5>3. EndOf(x) \in Nat /\ EndOf(x) <= cursor'[2]
          BY <1>3, <3>1, <5>1
        <5> QED
          BY <2>3, <3>1, <5>1, <5>2, <5>3
      <4> QED
        BY <2>1, <4>1, <4>2
    <3> QED
      BY <2>1, <3>2 DEF BlockInv
  <2>13. NewBuffer(b) \in Buffer
    BY <1>5, <2>3, <2>7 DEF Buffer
  <2> QED
    BY <2>1, <2>5, <2>6, <2>8, <2>10, <2>11, <2>12, <2>13 DEF ArenaInv
<1>8. CASE Grow(c)
  <2>1. PICK n : n = ChunkSize(c)
    OBVIOUS
  <2>2. PICK p : p = <<Len(chunks) + 1, 0>>
    OBVIOUS
  <2>3. /\ freeLists[c] = <<>> /\ remaining < c /\ Len(chunks) < MaxChunks
        /\ chunks' = Append(chunks, n)
        /\ cursor' = <<Len(chunks'), c>> /\ remaining' = n - c
        /\ carved' = carved \cup {<<<<Len(chunks'), 0>>, c>>}
        /\ \E updated : CountLive(c, updated)
        /\ UNCHANGED freeLists
    BY <1>8, <2>1 DEF Grow
  <2>4. /\ chunks \in Seq(Nat) /\ remaining \in Nat /\ carved \in SUBSET Block
    BY <1>4 DEF ArenaTypeOK
  <2>5. n \in Nat /\ n >= c
    BY <1>3, <2>1, ChunkAssumption DEF ChunkSize
  <2>6. /\ Len(chunks) \in Nat /\ Len(chunks') = Len(chunks) + 1
        /\ chunks' \in Seq(Nat) /\ chunks'[Len(chunks')] = n
        /\ \A i \in 1 .. Len(chunks) : chunks'[i] = chunks[i]
    BY <2>3, <2>4, <2>5
  <2>7. /\ p \in Pointer /\ p[1] = Len(chunks) + 1 /\ p[2] = 0
        /\ carved' = carved \cup {<<p, c>>}
        /\ cursor' \in Pointer /\ cursor' # Null
        /\ cursor'[1] = Len(chunks') /\ cursor'[2] = c
    BY <1>3, <2>2, <2>3, <2>6, ChunkAssumption, NullIsNoPointer DEF Pointer
  <2>8. \A x \in carved : Place(x) \in 1 .. Len(chunks)
    BY <1>4 DEF BlockInv
  <2>9. Apart(carved') /\ \A x \in carved : x[1] # p
    <3>1. \A x \in carved : Place(x) # p[1]
      BY <2>6, <2>7, <2>8
    <3> QED
      BY <1>3, <1>4, <2>4, <2>7, <3>1, CarveKeepsApart
  <2>10. most' \in [Class -> Nat] /\ NoGrowthAfterWarmUp'
    BY <1>3, <2>3, <2>7, <2>9, CarveKeepsMost
  <2>11. Allocated(c) = p
    <3>1. ~ (remaining >= c)
      BY <1>3, <2>3, <2>4
    <3> QED
      BY <2>2, <2>3, <3>1 DEF Allocated
  <2>12. /\ J \in [Holder -> Buffer] /\ carved' \in SUBSET Block
         /\ Owned(J, freeLists, carved')
    <3>1. J = [H EXCEPT ![s] = [size |-> b, data |-> p]] /\ H[s].data = Null
      BY <1>2, <1>5, <2>11
    <3>2. PICK F, C, D, K : F = freeLists /\ C = carved /\ D = carved' /\ K = J
      OBVIOUS
    <3>3. /\ C \in SUBSET Block /\ Owned(H, F, C) /\ \A x \in C : x[1] # p
          /\ K = [H EXCEPT ![s] = [size |-> b, data |-> p]]
          /\ D = C \cup {<<p, c>>}
      BY <1>4, <2>4, <2>7, <2>9, <3>1, <3>2
    <3>4. Owned(K, F, D)
      BY <1>1, <2>7, <3>1, <3>3, CarveKeepsOwned, Zenon
    <3>5. K \in [Holder -> Buffer] /\ D \in SUBSET Block
      BY <1>3, <2>7, <3>3 DEF Buffer, Block
    <3> QED
      BY <3>2, <3>4, <3>5
  <2>13. ArenaTypeOK'
    BY <1>3, <1>4, <2>3, <2>5, <2>6, <2>7, <2>10, <2>12, ChunkAssumption DEF ArenaTypeOK
  <2>14. CursorInv'
    <3>1. cursor'[2] + remaining' = chunks'[Len(chunks')]
      BY <1>3, <2>3, <2>5, <2>6, <2>7
    <3> QED
      BY <1>3, <2>7, <3>1 DEF CursorInv
  <2>15. BlockInv'
    <3>1. 0 % Alignment = 0
      BY AlignmentAssumption
    <3>2. ASSUME NEW x \in carved'
          PROVE  /\ Place(x) \in 1 .. Len(chunks') /\ Start(x) % Alignment = 0
                 /\ EndOf(x) <= chunks'[Place(x)]
                 /\ Place(x) = Len(chunks') => EndOf(x) <= cursor'[2]
      <4>1. CASE x \in carved
        <5>1. /\ Place(x) \in 1 .. Len(chunks) /\ Start(x) % Alignment = 0
              /\ EndOf(x) <= chunks[Place(x)]
          BY <1>4, <4>1 DEF BlockInv
        <5> QED
          BY <2>6, <5>1
      <4>2. CASE x = <<p, c>>
        <5>1. Place(x) = Len(chunks') /\ Start(x) = 0 /\ EndOf(x) = c
          BY <1>3, <2>6, <2>7, <4>2 DEF Place, Start, EndOf
        <5> QED
          BY <1>3, <2>5, <2>6, <2>7, <3>1, <5>1
      <4> QED
        BY <2>7, <4>1, <4>2
    <3> QED
      BY <3>2 DEF BlockInv
  <2>16. NewBuffer(b) \in Buffer
    BY <1>5, <2>7, <2>11 DEF Buffer
  <2> QED
    BY <2>3, <2>9, <2>10, <2>12, <2>13, <2>14, <2>15, <2>16 DEF ArenaInv
<1> QED
  BY <1>1, <1>6, <1>7, <1>8 DEF Allocate

\* A step that leaves the pool alone.
LEMMA PoolUntouched ==
  ASSUME ArenaInv, UNCHANGED poolVars
  PROVE  /\ ArenaInv' /\ freeLists' = freeLists /\ carved' = carved
<1>1. /\ chunks' = chunks /\ cursor' = cursor /\ remaining' = remaining
      /\ freeLists' = freeLists /\ carved' = carved /\ most' = most
  BY DEF poolVars
<1> QED
  BY <1>1 DEF ArenaInv, ArenaTypeOK, CursorInv, BlockInv, NoGrowthAfterWarmUp

Own(t) == [owner |-> t, part |-> "own"]
Temporary(t) == [owner |-> t, part |-> "incoming"]

\* A tensor's buffer and its temporary's are two holders.
LEMMA HolderParts ==
  /\ \A t \in Tensor : /\ Own(t) \in Holder /\ Temporary(t) \in Holder
                       /\ HeldBy[Own(t)] = tensor[t] /\ HeldBy[Temporary(t)] = incoming[t]
                       /\ Own(t) # Temporary(t)
  /\ \A t, u \in Tensor : t # u => Own(t) # Own(u)
  BY DEF Own, Temporary, Holder, HeldBy, Held

\* The buffers after a step are those of J, if they are part by part.
LEMMA HeldByParts ==
  ASSUME NEW J, J \in [Holder -> Buffer],
         \A t \in Tensor : tensor'[t] = J[Own(t)] /\ incoming'[t] = J[Temporary(t)]
  PROVE  HeldBy' = J
<1>1. \A h \in Holder : IF h.part = "own" THEN h.owner \in Tensor /\ h = Own(h.owner)
                        ELSE h.owner \in Tensor /\ h = Temporary(h.owner)
  BY DEF Holder, Own, Temporary
<1>2. \A h \in Holder : J[h] = IF h.part = "own" THEN tensor'[h.owner] ELSE incoming'[h.owner]
  BY <1>1
<1>3. HeldBy' = [h \in Holder |-> IF h.part = "own" THEN tensor'[h.owner] ELSE incoming'[h.owner]]
  BY DEF HeldBy, Held
<1> QED
  BY <1>2, <1>3

\* allocateBuffer, for no bytes too.
LEMMA AllocateBufferKeeps ==
  ASSUME PoolInv, NEW s \in Holder, HeldBy[s].data = Null,
         NEW b \in Bytes, AllocateBuffer(b),
         NEW J, J = [HeldBy EXCEPT ![s] = NewBuffer(b)]
  PROVE  /\ ArenaInv' /\ NewBuffer(b) \in Buffer
         /\ J \in [Holder -> Buffer] /\ Owned(J, freeLists', carved')
<1>1. CASE b # 0
  BY <1>1, AllocateKeeps DEF AllocateBuffer
<1>2. CASE b = 0
  <2>1. ArenaInv' /\ freeLists' = freeLists /\ carved' = carved
    BY <1>2, PoolUntouched DEF AllocateBuffer, PoolInv
  <2>2. NewBuffer(b) = [size |-> b, data |-> Null]
    BY <1>2 DEF NewBuffer
  <2>3. PICK H \in [Holder -> Buffer] : H = HeldBy
    BY HeldByType DEF PoolInv
  <2>4. PICK F, C, K : H = HeldBy /\ F = freeLists /\ C = carved /\ K = J
    BY <2>3
  <2>5. /\ Owned(H, F, C) /\ H[s].data = Null
        /\ K = [H EXCEPT ![s] = [size |-> b, data |-> Null]]
    BY <2>2, <2>4 DEF PoolInv
  <2>6. K \in [Holder -> Buffer] /\ Owned(K, F, C)
    <3>1. Owned(K, F, C)
      BY <2>5, EmptyKeepsOwned, Zenon
    <3>2. K \in [Holder -> Buffer]
      BY <2>5 DEF Buffer
    <3> QED
      BY <3>1, <3>2
  <2> QED
    BY <2>1, <2>2, <2>4, <2>6 DEF Buffer
<1> QED
  BY <1>1, <1>2

\* releaseBuffer leaves the tensor without a block.
LEMMA ReleaseBufferKeeps ==
  ASSUME PoolInv, NEW t \in Tensor, ReleaseBuffer(t), NEW n \in Bytes,
         NEW J, J = [HeldBy EXCEPT ![Own(t)] = [size |-> n, data |-> Null]]
  PROVE  /\ ArenaInv'
         /\ J \in [Holder -> Buffer] /\ Owned(J, freeLists', carved')
<1>1. PICK H \in [Holder -> Buffer] : H = HeldBy
  BY HeldByType DEF PoolInv
<1>2. PICK F, C, K, s :
        H = HeldBy /\ F = freeLists /\ C = carved /\ K = J /\ s = Own(t)
  BY <1>1
<1>3. /\ Owned(H, F, C) /\ s \in Holder /\ H[s] = tensor[t]
      /\ K = [H EXCEPT ![s] = [size |-> n, data |-> Null]]
  BY <1>2, HolderParts DEF PoolInv
<1>4. CASE tensor[t].data = Null
  <2>1. ArenaInv' /\ freeLists' = freeLists /\ carved' = carved
    BY <1>4, PoolUntouched DEF ReleaseBuffer, PoolInv
  <2>2. K \in [Holder -> Buffer] /\ Owned(K, F, C)
    BY <1>3, <1>4, EmptyKeepsOwned, Zenon
  <2> QED
    BY <1>2, <2>1, <2>2
<1>5. CASE tensor[t].data # Null
  <2>1. PICK c : c = SizeClass(H[s].size)
    OBVIOUS
  <2>2. /\ freeLists' = [freeLists EXCEPT ![c] = Append(@, H[s].data)]
        /\ UNCHANGED <<chunks, cursor, remaining, carved, most>>
    BY <1>3, <1>5, <2>1 DEF ReleaseBuffer, Deallocate
  <2>3. F \in [Class -> Seq(Pointer)] /\ C \in SUBSET Block /\ One(C)
    BY <1>2, ApartIsOne DEF PoolInv, ArenaInv, ArenaTypeOK
  <2>4. s \in Having(H)
    BY <1>3, <1>5 DEF Having
  <2>5. PICK G : G = freeLists'
    OBVIOUS
  <2>6. G = [F EXCEPT ![c] = Append(@, H[s].data)]
    BY <1>2, <2>2, <2>5
  <2>7. K \in [Holder -> Buffer] /\ G \in [Class -> Seq(Pointer)] /\ Owned(K, G, C)
    <3>1. Owned(K, G, C)
      BY <1>3, <2>1, <2>3, <2>4, <2>6, ReleaseKeepsOwned, Zenon
    <3>2. H[s].data \in Pointer /\ c \in Class
      BY <1>3, <2>1, <2>4, HavingType, ClassType DEF Owned
    <3>3. Append(F[c], H[s].data) \in Seq(Pointer)
      BY <2>3, <3>2
    <3> QED
      BY <1>3, <2>3, <2>6, <3>1, <3>3 DEF Buffer
  <2>8. ArenaInv'
    BY <2>2, <2>5, <2>7
    DEF PoolInv, ArenaInv, ArenaTypeOK, CursorInv, BlockInv, NoGrowthAfterWarmUp
  <2> QED
    BY <1>2, <2>2, <2>5, <2>7, <2>8
<1> QED
  BY <1>4, <1>5

--------------------------------------------------------------------------------

(***************************************************************************)
(* Every step of the tensors preserves PoolInv.                            *)
(***************************************************************************)
LEMMA InitHolds == Init => PoolInv
<1> SUFFICES ASSUME Init PROVE PoolInv
  OBVIOUS
<1> USE DEF Init
<1>1. ArenaTypeOK
  <2>1. chunks \in Seq(Nat) /\ Len(chunks) = 0
    OBVIOUS
  <2> QED
    BY <2>1, ChunkAssumption DEF ArenaTypeOK
<1>2. CursorInv /\ BlockInv /\ Apart(carved)
  BY DEF CursorInv, BlockInv, Apart
<1>3. NoGrowthAfterWarmUp
  <2>1. \A c \in Class : {x \in carved : x[2] = c} = {}
    OBVIOUS
  <2> QED
    BY <2>1, FS_EmptySet DEF NoGrowthAfterWarmUp
<1>4. TensorTypeOK /\ DoingInv
  BY BytesAssumption DEF TensorTypeOK, DoingInv, NoBuffer, Buffer
<1>5. Owned(HeldBy, freeLists, carved)
  <2>1. \A h \in Holder : HeldBy[h].data = Null
    BY DEF HeldBy, Held, Holder, NoBuffer
  <2>2. Having(HeldBy) = {}
    BY <2>1 DEF Having
  <2>3. \A c \in Class : freeLists[c] = <<>> /\ Range(freeLists[c]) = {} /\ IsInjective(freeLists[c])
    BY DEF Range, IsInjective
  <2> QED
    BY <2>2, <2>3 DEF Owned
<1> QED
  BY <1>1, <1>2, <1>3, <1>4, <1>5 DEF PoolInv, ArenaInv

\* The temporary of a resize gets a block of its own.
LEMMA BeginResizeKeeps ==
  ASSUME PoolInv, NEW t \in Tensor, BeginResize(t)
  PROVE  PoolInv'
<1>1. PICK b \in Bytes : AllocateBuffer(b) /\ incoming' = [incoming EXCEPT ![t] = NewBuffer(b)]
  BY DEF BeginResize
<1>2. doing[t] = "idle" /\ doing' = [doing EXCEPT ![t] = "resize"] /\ tensor' = tensor
  BY DEF BeginResize
<1>3. TensorTypeOK /\ DoingInv
  BY DEF PoolInv
<1>4. PICK s : s = Temporary(t)
  OBVIOUS
<1>5. s \in Holder /\ HeldBy[s].data = Null
  BY <1>2, <1>3, <1>4, HolderParts DEF DoingInv
<1>6. PICK J : J = [HeldBy EXCEPT ![s] = NewBuffer(b)]
  OBVIOUS
<1>7. /\ ArenaInv' /\ NewBuffer(b) \in Buffer
      /\ J \in [Holder -> Buffer] /\ Owned(J, freeLists', carved')
  BY <1>1, <1>5, <1>6, AllocateBufferKeeps
<1>8. TensorTypeOK'
  BY <1>1, <1>2, <1>3, <1>7 DEF TensorTypeOK
<1>9. DoingInv'
  BY <1>1, <1>2, <1>3 DEF DoingInv, TensorTypeOK
<1>10. HeldBy' = J
  <2>1. \A u \in Tensor : tensor'[u] = J[Own(u)] /\ incoming'[u] = J[Temporary(u)]
    <3> TAKE u \in Tensor
    <3>1. /\ J[Own(u)] = HeldBy[Own(u)]
          /\ J[Temporary(u)] = IF u = t THEN NewBuffer(b) ELSE HeldBy[Temporary(u)]
      BY <1>4, <1>6, HolderParts DEF HeldBy, Own, Temporary
    <3>2. incoming'[u] = IF u = t THEN NewBuffer(b) ELSE incoming[u]
      BY <1>1, <1>3 DEF TensorTypeOK
    <3> QED
      BY <1>2, <3>1, <3>2, HolderParts
  <2> QED
    BY <1>7, <2>1, HeldByParts
<1> QED
  BY <1>7, <1>8, <1>9, <1>10 DEF PoolInv

\* The tensor gives its block back and takes the temporary's.
LEMMA EndResizeKeeps ==
  ASSUME PoolInv, NEW t \in Tensor, EndResize(t)
  PROVE  PoolInv'
<1>1. /\ ReleaseBuffer(t) /\ tensor' = [tensor EXCEPT ![t] = incoming[t]]
      /\ incoming' = [incoming EXCEPT ![t] = NoBuffer]
      /\ doing' = [doing EXCEPT ![t] = "idle"] /\ doing[t] = "resize"
  BY DEF EndResize
<1>2. TensorTypeOK /\ DoingInv
  BY DEF PoolInv
<1>3. PICK s, r : s = Own(t) /\ r = Temporary(t)
  OBVIOUS
<1>4. s \in Holder /\ r \in Holder /\ s # r
  BY <1>3, HolderParts
<1>5. PICK H : H = [HeldBy EXCEPT ![s] = [size |-> 0, data |-> Null]]
  OBVIOUS
<1>6. ArenaInv' /\ H \in [Holder -> Buffer] /\ Owned(H, freeLists', carved')
  BY <1>1, <1>3, <1>5, BytesAssumption, ReleaseBufferKeeps
<1>7. HeldBy \in [Holder -> Buffer]
  BY <1>2, HeldByType
<1>8. H[s].data = Null
  BY <1>4, <1>5, <1>7
<1>9. PICK J : J = [H EXCEPT ![s] = H[r], ![r] = NoBuffer]
  OBVIOUS
<1>10. J \in [Holder -> Buffer] /\ Owned(J, freeLists', carved')
  BY <1>4, <1>6, <1>8, <1>9, MoveKeepsOwned, Zenon
<1>11. TensorTypeOK'
  BY <1>1, <1>2, BytesAssumption DEF TensorTypeOK, NoBuffer, Buffer
<1>12. DoingInv'
  BY <1>1, <1>2 DEF DoingInv, TensorTypeOK, NoBuffer
<1>13. HeldBy' = J
  <2>1. \A u \in Tensor : tensor'[u] = J[Own(u)] /\ incoming'[u] = J[Temporary(u)]
    <3> TAKE u \in Tensor
    <3>1. \A h \in Holder : J[h] = IF h = r THEN NoBuffer ELSE IF h = s THEN HeldBy[r] ELSE HeldBy[h]
      BY <1>4, <1>5, <1>6, <1>7, <1>9
    <3>2. /\ Own(u) \in Holder /\ Temporary(u) \in Holder /\ Own(u) # r /\ Temporary(u) # s
          /\ Own(u) = s <=> u = t
      BY <1>3 DEF Own, Temporary, Holder
    <3>3. Temporary(u) = r <=> u = t
      BY <1>3 DEF Temporary
    <3>4. /\ tensor'[u] = IF u = t THEN incoming[t] ELSE tensor[u]
          /\ incoming'[u] = IF u = t THEN NoBuffer ELSE incoming[u]
      BY <1>1, <1>2 DEF TensorTypeOK
    <3> QED
      BY <1>3, <3>1, <3>2, <3>3, <3>4, HolderParts
  <2> QED
    BY <1>10, <2>1, HeldByParts
<1> QED
  BY <1>6, <1>10, <1>11, <1>12, <1>13 DEF PoolInv

\* The tensor gives its block back and takes the source's.
LEMMA MoveAssignKeeps ==
  ASSUME PoolInv, NEW t \in Tensor, NEW u \in Tensor, MoveAssign(t, u)
  PROVE  PoolInv'
<1>1. /\ ReleaseBuffer(t) /\ tensor' = [tensor EXCEPT ![t] = tensor[u], ![u] = NoBuffer]
      /\ incoming' = incoming /\ doing' = doing /\ t # u
  BY DEF MoveAssign
<1>2. TensorTypeOK /\ DoingInv
  BY DEF PoolInv
<1>3. PICK s, r : s = Own(t) /\ r = Own(u)
  OBVIOUS
<1>4. s \in Holder /\ r \in Holder /\ s # r
  BY <1>1, <1>3, HolderParts
<1>5. PICK H : H = [HeldBy EXCEPT ![s] = [size |-> 0, data |-> Null]]
  OBVIOUS
<1>6. ArenaInv' /\ H \in [Holder -> Buffer] /\ Owned(H, freeLists', carved')
  BY <1>1, <1>3, <1>5, BytesAssumption, ReleaseBufferKeeps
<1>7. HeldBy \in [Holder -> Buffer]
  BY <1>2, HeldByType
<1>8. H[s].data = Null
  BY <1>4, <1>5, <1>7
<1>9. PICK J : J = [H EXCEPT ![s] = H[r], ![r] = NoBuffer]
  OBVIOUS
<1>10. J \in [Holder -> Buffer] /\ Owned(J, freeLists', carved')
  BY <1>4, <1>6, <1>8, <1>9, MoveKeepsOwned, Zenon
<1>11. \A v \in Tensor : tensor'[v] = IF v = u THEN NoBuffer ELSE IF v = t THEN tensor[u] ELSE tensor[v]
  BY <1>1, <1>2 DEF TensorTypeOK
<1>12. TensorTypeOK'
  BY <1>1, <1>2, BytesAssumption DEF TensorTypeOK, NoBuffer, Buffer
<1>13. DoingInv'
  <2>1. doing[t] = "idle" /\ doing[u] = "idle"
    BY DEF MoveAssign
  <2> QED
    BY <1>1, <1>2, <1>11, <2>1 DEF DoingInv
<1>14. HeldBy' = J
  <2>1. \A v \in Tensor : tensor'[v] = J[Own(v)] /\ incoming'[v] = J[Temporary(v)]
    <3> TAKE v \in Tensor
    <3>1. \A h \in Holder : J[h] = IF h = r THEN NoBuffer ELSE IF h = s THEN HeldBy[r] ELSE HeldBy[h]
      BY <1>4, <1>5, <1>6, <1>7, <1>9
    <3>2. /\ Own(v) \in Holder /\ Temporary(v) \in Holder /\ Temporary(v) # r /\ Temporary(v) # s
      BY <1>3 DEF Own, Temporary, Holder
    <3>3. (Own(v) = s <=> v = t) /\ (Own(v) = r <=> v = u)
      BY <1>3 DEF Own
    <3> QED
      BY <1>1, <1>3, <1>11, <3>1, <3>2, <3>3, HolderParts
  <2> QED
    BY <1>10, <2>1, HeldByParts
<1> QED
  BY <1>6, <1>10, <1>12, <1>13, <1>14 DEF PoolInv

\* A copy begins without a block ...
LEMMA BeginCopyKeeps ==
  ASSUME PoolInv, NEW t \in Tensor, NEW u \in Tensor, BeginCopy(t, u)
  PROVE  PoolInv'
<1>1. /\ ReleaseBuffer(t)
      /\ tensor' = [tensor EXCEPT ![t] = [size |-> tensor[u].size, data |-> Null]]
      /\ incoming' = incoming /\ doing' = [doing EXCEPT ![t] = "copy"] /\ doing[t] = "idle"
  BY DEF BeginCopy
<1>2. TensorTypeOK /\ DoingInv
  BY DEF PoolInv
<1>3. PICK n \in Bytes : n = tensor[u].size
  BY <1>2 DEF TensorTypeOK, Buffer
<1>4. PICK J : J = [HeldBy EXCEPT ![Own(t)] = [size |-> n, data |-> Null]]
  OBVIOUS
<1>5. ArenaInv' /\ J \in [Holder -> Buffer] /\ Owned(J, freeLists', carved')
  BY <1>1, <1>3, <1>4, ReleaseBufferKeeps
<1>6. \A v \in Tensor : tensor'[v] = IF v = t THEN [size |-> n, data |-> Null] ELSE tensor[v]
  BY <1>1, <1>2, <1>3 DEF TensorTypeOK
<1>7. TensorTypeOK'
  BY <1>1, <1>2, <1>3 DEF TensorTypeOK, Buffer
<1>8. DoingInv'
  BY <1>1, <1>2, <1>6 DEF DoingInv, TensorTypeOK
<1>9. HeldBy' = J
  <2>1. \A v \in Tensor : tensor'[v] = J[Own(v)] /\ incoming'[v] = J[Temporary(v)]
    <3> TAKE v \in Tensor
    <3>1. /\ Own(v) \in Holder /\ Temporary(v) \in Holder /\ Temporary(v) # Own(t)
      BY DEF Own, Temporary, Holder
    <3>2. Own(v) = Own(t) <=> v = t
      BY DEF Own
    <3>3. HeldBy \in [Holder -> Buffer]
      BY <1>2, HeldByType
    <3> QED
      BY <1>1, <1>4, <1>6, <3>1, <3>2, <3>3, HolderParts
  <2> QED
    BY <1>5, <2>1, HeldByParts
<1> QED
  BY <1>5, <1>7, <1>8, <1>9 DEF PoolInv

\* ... and ends with one, or with none when memory has run out.
LEMMA EndCopyKeeps ==
  ASSUME PoolInv, NEW t \in Tensor, EndCopy(t)
  PROVE  PoolInv'
<1>1. /\ doing[t] = "copy" /\ doing' = [doing EXCEPT ![t] = "idle"] /\ incoming' = incoming
  BY DEF EndCopy
<1>2. TensorTypeOK /\ DoingInv
  BY DEF PoolInv
<1>3. PICK b \in Bytes : b = tensor[t].size
  BY <1>2 DEF TensorTypeOK, Buffer
<1>4. CASE AllocateBuffer(b) /\ tensor' = [tensor EXCEPT ![t] = NewBuffer(b)]
  <2>1. PICK s : s = Own(t)
    OBVIOUS
  <2>2. s \in Holder /\ HeldBy[s].data = Null
    BY <1>1, <1>2, <2>1, HolderParts DEF DoingInv
  <2>3. PICK J : J = [HeldBy EXCEPT ![s] = NewBuffer(b)]
    OBVIOUS
  <2>4. /\ ArenaInv' /\ NewBuffer(b) \in Buffer
        /\ J \in [Holder -> Buffer] /\ Owned(J, freeLists', carved')
    BY <1>4, <2>2, <2>3, AllocateBufferKeeps
  <2>5. TensorTypeOK'
    BY <1>1, <1>2, <1>4, <2>4 DEF TensorTypeOK
  <2>6. DoingInv'
    BY <1>1, <1>2, <1>4 DEF DoingInv, TensorTypeOK
  <2>7. HeldBy' = J
    <3>1. \A v \in Tensor : tensor'[v] = J[Own(v)] /\ incoming'[v] = J[Temporary(v)]
      <4> TAKE v \in Tensor
      <4>1. /\ Own(v) \in Holder /\ Temporary(v) \in Holder /\ Temporary(v) # s
        BY <2>1 DEF Own, Temporary, Holder
      <4>2. Own(v) = s <=> v = t
        BY <2>1 DEF Own
      <4>3. HeldBy \in [Holder -> Buffer]
        BY <1>2, HeldByType
      <4>4. tensor'[v] = IF v = t THEN NewBuffer(b) ELSE tensor[v]
        BY <1>2, <1>4 DEF TensorTypeOK
      <4> QED
        BY <1>1, <2>3, <4>1, <4>2, <4>3, <4>4, HolderParts
    <3> QED
      BY <2>4, <3>1, HeldByParts
  <2> QED
    BY <2>4, <2>5, <2>6, <2>7 DEF PoolInv
<1>5. CASE UNCHANGED poolVars /\ UNCHANGED tensor
  <2>1. ArenaInv' /\ freeLists' = freeLists /\ carved' = carved
    BY <1>5, PoolUntouched DEF PoolInv
  <2>2. HeldBy' = HeldBy
    BY <1>1, <1>5 DEF HeldBy, Held
  <2>3. TensorTypeOK' /\ DoingInv'
    BY <1>1, <1>2, <1>5 DEF TensorTypeOK, DoingInv
  <2> QED
    BY <2>1, <2>2, <2>3 DEF PoolInv
<1> QED
  BY <1>3, <1>4, <1>5 DEF EndCopy, OutOfMemory

\* A failed allocation changes nothing.
LEMMA StutterKeeps ==
  ASSUME PoolInv, UNCHANGED poolVars, UNCHANGED <<tensor, doing, incoming>>
  PROVE  PoolInv'
<1>1. ArenaInv' /\ freeLists' = freeLists /\ carved' = carved
  BY PoolUntouched DEF PoolInv
<1>2. HeldBy' = HeldBy
  BY DEF HeldBy, Held
<1>3. TensorTypeOK' /\ DoingInv'
  BY DEF PoolInv, TensorTypeOK, DoingInv
<1> QED
  BY <1>1, <1>2, <1>3 DEF PoolInv

\* Every step keeps the invariant,
LEMMA NextKeeps == PoolInv /\ [Next]_vars => PoolInv'
<1> SUFFICES ASSUME PoolInv, [Next]_vars PROVE PoolInv'
  OBVIOUS
<1>1. ASSUME NEW t \in Tensor, BeginResize(t) PROVE PoolInv'
  BY <1>1, BeginResizeKeeps
<1>2. ASSUME NEW t \in Tensor, FailResize(t) PROVE PoolInv'
  BY <1>2, StutterKeeps DEF FailResize, OutOfMemory
<1>3. ASSUME NEW t \in Tensor, EndResize(t) PROVE PoolInv'
  BY <1>3, EndResizeKeeps
<1>4. ASSUME NEW t \in Tensor, EndCopy(t) PROVE PoolInv'
  BY <1>4, EndCopyKeeps
<1>5. ASSUME NEW t \in Tensor, NEW u \in Tensor, MoveAssign(t, u) PROVE PoolInv'
  BY <1>5, MoveAssignKeeps
<1>6. ASSUME NEW t \in Tensor, NEW u \in Tensor, BeginCopy(t, u) PROVE PoolInv'
  BY <1>6, BeginCopyKeeps
<1>7. CASE UNCHANGED vars
  BY <1>7, StutterKeeps DEF vars, poolVars
<1> QED
  BY <1>1, <1>2, <1>3, <1>4, <1>5, <1>6, <1>7 DEF Next

\* and so it holds in every state.
LEMMA PoolInvariant == Spec => []PoolInv
<1>1. Init => PoolInv
  BY InitHolds
<1>2. PoolInv /\ [Next]_vars => PoolInv'
  BY NextKeeps
<1> QED
  BY <1>1, <1>2, PTL DEF Spec

--------------------------------------------------------------------------------

(***************************************************************************)
(* What the runs check follows from PoolInv.                               *)
(***************************************************************************)
\* Blocks cut by allocate never overlap, and stay aligned and in their chunk.
THEOREM BlocksStayApart == Spec => []BlocksLieApart
<1>1. PoolInv => BlocksLieApart
  BY DEF PoolInv, ArenaInv, BlockInv, Apart, BlocksLieApart, Place, Start, EndOf
<1> QED
  BY <1>1, PoolInvariant, PTL

\* Through resizes, moves and copies of tensors, and copies that run out of
\* memory, no block is shared, lost or kept in the list of another class.
THEOREM BlocksAreOwned == Spec => []OwnedOrFree
<1>1. ASSUME PoolInv PROVE OwnedOrFree
  <2>1. HeldBy \in [Holder -> Buffer] /\ \A h \in Holder : HeldBy[h] = Held(h)
    BY <1>1, HeldByType DEF PoolInv, HeldBy
  <2>2. Having(HeldBy) = Holders
    BY <2>1 DEF Having, Holders
  <2>3. Owned(HeldBy, freeLists, carved) /\ freeLists \in [Class -> Seq(Pointer)]
    BY <1>1 DEF PoolInv, ArenaInv, ArenaTypeOK
  <2>4. \A c \in Class : Freed(c) = Range(freeLists[c])
    BY DEF Freed, Range
  <2>5. \A h \in Holders : h \in Holder /\ HeldBy[h] = Held(h)
    BY <2>1 DEF Holders
  <2>6. ASSUME NEW h \in Holders
        PROVE  \E c \in Class : c >= Held(h).size /\ <<Held(h).data, c>> \in carved
    <3>1. Held(h).size # 0 /\ <<Held(h).data, SizeClass(Held(h).size)>> \in carved
      BY <2>2, <2>3, <2>5 DEF Owned
    <3>2. Held(h).size \in Bytes
      BY <2>1, <2>5 DEF Buffer
    <3> QED
      BY <3>1, <3>2, ClassType
  <2>7. ASSUME NEW g \in Holders, NEW h \in Holders, g # h
        PROVE  Held(g).data # Held(h).data
    <3>1. HeldBy[g].data # HeldBy[h].data
      BY <2>2, <2>3, <2>7 DEF Owned
    <3> QED
      BY <2>5, <3>1
  <2>8. ASSUME NEW h \in Holders, NEW c \in Class
        PROVE  Held(h).data \notin Freed(c)
    <3>1. HeldBy[h].data \notin Range(freeLists[c])
      BY <2>2, <2>3 DEF Owned
    <3> QED
      BY <2>4, <2>5, <3>1
  <2>9. ASSUME NEW c \in Class
        PROVE  /\ Cardinality(Freed(c)) = Len(freeLists[c])
               /\ \A p \in Freed(c) : <<p, c>> \in carved
    <3>1. IsInjective(freeLists[c]) /\ \A p \in Range(freeLists[c]) : <<p, c>> \in carved
      BY <2>3 DEF Owned
    <3>2. PICK f \in Seq(Pointer) : f = freeLists[c]
      BY <2>3
    <3>3. Cardinality(Range(f)) = Len(f)
      BY <3>1, <3>2, RangeCount
    <3> QED
      BY <2>4, <3>1, <3>2, <3>3
  <2>10. ASSUME NEW x \in carved
         PROVE  x[1] \in Freed(x[2]) \/ \E h \in Holders : Held(h).data = x[1]
    <3>1. x[1] \in Range(freeLists[x[2]]) \/ \E h \in Holders : HeldBy[h].data = x[1]
      BY <2>2, <2>3 DEF Owned
    <3>2. x[2] \in Class
      BY <1>1 DEF PoolInv, ArenaInv, ArenaTypeOK, Block
    <3> QED
      BY <2>4, <2>5, <3>1, <3>2
  <2> QED
    BY <2>6, <2>7, <2>8, <2>9, <2>10 DEF OwnedOrFree
<1> QED
  BY <1>1, PoolInvariant, PTL

\* allocator.h:4-6: the pool only grows when more blocks of a size class are
\* in use than ever before.
THEOREM PoolStopsGrowing == Spec => []NoGrowthAfterWarmUp
<1>1. PoolInv => NoGrowthAfterWarmUp
  BY DEF PoolInv, ArenaInv
<1> QED
  BY <1>1, PoolInvariant, PTL

================================================================================
