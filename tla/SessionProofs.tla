----------------------------- MODULE SessionProofs -----------------------------
(***************************************************************************)
(* Proofs about the inference session, for every model, every set of       *)
(* passes, every order in which the hash map yields the children and any   *)
(* number of runs: the plan is a schedule, nodes that execute together do  *)
(* not read what the others write, the optimizer keeps what a sound model  *)
(* means, no sound model is refused, and a run that returns is right.      *)
(*                                                                         *)
(* The argument.  A node is appended to post only when all its children    *)
(* are there, and what is on the stack is not in post (SearchInv); so in   *)
(* the reversed order every node stands before those it feeds, and its     *)
(* level, one more than the highest of those that feed it, is higher than  *)
(* each of theirs.  A sound model has one valuation of its names for an    *)
(* input, which is what Meaning computes; each rewrite changes a valuation *)
(* into one of the rewritten model with the same values at the outputs.    *)
(* The stack is a path of the graph, so what the search refuses is a       *)
(* cycle.  A run keeps the slots that earlier levels wrote equal to the    *)
(* valuation of its input (ProgressInv).                                   *)
(***************************************************************************)
EXTENDS InferenceSession, FiniteSetTheorems, SequenceTheorems, WellFoundedInduction, TLAPS

Passing == {"fold", "fuse", "eliminate"}
Planned == {"check", "ready", "running"}
Nodes == ToSet(model.nodes)

Injective(s) == \A i, j \in DOMAIN s : s[i] = s[j] => i = j

\* All that a node feeds stands before it.
ChildrenFirst(s, nodes) ==
  \A j \in DOMAIN s : \A c \in nodes :
    Feeds(s[j], c) => \E i \in 1 .. j - 1 : s[i] = c

SearchInv ==
  /\ post \in Seq(Nodes) /\ stack \in Seq(Nodes)
  /\ visited = ToSet(post)
  /\ Injective(post) /\ Injective(stack)
  /\ ToSet(stack) \cap visited = {}
  /\ ChildrenFirst(post, Nodes)

\* What PlanIsSchedule says, of any plan.
Place(p, n) == CHOOSE k \in DOMAIN p : n \in p[k]

Schedule(p, nodes) ==
  /\ \E n \in Nat : DOMAIN p = 1 .. n
  /\ UNION {p[k] : k \in DOMAIN p} = nodes
  /\ \A j, k \in DOMAIN p : j # k => p[j] \cap p[k] = {}
  /\ \A a, b \in nodes : Feeds(a, b) => Place(p, a) < Place(p, b)

PlanInv ==
  /\ stage \in Passing => visited = {} /\ stack = <<>> /\ post = <<>>
  /\ stage = "sort" => SearchInv
  /\ stage \in Planned => Schedule(plan, Nodes)

\* Only nodes of the level run() is at are about to execute or execute.
Level == IF level \in DOMAIN plan THEN plan[level] ELSE {}

LevelInv ==
  /\ stage # "running" => pending = {} /\ active = {}
  /\ stage = "running" => pending \cup {a.node : a \in active} \subseteq Level

\* A node that executes reads nothing that another one that executes writes.
NoRace == \A a, b \in active : ~ Feeds(a.node, b.node)

--------------------------------------------------------------------------------

(***************************************************************************)
(* Sequences.                                                              *)
(***************************************************************************)
\* What a node appended to a sequence changes.
LEMMA Appended ==
  ASSUME NEW S, NEW s \in Seq(S), NEW e \in S
  PROVE  /\ Append(s, e) \in Seq(S)
         /\ DOMAIN Append(s, e) = 1 .. Len(s) + 1
         /\ \A i \in DOMAIN s : i \in 1 .. Len(s) /\ Append(s, e)[i] = s[i]
         /\ Append(s, e)[Len(s) + 1] = e
         /\ ToSet(Append(s, e)) = ToSet(s) \cup {e}
<1>1. /\ Append(s, e) \in Seq(S)
      /\ Len(Append(s, e)) = Len(s) + 1
      /\ \A i \in 1 .. Len(s) : Append(s, e)[i] = s[i]
      /\ Append(s, e)[Len(s) + 1] = e
  BY AppendProperties
<1>2. DOMAIN s = 1 .. Len(s) /\ Len(s) \in Nat
  BY LenProperties
<1>3. DOMAIN Append(s, e) = 1 .. Len(s) + 1
  BY <1>1, LenProperties
<1>4. ToSet(Append(s, e)) = ToSet(s) \cup {e}
  BY <1>1, <1>2, <1>3 DEF ToSet
<1> QED
  BY <1>1, <1>2, <1>3, <1>4

\* An element that is not there keeps the elements distinct.
LEMMA AppendedInjective ==
  ASSUME NEW S, NEW s \in Seq(S), NEW e \in S \ ToSet(s), Injective(s)
  PROVE  Injective(Append(s, e))
<1>1. DOMAIN s = 1 .. Len(s) /\ Len(s) \in Nat
  BY LenProperties
<1>2. \A i \in DOMAIN s : s[i] # e
  BY DEF ToSet
<1> QED
  BY <1>1, <1>2, Appended DEF Injective

\* The stack without its top.
LEMMA Popped ==
  ASSUME NEW S, NEW s \in Seq(S), s # <<>>, Injective(s)
  PROVE  /\ Front(s) \in Seq(S) /\ Injective(Front(s))
         /\ Last(s) \in S /\ Last(s) \in ToSet(s)
         /\ ToSet(Front(s)) = ToSet(s) \ {Last(s)}
<1>1. DOMAIN s = 1 .. Len(s) /\ Len(s) \in Nat \ {0} /\ \A i \in 1 .. Len(s) : s[i] \in S
  BY LenProperties, EmptySeq, ElementOfSeq
<1>2. /\ Front(s) \in Seq(S) /\ Len(Front(s)) = Len(s) - 1
      /\ \A i \in 1 .. Len(s) - 1 : Front(s)[i] = s[i]
  <2>1. Front(s) = SubSeq(s, 1, Len(s) - 1)
    BY DEF Front
  <2>2. \A i \in 1 .. Len(s) - 1 : s[i] \in S
    BY <1>1
  <2> HIDE DEF Front
  <2> QED
    BY <1>1, <2>1, <2>2, SubSeqProperties
<1>3. DOMAIN Front(s) = 1 .. Len(s) - 1
  BY <1>2, LenProperties
<1>4. Injective(Front(s))
  BY <1>1, <1>2, <1>3 DEF Injective
<1>5. Last(s) = s[Len(s)] /\ Last(s) \in S /\ Last(s) \in ToSet(s)
  BY <1>1 DEF Last, ToSet
<1>6. ToSet(Front(s)) = ToSet(s) \ {Last(s)}
  <2>1. PICK n \in Nat \ {0} : n = Len(s)
    BY <1>1
  <2>2. \A i \in 1 .. n - 1 : s[i] # s[n]
    BY <1>1, <2>1 DEF Injective
  <2>3. 1 .. n = (1 .. n - 1) \cup {n}
    OBVIOUS
  <2>4. ToSet(s) = {s[i] : i \in 1 .. n}
    BY <1>1, <2>1 DEF ToSet
  <2>5. ToSet(Front(s)) = {s[i] : i \in 1 .. n - 1}
    BY <1>2, <1>3, <2>1 DEF ToSet
  <2>6. Last(s) = s[n]
    BY <1>5, <2>1
  <2> QED
    BY <2>2, <2>3, <2>4, <2>5, <2>6
<1> QED
  BY <1>2, <1>4, <1>5, <1>6

--------------------------------------------------------------------------------

(***************************************************************************)
(* The search.                                                             *)
(***************************************************************************)
\* Nothing is visited before the search begins.
LEMMA SearchBegins ==
  ASSUME visited = {}, stack = <<>>, post = <<>>
  PROVE  SearchInv
<1>1. post \in Seq(Nodes) /\ stack \in Seq(Nodes) /\ DOMAIN post = {} /\ DOMAIN stack = {}
  BY EmptySeq, LenProperties
<1> QED
  BY <1>1 DEF SearchInv, Injective, ChildrenFirst, ToSet

\* visit() is entered for a node that is neither done nor on the stack.
LEMMA SearchPushes ==
  ASSUME SearchInv, NEW n \in Nodes, n \notin visited, n \notin ToSet(stack),
         stack' = Append(stack, n), UNCHANGED <<model, visited, post>>
  PROVE  SearchInv'
<1>1. Nodes' = Nodes
  BY DEF Nodes
<1>2. stack' \in Seq(Nodes) /\ ToSet(stack') = ToSet(stack) \cup {n}
  BY Appended DEF SearchInv
<1>3. Injective(stack')
  BY AppendedInjective DEF SearchInv
<1> QED
  BY <1>1, <1>2, <1>3 DEF SearchInv

\* A node is left when its children are done: they stand before it.
LEMMA SearchLeaves ==
  ASSUME SearchInv, stack # <<>>, LeaveNode
  PROVE  SearchInv'
<1> DEFINE n == Last(stack)
<1>1. Nodes' = Nodes
  BY DEF Nodes, LeaveNode
<1>2. /\ stack' \in Seq(Nodes) /\ Injective(stack')
      /\ n \in Nodes /\ n \in ToSet(stack)
      /\ ToSet(stack') = ToSet(stack) \ {n}
  BY Popped DEF SearchInv, LeaveNode
<1>3. n \notin ToSet(post) /\ visited' = visited \cup {n} /\ post' = Append(post, n)
  BY <1>2 DEF SearchInv, LeaveNode
<1>4. /\ post' \in Seq(Nodes)
      /\ DOMAIN post' = 1 .. Len(post) + 1
      /\ \A i \in DOMAIN post : i \in 1 .. Len(post) /\ post'[i] = post[i]
      /\ post'[Len(post) + 1] = n
      /\ ToSet(post') = ToSet(post) \cup {n}
  BY <1>2, <1>3, Appended DEF SearchInv
<1>5. Injective(post')
  BY <1>2, <1>3, AppendedInjective DEF SearchInv
<1>6. \A c \in Nodes : Feeds(n, c) => c \in ToSet(post)
  BY DEF SearchInv, LeaveNode, Children, Nodes
<1>7. DOMAIN post = 1 .. Len(post) /\ Len(post) \in Nat
  BY LenProperties DEF SearchInv
<1>8. ChildrenFirst(post', Nodes)
  <2> SUFFICES ASSUME NEW j \in DOMAIN post', NEW c \in Nodes, Feeds(post'[j], c)
               PROVE  \E i \in 1 .. j - 1 : post'[i] = c
    BY DEF ChildrenFirst
  <2>1. CASE j \in DOMAIN post
    <3>1. PICK i \in 1 .. j - 1 : post[i] = c
      BY <1>4, <2>1 DEF SearchInv, ChildrenFirst
    <3> QED
      BY <1>4, <1>7, <2>1, <3>1
  <2>2. CASE j = Len(post) + 1
    <3>1. PICK i \in DOMAIN post : post[i] = c
      BY <1>4, <1>6, <2>2 DEF ToSet
    <3> QED
      BY <1>4, <1>7, <2>2, <3>1
  <2> QED
    BY <1>4, <1>7, <2>1, <2>2
<1> HIDE DEF n
<1> QED
  BY <1>1, <1>2, <1>3, <1>4, <1>5, <1>8 DEF SearchInv

--------------------------------------------------------------------------------

(***************************************************************************)
(* From the search to the plan.                                            *)
(***************************************************************************)
\* Every node once, and before those it feeds.
Topological(order, nodes) ==
  /\ order \in Seq(nodes)
  /\ ToSet(order) = nodes
  /\ Injective(order)
  /\ \A i, j \in DOMAIN order : Feeds(order[i], order[j]) => i < j

\* When every node is done, post reversed is a topological order.
LEMMA OrderIsTopological ==
  ASSUME SearchInv, \A i \in DOMAIN model.nodes : ~ Unvisited(i)
  PROVE  Topological(Order, Nodes)
<1> DEFINE n == Len(post)
<1>1. n \in Nat /\ DOMAIN post = 1 .. n /\ \A i \in 1 .. n : post[i] \in Nodes
  BY LenProperties, ElementOfSeq DEF SearchInv
<1>2. Nodes = ToSet(post)
  BY <1>1 DEF SearchInv, Unvisited, Nodes, ToSet
<1> HIDE DEF n
<1>3. Order = [i \in 1 .. n |-> post[n - i + 1]]
  BY DEF Order, Reverse, n
<1>4. Order \in Seq(Nodes) /\ DOMAIN Order = 1 .. n
  <2>1. \A i \in 1 .. n : n - i + 1 \in 1 .. n
    BY <1>1
  <2>2. Order \in [1 .. n -> Nodes]
    BY <1>1, <1>3, <2>1
  <2> QED
    BY <1>1, <2>2, SeqDef
<1>5. ToSet(Order) = Nodes
  <2>1. \A i \in 1 .. n : n - i + 1 \in 1 .. n /\ n - (n - i + 1) + 1 = i
    BY <1>1
  <2>2. ToSet(Order) = {post[n - i + 1] : i \in 1 .. n}
    BY <1>3 DEF ToSet
  <2>3. ToSet(post) = {post[i] : i \in 1 .. n}
    BY <1>1 DEF ToSet
  <2> QED
    BY <1>2, <2>1, <2>2, <2>3
<1>6. Injective(Order)
  <2> SUFFICES ASSUME NEW i \in 1 .. n, NEW j \in 1 .. n, Order[i] = Order[j]
               PROVE  i = j
    BY <1>4 DEF Injective
  <2>1. n - i + 1 \in 1 .. n /\ n - j + 1 \in 1 .. n
    BY <1>1
  <2>2. post[n - i + 1] = post[n - j + 1]
    BY <1>3
  <2>3. n - i + 1 = n - j + 1
    BY <1>1, <2>1, <2>2 DEF SearchInv, Injective
  <2> QED
    BY <1>1, <2>3
<1>7. ASSUME NEW i \in 1 .. n, NEW j \in 1 .. n, Feeds(Order[i], Order[j])
      PROVE  i < j
  <2> DEFINE a == n - i + 1
             b == n - j + 1
  <2>1. a \in 1 .. n /\ b \in 1 .. n /\ Order[i] = post[a] /\ Order[j] = post[b]
    BY <1>1, <1>3
  <2>2. PICK k \in 1 .. a - 1 : post[k] = post[b]
    BY <1>1, <1>7, <2>1 DEF SearchInv, ChildrenFirst
  <2>3. k \in 1 .. n
    BY <1>1, <2>1
  <2>4. k = b
    BY <1>1, <2>1, <2>2, <2>3 DEF SearchInv, Injective
  <2> QED
    BY <1>1, <2>4
<1> QED
  BY <1>4, <1>5, <1>6, <1>7 DEF Topological

\* A node in one place of a plan only is found there.
LEMMA PlaceIsUnique ==
  ASSUME NEW p, NEW k \in DOMAIN p, NEW n \in p[k],
         \A i, j \in DOMAIN p : i # j => p[i] \cap p[j] = {}
  PROVE  Place(p, n) = k
BY DEF Place

\* One node after the other, in topological order.
LEMMA SequentialSchedule ==
  ASSUME NEW nodes, NEW order, Topological(order, nodes)
  PROVE  Schedule([i \in DOMAIN order |-> {order[i]}], nodes)
<1> DEFINE p == [i \in DOMAIN order |-> {order[i]}]
<1>1. DOMAIN p = DOMAIN order /\ \A i \in DOMAIN order : p[i] = {order[i]}
  OBVIOUS
<1> HIDE DEF p
<1>2. (\E n \in Nat : DOMAIN p = 1 .. n) /\ UNION {p[k] : k \in DOMAIN p} = nodes
  <2>1. DOMAIN order = 1 .. Len(order) /\ Len(order) \in Nat
    BY LenProperties DEF Topological
  <2>2. UNION {p[k] : k \in DOMAIN p} = nodes
    BY <1>1 DEF Topological, ToSet
  <2> QED
    BY <1>1, <2>1, <2>2
<1>3. \A j, k \in DOMAIN p : j # k => p[j] \cap p[k] = {}
  BY <1>1 DEF Topological, Injective
<1>4. ASSUME NEW a \in nodes, NEW b \in nodes, Feeds(a, b)
      PROVE  Place(p, a) < Place(p, b)
  <2>1. PICK i \in DOMAIN order : order[i] = a
    BY DEF Topological, ToSet
  <2>2. PICK j \in DOMAIN order : order[j] = b
    BY DEF Topological, ToSet
  <2>3. Place(p, a) = i /\ Place(p, b) = j
    BY <1>1, <1>3, <2>1, <2>2, PlaceIsUnique
  <2> QED
    BY <1>4, <2>1, <2>2, <2>3 DEF Topological
<1> QED
  BY <1>2, <1>3, <1>4 DEF Schedule, p

--------------------------------------------------------------------------------

(***************************************************************************)
(* The levels.                                                             *)
(***************************************************************************)
Below == OpToRel(<, Nat)

\* A nonempty set of natural numbers has a least element.
LEMMA LeastNumber ==
  ASSUME NEW S \in SUBSET Nat, S # {}
  PROVE  \E m \in S : \A k \in S : m <= k
<1>1. PICK m \in S : \A k \in S : ~ (<<k, m>> \in Below)
  <2>1. IsWellFoundedOn(Below, Nat)
    BY NatLessThanWellFounded DEF Below
  <2> QED
    BY <2>1, WFMin
<1>2. \A k \in S : m <= k
  <2> TAKE k \in S
  <2>1. <<k, m>> \in Below <=> k < m
    BY DEF Below, OpToRel
  <2> QED
    BY <1>1, <2>1
<1> QED
  BY <1>2

\* A nonempty bounded one has a greatest element: Max finds it.
LEMMA MaxHolds ==
  ASSUME NEW b \in Nat, NEW S \in SUBSET (0 .. b), S # {}
  PROVE  Max(S) \in S /\ \A y \in S : Max(S) >= y
<1> DEFINE T == {b - x : x \in S}
<1>1. T \in SUBSET Nat /\ T # {}
  <2>1. ASSUME NEW x \in S PROVE b - x \in Nat
    OBVIOUS
  <2> QED
    BY <2>1
<1> HIDE DEF T
<1>2. PICK m \in T : \A k \in T : m <= k
  BY <1>1, LeastNumber
<1>3. PICK x \in S : m = b - x
  BY DEF T
<1>4. \A y \in S : x >= y
  <2> TAKE y \in S
  <2>1. b - y \in T
    BY DEF T
  <2>2. b - x <= b - y
    BY <1>2, <1>3, <2>1
  <2> QED
    BY <2>2
<1> QED
  BY <1>4 DEF Max

\* The level of a node, given those of the ones before it.
Above(order, i) == {j \in 1 .. i - 1 : Feeds(order[j], order[i])}

Step(order, f, i) ==
  IF Above(order, i) = {} THEN 1 ELSE 1 + Max({f[j] : j \in Above(order, i)})

\* Only the levels of earlier nodes matter.
LEMMA StepLooksBack ==
  ASSUME NEW order, NEW f, NEW g, NEW i, \A j \in 1 .. i - 1 : f[j] = g[j]
  PROVE  Step(order, f, i) = Step(order, g, i)
<1>1. {f[j] : j \in Above(order, i)} = {g[j] : j \in Above(order, i)}
  BY DEF Above
<1> QED
  BY <1>1 DEF Step

\* A node's level is above those of the nodes that feed it.
LEMMA StepRises ==
  ASSUME NEW order, NEW f, NEW i \in Nat \ {0}, \A j \in 1 .. i - 1 : f[j] \in 1 .. i - 1
  PROVE  /\ Step(order, f, i) \in 1 .. i
         /\ \A j \in Above(order, i) : f[j] < Step(order, f, i)
<1> DEFINE S == {f[j] : j \in Above(order, i)}
<1>1. CASE Above(order, i) = {}
  BY <1>1 DEF Step
<1>2. CASE Above(order, i) # {}
  <2>1. i - 1 \in Nat /\ S \in SUBSET (0 .. i - 1) /\ S # {} /\ S \subseteq 1 .. i - 1
    BY <1>2 DEF Above
  <2>2. Step(order, f, i) = 1 + Max(S)
    BY <1>2 DEF Step
  <2>3. \A j \in Above(order, i) : f[j] \in S
    OBVIOUS
  <2> HIDE DEF S
  <2>4. Max(S) \in S /\ \A y \in S : Max(S) >= y
    BY <2>1, MaxHolds
  <2>5. PICK m \in 1 .. i - 1 : m = Max(S)
    BY <2>1, <2>4
  <2>6. Step(order, f, i) = 1 + m
    BY <2>2, <2>5
  <2>7. ASSUME NEW j \in Above(order, i) PROVE f[j] < Step(order, f, i)
    <3>1. f[j] \in 1 .. i - 1 /\ m >= f[j]
      BY <2>1, <2>3, <2>4, <2>5
    <3> QED
      BY <2>6, <3>1
  <2> QED
    BY <2>6, <2>7
<1> QED
  BY <1>1, <1>2

\* The levels of the first k nodes.
Solves(order, f, k) ==
  /\ f \in [1 .. k -> Nat \ {0}]
  /\ \A i \in 1 .. k : f[i] <= i /\ f[i] = Step(order, f, i)

\* The first k nodes have levels, for every k.
LEMMA LevelsExist ==
  ASSUME NEW order
  PROVE  \A k \in Nat : \E f : Solves(order, f, k)
<1> DEFINE Bad == {k \in Nat : ~ \E f : Solves(order, f, k)}
<1>1. SUFFICES ASSUME Bad # {} PROVE FALSE
  OBVIOUS
<1>2. PICK m \in Bad : \A k \in Bad : m <= k
  <2>1. Bad \in SUBSET Nat
    OBVIOUS
  <2> HIDE DEF Bad
  <2> QED
    BY <1>1, <2>1, LeastNumber
<1>3. m # 0
  <2>1. Solves(order, [i \in 1 .. 0 |-> 1], 0)
    BY DEF Solves
  <2> QED
    BY <1>2, <2>1
<1>4. m \in Nat \ {0} /\ m - 1 \in Nat /\ m - 1 \notin Bad
  <2>1. m \in Nat
    BY <1>2
  <2> HIDE DEF Bad
  <2> QED
    BY <1>2, <1>3, <2>1
<1>5. PICK f : Solves(order, f, m - 1)
  BY <1>4
<1> DEFINE top == Step(order, f, m)
           g == [i \in 1 .. m |-> IF i = m THEN top ELSE f[i]]
<1>6. top \in 1 .. m
  <2>1. \A j \in 1 .. m - 1 : f[j] \in 1 .. m - 1
    BY <1>4, <1>5 DEF Solves
  <2> QED
    BY <1>4, <2>1, StepRises
<1> HIDE DEF top
<1>7. \A i \in 1 .. m - 1 : f[i] \in Nat \ {0} /\ f[i] <= i /\ f[i] = Step(order, f, i)
  BY <1>4, <1>5 DEF Solves
<1>8. /\ g \in [1 .. m -> Nat \ {0}]
      /\ \A i \in 1 .. m - 1 : g[i] = f[i]
      /\ g[m] = top
  BY <1>4, <1>6, <1>7
<1> HIDE DEF g
<1>9. \A i \in 1 .. m : Step(order, f, i) = Step(order, g, i)
  <2> TAKE i \in 1 .. m
  <2>1. \A j \in 1 .. i - 1 : f[j] = g[j]
    BY <1>4, <1>8
  <2> QED
    BY <2>1, StepLooksBack
<1>10. ASSUME NEW i \in 1 .. m PROVE g[i] <= i /\ g[i] = Step(order, g, i)
  <2>1. CASE i = m
    BY <1>4, <1>6, <1>8, <1>9, <2>1 DEF top
  <2>2. CASE i # m
    <3>1. i \in 1 .. m - 1
      BY <1>4, <2>2
    <3> QED
      BY <1>7, <1>8, <1>9, <3>1
  <2> QED
    BY <2>1, <2>2
<1>11. Solves(order, g, m)
  BY <1>8, <1>10 DEF Solves
<1> QED
  BY <1>2, <1>11

\* The levels of an order solve their recursion.
LEMMA LevelOfSolves ==
  ASSUME NEW S, NEW order \in Seq(S)
  PROVE  /\ DOMAIN LevelOf(order) = 1 .. Len(order)
         /\ \A i \in 1 .. Len(order) : LevelOf(order)[i] = Step(order, LevelOf(order), i)
<1>1. Len(order) \in Nat /\ DOMAIN order = 1 .. Len(order)
  BY LenProperties
<1>2. PICK f : Solves(order, f, Len(order))
  BY <1>1, LevelsExist
<1>3. f = [i \in DOMAIN order |-> Step(order, f, i)]
  BY <1>1, <1>2 DEF Solves
<1>4. LevelOf(order) = CHOOSE g : g = [i \in DOMAIN order |-> Step(order, g, i)]
  BY DEF LevelOf, Step, Above
<1> DEFINE level0 == LevelOf(order)
<1>5. level0 = [i \in DOMAIN order |-> Step(order, level0, i)]
  BY <1>3, <1>4
<1> HIDE DEF level0
<1>6. DOMAIN level0 = 1 .. Len(order) /\ \A i \in 1 .. Len(order) : level0[i] = Step(order, level0, i)
  BY <1>1, <1>5
<1> QED
  BY <1>6 DEF level0

\* A node is on a level no higher than its position, above those that feed it.
LEMMA LevelsRise ==
  ASSUME NEW S, NEW order \in Seq(S)
  PROVE  \A i \in 1 .. Len(order) :
           /\ LevelOf(order)[i] \in 1 .. i
           /\ \A j \in Above(order, i) : LevelOf(order)[j] < LevelOf(order)[i]
<1>1. PICK n \in Nat : n = Len(order)
  BY LenProperties
<1>2. PICK f : f = LevelOf(order)
  OBVIOUS
<1>3. \A i \in 1 .. n : f[i] = Step(order, f, i)
  BY <1>1, <1>2, LevelOfSolves
<1> DEFINE Bad == {k \in 1 .. n : f[k] \notin 1 .. k}
<1>4. ASSUME Bad # {} PROVE FALSE
  <2>1. Bad \in SUBSET Nat
    OBVIOUS
  <2>2. PICK m \in Bad : \A k \in Bad : m <= k
    <3> HIDE DEF Bad
    <3> QED
      BY <1>4, <2>1, LeastNumber
  <2>3. m \in 1 .. n /\ f[m] \notin 1 .. m
    BY <2>2
  <2>4. \A j \in 1 .. m - 1 : j \notin Bad
    <3> HIDE DEF Bad
    <3>1. m \in Nat
      BY <2>1
    <3> QED
      BY <2>2, <3>1
  <2>5. \A j \in 1 .. m - 1 : f[j] \in 1 .. m - 1
    <3> TAKE j \in 1 .. m - 1
    <3>1. j \in 1 .. n
      BY <1>1, <2>3
    <3>2. f[j] \in 1 .. j
      BY <2>4, <3>1
    <3> QED
      BY <2>3, <3>2
  <2>6. Step(order, f, m) \in 1 .. m
    BY <2>3, <2>5, StepRises
  <2> QED
    BY <1>3, <2>3, <2>6
<1>5. \A i \in 1 .. n : f[i] \in 1 .. i
  BY <1>4
<1>6. ASSUME NEW i \in 1 .. n, NEW j \in Above(order, i) PROVE f[j] < f[i]
  <2>1. \A k \in 1 .. i - 1 : f[k] \in 1 .. i - 1
    <3> TAKE k \in 1 .. i - 1
    <3>1. k \in 1 .. n
      BY <1>1
    <3>2. f[k] \in 1 .. k
      BY <1>5, <3>1
    <3> QED
      BY <3>2
  <2>2. f[j] < Step(order, f, i)
    BY <2>1, StepRises
  <2> QED
    BY <1>3, <2>2
<1> QED
  BY <1>1, <1>2, <1>5, <1>6

\* The levels of a topological order are a schedule.
LEMMA ParallelSchedule ==
  ASSUME NEW nodes, NEW order, Topological(order, nodes)
  PROVE  Schedule(ExecutionLevels(order), nodes)
<1>1. order \in Seq(nodes) /\ ToSet(order) = nodes /\ Injective(order)
  BY DEF Topological
<1>2. PICK n \in Nat : n = Len(order)
  BY <1>1, LenProperties
<1>3. DOMAIN order = 1 .. n
  BY <1>1, <1>2, LenProperties
<1>4. PICK f : f = LevelOf(order)
  OBVIOUS
<1>5. \A i \in 1 .. n : f[i] \in 1 .. n /\ \A j \in Above(order, i) : f[j] < f[i]
  <2> TAKE i \in 1 .. n
  <2>1. f[i] \in 1 .. i /\ \A j \in Above(order, i) : f[j] < f[i]
    BY <1>1, <1>2, <1>4, LevelsRise
  <2> QED
    BY <1>2, <2>1
<1> DEFINE p == ExecutionLevels(order)
<1>6. CASE n = 0
  <2>1. order = <<>> /\ nodes = {}
    BY <1>1, <1>2, <1>3, <1>6, EmptySeq DEF ToSet
  <2>2. p = <<>>
    BY <2>1 DEF ExecutionLevels
  <2>3. DOMAIN p = {} /\ DOMAIN p = 1 .. 0
    BY <2>2
  <2> HIDE DEF p
  <2> QED
    BY <2>1, <2>3 DEF Schedule, p
<1>7. CASE n # 0
  <2> DEFINE S == {f[i] : i \in DOMAIN order}
             max == Max(S)
  <2>1. order # <<>>
    BY <1>1, <1>2, <1>7, EmptySeq
  <2>2. p = [k \in 1 .. Max(S) |-> {order[i] : i \in {j \in DOMAIN order : f[j] = k}}]
    BY <1>4, <2>1 DEF ExecutionLevels
  <2>3. max \in S /\ \A y \in S : max >= y
    <3>1. S \in SUBSET (0 .. n) /\ S # {}
      BY <1>2, <1>3, <1>5, <1>7
    <3> HIDE DEF S
    <3> QED
      BY <1>2, <3>1, MaxHolds
  <2>4. max \in 1 .. n
    BY <1>3, <1>5, <2>3
  <2>5. \A i \in 1 .. n : f[i] \in S
    BY <1>3
  <2>6. \A i \in 1 .. n : f[i] \in 1 .. max
    <3> HIDE DEF S, max
    <3> QED
      BY <1>2, <1>5, <2>3, <2>4, <2>5
  <2>7. /\ DOMAIN p = 1 .. max
        /\ \A k \in 1 .. max : p[k] = {order[i] : i \in {j \in 1 .. n : f[j] = k}}
    BY <1>3, <2>2
  <2> HIDE DEF p, max, S
  <2>8. \A i \in 1 .. n : order[i] \in p[f[i]] /\ f[i] \in DOMAIN p
    BY <2>6, <2>7
  <2>9. UNION {p[k] : k \in DOMAIN p} = nodes
    <3>1. nodes = {order[i] : i \in 1 .. n}
      BY <1>1, <1>3 DEF ToSet
    <3>2. \A k \in DOMAIN p : p[k] \subseteq nodes
      BY <2>7, <3>1
    <3>3. \A a \in nodes : \E k \in DOMAIN p : a \in p[k]
      BY <2>8, <3>1
    <3> QED
      BY <3>2, <3>3
  <2>10. \A j, k \in DOMAIN p : j # k => p[j] \cap p[k] = {}
    BY <1>1, <1>3, <2>7 DEF Injective
  <2>11. ASSUME NEW a \in nodes, NEW b \in nodes, Feeds(a, b)
         PROVE  Place(p, a) < Place(p, b)
    <3>1. PICK i \in 1 .. n : order[i] = a
      BY <1>1, <1>3 DEF ToSet
    <3>2. PICK j \in 1 .. n : order[j] = b
      BY <1>1, <1>3 DEF ToSet
    <3>3. i < j
      BY <1>3, <2>11, <3>1, <3>2 DEF Topological
    <3>4. i \in Above(order, j)
      BY <2>11, <3>1, <3>2, <3>3 DEF Above
    <3>5. f[i] < f[j]
      BY <1>5, <3>4
    <3>6. Place(p, a) = f[i] /\ Place(p, b) = f[j]
      BY <2>8, <2>10, <3>1, <3>2, PlaceIsUnique
    <3> QED
      BY <3>5, <3>6
  <2>12. \E k \in Nat : DOMAIN p = 1 .. k
    BY <1>2, <2>4, <2>7
  <2> QED
    BY <2>9, <2>10, <2>11, <2>12 DEF Schedule, p
<1> QED
  BY <1>6, <1>7

--------------------------------------------------------------------------------

(***************************************************************************)
(* The steps of prepare() and run().                                       *)
(***************************************************************************)
\* The passes of the optimizer.
LEMMA PassesAre == ToSet(PassOrder) = Passing
<1>1. DOMAIN PassOrder = {1, 2, 3} /\ PassOrder[1] = "fold" /\ PassOrder[2] = "fuse" /\ PassOrder[3] = "eliminate"
  BY DEF PassOrder
<1> HIDE DEF PassOrder
<1> QED
  BY <1>1 DEF ToSet, Passing

\* A pass is followed by another one or by the sort.
LEMMA NextStageIs ==
  ASSUME stage \in Passing
  PROVE  NextStage(stage) \in Passing \cup {"sort"}
BY DEF Passing, NextStage

\* The search goes wrong at no step, and the plan follows from it.
LEMMA PlanInductive == PlanInv /\ [Next]_vars => PlanInv'
<1> SUFFICES ASSUME PlanInv, [Next]_vars PROVE PlanInv'
  OBVIOUS
<1> USE DEF Passing, Planned
<1>1. CASE RewriteOne
  BY <1>1, PassesAssumption DEF RewriteOne, PlanInv
<1>2. CASE FoldThrows
  BY <1>2 DEF FoldThrows, loadVars, PlanInv
<1>3. CASE PassOver
  <2>1. stage \in Passing /\ stage' \in Passing \cup {"sort"} /\ UNCHANGED loadVars
    BY <1>3, PassesAre, NextStageIs DEF PassOver
  <2>2. visited = {} /\ stack = <<>> /\ post = <<>> /\ SearchInv
    BY <2>1, SearchBegins DEF PlanInv
  <2>3. SearchInv'
    BY <2>1, <2>2 DEF SearchInv, loadVars, Nodes
  <2> QED
    BY <2>1, <2>2, <2>3 DEF PlanInv, loadVars
<1>4. CASE VisitRoot
  <2>1. stage = "sort" /\ stage' = "sort" /\ SearchInv /\ stack = <<>>
    BY <1>4 DEF VisitRoot, PlanInv
  <2>2. PICK i \in DOMAIN model.nodes : Unvisited(i) /\ stack' = <<model.nodes[i]>>
    BY <1>4 DEF VisitRoot
  <2>3. model.nodes[i] \in Nodes /\ model.nodes[i] \notin visited
    BY <2>2 DEF Unvisited, Nodes, ToSet
  <2>4. stack' = Append(stack, model.nodes[i]) /\ model.nodes[i] \notin ToSet(stack)
    BY <2>1, <2>2 DEF ToSet
  <2>5. SearchInv'
    BY <1>4, <2>1, <2>3, <2>4, SearchPushes DEF VisitRoot
  <2> QED
    BY <2>1, <2>5 DEF PlanInv
<1>5. CASE VisitChild
  <2>1. stage = "sort" /\ SearchInv
    BY <1>5 DEF VisitChild, PlanInv
  <2>2. PICK child \in Children(model, Last(stack)) \ visited :
          IF child \in ToSet(stack)
          THEN stage' = "refused" /\ UNCHANGED stack
          ELSE stack' = Append(stack, child) /\ UNCHANGED stage
    BY <1>5 DEF VisitChild
  <2>3. CASE child \in ToSet(stack)
    BY <2>2, <2>3 DEF PlanInv
  <2>4. CASE child \notin ToSet(stack)
    <3>1. child \in Nodes
      BY <2>2 DEF Children, Nodes
    <3>2. SearchInv'
      BY <1>5, <2>1, <2>2, <2>4, <3>1, SearchPushes DEF VisitChild
    <3> QED
      BY <2>1, <2>2, <2>4, <3>2 DEF PlanInv
  <2> QED
    BY <2>3, <2>4
<1>6. CASE LeaveNode
  <2>1. stage = "sort" /\ stage' = "sort" /\ SearchInv
    BY <1>6 DEF LeaveNode, PlanInv
  <2>2. SearchInv'
    BY <1>6, <2>1, SearchLeaves DEF LeaveNode
  <2> QED
    BY <2>1, <2>2 DEF PlanInv
<1>7. CASE SortDone
  <2>1. stage' = "check" /\ SearchInv /\ Nodes' = Nodes
    BY <1>7 DEF SortDone, PlanInv, Nodes
  <2>2. Topological(Order, Nodes)
    BY <1>7, <2>1, OrderIsTopological DEF SortDone
  <2>3. Schedule(plan', Nodes)
    BY <1>7, <2>2, SequentialSchedule, ParallelSchedule DEF SortDone
  <2> QED
    BY <2>1, <2>3 DEF PlanInv
<1>8. ASSUME UNCHANGED <<model, plan>>, stage \in Planned, stage' \in Planned \cup {"refused"}
      PROVE  PlanInv'
  <2>1. Schedule(plan', Nodes')
    BY <1>8 DEF PlanInv, Nodes
  <2> QED
    BY <1>8, <2>1 DEF PlanInv
<1>9. CASE Check
  BY <1>8, <1>9 DEF Check, loadVars
<1>10. CASE RunBegin
  BY <1>8, <1>10 DEF RunBegin, loadVars
<1>11. ASSUME UNCHANGED <<loadVars, stage>> PROVE PlanInv'
  BY <1>11 DEF PlanInv, SearchInv, Nodes, loadVars
<1>12. CASE \E node \in pending : NodeBegin(node)
  BY <1>11, <1>12 DEF NodeBegin
<1>13. CASE \E a \in active : NodeEnd(a)
  BY <1>11, <1>13 DEF NodeEnd
<1>14. CASE LevelDone
  BY <1>11, <1>14 DEF LevelDone
<1>15. CASE RunEnd
  BY <1>8, <1>15 DEF RunEnd, loadVars
<1>16. CASE UNCHANGED vars
  BY <1>11, <1>16 DEF vars, loadVars
<1> QED
  BY <1>1, <1>2, <1>3, <1>4, <1>5, <1>6, <1>7, <1>9, <1>10, <1>12, <1>13, <1>14, <1>15, <1>16
  DEF Next, Prepare, RunOn

(***************************************************************************)
(* The plan of a session that is ready is a schedule: every node once, and *)
(* after all it reads from, run one by one or level by level.              *)
(***************************************************************************)
THEOREM PlansAreSchedules == Spec => []PlanIsSchedule
<1>1. Init => PlanInv
  BY DEF Init, PlanInv, Passing, Planned
<1>2. PlanInv => PlanIsSchedule
  BY DEF PlanInv, Planned, PlanIsSchedule, Schedule, Place, Position, Nodes
<1> QED
  BY <1>1, <1>2, PlanInductive, PTL DEF Spec

--------------------------------------------------------------------------------

\* Nodes begin and end within their level.
LEMMA LevelInductive == LevelInv /\ [Next]_vars => LevelInv'
<1> SUFFICES ASSUME LevelInv, [Next]_vars PROVE LevelInv'
  OBVIOUS
<1>1. CASE RewriteOne
  BY <1>1, PassesAssumption DEF RewriteOne, LevelInv, runVars
<1>2. CASE FoldThrows
  BY <1>2 DEF FoldThrows, LevelInv, runVars
<1>3. CASE PassOver
  <2>1. stage \in Passing /\ stage' \in Passing \cup {"sort"}
    BY <1>3, PassesAre, NextStageIs DEF PassOver
  <2> QED
    BY <1>3, <2>1 DEF PassOver, LevelInv, runVars, Passing
<1>4. CASE VisitRoot
  BY <1>4 DEF VisitRoot, LevelInv, runVars
<1>5. CASE VisitChild
  BY <1>5 DEF VisitChild, LevelInv, runVars
<1>6. CASE LeaveNode
  BY <1>6 DEF LeaveNode, LevelInv, runVars
<1>7. CASE SortDone
  BY <1>7 DEF SortDone, LevelInv, runVars
<1>8. CASE Check
  BY <1>8 DEF Check, LevelInv
<1>9. CASE RunBegin
  <2>1. active' = {} /\ pending' = IF 1 \in DOMAIN plan THEN plan[1] ELSE {}
    BY <1>9 DEF RunBegin, StartLevel, LevelInv
  <2>2. Level' = (IF 1 \in DOMAIN plan THEN plan[1] ELSE {}) /\ stage' = "running"
    BY <1>9 DEF RunBegin, StartLevel, Level, loadVars
  <2> QED
    BY <2>1, <2>2 DEF LevelInv
<1>10. CASE \E node \in pending : NodeBegin(node)
  <2>1. PICK node \in pending : NodeBegin(node)
    BY <1>10
  <2>2. Level' = Level /\ stage' = "running" /\ stage = "running" /\ pending' = pending \ {node}
    BY <2>1 DEF NodeBegin, Level, loadVars
  <2>3. \A a \in active' : a \in active \/ a.node = node
    BY <2>1 DEF NodeBegin
  <2> QED
    BY <2>1, <2>2, <2>3 DEF LevelInv
<1>11. CASE \E a \in active : NodeEnd(a)
  <2>1. PICK a \in active : NodeEnd(a)
    BY <1>11
  <2>2. Level' = Level /\ stage' = stage /\ pending' = pending /\ active' = active \ {a}
    BY <2>1 DEF NodeEnd, Level, loadVars
  <2> QED
    BY <2>2 DEF LevelInv
<1>12. CASE LevelDone
  <2>1. /\ active' = {} /\ stage' = "running"
        /\ pending' = IF level + 1 \in DOMAIN plan THEN plan[level + 1] ELSE {}
        /\ Level' = IF level + 1 \in DOMAIN plan THEN plan[level + 1] ELSE {}
    BY <1>12 DEF LevelDone, StartLevel, Level, loadVars
  <2> QED
    BY <2>1 DEF LevelInv
<1>13. CASE RunEnd
  BY <1>13 DEF RunEnd, LevelInv
<1>14. CASE UNCHANGED vars
  BY <1>14 DEF vars, LevelInv, Level
<1> QED
  BY <1>1, <1>2, <1>3, <1>4, <1>5, <1>6, <1>7, <1>8, <1>9, <1>10, <1>11, <1>12, <1>13, <1>14
  DEF Next, Prepare, RunOn

(***************************************************************************)
(* While a node executes, no node whose output it reads executes: run()    *)
(* needs no lock on the tensors, however many threads the pool has.        *)
(***************************************************************************)
THEOREM NodesDoNotRace == Spec => []NoRace
<1>1. Init => PlanInv /\ LevelInv
  BY DEF Init, PlanInv, LevelInv, Passing, Planned
<1>2. ASSUME PlanInv, LevelInv PROVE NoRace
  <2> SUFFICES ASSUME NEW a \in active, NEW b \in active, Feeds(a.node, b.node) PROVE FALSE
    BY DEF NoRace
  <2>1. stage = "running" /\ a.node \in Level /\ b.node \in Level
    BY <1>2 DEF LevelInv
  <2>2. level \in DOMAIN plan /\ a.node \in plan[level] /\ b.node \in plan[level]
    BY <2>1 DEF Level
  <2>3. Schedule(plan, Nodes)
    BY <1>2, <2>1 DEF PlanInv, Planned
  <2>4. PICK here : here = level
    OBVIOUS
  <2>5. Place(plan, a.node) = here /\ Place(plan, b.node) = here
    BY <2>2, <2>3, <2>4, PlaceIsUnique DEF Schedule
  <2>6. Place(plan, a.node) < Place(plan, b.node) /\ here \in Nat
    BY <2>2, <2>3, <2>4 DEF Schedule
  <2> QED
    BY <2>5, <2>6
<1> QED
  BY <1>1, <1>2, PlanInductive, LevelInductive, PTL DEF Spec

--------------------------------------------------------------------------------

(***************************************************************************)
(* What a model means.                                                     *)
(***************************************************************************)
NodesOf(m) == ToSet(m.nodes)

\* SingleSource, of nodes rather than of their places.
Distinct(m) ==
  /\ Injective(m.nodes)
  /\ \A a, b \in NodesOf(m) : a.out = b.out => a = b
  /\ \A n \in NodesOf(m) : n.out \notin DOMAIN m.init /\ n.out \notin ToSet(m.inputs)
  /\ DOMAIN m.init \cap ToSet(m.inputs) = {}

\* The two ways to say that every name has one source.
LEMMA SingleSourceIs ==
  ASSUME NEW m
  PROVE  SingleSource(m) <=> Distinct(m)
<1> DEFINE sources == [i \in DOMAIN m.nodes |-> m.nodes[i].out]
<1>1. ToSet(sources) = {n.out : n \in NodesOf(m)}
  BY DEF ToSet, NodesOf
<1>2. ASSUME \A i, j \in DOMAIN m.nodes : i # j => m.nodes[i].out # m.nodes[j].out
      PROVE  Injective(m.nodes) /\ \A a, b \in NodesOf(m) : a.out = b.out => a = b
  BY <1>2 DEF Injective, NodesOf, ToSet
<1>3. ASSUME Injective(m.nodes), \A a, b \in NodesOf(m) : a.out = b.out => a = b
      PROVE  \A i, j \in DOMAIN m.nodes : i # j => m.nodes[i].out # m.nodes[j].out
  BY <1>3 DEF Injective, NodesOf, ToSet
<1>4. (\A i, j \in DOMAIN sources : i # j => sources[i] # sources[j])
        <=> \A i, j \in DOMAIN m.nodes : i # j => m.nodes[i].out # m.nodes[j].out
  OBVIOUS
<1>5. SingleSource(m) <=>
        /\ \A i, j \in DOMAIN sources : i # j => sources[i] # sources[j]
        /\ ToSet(sources) \cap (DOMAIN m.init \cup ToSet(m.inputs)) = {}
        /\ DOMAIN m.init \cap ToSet(m.inputs) = {}
  BY DEF SingleSource
<1>6. ToSet(sources) \cap (DOMAIN m.init \cup ToSet(m.inputs)) = {}
        <=> \A n \in NodesOf(m) : n.out \notin DOMAIN m.init /\ n.out \notin ToSet(m.inputs)
  BY <1>1
<1> HIDE DEF sources
<1> QED
  BY <1>2, <1>3, <1>4, <1>5, <1>6 DEF Distinct

\* What a node makes of the values of the names it reads.
Value(V, n) == Compute(n.op, [i \in DOMAIN n.ins |-> V[n.ins[i]]])

Sourced(m) == {m.inputs[1]} \cup DOMAIN m.init \cup {n.out : n \in NodesOf(m)}

\* Values of the names, right for the nodes of a set.
Valuation(m, in, V, S) ==
  /\ V = [x \in STRING |-> V[x]]
  /\ V[m.inputs[1]] = in
  /\ \A x \in DOMAIN m.init : V[x] = m.init[x]
  /\ \A n \in S : V[n.out] = Value(V, n)
  /\ \A x \in STRING \ Sourced(m) : V[x] = Unknown

\* With a node, those it reads from.
Closed(m, S) ==
  /\ S \subseteq NodesOf(m)
  /\ \A n \in S, p \in NodesOf(m) : Reads(n, p.out) => p \in S

\* Names are strings.
LEMMA NamesAre ==
  ASSUME NEW m, IsModel(m)
  PROVE  /\ m.inputs[1] \in STRING /\ m.inputs[1] \in ToSet(m.inputs)
         /\ DOMAIN m.init \subseteq STRING
         /\ \A n \in NodesOf(m) : n.out \in STRING /\ \A i \in DOMAIN n.ins : n.ins[i] \in STRING
         /\ m.nodes \in Seq(NodesOf(m))
<1>1. m.inputs \in Seq(STRING) /\ m.inputs # <<>> /\ m.nodes \in Seq(NodesOf(m))
  BY DEF IsModel, NodesOf
<1>2. 1 \in DOMAIN m.inputs /\ m.inputs[1] \in STRING
  BY <1>1, EmptySeq, LenProperties, ElementOfSeq
<1>3. ASSUME NEW n \in NodesOf(m)
      PROVE  n.out \in STRING /\ \A i \in DOMAIN n.ins : n.ins[i] \in STRING
  <2>1. n.out \in STRING /\ n.ins \in Seq(STRING)
    BY DEF IsModel, IsNode, NodesOf
  <2> QED
    BY <2>1, LenProperties, ElementOfSeq
<1>4. DOMAIN m.init \subseteq STRING
  BY DEF IsModel
<1> QED
  BY <1>1, <1>2, <1>3, <1>4 DEF ToSet

\* Where two valuations are both right they agree.
LEMMA ValuesAgree ==
  ASSUME NEW m, IsModel(m), ~ Cyclic(m), NEW in,
         NEW S, Closed(m, S), NEW V, Valuation(m, in, V, S),
         NEW T, Closed(m, T), NEW W, Valuation(m, in, W, T)
  PROVE  \A n \in S \cap T : V[n.out] = W[n.out]
<1> DEFINE Bad == {n \in S \cap T : V[n.out] # W[n.out]}
<1>1. SUFFICES ASSUME Bad # {} PROVE FALSE
  OBVIOUS
<1>2. Bad \subseteq NodesOf(m)
  BY DEF Closed
<1>3. PICK n \in Bad : \A p \in Bad : ~ Reads(n, p.out)
  <2> HIDE DEF Bad
  <2> QED
    BY <1>1, <1>2 DEF Cyclic, NodesOf
<1>4. n \in S /\ n \in T /\ n \in NodesOf(m)
  BY <1>2
<1>5. ASSUME NEW i \in DOMAIN n.ins PROVE V[n.ins[i]] = W[n.ins[i]]
  <2> DEFINE x == n.ins[i]
  <2>1. x \in STRING
    BY <1>4, NamesAre
  <2>2. CASE x = m.inputs[1] \/ x \in DOMAIN m.init
    BY <2>2 DEF Valuation
  <2>3. CASE \E p \in NodesOf(m) : x = p.out
    <3>1. PICK p \in NodesOf(m) : x = p.out
      BY <2>3
    <3>2. Reads(n, p.out)
      BY <3>1 DEF Reads, ToSet
    <3>3. p \in S /\ p \in T
      BY <1>4, <3>2 DEF Closed
    <3> QED
      BY <1>3, <3>1, <3>2, <3>3
  <2>4. CASE x \notin Sourced(m)
    BY <2>1, <2>4 DEF Valuation
  <2> QED
    BY <2>2, <2>3, <2>4 DEF Sourced
<1>6. [i \in DOMAIN n.ins |-> V[n.ins[i]]] = [i \in DOMAIN n.ins |-> W[n.ins[i]]]
  BY <1>5
<1>7. Value(V, n) = Value(W, n)
  BY <1>6 DEF Value
<1> QED
  BY <1>4, <1>7 DEF Valuation

\* The values of what a node reads decide its own.
LEMMA ValueDepends ==
  ASSUME NEW V, NEW W, NEW n, \A i \in DOMAIN n.ins : V[n.ins[i]] = W[n.ins[i]]
  PROVE  Value(V, n) = Value(W, n)
<1>1. [i \in DOMAIN n.ins |-> V[n.ins[i]]] = [i \in DOMAIN n.ins |-> W[n.ins[i]]]
  OBVIOUS
<1> QED
  BY <1>1 DEF Value

\* A model without cycles has a valuation.
LEMMA ValuationExists ==
  ASSUME NEW m, IsModel(m), Distinct(m), ~ Cyclic(m), NEW in
  PROVE  \E V : Valuation(m, in, V, NodesOf(m))
<1> DEFINE Nodes0 == NodesOf(m)
           Right(S, V) == Closed(m, S) /\ Valuation(m, in, V, S)
           All == {n \in Nodes0 : \E S \in SUBSET Nodes0 : \E V : Right(S, V) /\ n \in S}
           Known(x, v) == \E S \in SUBSET Nodes0 : \E V :
                            Right(S, V) /\ \E n \in S : n.out = x /\ V[x] = v
           V0 == [x \in STRING |->
                    IF x = m.inputs[1] THEN in
                    ELSE IF x \in DOMAIN m.init THEN m.init[x]
                    ELSE IF \E v : Known(x, v) THEN CHOOSE v : Known(x, v) ELSE Unknown]
<1>1. ASSUME NEW S \in SUBSET Nodes0, NEW V, Right(S, V), NEW n \in S
      PROVE  V0[n.out] = V[n.out]
  <2>1. Known(n.out, V[n.out])
    BY <1>1
  <2>2. ASSUME NEW v, Known(n.out, v) PROVE v = V[n.out]
    <3>1. PICK T \in SUBSET Nodes0 : \E W : Right(T, W) /\ \E k \in T : k.out = n.out /\ W[n.out] = v
      BY <2>2
    <3>2. PICK W : Right(T, W) /\ \E k \in T : k.out = n.out /\ W[n.out] = v
      BY <3>1
    <3>3. n \in T
      BY <3>2 DEF Distinct
    <3> QED
      BY <1>1, <3>2, <3>3, ValuesAgree
  <2>3. n.out \in STRING /\ n.out # m.inputs[1] /\ n.out \notin DOMAIN m.init
    BY NamesAre DEF Distinct
  <2> HIDE DEF Known, Right
  <2>4. (CHOOSE v : Known(n.out, v)) = V[n.out]
    BY <2>1, <2>2
  <2> QED
    BY <2>1, <2>3, <2>4
<1>2. ASSUME NEW S \in SUBSET Nodes0, NEW V, Right(S, V), NEW n \in S
      PROVE  V0[n.out] = Value(V0, n)
  <2>1. ASSUME NEW i \in DOMAIN n.ins PROVE V0[n.ins[i]] = V[n.ins[i]]
    <3> DEFINE x == n.ins[i]
    <3>1. x \in STRING
      BY NamesAre
    <3>2. CASE x = m.inputs[1]
      BY <1>2, <3>1, <3>2 DEF Valuation
    <3>3. CASE x # m.inputs[1] /\ x \in DOMAIN m.init
      BY <1>2, <3>1, <3>3 DEF Valuation
    <3>4. CASE \E p \in Nodes0 : x = p.out
      <4>1. PICK p \in Nodes0 : x = p.out
        BY <3>4
      <4>2. p \in S
        BY <1>2, <4>1 DEF Closed, Reads, ToSet
      <4> HIDE DEF V0, Known
      <4> QED
        BY <1>1, <1>2, <4>1, <4>2
    <3>5. CASE x \notin Sourced(m)
      <4>1. ~ \E v : Known(x, v)
        BY <3>5 DEF Sourced
      <4>2. V0[x] = Unknown
        <5>1. x # m.inputs[1] /\ x \notin DOMAIN m.init
          BY <3>5 DEF Sourced
        <5> HIDE DEF Known, Right, x
        <5> QED
          BY <3>1, <4>1, <5>1
      <4> QED
        BY <1>2, <3>1, <3>5, <4>2 DEF Valuation
    <3> QED
      BY <3>2, <3>3, <3>4, <3>5 DEF Sourced
  <2> HIDE DEF V0, Known
  <2>2. Value(V0, n) = Value(V, n)
    BY <2>1, ValueDepends
  <2>3. V[n.out] = Value(V, n)
    BY <1>2 DEF Valuation
  <2> QED
    BY <1>1, <1>2, <2>2, <2>3
<1>3. Closed(m, All)
  BY DEF Closed
<1>4. /\ V0 = [x \in STRING |-> V0[x]]
      /\ V0[m.inputs[1]] = in
      /\ \A x \in DOMAIN m.init : V0[x] = m.init[x]
  <2>1. V0 = [x \in STRING |-> V0[x]]
    OBVIOUS
  <2>2. V0[m.inputs[1]] = in
    <3>1. m.inputs[1] \in STRING
      BY NamesAre
    <3> HIDE DEF Known, Right
    <3> QED
      BY <3>1
  <2>3. ASSUME NEW x \in DOMAIN m.init PROVE V0[x] = m.init[x]
    <3>1. x \in STRING /\ x # m.inputs[1]
      BY NamesAre DEF Distinct
    <3> HIDE DEF Known, Right
    <3> QED
      BY <3>1
  <2> QED
    BY <2>1, <2>2, <2>3
<1>5. \A x \in STRING \ Sourced(m) : V0[x] = Unknown
  <2> TAKE x \in STRING \ Sourced(m)
  <2>1. ~ \E v : Known(x, v)
    BY DEF Sourced
  <2>2. x # m.inputs[1] /\ x \notin DOMAIN m.init
    BY DEF Sourced
  <2> HIDE DEF Known, Right
  <2> QED
    BY <2>1, <2>2
<1>6. ASSUME NEW n \in All PROVE V0[n.out] = Value(V0, n)
  <2>1. PICK S \in SUBSET Nodes0 : \E V : Right(S, V) /\ n \in S
    OBVIOUS
  <2>2. PICK V : Right(S, V) /\ n \in S
    BY <2>1
  <2> QED
    BY <1>2, <2>2
<1> HIDE DEF V0
<1>7. Valuation(m, in, V0, All)
  BY <1>4, <1>5, <1>6 DEF Valuation
<1>8. ASSUME Nodes0 \ All # {} PROVE FALSE
  <2> HIDE DEF All
  <2>1. PICK n \in Nodes0 \ All : \A p \in Nodes0 \ All : ~ Reads(n, p.out)
    BY <1>8 DEF Cyclic, NodesOf
  <2> DEFINE T == All \cup {n}
             W == [x \in STRING |-> IF x = n.out THEN Value(V0, n) ELSE V0[x]]
  <2>2. Closed(m, T)
    BY <1>3, <2>1 DEF Closed
  <2>3. n.out \in STRING /\ n.out # m.inputs[1] /\ n.out \notin DOMAIN m.init
    BY <2>1, NamesAre DEF Distinct
  <2>4. ASSUME NEW q \in T PROVE Value(W, q) = Value(V0, q)
    <3>1. ASSUME NEW i \in DOMAIN q.ins PROVE q.ins[i] \in STRING /\ q.ins[i] # n.out
      <4>1. q \in Nodes0
        BY <1>3, <2>1 DEF Closed
      <4>2. ~ Reads(q, n.out)
        BY <1>3, <2>1, <4>1 DEF Closed
      <4> QED
        BY <4>1, <4>2, NamesAre DEF Reads, ToSet
    <3>2. \A i \in DOMAIN q.ins : W[q.ins[i]] = V0[q.ins[i]]
      BY <3>1
    <3> HIDE DEF W
    <3> QED
      BY <3>2, ValueDepends
  <2>5. ASSUME NEW q \in T PROVE W[q.out] = Value(W, q)
    <3>1. CASE q = n
      BY <2>3, <2>4, <3>1
    <3>2. CASE q # n
      <4>1. q \in All /\ q \in Nodes0 /\ q.out \in STRING
        BY <1>3, <3>2, NamesAre DEF Closed
      <4>2. q.out # n.out
        BY <2>1, <3>2, <4>1 DEF Distinct
      <4>3. V0[q.out] = Value(V0, q)
        BY <1>7, <4>1 DEF Valuation
      <4> QED
        BY <2>4, <4>1, <4>2, <4>3
    <3> QED
      BY <3>1, <3>2
  <2>6. Valuation(m, in, W, T)
    <3>1. W = [x \in STRING |-> W[x]]
      OBVIOUS
    <3>2. W[m.inputs[1]] = in
      <4>1. m.inputs[1] \in STRING
        BY NamesAre
      <4> QED
        BY <1>4, <2>3, <4>1
    <3>3. \A x \in DOMAIN m.init : W[x] = m.init[x]
      BY <1>4, <2>3, NamesAre
    <3>4. \A x \in STRING \ Sourced(m) : W[x] = Unknown
      BY <1>5, <2>1 DEF Sourced
    <3> HIDE DEF W, T
    <3> QED
      BY <2>5, <3>1, <3>2, <3>3, <3>4 DEF Valuation
  <2>7. T \in SUBSET Nodes0 /\ n \in T
    BY <2>2 DEF Closed
  <2> HIDE DEF T, W
  <2>8. n \in All
    BY <2>1, <2>2, <2>6, <2>7 DEF All
  <2> QED
    BY <2>1, <2>8
<1>9. All = Nodes0
  BY <1>8
<1> QED
  BY <1>7, <1>9

\* The value of a name, where v has those of the others.
Evaluated(m, in, v, x) ==
  IF x = m.inputs[1] THEN in
  ELSE IF x \in DOMAIN m.init THEN m.init[x]
  ELSE IF ~ \E n \in ToSet(m.nodes) : n.out = x THEN Unknown
  ELSE Value(v, CHOOSE n \in ToSet(m.nodes) : n.out = x)

\* Valuations are the solutions of the recursion in Meaning.
LEMMA ValuationSolves ==
  ASSUME NEW m, IsModel(m), Distinct(m), NEW in, NEW V
  PROVE  Valuation(m, in, V, NodesOf(m)) <=> V = [x \in STRING |-> Evaluated(m, in, V, x)]
<1> DEFINE E(x) == Evaluated(m, in, V, x)
<1>1. E(m.inputs[1]) = in
  BY DEF Evaluated
<1>2. \A x \in DOMAIN m.init : x # m.inputs[1] /\ x \in STRING /\ E(x) = m.init[x]
  BY NamesAre DEF Evaluated, Distinct
<1>3. ASSUME NEW n \in NodesOf(m) PROVE n.out \in STRING /\ E(n.out) = Value(V, n)
  <2>1. n.out \in STRING /\ n.out # m.inputs[1] /\ n.out \notin DOMAIN m.init
    BY NamesAre DEF Distinct
  <2>2. (CHOOSE k \in NodesOf(m) : k.out = n.out) = n
    BY DEF Distinct
  <2>3. \E k \in NodesOf(m) : k.out = n.out
    OBVIOUS
  <2> QED
    BY <2>1, <2>2, <2>3 DEF Evaluated, NodesOf
<1>4. \A x \in STRING \ Sourced(m) : E(x) = Unknown
  BY DEF Evaluated, Sourced, NodesOf
<1> HIDE DEF E
<1>5. ASSUME V = [x \in STRING |-> E(x)] PROVE Valuation(m, in, V, NodesOf(m))
  <2>1. \A x \in STRING : V[x] = E(x)
    BY <1>5
  <2>2. V = [x \in STRING |-> V[x]]
    BY <1>5
  <2>3. m.inputs[1] \in STRING
    BY NamesAre
  <2> QED
    BY <1>1, <1>2, <1>3, <1>4, <2>1, <2>2, <2>3 DEF Valuation
<1>6. ASSUME Valuation(m, in, V, NodesOf(m)) PROVE V = [x \in STRING |-> E(x)]
  <2>1. ASSUME NEW x \in STRING PROVE V[x] = E(x)
    <3>1. CASE x = m.inputs[1]
      BY <1>1, <1>6, <3>1 DEF Valuation
    <3>2. CASE x \in DOMAIN m.init
      BY <1>2, <1>6, <3>2 DEF Valuation
    <3>3. CASE \E n \in NodesOf(m) : x = n.out
      BY <1>3, <1>6, <3>3 DEF Valuation
    <3>4. CASE x \notin Sourced(m)
      BY <1>4, <1>6, <3>4 DEF Valuation
    <3> QED
      BY <3>1, <3>2, <3>3, <3>4 DEF Sourced
  <2>2. V = [x \in STRING |-> V[x]]
    BY <1>6 DEF Valuation
  <2> QED
    BY <2>1, <2>2
<1> QED
  BY <1>5, <1>6 DEF E

\* Meaning is the valuation of the model.
LEMMA MeaningIs ==
  ASSUME NEW m, IsModel(m), Distinct(m), ~ Cyclic(m), NEW in,
         NEW V, Valuation(m, in, V, NodesOf(m)), NEW x \in STRING
  PROVE  Meaning(m, in, x) = V[x]
<1> DEFINE W == CHOOSE v : v = [y \in STRING |-> Evaluated(m, in, v, y)]
<1>1. Meaning(m, in, x) = W[x]
  BY DEF Meaning, Evaluated, Value
<1>2. V = [y \in STRING |-> Evaluated(m, in, V, y)]
  BY ValuationSolves
<1>3. W = [y \in STRING |-> Evaluated(m, in, W, y)]
  BY <1>2
<1> HIDE DEF W
<1>4. Valuation(m, in, W, NodesOf(m))
  BY <1>3, ValuationSolves
<1>5. Closed(m, NodesOf(m))
  BY DEF Closed
<1>6. \A n \in NodesOf(m) : V[n.out] = W[n.out]
  BY <1>4, <1>5, ValuesAgree
<1>7. V[x] = W[x]
  BY <1>4, <1>6 DEF Valuation, Sourced
<1> QED
  BY <1>1, <1>7

--------------------------------------------------------------------------------

(***************************************************************************)
(* What the rewrites of the optimizer find and leave.                      *)
(***************************************************************************)
\* The least element of a set of natural numbers.
LEMMA MinHolds ==
  ASSUME NEW S \in SUBSET Nat, S # {}
  PROVE  Min(S) \in S
BY LeastNumber DEF Min

\* A sequence of distinct elements without one of them.
LEMMA RemovedFirst ==
  ASSUME NEW S, NEW s \in Seq(S), Injective(s), NEW e \in ToSet(s)
  PROVE  /\ ToSet(RemoveFirst(s, e)) = ToSet(s) \ {e}
         /\ RemoveFirst(s, e) \in Seq(ToSet(s) \ {e})
         /\ Injective(RemoveFirst(s, e))
<1> DEFINE I == {i \in 1 .. Len(s) : s[i] = e}
           t == RemoveFirst(s, e)
<1>1. Len(s) \in Nat /\ DOMAIN s = 1 .. Len(s) /\ \A i \in 1 .. Len(s) : s[i] \in S
  BY LenProperties, ElementOfSeq
<1>2. PICK n \in Nat : n = Len(s)
  BY <1>1
<1>3. I # {} /\ I \in SUBSET Nat
  BY <1>1 DEF ToSet
<1>4. t = RemoveAt(s, Min(I))
  <2>1. \E i \in 1 .. Len(s) : s[i] = e
    BY <1>3
  <2> QED
    BY <1>3, <2>1 DEF RemoveFirst, SelectInSeq
<1>5. PICK k \in 1 .. n : k = Min(I) /\ s[k] = e
  <2>1. Min(I) \in I
    BY <1>3, MinHolds
  <2> QED
    BY <1>2, <2>1
<1> HIDE DEF I, t
<1> DEFINE a == SubSeq(s, 1, k - 1)
           b == SubSeq(s, k + 1, n)
<1>6. t = a \o b
  BY <1>2, <1>4, <1>5 DEF RemoveAt
<1>7. /\ a \in Seq(S) /\ Len(a) = k - 1
      /\ \A i \in 1 .. k - 1 : a[i] = s[i]
  <2>1. \A i \in 1 .. k - 1 : s[i] \in S
    BY <1>1, <1>2
  <2>2. 1 \in Int /\ k - 1 \in Int
    OBVIOUS
  <2> QED
    BY <2>1, <2>2, SubSeqProperties
<1>8. /\ b \in Seq(S) /\ Len(b) = n - k
      /\ \A i \in 1 .. n - k : b[i] = s[k + i]
  <2>1. \A i \in k + 1 .. n : s[i] \in S
    BY <1>1, <1>2
  <2>2. k + 1 \in Int /\ n \in Int
    OBVIOUS
  <2> QED
    BY <2>1, <2>2, SubSeqProperties
<1> HIDE DEF a, b
<1>9. /\ t \in Seq(S) /\ Len(t) = n - 1
      /\ \A i \in 1 .. n - 1 : t[i] = IF i < k THEN s[i] ELSE s[i + 1]
  <2>1. /\ t \in Seq(S) /\ Len(t) = n - 1
        /\ \A i \in 1 .. n - 1 : t[i] = IF i <= k - 1 THEN a[i] ELSE b[i - (k - 1)]
    <3>1. /\ t \in Seq(S) /\ Len(t) = Len(a) + Len(b)
          /\ \A i \in 1 .. Len(a) + Len(b) : t[i] = IF i <= Len(a) THEN a[i] ELSE b[i - Len(a)]
      BY <1>6, <1>7, <1>8, ConcatProperties
    <3>2. Len(a) + Len(b) = n - 1
      BY <1>2, <1>5, <1>7, <1>8
    <3> QED
      BY <1>7, <3>1, <3>2
  <2>2. ASSUME NEW i \in 1 .. n - 1 PROVE t[i] = IF i < k THEN s[i] ELSE s[i + 1]
    <3>1. CASE i < k
      BY <1>2, <1>5, <1>7, <2>1, <3>1
    <3>2. CASE ~ (i < k)
      <4>1. i - (k - 1) \in 1 .. n - k /\ k + (i - (k - 1)) = i + 1
        BY <1>2, <1>5, <3>2
      <4> QED
        BY <1>8, <2>1, <3>2, <4>1
    <3> QED
      BY <3>1, <3>2
  <2> QED
    BY <2>1, <2>2
<1>10. DOMAIN t = 1 .. n - 1
  BY <1>9, LenProperties
<1>11. Injective(t)
  <2> SUFFICES ASSUME NEW i \in 1 .. n - 1, NEW j \in 1 .. n - 1, t[i] = t[j]
               PROVE  i = j
    BY <1>10 DEF Injective
  <2> DEFINE x == IF i < k THEN i ELSE i + 1
             y == IF j < k THEN j ELSE j + 1
  <2>1. x \in 1 .. n /\ y \in 1 .. n /\ s[x] = t[i] /\ s[y] = t[j]
    BY <1>2, <1>5, <1>9
  <2>2. x = y
    BY <1>1, <1>2, <2>1 DEF Injective
  <2> QED
    BY <1>2, <1>5, <2>2
<1>12. ToSet(t) \subseteq ToSet(s) \ {e}
  <2> SUFFICES ASSUME NEW i \in 1 .. n - 1 PROVE t[i] \in ToSet(s) \ {e}
    BY <1>10 DEF ToSet
  <2>1. CASE i < k
    BY <1>1, <1>2, <1>5, <1>9, <2>1 DEF Injective, ToSet
  <2>2. CASE ~ (i < k)
    <3>1. i + 1 \in 1 .. n /\ i + 1 # k
      BY <2>2
    <3> QED
      BY <1>1, <1>2, <1>5, <1>9, <2>2, <3>1 DEF Injective, ToSet
  <2> QED
    BY <2>1, <2>2
<1>13. ASSUME NEW x \in ToSet(s) \ {e} PROVE x \in ToSet(t)
  <2>1. PICK i \in 1 .. n : s[i] = x /\ i # k
    BY <1>1, <1>2, <1>5 DEF ToSet
  <2>2. CASE i < k
    <3>1. i \in 1 .. n - 1 /\ t[i] = x
      BY <1>9, <2>1, <2>2
    <3> QED
      BY <1>10, <3>1 DEF ToSet
  <2>3. CASE ~ (i < k)
    <3>1. i - 1 \in 1 .. n - 1 /\ ~ (i - 1 < k)
      BY <2>1, <2>3
    <3>2. t[i - 1] = x
      BY <1>9, <2>1, <3>1
    <3> QED
      BY <1>10, <3>1, <3>2 DEF ToSet
  <2> QED
    BY <2>2, <2>3
<1>14. ToSet(t) = ToSet(s) \ {e}
  BY <1>12, <1>13
<1>15. t \in Seq(ToSet(s) \ {e})
  <2>1. n - 1 \in Nat
    BY <1>5
  <2>2. \A i \in 1 .. n - 1 : t[i] \in ToSet(s) \ {e}
    BY <1>10, <1>12 DEF ToSet
  <2>3. t \in [1 .. n - 1 -> ToSet(s) \ {e}]
    BY <1>9, <2>2, LenProperties
  <2> QED
    BY <2>1, <2>3, SeqDef
<1> QED
  BY <1>11, <1>14, <1>15 DEF t

\* A model without one of its nodes.
LEMMA RemoveNodeIs ==
  ASSUME NEW m, IsModel(m), Injective(m.nodes), NEW n \in NodesOf(m)
  PROVE  LET k == RemoveNode(m, n) IN
         /\ IsModel(k) /\ Injective(k.nodes)
         /\ NodesOf(k) = NodesOf(m) \ {n}
         /\ k.init = m.init /\ k.inputs = m.inputs /\ k.outputs = m.outputs
<1> DEFINE k == RemoveNode(m, n)
           rest == RemoveFirst(m.nodes, n)
<1>1. m \in [nodes : Seq(NodesOf(m)), init : {m.init}, inputs : Seq(STRING), outputs : Seq(STRING)]
  BY DEF IsModel, NodesOf
<1>2. k = [m EXCEPT !.nodes = rest]
  BY DEF RemoveNode
<1>3. /\ ToSet(rest) = NodesOf(m) \ {n}
      /\ rest \in Seq(NodesOf(m) \ {n})
      /\ Injective(rest)
  BY <1>1, RemovedFirst DEF NodesOf
<1> HIDE DEF k, rest
<1>4. /\ k \in [nodes : Seq(NodesOf(m) \ {n}), init : {m.init}, inputs : Seq(STRING), outputs : Seq(STRING)]
      /\ k.nodes = rest /\ k.init = m.init /\ k.inputs = m.inputs /\ k.outputs = m.outputs
  BY <1>1, <1>2, <1>3
<1>5. NodesOf(k) = NodesOf(m) \ {n}
  BY <1>3, <1>4 DEF NodesOf
<1>6. IsModel(k)
  BY <1>4, <1>5 DEF IsModel, NodesOf
<1> QED
  BY <1>3, <1>4, <1>5, <1>6 DEF k

\* The nodes that the passes take.
FoldNode(m) == First(m, LAMBDA n : Foldable(m, n))
FuseNode(m) == First(m, LAMBDA n : Fusable(m, n))
DeadNode(m) == First(m, LAMBDA n : Dead(m, n))

\* If there is a node to fold, one is found.
LEMMA FoldNodeIs ==
  ASSUME NEW m, IsModel(m), \E n \in NodesOf(m) : Foldable(m, n)
  PROVE  FoldNode(m) \in NodesOf(m) /\ Foldable(m, FoldNode(m))
<1> DEFINE I == {i \in 1 .. Len(m.nodes) : Foldable(m, m.nodes[i])}
<1>1. DOMAIN m.nodes = 1 .. Len(m.nodes) /\ Len(m.nodes) \in Nat
  BY NamesAre, LenProperties
<1>2. I \in SUBSET Nat /\ I # {}
  BY <1>1 DEF NodesOf, ToSet
<1>3. FoldNode(m) = m.nodes[Min(I)]
  BY <1>2 DEF FoldNode, First, SelectInSeq
<1>4. Min(I) \in I
  BY <1>2, MinHolds
<1> QED
  BY <1>1, <1>3, <1>4 DEF NodesOf, ToSet

\* If there is a node to fuse, one is found.
LEMMA FuseNodeIs ==
  ASSUME NEW m, IsModel(m), \E n \in NodesOf(m) : Fusable(m, n)
  PROVE  FuseNode(m) \in NodesOf(m) /\ Fusable(m, FuseNode(m))
<1> DEFINE I == {i \in 1 .. Len(m.nodes) : Fusable(m, m.nodes[i])}
<1>1. DOMAIN m.nodes = 1 .. Len(m.nodes) /\ Len(m.nodes) \in Nat
  BY NamesAre, LenProperties
<1>2. I \in SUBSET Nat /\ I # {}
  BY <1>1 DEF NodesOf, ToSet
<1>3. FuseNode(m) = m.nodes[Min(I)]
  BY <1>2 DEF FuseNode, First, SelectInSeq
<1>4. Min(I) \in I
  BY <1>2, MinHolds
<1> QED
  BY <1>1, <1>3, <1>4 DEF NodesOf, ToSet

\* If there is a dead node, one is found.
LEMMA DeadNodeIs ==
  ASSUME NEW m, IsModel(m), \E n \in NodesOf(m) : Dead(m, n)
  PROVE  DeadNode(m) \in NodesOf(m) /\ Dead(m, DeadNode(m))
<1> DEFINE I == {i \in 1 .. Len(m.nodes) : Dead(m, m.nodes[i])}
<1>1. DOMAIN m.nodes = 1 .. Len(m.nodes) /\ Len(m.nodes) \in Nat
  BY NamesAre, LenProperties
<1>2. I \in SUBSET Nat /\ I # {}
  BY <1>1 DEF NodesOf, ToSet
<1>3. DeadNode(m) = m.nodes[Min(I)]
  BY <1>2 DEF DeadNode, First, SelectInSeq
<1>4. Min(I) \in I
  BY <1>2, MinHolds
<1> QED
  BY <1>1, <1>3, <1>4 DEF NodesOf, ToSet

--------------------------------------------------------------------------------

(***************************************************************************)
(* Each rewrite keeps what the model means.                                *)
(***************************************************************************)
Good(m) == IsModel(m) /\ Distinct(m) /\ ~ Cyclic(m)

\* k is as good as m, with the same outputs and the same values for them.
Preserves(m, k) ==
  /\ Good(k)
  /\ k.inputs = m.inputs /\ k.outputs = m.outputs
  /\ \A in : \A i \in DOMAIN m.outputs : Meaning(k, in, m.outputs[i]) = Meaning(m, in, m.outputs[i])
  /\ Complete(m) => Complete(k)

\* Values of k that agree at the outputs with those of m show that.
LEMMA SameValues ==
  ASSUME NEW m, Good(m), NEW k, Good(k), k.inputs = m.inputs, k.outputs = m.outputs,
         Complete(m) => Complete(k),
         \A in : \A V : Valuation(m, in, V, NodesOf(m)) =>
           \E W : Valuation(k, in, W, NodesOf(k)) /\ \A x \in ToSet(m.outputs) : W[x] = V[x]
  PROVE  Preserves(m, k)
<1>1. ASSUME NEW in, NEW i \in DOMAIN m.outputs
      PROVE  Meaning(k, in, m.outputs[i]) = Meaning(m, in, m.outputs[i])
  <2> DEFINE x == m.outputs[i]
  <2>1. x \in STRING /\ x \in ToSet(m.outputs)
    <3>1. m.outputs \in Seq(STRING)
      BY DEF Good, IsModel
    <3> QED
      BY <3>1, LenProperties, ElementOfSeq DEF ToSet
  <2>2. PICK V : Valuation(m, in, V, NodesOf(m))
    BY ValuationExists DEF Good
  <2>3. PICK W : Valuation(k, in, W, NodesOf(k)) /\ \A y \in ToSet(m.outputs) : W[y] = V[y]
    BY <2>2
  <2> HIDE DEF x
  <2>4. Meaning(m, in, x) = V[x]
    BY <2>1, <2>2, MeaningIs DEF Good
  <2>5. Meaning(k, in, x) = W[x]
    BY <2>1, <2>3, MeaningIs DEF Good
  <2> QED
    BY <2>1, <2>3, <2>4, <2>5 DEF x
<1> QED
  BY <1>1 DEF Preserves

\* What is complete, of sets of nodes and names.
LEMMA CompleteIs ==
  ASSUME NEW m
  PROVE  Complete(m) <=> /\ \A n \in NodesOf(m) : Supports(n.op) /\ ToSet(n.ins) \subseteq Sourced(m)
                         /\ m.outputs[1] \in Sourced(m)
BY DEF Complete, Sourced, NodesOf

\* The first of the declared outputs is one of them.
LEMMA OutputsAre ==
  ASSUME NEW m, IsModel(m)
  PROVE  m.outputs[1] \in ToSet(m.outputs) /\ ToSet(m.outputs) \subseteq STRING
<1>1. m.outputs \in Seq(STRING) /\ m.outputs # <<>>
  BY DEF IsModel
<1>2. 1 \in DOMAIN m.outputs /\ \A i \in DOMAIN m.outputs : m.outputs[i] \in STRING
  BY <1>1, EmptySeq, LenProperties, ElementOfSeq
<1> QED
  BY <1>2 DEF ToSet

\* Without one of its nodes a good model is a good model.
LEMMA RemovedIsGood ==
  ASSUME NEW m, Good(m), NEW n \in NodesOf(m)
  PROVE  Good(RemoveNode(m, n))
<1> DEFINE k == RemoveNode(m, n)
<1>1. /\ IsModel(k) /\ Injective(k.nodes)
      /\ NodesOf(k) = NodesOf(m) \ {n}
      /\ k.init = m.init /\ k.inputs = m.inputs
  BY RemoveNodeIs DEF Good, Distinct
<1> HIDE DEF k
<1>2. Distinct(k)
  BY <1>1 DEF Good, Distinct
<1>3. ~ Cyclic(k)
  BY <1>1 DEF Good, Cyclic, NodesOf
<1> QED
  BY <1>1, <1>2, <1>3 DEF Good, k

\* Nobody misses a dead node.
LEMMA EliminatePreserves ==
  ASSUME NEW m, Good(m), \E n \in NodesOf(m) : Dead(m, n)
  PROVE  Preserves(m, Eliminate(m))
<1> DEFINE n == DeadNode(m)
           k == Eliminate(m)
<1>1. k = RemoveNode(m, n)
  BY DEF Eliminate, DeadNode
<1>2. n \in NodesOf(m) /\ Dead(m, n)
  BY DeadNodeIs DEF Good
<1> HIDE DEF n, k
<1>3. /\ Good(k) /\ NodesOf(k) = NodesOf(m) \ {n}
      /\ k.init = m.init /\ k.inputs = m.inputs /\ k.outputs = m.outputs
  BY <1>1, <1>2, RemoveNodeIs, RemovedIsGood DEF Good, Distinct
<1>4. n.out \notin ToSet(m.outputs) /\ \A q \in NodesOf(m) : n.out \notin ToSet(q.ins)
  BY <1>2 DEF Dead, Reads, NodesOf
<1>5. Sourced(m) = Sourced(k) \cup {n.out}
  BY <1>2, <1>3 DEF Sourced
<1>6. Complete(m) => Complete(k)
  <2> SUFFICES ASSUME Complete(m) PROVE Complete(k)
    OBVIOUS
  <2>1. \A q \in NodesOf(m) : Supports(q.op) /\ ToSet(q.ins) \subseteq Sourced(k)
    BY <1>4, <1>5, CompleteIs
  <2>2. k.outputs[1] \in Sourced(k)
    BY <1>3, <1>4, <1>5, CompleteIs, OutputsAre DEF Good
  <2> QED
    BY <1>3, <2>1, <2>2, CompleteIs
<1>7. ASSUME NEW in, NEW V, Valuation(m, in, V, NodesOf(m))
      PROVE  \E W : Valuation(k, in, W, NodesOf(k)) /\ \A x \in ToSet(m.outputs) : W[x] = V[x]
  <2> DEFINE W == [x \in STRING |-> IF x = n.out THEN Unknown ELSE V[x]]
  <2>1. W = [x \in STRING |-> W[x]]
    OBVIOUS
  <2>2. n.out # m.inputs[1] /\ n.out \notin DOMAIN m.init /\ m.inputs[1] \in STRING /\ DOMAIN m.init \subseteq STRING
    BY <1>2, NamesAre DEF Good, Distinct
  <2>3. W[m.inputs[1]] = in /\ \A x \in DOMAIN m.init : W[x] = m.init[x]
    BY <1>7, <2>2 DEF Valuation
  <2>4. ASSUME NEW q \in NodesOf(k) PROVE W[q.out] = Value(W, q)
    <3>1. q \in NodesOf(m) /\ q.out \in STRING /\ q.out # n.out
      BY <1>2, <1>3, NamesAre DEF Good, Distinct
    <3>2. ASSUME NEW i \in DOMAIN q.ins PROVE W[q.ins[i]] = V[q.ins[i]]
      <4>1. q.ins[i] # n.out /\ q.ins[i] \in STRING
        BY <1>4, <3>1, NamesAre DEF ToSet, Good
      <4> QED
        BY <4>1
    <3>3. W[q.out] = V[q.out] /\ V[q.out] = Value(V, q)
      BY <1>7, <3>1 DEF Valuation
    <3> HIDE DEF W
    <3>4. Value(W, q) = Value(V, q)
      BY <3>2, ValueDepends
    <3> QED
      BY <3>3, <3>4
  <2>5. \A x \in STRING \ Sourced(k) : W[x] = Unknown
    BY <1>5, <1>7 DEF Valuation
  <2>6. \A x \in ToSet(m.outputs) : W[x] = V[x]
    BY <1>4, OutputsAre DEF Good
  <2> HIDE DEF W
  <2>7. Valuation(k, in, W, NodesOf(k))
    BY <1>3, <2>1, <2>3, <2>4, <2>5 DEF Valuation
  <2> QED
    BY <2>6, <2>7
<1> QED
  BY <1>3, <1>6, <1>7, SameValues DEF k

\* A constant in place of the node that computes it.
LEMMA FoldPreserves ==
  ASSUME NEW m, Good(m), \E n \in NodesOf(m) : Foldable(m, n)
  PROVE  Preserves(m, Fold(m))
<1> DEFINE n == FoldNode(m)
           rest == RemoveNode(m, n)
           value == Compute(n.op, [i \in DOMAIN n.ins |-> m.init[n.ins[i]]])
           init0 == [name \in DOMAIN m.init \cup {n.out} |-> IF name = n.out THEN value ELSE m.init[name]]
           k == Fold(m)
<1>1. k = [rest EXCEPT !.init = init0]
  BY DEF Fold, FoldNode
<1>2. n \in NodesOf(m) /\ Foldable(m, n)
  BY FoldNodeIs DEF Good
<1> HIDE DEF n, k, rest
<1>3. /\ Good(rest) /\ NodesOf(rest) = NodesOf(m) \ {n}
      /\ rest.init = m.init /\ rest.inputs = m.inputs /\ rest.outputs = m.outputs
  BY <1>2, RemoveNodeIs, RemovedIsGood DEF Good, Distinct, rest
<1>4. n.out \in STRING /\ n.out # m.inputs[1] /\ n.out \notin ToSet(m.inputs) /\ n.out \notin DOMAIN m.init
  BY <1>2, NamesAre DEF Good, Distinct
<1>5. \A i \in DOMAIN n.ins : n.ins[i] \in DOMAIN m.init
  BY <1>2 DEF Foldable, ToSet
<1>6. /\ init0 = [name \in DOMAIN init0 |-> init0[name]]
      /\ DOMAIN init0 = DOMAIN m.init \cup {n.out}
      /\ init0[n.out] = value
      /\ \A x \in DOMAIN m.init : init0[x] = m.init[x]
  BY <1>4
<1> HIDE DEF init0, value
<1>7. /\ k \in [nodes : Seq(NodesOf(rest)), init : {init0}, inputs : Seq(STRING), outputs : Seq(STRING)]
      /\ k.nodes = rest.nodes /\ k.init = init0 /\ k.inputs = m.inputs /\ k.outputs = m.outputs
  <2>1. rest \in [nodes : Seq(NodesOf(rest)), init : {rest.init}, inputs : Seq(STRING), outputs : Seq(STRING)]
    BY <1>3 DEF Good, IsModel, NodesOf
  <2> QED
    BY <1>1, <1>3, <2>1
<1>8. NodesOf(k) = NodesOf(m) \ {n} /\ NodesOf(rest) = NodesOf(k)
  BY <1>3, <1>7 DEF NodesOf
<1>9. Good(k)
  <2>1. IsModel(k)
    <3>1. \A q \in NodesOf(k) : IsNode(q)
      BY <1>3, <1>8 DEF Good, IsModel, NodesOf
    <3>2. k.init = [name \in DOMAIN k.init |-> k.init[name]] /\ DOMAIN k.init \subseteq STRING
      BY <1>4, <1>6, <1>7, NamesAre DEF Good
    <3>3. k.inputs # <<>> /\ k.outputs # <<>>
      BY <1>7 DEF Good, IsModel
    <3> QED
      BY <1>7, <1>8, <3>1, <3>2, <3>3 DEF IsModel, NodesOf
  <2>2. Distinct(k)
    BY <1>2, <1>3, <1>4, <1>6, <1>7, <1>8 DEF Good, Distinct
  <2>3. ~ Cyclic(k)
    BY <1>3, <1>8 DEF Good, Cyclic, NodesOf
  <2> QED
    BY <2>1, <2>2, <2>3 DEF Good
<1>10. Sourced(k) = Sourced(m)
  BY <1>2, <1>6, <1>7, <1>8 DEF Sourced
<1>11. Complete(m) => Complete(k)
  BY <1>7, <1>8, <1>10, CompleteIs
<1>12. ASSUME NEW in, NEW V, Valuation(m, in, V, NodesOf(m))
       PROVE  \E W : Valuation(k, in, W, NodesOf(k)) /\ \A x \in ToSet(m.outputs) : W[x] = V[x]
  <2>1. V[n.out] = value
    <3>1. [i \in DOMAIN n.ins |-> V[n.ins[i]]] = [i \in DOMAIN n.ins |-> m.init[n.ins[i]]]
      BY <1>5, <1>12 DEF Valuation
    <3>2. V[n.out] = Value(V, n)
      BY <1>2, <1>12 DEF Valuation
    <3> QED
      BY <3>1, <3>2 DEF Value, value
  <2>2. \A x \in DOMAIN k.init : V[x] = k.init[x]
    BY <1>6, <1>7, <1>12, <2>1 DEF Valuation
  <2>3. Valuation(k, in, V, NodesOf(k))
    BY <1>7, <1>8, <1>10, <1>12, <2>2 DEF Valuation
  <2> QED
    BY <2>3
<1> QED
  BY <1>7, <1>9, <1>11, <1>12, SameValues DEF k

\* A set of nodes with one element.
LEMMA OnlyOne ==
  ASSUME NEW m, IsModel(m), NEW S \in SUBSET NodesOf(m), Cardinality(S) = 1
  PROVE  \E x : S = {x}
<1>1. IsFiniteSet(NodesOf(m))
  <2>1. m.nodes \in Seq(NodesOf(m)) /\ DOMAIN m.nodes = 1 .. Len(m.nodes)
    BY NamesAre, LenProperties
  <2>2. \A x \in NodesOf(m) : \E i \in 1 .. Len(m.nodes) : m.nodes[i] = x
    BY <2>1 DEF NodesOf, ToSet
  <2> QED
    BY <2>1, <2>2 DEF IsFiniteSet
<1>2. IsFiniteSet(S)
  BY <1>1, FS_Subset
<1> QED
  BY <1>2, FS_Singleton

\* A Relu and its producer, as fuseActivations finds them.
Pair(m, u, p) ==
  /\ u \in NodesOf(m) /\ p \in NodesOf(m) /\ p # u
  /\ u.op = "Relu" /\ p.op = "Gemm"
  /\ DOMAIN u.ins = {1} /\ u.ins[1] = p.out
  /\ Parents(m, u) = {p}
  /\ \A q \in NodesOf(m) \ {u} : p.out \notin ToSet(q.ins)
  /\ p.out \notin ToSet(m.outputs)

\* Such a pair is found.
LEMMA PairFound ==
  ASSUME NEW m, Good(m), \E n \in NodesOf(m) : Fusable(m, n)
  PROVE  \E p : Pair(m, FuseNode(m), p)
<1> DEFINE u == FuseNode(m)
<1>1. u \in NodesOf(m) /\ Fusable(m, u)
  BY FuseNodeIs DEF Good
<1> HIDE DEF u
<1>2. PICK p : Parents(m, u) = {p}
  <2>1. Parents(m, u) \in SUBSET NodesOf(m) /\ Cardinality(Parents(m, u)) = 1
    BY <1>1 DEF Parents, NodesOf, Fusable
  <2> QED
    BY <2>1, OnlyOne DEF Good
<1>3. p \in NodesOf(m) /\ p # u /\ Reads(u, p.out)
  BY <1>2 DEF Parents, Feeds, NodesOf
<1>4. u.op = "Relu" /\ p.op = "Gemm" /\ p.out \notin ToSet(m.outputs)
  BY <1>1, <1>2 DEF Fusable
<1>5. DOMAIN u.ins = {1} /\ u.ins[1] = p.out
  <2>1. u.ins \in Seq(STRING) /\ Len(u.ins) = 1
    BY <1>1 DEF Good, IsModel, IsNode, NodesOf, Fusable
  <2>2. DOMAIN u.ins = {1}
    BY <2>1, LenProperties
  <2> QED
    BY <1>3, <2>2 DEF Reads, ToSet
<1>6. PICK c : Children(m, p) = {c}
  <2>1. Children(m, p) \in SUBSET NodesOf(m) /\ Cardinality(Children(m, p)) = 1
    BY <1>1, <1>2 DEF Children, NodesOf, Fusable
  <2> QED
    BY <2>1, OnlyOne DEF Good
<1>7. c = u
  BY <1>1, <1>3, <1>6 DEF Children, Feeds, NodesOf
<1>8. ASSUME NEW q \in NodesOf(m) \ {u}, Reads(q, p.out) PROVE FALSE
  <2>1. CASE q = p
    <3>1. {p} \in (SUBSET NodesOf(m)) \ {{}} /\ \A n \in {p} : \E r \in {p} : Reads(n, r.out)
      BY <1>3, <1>8, <2>1
    <3> QED
      BY <3>1 DEF Good, Cyclic, NodesOf
  <2>2. CASE q # p
    <3>1. q \in Children(m, p)
      BY <1>8, <2>2 DEF Children, Feeds, NodesOf
    <3> QED
      BY <1>6, <1>7, <3>1
  <2> QED
    BY <2>1, <2>2
<1> QED
  BY <1>1, <1>2, <1>3, <1>4, <1>5, <1>8 DEF Pair, Reads, u

\* The producer, with the activation in it and its output.
WithRelu(p, u) == [p EXCEPT !.op = "GemmRelu", !.out = u.out]

\* What it is.
LEMMA WithReluIs ==
  ASSUME NEW p, IsNode(p), NEW u, IsNode(u)
  PROVE  LET f == WithRelu(p, u) IN
         IsNode(f) /\ f.op = "GemmRelu" /\ f.out = u.out /\ f.ins = p.ins
<1> DEFINE f == WithRelu(p, u)
<1>1. p \in [name : {p.name}, op : OpType, ins : Seq(STRING), out : STRING] /\ u.out \in STRING
  BY DEF IsNode
<1>2. "GemmRelu" \in OpType
  BY DEF OpType
<1>3. f = [p EXCEPT !.op = "GemmRelu", !.out = u.out]
  BY DEF WithRelu
<1> HIDE DEF f
<1>4. /\ f \in [name : {p.name}, op : OpType, ins : Seq(STRING), out : STRING]
      /\ f.name = p.name /\ f.op = "GemmRelu" /\ f.out = u.out /\ f.ins = p.ins
  BY <1>1, <1>2, <1>3
<1>5. IsNode(f)
  BY <1>4 DEF IsNode
<1> QED
  BY <1>4, <1>5 DEF f

\* The fused model.
LEMMA FusedIs ==
  ASSUME NEW m, Good(m), \E n \in NodesOf(m) : Fusable(m, n),
         NEW u, u = FuseNode(m), NEW p, Pair(m, u, p)
  PROVE  /\ Good(Fuse(m))
         /\ NodesOf(Fuse(m)) = (NodesOf(m) \ {u, p}) \cup {WithRelu(p, u)}
         /\ Fuse(m).init = m.init /\ Fuse(m).inputs = m.inputs /\ Fuse(m).outputs = m.outputs
<1> DEFINE rest == RemoveNode(m, u)
           f == WithRelu(p, u)
           fused(n) == IF n = p THEN f ELSE n
           nodes == [i \in DOMAIN rest.nodes |-> fused(rest.nodes[i])]
           k == Fuse(m)
<1>1. k = [rest EXCEPT !.nodes = nodes]
  <2>1. \A n : (IF n \in Parents(m, u) THEN [n EXCEPT !.op = "GemmRelu", !.out = u.out] ELSE n) = fused(n)
    BY DEF Pair, WithRelu
  <2>2. Fuse(m) = [RemoveNode(m, u) EXCEPT !.nodes =
                     [i \in DOMAIN RemoveNode(m, u).nodes |->
                        IF RemoveNode(m, u).nodes[i] \in Parents(m, u)
                        THEN [RemoveNode(m, u).nodes[i] EXCEPT !.op = "GemmRelu", !.out = u.out]
                        ELSE RemoveNode(m, u).nodes[i]]]
    BY DEF Fuse, FuseNode
  <2> HIDE DEF fused
  <2> QED
    BY <2>1, <2>2
<1>2. u \in NodesOf(m) /\ p \in NodesOf(m) /\ p # u /\ p \in NodesOf(m) \ {u}
  BY DEF Pair
<1>3. IsNode(u) /\ IsNode(p)
  BY <1>2 DEF Good, IsModel, NodesOf
<1>4. IsNode(f) /\ f.op = "GemmRelu" /\ f.out = u.out /\ f.ins = p.ins
  BY <1>3, WithReluIs
<1>5. /\ Good(rest) /\ NodesOf(rest) = NodesOf(m) \ {u}
      /\ rest.init = m.init /\ rest.inputs = m.inputs /\ rest.outputs = m.outputs
  BY <1>2, RemoveNodeIs, RemovedIsGood DEF Good, Distinct
<1> HIDE DEF k, rest, f
<1>6. \A n \in NodesOf(m) : n.out = u.out => n = u
  BY <1>2 DEF Good, Distinct
<1>7. ToSet(nodes) = (NodesOf(m) \ {u, p}) \cup {f}
  <2>1. NodesOf(rest) = {rest.nodes[i] : i \in DOMAIN rest.nodes}
    BY DEF NodesOf, ToSet
  <2>2. ToSet(nodes) = {fused(rest.nodes[i]) : i \in DOMAIN rest.nodes}
    BY DEF ToSet
  <2>3. ToSet(nodes) = {fused(n) : n \in NodesOf(rest)}
    BY <2>1, <2>2
  <2> HIDE DEF nodes
  <2> QED
    BY <1>2, <1>5, <2>3
<1>8. Injective(nodes)
  <2> SUFFICES ASSUME NEW i \in DOMAIN rest.nodes, NEW j \in DOMAIN rest.nodes,
                      fused(rest.nodes[i]) = fused(rest.nodes[j])
               PROVE  i = j
    BY DEF Injective
  <2>1. rest.nodes[i] \in NodesOf(m) \ {u} /\ rest.nodes[j] \in NodesOf(m) \ {u}
    BY <1>5 DEF NodesOf, ToSet
  <2>2. rest.nodes[i] = rest.nodes[j]
    BY <1>4, <1>6, <2>1
  <2> QED
    BY <1>5, <2>2 DEF Good, Distinct, Injective
<1>9. nodes \in Seq(ToSet(nodes))
  <2>1. rest.nodes \in Seq(NodesOf(rest))
    BY <1>5, NamesAre DEF Good
  <2>2. DOMAIN rest.nodes = 1 .. Len(rest.nodes) /\ Len(rest.nodes) \in Nat
    BY <2>1, LenProperties
  <2>3. nodes \in [1 .. Len(rest.nodes) -> ToSet(nodes)]
    BY <2>2 DEF ToSet
  <2> QED
    BY <2>2, <2>3, SeqDef
<1> HIDE DEF nodes
<1>10. /\ k \in [nodes : Seq(ToSet(nodes)), init : {m.init}, inputs : Seq(STRING), outputs : Seq(STRING)]
       /\ k.nodes = nodes /\ k.init = m.init /\ k.inputs = m.inputs /\ k.outputs = m.outputs
  <2>1. rest \in [nodes : Seq(ToSet(rest.nodes)), init : {m.init}, inputs : Seq(STRING), outputs : Seq(STRING)]
    BY <1>5 DEF Good, IsModel
  <2> QED
    BY <1>1, <1>5, <1>9, <2>1
<1>11. NodesOf(k) = (NodesOf(m) \ {u, p}) \cup {f}
  BY <1>7, <1>10 DEF NodesOf
<1>12. IsModel(k)
  <2>1. \A q \in NodesOf(k) : IsNode(q)
    BY <1>4, <1>11 DEF Good, IsModel, NodesOf
  <2> QED
    BY <1>10, <2>1 DEF Good, IsModel, NodesOf
<1>13. Distinct(k)
  <2>1. \A a, b \in NodesOf(k) : a.out = b.out => a = b
    BY <1>4, <1>6, <1>11 DEF Good, Distinct
  <2>2. \A n \in NodesOf(k) : n.out \notin DOMAIN k.init /\ n.out \notin ToSet(k.inputs)
    BY <1>2, <1>4, <1>10, <1>11 DEF Good, Distinct
  <2> QED
    BY <1>8, <1>10, <2>1, <2>2 DEF Good, Distinct
<1>14. ~ Cyclic(k)
  <2> SUFFICES ASSUME NEW loop \in (SUBSET NodesOf(k)) \ {{}},
                      \A n \in loop : \E q \in loop : Reads(n, q.out)
               PROVE  FALSE
    BY DEF Cyclic, NodesOf
  <2> DEFINE whole == (loop \ {f}) \cup (IF f \in loop THEN {u, p} ELSE {})
  <2>1. whole \in (SUBSET NodesOf(m)) \ {{}}
    BY <1>2, <1>11
  <2>2. \A q \in loop : \E r \in whole : r.out = q.out
    BY <1>4
  <2>3. \A n \in loop : \E r \in whole : Reads(n, r.out)
    BY <2>2
  <2>4. \A n \in whole : \E r \in whole : Reads(n, r.out)
    <3> TAKE n \in whole
    <3>1. CASE n \in loop
      BY <2>3, <3>1
    <3>2. CASE n = p /\ f \in loop
      <4>1. PICK r \in whole : Reads(f, r.out)
        BY <2>3, <3>2
      <4>2. Reads(p, r.out)
        BY <1>4, <4>1 DEF Reads
      <4> QED
        BY <3>2, <4>2
    <3>3. CASE n = u /\ f \in loop
      <4>1. Reads(u, p.out) /\ p \in whole
        BY <3>3 DEF Pair, Reads, ToSet
      <4> QED
        BY <3>3, <4>1
    <3> QED
      BY <3>1, <3>2, <3>3
  <2> HIDE DEF whole
  <2> QED
    BY <2>1, <2>4 DEF Good, Cyclic, NodesOf
<1> QED
  BY <1>10, <1>11, <1>12, <1>13, <1>14 DEF Good, k, f

\* The pair computes in one step what it computed in two.
LEMMA FusePreserves ==
  ASSUME NEW m, Good(m), \E n \in NodesOf(m) : Fusable(m, n)
  PROVE  Preserves(m, Fuse(m))
<1>1. PICK u : u = FuseNode(m)
  OBVIOUS
<1>2. PICK p : Pair(m, u, p)
  BY <1>1, PairFound
<1> DEFINE k == Fuse(m)
           f == WithRelu(p, u)
<1>3. /\ Good(k)
      /\ NodesOf(k) = (NodesOf(m) \ {u, p}) \cup {f}
      /\ k.init = m.init /\ k.inputs = m.inputs /\ k.outputs = m.outputs
  BY <1>1, <1>2, FusedIs
<1>4. u \in NodesOf(m) /\ p \in NodesOf(m) /\ p # u /\ IsNode(u) /\ IsNode(p)
  BY <1>2 DEF Pair, Good, IsModel, NodesOf
<1>5. f.op = "GemmRelu" /\ f.out = u.out /\ f.ins = p.ins
  BY <1>4, WithReluIs
<1> HIDE DEF k, f
<1>6. u.out # p.out /\ p.out \in STRING /\ u.out \in STRING
  BY <1>4, NamesAre DEF Good, Distinct
<1>7. \A q \in NodesOf(m) \ {u} : p.out \notin ToSet(q.ins)
  BY <1>2 DEF Pair
<1>8. \A q \in NodesOf(k) : p.out \notin ToSet(q.ins)
  BY <1>3, <1>4, <1>5, <1>7
<1>9. Sourced(m) = Sourced(k) \cup {p.out}
  BY <1>3, <1>4, <1>5 DEF Sourced
<1>10. Complete(m) => Complete(k)
  <2> SUFFICES ASSUME Complete(m) PROVE Complete(k)
    OBVIOUS
  <2>1. \A q \in NodesOf(m) : Supports(q.op) /\ ToSet(q.ins) \subseteq Sourced(m)
    BY CompleteIs
  <2>2. Supports("GemmRelu")
    BY DEF Supports, OpType
  <2>3. \A q \in NodesOf(k) : Supports(q.op) /\ ToSet(q.ins) \subseteq Sourced(m)
    BY <1>3, <1>4, <1>5, <2>1, <2>2
  <2>4. k.outputs[1] \in Sourced(k)
    <3>1. m.outputs[1] \in Sourced(m)
      BY CompleteIs
    <3>2. m.outputs[1] # p.out
      BY <1>2, OutputsAre DEF Good, Pair
    <3> QED
      BY <1>3, <1>9, <3>1, <3>2
  <2> QED
    BY <1>8, <1>9, <2>3, <2>4, CompleteIs
<1>11. ASSUME NEW in, NEW V, Valuation(m, in, V, NodesOf(m))
       PROVE  \E W : Valuation(k, in, W, NodesOf(k)) /\ \A x \in ToSet(m.outputs) : W[x] = V[x]
  <2> DEFINE W == [x \in STRING |-> IF x = p.out THEN Unknown ELSE V[x]]
  <2>1. W = [x \in STRING |-> W[x]]
    OBVIOUS
  <2>2. p.out # m.inputs[1] /\ p.out \notin DOMAIN m.init /\ m.inputs[1] \in STRING /\ DOMAIN m.init \subseteq STRING
    BY <1>4, NamesAre DEF Good, Distinct
  <2>3. W[m.inputs[1]] = in /\ \A x \in DOMAIN m.init : W[x] = m.init[x]
    BY <1>11, <2>2 DEF Valuation
  <2>4. ASSUME NEW q \in NodesOf(k), NEW i \in DOMAIN q.ins PROVE W[q.ins[i]] = V[q.ins[i]]
    <3>1. q.ins[i] # p.out /\ q.ins[i] \in STRING
      BY <1>3, <1>8, NamesAre DEF ToSet, Good
    <3> QED
      BY <3>1
  <2>5. W[u.out] = V[u.out] /\ \A q \in NodesOf(m) \ {p} : W[q.out] = V[q.out]
    <3>1. \A q \in NodesOf(m) \ {p} : q.out \in STRING /\ q.out # p.out
      BY <1>4, NamesAre DEF Good, Distinct
    <3> QED
      BY <1>4, <3>1
  <2>6. \A x \in STRING \ Sourced(k) : W[x] = Unknown
    BY <1>9, <1>11 DEF Valuation
  <2>7. \A x \in ToSet(m.outputs) : W[x] = V[x]
    BY <1>2, OutputsAre DEF Good, Pair
  <2> HIDE DEF W
  <2>8. Value(W, f) = V[u.out]
    <3> DEFINE args == [i \in DOMAIN p.ins |-> V[p.ins[i]]]
               one == [i \in DOMAIN u.ins |-> V[u.ins[i]]]
    <3>1. [i \in DOMAIN f.ins |-> W[f.ins[i]]] = args
      BY <1>3, <1>5, <2>4
    <3>2. Value(W, f) = Compute("GemmRelu", args)
      BY <1>5, <3>1 DEF Value
    <3>3. V[p.out] = Compute("Gemm", args)
      <4>1. V[p.out] = Value(V, p) /\ p.op = "Gemm"
        BY <1>2, <1>4, <1>11 DEF Valuation, Pair
      <4> QED
        BY <4>1 DEF Value
    <3>4. V[u.out] = Compute("Relu", one) /\ one[1] = V[p.out]
      <4>1. V[u.out] = Value(V, u) /\ u.op = "Relu" /\ DOMAIN u.ins = {1} /\ u.ins[1] = p.out
        BY <1>2, <1>4, <1>11 DEF Valuation, Pair
      <4> QED
        BY <4>1 DEF Value
    <3> HIDE DEF args, one
    <3>5. Compute("GemmRelu", args) = Term("Relu", <<Term("Gemm", args)>>)
      BY DEF Compute
    <3>6. Compute("Gemm", args) = Term("Gemm", args)
      BY DEF Compute
    <3>7. Compute("Relu", one) = Term("Relu", <<one[1]>>)
      BY DEF Compute
    <3> QED
      BY <3>2, <3>3, <3>4, <3>5, <3>6, <3>7
  <2>9. ASSUME NEW q \in NodesOf(k) PROVE W[q.out] = Value(W, q)
    <3>1. CASE q = f
      BY <1>5, <2>5, <2>8, <3>1
    <3>2. CASE q # f
      <4>1. q \in NodesOf(m) \ {p}
        BY <1>3, <3>2
      <4>2. Value(W, q) = Value(V, q)
        BY <2>4, ValueDepends
      <4> QED
        BY <1>11, <2>5, <4>1, <4>2 DEF Valuation
    <3> QED
      BY <3>1, <3>2
  <2>10. Valuation(k, in, W, NodesOf(k))
    BY <1>3, <2>1, <2>3, <2>6, <2>9 DEF Valuation
  <2> QED
    BY <2>7, <2>10
<1> QED
  BY <1>3, <1>10, <1>11, SameValues DEF k

\* Whatever rewrite a pass applies.
LEMMA RewritePreserves ==
  ASSUME NEW m, Good(m), NEW pass \in Passing, Applies(m, pass)
  PROVE  Preserves(m, Rewrite(m, pass))
<1>1. CASE pass = "fold"
  <2>1. (\E n \in NodesOf(m) : Foldable(m, n)) /\ Rewrite(m, pass) = Fold(m)
    BY <1>1 DEF Applies, Rewrite, NodesOf
  <2> QED
    BY <2>1, FoldPreserves
<1>2. CASE pass = "fuse"
  <2>1. (\E n \in NodesOf(m) : Fusable(m, n)) /\ Rewrite(m, pass) = Fuse(m)
    BY <1>2 DEF Applies, Rewrite, NodesOf
  <2> QED
    BY <2>1, FusePreserves
<1>3. CASE pass = "eliminate"
  <2>1. (\E n \in NodesOf(m) : Dead(m, n)) /\ Rewrite(m, pass) = Eliminate(m)
    BY <1>3 DEF Applies, Rewrite, NodesOf
  <2> QED
    BY <2>1, EliminatePreserves
<1> QED
  BY <1>1, <1>2, <1>3 DEF Passing

--------------------------------------------------------------------------------

\* The model that is run is as good as the one that was loaded.
ModelInv ==
  /\ IsModel(loaded)
  /\ Sound(loaded) => Preserves(loaded, model)

\* Sound, in the words of the lemmas.
LEMMA SoundIs ==
  ASSUME NEW m, IsModel(m)
  PROVE  Sound(m) <=> Good(m)
BY SingleSourceIs DEF Sound, Good

\* One rewrite after another.
LEMMA PreservesTrans ==
  ASSUME NEW m, NEW k, NEW j, Preserves(m, k), Preserves(k, j)
  PROVE  Preserves(m, j)
BY DEF Preserves

\* The optimizer keeps ModelInv, and nothing else changes the model.
LEMMA ModelInductive == ModelInv /\ [Next]_vars => ModelInv'
<1> SUFFICES ASSUME ModelInv, [Next]_vars PROVE ModelInv'
  OBVIOUS
<1>1. ASSUME UNCHANGED <<loaded, model>> PROVE ModelInv'
  BY <1>1 DEF ModelInv
<1>2. CASE RewriteOne
  <2>1. stage \in Passing /\ Applies(model, stage) /\ model' = Rewrite(model, stage) /\ loaded' = loaded
    BY <1>2, PassesAssumption DEF RewriteOne, Passing
  <2>2. ASSUME Sound(loaded) PROVE Preserves(loaded, model')
    <3>1. Preserves(loaded, model) /\ Good(model)
      BY <2>2 DEF ModelInv, Preserves
    <3>2. Preserves(model, model')
      BY <2>1, <3>1, RewritePreserves
    <3> QED
      BY <3>1, <3>2, PreservesTrans
  <2> QED
    BY <2>1, <2>2 DEF ModelInv
<1>3. CASE ~ RewriteOne
  <2>1. UNCHANGED <<loaded, model>>
    BY <1>3 DEF Next, Prepare, RunOn, FoldThrows, PassOver, VisitRoot, VisitChild, LeaveNode, SortDone,
      Check, RunBegin, NodeBegin, NodeEnd, LevelDone, RunEnd, loadVars, vars
  <2> QED
    BY <1>1, <2>1
<1> QED
  BY <1>2, <1>3

\* A model that is loaded preserves itself.
LEMMA ModelInitially == Init => ModelInv
<1> SUFFICES ASSUME Init PROVE ModelInv
  OBVIOUS
<1>1. IsModel(loaded) /\ model = loaded
  BY ModelsAssumption DEF Init
<1>2. Sound(loaded) => Preserves(loaded, model)
  BY <1>1, SoundIs DEF Preserves
<1> QED
  BY <1>1, <1>2 DEF ModelInv

(***************************************************************************)
(* The optimizer: a sound model stays sound and keeps the meaning of all   *)
(* its outputs, for every model, every set of passes and every order of    *)
(* the nodes.                                                              *)
(***************************************************************************)
THEOREM OptimizationIsSound == Spec => []OptimizerPreserves
<1>1. ModelInv => OptimizerPreserves
  <2> SUFFICES ASSUME ModelInv, Sound(loaded) PROVE OptimizerPreserves
    BY DEF OptimizerPreserves
  <2>1. Preserves(loaded, model)
    BY DEF ModelInv
  <2>2. Sound(model)
    BY <2>1, SoundIs DEF Preserves, Good
  <2> QED
    BY <2>1, <2>2 DEF OptimizerPreserves, Preserves
<1> QED
  BY <1>1, ModelInitially, ModelInductive, PTL DEF Spec

--------------------------------------------------------------------------------

(***************************************************************************)
(* What prepare() refuses.                                                 *)
(***************************************************************************)
\* Every node on the stack was reached from the one below it.
Path(s) == \A i \in 1 .. Len(s) - 1 : Feeds(s[i], s[i + 1])

PathInv == stage = "sort" => Path(stack)

\* A child of the top extends the path.
LEMMA PathGrows ==
  ASSUME NEW S, NEW s \in Seq(S), s # <<>>, Path(s), NEW e \in S, Feeds(Last(s), e)
  PROVE  Path(Append(s, e))
<1>1. PICK n \in Nat \ {0} : n = Len(s)
  BY LenProperties, EmptySeq
<1>2. /\ Len(Append(s, e)) = n + 1
      /\ \A i \in 1 .. n : Append(s, e)[i] = s[i]
      /\ Append(s, e)[n + 1] = e
  BY <1>1, AppendProperties
<1>3. Last(s) = s[n]
  BY <1>1 DEF Last
<1>4. ASSUME NEW i \in 1 .. n PROVE Feeds(Append(s, e)[i], Append(s, e)[i + 1])
  <2>1. CASE i = n
    BY <1>2, <1>3, <2>1
  <2>2. CASE i # n
    <3>1. i \in 1 .. n - 1 /\ i + 1 \in 1 .. n
      BY <2>2
    <3> QED
      BY <1>1, <1>2, <3>1 DEF Path
  <2> QED
    BY <2>1, <2>2
<1> QED
  BY <1>2, <1>4 DEF Path

\* Without its top it still is one.
LEMMA PathShrinks ==
  ASSUME NEW S, NEW s \in Seq(S), s # <<>>, Path(s)
  PROVE  Path(Front(s))
<1>1. PICK n \in Nat \ {0} : n = Len(s)
  BY LenProperties, EmptySeq
<1>2. Len(Front(s)) = n - 1 /\ \A i \in 1 .. n - 1 : Front(s)[i] = s[i]
  <2>1. Front(s) = SubSeq(s, 1, n - 1)
    BY <1>1 DEF Front
  <2>2. \A i \in 1 .. n - 1 : s[i] \in S
    BY <1>1, ElementOfSeq
  <2> HIDE DEF Front
  <2> QED
    BY <1>1, <2>1, <2>2, SubSeqProperties
<1> QED
  BY <1>1, <1>2 DEF Path

\* A path that leads back to itself is a cycle.
LEMMA PathCloses ==
  ASSUME NEW m, NEW s \in Seq(NodesOf(m)), s # <<>>, Path(s),
         NEW child \in ToSet(s), Feeds(Last(s), child)
  PROVE  Cyclic(m)
<1>1. PICK n \in Nat \ {0} : n = Len(s)
  BY LenProperties, EmptySeq
<1>2. DOMAIN s = 1 .. n /\ \A i \in 1 .. n : s[i] \in NodesOf(m)
  BY <1>1, LenProperties, ElementOfSeq
<1>3. PICK k \in 1 .. n : s[k] = child
  BY <1>2 DEF ToSet
<1> DEFINE loop == {s[i] : i \in k .. n}
<1>4. Reads(child, s[n].out)
  BY <1>1 DEF Last, Feeds
<1>5. ASSUME NEW i \in k .. n PROVE \E p \in loop : Reads(s[i], p.out)
  <2>1. CASE i = k
    <3>1. n \in k .. n
      BY <1>3
    <3> QED
      BY <1>3, <1>4, <2>1, <3>1
  <2>2. CASE i # k
    <3>1. i - 1 \in 1 .. n - 1 /\ i - 1 \in k .. n /\ (i - 1) + 1 = i
      BY <1>3, <2>2
    <3>2. Feeds(s[i - 1], s[i])
      BY <1>1, <3>1 DEF Path
    <3> QED
      BY <3>1, <3>2 DEF Feeds
  <2> QED
    BY <2>1, <2>2
<1>6. loop \in SUBSET NodesOf(m) /\ loop # {}
  <2>1. k \in k .. n /\ \A i \in k .. n : i \in 1 .. n
    BY <1>3
  <2> QED
    BY <1>2, <2>1
<1>7. \A q \in loop : \E p \in loop : Reads(q, p.out)
  BY <1>5
<1> HIDE DEF loop
<1> QED
  BY <1>6, <1>7 DEF Cyclic, NodesOf

\* The stack stays a path.
LEMMA PathInductive == PlanInv /\ PathInv /\ [Next]_vars => PathInv'
<1> SUFFICES ASSUME PlanInv, PathInv, [Next]_vars, stage' = "sort" PROVE Path(stack)'
  BY DEF PathInv
<1>1. CASE stage = "sort" /\ UNCHANGED stack
  BY <1>1 DEF PathInv, Path
<1>2. CASE stage \in Passing
  <2>1. UNCHANGED stack /\ stack = <<>>
    BY <1>2 DEF PlanInv, Passing, Next, Prepare, RunOn, RewriteOne, FoldThrows, PassOver, VisitRoot, VisitChild,
      LeaveNode, SortDone, Check, RunBegin, NodeBegin, NodeEnd, LevelDone, RunEnd, loadVars, vars
  <2>2. Len(stack') = 0
    BY <2>1
  <2> QED
    BY <2>2 DEF Path
<1>3. CASE VisitRoot
  <2>1. Len(stack') = 1
    BY <1>3 DEF VisitRoot
  <2> QED
    BY <2>1 DEF Path
<1>4. CASE VisitChild
  <2>1. stage = "sort" /\ stack # <<>> /\ stack \in Seq(Nodes) /\ Path(stack)
    BY <1>4 DEF VisitChild, PlanInv, SearchInv, PathInv
  <2>2. PICK child \in Children(model, Last(stack)) :
          stack' = stack \/ stack' = Append(stack, child)
    BY <1>4 DEF VisitChild
  <2>3. child \in Nodes /\ Feeds(Last(stack), child)
    BY <2>2 DEF Children, Nodes
  <2> QED
    BY <1>1, <2>1, <2>2, <2>3, PathGrows
<1>5. CASE LeaveNode
  <2>1. stack # <<>> /\ stack \in Seq(Nodes) /\ Path(stack) /\ stack' = Front(stack)
    BY <1>5 DEF LeaveNode, PlanInv, SearchInv, PathInv
  <2> QED
    BY <2>1, PathShrinks
<1>6. CASE PassOver
  BY <1>2, <1>6, PassesAre DEF PassOver
<1>7. CASE RewriteOne
  BY <1>2, <1>7, PassesAssumption DEF RewriteOne, Passing
<1>8. CASE \E node \in pending : NodeBegin(node)
  BY <1>8 DEF NodeBegin
<1>9. CASE \E a \in active : NodeEnd(a)
  BY <1>1, <1>9 DEF NodeEnd, loadVars
<1>10. CASE UNCHANGED vars
  BY <1>1, <1>10 DEF vars
<1> QED
  BY <1>3, <1>4, <1>5, <1>6, <1>7, <1>8, <1>9, <1>10
  DEF Next, Prepare, RunOn, FoldThrows, SortDone, Check, RunBegin, LevelDone, RunEnd

(***************************************************************************)
(* prepare() refuses a model that is sound, complete and of known ops only *)
(* when the kernel of a node it folds throws: the optimizer leaves no name *)
(* without a source, and the search takes for a cycle nothing but a cycle. *)
(***************************************************************************)
THEOREM SoundModelsAreAccepted == Spec => AcceptsSound
<1>1. Init => PlanInv /\ LevelInv /\ PathInv /\ ModelInv
  BY ModelInitially DEF Init, PlanInv, LevelInv, PathInv, Passing, Planned
<1>2. ASSUME PlanInv, LevelInv, PathInv, ModelInv, [Next]_vars
      PROVE  [AcceptsSoundStep]_vars
  <2> SUFFICES ASSUME Next, Sound(loaded), Complete(loaded), stage # "fold", stage' = "refused"
               PROVE  FALSE
    BY <1>2 DEF AcceptsSoundStep
  <2>1. Good(model) /\ Complete(model)
    BY <1>2 DEF ModelInv, Preserves
  <2>2. CASE VisitChild
    <3>1. stack # <<>> /\ stack \in Seq(NodesOf(model)) /\ Path(stack)
      BY <1>2, <2>2 DEF VisitChild, PlanInv, SearchInv, PathInv, Nodes, NodesOf
    <3>2. PICK child \in Children(model, Last(stack)) : child \in ToSet(stack)
      BY <2>2 DEF VisitChild
    <3>3. Feeds(Last(stack), child)
      BY <3>2 DEF Children
    <3> QED
      BY <2>1, <3>1, <3>2, <3>3, PathCloses DEF Good
  <2>3. CASE Check
    <3>1. ~ Runnable
      BY <2>3 DEF Check
    <3> QED
      BY <2>1, <3>1 DEF Runnable, Complete, Slots, Outs
  <2>4. CASE \E a \in active : NodeEnd(a)
    BY <1>2, <2>4 DEF NodeEnd, LevelInv
  <2>5. CASE RewriteOne
    BY <2>5, PassesAssumption DEF RewriteOne
  <2>6. CASE PassOver
    BY <2>6, PassesAre, NextStageIs DEF PassOver, Passing
  <2> QED
    BY <2>2, <2>3, <2>4, <2>5, <2>6
    DEF Next, Prepare, RunOn, FoldThrows, VisitRoot, LeaveNode, SortDone, RunBegin, NodeBegin, LevelDone, RunEnd
<1> QED
  BY <1>1, <1>2, PlanInductive, LevelInductive, PathInductive, ModelInductive, PTL DEF Spec, AcceptsSound

--------------------------------------------------------------------------------

(***************************************************************************)
(* What run() computes.                                                    *)
(***************************************************************************)
Preparing == Passing \cup {"sort", "check"}
Doing == {a.node : a \in active}

\* The store has a slot for every name, and keeps the initializers.
StoreInv ==
  stage \in {"ready", "running"} /\ Good(model) =>
    /\ Runnable
    /\ DOMAIN tensors = Slots
    /\ \A s \in DOMAIN model.init : tensors[s] = model.init[s]

\* What the levels before this one wrote, what the nodes of this one that
\* ended wrote, and what those that execute have read, is what it should be.
RightSoFar(V) ==
  /\ \A k \in DOMAIN plan : k < level => \A n \in plan[k] : tensors[n.out] = V[n.out]
  /\ \A n \in Level : n \in pending \cup Doing \/ threw \/ tensors[n.out] = V[n.out]
  /\ \A a \in active : a.args = [i \in DOMAIN a.node.ins |-> V[a.node.ins[i]]]

ProgressInv ==
  stage = "running" /\ Good(model) =>
    /\ level \in Nat \ {0}
    /\ tensors[model.inputs[1]] = input
    /\ \A V : Valuation(model, input, V, NodesOf(model)) => RightSoFar(V)

LastInv ==
  /\ stage \in Preparing => last = "none"
  /\ RunIsRight

\* A slot has its value if the node that writes it, if any, has written it.
LEMMA SlotIsRight ==
  ASSUME Good(model), StoreInv, ProgressInv, stage = "running",
         NEW V, Valuation(model, input, V, NodesOf(model)),
         NEW x \in Slots, \A p \in NodesOf(model) : p.out = x => tensors[p.out] = V[p.out]
  PROVE  tensors[x] = V[x]
<1>1. CASE x \in DOMAIN model.init
  BY <1>1 DEF StoreInv, Valuation
<1>2. CASE x = model.inputs[1]
  BY <1>2 DEF ProgressInv, Valuation
<1>3. CASE \E p \in NodesOf(model) : p.out = x
  BY <1>3
<1> QED
  BY <1>1, <1>2, <1>3 DEF Slots, Outs, NodesOf

\* A node of the level finds the right values in the slots it reads.
LEMMA InputsAreRight ==
  ASSUME Good(model), PlanInv, StoreInv, ProgressInv, stage = "running",
         NEW V, Valuation(model, input, V, NodesOf(model)),
         NEW node \in Level, NEW i \in DOMAIN node.ins
  PROVE  tensors[node.ins[i]] = V[node.ins[i]]
<1>1. Schedule(plan, Nodes) /\ Nodes = NodesOf(model)
  BY DEF PlanInv, Planned, Nodes, NodesOf
<1>2. level \in DOMAIN plan /\ node \in plan[level] /\ node \in Nodes
  BY <1>1 DEF Level, Schedule
<1>3. node.ins[i] \in Slots /\ node.ins[i] \in ToSet(node.ins)
  BY <1>2 DEF StoreInv, Runnable, Nodes, ToSet
<1>4. ASSUME NEW p \in NodesOf(model), p.out = node.ins[i] PROVE tensors[p.out] = V[p.out]
  <2>1. Reads(node, p.out)
    BY <1>3, <1>4 DEF Reads
  <2>2. p # node
    <3>1. ASSUME p = node PROVE Cyclic(model)
      <4> DEFINE loop == {node}
      <4>1. loop \in (SUBSET NodesOf(model)) \ {{}} /\ \A n \in loop : \E q \in loop : Reads(n, q.out)
        BY <1>1, <1>2, <2>1, <3>1
      <4> QED
        BY <4>1 DEF Cyclic, NodesOf
    <3> QED
      BY <3>1 DEF Good
  <2>3. Place(plan, p) < Place(plan, node)
    BY <1>1, <1>2, <2>1, <2>2 DEF Schedule, Feeds
  <2>4. PICK k \in DOMAIN plan : p \in plan[k]
    BY <1>1 DEF Schedule
  <2>5. PICK here : here = level
    OBVIOUS
  <2>6. Place(plan, p) = k /\ Place(plan, node) = here
    BY <1>1, <1>2, <2>4, <2>5, PlaceIsUnique DEF Schedule
  <2>7. k < level
    BY <2>3, <2>5, <2>6
  <2> QED
    BY <2>4, <2>7 DEF ProgressInv, RightSoFar
<1> QED
  BY <1>3, <1>4, SlotIsRight

\* Nothing but prepare() and run() changes the store.
LEMMA StoreInductive == PlanInv /\ LevelInv /\ StoreInv /\ [Next]_vars => StoreInv'
<1> SUFFICES ASSUME PlanInv, LevelInv, StoreInv, [Next]_vars,
                    stage' \in {"ready", "running"}, Good(model')
             PROVE  /\ Runnable'
                    /\ DOMAIN tensors' = Slots'
                    /\ \A s \in DOMAIN model'.init : tensors'[s] = model'.init[s]
  BY DEF StoreInv
<1>1. ASSUME model' = model, stage \in {"ready", "running"}, tensors' = tensors PROVE StoreInv'
  BY <1>1 DEF StoreInv, Runnable, Slots, Outs
<1>2. ASSUME model' = model, stage \in {"ready", "running"}, NEW x, NEW v,
             tensors' = [tensors EXCEPT ![x] = v], x \notin DOMAIN model.init
      PROVE  StoreInv'
  <2>1. Good(model) /\ Runnable /\ DOMAIN tensors = Slots /\ \A s \in DOMAIN model.init : tensors[s] = model.init[s]
    BY <1>2 DEF StoreInv
  <2>2. Runnable' /\ Slots' = Slots
    BY <1>2, <2>1 DEF Runnable, Slots, Outs
  <2>3. DOMAIN tensors' = DOMAIN tensors
    BY <1>2
  <2>4. \A s \in DOMAIN model.init : s \in DOMAIN tensors /\ s # x
    BY <1>2, <2>1 DEF Slots
  <2>5. \A s \in DOMAIN model.init : tensors'[s] = model.init[s]
    BY <1>2, <2>1, <2>4
  <2> QED
    BY <1>2, <2>1, <2>2, <2>3, <2>5 DEF StoreInv
<1>3. CASE Check
  <2>1. Runnable /\ model' = model /\ tensors' = [s \in Slots |-> IF s \in DOMAIN model.init THEN model.init[s] ELSE Empty]
    BY <1>3 DEF Check, loadVars
  <2>2. Runnable' /\ Slots' = Slots
    BY <2>1 DEF Runnable, Slots, Outs
  <2>3. DOMAIN tensors' = Slots
    BY <2>1
  <2>4. \A s \in DOMAIN model.init : s \in Slots
    BY DEF Slots
  <2> QED
    BY <2>1, <2>2, <2>3, <2>4
<1>4. CASE RunBegin
  <2>1. model' = model /\ stage = "ready" /\ tensors' = [tensors EXCEPT ![model.inputs[1]] = input']
    BY <1>4 DEF RunBegin, loadVars
  <2>2. model.inputs[1] \notin DOMAIN model.init
    BY <2>1, NamesAre DEF Good, Distinct
  <2>3. StoreInv'
    BY <1>2, <2>1, <2>2
  <2> QED
    BY <2>3 DEF StoreInv
<1>5. CASE \E a \in active : NodeEnd(a)
  <2>1. PICK a \in active : NodeEnd(a)
    BY <1>5
  <2>2. stage = "running" /\ a.node \in Level /\ model' = model
    BY <2>1 DEF LevelInv, NodeEnd, loadVars
  <2>3. a.node \in NodesOf(model)
    BY <2>2 DEF PlanInv, Planned, Schedule, Level, Nodes, NodesOf
  <2>4. a.node.out \notin DOMAIN model.init
    BY <2>2, <2>3 DEF Good, Distinct
  <2>5. tensors' = tensors \/ tensors' = [tensors EXCEPT ![a.node.out] = Compute(a.node.op, a.args)]
    BY <2>1 DEF NodeEnd
  <2>6. StoreInv'
    BY <1>1, <1>2, <2>2, <2>4, <2>5
  <2> QED
    BY <2>6 DEF StoreInv
<1>6. CASE ~ (Check \/ RunBegin \/ \E a \in active : NodeEnd(a))
  <2>1. model' = model /\ stage \in {"ready", "running"} /\ tensors' = tensors
    <3>1. CASE RewriteOne
      BY <3>1, PassesAssumption DEF RewriteOne
    <3>2. CASE PassOver
      BY <3>2, PassesAre, NextStageIs DEF PassOver, Passing
    <3> QED
      BY <1>6, <3>1, <3>2 DEF Next, Prepare, RunOn, FoldThrows, VisitRoot, VisitChild, LeaveNode, SortDone,
        NodeBegin, LevelDone, RunEnd, loadVars, runVars, vars
  <2>2. StoreInv'
    BY <1>1, <2>1
  <2> QED
    BY <2>2 DEF StoreInv
<1> QED
  BY <1>3, <1>4, <1>5, <1>6

\* A run begins with nothing computed.
LEMMA RunBegins ==
  ASSUME PlanInv, LevelInv, StoreInv, RunBegin, Good(model)
  PROVE  ProgressInv'
<1>1. /\ model' = model /\ plan' = plan /\ stage = "ready" /\ stage' = "running" /\ level' = 1 /\ active' = {}
      /\ pending' = (IF 1 \in DOMAIN plan THEN plan[1] ELSE {})
      /\ tensors' = [tensors EXCEPT ![model.inputs[1]] = input']
  BY DEF RunBegin, StartLevel, LevelInv, loadVars
<1>2. tensors'[model.inputs[1]] = input'
  <2>1. model.inputs[1] \in DOMAIN tensors
    BY <1>1 DEF StoreInv, Slots
  <2> QED
    BY <1>1, <2>1
<1>3. ASSUME NEW V PROVE RightSoFar(V)'
  <2>1. \A k \in DOMAIN plan : ~ (k < 1)
    BY <1>1 DEF PlanInv, Planned, Schedule
  <2>2. Level' = pending'
    BY <1>1 DEF Level
  <2> QED
    BY <1>1, <2>1, <2>2 DEF RightSoFar
<1> QED
  BY <1>1, <1>2, <1>3 DEF ProgressInv

\* A node that begins has read the right values.
LEMMA NodeBegins ==
  ASSUME PlanInv, LevelInv, StoreInv, ProgressInv, Good(model),
         NEW node \in pending, NodeBegin(node)
  PROVE  ProgressInv'
<1>1. /\ model' = model /\ plan' = plan /\ stage = "running" /\ stage' = "running" /\ level' = level
      /\ tensors' = tensors /\ threw' = threw /\ input' = input
      /\ pending' = pending \ {node}
  BY DEF NodeBegin, loadVars
<1>2. node \in Level /\ Level' = Level
  BY <1>1 DEF LevelInv, Level
<1> DEFINE b == [node |-> node, args |-> [i \in DOMAIN node.ins |-> tensors[node.ins[i]]]]
<1>3. active' = active \cup {b} /\ b.node = node
  BY DEF NodeBegin
<1>4. ASSUME NEW V, Valuation(model, input, V, NodesOf(model)) PROVE RightSoFar(V)'
  <2>1. RightSoFar(V)
    BY <1>1, <1>4 DEF ProgressInv
  <2>2. \A i \in DOMAIN node.ins : tensors[node.ins[i]] = V[node.ins[i]]
    BY <1>1, <1>2, <1>4, InputsAreRight
  <2>3. b.args = [i \in DOMAIN b.node.ins |-> V[b.node.ins[i]]]
    BY <2>2
  <2> HIDE DEF b
  <2>4. pending \cup Doing \subseteq pending' \cup Doing'
    BY <1>1, <1>3 DEF Doing
  <2> QED
    BY <1>1, <1>2, <1>3, <2>1, <2>3, <2>4 DEF RightSoFar
<1> QED
  BY <1>1, <1>4 DEF ProgressInv

\* A node that ends writes the right value, in a slot of its own, or throws.
LEMMA NodeEnds ==
  ASSUME PlanInv, LevelInv, StoreInv, ProgressInv, Good(model),
         NEW a \in active, NodeEnd(a)
  PROVE  ProgressInv'
<1>1. /\ model' = model /\ plan' = plan /\ stage = "running" /\ stage' = "running" /\ level' = level
      /\ pending' = pending /\ input' = input /\ active' = active \ {a}
      /\ a.node \in Level /\ Level' = Level
  BY DEF NodeEnd, loadVars, LevelInv, Level
<1>2. Schedule(plan, NodesOf(model)) /\ level \in DOMAIN plan /\ a.node \in plan[level]
  BY <1>1 DEF PlanInv, Planned, Nodes, NodesOf, Level
<1>3. \A k \in DOMAIN plan : plan[k] \subseteq NodesOf(model)
  BY <1>2 DEF Schedule
<1>4. \/ tensors' = [tensors EXCEPT ![a.node.out] = Compute(a.node.op, a.args)] /\ threw' = threw
      \/ threw' = TRUE /\ tensors' = tensors
  BY DEF NodeEnd
<1>5. /\ a.node.out # model.inputs[1]
      /\ model.inputs[1] \in DOMAIN tensors /\ \A n \in NodesOf(model) : n.out \in DOMAIN tensors
  <2>1. a.node \in NodesOf(model)
    BY <1>2, <1>3
  <2> QED
    BY <1>1, <2>1, NamesAre DEF StoreInv, Slots, Outs, Good, Distinct, NodesOf
<1>6. \A n \in NodesOf(model) \ {a.node} : n.out # a.node.out
  BY <1>2, <1>3 DEF Good, Distinct
<1>7. tensors'[model.inputs[1]] = input'
  BY <1>1, <1>4, <1>5 DEF ProgressInv
<1>8. \A n \in NodesOf(model) \ {a.node} : tensors'[n.out] = tensors[n.out]
  BY <1>4, <1>5, <1>6
<1>9. ASSUME NEW V, Valuation(model, input, V, NodesOf(model)) PROVE RightSoFar(V)'
  <2>1. RightSoFar(V)
    BY <1>1, <1>9 DEF ProgressInv
  <2>2. threw' \/ tensors'[a.node.out] = V[a.node.out]
    <3>1. V[a.node.out] = Compute(a.node.op, a.args) /\ a.node \in NodesOf(model)
      BY <1>2, <1>3, <1>9, <2>1 DEF RightSoFar, Valuation, Value
    <3> QED
      BY <1>4, <1>5, <3>1
  <2>3. ASSUME NEW k \in DOMAIN plan, k < level, NEW n \in plan[k] PROVE tensors'[n.out] = V[n.out]
    <3>1. n # a.node
      <4>1. k # level
        BY <1>1, <1>2, <2>3 DEF ProgressInv, Schedule
      <4> QED
        BY <1>2, <4>1 DEF Schedule
    <3> QED
      BY <1>3, <1>8, <2>1, <2>3, <3>1 DEF RightSoFar
  <2>4. ASSUME NEW n \in Level PROVE n \in pending' \cup Doing' \/ threw' \/ tensors'[n.out] = V[n.out]
    <3>1. CASE n = a.node
      BY <2>2, <3>1
    <3>2. CASE n # a.node
      <4>1. n \in Doing => n \in Doing'
        BY <1>1, <3>2 DEF Doing
      <4>2. tensors'[n.out] = tensors[n.out]
        BY <1>2, <1>3, <1>8, <3>2 DEF Level
      <4>3. threw => threw'
        BY <1>4
      <4> QED
        BY <1>1, <2>1, <4>1, <4>2, <4>3 DEF RightSoFar
    <3> QED
      BY <3>1, <3>2
  <2> QED
    BY <1>1, <2>1, <2>3, <2>4 DEF RightSoFar
<1> QED
  BY <1>1, <1>7, <1>9 DEF ProgressInv

\* A level that is over has computed all its nodes.
LEMMA LevelEnds ==
  ASSUME PlanInv, ProgressInv, LevelDone, Good(model)
  PROVE  ProgressInv'
<1>1. /\ model' = model /\ plan' = plan /\ stage = "running" /\ stage' = "running" /\ level' = level + 1
      /\ tensors' = tensors /\ threw' = FALSE /\ ~ threw /\ input' = input
      /\ pending = {} /\ active = {} /\ active' = {} /\ level \in DOMAIN plan
      /\ pending' = (IF level + 1 \in DOMAIN plan THEN plan[level + 1] ELSE {})
  BY DEF LevelDone, StartLevel, loadVars
<1>2. Level' = pending' /\ Level = plan[level]
  BY <1>1 DEF Level
<1>3. level \in Nat \ {0} /\ \A k \in DOMAIN plan : k \in Nat
  BY <1>1 DEF ProgressInv, PlanInv, Planned, Schedule
<1>4. ASSUME NEW V, Valuation(model, input, V, NodesOf(model)) PROVE RightSoFar(V)'
  <2>1. RightSoFar(V)
    BY <1>1, <1>4 DEF ProgressInv
  <2>2. ASSUME NEW k \in DOMAIN plan, k < level + 1, NEW n \in plan[k] PROVE tensors[n.out] = V[n.out]
    <3>1. CASE k < level
      BY <2>1, <2>2, <3>1 DEF RightSoFar
    <3>2. CASE ~ (k < level)
      <4>1. k = level
        BY <1>3, <2>2, <3>2
      <4> QED
        BY <1>1, <1>2, <2>1, <2>2, <4>1 DEF RightSoFar, Doing
    <3> QED
      BY <3>1, <3>2
  <2> QED
    BY <1>1, <1>2, <2>2 DEF RightSoFar
<1> QED
  BY <1>1, <1>3, <1>4 DEF ProgressInv

\* Every step of a run leaves it right so far.
LEMMA ProgressInductive == PlanInv /\ LevelInv /\ StoreInv /\ ProgressInv /\ [Next]_vars => ProgressInv'
<1> SUFFICES ASSUME PlanInv, LevelInv, StoreInv, ProgressInv, [Next]_vars,
                    stage' = "running", Good(model')
             PROVE  ProgressInv'
  BY DEF ProgressInv
<1>1. CASE RunBegin
  BY <1>1, RunBegins DEF RunBegin, loadVars
<1>2. CASE \E node \in pending : NodeBegin(node)
  BY <1>2, NodeBegins DEF NodeBegin, loadVars
<1>3. CASE \E a \in active : NodeEnd(a)
  BY <1>3, NodeEnds DEF NodeEnd, loadVars
<1>4. CASE LevelDone
  BY <1>4, LevelEnds DEF LevelDone, loadVars
<1>5. CASE RewriteOne
  BY <1>5, PassesAssumption DEF RewriteOne
<1>6. CASE PassOver
  BY <1>6, PassesAre, NextStageIs DEF PassOver, Passing
<1>7. CASE UNCHANGED vars
  <2>1. Level' = Level /\ Doing' = Doing
    BY <1>7 DEF vars, Level, Doing
  <2> QED
    BY <1>7, <2>1 DEF vars, ProgressInv, RightSoFar
<1> QED
  BY <1>1, <1>2, <1>3, <1>4, <1>5, <1>6, <1>7
  DEF Next, Prepare, RunOn, FoldThrows, VisitRoot, VisitChild, LeaveNode, SortDone, Check, RunEnd

\* A run that ends without a throw has computed every node of the model.
LEMMA RunEndsRight ==
  ASSUME PlanInv, LevelInv, StoreInv, ProgressInv, ModelInv, RunEnd, ~ threw, Sound(loaded)
  PROVE  Result = Meaning(loaded, input, loaded.outputs[1])
<1>1. Preserves(loaded, model) /\ Good(model) /\ Good(loaded)
  BY SoundIs DEF ModelInv, Preserves
<1>2. stage = "running" /\ pending = {} /\ active = {} /\ level \notin DOMAIN plan
  BY DEF RunEnd
<1>3. PICK V : Valuation(model, input, V, NodesOf(model))
  BY <1>1, ValuationExists DEF Good
<1>4. ASSUME NEW p \in NodesOf(model) PROVE tensors[p.out] = V[p.out]
  <2>1. Schedule(plan, NodesOf(model))
    BY <1>2 DEF PlanInv, Planned, Nodes, NodesOf
  <2>2. PICK k \in DOMAIN plan : p \in plan[k]
    BY <2>1 DEF Schedule
  <2>3. PICK n \in Nat : DOMAIN plan = 1 .. n
    BY <2>1 DEF Schedule
  <2>4. level \in Nat \ {0}
    BY <1>1, <1>2 DEF ProgressInv
  <2>5. k < level
    BY <1>2, <2>3, <2>4
  <2> QED
    BY <1>1, <1>2, <1>3, <2>2, <2>5 DEF ProgressInv, RightSoFar
<1>5. model.outputs[1] \in Slots
  BY <1>1, <1>2 DEF StoreInv, Runnable
<1>6. Result = V[model.outputs[1]]
  BY <1>1, <1>2, <1>3, <1>4, <1>5, SlotIsRight DEF Result
<1>7. model.outputs[1] \in STRING
  BY <1>1, OutputsAre DEF Good
<1>8. Result = Meaning(model, input, model.outputs[1])
  BY <1>1, <1>3, <1>6, <1>7, MeaningIs DEF Good
<1>9. 1 \in DOMAIN loaded.outputs
  <2>1. loaded.outputs \in Seq(STRING) /\ loaded.outputs # <<>>
    BY <1>1 DEF Good, IsModel
  <2> QED
    BY <2>1, EmptySeq, LenProperties
<1> QED
  BY <1>1, <1>8, <1>9 DEF Preserves

\* What the last run returned stays in its slot until the next one begins.
LEMMA LastInductive ==
  PlanInv /\ LevelInv /\ StoreInv /\ ProgressInv /\ ModelInv /\ LastInv /\ [Next]_vars => LastInv'
<1> SUFFICES ASSUME PlanInv, LevelInv, StoreInv, ProgressInv, ModelInv, LastInv, [Next]_vars
             PROVE  LastInv'
  OBVIOUS
<1>1. ASSUME UNCHANGED <<loaded, model, stage, tensors, input, last>> PROVE LastInv'
  BY <1>1 DEF LastInv, RunIsRight, Result
<1>2. ASSUME stage \in Preparing, last' = last PROVE LastInv'
  BY <1>2 DEF LastInv, RunIsRight
<1>3. ASSUME stage' \in {"running", "refused"} PROVE LastInv'
  BY <1>3 DEF LastInv, RunIsRight, Preparing, Passing
<1>4. CASE RunEnd
  <2>1. ASSUME Sound(loaded), last' = "ok" PROVE Result' = Meaning(loaded, input, loaded.outputs[1])'
    <3>1. ~ threw /\ model' = model /\ loaded' = loaded /\ tensors' = tensors /\ input' = input
      BY <1>4, <2>1 DEF RunEnd, loadVars
    <3>2. Result = Meaning(loaded, input, loaded.outputs[1])
      BY <1>4, <2>1, <3>1, RunEndsRight
    <3> QED
      BY <3>1, <3>2 DEF Result
  <2>2. stage' = "ready" /\ loaded' = loaded
    BY <1>4 DEF RunEnd, loadVars
  <2> QED
    BY <2>1, <2>2 DEF LastInv, RunIsRight, Preparing, Passing
<1>5. CASE RewriteOne
  BY <1>2, <1>5, PassesAssumption DEF RewriteOne, runVars, Preparing, Passing
<1>6. CASE PassOver
  BY <1>2, <1>6, PassesAre DEF PassOver, runVars, Preparing
<1>7. CASE VisitRoot \/ VisitChild \/ LeaveNode \/ SortDone \/ Check
  BY <1>2, <1>7 DEF VisitRoot, VisitChild, LeaveNode, SortDone, Check, runVars, Preparing
<1>8. CASE FoldThrows \/ RunBegin \/ (\E node \in pending : NodeBegin(node)) \/ LevelDone
  BY <1>3, <1>8 DEF FoldThrows, RunBegin, NodeBegin, LevelDone
<1>9. CASE \E a \in active : NodeEnd(a)
  BY <1>3, <1>9 DEF NodeEnd, LevelInv, loadVars
<1>10. CASE UNCHANGED vars
  BY <1>1, <1>10 DEF vars
<1> QED
  BY <1>4, <1>5, <1>6, <1>7, <1>8, <1>9, <1>10 DEF Next, Prepare, RunOn

(***************************************************************************)
(* A run that returns, whatever the plan, the number of threads, the order *)
(* in which the nodes of a level end and what earlier runs left in the     *)
(* store, has computed what the model as loaded means for its input.       *)
(***************************************************************************)
THEOREM RunsAreRight == Spec => []RunIsRight
<1>1. Init => PlanInv /\ LevelInv /\ StoreInv /\ ProgressInv /\ ModelInv /\ LastInv
  BY ModelInitially DEF Init, PlanInv, LevelInv, StoreInv, ProgressInv, LastInv, RunIsRight, Preparing, Passing, Planned
<1>2. LastInv => RunIsRight
  BY DEF LastInv
<1> QED
  BY <1>1, <1>2, PlanInductive, LevelInductive, StoreInductive, ProgressInductive, ModelInductive, LastInductive, PTL
  DEF Spec

================================================================================
