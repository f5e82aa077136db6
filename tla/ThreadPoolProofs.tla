---------------------------- MODULE ThreadPoolProofs ----------------------------
(***************************************************************************)
(* Proofs about the ThreadPool, for every number of threads, callers and   *)
(* tasks, with and without nesting, exceptions and a shutdown.             *)
(*                                                                         *)
(* The argument: a group's countdown is the number of its items still in   *)
(* the queue or in a worker's hands (CountdownExact).  Items enter the     *)
(* queue only in CallPush, of a call that has not returned and whose       *)
(* countdown is zero; a call returns only with the countdown at zero       *)
(* (CallsOpen).  So when a call has returned nothing of it is left.        *)
(***************************************************************************)
EXTENDS ThreadPool, FiniteSetTheorems, SequenceTheorems, TLAPS

--------------------------------------------------------------------------------

(***************************************************************************)
(* Counting the items of a group in a queue.                               *)
(***************************************************************************)
Positions(q, g) == {i \in DOMAIN q : q[i][1] = g}
Count(q, g) == Cardinality(Positions(q, g))

\* The count of a group's items in a queue is a number.
LEMMA CountIsNat ==
  ASSUME NEW q \in Seq(Item), NEW g
  PROVE  IsFiniteSet(Positions(q, g)) /\ Count(q, g) \in Nat
<1>1. IsFiniteSet(DOMAIN q)
  BY FS_Interval
<1>2. Positions(q, g) \in SUBSET DOMAIN q
  BY DEF Positions
<1>3. IsFiniteSet(Positions(q, g))
  BY <1>1, <1>2, FS_Subset
<1> QED
  BY <1>3, FS_CardinalityType DEF Count

\* Taking the head of the queue takes one item of its group.
LEMMA CountTail ==
  ASSUME NEW q \in Seq(Item), q # <<>>, NEW g
  PROVE  Count(Tail(q), g) = IF Head(q)[1] = g THEN Count(q, g) - 1 ELSE Count(q, g)
<1> DEFINE S == Positions(Tail(q), g)
           T == Positions(q, g) \ {1}
           f == [i \in S |-> i + 1]
<1>1. /\ Tail(q) \in Seq(Item) /\ Len(Tail(q)) = Len(q) - 1
      /\ \A i \in 1 .. Len(Tail(q)) : Tail(q)[i] = q[i + 1]
      /\ Len(q) \in Nat \ {0} /\ Head(q) = q[1]
  BY HeadTailProperties
<1>2. S = {i \in 1 .. Len(q) - 1 : q[i + 1][1] = g}
  BY <1>1 DEF Positions
<1>3. T = {i \in 2 .. Len(q) : q[i][1] = g}
  BY <1>1 DEF Positions
<1>4. f \in [S -> T]
  BY <1>1, <1>2, <1>3
<1>5. \A i, j \in S : f[i] = f[j] => i = j
  BY <1>1, <1>2
<1>6. ASSUME NEW k \in T PROVE \E i \in S : f[i] = k
  <2>1. k - 1 \in S /\ f[k - 1] = k
    BY <1>1, <1>2, <1>3
  <2> QED
    BY <2>1
<1>7. f \in Bijection(S, T)
  BY <1>4, <1>5, <1>6 DEF Bijection, Injection, Surjection, IsInjective
<1>8. IsFiniteSet(S)
  BY <1>1, CountIsNat
<1>9. Cardinality(T) = Cardinality(S)
  BY <1>7, <1>8, FS_Bijection DEF ExistsBijection
<1>10. /\ IsFiniteSet(Positions(q, g))
       /\ Cardinality(T) = IF 1 \in Positions(q, g) THEN Count(q, g) - 1 ELSE Count(q, g)
  BY CountIsNat, FS_RemoveElement DEF Count
<1>11. 1 \in Positions(q, g) <=> Head(q)[1] = g
  BY <1>1 DEF Positions
<1> QED
  BY <1>9, <1>10, <1>11 DEF Count

\* Queueing the n items of a group that has none in the queue.
LEMMA CountPush ==
  ASSUME NEW q \in Seq(Item), NEW h, NEW n \in Nat, NEW new \in Seq(Item),
         Len(new) = n, \A i \in 1 .. n : new[i][1] = h, NEW g
  PROVE  /\ g # h => Count(q \o new, g) = Count(q, g)
         /\ Count(q, h) = 0 => Count(q \o new, h) = n
<1>1. /\ q \o new \in Seq(Item)
      /\ Len(q \o new) = Len(q) + n
      /\ \A i \in 1 .. Len(q) + n : (q \o new)[i] = IF i <= Len(q) THEN q[i] ELSE new[i - Len(q)]
      /\ Len(q) \in Nat
  <2>1. Len(q) \in Nat
    OBVIOUS
  <2>2. /\ q \o new \in Seq(Item)
        /\ Len(q \o new) = Len(q) + Len(new)
        /\ \A i \in 1 .. Len(q) + Len(new) :
             (q \o new)[i] = IF i <= Len(q) THEN q[i] ELSE new[i - Len(q)]
    BY ConcatProperties, Zenon
  <2> QED
    BY <2>1, <2>2
<1>2. ASSUME g # h PROVE Positions(q \o new, g) = Positions(q, g)
  <2>1. ASSUME NEW i \in 1 .. Len(q) + n, i > Len(q) PROVE (q \o new)[i][1] = h
    <3>1. i - Len(q) \in 1 .. n
      BY <1>1, <2>1
    <3> QED
      BY <1>1, <2>1, <3>1
  <2> QED
    BY <1>1, <1>2, <2>1 DEF Positions
<1>3. ASSUME Count(q, h) = 0 PROVE Positions(q \o new, h) = (Len(q) + 1) .. (Len(q) + n)
  <2>1. Positions(q, h) = {}
    BY <1>3, CountIsNat, FS_EmptySet DEF Count
  <2>2. ASSUME NEW i \in 1 .. Len(q) + n PROVE (q \o new)[i][1] = h <=> i > Len(q)
    <3>1. CASE i <= Len(q)
      BY <1>1, <2>1, <3>1 DEF Positions
    <3>2. CASE i > Len(q)
      <4>1. i - Len(q) \in 1 .. n
        BY <1>1, <3>2
      <4> QED
        BY <1>1, <3>2, <4>1
    <3> QED
      BY <1>1, <3>1, <3>2
  <2> QED
    BY <1>1, <2>2 DEF Positions
<1>4. Cardinality((Len(q) + 1) .. (Len(q) + n)) = n
  BY <1>1, FS_Interval
<1> QED
  BY <1>2, <1>3, <1>4 DEF Count

--------------------------------------------------------------------------------

(***************************************************************************)
(* The inductive invariant.                                                *)
(***************************************************************************)
\* A worker holds an item exactly while it runs one.
BusyHolds == \A w \in Thread : worker[w] \in {"busy", "threw"} <=> holding[w] # None

\* A caller is in a call that is open, and a call that is to queue items has
\* none outstanding: neither its own nor the one that may be nested in it.
CallOpen(c) ==
  /\ at[c] # "done" => Open(Call(c))
  /\ at[c] = "call" => remaining[Call(c)] = 0
  /\ at[c] \in {"notify", "own"} => 1 <= Size(Call(c))
  /\ level[c] = 2 => at[c] # "done" /\ Open(<<c, 1>>) /\ 1 <= OuterTasks[c]
  /\ level[c] = 1 /\ at[c] \in {"call", "notify", "own"} =>
       Open(<<c, 2>>) /\ remaining[<<c, 2>>] = 0

CallsOpen == \A c \in Caller : CallOpen(c)

\* A call returns with its countdown at zero.
ClosedIsZero == \A g \in Group : ~ Open(g) => remaining[g] = 0

IInv == TypeOK /\ BusyHolds /\ CallsOpen /\ ClosedIsZero /\ CountdownExact

\* What groups and items are made of.
LEMMA ItemFacts ==
  /\ \A g \in Group : Size(g) \in Nat
  /\ \A g \in Group : \A i \in 1 .. Size(g) : <<g, i>> \in Item
  /\ \A x \in Item : x[1] \in Group /\ x # None
  /\ \A c \in Caller : <<c, 1>> \in Group /\ <<c, 2>> \in Group
  /\ \A c \in Caller : Size(<<c, 1>>) = OuterTasks[c] /\ Size(<<c, 2>>) = InnerTasks[c]
<1>1. /\ \A c \in Caller : <<c, 1>> \in Group /\ <<c, 2>> \in Group
      /\ \A c \in Caller : Size(<<c, 1>>) = OuterTasks[c] /\ Size(<<c, 2>>) = InnerTasks[c]
  BY DEF Group, Level, Size
<1>2. \A g \in Group : Size(g) \in Nat
  BY TasksAssumption DEF Group, Level, Size
<1>3. \A g \in Group : \A i \in 1 .. Size(g) : <<g, i>> \in Item
  BY DEF Item
<1>4. \A x \in Item : x[1] \in Group /\ x # None
  BY DEF Item, None
<1> QED
  BY <1>1, <1>2, <1>3, <1>4

\* The call a caller is in is one of its two groups.
LEMMA CallIsGroup ==
  ASSUME TypeOK, NEW c \in Caller
  PROVE  /\ Call(c) \in Group
         /\ level[c] = 1 => Call(c) = <<c, 1>>
         /\ level[c] = 2 => Call(c) = <<c, 2>>
         /\ level[c] \in {1, 2}
BY DEF TypeOK, Call, Group, Level

\* The threads that hold an item of a group can be counted.
LEMMA HeldFacts ==
  ASSUME NEW g
  PROVE  /\ IsFiniteSet(Held(g))
         /\ Cardinality(Held(g)) \in Nat
         /\ Cardinality(Held(g)) = 0 <=> Held(g) = {}
<1>1. Held(g) \in SUBSET Thread
  BY DEF Held
<1>2. IsFiniteSet(Held(g))
  BY <1>1, ThreadAssumption, FS_Subset
<1> QED
  BY <1>2, FS_CardinalityType, FS_EmptySet

\* The positions the property speaks of are the ones counted here.
LEMMA OutstandingFacts ==
  ASSUME TypeOK, NEW g
  PROVE  /\ Cardinality(Outstanding(g)) = Count(queue, g)
         /\ Count(queue, g) \in Nat
         /\ Count(queue, g) = 0 <=> Outstanding(g) = {}
<1>1. Outstanding(g) = Positions(queue, g)
  BY DEF Outstanding, Positions
<1>2. IsFiniteSet(Positions(queue, g)) /\ Count(queue, g) \in Nat
  BY CountIsNat DEF TypeOK
<1> QED
  BY <1>1, <1>2, FS_EmptySet DEF Count

\* What a worker holds is counted.
LEMMA HeldIsCounted ==
  ASSUME IInv, NEW w \in Thread, holding[w] # None
  PROVE  /\ holding[w] \in Item
         /\ holding[w][1] \in Group
         /\ 1 <= remaining[holding[w][1]]
<1>1. holding[w] \in Item /\ holding[w][1] \in Group
  BY ItemFacts DEF IInv, TypeOK
<1>2. Held(holding[w][1]) # {}
  BY DEF Held
<1>3. remaining[holding[w][1]] = Count(queue, holding[w][1]) + Cardinality(Held(holding[w][1]))
  BY <1>1, OutstandingFacts DEF IInv, CountdownExact
<1> QED
  BY <1>1, <1>2, <1>3, HeldFacts, OutstandingFacts DEF IInv

--------------------------------------------------------------------------------

(***************************************************************************)
(* Types.                                                                  *)
(***************************************************************************)
LEMMA TypeInit == Init => TypeOK
BY ItemFacts DEF Init, TypeOK, Level

\* The end of a call, and of tasks[0] of the call around it.
LEMMA LeaveType ==
  ASSUME IInv, NEW c \in Caller, NEW result \in {<<"ok">>} \cup {<<"threw", x>> : x \in Item},
         Leave(c, result)
  PROVE  /\ level' \in [Caller -> Level]
         /\ at' \in [Caller -> {"call", "notify", "own", "wait", "done"}]
         /\ outcome' \in [Group -> {None, <<"ok">>} \cup {<<"threw", x>> : x \in Item}]
         /\ callerError' \in [Group -> Item \cup {None}]
         /\ ran' \in [Item -> Nat]
         /\ first' \in [Group -> Item \cup {None}]
<1> USE DEF IInv
<1>1. outcome' \in [Group -> {None, <<"ok">>} \cup {<<"threw", x>> : x \in Item}]
  BY CallIsGroup DEF Leave, TypeOK
<1>2. CASE level[c] = 2
  <2>1. <<<<c, 1>>, 1>> \in Item /\ <<c, 1>> \in Group
    <3>1. <<c, 1>> \in Group /\ Size(<<c, 1>>) = OuterTasks[c] /\ OuterTasks[c] \in Nat
      BY ItemFacts, TasksAssumption
    <3>2. 1 <= OuterTasks[c]
      BY <1>2, Zenon DEF CallsOpen, CallOpen
    <3>3. 1 \in 1 .. Size(<<c, 1>>)
      BY <3>1, <3>2
    <3> QED
      BY <3>1, <3>3, ItemFacts
  <2>2. /\ level' = [level EXCEPT ![c] = 1]
        /\ at' = [at EXCEPT ![c] = "wait"]
        /\ RunBody(<<<<c, 1>>, 1>>)
        /\ \/ UNCHANGED <<callerError, first>>
           \/ /\ callerError' = [callerError EXCEPT ![<<c, 1>>] = <<<<c, 1>>, 1>>]
              /\ NoteThrow(<<<<c, 1>>, 1>>)
    BY <1>2 DEF Leave
  <2>3. callerError' \in [Group -> Item \cup {None}]
    BY <2>1, <2>2 DEF TypeOK
  <2>4. first' \in [Group -> Item \cup {None}]
    BY <2>1, <2>2 DEF TypeOK, NoteThrow
  <2>5. ran' \in [Item -> Nat]
    BY <2>1, <2>2 DEF TypeOK, RunBody
  <2> QED
    BY <1>1, <2>2, <2>3, <2>4, <2>5 DEF TypeOK, Level
<1>3. CASE level[c] # 2
  BY <1>1, <1>3 DEF Leave, TypeOK
<1> QED
  BY <1>2, <1>3

\* Every step keeps the types; a countdown never goes below zero.
LEMMA TypeStep == IInv /\ [Next]_vars => TypeOK'
<1> SUFFICES ASSUME IInv, [Next]_vars PROVE TypeOK'
  OBVIOUS
<1> USE DEF IInv
<1>1. ASSUME NEW w \in Thread, WorkerCheck(w) PROVE TypeOK'
  <2>1. CASE queue # <<>>
    <3>1. Head(queue) \in Item /\ Tail(queue) \in Seq(Item)
      BY <2>1, HeadTailProperties DEF TypeOK
    <3> QED
      BY <1>1, <2>1, <3>1 DEF WorkerCheck, TypeOK
  <2>2. CASE queue = <<>>
    BY <1>1, <2>2 DEF WorkerCheck, TypeOK
  <2> QED
    BY <2>1, <2>2
<1>2. ASSUME NEW w \in Thread, holding[w] # None, FinishItem(w)
      PROVE  /\ remaining' \in [Group -> Nat]
             /\ holding' \in [Thread -> Item \cup {None}]
             /\ worker' \in [Thread -> {"check", "waiting", "busy", "threw", "gone"}]
  BY <1>2, HeldIsCounted DEF FinishItem, TypeOK
<1>3. ASSUME NEW w \in Thread, WorkerRun(w) PROVE TypeOK'
  <2>1. holding[w] # None /\ holding[w] \in Item
    BY <1>3 DEF WorkerRun, BusyHolds, TypeOK
  <2>2. ran' \in [Item -> Nat]
    BY <1>3, <2>1 DEF WorkerRun, RunBody, TypeOK
  <2> QED
    BY <1>2, <1>3, <2>1, <2>2 DEF WorkerRun, FinishItem, TypeOK
<1>4. ASSUME NEW w \in Thread, WorkerThrow(w) PROVE TypeOK'
  <2>1. holding[w] \in Item /\ holding[w][1] \in Group
    BY <1>4, HeldIsCounted DEF WorkerThrow, BusyHolds
  <2>2. ran' \in [Item -> Nat]
    BY <1>4, <2>1 DEF WorkerThrow, RunBody, TypeOK
  <2>3. first' \in [Group -> Item \cup {None}]
    BY <1>4, <2>1 DEF WorkerThrow, NoteThrow, TypeOK
  <2>4. error' \in [Group -> Item \cup {None}]
    BY <1>4, <2>1 DEF WorkerThrow, TypeOK
  <2> QED
    BY <1>4, <2>2, <2>3, <2>4 DEF WorkerThrow, TypeOK
<1>5. ASSUME NEW w \in Thread, WorkerThrown(w) PROVE TypeOK'
  <2>1. holding[w] # None
    BY <1>5 DEF WorkerThrown, BusyHolds
  <2> QED
    BY <1>2, <1>5, <2>1 DEF WorkerThrown, FinishItem, TypeOK
<1>6. ASSUME NEW c \in Caller, CallEmpty(c) PROVE TypeOK'
  BY <1>6, LeaveType DEF CallEmpty, TypeOK
<1>7. ASSUME NEW c \in Caller, CallSingle(c) PROVE TypeOK'
  BY <1>7 DEF CallSingle, TypeOK
<1>8. ASSUME NEW c \in Caller, CallInline(c) PROVE TypeOK'
  <2>1. PICK k \in 1 .. Size(Call(c)) :
          /\ ran' = [x \in Item |-> IF x[1] = Call(c) /\ x[2] <= k THEN ran[x] + 1 ELSE ran[x]]
          /\ \/ k = Size(Call(c)) /\ UNCHANGED <<callerError, first>>
             \/ /\ callerError' = [callerError EXCEPT ![Call(c)] = <<Call(c), k>>]
                /\ NoteThrow(<<Call(c), k>>)
    BY <1>8 DEF CallInline
  <2>2. <<Call(c), k>> \in Item /\ Call(c) \in Group
    BY CallIsGroup, ItemFacts
  <2>3. ran' \in [Item -> Nat]
    BY <2>1 DEF TypeOK
  <2>4. callerError' \in [Group -> Item \cup {None}]
    BY <2>1, <2>2 DEF TypeOK
  <2>5. first' \in [Group -> Item \cup {None}]
    BY <2>1, <2>2 DEF NoteThrow, TypeOK
  <2> QED
    BY <1>8, <2>3, <2>4, <2>5 DEF CallInline, TypeOK
<1>9. ASSUME NEW c \in Caller, CallPush(c) PROVE TypeOK'
  <2> DEFINE new == [i \in 1 .. Size(Call(c)) - 1 |-> <<Call(c), i + 1>>]
  <2>1. Call(c) \in Group /\ Size(Call(c)) \in Nat /\ Size(Call(c)) > 1
    BY <1>9, CallIsGroup, ItemFacts DEF CallPush
  <2>2. ASSUME NEW i \in 1 .. Size(Call(c)) - 1 PROVE <<Call(c), i + 1>> \in Item
    <3>1. i + 1 \in 1 .. Size(Call(c))
      BY <2>1
    <3> QED
      BY <2>1, <3>1, ItemFacts
  <2>3. new \in Seq(Item)
    BY <2>1, <2>2
  <2>4. queue' \in Seq(Item)
    BY <1>9, <2>3, ConcatProperties DEF CallPush, TypeOK
  <2>5. remaining' \in [Group -> Nat]
    BY <1>9, <2>1 DEF CallPush, TypeOK
  <2> QED
    BY <1>9, <2>4, <2>5 DEF CallPush, TypeOK
<1>10. ASSUME NEW c \in Caller, CallNotify(c) PROVE TypeOK'
  BY <1>10 DEF CallNotify, NotifyAll, TypeOK
<1>11. ASSUME NEW c \in Caller, RunOwn(c) PROVE TypeOK'
  <2>1. Own(c) \in Item /\ Own(c)[1] = Call(c) /\ Call(c) \in Group
    <3>1. Call(c) \in Group /\ Size(Call(c)) \in Nat
      BY CallIsGroup, ItemFacts
    <3>2. 1 <= Size(Call(c))
      BY <1>11, Zenon DEF RunOwn, CallsOpen, CallOpen
    <3>3. 1 \in 1 .. Size(Call(c))
      BY <3>1, <3>2
    <3> QED
      BY <3>1, <3>3, ItemFacts DEF Own
  <2>2. ran' \in [Item -> Nat]
    BY <1>11, <2>1 DEF RunOwn, RunBody, TypeOK
  <2>3. callerError' \in [Group -> Item \cup {None}]
    BY <1>11, <2>1 DEF RunOwn, TypeOK
  <2>4. first' \in [Group -> Item \cup {None}]
    BY <1>11, <2>1 DEF RunOwn, NoteThrow, TypeOK
  <2> QED
    BY <1>11, <2>2, <2>3, <2>4 DEF RunOwn, TypeOK
<1>12. ASSUME NEW c \in Caller, CallNested(c) PROVE TypeOK'
  BY <1>12 DEF CallNested, TypeOK, Level
<1>13. ASSUME NEW c \in Caller, AwaitGroup(c) PROVE TypeOK'
  <2>1. PICK result \in {<<"ok">>} \cup {<<"threw", x>> : x \in Item} : Leave(c, result)
    BY <1>13, CallIsGroup DEF AwaitGroup, TypeOK
  <2> QED
    BY <1>13, <2>1, LeaveType DEF AwaitGroup, TypeOK
<1>14. CASE DestroyStep
  BY <1>14 DEF DestroyStep, DestroyFlag, DestroyNotify, DestroyJoin, NotifyAll, TypeOK
<1>15. CASE UNCHANGED vars
  BY <1>15 DEF vars, TypeOK
<1> QED
  BY <1>1, <1>3, <1>4, <1>5, <1>6, <1>7, <1>8, <1>9, <1>10, <1>11, <1>12, <1>13, <1>14, <1>15
  DEF Next, WorkerStep, CallerStep

--------------------------------------------------------------------------------

(***************************************************************************)
(* Workers and their items.                                                *)
(***************************************************************************)
LEMMA BusyStep == IInv /\ TypeOK' /\ [Next]_vars => BusyHolds'
<1> SUFFICES ASSUME IInv, TypeOK', [Next]_vars PROVE BusyHolds'
  OBVIOUS
<1> USE DEF IInv
<1>1. ASSUME NEW w \in Thread, WorkerCheck(w) PROVE BusyHolds'
  <2>1. CASE queue # <<>>
    <3>1. Head(queue) # None
      BY <2>1, ItemFacts, HeadTailProperties DEF TypeOK
    <3> QED
      BY <1>1, <2>1, <3>1 DEF WorkerCheck, BusyHolds, TypeOK
  <2>2. CASE queue = <<>>
    BY <1>1, <2>2 DEF WorkerCheck, BusyHolds, TypeOK
  <2> QED
    BY <2>1, <2>2
<1>2. ASSUME NEW w \in Thread, WorkerRun(w) \/ WorkerThrow(w) \/ WorkerThrown(w)
      PROVE  BusyHolds'
  BY <1>2 DEF WorkerRun, WorkerThrow, WorkerThrown, FinishItem, BusyHolds, TypeOK
<1>3. ASSUME NEW c \in Caller, CallerStep(c) PROVE BusyHolds'
  <2>1. CASE CallNotify(c)
    BY <2>1 DEF CallNotify, NotifyAll, BusyHolds, TypeOK
  <2>2. CASE UNCHANGED <<worker, holding>>
    BY <2>2 DEF BusyHolds
  <2> QED
    BY <1>3, <2>1, <2>2 DEF CallerStep, CallEmpty, CallSingle, CallInline, CallPush, RunOwn,
       CallNested, AwaitGroup
<1>4. CASE DestroyStep
  <2>1. CASE DestroyNotify
    BY <2>1 DEF DestroyNotify, NotifyAll, BusyHolds, TypeOK
  <2>2. CASE UNCHANGED <<worker, holding>>
    BY <2>2 DEF BusyHolds
  <2> QED
    BY <1>4, <2>1, <2>2 DEF DestroyStep, DestroyFlag, DestroyJoin
<1>5. CASE UNCHANGED vars
  BY <1>5 DEF vars, BusyHolds
<1> QED
  BY <1>1, <1>2, <1>3, <1>4, <1>5 DEF Next, WorkerStep

--------------------------------------------------------------------------------

(***************************************************************************)
(* The countdown.                                                          *)
(***************************************************************************)
\* The countdown is exact if neither it nor what it counts changes.
LEMMA CountFrame ==
  ASSUME CountdownExact, UNCHANGED <<queue, holding, remaining>>
  PROVE  CountdownExact'
BY DEF CountdownExact, Outstanding, Held

\* A worker that has finished its item holds one item less of that group.
LEMMA FinishCounts ==
  ASSUME IInv, TypeOK', NEW w \in Thread, holding[w] # None, FinishItem(w)
  PROVE  CountdownExact'
<1> USE DEF IInv
<1> DEFINE h == holding[w][1]
<1>1. /\ h \in Group
      /\ queue' = queue
      /\ holding' = [holding EXCEPT ![w] = None]
      /\ remaining' = [remaining EXCEPT ![h] = @ - 1]
  BY HeldIsCounted DEF FinishItem
<1>2. SUFFICES ASSUME NEW g \in Group
               PROVE  (remaining[g] = Cardinality(Outstanding(g)) + Cardinality(Held(g)))'
  BY DEF CountdownExact
<1>3. remaining[g] = Cardinality(Outstanding(g)) + Cardinality(Held(g))
  BY <1>2 DEF CountdownExact
<1>4. Outstanding(g)' = Outstanding(g)
  BY <1>1 DEF Outstanding
<1>5. Cardinality(Outstanding(g)) \in Nat /\ Cardinality(Held(g)) \in Nat /\ IsFiniteSet(Held(g))
  BY OutstandingFacts, HeldFacts
<1>6. CASE g = h
  <2>1. Held(g)' = Held(g) \ {w} /\ w \in Held(g)
    BY <1>1, <1>6 DEF Held, TypeOK
  <2>2. Cardinality(Held(g)') = Cardinality(Held(g)) - 1
    BY <1>5, <2>1, FS_RemoveElement
  <2>3. remaining'[g] = remaining[g] - 1
    BY <1>1, <1>2, <1>6 DEF TypeOK
  <2> QED
    BY <1>3, <1>4, <1>5, <2>2, <2>3
<1>7. CASE g # h
  <2>1. Held(g)' = Held(g)
    BY <1>1, <1>7 DEF Held, TypeOK
  <2>2. remaining'[g] = remaining[g]
    BY <1>1, <1>2, <1>7 DEF TypeOK
  <2> QED
    BY <1>3, <1>4, <2>1, <2>2
<1> QED
  BY <1>6, <1>7

\* A worker that takes an item moves it from the queue into its hands.
LEMMA TakeCounts ==
  ASSUME IInv, TypeOK', NEW w \in Thread, WorkerCheck(w), queue # <<>>
  PROVE  CountdownExact'
<1> USE DEF IInv
<1> DEFINE h == Head(queue)[1]
<1>1. /\ holding' = [holding EXCEPT ![w] = Head(queue)]
      /\ queue' = Tail(queue)
      /\ remaining' = remaining
      /\ holding[w] = None
      /\ Head(queue) # None
  <2>1. Head(queue) \in Item
    BY HeadTailProperties DEF TypeOK
  <2> QED
    BY <2>1, ItemFacts DEF WorkerCheck, BusyHolds
<1>2. SUFFICES ASSUME NEW g \in Group
               PROVE  (remaining[g] = Cardinality(Outstanding(g)) + Cardinality(Held(g)))'
  BY DEF CountdownExact
<1>3. remaining[g] = Count(queue, g) + Cardinality(Held(g))
  BY <1>2, OutstandingFacts DEF CountdownExact
<1>4. /\ Count(queue, g) \in Nat
      /\ Cardinality(Held(g)) \in Nat /\ IsFiniteSet(Held(g))
  BY OutstandingFacts, HeldFacts
<1>5. Cardinality(Outstanding(g)') = Count(queue', g)
  BY DEF Outstanding, Positions, Count
<1>6. Count(queue', g) = IF h = g THEN Count(queue, g) - 1 ELSE Count(queue, g)
  BY <1>1, CountTail DEF TypeOK
<1>7. CASE g = h
  <2>1. Held(g)' = Held(g) \cup {w} /\ w \notin Held(g)
    BY <1>1, <1>7 DEF Held, TypeOK
  <2>2. Cardinality(Held(g)') = Cardinality(Held(g)) + 1
    BY <1>4, <2>1, FS_AddElement
  <2> QED
    BY <1>1, <1>3, <1>4, <1>5, <1>6, <1>7, <2>2
<1>8. CASE g # h
  <2>1. Held(g)' = Held(g)
    BY <1>1, <1>8 DEF Held, TypeOK
  <2> QED
    BY <1>1, <1>3, <1>5, <1>6, <1>8, <2>1
<1> QED
  BY <1>7, <1>8

\* A call queues its items while none of its group is left.
LEMMA PushCounts ==
  ASSUME IInv, TypeOK', NEW c \in Caller, CallPush(c)
  PROVE  CountdownExact'
<1> USE DEF IInv
<1> DEFINE h == Call(c)
           n == Size(h) - 1
           new == [i \in 1 .. n |-> <<h, i + 1>>]
<1>1. h \in Group /\ n \in Nat /\ remaining[h] = 0
  <2>1. h \in Group /\ Size(h) \in Nat /\ Size(h) > 1
    BY CallIsGroup, ItemFacts DEF CallPush
  <2>2. remaining[h] = 0
    BY Zenon DEF CallPush, CallsOpen, CallOpen
  <2> QED
    BY <2>1, <2>2
<1>2. /\ queue' = queue \o new
      /\ remaining' = [remaining EXCEPT ![h] = n]
      /\ holding' = holding
  BY DEF CallPush
<1>3. new \in Seq(Item) /\ Len(new) = n /\ \A i \in 1 .. n : new[i][1] = h
  <2>1. ASSUME NEW i \in 1 .. n PROVE <<h, i + 1>> \in Item
    <3>1. i + 1 \in 1 .. Size(h)
      BY <1>1, ItemFacts
    <3> QED
      BY <1>1, <3>1, ItemFacts
  <2> QED
    BY <1>1, <2>1
<1> HIDE DEF new, n, h
<1>4. Count(queue, h) = 0 /\ Cardinality(Held(h)) = 0
  <2>1. 0 = Count(queue, h) + Cardinality(Held(h))
    BY <1>1, OutstandingFacts DEF CountdownExact
  <2> QED
    BY <2>1, OutstandingFacts, HeldFacts
<1>5. SUFFICES ASSUME NEW g \in Group
               PROVE  (remaining[g] = Cardinality(Outstanding(g)) + Cardinality(Held(g)))'
  BY DEF CountdownExact
<1>6. Cardinality(Outstanding(g)') = Count(queue', g)
  BY DEF Outstanding, Positions, Count
<1>7. Held(g)' = Held(g)
  BY <1>2 DEF Held
<1>8. /\ g # h => Count(queue', g) = Count(queue, g)
      /\ Count(queue', h) = n
  <2>1. queue \in Seq(Item)
    BY DEF TypeOK
  <2>2. /\ g # h => Count(queue \o new, g) = Count(queue, g)
        /\ Count(queue \o new, h) = n
    BY <1>1, <1>3, <1>4, <2>1, CountPush
  <2> QED
    BY <1>2, <2>2
<1>9. CASE g = h
  <2>1. remaining'[g] = n
    BY <1>1, <1>2, <1>9 DEF TypeOK
  <2> QED
    BY <1>1, <1>4, <1>6, <1>7, <1>8, <1>9, <2>1
<1>10. CASE g # h
  <2>1. remaining'[g] = remaining[g]
    BY <1>2, <1>5, <1>10 DEF TypeOK
  <2>2. remaining[g] = Count(queue, g) + Cardinality(Held(g))
    BY <1>5, OutstandingFacts DEF CountdownExact
  <2> QED
    BY <1>6, <1>7, <1>8, <1>10, <2>1, <2>2
<1> QED
  BY <1>9, <1>10

\* Every step keeps the countdowns exact.
LEMMA CountStep == IInv /\ TypeOK' /\ [Next]_vars => CountdownExact'
<1> SUFFICES ASSUME IInv, TypeOK', [Next]_vars PROVE CountdownExact'
  OBVIOUS
<1>1. ASSUME NEW w \in Thread, WorkerCheck(w) PROVE CountdownExact'
  <2>1. CASE queue = <<>>
    BY <1>1, <2>1, CountFrame DEF WorkerCheck, IInv
  <2> QED
    BY <1>1, <2>1, TakeCounts
<1>2. ASSUME NEW w \in Thread, WorkerRun(w) \/ WorkerThrown(w) PROVE CountdownExact'
  <2>1. holding[w] # None /\ FinishItem(w)
    BY <1>2 DEF WorkerRun, WorkerThrown, IInv, BusyHolds
  <2> QED
    BY <2>1, FinishCounts
<1>3. ASSUME NEW w \in Thread, WorkerThrow(w) PROVE CountdownExact'
  BY <1>3, CountFrame DEF WorkerThrow, IInv
<1>4. ASSUME NEW c \in Caller, CallerStep(c) PROVE CountdownExact'
  <2>1. CASE CallPush(c)
    BY <2>1, PushCounts
  <2>2. CASE UNCHANGED <<queue, holding, remaining>>
    BY <2>2, CountFrame DEF IInv
  <2> QED
    BY <1>4, <2>1, <2>2 DEF CallerStep, CallEmpty, CallSingle, CallInline, CallNotify, RunOwn,
       CallNested, AwaitGroup
<1>5. CASE DestroyStep
  BY <1>5, CountFrame DEF DestroyStep, DestroyFlag, DestroyNotify, DestroyJoin, IInv
<1>6. CASE UNCHANGED vars
  BY <1>6, CountFrame DEF vars, IInv
<1> QED
  BY <1>1, <1>2, <1>3, <1>4, <1>5, <1>6 DEF Next, WorkerStep

--------------------------------------------------------------------------------

(***************************************************************************)
(* Callers.                                                                *)
(***************************************************************************)
\* A step that leaves the calls of a caller alone, except that a countdown
\* that is not zero may change.
Apart(c) ==
  /\ at'[c] = at[c] /\ level'[c] = level[c]
  /\ \A g \in {<<c, 1>>, <<c, 2>>} :
       outcome'[g] = outcome[g] /\ (remaining[g] = 0 => remaining'[g] = 0)

\* A step apart from a caller leaves its call open or not as it was.
LEMMA CallOpenFrame ==
  ASSUME TypeOK, NEW c \in Caller, CallOpen(c), Apart(c)
  PROVE  CallOpen(c)'
<1>1. /\ Call(c)' = Call(c)
      /\ Call(c) \in {<<c, 1>>, <<c, 2>>}
      /\ Size(Call(c))' = Size(Call(c))
  BY CallIsGroup DEF Apart, Call, Size
<1> QED
  BY <1>1 DEF CallOpen, Apart, Open

\* The step of another caller.
LEMMA OtherCaller ==
  ASSUME TypeOK, NEW c \in Caller, CallerStep(c), NEW d \in Caller, d # c
  PROVE  Apart(d)
<1>1. \A g \in {<<d, 1>>, <<d, 2>>} : g # <<c, 1>> /\ g # <<c, 2>> /\ g # Call(c) /\ g \in Group
  BY CallIsGroup, ItemFacts
<1>2. CASE CallEmpty(c) \/ AwaitGroup(c)
  <2>1. PICK result : Leave(c, result)
    BY <1>2 DEF CallEmpty, AwaitGroup
  <2>2. remaining' = remaining
    BY <1>2 DEF CallEmpty, AwaitGroup
  <2>3. CASE level[c] = 2
    BY <1>1, <2>1, <2>2, <2>3 DEF Leave, Apart, TypeOK
  <2>4. CASE level[c] # 2
    BY <1>1, <2>1, <2>2, <2>4 DEF Leave, Apart, TypeOK
  <2> QED
    BY <2>3, <2>4
<1>3. CASE CallSingle(c) \/ CallInline(c) \/ CallNotify(c) \/ RunOwn(c) \/ CallNested(c)
  BY <1>1, <1>3 DEF CallSingle, CallInline, CallNotify, RunOwn, CallNested, Apart, TypeOK
<1>4. CASE CallPush(c)
  BY <1>1, <1>4 DEF CallPush, Apart, TypeOK
<1> QED
  BY <1>2, <1>3, <1>4 DEF CallerStep

\* A call that leaves with its countdown at zero.
LEMMA LeaveCloses ==
  ASSUME IInv, NEW c \in Caller, NEW result, result # None, Leave(c, result),
         remaining[Call(c)] = 0, remaining' = remaining
  PROVE  CallOpen(c)' /\ ClosedIsZero'
<1> USE DEF IInv
<1>1. outcome' = [outcome EXCEPT ![Call(c)] = result] /\ Call(c) \in Group
  BY CallIsGroup DEF Leave
<1>2. ClosedIsZero'
  BY <1>1 DEF ClosedIsZero, Open, TypeOK
<1>3. CASE level[c] = 2
  <2>1. at'[c] = "wait" /\ level'[c] = 1 /\ Call(c) = <<c, 2>>
    BY <1>3, CallIsGroup DEF Leave, TypeOK
  <2>2. Open(<<c, 1>>) /\ <<c, 1>> \in Group
    BY <1>3, ItemFacts, Zenon DEF CallsOpen, CallOpen
  <2>3. Call(c)' = <<c, 1>>
    BY <2>1 DEF Call
  <2>4. outcome'[<<c, 1>>] = outcome[<<c, 1>>]
    BY <1>1, <2>1, <2>2 DEF TypeOK
  <2> QED
    BY <1>2, <2>1, <2>2, <2>3, <2>4 DEF CallOpen, Open
<1>4. CASE level[c] # 2
  <2>1. at'[c] = "done" /\ level'[c] = 1
    BY <1>4, CallIsGroup DEF Leave, TypeOK
  <2> QED
    BY <1>2, <2>1 DEF CallOpen
<1> QED
  BY <1>3, <1>4

\* A caller's own steps open and close its calls with countdowns at zero.
LEMMA CallerStepKeeps ==
  ASSUME IInv, NEW c \in Caller, CallerStep(c)
  PROVE  CallOpen(c)' /\ ClosedIsZero'
<1> USE DEF IInv
<1>1. /\ CallOpen(c)
      /\ Call(c) \in Group /\ Size(Call(c)) \in Nat
      /\ Call(c) \in {<<c, 1>>, <<c, 2>>}
  BY CallIsGroup, ItemFacts, Zenon DEF CallsOpen, CallOpen
<1>2. CASE CallEmpty(c)
  <2>1. Leave(c, <<"ok">>) /\ remaining' = remaining /\ remaining[Call(c)] = 0
    BY <1>1, <1>2 DEF CallEmpty, CallOpen
  <2> QED
    BY <2>1, LeaveCloses DEF None
<1>3. CASE AwaitGroup(c)
  <2>1. PICK result : Leave(c, result) /\ result # None
    BY <1>3 DEF AwaitGroup, None
  <2> QED
    BY <1>3, <2>1, LeaveCloses DEF AwaitGroup
<1>4. ASSUME outcome' = outcome, remaining' = remaining PROVE ClosedIsZero'
  BY <1>4 DEF ClosedIsZero, Open
<1>5. ASSUME level' = level PROVE Call(c)' = Call(c) /\ Size(Call(c))' = Size(Call(c))
  BY <1>5 DEF Call, Size
<1>6. CASE CallSingle(c)
  <2>1. /\ outcome' = outcome /\ remaining' = remaining /\ level' = level
        /\ at[c] = "call" /\ at'[c] = "own" /\ Size(Call(c)) = 1
    BY <1>6 DEF CallSingle, TypeOK
  <2> QED
    BY <1>1, <1>4, <1>5, <2>1 DEF CallOpen, Open
<1>7. CASE CallInline(c) \/ RunOwn(c)
  <2>1. /\ outcome' = outcome /\ remaining' = remaining /\ level' = level
        /\ at[c] # "done" /\ at'[c] = "wait"
    BY <1>7 DEF CallInline, RunOwn, TypeOK
  <2> QED
    BY <1>1, <1>4, <1>5, <2>1 DEF CallOpen, Open
<1>8. CASE CallNotify(c)
  <2>1. /\ outcome' = outcome /\ remaining' = remaining /\ level' = level
        /\ at[c] = "notify" /\ at'[c] = "own"
    BY <1>8 DEF CallNotify, TypeOK
  <2> QED
    BY <1>1, <1>4, <1>5, <2>1 DEF CallOpen, Open
<1>9. CASE CallPush(c)
  <2>1. /\ outcome' = outcome /\ level' = level
        /\ \A g \in Group : g # Call(c) => remaining'[g] = remaining[g]
        /\ at[c] = "call" /\ at'[c] = "notify" /\ Size(Call(c)) > 1
    BY <1>1, <1>9 DEF CallPush, TypeOK
  <2>2. ClosedIsZero'
    BY <1>1, <2>1 DEF ClosedIsZero, Open, CallOpen
  <2>3. level[c] = 1 => remaining'[<<c, 2>>] = remaining[<<c, 2>>]
    BY <2>1, CallIsGroup, ItemFacts
  <2> QED
    BY <1>1, <1>5, <2>1, <2>2, <2>3 DEF CallOpen, Open
<1>10. CASE CallNested(c)
  <2>1. /\ outcome' = outcome /\ remaining' = remaining
        /\ level[c] = 1 /\ level'[c] = 2
        /\ at[c] = "own" /\ at'[c] = "call"
    BY <1>10 DEF CallNested, TypeOK
  <2>2. Call(c)' = <<c, 2>> /\ Call(c) = <<c, 1>> /\ Size(<<c, 1>>) = OuterTasks[c]
    BY <2>1, ItemFacts DEF Call
  <2> QED
    BY <1>1, <1>4, <2>1, <2>2 DEF CallOpen, Open
<1> QED
  BY <1>2, <1>3, <1>6, <1>7, <1>8, <1>9, <1>10 DEF CallerStep

\* Every step keeps items within open calls, and closed calls at zero.
LEMMA CallsStep == IInv /\ [Next]_vars => CallsOpen' /\ ClosedIsZero'
<1> SUFFICES ASSUME IInv, [Next]_vars PROVE CallsOpen' /\ ClosedIsZero'
  OBVIOUS
<1> USE DEF IInv
<1>1. ASSUME NEW c \in Caller, CallerStep(c) PROVE CallsOpen' /\ ClosedIsZero'
  <2>1. CallOpen(c)' /\ ClosedIsZero'
    BY <1>1, CallerStepKeeps
  <2>2. ASSUME NEW d \in Caller, d # c PROVE CallOpen(d)'
    BY <1>1, <2>2, OtherCaller, CallOpenFrame DEF CallsOpen
  <2> QED
    BY <2>1, <2>2 DEF CallsOpen
<1>2. ASSUME /\ UNCHANGED <<at, level, outcome>>
             /\ \A g \in Group : remaining[g] = 0 => remaining'[g] = 0
      PROVE  CallsOpen' /\ ClosedIsZero'
  <2>1. ASSUME NEW d \in Caller PROVE Apart(d)
    BY <1>2, ItemFacts DEF Apart
  <2>2. ClosedIsZero'
    BY <1>2 DEF ClosedIsZero, Open
  <2> QED
    BY <2>1, <2>2, CallOpenFrame DEF CallsOpen
<1>3. ASSUME NEW w \in Thread, WorkerRun(w) \/ WorkerThrown(w)
      PROVE  CallsOpen' /\ ClosedIsZero'
  <2>1. holding[w] # None /\ FinishItem(w)
    BY <1>3 DEF WorkerRun, WorkerThrown, BusyHolds
  <2>2. holding[w][1] \in Group /\ 1 <= remaining[holding[w][1]]
    BY <2>1, HeldIsCounted
  <2>3. \A g \in Group : remaining[g] = 0 => remaining'[g] = 0
    BY <2>1, <2>2 DEF FinishItem, TypeOK
  <2> QED
    BY <1>2, <1>3, <2>1, <2>3 DEF FinishItem
<1>4. ASSUME NEW w \in Thread, WorkerCheck(w) \/ WorkerThrow(w)
      PROVE  CallsOpen' /\ ClosedIsZero'
  BY <1>2, <1>4 DEF WorkerCheck, WorkerThrow
<1>5. CASE DestroyStep
  BY <1>2, <1>5 DEF DestroyStep, DestroyFlag, DestroyNotify, DestroyJoin
<1>6. CASE UNCHANGED vars
  BY <1>2, <1>6 DEF vars
<1> QED
  BY <1>1, <1>3, <1>4, <1>5, <1>6 DEF Next, WorkerStep

--------------------------------------------------------------------------------

\* The inductive invariant holds at the start,
LEMMA IInvInit == Init => IInv
<1> SUFFICES ASSUME Init PROVE IInv
  OBVIOUS
<1>1. TypeOK
  BY TypeInit
<1>2. /\ queue = <<>> /\ holding = [w \in Thread |-> None]
      /\ remaining = [g \in Group |-> 0] /\ outcome = [g \in Group |-> None]
      /\ worker = [w \in Thread |-> "check"]
      /\ level = [c \in Caller |-> 1] /\ at = [c \in Caller |-> "call"]
  BY DEF Init
<1>3. BusyHolds
  BY <1>2 DEF BusyHolds
<1>4. CallsOpen
  <2>1. ASSUME NEW c \in Caller
        PROVE  /\ at[c] = "call" /\ level[c] = 1 /\ Call(c) = <<c, 1>>
               /\ \A g \in {<<c, 1>>, <<c, 2>>} : Open(g) /\ remaining[g] = 0
    BY <1>2, ItemFacts DEF Open, Call
  <2>2. ASSUME NEW c \in Caller PROVE CallOpen(c)
    BY <2>1 DEF CallOpen
  <2> QED
    BY <2>2, Zenon DEF CallsOpen
<1>5. ClosedIsZero
  BY <1>2 DEF ClosedIsZero
<1>6. CountdownExact
  <2>1. ASSUME NEW g \in Group PROVE Outstanding(g) = {} /\ Held(g) = {}
    BY <1>2 DEF Outstanding, Held
  <2> QED
    <3>1. ASSUME NEW g \in Group
          PROVE  remaining[g] = 0 /\ Cardinality(Outstanding(g)) = 0 /\ Cardinality(Held(g)) = 0
      BY <1>2, <2>1, FS_EmptySet
    <3> QED
      BY <3>1 DEF CountdownExact
<1> QED
  BY <1>1, <1>3, <1>4, <1>5, <1>6 DEF IInv

\* every step keeps it,
LEMMA IInvStep == IInv /\ [Next]_vars => IInv'
BY TypeStep, BusyStep, CountStep, CallsStep DEF IInv

\* and so it holds in every state.
LEMMA IInvAlways == Spec => []IInv
BY IInvInit, IInvStep, PTL DEF Spec

(***************************************************************************)
(* Every variable keeps to its type; the countdowns never go below zero.   *)
(***************************************************************************)
THEOREM TypeCorrect == Spec => []TypeOK
<1>1. IInv => TypeOK
  BY DEF IInv
<1> QED
  BY <1>1, IInvAlways, PTL

(***************************************************************************)
(* A group's countdown is the number of its items still queued or held.    *)
(***************************************************************************)
THEOREM CountdownIsExact == Spec => []CountdownExact
<1>1. IInv => CountdownExact
  BY DEF IInv
<1> QED
  BY <1>1, IInvAlways, PTL

\* An item that is queued or held is counted, so its call has not returned.
LEMMA NothingLeft ==
  ASSUME IInv
  PROVE  NoDanglingItem
<1>1. ASSUME NEW g \in Group, ~ Open(g) PROVE Outstanding(g) = {} /\ Held(g) = {}
  <2>1. 0 = Count(queue, g) + Cardinality(Held(g))
    BY <1>1, OutstandingFacts DEF IInv, CountdownExact, ClosedIsZero
  <2> QED
    BY <2>1, OutstandingFacts, HeldFacts DEF IInv
<1>2. ASSUME NEW i \in DOMAIN queue PROVE Open(queue[i][1])
  <2>1. queue[i][1] \in Group /\ i \in Outstanding(queue[i][1])
    BY <1>2, ItemFacts DEF IInv, TypeOK, Outstanding
  <2> QED
    BY <1>1, <2>1
<1>3. ASSUME NEW w \in Thread, holding[w] # None PROVE Open(holding[w][1])
  <2>1. holding[w][1] \in Group /\ w \in Held(holding[w][1])
    BY <1>3, HeldIsCounted DEF Held
  <2> QED
    BY <1>1, <2>1
<1> QED
  BY <1>2, <1>3 DEF NoDanglingItem

(***************************************************************************)
(* No closure outlives the call whose stack it refers to.                  *)
(***************************************************************************)
THEOREM NothingDangles == Spec => []NoDanglingItem
BY IInvAlways, NothingLeft, PTL

--------------------------------------------------------------------------------

(***************************************************************************)
(* The results of a call: it returns only when each of its tasks has run   *)
(* exactly once, and with an exception exactly if one of them threw.       *)
(*                                                                         *)
(* The argument: a task whose turn has not come (Pending) has not run, and *)
(* any other has run once (RanOnce).  A pushed task is pending while it is *)
(* in the queue or in a busy worker's hands, and it is there only once     *)
(* (Unique); nothing of a call that has returned is there, by the          *)
(* invariant above.  Exceptions are recorded in one of two places when the *)
(* first task throws (Recorded).                                           *)
(***************************************************************************)
\* The call has not come to its first statement.
Fresh(g) ==
  /\ Open(g)
  /\ IF g[2] = 1 THEN level[g[1]] = 1 /\ at[g[1]] = "call"
     ELSE level[g[1]] = 1 \/ at[g[1]] = "call"

\* The caller has not run tasks[0] yet.
OwnPending(g) ==
  /\ Open(g)
  /\ IF g[2] = 1 THEN level[g[1]] = 2 \/ at[g[1]] \in {"call", "notify", "own"}
     ELSE level[g[1]] = 1 \/ at[g[1]] \in {"call", "notify", "own"}

InQueue(x) == \E i \in DOMAIN queue : queue[i] = x
InHands(x) == \E w \in Thread : holding[w] = x
Busy(x) == \E w \in Thread : worker[w] = "busy" /\ holding[w] = x

Pending(x) == IF x[2] = 1 THEN OwnPending(x[1]) ELSE Fresh(x[1]) \/ InQueue(x) \/ Busy(x)

\* Run in place, a call stops at the first task that throws.
Stopped(g) == RunsInline(g[1]) /\ callerError[g] # None

RanOnce ==
  \A x \in Item :
    /\ Pending(x) => ran[x] = 0
    /\ ~ Pending(x) /\ ~ Stopped(x[1]) => ran[x] = 1

\* What may be queued or held: a task other than the first of a call under way.
Pushed(x) == x[2] # 1 /\ ~ Fresh(x[1])

AllPushed == \A x \in Item : InQueue(x) \/ InHands(x) => Pushed(x)

Unique ==
  /\ \A i, j \in DOMAIN queue : queue[i] = queue[j] => i = j
  /\ \A w \in Thread : \A i \in DOMAIN queue : holding[w] # queue[i]
  /\ \A w, v \in Thread : holding[w] = holding[v] /\ holding[w] # None => w = v

Recorded == \A g \in Group : first[g] = None <=> callerError[g] = None /\ error[g] = None

Surfaces ==
  \A g \in Group :
    /\ Fresh(g) => first[g] = None
    /\ ~ Open(g) => (outcome[g] = <<"ok">> <=> first[g] = None)

ReturnInv == RanOnce /\ AllPushed /\ Unique /\ Recorded /\ Surfaces

--------------------------------------------------------------------------------

(***************************************************************************)
(* What a step does to the turns of a caller's calls.                      *)
(***************************************************************************)
\* Groups and items are pairs.
LEMMA PairFacts ==
  /\ \A g \in Group : g[1] \in Caller /\ (g = <<g[1], 1>> \/ g = <<g[1], 2>>)
  /\ \A x \in Item : x = <<x[1], x[2]>> /\ x[1] \in Group /\ x[2] \in 1 .. Size(x[1])
  /\ \A g \in Group : Size(g) \in Nat
<1>1. \A g \in Group : g[1] \in Caller /\ (g = <<g[1], 1>> \/ g = <<g[1], 2>>)
  BY DEF Group, Level
<1>2. \A x \in Item : x = <<x[1], x[2]>> /\ x[1] \in Group /\ x[2] \in 1 .. Size(x[1])
  BY DEF Item
<1> QED
  BY <1>1, <1>2, ItemFacts

\* The turn of a call, and of its tasks[0], is as before.
SameTurn(g) ==
  /\ Fresh(g)' <=> Fresh(g)
  /\ OwnPending(g)' <=> OwnPending(g)
  /\ outcome'[g] = outcome[g]

\* Steps of workers and of the destructor leave the turns alone.
LEMMA SameTurns ==
  ASSUME UNCHANGED <<at, level, outcome>>
  PROVE  \A g \in Group : SameTurn(g)
BY DEF SameTurn, Fresh, OwnPending, Open

\* A caller's step leaves the calls of others alone.
LEMMA OthersTurn ==
  ASSUME TypeOK, NEW c \in Caller, CallerStep(c), NEW g \in Group, g[1] # c
  PROVE  SameTurn(g)
<1>1. g[1] \in Caller /\ g \in {<<g[1], 1>>, <<g[1], 2>>}
  BY PairFacts
<1>2. Apart(g[1])
  BY <1>1, OtherCaller
<1> QED
  BY <1>1, <1>2 DEF Apart, SameTurn, Fresh, OwnPending, Open

\* A step within a call, from one place to the next.
LEMMA MoveTurn ==
  ASSUME IInv, NEW c \in Caller, CallerStep(c), UNCHANGED <<level, outcome>>,
         at[c] \in {"call", "notify", "own"}, NEW h, h = Call(c)
  PROVE  /\ h \in Group /\ h[1] = c
         /\ \A g \in Group : g # h => SameTurn(g)
         /\ Open(h) /\ outcome'[h] = outcome[h]
         /\ Fresh(h) <=> at[c] = "call"
         /\ OwnPending(h)
         /\ Fresh(h)' <=> at'[c] = "call"
         /\ OwnPending(h)' <=> at'[c] \in {"call", "notify", "own"}
<1>1. /\ h = IF level[c] = 1 THEN <<c, 1>> ELSE <<c, 2>>
      /\ h \in Group /\ level[c] \in {1, 2}
      /\ level'[c] = level[c]
  BY CallIsGroup DEF IInv
<1>2. Open(h) /\ Open(h)'
  <2>1. Open(Call(c))
    BY Zenon DEF IInv, CallsOpen, CallOpen
  <2> QED
    BY <2>1 DEF Open
<1>3. ASSUME NEW g \in Group, g # h PROVE SameTurn(g)
  <2>1. CASE g[1] # c
    BY <2>1, OthersTurn DEF IInv
  <2>2. CASE g[1] = c
    <3>1. g = IF level[c] = 1 THEN <<c, 2>> ELSE <<c, 1>>
      BY <1>1, <1>3, <2>2, PairFacts
    <3> QED
      BY <1>1, <3>1 DEF SameTurn, Fresh, OwnPending, Open
  <2> QED
    BY <2>1, <2>2
<1>4. /\ Fresh(h) <=> at[c] = "call"
      /\ OwnPending(h)
      /\ Fresh(h)' <=> at'[c] = "call"
      /\ OwnPending(h)' <=> at'[c] \in {"call", "notify", "own"}
  BY <1>1, <1>2 DEF Fresh, OwnPending
<1> QED
  BY <1>1, <1>2, <1>3, <1>4

\* To call runAll from tasks[0] changes nobody's turn.
LEMMA NestTurn ==
  ASSUME IInv, NEW c \in Caller, CallNested(c)
  PROVE  \A g \in Group : SameTurn(g)
<1>1. /\ level[c] = 1 /\ at[c] = "own" /\ level'[c] = 2 /\ at'[c] = "call"
      /\ outcome' = outcome
  BY DEF CallNested, IInv, TypeOK
<1>2. SUFFICES ASSUME NEW g \in Group PROVE SameTurn(g)
  OBVIOUS
<1>3. CASE g[1] # c
  BY <1>3, OthersTurn DEF IInv, CallerStep
<1>4. CASE g[1] = c
  <2>1. g = <<c, 1>> \/ g = <<c, 2>>
    BY <1>4, PairFacts
  <2> QED
    BY <1>1, <2>1 DEF SameTurn, Fresh, OwnPending, Open
<1> QED
  BY <1>3, <1>4

\* The end of a call: it is nobody's turn in it any more,
LEMMA LeaveOwn ==
  ASSUME IInv, NEW c \in Caller, NEW h, h = Call(c), NEW result, result # None,
         Leave(c, result), at[c] \in {"call", "wait"}
  PROVE  /\ h \in Group /\ h = IF level[c] = 1 THEN <<c, 1>> ELSE <<c, 2>>
         /\ level[c] \in {1, 2}
         /\ Open(h) /\ ~ Open(h)'
         /\ \A g \in Group : outcome'[g] = IF g = h THEN result ELSE outcome[g]
         /\ ~ Fresh(h)' /\ ~ OwnPending(h)'
         /\ at[c] = "wait" => ~ OwnPending(h) /\ ~ Fresh(h)
<1>1. /\ h = IF level[c] = 1 THEN <<c, 1>> ELSE <<c, 2>>
      /\ h \in Group /\ level[c] \in {1, 2}
      /\ outcome' = [outcome EXCEPT ![h] = result]
  BY CallIsGroup DEF IInv, Leave
<1>2. \A g \in Group : outcome'[g] = IF g = h THEN result ELSE outcome[g]
  BY <1>1 DEF IInv, TypeOK
<1>3. Open(h) /\ ~ Open(h)'
  <2>1. Open(Call(c))
    BY Zenon DEF IInv, CallsOpen, CallOpen
  <2> QED
    BY <1>1, <1>2, <2>1 DEF Open
<1>4. ~ Fresh(h)' /\ ~ OwnPending(h)'
  BY <1>3 DEF Fresh, OwnPending
<1>5. at[c] = "wait" => ~ OwnPending(h) /\ ~ Fresh(h)
  BY <1>1 DEF OwnPending, Fresh
<1> QED
  BY <1>1, <1>2, <1>3, <1>4, <1>5

\* and if it was nested tasks[0] of the outer call is over too.
LEMMA LeaveTurn ==
  ASSUME IInv, NEW c \in Caller, NEW h, h = Call(c), NEW result, result # None,
         Leave(c, result), CallerStep(c), at[c] \in {"call", "wait"}
  PROVE  /\ level[c] # 2 => \A g \in Group : g # h => SameTurn(g)
         /\ level[c] = 2 =>
              /\ h = <<c, 2>> /\ <<c, 1>> \in Group /\ <<<<c, 1>>, 1>> \in Item
              /\ \A g \in Group : g # h /\ g # <<c, 1>> => SameTurn(g)
              /\ outcome'[<<c, 1>>] = outcome[<<c, 1>>]
              /\ Open(<<c, 1>>) /\ Open(<<c, 1>>)'
              /\ ~ Fresh(<<c, 1>>) /\ ~ Fresh(<<c, 1>>)'
              /\ OwnPending(<<c, 1>>) /\ ~ OwnPending(<<c, 1>>)'
<1>1. /\ h \in Group /\ h = IF level[c] = 1 THEN <<c, 1>> ELSE <<c, 2>>
      /\ level[c] \in {1, 2}
      /\ \A g \in Group : outcome'[g] = IF g = h THEN result ELSE outcome[g]
  BY LeaveOwn
<1>2. CallOpen(c)
  BY Zenon DEF IInv, CallsOpen
<1>3. ASSUME NEW g \in Group, g[1] # c PROVE SameTurn(g)
  BY <1>3, OthersTurn DEF IInv
<1>4. CASE level[c] # 2
  <2>1. level[c] = 1 /\ level' = level
    BY <1>1, <1>4 DEF Leave
  <2>2. ASSUME NEW g \in Group, g # h, g[1] = c PROVE SameTurn(g)
    <3>1. g = <<c, 2>>
      BY <1>1, <2>1, <2>2, PairFacts
    <3> QED
      BY <1>1, <2>1, <2>2, <3>1 DEF SameTurn, Fresh, OwnPending, Open
  <2> QED
    BY <1>3, <1>4, <2>2
<1>5. CASE level[c] = 2
  <2>1. level'[c] = 1 /\ at'[c] = "wait"
    BY <1>5 DEF Leave, IInv, TypeOK
  <2>2. Open(<<c, 1>>) /\ <<c, 1>> \in Group /\ <<<<c, 1>>, 1>> \in Item
    <3>1. 1 <= OuterTasks[c] /\ Open(<<c, 1>>)
      BY <1>2, <1>5 DEF CallOpen
    <3>2. /\ <<c, 1>> \in Group /\ Size(<<c, 1>>) = OuterTasks[c]
          /\ OuterTasks[c] \in Nat
      BY ItemFacts, TasksAssumption
    <3>3. 1 \in 1 .. Size(<<c, 1>>)
      BY <3>1, <3>2
    <3> QED
      BY <3>1, <3>2, <3>3, ItemFacts
  <2>3. outcome'[<<c, 1>>] = outcome[<<c, 1>>] /\ Open(<<c, 1>>)'
    BY <1>1, <1>5, <2>2 DEF Open
  <2>4. /\ ~ Fresh(<<c, 1>>) /\ ~ Fresh(<<c, 1>>)'
        /\ OwnPending(<<c, 1>>) /\ ~ OwnPending(<<c, 1>>)'
    BY <1>5, <2>1, <2>2, <2>3 DEF Fresh, OwnPending
  <2>5. ASSUME NEW g \in Group, g # h, g # <<c, 1>> PROVE g[1] # c
    BY <1>1, <1>5, <2>5, PairFacts
  <2> QED
    BY <1>1, <1>3, <1>5, <2>2, <2>3, <2>4, <2>5
<1> QED
  BY <1>1, <1>4, <1>5

--------------------------------------------------------------------------------

(***************************************************************************)
(* What a step does to the queue and to what the workers hold.             *)
(***************************************************************************)
\* Nothing is queued, and a worker keeps or drops what it holds.
LEMMA HandsKeep ==
  ASSUME TypeOK, AllPushed, Unique, queue' = queue,
         \A w \in Thread : holding'[w] = holding[w] \/ holding'[w] = None,
         \A g \in Group : ~ Fresh(g) => ~ Fresh(g)'
  PROVE  AllPushed' /\ Unique'
<1>1. AllPushed'
  <2> SUFFICES ASSUME NEW x \in Item, InQueue(x)' \/ InHands(x)' PROVE Pushed(x)'
    BY DEF AllPushed
  <2>1. x # None /\ x[1] \in Group
    BY ItemFacts
  <2>2. InQueue(x) \/ InHands(x)
    BY <2>1 DEF InQueue, InHands
  <2> QED
    BY <2>1, <2>2 DEF AllPushed, Pushed
<1>2. Unique'
  <2>1. \A i \in DOMAIN queue : queue[i] # None
    BY ItemFacts DEF TypeOK
  <2> QED
    BY <2>1 DEF Unique
<1> QED
  BY <1>1, <1>2

\* The same tasks are pending as before.
LEMMA SamePending ==
  ASSUME queue' = queue, holding' = holding,
         \A w \in Thread : worker'[w] = "busy" <=> worker[w] = "busy",
         NEW x, OwnPending(x[1])' <=> OwnPending(x[1]), Fresh(x[1])' <=> Fresh(x[1])
  PROVE  Pending(x)' <=> Pending(x)
BY DEF Pending, InQueue, Busy

\* No body ran.
LEMMA RanNone ==
  ASSUME RanOnce, ran' = ran,
         \A x \in Item : Pending(x)' <=> Pending(x),
         \A g \in Group : Stopped(g) => Stopped(g)'
  PROVE  RanOnce'
BY ItemFacts DEF RanOnce

\* One pending task ran.
LEMMA RanOne ==
  ASSUME TypeOK, RanOnce, NEW x \in Item, Pending(x), ~ Pending(x)', RunBody(x),
         \A y \in Item : y # x => (Pending(y)' <=> Pending(y)),
         \A g \in Group : Stopped(g) => Stopped(g)'
  PROVE  RanOnce'
<1>1. \A y \in Item : ran'[y] = IF y = x THEN ran[y] + 1 ELSE ran[y]
  BY DEF RunBody, TypeOK
<1>2. ran[x] = 0
  BY DEF RanOnce
<1>3. ASSUME NEW y \in Item
      PROVE  /\ Pending(y)' => ran'[y] = 0
             /\ ~ Pending(y)' /\ ~ Stopped(y[1])' => ran'[y] = 1
  <2>1. y[1] \in Group
    BY ItemFacts
  <2> QED
    BY <1>1, <1>2, <2>1 DEF RanOnce
<1> QED
  BY <1>3 DEF RanOnce

\* The flags of a call only go up.
LEMMA StoppedStays ==
  ASSUME NEW g, callerError'[g] = callerError[g] \/ callerError'[g] # None
  PROVE  Stopped(g) => Stopped(g)'
BY DEF Stopped

--------------------------------------------------------------------------------

(***************************************************************************)
(* Workers.                                                                *)
(***************************************************************************)
\* Where errors are recorded nothing moves.
LEMMA RecordsKeep ==
  ASSUME Recorded, Surfaces, UNCHANGED <<first, error, callerError>>,
         \A g \in Group : outcome'[g] = outcome[g] /\ (Fresh(g)' => Fresh(g))
  PROVE  Recorded' /\ Surfaces'
BY DEF Recorded, Surfaces, Open

\* A worker that takes the head of the queue changes nothing but its place.
LEMMA TakeKeeps ==
  ASSUME IInv, ReturnInv, NEW w \in Thread, WorkerCheck(w)
  PROVE  ReturnInv'
<1> USE DEF ReturnInv
<1>1. \A g \in Group : SameTurn(g)
  BY SameTurns DEF WorkerCheck
<1>2. \A g \in Group : Stopped(g)' <=> Stopped(g)
  BY DEF WorkerCheck, Stopped
<1>3. Recorded' /\ Surfaces'
  BY <1>1, RecordsKeep DEF WorkerCheck, SameTurn
<1>4. CASE queue = <<>>
  <2>1. queue' = queue /\ holding' = holding /\ ran' = ran
    BY <1>4 DEF WorkerCheck
  <2>2. \A v \in Thread : worker'[v] = "busy" <=> worker[v] = "busy"
    BY <1>4 DEF WorkerCheck, IInv, TypeOK
  <2>3. \A x \in Item : Pending(x)' <=> Pending(x)
    BY <1>1, <2>1, <2>2, ItemFacts, SamePending DEF SameTurn
  <2>4. RanOnce'
    BY <1>2, <2>1, <2>3, RanNone
  <2>5. AllPushed' /\ Unique'
    BY <1>1, <2>1, HandsKeep DEF SameTurn, IInv
  <2> QED
    BY <1>3, <2>4, <2>5
<1>5. CASE queue # <<>>
  <2>1. /\ queue' \in Seq(Item) /\ Len(queue') = Len(queue) - 1
        /\ \A i \in 1 .. Len(queue') : queue'[i] = queue[i + 1]
        /\ Len(queue) \in Nat \ {0} /\ Head(queue) = queue[1] /\ queue[1] \in Item
    <3>1. queue \in Seq(Item) /\ queue' = Tail(queue)
      BY <1>5 DEF WorkerCheck, IInv, TypeOK
    <3>2. /\ Tail(queue) \in Seq(Item) /\ Len(Tail(queue)) = Len(queue) - 1
          /\ \A i \in 1 .. Len(Tail(queue)) : Tail(queue)[i] = queue[i + 1]
          /\ Head(queue) = queue[1] /\ Head(queue) \in Item
      BY <1>5, <3>1, HeadTailProperties
    <3> QED
      BY <1>5, <3>1, <3>2
  <2>2. /\ worker[w] = "check" /\ worker'[w] = "busy" /\ holding'[w] = queue[1]
        /\ \A v \in Thread : v # w => worker'[v] = worker[v] /\ holding'[v] = holding[v]
        /\ ran' = ran
    BY <1>5, <2>1 DEF WorkerCheck, IInv, TypeOK
  <2>3. holding[w] = None
    BY <2>2 DEF IInv, BusyHolds
  <2>4. DOMAIN queue = 1 .. Len(queue) /\ DOMAIN queue' = 1 .. Len(queue')
    BY <2>1 DEF IInv, TypeOK
  <2>5. ASSUME NEW x \in Item
        PROVE  /\ InQueue(x) <=> x = queue[1] \/ InQueue(x)'
               /\ InHands(x)' <=> x = queue[1] \/ InHands(x)
               /\ Busy(x)' <=> x = queue[1] \/ Busy(x)
    <3>1. InQueue(x) => x = queue[1] \/ InQueue(x)'
      <4>1. ASSUME NEW i \in DOMAIN queue, queue[i] = x, i # 1 PROVE InQueue(x)'
        <5>1. i - 1 \in DOMAIN queue' /\ queue'[i - 1] = x
          BY <2>1, <2>4, <4>1
        <5> QED
          BY <5>1 DEF InQueue
      <4> QED
        BY <4>1 DEF InQueue
    <3>2. x = queue[1] \/ InQueue(x)' => InQueue(x)
      <4>1. 1 \in DOMAIN queue /\ \A i \in DOMAIN queue' : i + 1 \in DOMAIN queue
        BY <2>1, <2>4
      <4> QED
        BY <2>1, <2>4, <4>1 DEF InQueue
    <3>3. x # None
      BY ItemFacts
    <3>4. InHands(x)' <=> x = queue[1] \/ InHands(x)
      BY <2>2, <2>3, <3>3 DEF InHands
    <3>5. Busy(x)' <=> x = queue[1] \/ Busy(x)
      BY <2>2, <2>3, <3>3 DEF Busy
    <3> QED
      BY <3>1, <3>2, <3>4, <3>5
  <2>6. ASSUME NEW x \in Item PROVE Pending(x)' <=> Pending(x)
    <3>1. InQueue(x)' \/ Busy(x)' <=> InQueue(x) \/ Busy(x)
      BY <2>5
    <3>2. SameTurn(x[1])
      BY <1>1, ItemFacts
    <3> QED
      BY <3>1, <3>2 DEF Pending, SameTurn
  <2>7. RanOnce'
    BY <1>2, <2>2, <2>6, RanNone
  <2>8. AllPushed'
    BY <1>1, <2>5, ItemFacts DEF AllPushed, Pushed, SameTurn
  <2>9. Unique'
    <3>1. \A i, j \in DOMAIN queue' : queue'[i] = queue'[j] => i = j
      <4>1. \A i \in DOMAIN queue' : i + 1 \in DOMAIN queue /\ i \in Int
        BY <2>1, <2>4
      <4> QED
        BY <2>1, <2>4, <4>1 DEF Unique
    <3>2. ASSUME NEW v \in Thread, NEW i \in DOMAIN queue' PROVE holding'[v] # queue'[i]
      <4>1. i + 1 \in DOMAIN queue /\ i + 1 # 1 /\ 1 \in DOMAIN queue /\ queue'[i] = queue[i + 1]
        BY <2>1, <2>4
      <4> QED
        BY <2>2, <4>1 DEF Unique
    <3>3. \A u, v \in Thread : holding'[u] = holding'[v] /\ holding'[u] # None => u = v
      <4>1. 1 \in DOMAIN queue
        BY <2>1, <2>4
      <4> QED
        BY <2>2, <4>1 DEF Unique
    <3> QED
      BY <3>1, <3>2, <3>3 DEF Unique
  <2> QED
    BY <1>3, <2>7, <2>8, <2>9
<1> QED
  BY <1>4, <1>5

\* The task a worker is done with is pending nowhere else, as it is held once.
LEMMA DropFacts ==
  ASSUME IInv, ReturnInv, NEW w \in Thread, NEW x, x = holding[w], x # None,
         UNCHANGED <<queue, at, level, outcome>>,
         \A v \in Thread : v # w => worker'[v] = worker[v] /\ holding'[v] = holding[v],
         worker'[w] # "busy", holding'[w] = x \/ holding'[w] = None
  PROVE  /\ x \in Item /\ x[1] \in Group
         /\ ~ Fresh(x[1]) /\ Open(x[1])
         /\ worker[w] = "busy" => Pending(x)
         /\ ~ Pending(x)'
         /\ \A y \in Item : y # x => (Pending(y)' <=> Pending(y))
         /\ AllPushed' /\ Unique'
<1> USE DEF ReturnInv
<1>1. x \in Item /\ x[1] \in Group
  BY HeldIsCounted
<1>2. \A g \in Group : SameTurn(g)
  BY SameTurns
<1>3. x[2] # 1 /\ ~ Fresh(x[1])
  BY <1>1 DEF AllPushed, InHands, Pushed
<1>4. ~ InQueue(x) /\ InQueue(x)' = InQueue(x)
  BY DEF Unique, InQueue
<1>5. ~ Busy(x)' /\ (worker[w] = "busy" => Busy(x))
  BY DEF Unique, Busy
<1>6. ASSUME NEW y \in Item, y # x PROVE Pending(y)' <=> Pending(y)
  <2>1. y # None /\ SameTurn(y[1])
    BY <1>2, ItemFacts
  <2>2. Busy(y)' <=> Busy(y)
    BY <1>6, <2>1 DEF Busy
  <2> QED
    BY <2>1, <2>2 DEF Pending, InQueue, SameTurn
<1>7. worker[w] = "busy" => Pending(x)
  BY <1>3, <1>5 DEF Pending
<1>8. ~ Pending(x)'
  BY <1>1, <1>2, <1>3, <1>4, <1>5 DEF Pending, SameTurn
<1>9. AllPushed' /\ Unique'
  BY <1>2, HandsKeep DEF IInv, SameTurn
<1>10. Open(x[1])
  BY NothingLeft DEF NoDanglingItem
<1> QED
  BY <1>1, <1>3, <1>6, <1>7, <1>8, <1>9, <1>10

\* A task that returns has run.
LEMMA RunKeeps ==
  ASSUME IInv, ReturnInv, NEW w \in Thread, WorkerRun(w)
  PROVE  ReturnInv'
<1> DEFINE x == holding[w]
<1>1. worker[w] = "busy" /\ x # None
  BY DEF WorkerRun, IInv, BusyHolds
<1>2. /\ UNCHANGED <<queue, at, level, outcome, error, first, callerError>>
      /\ \A v \in Thread : v # w => worker'[v] = worker[v] /\ holding'[v] = holding[v]
      /\ worker'[w] = "check" /\ holding'[w] = None
      /\ RunBody(x)
  BY DEF WorkerRun, FinishItem, IInv, TypeOK
<1>3. PICK y : y = x
  OBVIOUS
<1> HIDE DEF x
<1>4. /\ y \in Item /\ Pending(y) /\ ~ Pending(y)'
      /\ \A z \in Item : z # y => (Pending(z)' <=> Pending(z))
      /\ AllPushed' /\ Unique'
  BY <1>1, <1>2, <1>3, DropFacts DEF x
<1>5. RanOnce'
  BY <1>2, <1>3, <1>4, RanOne DEF ReturnInv, IInv, Stopped
<1>6. Recorded' /\ Surfaces'
  BY <1>2, SameTurns, RecordsKeep DEF SameTurn, ReturnInv
<1> QED
  BY <1>4, <1>5, <1>6 DEF ReturnInv

\* One that throws has run too, and its exception is recorded.
LEMMA ThrowKeeps ==
  ASSUME IInv, ReturnInv, NEW w \in Thread, WorkerThrow(w)
  PROVE  ReturnInv'
<1> DEFINE x == holding[w]
<1>1. worker[w] = "busy" /\ x # None
  BY DEF WorkerThrow, IInv, BusyHolds
<1>2. /\ UNCHANGED <<queue, holding, at, level, outcome, callerError>>
      /\ \A v \in Thread : v # w => worker'[v] = worker[v]
      /\ worker'[w] = "threw"
      /\ RunBody(x) /\ NoteThrow(x)
      /\ error' = [error EXCEPT ![x[1]] = IF @ = None THEN x ELSE @]
  BY DEF WorkerThrow, IInv, TypeOK
<1>3. PICK y : y = x
  OBVIOUS
<1> HIDE DEF x
<1>4. /\ y \in Item /\ y[1] \in Group /\ Pending(y) /\ ~ Pending(y)'
      /\ ~ Fresh(y[1]) /\ Open(y[1])
      /\ \A z \in Item : z # y => (Pending(z)' <=> Pending(z))
      /\ AllPushed' /\ Unique'
  BY <1>1, <1>2, <1>3, DropFacts DEF x
<1>5. RanOnce'
  BY <1>2, <1>3, <1>4, RanOne DEF ReturnInv, IInv, Stopped
<1>6. \A g \in Group : SameTurn(g)
  BY <1>2, SameTurns
<1>7. \A g \in Group :
        /\ first'[g] = IF g = y[1] /\ first[g] = None THEN y ELSE first[g]
        /\ error'[g] = IF g = y[1] /\ error[g] = None THEN y ELSE error[g]
  BY <1>2, <1>3, <1>4 DEF NoteThrow, IInv, TypeOK
<1>8. Recorded'
  BY <1>1, <1>2, <1>3, <1>7 DEF Recorded, ReturnInv
<1>9. Surfaces'
  BY <1>2, <1>4, <1>6, <1>7 DEF Surfaces, SameTurn, Open, ReturnInv
<1> QED
  BY <1>4, <1>5, <1>8, <1>9 DEF ReturnInv

\* Then it is counted down.
LEMMA ThrownKeeps ==
  ASSUME IInv, ReturnInv, NEW w \in Thread, WorkerThrown(w)
  PROVE  ReturnInv'
<1>1. /\ UNCHANGED <<queue, at, level, outcome, callerError, error, first, ran>>
      /\ \A v \in Thread : v # w => worker'[v] = worker[v] /\ holding'[v] = holding[v]
      /\ worker[w] = "threw" /\ worker'[w] = "check" /\ holding'[w] = None
  BY DEF WorkerThrown, FinishItem, IInv, TypeOK
<1>2. \A g \in Group : SameTurn(g)
  BY <1>1, SameTurns
<1>3. ASSUME NEW x \in Item PROVE Pending(x)' <=> Pending(x)
  <2>1. Busy(x)' <=> Busy(x)
    BY <1>1 DEF Busy
  <2> QED
    BY <1>1, <1>2, <2>1, ItemFacts DEF Pending, InQueue, SameTurn
<1>4. RanOnce'
  BY <1>1, <1>3, RanNone DEF ReturnInv, Stopped
<1>5. AllPushed' /\ Unique'
  BY <1>1, <1>2, HandsKeep DEF ReturnInv, IInv, SameTurn
<1>6. Recorded' /\ Surfaces'
  BY <1>1, <1>2, RecordsKeep DEF SameTurn, ReturnInv
<1> QED
  BY <1>4, <1>5, <1>6 DEF ReturnInv

--------------------------------------------------------------------------------

(***************************************************************************)
(* Callers.                                                                *)
(***************************************************************************)
\* A step after which the same tasks are pending, and nothing is recorded.
LEMMA QuietKeeps ==
  ASSUME IInv, ReturnInv,
         UNCHANGED <<queue, holding, outcome, callerError, error, first, ran>>,
         \A w \in Thread : worker'[w] = "busy" <=> worker[w] = "busy",
         \A g \in Group : Fresh(g)' => Fresh(g),
         \A x \in Item : OwnPending(x[1])' <=> OwnPending(x[1]),
         \A x \in Item : x[2] # 1 => (Fresh(x[1])' <=> Fresh(x[1]))
  PROVE  ReturnInv'
<1>1. ASSUME NEW x \in Item PROVE Pending(x)' <=> Pending(x)
  BY DEF Pending, InQueue, Busy
<1>2. RanOnce'
  BY <1>1, RanNone DEF ReturnInv, Stopped
<1>3. AllPushed' /\ Unique'
  BY HandsKeep DEF ReturnInv, IInv
<1>4. Recorded' /\ Surfaces'
  BY RecordsKeep DEF ReturnInv
<1> QED
  BY <1>2, <1>3, <1>4 DEF ReturnInv

\* A single task is about to be run in place.
LEMMA SingleKeeps ==
  ASSUME IInv, ReturnInv, NEW c \in Caller, CallSingle(c)
  PROVE  ReturnInv'
<1>1. PICK h : h = Call(c)
  OBVIOUS
<1>2. /\ at[c] = "call" /\ at'[c] = "own" /\ Size(h) = 1
      /\ UNCHANGED <<queue, worker, holding, level, outcome, callerError, error, first, ran>>
  BY <1>1 DEF CallSingle, IInv, TypeOK
<1>3. /\ \A g \in Group : g # h => SameTurn(g)
      /\ OwnPending(h) /\ OwnPending(h)' /\ ~ Fresh(h)'
  BY <1>1, <1>2, MoveTurn DEF CallerStep
<1>4. \A x \in Item : x[1] \in Group /\ (x[2] # 1 => x[1] # h)
  BY <1>2, PairFacts
<1> QED
  BY <1>2, <1>3, <1>4, QuietKeeps DEF SameTurn

\* The workers are woken.
LEMMA NotifyKeeps ==
  ASSUME IInv, ReturnInv, NEW c \in Caller, CallNotify(c)
  PROVE  ReturnInv'
<1>1. PICK h : h = Call(c)
  OBVIOUS
<1>2. /\ at[c] = "notify" /\ at'[c] = "own"
      /\ UNCHANGED <<queue, holding, level, outcome, callerError, error, first, ran>>
      /\ \A w \in Thread : worker'[w] = "busy" <=> worker[w] = "busy"
  BY DEF CallNotify, NotifyAll, IInv, TypeOK
<1>3. /\ \A g \in Group : g # h => SameTurn(g)
      /\ OwnPending(h) /\ OwnPending(h)' /\ ~ Fresh(h)' /\ ~ Fresh(h)
  BY <1>1, <1>2, MoveTurn DEF CallerStep
<1> QED
  BY <1>2, <1>3, ItemFacts, QuietKeeps DEF SameTurn

\* The first task turns out to be a call.
LEMMA NestedKeeps ==
  ASSUME IInv, ReturnInv, NEW c \in Caller, CallNested(c)
  PROVE  ReturnInv'
<1>1. UNCHANGED <<queue, worker, holding, outcome, callerError, error, first, ran>>
  BY DEF CallNested
<1> QED
  BY <1>1, NestTurn, ItemFacts, QuietKeeps DEF SameTurn

\* The destructor runs no task.
LEMMA DestroyKeeps ==
  ASSUME IInv, ReturnInv, DestroyStep \/ UNCHANGED vars
  PROVE  ReturnInv'
<1>1. /\ UNCHANGED <<queue, holding, at, level, outcome, callerError, error, first, ran>>
      /\ \A w \in Thread : worker'[w] = "busy" <=> worker[w] = "busy"
  BY DEF DestroyStep, DestroyFlag, DestroyNotify, DestroyJoin, NotifyAll, vars, IInv, TypeOK
<1> QED
  BY <1>1, SameTurns, ItemFacts, QuietKeeps DEF SameTurn

\* The caller's own task has run.
LEMMA OwnKeeps ==
  ASSUME IInv, ReturnInv, NEW c \in Caller, RunOwn(c)
  PROVE  ReturnInv'
<1>1. PICK h : h = Call(c)
  OBVIOUS
<1> DEFINE x == <<h, 1>>
<1>2. /\ at[c] = "own" /\ at'[c] = "wait"
      /\ UNCHANGED <<queue, worker, holding, level, outcome, error>>
      /\ RunBody(x)
      /\ \/ UNCHANGED <<callerError, first>>
         \/ /\ callerError' = [callerError EXCEPT ![h] = x]
            /\ NoteThrow(x)
  BY <1>1 DEF RunOwn, Own, IInv, TypeOK
<1>3. /\ h \in Group
      /\ \A g \in Group : g # h => SameTurn(g)
      /\ Open(h) /\ outcome'[h] = outcome[h]
      /\ OwnPending(h) /\ ~ OwnPending(h)' /\ ~ Fresh(h)' /\ ~ Fresh(h)
  BY <1>1, <1>2, MoveTurn DEF CallerStep
<1>4. x \in Item /\ x[1] = h /\ x[2] = 1 /\ x # None
  <2>1. 1 <= Size(Call(c))
    BY <1>2, Zenon DEF IInv, CallsOpen, CallOpen
  <2>2. Size(h) \in Nat
    BY <1>3, ItemFacts
  <2>3. 1 \in 1 .. Size(h)
    BY <1>1, <2>1, <2>2
  <2> QED
    BY <1>3, <2>3, ItemFacts
<1>5. \A y \in Item : y # x => y[2] # 1 \/ y[1] # h
  BY PairFacts
<1> HIDE DEF x
<1>6. Pending(x) /\ ~ Pending(x)'
  BY <1>3, <1>4 DEF Pending
<1>7. ASSUME NEW y \in Item, y # x PROVE Pending(y)' <=> Pending(y)
  <2>1. y[1] \in Group /\ (y[2] # 1 \/ y[1] # h)
    BY <1>5, <1>7, ItemFacts
  <2>2. (InQueue(y)' <=> InQueue(y)) /\ (Busy(y)' <=> Busy(y))
    BY <1>2 DEF InQueue, Busy
  <2>3. Fresh(y[1])' <=> Fresh(y[1])
    BY <1>3, <2>1 DEF SameTurn
  <2>4. y[2] = 1 => (OwnPending(y[1])' <=> OwnPending(y[1]))
    BY <1>3, <2>1 DEF SameTurn
  <2> QED
    BY <2>2, <2>3, <2>4 DEF Pending
<1>8. \A g \in Group : callerError'[g] = callerError[g] \/ callerError'[g] # None
  BY <1>2, <1>3, <1>4 DEF IInv, TypeOK
<1>9. RanOnce'
  BY <1>2, <1>4, <1>6, <1>7, <1>8, RanOne, StoppedStays DEF ReturnInv, IInv
<1>10. AllPushed' /\ Unique'
  BY <1>2, <1>3, HandsKeep DEF ReturnInv, IInv, SameTurn
<1>11. CASE UNCHANGED <<callerError, first>>
  BY <1>2, <1>3, <1>9, <1>10, <1>11, RecordsKeep DEF ReturnInv, SameTurn
<1>12. CASE /\ callerError' = [callerError EXCEPT ![h] = x]
            /\ NoteThrow(x)
  <2>1. \A g \in Group :
          /\ first'[g] = IF g = h /\ first[g] = None THEN x ELSE first[g]
          /\ callerError'[g] = IF g = h THEN x ELSE callerError[g]
    BY <1>3, <1>4, <1>12 DEF NoteThrow, IInv, TypeOK
  <2>2. Recorded'
    BY <1>2, <1>4, <2>1 DEF Recorded, ReturnInv
  <2>3. Surfaces'
    BY <1>2, <1>3, <2>1 DEF Surfaces, SameTurn, Open, ReturnInv
  <2> QED
    BY <1>9, <1>10, <2>2, <2>3 DEF ReturnInv
<1> QED
  BY <1>2, <1>11, <1>12

\* A call that has not begun has nothing queued, held or recorded.
LEMMA FreshFacts ==
  ASSUME IInv, ReturnInv, NEW h \in Group, Fresh(h)
  PROVE  /\ \A x \in ItemsOf(h) : ~ InQueue(x) /\ ~ InHands(x) /\ ~ Busy(x)
         /\ \A x \in ItemsOf(h) : x[2] # 1 => Pending(x)
         /\ first[h] = None /\ callerError[h] = None /\ error[h] = None
<1>1. ASSUME NEW x \in ItemsOf(h) PROVE ~ InQueue(x) /\ ~ InHands(x) /\ ~ Busy(x)
  <2>1. x \in Item /\ x[1] = h
    BY DEF ItemsOf
  <2>2. ~ InQueue(x) /\ ~ InHands(x)
    BY <2>1 DEF ReturnInv, AllPushed, Pushed
  <2> QED
    BY <2>2 DEF InHands, Busy
<1>2. \A x \in ItemsOf(h) : x[2] # 1 => Pending(x)
  BY DEF ItemsOf, Pending
<1>3. first[h] = None /\ callerError[h] = None /\ error[h] = None
  BY DEF ReturnInv, Recorded, Surfaces
<1> QED
  BY <1>1, <1>2, <1>3

\* Run in place, the tasks up to the first that throws have run.
LEMMA InlineKeeps ==
  ASSUME IInv, ReturnInv, NEW c \in Caller, CallInline(c)
  PROVE  ReturnInv'
<1>1. PICK h : h = Call(c)
  OBVIOUS
<1>2. /\ at[c] = "call" /\ at'[c] = "wait" /\ RunsInline(c)
      /\ UNCHANGED <<queue, worker, holding, level, outcome, error>>
  BY DEF CallInline, IInv, TypeOK
<1>3. PICK k \in 1 .. Size(h) :
        /\ ran' = [x \in Item |-> IF x[1] = h /\ x[2] <= k THEN ran[x] + 1 ELSE ran[x]]
        /\ \/ k = Size(h) /\ UNCHANGED <<callerError, first>>
           \/ /\ callerError' = [callerError EXCEPT ![h] = <<h, k>>]
              /\ NoteThrow(<<h, k>>)
  BY <1>1 DEF CallInline
<1>4. /\ h \in Group /\ h[1] = c
      /\ \A g \in Group : g # h => SameTurn(g)
      /\ Open(h) /\ outcome'[h] = outcome[h]
      /\ Fresh(h) /\ OwnPending(h) /\ ~ OwnPending(h)' /\ ~ Fresh(h)'
  BY <1>1, <1>2, MoveTurn DEF CallerStep
<1>5. \A x \in ItemsOf(h) : Pending(x) /\ ~ Pending(x)'
  <2> SUFFICES ASSUME NEW x \in ItemsOf(h) PROVE Pending(x) /\ ~ Pending(x)'
    OBVIOUS
  <2>1. x[1] = h /\ ~ InQueue(x) /\ ~ Busy(x)
    BY <1>4, FreshFacts DEF ItemsOf
  <2>2. ~ InQueue(x)' /\ ~ Busy(x)'
    BY <1>2, <2>1 DEF InQueue, Busy
  <2> QED
    BY <1>4, <2>1, <2>2 DEF Pending
<1>6. ASSUME NEW x \in Item, x[1] # h PROVE Pending(x)' <=> Pending(x)
  <2>1. SameTurn(x[1])
    BY <1>4, <1>6, ItemFacts
  <2> QED
    BY <1>2, <2>1 DEF Pending, InQueue, Busy, SameTurn
<1>7. <<h, k>> \in Item /\ <<h, k>> # None /\ <<h, k>>[1] = h
  BY <1>4, ItemFacts
<1>8. \/ k = Size(h) /\ UNCHANGED <<callerError, first>>
      \/ \A g \in Group :
           /\ first'[g] = IF g = h /\ first[g] = None THEN <<h, k>> ELSE first[g]
           /\ callerError'[g] = IF g = h THEN <<h, k>> ELSE callerError[g]
  BY <1>3, <1>4, <1>7 DEF NoteThrow, IInv, TypeOK
<1>9. RanOnce'
  <2> SUFFICES ASSUME NEW x \in Item
               PROVE  /\ Pending(x)' => ran'[x] = 0
                      /\ ~ Pending(x)' /\ ~ Stopped(x[1])' => ran'[x] = 1
    BY DEF RanOnce
  <2>1. CASE x[1] # h
    <3>1. x[1] \in Group /\ callerError'[x[1]] = callerError[x[1]]
      BY <1>8, <2>1, ItemFacts
    <3>2. ran'[x] = ran[x]
      BY <1>3, <2>1
    <3> QED
      BY <1>6, <2>1, <3>1, <3>2 DEF RanOnce, ReturnInv, Stopped
  <2>2. CASE x[1] = h
    <3>1. Pending(x) /\ ~ Pending(x)' /\ ran[x] = 0
      BY <1>5, <2>2 DEF ItemsOf, RanOnce, ReturnInv
    <3>2. CASE k = Size(h)
      <4>1. x[2] <= k
        BY <2>2, <3>2, PairFacts
      <4> QED
        BY <1>3, <2>2, <3>1, <4>1
    <3>3. CASE callerError'[h] # None
      BY <1>2, <1>4, <2>2, <3>1, <3>3 DEF Stopped, RunsInline
    <3> QED
      BY <1>4, <1>7, <1>8, <3>2, <3>3
  <2> QED
    BY <2>1, <2>2
<1>10. AllPushed' /\ Unique'
  BY <1>2, <1>4, HandsKeep DEF ReturnInv, IInv, SameTurn
<1>11. Recorded'
  BY <1>2, <1>7, <1>8 DEF Recorded, ReturnInv
<1>12. Surfaces'
  BY <1>2, <1>4, <1>8 DEF Surfaces, SameTurn, Open, ReturnInv
<1> QED
  BY <1>9, <1>10, <1>11, <1>12 DEF ReturnInv

\* Queued, the tasks but the first are pending still, and each is queued once.
LEMMA PushKeeps ==
  ASSUME IInv, ReturnInv, NEW c \in Caller, CallPush(c)
  PROVE  ReturnInv'
<1>1. PICK h : h = Call(c)
  OBVIOUS
<1>2. PICK new : new = [i \in 1 .. Size(h) - 1 |-> <<h, i + 1>>]
  OBVIOUS
<1>3. /\ at[c] = "call" /\ at'[c] = "notify"
      /\ queue' = queue \o new
      /\ UNCHANGED <<worker, holding, level, outcome, error, callerError, first, ran>>
  BY <1>1, <1>2 DEF CallPush, IInv, TypeOK
<1>4. /\ h \in Group /\ h[1] = c
      /\ \A g \in Group : g # h => SameTurn(g)
      /\ Open(h) /\ outcome'[h] = outcome[h]
      /\ Fresh(h) /\ OwnPending(h) /\ OwnPending(h)' /\ ~ Fresh(h)'
  BY <1>1, <1>3, MoveTurn DEF CallerStep
<1>5. Size(h) \in Nat /\ \A i \in 1 .. Size(h) - 1 : new[i] = <<h, i + 1>> /\ new[i] \in Item
  <2>1. Size(h) \in Nat
    BY <1>4, ItemFacts
  <2>2. \A i \in 1 .. Size(h) - 1 : i + 1 \in 1 .. Size(h)
    BY <2>1
  <2> QED
    BY <1>2, <1>4, <2>1, <2>2, ItemFacts
<1>6. /\ new \in Seq(Item) /\ queue \in Seq(Item)
      /\ Len(new) \in Nat /\ DOMAIN new = 1 .. Len(new)
      /\ Len(queue) \in Nat /\ DOMAIN queue = 1 .. Len(queue)
      /\ Size(h) # 0 => Len(new) = Size(h) - 1
      /\ \A i \in 1 .. Len(new) : new[i] = <<h, i + 1>>
  <2>1. Size(h) \in Nat \ {0}
    BY <1>1, <1>5 DEF CallPush
  <2>2. new \in Seq(Item) /\ Len(new) = Size(h) - 1
    BY <1>2, <1>5, <2>1
  <2> QED
    BY <1>5, <2>1, <2>2 DEF IInv, TypeOK
<1>7. /\ DOMAIN queue' = 1 .. (Len(queue) + Len(new))
      /\ \A i \in 1 .. Len(queue) : queue'[i] = queue[i]
      /\ \A i \in 1 .. Len(new) : queue'[Len(queue) + i] = new[i]
      /\ \A i \in DOMAIN queue' : i \notin 1 .. Len(queue) =>
           /\ i - Len(queue) \in 1 .. Len(new)
           /\ queue'[i] = new[i - Len(queue)]
  BY <1>3, <1>6
<1>8. ASSUME NEW x \in Item
      PROVE  InQueue(x)' <=> InQueue(x) \/ \E i \in 1 .. Len(new) : new[i] = x
  <2>1. InQueue(x) => InQueue(x)'
    BY <1>6, <1>7 DEF InQueue
  <2>2. ASSUME NEW i \in 1 .. Len(new), new[i] = x PROVE InQueue(x)'
    <3>1. Len(queue) + i \in DOMAIN queue'
      BY <1>6, <1>7
    <3> QED
      BY <1>7, <2>2, <3>1 DEF InQueue
  <2>3. InQueue(x)' => InQueue(x) \/ \E i \in 1 .. Len(new) : new[i] = x
    BY <1>6, <1>7 DEF InQueue
  <2> QED
    BY <2>1, <2>2, <2>3
<1>9. ASSUME NEW x \in Item PROVE (\E i \in 1 .. Len(new) : new[i] = x) <=> x[1] = h /\ x[2] # 1
  <2>1. x = <<x[1], x[2]>> /\ x[2] \in 1 .. Size(x[1])
    BY PairFacts
  <2>2. ASSUME x[1] = h, x[2] # 1 PROVE \E i \in 1 .. Len(new) : new[i] = x
    <3>1. x[2] - 1 \in 1 .. Len(new) /\ new[x[2] - 1] = <<h, x[2] - 1 + 1>>
      BY <1>5, <1>6, <2>1, <2>2
    <3>2. x[2] - 1 + 1 = x[2]
      BY <1>5, <2>1, <2>2
    <3> QED
      BY <2>1, <2>2, <3>1, <3>2
  <2>3. ASSUME NEW i \in 1 .. Len(new), new[i] = x PROVE x[1] = h /\ x[2] # 1
    <3>1. x[1] = h /\ x[2] = i + 1
      BY <1>6, <2>3
    <3> QED
      BY <1>6, <3>1
  <2> QED
    BY <2>2, <2>3
<1>10. ASSUME NEW x \in Item PROVE Pending(x)' <=> Pending(x)
  <2>1. Busy(x)' <=> Busy(x)
    BY <1>3 DEF Busy
  <2>2. CASE x[1] # h
    <3>1. (InQueue(x)' <=> InQueue(x)) /\ SameTurn(x[1])
      BY <1>4, <1>8, <1>9, <2>2, ItemFacts
    <3> QED
      BY <2>1, <3>1 DEF Pending, SameTurn
  <2>3. CASE x[1] = h
    <3>1. x[2] # 1 => InQueue(x)'
      BY <1>8, <1>9, <2>3
    <3> QED
      BY <1>4, <2>3, <3>1 DEF Pending
  <2> QED
    BY <2>2, <2>3
<1>11. RanOnce'
  BY <1>3, <1>10, RanNone DEF ReturnInv, Stopped
<1>12. AllPushed'
  <2> SUFFICES ASSUME NEW x \in Item, InQueue(x)' \/ InHands(x)' PROVE Pushed(x)'
    BY DEF AllPushed
  <2>1. InHands(x)' <=> InHands(x)
    BY <1>3 DEF InHands
  <2>2. x[1] \in Group /\ (~ Fresh(x[1]) => ~ Fresh(x[1])')
    BY <1>4, ItemFacts DEF SameTurn
  <2>3. CASE InQueue(x) \/ InHands(x)
    BY <2>2, <2>3 DEF ReturnInv, AllPushed, Pushed
  <2>4. CASE x[1] = h /\ x[2] # 1
    BY <1>4, <2>4 DEF Pushed
  <2> QED
    BY <1>8, <1>9, <2>1, <2>3, <2>4
<1>13. \A i \in 1 .. Len(new) :
         /\ \A j \in 1 .. Len(queue) : queue[j] # new[i]
         /\ \A w \in Thread : holding[w] # new[i]
  <2> SUFFICES ASSUME NEW i \in 1 .. Len(new)
               PROVE  ~ InQueue(new[i]) /\ ~ InHands(new[i])
    BY <1>6 DEF InQueue, InHands
  <2>1. PICK x : x = new[i]
    OBVIOUS
  <2>2. x \in ItemsOf(h)
    BY <1>6, <2>1 DEF ItemsOf
  <2>3. ~ InQueue(x) /\ ~ InHands(x)
    BY <1>4, <2>2, FreshFacts
  <2> QED
    BY <2>1, <2>3
<1>14. Unique'
  <2>1. ASSUME NEW i \in DOMAIN queue', NEW j \in DOMAIN queue', queue'[i] = queue'[j] PROVE i = j
    <3>1. CASE i \in 1 .. Len(queue) /\ j \in 1 .. Len(queue)
      BY <1>6, <1>7, <2>1, <3>1 DEF ReturnInv, Unique
    <3>2. CASE i \notin 1 .. Len(queue) /\ j \notin 1 .. Len(queue)
      <4>1. /\ i - Len(queue) \in 1 .. Len(new) /\ j - Len(queue) \in 1 .. Len(new)
            /\ new[i - Len(queue)] = new[j - Len(queue)]
        BY <1>7, <2>1, <3>2
      <4>2. \A a, b \in 1 .. Len(new) : new[a] = new[b] => a = b
        BY <1>6
      <4>3. i - Len(queue) = j - Len(queue)
        BY <4>1, <4>2
      <4> QED
        BY <1>6, <1>7, <4>3
    <3> QED
      BY <1>7, <1>13, <2>1, <3>1, <3>2
  <2>2. \A w \in Thread : \A i \in DOMAIN queue' : holding'[w] # queue'[i]
    BY <1>3, <1>6, <1>7, <1>13 DEF ReturnInv, Unique
  <2>3. \A w, v \in Thread : holding'[w] = holding'[v] /\ holding'[w] # None => w = v
    BY <1>3 DEF ReturnInv, Unique
  <2> QED
    BY <2>1, <2>2, <2>3 DEF Unique
<1>15. Recorded' /\ Surfaces'
  BY <1>3, <1>4, RecordsKeep DEF ReturnInv, SameTurn
<1> QED
  BY <1>11, <1>12, <1>14, <1>15 DEF ReturnInv

\* The end of a call: its tasks stay as they are, and the end of a nested call
\* is also the end of tasks[0] around it.
LEMMA LeaveKeeps ==
  ASSUME IInv, ReturnInv, NEW c \in Caller, NEW h, h = Call(c), NEW result, result # None,
         Leave(c, result), CallerStep(c), at[c] \in {"call", "wait"},
         UNCHANGED <<queue, worker, holding, error>>,
         result = <<"ok">> <=> first[h] = None,
         at[c] = "call" => ItemsOf(h) = {}
  PROVE  ReturnInv'
<1>1. /\ h \in Group
      /\ Open(h) /\ ~ Open(h)' /\ outcome'[h] = result
      /\ ~ Fresh(h)' /\ ~ OwnPending(h)'
      /\ at[c] = "wait" => ~ OwnPending(h) /\ ~ Fresh(h)
  BY LeaveOwn
<1>2. \A x \in Item : (InQueue(x)' <=> InQueue(x)) /\ (Busy(x)' <=> Busy(x))
  BY DEF InQueue, Busy
<1>3. ASSUME NEW x \in Item, x[1] = h PROVE Pending(x)' <=> Pending(x)
  <2>1. at[c] = "wait"
    BY <1>3 DEF ItemsOf
  <2> QED
    BY <1>1, <1>2, <1>3, <2>1 DEF Pending
<1>4. CASE level[c] # 2
  <2>1. UNCHANGED <<callerError, first, ran>>
    BY <1>4 DEF Leave
  <2>2. \A g \in Group : g # h => SameTurn(g)
    BY <1>4, LeaveTurn
  <2>3. ASSUME NEW x \in Item PROVE Pending(x)' <=> Pending(x)
    <3>1. CASE x[1] # h
      <4>1. SameTurn(x[1])
        BY <2>2, <3>1, ItemFacts
      <4> QED
        BY <1>2, <4>1 DEF Pending, SameTurn
    <3> QED
      BY <1>3, <3>1
  <2>4. RanOnce'
    BY <2>1, <2>3, RanNone DEF ReturnInv, Stopped
  <2>5. AllPushed' /\ Unique'
    BY <1>1, <2>2, HandsKeep DEF ReturnInv, IInv, SameTurn
  <2>6. Recorded'
    BY <2>1 DEF Recorded, ReturnInv
  <2>7. Surfaces'
    BY <1>1, <2>1, <2>2 DEF Surfaces, SameTurn, Open, ReturnInv
  <2> QED
    BY <2>4, <2>5, <2>6, <2>7 DEF ReturnInv
<1>5. CASE level[c] = 2
  <2> DEFINE o == <<c, 1>>
             x == <<o, 1>>
  <2>1. /\ h = <<c, 2>> /\ o \in Group /\ x \in Item
        /\ \A g \in Group : g # h /\ g # o => SameTurn(g)
        /\ outcome'[o] = outcome[o] /\ Open(o) /\ Open(o)'
        /\ ~ Fresh(o) /\ ~ Fresh(o)'
        /\ OwnPending(o) /\ ~ OwnPending(o)'
    BY <1>5, LeaveTurn
  <2>2. /\ RunBody(x)
        /\ \/ result = <<"ok">> /\ UNCHANGED <<callerError, first>>
           \/ /\ callerError' = [callerError EXCEPT ![o] = x]
              /\ NoteThrow(x)
    BY <1>5 DEF Leave
  <2>3. x[1] = o /\ x[2] = 1 /\ x # None /\ o # h
    BY <2>1, ItemFacts
  <2>4. \A y \in Item : y # x => y[2] # 1 \/ y[1] # o
    BY PairFacts
  <2> HIDE DEF x, o
  <2>5. Pending(x) /\ ~ Pending(x)'
    BY <2>1, <2>3 DEF Pending
  <2>6. ASSUME NEW y \in Item, y # x PROVE Pending(y)' <=> Pending(y)
    <3>1. CASE y[1] = o
      BY <1>2, <2>1, <2>4, <2>6, <3>1 DEF Pending
    <3>2. CASE y[1] # o /\ y[1] # h
      <4>1. SameTurn(y[1])
        BY <2>1, <3>2, ItemFacts
      <4> QED
        BY <1>2, <4>1 DEF Pending, SameTurn
    <3> QED
      BY <1>3, <3>1, <3>2
  <2>7. \A g \in Group :
          \/ first'[g] = first[g] /\ callerError'[g] = callerError[g]
          \/ g = o /\ first'[g] # None /\ callerError'[g] = x
    BY <2>1, <2>2, <2>3 DEF NoteThrow, IInv, TypeOK
  <2>8. RanOnce'
    BY <2>1, <2>2, <2>3, <2>5, <2>6, <2>7, RanOne, StoppedStays DEF ReturnInv, IInv
  <2>9. AllPushed' /\ Unique'
    BY <1>1, <2>1, HandsKeep DEF ReturnInv, IInv, SameTurn
  <2>10. Recorded'
    BY <2>3, <2>7 DEF Recorded, ReturnInv
  <2>11. Surfaces'
    BY <1>1, <2>1, <2>3, <2>7 DEF Surfaces, SameTurn, Open, ReturnInv
  <2> QED
    BY <2>8, <2>9, <2>10, <2>11 DEF ReturnInv
<1> QED
  BY <1>4, <1>5

\* A call without tasks.
LEMMA EmptyKeeps ==
  ASSUME IInv, ReturnInv, NEW c \in Caller, CallEmpty(c)
  PROVE  ReturnInv'
<1>1. PICK h : h = Call(c)
  OBVIOUS
<1>2. /\ at[c] = "call" /\ Size(h) = 0 /\ Leave(c, <<"ok">>) /\ <<"ok">> # None
      /\ UNCHANGED <<queue, worker, holding, error>>
  BY <1>1 DEF CallEmpty, None
<1>3. h \in Group /\ Fresh(h)
  <2>1. Open(Call(c)) /\ level[c] \in {1, 2} /\ h \in Group
    BY <1>1, <1>2, CallIsGroup, Zenon DEF IInv, CallsOpen, CallOpen
  <2>2. h[1] = c /\ h[2] = level[c]
    BY <1>1 DEF Call
  <2> QED
    BY <1>1, <1>2, <2>1, <2>2 DEF Fresh
<1>4. first[h] = None
  BY <1>3, FreshFacts
<1>5. ItemsOf(h) = {}
  BY <1>2, PairFacts DEF ItemsOf
<1> QED
  BY <1>1, <1>2, <1>4, <1>5, LeaveKeeps DEF CallerStep

\* A call that has waited for its group.
LEMMA AwaitKeeps ==
  ASSUME IInv, ReturnInv, NEW c \in Caller, AwaitGroup(c)
  PROVE  ReturnInv'
<1>1. PICK h : h = Call(c)
  OBVIOUS
<1>2. h \in Group
  BY <1>1, CallIsGroup DEF IInv
<1>3. PICK result :
        /\ Leave(c, result)
        /\ \/ callerError[h] # None /\ result = <<"threw", callerError[h]>>
           \/ callerError[h] = None /\ error[h] # None /\ result = <<"threw", error[h]>>
           \/ callerError[h] = None /\ error[h] = None /\ result = <<"ok">>
  BY <1>1 DEF AwaitGroup
<1>4. result # None /\ (result = <<"ok">> <=> callerError[h] = None /\ error[h] = None)
  BY <1>3 DEF None
<1>5. result = <<"ok">> <=> first[h] = None
  BY <1>2, <1>4 DEF ReturnInv, Recorded
<1>6. at[c] = "wait" /\ UNCHANGED <<queue, worker, holding, error>>
  BY DEF AwaitGroup
<1> QED
  BY <1>1, <1>3, <1>4, <1>5, <1>6, LeaveKeeps DEF CallerStep

--------------------------------------------------------------------------------

\* Before the first call every task is pending.
LEMMA ReturnInit == Init => ReturnInv
<1> SUFFICES ASSUME Init PROVE ReturnInv
  OBVIOUS
<1>1. ASSUME NEW g \in Group PROVE Open(g) /\ Fresh(g) /\ OwnPending(g)
  <2>1. g[1] \in Caller
    BY PairFacts
  <2> QED
    BY <2>1 DEF Init, Open, Fresh, OwnPending
<1>2. RanOnce
  <2>1. \A x \in Item : Pending(x) /\ ran[x] = 0
    BY <1>1, ItemFacts DEF Pending, Init
  <2> QED
    BY <2>1 DEF RanOnce
<1>3. AllPushed
  BY ItemFacts DEF Init, AllPushed, InQueue, InHands
<1>4. Unique
  BY DEF Init, Unique
<1>5. Recorded /\ Surfaces
  BY <1>1 DEF Init, Recorded, Surfaces
<1> QED
  BY <1>2, <1>3, <1>4, <1>5 DEF ReturnInv

\* Every step of a worker, a caller or the destructor keeps the invariant,
LEMMA ReturnStep == IInv /\ ReturnInv /\ [Next]_vars => ReturnInv'
<1> SUFFICES ASSUME IInv, ReturnInv, [Next]_vars PROVE ReturnInv'
  OBVIOUS
<1>1. ASSUME NEW w \in Thread, WorkerStep(w) PROVE ReturnInv'
  BY <1>1, TakeKeeps, RunKeeps, ThrowKeeps, ThrownKeeps DEF WorkerStep
<1>2. ASSUME NEW c \in Caller, CallerStep(c) PROVE ReturnInv'
  BY <1>2, EmptyKeeps, SingleKeeps, InlineKeeps, PushKeeps, NotifyKeeps, OwnKeeps,
     NestedKeeps, AwaitKeeps
  DEF CallerStep
<1> QED
  BY <1>1, <1>2, DestroyKeeps DEF Next

\* and so it holds in every state.
LEMMA ReturnInvAlways == Spec => [](IInv /\ ReturnInv)
BY IInvInit, IInvStep, ReturnInit, ReturnStep, PTL DEF Spec

(***************************************************************************)
(* runAll returns when each of its tasks has run exactly once, on whatever *)
(* thread, and throws if and only if one of them did.                      *)
(***************************************************************************)
THEOREM ReturnedIsFinished == Spec => []ReturnsWhenFinished
<1>1. IInv /\ ReturnInv => ReturnsWhenFinished
  <2> SUFFICES ASSUME IInv, ReturnInv, NEW g \in Group, ~ Open(g)
               PROVE  /\ ~ RunsInline(g[1]) => \A x \in ItemsOf(g) : ran[x] = 1
                      /\ outcome[g] = <<"ok">> <=> first[g] = None
                      /\ outcome[g] = <<"ok">> => \A x \in ItemsOf(g) : ran[x] = 1
    BY DEF ReturnsWhenFinished
  <2>1. outcome[g] = <<"ok">> <=> first[g] = None
    BY DEF ReturnInv, Surfaces
  <2>2. first[g] = None => callerError[g] = None
    BY DEF ReturnInv, Recorded
  <2>3. ASSUME NEW x \in ItemsOf(g) PROVE ~ Pending(x)
    <3>1. x \in Item /\ x[1] = g
      BY DEF ItemsOf
    <3>2. ~ InQueue(x) /\ ~ Busy(x)
      BY <3>1, NothingLeft, ItemFacts DEF NoDanglingItem, InQueue, Busy
    <3> QED
      BY <3>1, <3>2 DEF Pending, OwnPending, Fresh
  <2>4. ASSUME NEW x \in ItemsOf(g), ~ RunsInline(g[1]) \/ callerError[g] = None
        PROVE  ran[x] = 1
    <3>1. x \in Item /\ x[1] = g
      BY DEF ItemsOf
    <3> QED
      BY <2>3, <2>4, <3>1 DEF ReturnInv, RanOnce, Stopped
  <2> QED
    BY <2>1, <2>2, <2>4
<1> QED
  BY <1>1, ReturnInvAlways, PTL

================================================================================
