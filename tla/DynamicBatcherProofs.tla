-------------------------- MODULE DynamicBatcherProofs --------------------------
(***************************************************************************)
(* Proofs about the DynamicBatcher, for every set of requests and stops,   *)
(* every batch size and with every way a batch can fail.                   *)
(*                                                                         *)
(* The argument: a request that waits is in the queue or in the part of    *)
(* the batch that has no value yet (Waiting).  The worker leaves only with *)
(* the flag set and both empty, and behind the flag nothing is pushed, so  *)
(* nobody waits once a stop() has joined it.                               *)
(*                                                                         *)
(* For the refinement of Batches: the rest of the batch and the queue make *)
(* one line.  Taking a batch moves nobody in it, a push appends to it, an  *)
(* answer takes its head, and a failed batch its first Len(batch); that a  *)
(* client which has not pushed is unanswered (Fresh), that a failure finds *)
(* somebody unanswered (FailedShape), and that no batch is larger than     *)
(* MaxBatch (BatchFits), are the invariants this needs.                    *)
(***************************************************************************)
EXTENDS DynamicBatcher, SequenceTheorems, TLAPS

InQueue(r) == \E i \in 1 .. Len(queue) : queue[i] = r
InHand(r) == \E i \in (sent + 1) .. Len(batch) : batch[i] = r

\* Where the worker is tells how far it is with the batch.
BatchShape ==
  /\ worker \in {"check", "waiting", "delaying", "gone"} => batch = <<>>
  /\ worker = "running" => sent = 0 /\ batch # <<>>
  /\ worker = "answering" => sent < Len(batch)
  /\ worker = "recording" => sent = Len(batch)

Waiting == \A r \in Request : answer[r] = "pending" => InQueue(r) \/ InHand(r)

GoneIsEmpty == worker = "gone" => stopping /\ queue = <<>>

JoinedIsGone == \A s \in Stopper : stopper[s] = "returned" => worker = "gone"

IInv == TypeOK /\ BatchShape /\ Waiting /\ GoneIsEmpty /\ JoinedIsGone

\* A batch takes at least one request, also when 0 was configured.
LEMMA BatchSize == MaxBatch \in Nat /\ MaxBatch >= 1
BY BatchAssumption DEF MaxBatch

--------------------------------------------------------------------------------

(***************************************************************************)
(* The batch is the head of the queue, and what stays is the rest.         *)
(***************************************************************************)
LEMMA TakeFacts ==
  ASSUME TypeOK, TakeBatch
  PROVE  /\ batch' \in Seq(Request) /\ queue' \in Seq(Request) /\ sent' = 0
         /\ queue = <<>> => worker' = "check" /\ batch' = <<>> /\ queue' = <<>>
         /\ queue # <<>> => worker' = "running" /\ batch' # <<>>
         /\ \A r : InQueue(r) => InQueue(r)' \/ InHand(r)'
<1> DEFINE take == IF Len(queue) < MaxBatch THEN Len(queue) ELSE MaxBatch
<1>1. /\ queue \in Seq(Request) /\ Len(queue) \in Nat
      /\ take \in 0 .. Len(queue)
      /\ take = 0 <=> Len(queue) = 0
  BY BatchSize DEF TypeOK
<1>2. /\ batch' = SubSeq(queue, 1, take)
      /\ queue' = SubSeq(queue, take + 1, Len(queue))
      /\ worker' = IF take = 0 THEN "check" ELSE "running"
      /\ sent' = 0
  BY DEF TakeBatch
<1> HIDE DEF take
<1>3. /\ batch' \in Seq(Request) /\ Len(batch') = take
      /\ \A i \in 1 .. take : batch'[i] = queue[i]
  BY <1>1, <1>2
<1>4. /\ queue' \in Seq(Request) /\ Len(queue') = Len(queue) - take
      /\ \A i \in 1 .. Len(queue) - take : queue'[i] = queue[take + i]
  BY <1>1, <1>2
<1>5. ASSUME NEW r, NEW i \in 1 .. Len(queue), queue[i] = r PROVE InQueue(r)' \/ InHand(r)'
  <2>1. CASE i <= take
    BY <1>1, <1>2, <1>3, <1>5, <2>1 DEF InHand
  <2>2. CASE i > take
    <3>1. i - take \in 1 .. Len(queue') /\ queue'[i - take] = r
      BY <1>1, <1>4, <1>5, <2>2
    <3> QED
      BY <3>1 DEF InQueue
  <2> QED
    BY <1>1, <2>1, <2>2
<1>6. \A r : InQueue(r) => InQueue(r)' \/ InHand(r)'
  BY <1>5 DEF InQueue
<1>7. queue = <<>> => worker' = "check" /\ batch' = <<>> /\ queue' = <<>>
  BY <1>1, <1>2, <1>3, <1>4
<1>8. queue # <<>> => worker' = "running" /\ batch' # <<>>
  <2> SUFFICES ASSUME queue # <<>> PROVE worker' = "running" /\ batch' # <<>>
    OBVIOUS
  <2>1. Len(queue) # 0
    BY <1>1
  <2>2. take # 0
    BY <1>1, <2>1
  <2> QED
    BY <1>2, <1>3, <2>2
<1> QED
  BY <1>2, <1>3, <1>4, <1>6, <1>7, <1>8

--------------------------------------------------------------------------------

\* The inductive invariant holds at the start.
LEMMA IInvInit == Init => IInv
<1> SUFFICES ASSUME Init PROVE IInv
  OBVIOUS
<1>1. TypeOK
  <2>1. queue \in Seq(Request) /\ batch \in Seq(Request)
    BY DEF Init
  <2>2. sent \in 0 .. Len(batch)
    BY DEF Init
  <2>3. stopping \in BOOLEAN
    BY DEF Init
  <2>4. /\ answer \in [Request -> {"none", "refused", "pending", "logits", "error"}]
        /\ client \in [Request -> {"before", "pushed", "returned"}]
        /\ stats \in [requests : Nat, batches : Nat, maxBatchObserved : Nat]
        /\ stopper \in [Stopper -> {"before", "flagged", "joining", "returned", "skipped"}]
    BY DEF Init
  <2> QED
    BY <2>1, <2>2, <2>3, <2>4 DEF Init, TypeOK
<1>2. BatchShape /\ GoneIsEmpty
  BY DEF Init, BatchShape, GoneIsEmpty
<1>3. Waiting /\ JoinedIsGone
  BY DEF Init, Waiting, JoinedIsGone
<1> QED
  BY <1>1, <1>2, <1>3 DEF IInv

\* Nobody loses the place it waits in.
LEMMA WaitingFrame ==
  ASSUME Waiting, UNCHANGED <<queue, batch, sent>>,
         \A r \in Request : answer'[r] = "pending" => answer[r] = "pending"
  PROVE  Waiting'
BY DEF Waiting, InQueue, InHand

\* enqueue keeps it: an accepted request waits in the queue.
LEMMA ClientKeeps ==
  ASSUME IInv, NEW r \in Request, ClientStep(r)
  PROVE  IInv'
<1> USE DEF IInv
<1>1. CASE Refuse(r)
  <2>1. TypeOK' /\ \A q \in Request : answer'[q] = "pending" => answer[q] = "pending"
    BY <1>1 DEF Refuse, TypeOK
  <2>2. BatchShape' /\ GoneIsEmpty' /\ JoinedIsGone'
    BY <1>1 DEF Refuse, BatchShape, GoneIsEmpty, JoinedIsGone
  <2> QED
    BY <1>1, <2>1, <2>2, WaitingFrame DEF Refuse
<1>2. CASE Push(r)
  <2>1. /\ queue' \in Seq(Request) /\ Len(queue') = Len(queue) + 1
        /\ \A i \in 1 .. Len(queue) : queue'[i] = queue[i]
        /\ queue'[Len(queue) + 1] = r
        /\ Len(queue) \in Nat
    BY <1>2 DEF Push, TypeOK
  <2>2. TypeOK'
    BY <1>2, <2>1 DEF Push, TypeOK
  <2>3. BatchShape' /\ JoinedIsGone'
    BY <1>2 DEF Push, BatchShape, JoinedIsGone
  <2>4. GoneIsEmpty'
    BY <1>2 DEF Push, GoneIsEmpty
  <2>5. InQueue(r)'
    BY <2>1 DEF InQueue
  <2>6. ASSUME NEW q \in Request, q # r, answer'[q] = "pending"
        PROVE  InQueue(q)' \/ InHand(q)'
    <3>1. InQueue(q) \/ InHand(q)
      BY <1>2, <2>6 DEF Push, TypeOK, Waiting
    <3>2. InHand(q) => InHand(q)'
      BY <1>2 DEF Push, InHand
    <3>3. InQueue(q) => InQueue(q)'
      BY <2>1 DEF InQueue
    <3> QED
      BY <3>1, <3>2, <3>3
  <2> QED
    BY <2>2, <2>3, <2>4, <2>5, <2>6 DEF Waiting
<1>3. CASE NotifyOne(r)
  <2>1. TypeOK'
    BY <1>3 DEF NotifyOne, Notify, TypeOK
  <2>2. BatchShape' /\ GoneIsEmpty' /\ JoinedIsGone'
    BY <1>3 DEF NotifyOne, Notify, BatchShape, GoneIsEmpty, JoinedIsGone
  <2> QED
    BY <1>3, <2>1, <2>2, WaitingFrame DEF NotifyOne
<1> QED
  BY <1>1, <1>2, <1>3 DEF ClientStep

\* The worker takes a batch: whoever waited in the queue waits on.
LEMMA TakeKeeps ==
  ASSUME IInv, TakeBatch, worker \in {"check", "delaying"},
         UNCHANGED <<stopping, answer, client, stats, stopper>>
  PROVE  IInv'
<1> USE DEF IInv
<1>1. batch = <<>> /\ worker # "gone"
  BY DEF BatchShape
<1>2. TypeOK'
  BY TakeFacts DEF TypeOK
<1>3. BatchShape' /\ GoneIsEmpty'
  BY TakeFacts DEF BatchShape, GoneIsEmpty
<1>4. JoinedIsGone'
  BY <1>1 DEF JoinedIsGone
<1>5. ASSUME NEW r \in Request, answer[r] = "pending" PROVE InQueue(r)' \/ InHand(r)'
  <2>1. ~ InHand(r)
    BY <1>1 DEF InHand, TypeOK
  <2> QED
    BY <1>5, <2>1, TakeFacts DEF Waiting
<1>6. Waiting'
  BY <1>5 DEF Waiting
<1> QED
  BY <1>2, <1>3, <1>4, <1>6

\* The worker keeps it, through answers, failures and its own end.
LEMMA WorkerKeeps ==
  ASSUME IInv, WorkerStep
  PROVE  IInv'
<1> USE DEF IInv
<1>1. worker # "gone"
  BY DEF WorkerStep, WorkerCheck, DelayOver, Forward, SetValue, Record, SetException
<1>2. JoinedIsGone'
  BY <1>1 DEF JoinedIsGone, WorkerStep, WorkerCheck, DelayOver, Forward, SetValue, Record,
     SetException
<1>3. CASE WorkerCheck
  <2>1. CASE TakeBatch
    BY <1>3, <2>1, TakeKeeps DEF WorkerCheck
  <2>2. CASE /\ worker' \in {"waiting", "delaying", "gone"}
             /\ worker' = "gone" => stopping /\ queue = <<>>
             /\ UNCHANGED <<queue, batch, sent>>
    <3>1. TypeOK' /\ BatchShape' /\ GoneIsEmpty'
      BY <1>3, <2>2 DEF WorkerCheck, TypeOK, BatchShape, GoneIsEmpty
    <3> QED
      BY <1>2, <1>3, <2>2, <3>1, WaitingFrame DEF WorkerCheck
  <2> QED
    BY <1>3, <2>1, <2>2 DEF WorkerCheck
<1>4. CASE DelayOver
  BY <1>4, TakeKeeps DEF DelayOver
<1>5. CASE Forward
  <2>1. sent = 0 /\ Len(batch) \in Nat /\ Len(batch) # 0
    BY <1>5 DEF Forward, BatchShape, TypeOK
  <2>2. TypeOK' /\ BatchShape' /\ GoneIsEmpty'
    BY <1>5, <2>1 DEF Forward, TypeOK, BatchShape, GoneIsEmpty
  <2> QED
    BY <1>2, <1>5, <2>2, WaitingFrame DEF Forward
<1>6. CASE SetValue
  <2>1. CASE UNCHANGED <<answer, sent>>
    <3>1. TypeOK' /\ BatchShape' /\ GoneIsEmpty'
      BY <1>6, <2>1 DEF SetValue, TypeOK, BatchShape, GoneIsEmpty
    <3> QED
      BY <1>2, <1>6, <2>1, <3>1, WaitingFrame DEF SetValue
  <2>2. CASE /\ answer' = [answer EXCEPT ![batch[sent + 1]] = "logits"]
             /\ sent' = sent + 1
             /\ worker' = IF sent' = Len(batch) THEN "recording" ELSE "answering"
    <3>1. sent \in Nat /\ Len(batch) \in Nat /\ sent < Len(batch)
      BY <1>6 DEF SetValue, BatchShape, TypeOK
    <3>2. batch[sent + 1] \in Request /\ sent' \in 0 .. Len(batch)
      BY <2>2, <3>1 DEF TypeOK
    <3>3. TypeOK'
      BY <1>6, <2>2, <3>2 DEF SetValue, TypeOK
    <3>4. BatchShape' /\ GoneIsEmpty'
      BY <1>6, <2>2, <3>1 DEF SetValue, BatchShape, GoneIsEmpty
    <3>5. ASSUME NEW r \in Request, answer'[r] = "pending" PROVE InQueue(r)' \/ InHand(r)'
      <4>1. r # batch[sent + 1] /\ answer[r] = "pending"
        BY <2>2, <3>2, <3>5 DEF TypeOK
      <4>2. InHand(r) => InHand(r)'
        BY <1>6, <2>2, <3>1, <4>1 DEF SetValue, InHand
      <4>3. InQueue(r) => InQueue(r)'
        BY <1>6 DEF SetValue, InQueue
      <4> QED
        BY <4>1, <4>2, <4>3 DEF Waiting
    <3> QED
      BY <1>2, <3>3, <3>4, <3>5 DEF Waiting
  <2> QED
    BY <1>6, <2>1, <2>2 DEF SetValue
<1>7. CASE Record
  <2>1. Len(batch) \in Nat /\ batch' = <<>> /\ sent' = 0
    BY <1>7 DEF Record, TypeOK
  <2>2. stats' \in [requests : Nat, batches : Nat, maxBatchObserved : Nat]
    BY <1>7, <2>1 DEF Record, TypeOK
  <2>3. TypeOK'
    BY <1>7, <2>1, <2>2 DEF Record, TypeOK
  <2>4. BatchShape' /\ GoneIsEmpty'
    BY <1>7 DEF Record, BatchShape, GoneIsEmpty
  <2>5. ASSUME NEW r \in Request, answer'[r] = "pending" PROVE InQueue(r)'
    <3>1. ~ InHand(r)
      BY <1>7, <2>1 DEF Record, BatchShape, InHand
    <3>2. InQueue(r)
      BY <1>7, <2>5, <3>1 DEF Record, Waiting
    <3> QED
      BY <1>7, <3>2 DEF Record, InQueue
  <2> QED
    BY <1>2, <2>3, <2>4, <2>5 DEF Waiting
<1>8. CASE SetException
  <2>1. CASE sent > 0
    <3>1. TypeOK' /\ BatchShape' /\ GoneIsEmpty'
      BY <1>8, <2>1 DEF SetException, TypeOK, BatchShape, GoneIsEmpty
    <3> QED
      BY <1>2, <1>8, <2>1, <3>1, WaitingFrame DEF SetException
  <2>2. CASE ~ sent > 0
    <3>1. TypeOK'
      BY <1>8, <2>2 DEF SetException, TypeOK
    <3>2. BatchShape' /\ GoneIsEmpty'
      BY <1>8, <2>2 DEF SetException, BatchShape, GoneIsEmpty
    <3>3. ASSUME NEW r \in Request, answer'[r] = "pending" PROVE InQueue(r)'
      <4>1. r \notin SetOf(batch) /\ answer[r] = "pending"
        BY <1>8, <2>2, <3>3 DEF SetException
      <4>2. ~ InHand(r)
        BY <2>2, <4>1 DEF SetOf, InHand, TypeOK
      <4>3. InQueue(r)
        BY <4>1, <4>2 DEF Waiting
      <4> QED
        BY <1>8, <4>3 DEF SetException, InQueue
    <3> QED
      BY <1>2, <3>1, <3>2, <3>3 DEF Waiting
  <2> QED
    BY <2>1, <2>2
<1> QED
  BY <1>3, <1>4, <1>5, <1>6, <1>7, <1>8 DEF WorkerStep

\* stop() keeps it: it joins only a worker that has gone.
LEMMA StopKeeps ==
  ASSUME IInv, NEW s \in Stopper, StopStep(s)
  PROVE  IInv'
<1> USE DEF IInv
<1>1. UNCHANGED <<queue, batch, sent, answer>>
  BY DEF StopStep, StopFlag, StopNotify, StopJoin
<1>2. Waiting'
  BY <1>1, WaitingFrame
<1>3. CASE StopFlag(s)
  BY <1>2, <1>3 DEF StopFlag, TypeOK, BatchShape, GoneIsEmpty, JoinedIsGone
<1>4. CASE StopNotify(s)
  BY <1>2, <1>4 DEF StopNotify, Notify, TypeOK, BatchShape, GoneIsEmpty, JoinedIsGone
<1>5. CASE StopJoin(s)
  BY <1>2, <1>5 DEF StopJoin, TypeOK, BatchShape, GoneIsEmpty, JoinedIsGone
<1> QED
  BY <1>3, <1>4, <1>5 DEF StopStep

\* Every step keeps the inductive invariant,
LEMMA IInvStep == IInv /\ [Next]_vars => IInv'
<1> SUFFICES ASSUME IInv, [Next]_vars PROVE IInv'
  OBVIOUS
<1>1. CASE UNCHANGED vars
  BY <1>1 DEF vars, IInv, TypeOK, BatchShape, Waiting, InQueue, InHand, GoneIsEmpty, JoinedIsGone
<1> QED
  BY <1>1, ClientKeeps, WorkerKeeps, StopKeeps DEF Next

\* and so it holds in every state.
LEMMA IInvAlways == Spec => []IInv
BY IInvInit, IInvStep, PTL DEF Spec

--------------------------------------------------------------------------------

(***************************************************************************)
(* Every variable keeps to its type: the worker never sets more promises   *)
(* than its batch has, and every batch is cut from the queue.              *)
(***************************************************************************)
THEOREM TypeCorrect == Spec => []TypeOK
<1>1. IInv => TypeOK
  BY DEF IInv
<1> QED
  BY <1>1, IInvAlways, PTL

(***************************************************************************)
(* A stop() that has joined the worker leaves no accepted request without  *)
(* an answer.                                                              *)
(***************************************************************************)
THEOREM StopHasDrained == Spec => []StopDrains
<1>1. IInv => StopDrains
  <2> SUFFICES ASSUME IInv, NEW s \in Stopper, stopper[s] = "returned", NEW r \in Request
               PROVE  answer[r] # "pending"
    BY DEF StopDrains
  <2>1. queue = <<>> /\ batch = <<>> /\ sent \in Nat
    BY DEF IInv, JoinedIsGone, GoneIsEmpty, BatchShape, TypeOK
  <2>2. ~ InQueue(r) /\ ~ InHand(r)
    BY <2>1 DEF InQueue, InHand
  <2> QED
    BY <2>2 DEF IInv, Waiting
<1> QED
  BY <1>1, IInvAlways, PTL

--------------------------------------------------------------------------------

(***************************************************************************)
(* The refinement.  What Batches calls waiting is Unanswered \o queue: a   *)
(* push appends to it, an answer takes its head, and taking a batch only   *)
(* moves the boundary.  That the answered have called, and that a batch    *)
(* fails together and within the limit, needs three more facts.            *)
(***************************************************************************)
Line(b, n, q) == SubSeq(b, n + 1, Len(b)) \o q
Waiters == Line(batch, sent, queue)

Fresh ==
  \A r \in Request : client[r] = "before" =>
    answer[r] = "none" /\ r \notin SetOf(queue) /\ r \notin SetOf(batch)
FailedShape == worker = "failed" => sent < Len(batch)
BatchFits == Len(batch) <= MaxBatch

RInv == IInv /\ Fresh /\ FailedShape /\ BatchFits

\* Taking a batch keeps within the limit, and within the queue.
LEMMA TakeFits ==
  ASSUME TypeOK, TakeBatch
  PROVE  /\ BatchFits'
         /\ SetOf(batch') \subseteq SetOf(queue) /\ SetOf(queue') \subseteq SetOf(queue)
<1> DEFINE take == IF Len(queue) < MaxBatch THEN Len(queue) ELSE MaxBatch
<1>1. /\ queue \in Seq(Request) /\ Len(queue) \in Nat
      /\ take \in 0 .. Len(queue)
      /\ take <= MaxBatch
  BY BatchSize DEF TypeOK
<1>2. batch' = SubSeq(queue, 1, take) /\ queue' = SubSeq(queue, take + 1, Len(queue))
  BY DEF TakeBatch
<1> HIDE DEF take
<1>3. /\ batch' \in Seq(Request) /\ Len(batch') = take
      /\ \A i \in 1 .. take : batch'[i] = queue[i]
  BY <1>1, <1>2
<1>4. /\ queue' \in Seq(Request) /\ Len(queue') = Len(queue) - take
      /\ \A i \in 1 .. Len(queue) - take : queue'[i] = queue[take + i]
  BY <1>1, <1>2
<1>5. BatchFits'
  BY <1>1, <1>3 DEF BatchFits, MaxBatch
<1>6. SetOf(batch') \subseteq SetOf(queue)
  BY <1>1, <1>3 DEF SetOf
<1>7. ASSUME NEW i \in DOMAIN queue' PROVE queue'[i] \in SetOf(queue)
  <2>1. take + i \in DOMAIN queue /\ queue'[i] = queue[take + i]
    BY <1>1, <1>4, <1>7
  <2> QED
    BY <2>1 DEF SetOf
<1>8. SetOf(queue') \subseteq SetOf(queue)
  BY <1>7 DEF SetOf
<1> QED
  BY <1>5, <1>6, <1>8

\* They hold at the start, and every step keeps them.
LEMMA RInvInit == Init => RInv
<1> SUFFICES ASSUME Init PROVE RInv
  OBVIOUS
<1>1. Fresh /\ FailedShape
  BY DEF Init, Fresh, FailedShape, SetOf
<1>2. BatchFits
  BY BatchSize DEF Init, BatchFits
<1> QED
  BY <1>1, <1>2, IInvInit DEF RInv

\* Clients keep them: whoever is pushed has called.
LEMMA ClientKeepsR ==
  ASSUME RInv, NEW r \in Request, ClientStep(r)
  PROVE  Fresh' /\ FailedShape' /\ BatchFits'
<1> USE DEF RInv
<1>1. UNCHANGED <<batch, sent>> /\ (worker' = "failed" => worker = "failed")
  BY DEF ClientStep, Refuse, Push, NotifyOne, Notify
<1>2. ASSUME NEW q \in Request, client'[q] = "before"
      PROVE  answer'[q] = "none" /\ q \notin SetOf(queue') /\ q \notin SetOf(batch')
  <2>1. q # r /\ client[q] = "before" /\ answer'[q] = answer[q]
    BY <1>2 DEF ClientStep, Refuse, Push, NotifyOne, IInv, TypeOK
  <2>2. SetOf(queue') \subseteq SetOf(queue) \cup {r}
    <3>1. CASE queue' = queue
      BY <3>1
    <3>2. CASE queue' = Append(queue, r)
      BY <3>2 DEF SetOf, IInv, TypeOK
    <3> QED
      BY <3>1, <3>2 DEF ClientStep, Refuse, Push, NotifyOne
  <2> QED
    BY <1>1, <2>1, <2>2 DEF Fresh
<1> QED
  BY <1>1, <1>2 DEF Fresh, FailedShape, BatchFits, MaxBatch

\* The worker keeps them: it answers only what is in its batch.
LEMMA WorkerKeepsR ==
  ASSUME RInv, WorkerStep
  PROVE  Fresh' /\ FailedShape' /\ BatchFits'
<1> USE DEF RInv
<1>1. client' = client
  BY DEF WorkerStep, WorkerCheck, DelayOver, Forward, SetValue, Record, SetException
<1>2. \/ TakeBatch
      \/ queue' = queue /\ (batch' = batch \/ batch' = <<>>)
  BY DEF WorkerStep, WorkerCheck, DelayOver, Forward, SetValue, Record, SetException
<1>3. BatchFits'
  <2>1. CASE batch' = <<>>
    BY <2>1, BatchSize DEF BatchFits, MaxBatch
  <2>2. CASE batch' = batch
    BY <2>2 DEF BatchFits, MaxBatch
  <2> QED
    BY <1>2, <2>1, <2>2, TakeFits DEF IInv
<1>4. FailedShape'
  <2>1. CASE Forward
    <3>1. sent = 0 /\ Len(batch) \in Nat /\ Len(batch) # 0
      BY <2>1 DEF Forward, IInv, BatchShape, TypeOK
    <3> QED
      BY <2>1, <3>1 DEF Forward, FailedShape
  <2>2. CASE SetValue
    BY <2>2 DEF SetValue, IInv, BatchShape, FailedShape
  <2>3. CASE WorkerCheck \/ DelayOver \/ Record \/ SetException
    BY <2>3 DEF WorkerCheck, DelayOver, TakeBatch, Record, SetException, FailedShape
  <2> QED
    BY <2>1, <2>2, <2>3 DEF WorkerStep
<1>5. SetOf(batch') \subseteq SetOf(batch) \cup SetOf(queue) /\ SetOf(queue') \subseteq SetOf(queue)
  BY <1>2, TakeFits DEF IInv, SetOf
<1>6. ASSUME NEW r \in Request, client[r] = "before" PROVE answer'[r] = "none"
  <2>1. answer[r] = "none" /\ r \notin SetOf(batch)
    BY <1>6 DEF Fresh
  <2>2. CASE answer' = answer
    BY <2>1, <2>2
  <2>3. CASE SetValue /\ answer' = [answer EXCEPT ![batch[sent + 1]] = "logits"]
    <3>1. sent + 1 \in DOMAIN batch
      BY <2>3 DEF SetValue, IInv, BatchShape, TypeOK
    <3>2. batch[sent + 1] # r
      BY <2>1, <3>1 DEF SetOf
    <3> QED
      BY <2>1, <2>3, <3>2 DEF IInv, TypeOK
  <2>4. CASE SetException
    BY <2>1, <2>4 DEF SetException
  <2> QED
    BY <2>2, <2>3, <2>4 DEF WorkerStep, WorkerCheck, DelayOver, Forward, SetValue, Record
<1>7. Fresh'
  BY <1>1, <1>5, <1>6 DEF Fresh
<1> QED
  BY <1>3, <1>4, <1>7

\* And every step of the batcher keeps them.
LEMMA RInvStep == RInv /\ [Next]_vars => RInv'
<1> SUFFICES ASSUME RInv, [Next]_vars PROVE RInv'
  OBVIOUS
<1>1. IInv'
  BY IInvStep DEF RInv
<1>2. CASE UNCHANGED vars
  BY <1>1, <1>2 DEF vars, RInv, Fresh, FailedShape, BatchFits, MaxBatch
<1>3. ASSUME NEW s \in Stopper, StopStep(s) PROVE Fresh' /\ FailedShape' /\ BatchFits'
  BY <1>3 DEF RInv, StopStep, StopFlag, StopNotify, StopJoin, Notify, Fresh, FailedShape, BatchFits, MaxBatch
<1> QED
  BY <1>1, <1>2, <1>3, ClientKeepsR, WorkerKeepsR DEF RInv, Next

\* So they hold in every state.
LEMMA RInvAlways == Spec => []RInv
BY RInvInit, RInvStep, PTL DEF Spec

--------------------------------------------------------------------------------

\* A line of waiters, by its elements: the rest of a batch, and a queue.
IsLine(w, b, n, q) ==
  /\ w \in Seq(Request) /\ Len(w) = Len(b) - n + Len(q)
  /\ \A i \in 1 .. Len(b) - n : w[i] = b[n + i]
  /\ \A i \in 1 .. Len(q) : w[Len(b) - n + i] = q[i]

\* Waiters is such a line.
LEMMA LineIs ==
  ASSUME NEW b \in Seq(Request), NEW q \in Seq(Request), NEW n \in 0 .. Len(b)
  PROVE  IsLine(Line(b, n, q), b, n, q)
<1> DEFINE w == Line(b, n, q)
<1> DEFINE u == SubSeq(b, n + 1, Len(b))
<1>1. Len(b) \in Nat /\ Len(q) \in Nat /\ n \in Nat /\ n <= Len(b)
  OBVIOUS
<1>2. /\ u \in Seq(Request) /\ Len(u) = Len(b) - n
      /\ \A i \in 1 .. Len(b) - n : u[i] = b[n + i]
  BY <1>1
<1>3. w = u \o q
  BY DEF Line
<1> HIDE DEF u, w
<1>4. /\ w \in Seq(Request) /\ Len(w) = Len(u) + Len(q)
      /\ \A i \in 1 .. Len(u) + Len(q) : w[i] = IF i <= Len(u) THEN u[i] ELSE q[i - Len(u)]
  <2>1. /\ u \o q \in Seq(Request) /\ Len(u \o q) = Len(u) + Len(q)
        /\ \A i \in 1 .. Len(u) + Len(q) : (u \o q)[i] = IF i <= Len(u) THEN u[i] ELSE q[i - Len(u)]
    BY <1>2, ConcatProperties, Zenon
  <2> QED
    BY <1>3, <2>1
<1>5. ASSUME NEW i \in 1 .. Len(b) - n PROVE w[i] = b[n + i]
  BY <1>1, <1>2, <1>4, <1>5
<1>6. ASSUME NEW i \in 1 .. Len(q) PROVE w[Len(b) - n + i] = q[i]
  <2>1. Len(b) - n + i \in 1 .. Len(u) + Len(q) /\ ~ (Len(b) - n + i <= Len(u))
    BY <1>1, <1>2
  <2>2. (Len(b) - n + i) - Len(u) = i
    BY <1>1, <1>2
  <2> QED
    BY <1>4, <2>1, <2>2
<1>7. w \in Seq(Request) /\ Len(w) = Len(b) - n + Len(q)
  BY <1>2, <1>4
<1> QED
  BY <1>5, <1>6, <1>7 DEF w, IsLine

\* The same of the state.
LEMMA WaitersAre ==
  ASSUME TypeOK
  PROVE  IsLine(Waiters, batch, sent, queue)
<1>1. batch \in Seq(Request) /\ queue \in Seq(Request) /\ sent \in 0 .. Len(batch)
  BY DEF TypeOK
<1> QED
  BY <1>1, LineIs DEF Waiters

\* A push appends, and disturbs nobody.
LEMMA PushAppends ==
  ASSUME TypeOK, TypeOK', NEW r \in Request, Push(r)
  PROVE  Waiters' = Append(Waiters, r)
<1>1. /\ UNCHANGED <<batch, sent>> /\ queue' = Append(queue, r)
      /\ queue \in Seq(Request) /\ batch \in Seq(Request)
  BY DEF Push, TypeOK
<1>2. Unanswered' = Unanswered
  BY <1>1 DEF Unanswered
<1>3. Unanswered \in Seq(Request)
  BY DEF Unanswered, TypeOK
<1>4. (Unanswered \o queue) \o <<r>> = Unanswered \o (queue \o <<r>>)
  BY <1>1, <1>3, ConcatAssociative
<1>5. queue' = queue \o <<r>> /\ Append(Waiters, r) = Waiters \o <<r>>
  BY <1>1, WaitersAre, AppendIsConcat DEF IsLine
<1> QED
  BY <1>2, <1>4, <1>5 DEF Waiters, Line, Unanswered

\* Nobody's place in the line changes as a batch is taken.
LEMMA TakeMovesNobody ==
  ASSUME TypeOK, TypeOK', batch = <<>>, TakeBatch
  PROVE  Waiters' = Waiters
<1> DEFINE take == IF Len(queue) < MaxBatch THEN Len(queue) ELSE MaxBatch
<1>1. /\ queue \in Seq(Request) /\ Len(queue) \in Nat
      /\ take \in 0 .. Len(queue)
  BY BatchSize DEF TypeOK
<1>2. batch' = SubSeq(queue, 1, take) /\ queue' = SubSeq(queue, take + 1, Len(queue)) /\ sent' = 0
  BY DEF TakeBatch
<1>3. Waiters = queue
  BY <1>1 DEF Waiters, Line, TypeOK
<1>4. SubSeq(batch', sent' + 1, Len(batch')) = batch'
  <2>1. batch' \in Seq(Request)
    BY DEF TypeOK
  <2> QED
    BY <1>2, <2>1, SubSeqFull
<1> HIDE DEF take
<1>5. SubSeq(queue, 1, take) \o SubSeq(queue, take + 1, Len(queue)) = SubSeq(queue, 1, Len(queue))
  <2>1. 1 \in 1 .. Len(queue) + 1 /\ take \in 1 - 1 .. Len(queue) /\ Len(queue) \in take .. Len(queue)
    BY <1>1
  <2> QED
    BY <1>1, <2>1, ConcatAdjacentSubSeq, Zenon
<1> QED
  BY <1>1, <1>2, <1>3, <1>4, <1>5, SubSeqFull DEF Waiters, Line

\* The next promise is that of the oldest that waits.
LEMMA NextIsOldest ==
  ASSUME TypeOK, TypeOK', sent < Len(batch), sent' = sent + 1, UNCHANGED <<batch, queue>>
  PROVE  Waiters # <<>> /\ Head(Waiters) = batch[sent + 1] /\ Waiters' = Tail(Waiters)
<1>1. /\ Len(batch) \in Nat /\ Len(queue) \in Nat /\ sent \in Nat
  BY DEF TypeOK
<1>2. /\ Waiters \in Seq(Request) /\ Len(Waiters) = Len(batch) - sent + Len(queue)
      /\ \A i \in 1 .. Len(batch) - sent : Waiters[i] = batch[sent + i]
      /\ \A i \in 1 .. Len(queue) : Waiters[Len(batch) - sent + i] = queue[i]
  BY WaitersAre DEF IsLine
<1>3. /\ Waiters' \in Seq(Request) /\ Len(Waiters') = Len(batch) - (sent + 1) + Len(queue)
      /\ \A i \in 1 .. Len(batch) - (sent + 1) : Waiters'[i] = batch[sent + 1 + i]
      /\ \A i \in 1 .. Len(queue) : Waiters'[Len(batch) - (sent + 1) + i] = queue[i]
  <2>1. /\ batch \in Seq(Request) /\ queue \in Seq(Request) /\ sent + 1 \in 0 .. Len(batch)
    BY <1>1 DEF TypeOK
  <2>2. Waiters' = Line(batch, sent + 1, queue)
    BY DEF Waiters, Line
  <2> QED
    BY <2>1, <2>2, LineIs DEF IsLine
<1>4. Waiters # <<>> /\ Head(Waiters) = Waiters[1]
  BY <1>1, <1>2
<1>5. Head(Waiters) = batch[sent + 1]
  BY <1>1, <1>2, <1>4
<1>6. /\ Tail(Waiters) \in Seq(Request) /\ Len(Tail(Waiters)) = Len(Waiters) - 1
      /\ \A i \in 1 .. Len(Waiters) - 1 : Tail(Waiters)[i] = Waiters[i + 1]
  BY <1>2, <1>4, HeadTailProperties
<1>7. ASSUME NEW i \in 1 .. Len(Waiters') PROVE Waiters'[i] = Tail(Waiters)[i]
  <2>1. i + 1 \in 1 .. Len(Waiters) /\ Tail(Waiters)[i] = Waiters[i + 1]
    BY <1>1, <1>2, <1>3, <1>6, <1>7
  <2>2. CASE i <= Len(batch) - (sent + 1)
    <3>1. i \in 1 .. Len(batch) - (sent + 1) /\ i + 1 \in 1 .. Len(batch) - sent
      BY <1>1, <1>3, <1>7, <2>2
    <3>2. sent + (i + 1) = sent + 1 + i
      BY <1>1
    <3> QED
      BY <1>2, <1>3, <2>1, <3>1, <3>2
  <2>3. CASE ~ (i <= Len(batch) - (sent + 1))
    <3> DEFINE j == i - (Len(batch) - (sent + 1))
    <3>1. j \in 1 .. Len(queue)
      BY <1>1, <1>3, <1>7, <2>3
    <3>2. i = Len(batch) - (sent + 1) + j /\ i + 1 = Len(batch) - sent + j
      BY <1>1
    <3> HIDE DEF j
    <3> QED
      BY <1>2, <1>3, <2>1, <3>1, <3>2
  <2> QED
    BY <2>2, <2>3
<1>8. Waiters' = Tail(Waiters)
  BY <1>1, <1>2, <1>3, <1>6, <1>7, SeqEqual
<1> QED
  BY <1>4, <1>5, <1>8

\* A batch without answers is the front of the line.
LEMMA BatchIsFront ==
  ASSUME TypeOK, sent = 0
  PROVE  /\ Len(batch) <= Len(Waiters)
         /\ \A r : (\E i \in 1 .. Len(batch) : Waiters[i] = r) <=> r \in SetOf(batch)
         /\ SubSeq(Waiters, Len(batch) + 1, Len(Waiters)) = queue
<1>1. /\ batch \in Seq(Request) /\ Len(batch) \in Nat
      /\ queue \in Seq(Request) /\ Len(queue) \in Nat
  BY DEF TypeOK
<1>2. /\ Waiters \in Seq(Request) /\ Len(Waiters) = Len(batch) + Len(queue)
      /\ \A i \in 1 .. Len(batch) : Waiters[i] = batch[i]
      /\ \A i \in 1 .. Len(queue) : Waiters[Len(batch) + i] = queue[i]
  BY <1>1, WaitersAre DEF IsLine
<1>3. \A r : (\E i \in 1 .. Len(batch) : Waiters[i] = r) <=> r \in SetOf(batch)
  BY <1>1, <1>2 DEF SetOf
<1> DEFINE rest == SubSeq(Waiters, Len(batch) + 1, Len(Waiters))
<1>4. /\ rest \in Seq(Request) /\ Len(rest) = Len(queue)
      /\ \A i \in 1 .. Len(queue) : rest[i] = Waiters[Len(batch) + i]
  BY <1>1, <1>2
<1>5. rest = queue
  <2> HIDE DEF rest
  <2> QED
    BY <1>1, <1>2, <1>4, SeqEqual
<1> QED
  BY <1>1, <1>2, <1>3, <1>5

--------------------------------------------------------------------------------

\* The expressions Batches' variables stand for.
LEMMA WaitersAndAlive ==
  /\ Waiters = Unanswered \o queue
  /\ Waiters' = (Unanswered \o queue)'
BY DEF Waiters, Line, Unanswered

\* Each call of enqueue is accepted, refused or goes on.
LEMMA ClientRefines ==
  ASSUME RInv, TypeOK', NEW r \in Request, ClientStep(r)
  PROVE  Promised!Next \/ UNCHANGED <<Waiters, answer, stopping, Alive>>
<1> USE DEF RInv, IInv
<1>1. Alive /\ Alive'
  BY DEF ClientStep, Refuse, Push, NotifyOne, Notify, Alive
<1>2. CASE Refuse(r)
  <2>1. answer[r] = "none" /\ Waiters' = Waiters
    BY <1>2 DEF Refuse, Fresh, Waiters, Line
  <2>2. Promised!Refuse(r)
    BY <1>1, <1>2, <2>1, WaitersAndAlive DEF Refuse, Promised!Refuse
  <2> QED
    BY <1>1, <2>2 DEF Promised!Next, Promised!Step
<1>3. CASE Push(r)
  <2>1. answer[r] = "none" /\ Waiters' = Append(Waiters, r)
    BY <1>3, PushAppends DEF Push, Fresh
  <2>2. Promised!Accept(r)
    BY <1>1, <1>3, <2>1, WaitersAndAlive DEF Push, Promised!Accept
  <2> QED
    BY <1>1, <2>2 DEF Promised!Next, Promised!Step
<1>4. CASE NotifyOne(r)
  BY <1>1, <1>4 DEF NotifyOne, Waiters, Line
<1> QED
  BY <1>2, <1>3, <1>4 DEF ClientStep

\* Each step of the worker answers the front of the line, or leaves it.
LEMMA WorkerRefines ==
  ASSUME RInv, TypeOK', WorkerStep
  PROVE  Promised!Next \/ UNCHANGED <<Waiters, answer, stopping, Alive>>
<1> USE DEF RInv, IInv
<1>1. Alive /\ stopping' = stopping
  BY DEF WorkerStep, WorkerCheck, DelayOver, Forward, SetValue, Record, SetException, Alive
<1>2. CASE WorkerCheck \/ DelayOver
  <2>1. answer' = answer /\ Alive'
    BY <1>2 DEF WorkerCheck, DelayOver, TakeBatch, Alive
  <2>2. batch = <<>>
    BY <1>2 DEF WorkerCheck, DelayOver, BatchShape
  <2>3. TakeBatch \/ UNCHANGED <<queue, batch, sent>>
    BY <1>2 DEF WorkerCheck, DelayOver
  <2>4. Waiters' = Waiters
    BY <2>2, <2>3, TakeMovesNobody DEF Waiters, Line
  <2> QED
    BY <1>1, <2>1, <2>4
<1>3. CASE Forward
  BY <1>1, <1>3 DEF Forward, Waiters, Line, Alive
<1>4. CASE SetValue
  <2>1. Alive'
    BY <1>4 DEF SetValue, Alive
  <2>2. CASE UNCHANGED <<answer, sent>>
    BY <1>1, <1>4, <2>1, <2>2 DEF SetValue, Waiters, Line
  <2>3. CASE answer' = [answer EXCEPT ![batch[sent + 1]] = "logits"] /\ sent' = sent + 1
    <3>1. Waiters # <<>> /\ Head(Waiters) = batch[sent + 1] /\ Waiters' = Tail(Waiters)
      BY <1>4, <2>3, NextIsOldest DEF SetValue, BatchShape
    <3>2. Promised!Respond
      BY <1>1, <2>1, <2>3, <3>1, WaitersAndAlive DEF Promised!Respond
    <3> QED
      BY <1>1, <3>2 DEF Promised!Next, Promised!Step, Promised!Answer
  <2> QED
    BY <1>4, <2>2, <2>3 DEF SetValue
<1>5. CASE Record
  <2>1. Waiters = queue /\ Waiters' = queue
    BY <1>5 DEF Record, BatchShape, TypeOK, Waiters, Line
  <2> QED
    BY <1>1, <1>5, <2>1 DEF Record, Alive
<1>6. CASE SetException /\ sent > 0
  <2>1. ~ Alive' /\ UNCHANGED <<Waiters, answer>>
    BY <1>6 DEF SetException, Alive, Waiters, Line
  <2>2. Waiters # <<>>
    <3>1. /\ Waiters \in Seq(Request) /\ Len(Waiters) = Len(batch) - sent + Len(queue)
          /\ Len(batch) \in Nat /\ Len(queue) \in Nat /\ sent \in Nat /\ sent < Len(batch)
      BY <1>6, WaitersAre DEF SetException, FailedShape, IsLine, TypeOK
    <3> QED
      BY <3>1
  <2>3. Promised!End
    BY <1>1, <2>1, <2>2, WaitersAndAlive DEF Promised!End
  <2> QED
    BY <1>1, <2>3 DEF Promised!Next, Promised!Step
<1>7. CASE SetException /\ ~ sent > 0
  <2>1. sent = 0 /\ Len(batch) \in 1 .. MaxBatch
    BY <1>7, BatchSize DEF SetException, FailedShape, BatchFits, TypeOK
  <2>2. /\ Len(batch) <= Len(Waiters)
        /\ \A r : (\E i \in 1 .. Len(batch) : Waiters[i] = r) <=> r \in SetOf(batch)
        /\ SubSeq(Waiters, Len(batch) + 1, Len(Waiters)) = queue
    BY <2>1, BatchIsFront
  <2>3. Waiters' = queue /\ Alive'
    BY <1>7 DEF SetException, TypeOK, Waiters, Line, Alive
  <2>4. answer' = [r \in Request |-> IF \E i \in 1 .. Len(batch) : Waiters[i] = r THEN "error" ELSE answer[r]]
    BY <1>7, <2>2 DEF SetException
  <2>5. Promised!Fail(Len(batch))
    BY <1>1, <2>2, <2>3, <2>4, WaitersAndAlive DEF Promised!Fail
  <2> QED
    BY <1>1, <2>1, <2>5 DEF Promised!Next, Promised!Step, Promised!Answer
<1> QED
  BY <1>2, <1>3, <1>4, <1>5, <1>6, <1>7 DEF WorkerStep

\* stop() only raises the flag.
LEMMA StopRefines ==
  ASSUME NEW s \in Stopper, StopStep(s)
  PROVE  Promised!Next \/ UNCHANGED <<Waiters, answer, stopping, Alive>>
<1>1. Alive /\ Alive' /\ UNCHANGED <<Waiters, answer>>
  BY DEF StopStep, StopFlag, StopNotify, StopJoin, Notify, Alive, Waiters, Line
<1>2. CASE stopping' = TRUE
  <2>1. Promised!Stop
    BY <1>1, <1>2, WaitersAndAlive DEF Promised!Stop
  <2> QED
    BY <1>1, <2>1 DEF Promised!Next, Promised!Step
<1>3. CASE stopping' = stopping
  BY <1>1, <1>3
<1> QED
  BY <1>2, <1>3 DEF StopStep, StopFlag, StopNotify, StopJoin

(***************************************************************************)
(* The batcher keeps the order of arrival and loses nobody: it implements  *)
(* Batches, for any requests, stops, batch size, delays and failures.      *)
(***************************************************************************)
THEOREM BatcherKeepsOrder == Spec => KeepsOrder
<1>1. Init => Promised!Init
  BY DEF Init, Promised!Init, Unanswered, Alive
<1>2. RInv /\ [Next]_vars => [Promised!Next]_(Promised!vars)
  <2> SUFFICES ASSUME RInv, [Next]_vars
               PROVE  Promised!Next \/ UNCHANGED <<Waiters, answer, stopping, Alive>>
    BY WaitersAndAlive DEF Promised!vars
  <2>1. TypeOK'
    BY RInvStep DEF RInv, IInv
  <2>2. CASE UNCHANGED vars
    BY <2>2 DEF vars, Waiters, Line, Alive
  <2> QED
    BY <2>1, <2>2, ClientRefines, WorkerRefines, StopRefines DEF Next
<1> QED
  BY <1>1, <1>2, RInvAlways, PTL DEF Spec, KeepsOrder, Promised!Spec

================================================================================
