---------------------------- MODULE DynamicBatcher ----------------------------
(***************************************************************************)
(* The request batcher of inference-engine/engine/src/serving/             *)
(* dynamic_batcher.cpp: client threads call enqueue and hold a future, one *)
(* worker coalesces the queue into batches and satisfies the promises, and *)
(* stop() may be called at any time, by several threads.                   *)
(*                                                                         *)
(* Critical sections of mutex_ are single steps; notifications after an    *)
(* unlock, and each promise.set_value, are steps of their own.  The        *)
(* forward pass is external: it yields logits, or it throws or has a       *)
(* wrong shape.                                                            *)
(***************************************************************************)
EXTENDS Naturals, Sequences, FiniteSets

CONSTANTS
  Request,       \* calls of enqueue
  WrongSize,     \* those whose features.size() is not featureCount_
  Stopper,       \* calls of stop(), the destructor's included
  MaxBatchSize,  \* maxBatchSize as given; 0 is taken as 1
  HasDelay,      \* maxQueueDelayUs_ > 0
  AllocMayFail   \* the vector built for a response may throw bad_alloc

ASSUME RequestAssumption == WrongSize \subseteq Request
ASSUME BatchAssumption == MaxBatchSize \in Nat
ASSUME SwitchAssumption == HasDelay \in BOOLEAN /\ AllocMayFail \in BOOLEAN

MaxBatch == IF MaxBatchSize = 0 THEN 1 ELSE MaxBatchSize

VARIABLES
  queue,     \* queue_
  stopping,  \* stopping_
  worker,    \* "check", "waiting", "delaying", "running", "answering", "failed",
             \* "recording", "gone", "aborted" (std::terminate)
  batch,     \* the batch the worker holds
  sent,      \* how many of its promises have a value
  answer,    \* what each call of enqueue led to
  client,    \* "before", "pushed" (about to notify), "returned"
  stats,     \* stats_
  stopper    \* "before", "flagged", "joining", "returned" (after the join), "skipped"

vars == <<queue, stopping, worker, batch, sent, answer, client, stats, stopper>>

SetOf(seq) == {seq[i] : i \in DOMAIN seq}

TypeOK ==
  /\ queue \in Seq(Request)
  /\ stopping \in BOOLEAN
  /\ worker \in {"check", "waiting", "delaying", "running", "answering", "failed",
                 "recording", "gone", "aborted"}
  /\ batch \in Seq(Request)
  /\ sent \in 0 .. Len(batch)
  /\ answer \in [Request -> {"none", "refused", "pending", "logits", "error"}]
  /\ client \in [Request -> {"before", "pushed", "returned"}]
  /\ stats \in [requests : Nat, batches : Nat, maxBatchObserved : Nat]
  /\ stopper \in [Stopper -> {"before", "flagged", "joining", "returned", "skipped"}]

Init ==
  /\ queue = <<>>
  /\ stopping = FALSE
  /\ worker = "check" /\ batch = <<>> /\ sent = 0
  /\ answer = [r \in Request |-> "none"]
  /\ client = [r \in Request |-> "before"]
  /\ stats = [requests |-> 0, batches |-> 0, maxBatchObserved |-> 0]
  /\ stopper = [s \in Stopper |-> "before"]

\* condition_.notify_one and notify_all: the worker is the only waiter.
Notify == worker' = IF worker = "waiting" THEN "check" ELSE worker

\* std::terminate ends every thread.
Alive == worker # "aborted"

--------------------------------------------------------------------------------

(***************************************************************************)
(* enqueue.                                                                *)
(***************************************************************************)
Refuse(r) ==
  /\ client[r] = "before"
  /\ r \in WrongSize \/ stopping
  /\ answer' = [answer EXCEPT ![r] = "refused"]
  /\ client' = [client EXCEPT ![r] = "returned"]
  /\ UNCHANGED <<queue, stopping, worker, batch, sent, stats, stopper>>

Push(r) ==
  /\ client[r] = "before"
  /\ r \notin WrongSize /\ ~ stopping
  /\ queue' = Append(queue, r)
  /\ answer' = [answer EXCEPT ![r] = "pending"]
  /\ client' = [client EXCEPT ![r] = "pushed"]
  /\ UNCHANGED <<stopping, worker, batch, sent, stats, stopper>>

\* Seeded fault: the worker is not woken.
NotifyOneLost(r) ==
  /\ client[r] = "pushed"
  /\ client' = [client EXCEPT ![r] = "returned"]
  /\ UNCHANGED <<queue, stopping, worker, batch, sent, answer, stats, stopper>>

NotifyOne(r) ==
  /\ client[r] = "pushed"
  /\ Notify
  /\ client' = [client EXCEPT ![r] = "returned"]
  /\ UNCHANGED <<queue, stopping, batch, sent, answer, stats, stopper>>

--------------------------------------------------------------------------------

\* Seeded fault: what does not fit is thrown away.
TakeBatchAndClear ==
  LET take == IF Len(queue) < MaxBatch THEN Len(queue) ELSE MaxBatch IN
  /\ batch' = SubSeq(queue, 1, take)
  /\ queue' = <<>>
  /\ worker' = IF take = 0 THEN "check" ELSE "running"
  /\ sent' = 0

(***************************************************************************)
(* workerLoop.                                                             *)
(***************************************************************************)
\* The rest of the critical section: the oldest requests, as many as fit.
TakeBatch ==
  LET take == IF Len(queue) < MaxBatch THEN Len(queue) ELSE MaxBatch IN
  /\ batch' = SubSeq(queue, 1, take)
  /\ queue' = SubSeq(queue, take + 1, Len(queue))
  /\ worker' = IF take = 0 THEN "check" ELSE "running"
  /\ sent' = 0

\* Seeded fault: the worker leaves as soon as stopping_ is set.
WorkerCheckQuits ==
  /\ worker = "check"
  /\ \/ /\ stopping
        /\ worker' = "gone"
        /\ UNCHANGED <<queue, batch, sent>>
     \/ /\ ~ stopping /\ queue = <<>>
        /\ worker' = "waiting"
        /\ UNCHANGED <<queue, batch, sent>>
     \/ ~ stopping /\ queue # <<>> /\ TakeBatch
  /\ UNCHANGED <<stopping, answer, client, stats, stopper>>

\* The predicate of condition_.wait, and what follows it.
WorkerCheck ==
  /\ worker = "check"
  /\ \/ /\ ~ stopping /\ queue = <<>>
        /\ worker' = "waiting"
        /\ UNCHANGED <<queue, batch, sent>>
     \/ /\ stopping /\ queue = <<>>
        /\ worker' = "gone"
        /\ UNCHANGED <<queue, batch, sent>>
     \/ /\ queue # <<>>
        /\ IF Len(queue) < MaxBatch /\ HasDelay /\ ~ stopping
           THEN worker' = "delaying" /\ UNCHANGED <<queue, batch, sent>>
           ELSE TakeBatch
  /\ UNCHANGED <<stopping, answer, client, stats, stopper>>

\* condition_.wait_for is over: full, stopping, or out of time.
DelayOver ==
  /\ worker = "delaying"
  /\ TakeBatch
  /\ UNCHANGED <<stopping, answer, client, stats, stopper>>

\* runBatch: the forward pass.
Forward ==
  /\ worker = "running"
  /\ worker' \in {"answering", "failed"}
  /\ UNCHANGED <<queue, stopping, batch, sent, answer, client, stats, stopper>>

\* set_value, one promise after the other; building the value may throw.
SetValue ==
  /\ worker = "answering"
  /\ \/ /\ answer' = [answer EXCEPT ![batch[sent + 1]] = "logits"]
        /\ sent' = sent + 1
        /\ worker' = IF sent' = Len(batch) THEN "recording" ELSE "answering"
     \/ /\ AllocMayFail
        /\ worker' = "failed"
        /\ UNCHANGED <<answer, sent>>
  /\ UNCHANGED <<queue, stopping, batch, client, stats, stopper>>

\* stats_, under mutex_ again.
Record ==
  /\ worker = "recording"
  /\ stats' = [requests |-> stats.requests + Len(batch),
               batches |-> stats.batches + 1,
               maxBatchObserved |-> IF Len(batch) > stats.maxBatchObserved
                                    THEN Len(batch) ELSE stats.maxBatchObserved]
  /\ batch' = <<>> /\ sent' = 0
  /\ worker' = "check"
  /\ UNCHANGED <<queue, stopping, answer, client, stopper>>

\* The handler sets the exception on every promise of the batch.  On one that
\* already has a value set_exception throws, out of the handler and the thread.
SetException ==
  /\ worker = "failed"
  /\ IF sent > 0
     THEN worker' = "aborted" /\ UNCHANGED <<answer, batch, sent>>
     ELSE /\ answer' = [r \in Request |-> IF r \in SetOf(batch) THEN "error" ELSE answer[r]]
          /\ batch' = <<>> /\ sent' = 0
          /\ worker' = "check"
  /\ UNCHANGED <<queue, stopping, client, stats, stopper>>

--------------------------------------------------------------------------------

(***************************************************************************)
(* stop: only the first call joins.                                        *)
(***************************************************************************)
StopFlag(s) ==
  /\ stopper[s] = "before"
  /\ stopper' = [stopper EXCEPT ![s] = IF stopping THEN "skipped" ELSE "flagged"]
  /\ stopping' = TRUE
  /\ UNCHANGED <<queue, worker, batch, sent, answer, client, stats>>

\* Seeded fault: the worker is not woken.
StopNotifyLost(s) ==
  /\ stopper[s] = "flagged"
  /\ stopper' = [stopper EXCEPT ![s] = "joining"]
  /\ UNCHANGED <<queue, stopping, worker, batch, sent, answer, client, stats>>

StopNotify(s) ==
  /\ stopper[s] = "flagged"
  /\ Notify
  /\ stopper' = [stopper EXCEPT ![s] = "joining"]
  /\ UNCHANGED <<queue, stopping, batch, sent, answer, client, stats>>

StopJoin(s) ==
  /\ stopper[s] = "joining"
  /\ worker = "gone"
  /\ stopper' = [stopper EXCEPT ![s] = "returned"]
  /\ UNCHANGED <<queue, stopping, worker, batch, sent, answer, client, stats>>

--------------------------------------------------------------------------------

ClientStep(r) == Alive /\ (Refuse(r) \/ Push(r) \/ NotifyOne(r))
WorkerStep == WorkerCheck \/ DelayOver \/ Forward \/ SetValue \/ Record \/ SetException
StopStep(s) == Alive /\ (StopFlag(s) \/ StopNotify(s) \/ StopJoin(s))

Next ==
  \/ \E r \in Request : ClientStep(r)
  \/ WorkerStep
  \/ \E s \in Stopper : StopStep(s)

Spec == Init /\ [][Next]_vars

(***************************************************************************)
(* Fairness: a client that pushed goes on to notify, the worker thread is  *)
(* scheduled, wait_for ends and the forward pass returns, and a thread in  *)
(* stop() goes on.  Nobody has to call enqueue or stop.                    *)
(***************************************************************************)
Fairness ==
  /\ \A r \in Request : WF_vars(Alive /\ NotifyOne(r))
  /\ WF_vars(WorkerStep)
  /\ \A s \in Stopper : WF_vars(Alive /\ (StopNotify(s) \/ StopJoin(s)))

FairSpec == Spec /\ Fairness

--------------------------------------------------------------------------------

Unanswered == SubSeq(batch, sent + 1, Len(batch))

(***************************************************************************)
(* The batcher implements Batches: nothing that was accepted is lost       *)
(* between the queue and the batch or answered twice, and answers come in  *)
(* the order of arrival, across batches, delays, failures and stops.       *)
(***************************************************************************)
Promised == INSTANCE Batches
  WITH Malformed <- WrongSize, waiting <- Unanswered \o queue, ended <- ~ Alive

KeepsOrder == Promised!Spec

(***************************************************************************)
(* stop() that joined has drained the queue: whoever was accepted before   *)
(* the flag has been answered, although enqueue and the worker race it.    *)
(***************************************************************************)
StopDrains ==
  (\E s \in Stopper : stopper[s] = "returned") => \A r \in Request : answer[r] # "pending"

(***************************************************************************)
(* Every accepted request is answered: no push is missed by a worker that  *)
(* is about to wait, a short batch is not kept back, a failed batch is     *)
(* answered too, and a stop in between abandons nobody.  Only std::        *)
(* terminate ends the waiting otherwise.                                   *)
(***************************************************************************)
EveryRequestAnswered ==
  \A r \in Request :
    answer[r] = "pending" ~> (answer[r] \in {"logits", "error"} \/ ~ Alive)

(***************************************************************************)
(* A stop() that raised the flag is not left waiting for the worker.       *)
(***************************************************************************)
StopReturns ==
  \A s \in Stopper : stopper[s] = "flagged" ~> (stopper[s] = "returned" \/ ~ Alive)

================================================================================
