-------------------------------- MODULE Batches --------------------------------
(***************************************************************************)
(* What the request batcher promises the threads that call enqueue, with   *)
(* no worker, batch, delay or notification: requests are taken until a     *)
(* stop, answered in the order in which they were taken and once each, by  *)
(* logits one at a time or by an exception several at a time, unless the   *)
(* process ends.                                                           *)
(***************************************************************************)
EXTENDS Naturals, Sequences

CONSTANTS
  Request,
  Malformed,  \* those of the wrong size
  MaxBatch    \* how many fail together at most

VARIABLES
  waiting,   \* requests taken and not answered, the oldest first
  answer,    \* "none", "refused", "pending", "logits", "error"
  stopping,
  ended      \* the process has ended

vars == <<waiting, answer, stopping, ended>>

Init ==
  /\ waiting = <<>>
  /\ answer = [r \in Request |-> "none"]
  /\ stopping = FALSE
  /\ ended = FALSE

\* enqueue returns a future ...
Accept(r) ==
  /\ answer[r] = "none" /\ r \notin Malformed /\ ~ stopping
  /\ answer' = [answer EXCEPT ![r] = "pending"]
  /\ waiting' = Append(waiting, r)
  /\ UNCHANGED <<stopping, ended>>

\* ... or throws.
Refuse(r) ==
  /\ answer[r] = "none" /\ (r \in Malformed \/ stopping)
  /\ answer' = [answer EXCEPT ![r] = "refused"]
  /\ UNCHANGED <<waiting, stopping, ended>>

Respond ==
  /\ waiting # <<>>
  /\ answer' = [answer EXCEPT ![Head(waiting)] = "logits"]
  /\ waiting' = Tail(waiting)
  /\ UNCHANGED <<stopping, ended>>

Fail(n) ==
  /\ n <= Len(waiting)
  /\ answer' = [r \in Request |-> IF \E i \in 1 .. n : waiting[i] = r THEN "error" ELSE answer[r]]
  /\ waiting' = SubSeq(waiting, n + 1, Len(waiting))
  /\ UNCHANGED <<stopping, ended>>

Stop ==
  /\ stopping' = TRUE
  /\ UNCHANGED <<waiting, answer, ended>>

\* std::terminate, with somebody still waiting.
End ==
  /\ waiting # <<>>
  /\ ended' = TRUE
  /\ UNCHANGED <<waiting, answer, stopping>>

Answer == Respond \/ \E n \in 1 .. MaxBatch : Fail(n)

Step == (\E r \in Request : Accept(r) \/ Refuse(r)) \/ Answer \/ Stop \/ End

Next == ~ ended /\ Step

Spec == Init /\ [][Next]_vars

\* Somebody answers as long as somebody waits.
FairSpec == Spec /\ WF_vars(~ ended /\ (Answer \/ End))

================================================================================
