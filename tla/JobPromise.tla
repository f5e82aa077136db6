------------------------------ MODULE JobPromise ------------------------------
(***************************************************************************)
(* What the MapReduce coordinator promises whoever submits a job, with no  *)
(* workers, attempts, timeouts or messages: tasks complete one at a time,  *)
(* once each, every map task before any reduce task, the counters of each  *)
(* are merged as it completes, and the job ends once, in success as its    *)
(* last task completes or in failure while some task is open.              *)
(***************************************************************************)
EXTENDS Naturals

CONSTANTS MapTask, ReduceTask

Task == MapTask \cup ReduceTask

VARIABLES
  completed,  \* the tasks that are done
  merged,     \* how often the counters of a task were added to the job's
  outcome     \* "open", "succeeded" or "failed"

vars == <<completed, merged, outcome>>

Init ==
  /\ completed = {}
  /\ merged = [t \in Task |-> 0]
  /\ outcome = "open"

\* A task that was already running completes even if the job has failed.
Complete(t) ==
  /\ t \notin completed
  /\ t \in ReduceTask => MapTask \subseteq completed
  /\ completed' = completed \cup {t}
  /\ merged' = [merged EXCEPT ![t] = @ + 1]
  /\ outcome' = IF outcome = "open" /\ completed' = Task THEN "succeeded" ELSE outcome

\* A task that spent its attempts ends the job.
Fail ==
  /\ outcome = "open"
  /\ completed # Task
  /\ outcome' = "failed"
  /\ UNCHANGED <<completed, merged>>

\* A job without tasks ends when somebody asks.
Empty ==
  /\ outcome = "open"
  /\ Task = {}
  /\ outcome' = "succeeded"
  /\ UNCHANGED <<completed, merged>>

Next == (\E t \in Task : Complete(t)) \/ Fail \/ Empty

Spec == Init /\ [][Next]_vars

\* The promise with its deadline: the job ends.
Ends == <>(outcome # "open")

================================================================================
