------------------------------ MODULE Coordinator ------------------------------
(***************************************************************************)
(* The MapReduce coordinator of mapreduce/pkg/coordinator/coordinator.go:  *)
(* the task table, the worker table and the handlers that change them.     *)
(* Every handler runs under the mutex Coordinator.mu, so each one is one   *)
(* action.                                                                 *)
(*                                                                         *)
(* Time is abstracted to the two comparisons the code makes with it: a     *)
(* worker is "silent" once now - lastSeen exceeds WorkerTimeout, and a     *)
(* running task is "overdue" once now - started exceeds TaskTimeout.  The  *)
(* third comparison, a task's elapsed time against a multiple of the       *)
(* median duration, is a choice made when a backup is picked.              *)
(*                                                                         *)
(* The clients are constrained by one fact of worker.go: a report answers  *)
(* an assignment (execute is called with the reply of RequestTask and      *)
(* reports once).  "issued" records the assignments not yet reported; a    *)
(* client may lose one, and may ask for a task while it holds others.      *)
(***************************************************************************)
EXTENDS Naturals, FiniteSets

CONSTANTS
  NumMap,            \* len(inputGroups): map tasks are 1 .. NumMap
  NumReduce,         \* cfg.NumReducers: reduce tasks are the next NumReduce
  Worker,            \* the ids Register can hand out ("worker-1", ...)
  MaxTaskAttempts,   \* cfg.MaxTaskAttempts; 0 means no limit
  EnableBackupTasks  \* cfg.EnableBackupTasks

ASSUME TaskCountAssumption == NumMap \in Nat /\ NumReduce \in Nat
ASSUME AttemptsAssumption == MaxTaskAttempts \in Nat
ASSUME BackupAssumption == EnableBackupTasks \in BOOLEAN

MapTask == 1 .. NumMap
ReduceTask == (NumMap + 1) .. (NumMap + NumReduce)
Task == 1 .. (NumMap + NumReduce)

VARIABLES
  task,        \* the task structs, by id
  registered,  \* keys of c.workers
  alive,       \* workers with w.alive
  exited,      \* workers with w.exited
  silent,      \* workers whose lastSeen is older than WorkerTimeout
  phase,       \* c.phase
  jobErr,      \* c.jobErr # nil
  closed,      \* c.done is closed (closeOnce has fired)
  durations,   \* len(c.durations)
  merged,      \* how often a report of the task was merged into c.counters
  monitoring,  \* the monitor goroutine has not returned
  issued       \* assignments <<w, t>> handed out and not yet reported

vars == <<task, registered, alive, exited, silent, phase, jobErr, closed,
          durations, merged, monitoring, issued>>

TaskRecord ==
  [state    : {"idle", "running", "done"},
   workers  : SUBSET Worker,     \* keys of t.workers: the attempts believed live
   failures : Nat,
   backup   : BOOLEAN,
   overdue  : BOOLEAN]           \* now - t.started > TaskTimeout while running

TypeOK ==
  /\ task \in [Task -> TaskRecord]
  /\ registered \subseteq Worker
  /\ alive \subseteq registered
  /\ exited \subseteq registered
  /\ silent \subseteq registered
  /\ phase \in {"map", "reduce", "done", "failed"}
  /\ jobErr \in BOOLEAN
  /\ closed \in BOOLEAN
  /\ durations \in Nat
  /\ merged \in [Task -> Nat]
  /\ monitoring \in BOOLEAN
  /\ issued \subseteq registered \X Task

--------------------------------------------------------------------------------

Init ==
  /\ task = [t \in Task |-> [state |-> "idle", workers |-> {}, failures |-> 0,
                             backup |-> FALSE, overdue |-> FALSE]]
  /\ registered = {} /\ alive = {} /\ exited = {} /\ silent = {}
  /\ phase = "map"
  /\ jobErr = FALSE
  /\ closed = FALSE
  /\ durations = 0
  /\ merged = [t \in Task |-> 0]
  /\ monitoring = TRUE
  /\ issued = {}

(***************************************************************************)
(* The functions called with the lock held, as functions of the task table *)
(* they are given.                                                         *)
(***************************************************************************)
AllDone(table, list) == \A t \in list : table[t].state = "done"

\* reclaimLocked: a worker is believed alive unless it went silent.
StillAlive(aliveNow, silentNow) == aliveNow \ silentNow

\* Seeded faults: a finished task is taken back; nothing is reclaimed.
ReclaimTaskEvenIfDone(r, live) ==
  IF r.state # "idle" /\ r.workers \cap live = {}
  THEN [r EXCEPT !.state = "idle", !.workers = {}, !.backup = FALSE, !.overdue = FALSE]
  ELSE [r EXCEPT !.workers = r.workers \cap live]

ReclaimTaskNever(r, live) == r

\* reclaimLocked: a running task loses its dead attempts, and is set back to
\* idle when none is left or its time is up.
ReclaimTask(r, live) ==
  LET attempts == r.workers \cap live IN
  IF r.state # "running" THEN r
  ELSE IF attempts = {} \/ r.overdue
  THEN [r EXCEPT !.state = "idle", !.workers = {}, !.backup = FALSE, !.overdue = FALSE]
  ELSE [r EXCEPT !.workers = attempts]

Reclaimed(live) == [t \in Task |-> ReclaimTask(task[t], live)]

\* pickLocked: the first idle task of the list.
FirstIdle(table, list, t) ==
  /\ t \in list
  /\ table[t].state = "idle"
  /\ \A u \in list : u < t => table[u].state # "idle"

\* pickBackupLocked: a running task without a backup, not run by w already,
\* once two durations give a median.  Which of them has run longest, and
\* whether that is long enough, is left open.
Straggler(table, list, w, t, samples) ==
  /\ EnableBackupTasks
  /\ samples >= 2
  /\ t \in list
  /\ \A u \in list : table[u].state # "idle"
  /\ table[t].state = "running"
  /\ ~ table[t].backup
  /\ w \notin table[t].workers

NothingToPick(table, list) == \A t \in list : table[t].state # "idle"

\* assignLocked: t.started is set only if the task was not running.
AssignTask(r, w) ==
  [r EXCEPT !.state = "running", !.workers = @ \cup {w},
            !.overdue = IF r.state = "running" THEN @ ELSE FALSE]

\* Seeded fault: a backup is not marked on its task, which may get another.
PickAndAssignUnmarked(table, list, w, samples) ==
  \E t \in list :
    /\ FirstIdle(table, list, t) \/ Straggler(table, list, w, t, samples)
    /\ task' = [table EXCEPT ![t] = AssignTask(@, w)]
    /\ issued' = issued \cup {<<w, t>>}

PickAndAssign(table, list, w, samples) ==
  \E t \in list :
    /\ \/ /\ FirstIdle(table, list, t)
          /\ task' = [table EXCEPT ![t] = AssignTask(@, w)]
       \/ /\ Straggler(table, list, w, t, samples)
          /\ task' = [table EXCEPT ![t] = AssignTask([@ EXCEPT !.backup = TRUE], w)]
    /\ issued' = issued \cup {<<w, t>>}

\* Seeded fault: the outcome is set without closeOnce; a failure does not close done.
FinishLockedAlways ==
  /\ closed' = TRUE
  /\ phase' = "done"
  /\ UNCHANGED jobErr

FailLockedOpen ==
  /\ phase' = IF closed THEN phase ELSE "failed"
  /\ jobErr' = IF closed THEN jobErr ELSE TRUE
  /\ UNCHANGED closed

\* finishLocked and failLocked: whichever comes first fires closeOnce.  The
\* phase is "map" or "reduce" until then.
FinishLocked ==
  /\ closed' = TRUE
  /\ phase' = IF closed THEN phase ELSE "done"
  /\ UNCHANGED jobErr

FailLocked ==
  /\ closed' = TRUE
  /\ phase' = IF closed THEN phase ELSE "failed"
  /\ jobErr' = IF closed THEN jobErr ELSE TRUE

--------------------------------------------------------------------------------

(***************************************************************************)
(* The RPC handlers.                                                       *)
(***************************************************************************)
Register(w) ==
  /\ w \notin registered
  /\ registered' = registered \cup {w}
  /\ alive' = alive \cup {w}
  /\ UNCHANGED <<task, exited, silent, phase, jobErr, closed, durations, merged,
                 monitoring, issued>>

Heartbeat(w) ==
  /\ w \in registered
  /\ alive' = alive \cup {w}
  /\ silent' = silent \ {w}
  /\ UNCHANGED <<task, registered, exited, phase, jobErr, closed, durations,
                 merged, monitoring, issued>>

\* Seeded fault: after an abort the worker is told to come back later.
RequestAbortedWaits(w) ==
  /\ w \in registered
  /\ jobErr
  /\ silent' = silent \ {w}
  /\ alive' = alive \cup {w}
  /\ UNCHANGED <<task, registered, exited, phase, jobErr, closed, durations, merged,
                 monitoring, issued>>

\* RequestTask after the job was aborted: exit, with no look at the tasks.
RequestAborted(w) ==
  /\ w \in registered
  /\ jobErr
  /\ silent' = silent \ {w}
  /\ alive' = alive \cup {w}
  /\ exited' = exited \cup {w}
  /\ UNCHANGED <<task, registered, phase, jobErr, closed, durations, merged,
                 monitoring, issued>>

\* Seeded fault: tasks are handed out after an abort.
TouchAndReclaimAborted(w) ==
  /\ w \in registered
  /\ silent' = silent \ {w}
  /\ alive' = StillAlive(alive \cup {w}, silent \ {w})

\* What every other RequestTask does first: touch the worker and reclaim.
TouchAndReclaim(w) ==
  /\ w \in registered
  /\ ~ jobErr
  /\ silent' = silent \ {w}
  /\ alive' = StillAlive(alive \cup {w}, silent \ {w})

\* RequestTask that finds a map task, or finds none while some map task is
\* not done (TaskNone, try again later).
RequestMap(w) ==
  /\ TouchAndReclaim(w)
  /\ LET table == Reclaimed(alive') IN
       \/ PickAndAssign(table, MapTask, w, durations)
       \/ /\ NothingToPick(table, MapTask)
          /\ ~ AllDone(table, MapTask)
          /\ task' = table
          /\ UNCHANGED issued
  /\ UNCHANGED <<registered, exited, phase, jobErr, closed, durations, merged,
                 monitoring>>

\* Seeded fault: reduce tasks go out before the last map task is done; the map
\* durations are kept.
RequestReduceUngated(w) ==
  /\ TouchAndReclaim(w)
  /\ LET table == Reclaimed(alive') IN
       /\ NothingToPick(table, MapTask)
       /\ PickAndAssign(table, ReduceTask, w, durations)
  /\ UNCHANGED <<registered, exited, phase, jobErr, closed, durations, merged, monitoring>>

\* RequestTask once every map task is done: the first one starts the reduce
\* phase and forgets the map durations.
RequestReduce(w) ==
  /\ TouchAndReclaim(w)
  /\ durations' = IF phase = "map" THEN 0 ELSE durations
  /\ phase' = IF phase = "map" THEN "reduce" ELSE phase
  /\ LET table == Reclaimed(alive') IN
       /\ AllDone(table, MapTask)
       /\ \/ PickAndAssign(table, ReduceTask, w, durations')
          \/ /\ NothingToPick(table, ReduceTask)
             /\ ~ AllDone(table, ReduceTask)
             /\ task' = table
             /\ UNCHANGED issued
  /\ UNCHANGED <<registered, exited, jobErr, closed, merged, monitoring>>

\* Seeded fault: a worker is sent away when there is nothing to pick.
RequestExitWhenIdle(w) ==
  /\ TouchAndReclaim(w)
  /\ task' = Reclaimed(alive')
  /\ NothingToPick(task', Task)
  /\ exited' = exited \cup {w}
  /\ UNCHANGED <<registered, phase, jobErr, closed, durations, merged, monitoring, issued>>

\* RequestTask once every task is done: finishLocked, and exit.
RequestExit(w) ==
  /\ TouchAndReclaim(w)
  /\ task' = Reclaimed(alive')
  /\ AllDone(task', Task)
  /\ durations' = IF phase = "map" THEN 0 ELSE durations
  /\ FinishLocked
  /\ exited' = exited \cup {w}
  /\ UNCHANGED <<registered, merged, monitoring, issued>>

RequestTask(w) ==
  RequestAborted(w) \/ RequestMap(w) \/ RequestReduce(w) \/ RequestExit(w)

\* What every ReportTask does first.
ReceiveReport(w, t) ==
  /\ <<w, t>> \in issued
  /\ issued' = issued \ {<<w, t>>}
  /\ alive' = alive \cup {w}
  /\ silent' = silent \ {w}
  /\ UNCHANGED <<registered, exited, monitoring>>

\* The report of an attempt that another one beat is discarded.
ReportLate(w, t) ==
  /\ ReceiveReport(w, t)
  /\ task[t].state = "done"
  /\ UNCHANGED <<task, phase, jobErr, closed, durations, merged>>

\* Seeded fault: the failed attempt stays on the list.
FailAttemptKeepsWorker(r, w) ==
  [state |-> "idle", workers |-> r.workers, failures |-> r.failures + 1,
   backup |-> r.backup, overdue |-> FALSE]

\* A failure puts the task back in the queue, whatever its other attempts
\* do, and the one that spends the last attempt aborts the job.
FailAttempt(r, w) ==
  [state |-> "idle", workers |-> r.workers \ {w}, failures |-> r.failures + 1,
   backup |-> r.backup, overdue |-> FALSE]

ReportFailure(w, t) ==
  /\ ReceiveReport(w, t)
  /\ task[t].state # "done"
  /\ task' = [task EXCEPT ![t] = FailAttempt(@, w)]
  /\ IF MaxTaskAttempts > 0 /\ task[t].failures + 1 >= MaxTaskAttempts
     THEN FailLocked
     ELSE UNCHANGED <<phase, jobErr, closed>>
  /\ UNCHANGED <<durations, merged>>

\* Seeded fault: the report of a beaten attempt is merged too.
ReportSuccessAgain(w, t) ==
  /\ ReceiveReport(w, t)
  /\ task' = [task EXCEPT ![t].state = "done", ![t].overdue = FALSE]
  /\ durations' = durations + 1
  /\ merged' = [merged EXCEPT ![t] = @ + 1]
  /\ IF \A u \in Task \ {t} : task[u].state = "done"
     THEN FinishLocked
     ELSE UNCHANGED <<phase, jobErr, closed>>

ReportSuccess(w, t) ==
  /\ ReceiveReport(w, t)
  /\ task[t].state # "done"
  /\ task' = [task EXCEPT ![t].state = "done", ![t].overdue = FALSE]
  /\ durations' = durations + 1
  /\ merged' = [merged EXCEPT ![t] = @ + 1]
  /\ IF \A u \in Task \ {t} : task[u].state = "done"
     THEN FinishLocked
     ELSE UNCHANGED <<phase, jobErr, closed>>

ReportTask(w, t) == ReportLate(w, t) \/ ReportFailure(w, t) \/ ReportSuccess(w, t)

(***************************************************************************)
(* The monitor goroutine.  When the ticker and c.done are both ready its   *)
(* select may take either, so it can reclaim once more after the end.      *)
(***************************************************************************)
MonitorTick ==
  /\ monitoring
  /\ alive' = StillAlive(alive, silent)
  /\ task' = Reclaimed(alive')
  /\ UNCHANGED <<registered, exited, silent, phase, jobErr, closed, durations,
                 merged, monitoring, issued>>

MonitorReturn ==
  /\ monitoring
  /\ closed
  /\ monitoring' = FALSE
  /\ UNCHANGED <<task, registered, alive, exited, silent, phase, jobErr, closed,
                 durations, merged, issued>>

(***************************************************************************)
(* The passage of time.                                                    *)
(***************************************************************************)
FallSilent(w) ==
  /\ w \in registered \ silent
  /\ silent' = silent \cup {w}
  /\ UNCHANGED <<task, registered, alive, exited, phase, jobErr, closed,
                 durations, merged, monitoring, issued>>

Overrun(t) ==
  /\ task[t].state = "running"
  /\ ~ task[t].overdue
  /\ task' = [task EXCEPT ![t].overdue = TRUE]
  /\ UNCHANGED <<registered, alive, exited, silent, phase, jobErr, closed,
                 durations, merged, monitoring, issued>>

--------------------------------------------------------------------------------

Next ==
  \/ \E w \in Worker : \/ Register(w) \/ Heartbeat(w) \/ RequestTask(w)
                       \/ FallSilent(w)
  \/ \E w \in Worker, t \in Task : ReportTask(w, t)
  \/ MonitorTick
  \/ MonitorReturn
  \/ \E t \in Task : Overrun(t)

Spec == Init /\ [][Next]_vars

--------------------------------------------------------------------------------

Done == {t \in Task : task[t].state = "done"}

Over == phase \in {"done", "failed"}

(***************************************************************************)
(* RequestTask gates the reduce phase behind the last map task: while some *)
(* map task is not done no reduce task is idle-and-failed, running, done,  *)
(* or held by any worker, however late its attempts and reports arrive.    *)
(***************************************************************************)
ReduceGated ==
  (\E t \in MapTask : task[t].state # "done") =>
    \A r \in ReduceTask :
      /\ task[r].state = "idle"
      /\ task[r].failures = 0
      /\ \A w \in Worker : <<w, r>> \notin issued

(***************************************************************************)
(* ReportTask merges the counters of exactly one report of each finished   *)
(* task, whichever of its first attempt, its backup and the attempts that  *)
(* follow a timeout come back, and in whatever order.                      *)
(***************************************************************************)
CountersMergedOnce ==
  \A t \in Task : merged[t] = IF task[t].state = "done" THEN 1 ELSE 0

(***************************************************************************)
(* The durations medianDurationLocked looks at are those of the current    *)
(* phase: no report of a map attempt lands among the reduce durations.     *)
(***************************************************************************)
DurationsOfThisPhase ==
  /\ phase = "map" => durations = Cardinality(Done \cap MapTask)
  /\ phase = "reduce" => durations = Cardinality(Done \cap ReduceTask)

(***************************************************************************)
(* The coordinator waits for no attempt whose report it already has: each  *)
(* entry of the workers map of an unfinished task is an assignment that    *)
(* was not reported.  Otherwise reclaimLocked would count the attempt of a *)
(* healthy worker as live until the task times out.                        *)
(***************************************************************************)
NoPhantomAttempt ==
  \A t \in Task : task[t].state # "done" =>
    \A w \in task[t].workers : <<w, t>> \in issued

(***************************************************************************)
(* A running task always has an attempt to wait for, so reclaimLocked      *)
(* never has to rescue a task that nobody was ever given.                  *)
(***************************************************************************)
RunningHasAttempt ==
  \A t \in Task : task[t].state = "running" => task[t].workers # {}

(***************************************************************************)
(* phase, jobErr and the done channel tell one story (Status, Err and Wait *)
(* read one each), success means every task is done, and while the job     *)
(* goes on no task has spent its attempts.                                 *)
(***************************************************************************)
OutcomeAgrees ==
  /\ closed <=> Over
  /\ jobErr <=> phase = "failed"
  /\ phase = "done" => Done = Task
  /\ Done = Task /\ Task # {} => Over
  /\ ~ Over /\ MaxTaskAttempts > 0 => \A t \in Task : task[t].failures < MaxTaskAttempts

(***************************************************************************)
(* RequestTask tells a worker to exit only when the job is over, so        *)
(* DrainWorkers never counts a worker as gone that the job still needs.    *)
(***************************************************************************)
ExitOnlyWhenOver == exited # {} => Over

(***************************************************************************)
(* A finished task stays finished and a finished job keeps its outcome and *)
(* hands out no more work: late failures, retries and reclaims undo        *)
(* nothing.                                                                *)
(***************************************************************************)
FinalityStep ==
  /\ Done \subseteq Done'
  /\ Over => phase' = phase /\ issued' \subseteq issued

Finality == [][FinalityStep]_vars

(***************************************************************************)
(* A backup task adds one attempt to a running task, and a task is queued  *)
(* again beside its live attempts only by a failure report: no other path  *)
(* through pickLocked, assignLocked and reclaimLocked multiplies the work. *)
(***************************************************************************)
AttemptBudget(r) ==
  r.failures + (IF r.backup THEN 1 ELSE 0) + (IF r.state = "running" THEN 1 ELSE 0)

AttemptsBounded ==
  \A t \in Task :
    task[t].state # "done" => Cardinality(task[t].workers) <= AttemptBudget(task[t])

--------------------------------------------------------------------------------

(***************************************************************************)
(* The coordinator implements JobPromise: forget everything but the done   *)
(* tasks, the merged counters and the phase.                               *)
(***************************************************************************)
Outcome ==
  CASE phase = "done" -> "succeeded"
    [] phase = "failed" -> "failed"
    [] OTHER -> "open"

Promise == INSTANCE JobPromise WITH completed <- Done, outcome <- Outcome

KeepsPromise == Promise!Spec

================================================================================
