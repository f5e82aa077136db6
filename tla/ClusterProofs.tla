----------------------------- MODULE ClusterProofs -----------------------------
(***************************************************************************)
(* Proofs about the Coordinator and about a whole job, for every number of *)
(* tasks and workers.                                                      *)
(*                                                                         *)
(* The argument for the Coordinator: reclaimLocked and pickLocked never    *)
(* touch a done task and never invent an attempt (ReclaimFacts, PickFacts),*)
(* so every handler preserves the inductive invariant IInv.  The           *)
(* properties and the refinement of JobPromise follow from IInv.           *)
(*                                                                         *)
(* The argument for a job: each of its steps is a step of the Coordinator  *)
(* or leaves its variables alone (CoordinatorSteps), so what is shown of   *)
(* the Coordinator holds in a job.  The rest is the inductive invariant    *)
(* CInv: what the coordinator has handed out is what the workers hold,     *)
(* what is done is written, and the driver leaves a job that is over or    *)
(* has no worker left.                                                     *)
(***************************************************************************)
EXTENDS Cluster, FiniteSetTheorems, TLAPS

\* The part of a table that reclaiming and assigning keep.
Shrunk(table) ==
  /\ table \in [Task -> TaskRecord]
  /\ \A t \in Task :
       /\ table[t].state = "done" <=> task[t].state = "done"
       /\ table[t].workers \subseteq task[t].workers
       /\ table[t].failures = task[t].failures
       /\ task[t].state = "idle" => table[t] = task[t]
       /\ table[t].state = "running" => task[t].state = "running"
       /\ table[t].state = "running" => table[t].workers # {}

\* Task t of the list was assigned to w, on top of a table.
Assigned(table, list, w, t) ==
  /\ t \in list
  /\ table[t].state # "done"
  /\ task' \in [Task -> TaskRecord]
  /\ task'[t].state = "running"
  /\ task'[t].workers = table[t].workers \cup {w}
  /\ task'[t].failures = table[t].failures
  /\ \A u \in Task : u # t => task'[u] = table[u]
  /\ issued' = issued \cup {<<w, t>>}

(***************************************************************************)
(* reclaimLocked leaves done and idle tasks alone and only removes         *)
(* attempts; what is still running afterwards has one.                     *)
(***************************************************************************)
LEMMA ReclaimFacts ==
  ASSUME TypeOK, NEW live
  PROVE  Shrunk(Reclaimed(live))
<1> DEFINE table == Reclaimed(live)
<1>1. ASSUME NEW t \in Task
      PROVE  /\ table[t] = ReclaimTask(task[t], live)
             /\ task[t] \in TaskRecord
  BY DEF Reclaimed, TypeOK
<1>2. ASSUME NEW r \in TaskRecord
      PROVE  LET q == ReclaimTask(r, live) IN
             /\ q \in TaskRecord
             /\ q.state = "done" <=> r.state = "done"
             /\ q.workers \subseteq r.workers
             /\ q.failures = r.failures
             /\ r.state = "idle" => q = r
             /\ q.state = "running" => r.state = "running"
             /\ q.state = "running" => q.workers # {}
  BY DEF TaskRecord, ReclaimTask
<1>3. table \in [Task -> TaskRecord]
  BY <1>1, <1>2 DEF Reclaimed
<1> QED
  BY <1>1, <1>2, <1>3 DEF Shrunk

(***************************************************************************)
(* pickLocked and assignLocked hand out one task of the list that is not   *)
(* done, and change nothing else.                                          *)
(***************************************************************************)
LEMMA PickFacts ==
  ASSUME TypeOK, NEW table, Shrunk(table), NEW list, list \subseteq Task,
         NEW w \in Worker, NEW samples, PickAndAssign(table, list, w, samples)
  PROVE  \E t \in list : Assigned(table, list, w, t)
<1>1. PICK t \in list :
        /\ \/ /\ FirstIdle(table, list, t)
              /\ task' = [table EXCEPT ![t] = AssignTask(@, w)]
           \/ /\ Straggler(table, list, w, t, samples)
              /\ task' = [table EXCEPT ![t] = AssignTask([@ EXCEPT !.backup = TRUE], w)]
        /\ issued' = issued \cup {<<w, t>>}
  BY DEF PickAndAssign
<1>2. t \in Task /\ table \in [Task -> TaskRecord] /\ table[t] \in TaskRecord
  BY <1>1 DEF Shrunk
<1>3. ASSUME NEW r \in TaskRecord
      PROVE  LET q == AssignTask(r, w) IN
             /\ q \in TaskRecord
             /\ q.state = "running"
             /\ q.workers = r.workers \cup {w}
             /\ q.failures = r.failures
  BY DEF TaskRecord, AssignTask
<1>4. CASE /\ FirstIdle(table, list, t)
           /\ task' = [table EXCEPT ![t] = AssignTask(@, w)]
  <2>1. table[t].state # "done"
    BY <1>4 DEF FirstIdle
  <2> QED
    BY <1>1, <1>2, <1>3, <1>4, <2>1 DEF Assigned
<1>5. CASE /\ Straggler(table, list, w, t, samples)
           /\ task' = [table EXCEPT ![t] = AssignTask([@ EXCEPT !.backup = TRUE], w)]
  <2> DEFINE r == [table[t] EXCEPT !.backup = TRUE]
  <2>1. table[t].state # "done"
    BY <1>5 DEF Straggler
  <2>2. r \in TaskRecord /\ r.workers = table[t].workers /\ r.failures = table[t].failures
    BY <1>2 DEF TaskRecord
  <2>3. task' = [table EXCEPT ![t] = AssignTask(r, w)]
    BY <1>2, <1>5
  <2> HIDE DEF r
  <2> QED
    BY <1>1, <1>2, <1>3, <2>1, <2>2, <2>3 DEF Assigned
<1> QED
  BY <1>1, <1>4, <1>5

(***************************************************************************)
(* RequestTask as seen by the invariants: after touching and reclaiming,   *)
(* one task of the current list is assigned, or nothing is.                *)
(***************************************************************************)
Handed(list, w) ==
  \E table :
    /\ Shrunk(table)
    /\ \/ \E t \in list : Assigned(table, list, w, t)
       \/ task' = table /\ issued' = issued

\* A request begins by touching the worker and reclaiming: the table shrinks.
LEMMA TouchFacts ==
  ASSUME TypeOK, NEW w \in Worker, TouchAndReclaim(w)
  PROVE  /\ Shrunk(Reclaimed(alive'))
         /\ w \in registered
         /\ ~ jobErr
         /\ alive' \subseteq registered
         /\ silent' \subseteq registered
<1>1. Shrunk(Reclaimed(alive'))
  BY ReclaimFacts
<1> QED
  BY <1>1 DEF TouchAndReclaim, StillAlive, TypeOK

\* RequestTask in the map phase hands out map tasks only.
LEMMA RequestMapFacts ==
  ASSUME TypeOK, NEW w \in Worker, RequestMap(w)
  PROVE  Handed(MapTask, w)
<1> DEFINE table == Reclaimed(alive')
<1>1. Shrunk(table) /\ TouchAndReclaim(w)
  BY TouchFacts DEF RequestMap
<1>2. \/ PickAndAssign(table, MapTask, w, durations)
      \/ task' = table /\ issued' = issued
  BY DEF RequestMap
<1>3. MapTask \subseteq Task
  BY TaskCountAssumption DEF MapTask, Task
<1> HIDE DEF table
<1>4. CASE PickAndAssign(table, MapTask, w, durations)
  BY <1>1, <1>3, <1>4, PickFacts DEF Handed
<1> QED
  BY <1>1, <1>2, <1>4 DEF Handed

\* RequestTask hands out reduce tasks only, and only once every map task is done.
LEMMA RequestReduceFacts ==
  ASSUME TypeOK, NEW w \in Worker, RequestReduce(w)
  PROVE  /\ Handed(ReduceTask, w)
         /\ AllDone(task, MapTask)
<1> DEFINE table == Reclaimed(alive')
<1>1. Shrunk(table) /\ TouchAndReclaim(w)
  BY TouchFacts DEF RequestReduce
<1>2. \/ PickAndAssign(table, ReduceTask, w, durations')
      \/ task' = table /\ issued' = issued
  BY DEF RequestReduce
<1>3. ReduceTask \subseteq Task /\ MapTask \subseteq Task
  BY TaskCountAssumption DEF ReduceTask, MapTask, Task
<1>4. AllDone(table, MapTask)
  BY DEF RequestReduce
<1> HIDE DEF table
<1>5. AllDone(task, MapTask)
  BY <1>1, <1>3, <1>4 DEF AllDone, Shrunk
<1>6. CASE PickAndAssign(table, ReduceTask, w, durations')
  BY <1>1, <1>3, <1>5, <1>6, PickFacts DEF Handed
<1> QED
  BY <1>1, <1>2, <1>5, <1>6 DEF Handed

(***************************************************************************)
(* A failed attempt leaves the list of its task, which is idle again.      *)
(***************************************************************************)
LEMMA FailFacts ==
  ASSUME NEW r \in TaskRecord, NEW w \in Worker
  PROVE  /\ FailAttempt(r, w) \in TaskRecord
         /\ FailAttempt(r, w).state = "idle"
         /\ FailAttempt(r, w).workers = r.workers \ {w}
         /\ FailAttempt(r, w).failures = r.failures + 1
BY DEF TaskRecord, FailAttempt

LEMMA MarkFacts ==
  ASSUME NEW r \in TaskRecord
  PROVE  /\ [r EXCEPT !.state = "done", !.overdue = FALSE] \in TaskRecord
         /\ [r EXCEPT !.overdue = TRUE] \in TaskRecord
         /\ [r EXCEPT !.overdue = TRUE].state = r.state
         /\ [r EXCEPT !.overdue = TRUE].workers = r.workers
         /\ [r EXCEPT !.overdue = TRUE].failures = r.failures
BY DEF TaskRecord

--------------------------------------------------------------------------------

(***************************************************************************)
(* Type correctness.                                                       *)
(***************************************************************************)
LEMMA HandedType ==
  ASSUME TypeOK, NEW w \in Worker, w \in registered, registered' = registered,
         NEW list, list \subseteq Task, Handed(list, w)
  PROVE  task' \in [Task -> TaskRecord] /\ issued' \subseteq registered' \X Task
BY DEF Handed, Assigned, Shrunk, TypeOK

\* Each handler, and each step of time, keeps the types.
LEMMA TypeStep ==
  ASSUME TypeOK, [Next]_vars
  PROVE  TypeOK'
<1> USE DEF TypeOK
<1>0. MapTask \subseteq Task /\ ReduceTask \subseteq Task
  BY TaskCountAssumption DEF MapTask, ReduceTask, Task
<1>1. ASSUME NEW w \in Worker, Register(w) PROVE TypeOK'
  BY <1>1 DEF Register
<1>2. ASSUME NEW w \in Worker, Heartbeat(w) PROVE TypeOK'
  BY <1>2 DEF Heartbeat
<1>3. ASSUME NEW w \in Worker, RequestAborted(w) PROVE TypeOK'
  BY <1>3 DEF RequestAborted
<1>4. ASSUME NEW w \in Worker, RequestMap(w) PROVE TypeOK'
  <2>1. /\ w \in registered /\ alive' \subseteq registered /\ silent' \subseteq registered
        /\ Handed(MapTask, w)
    BY <1>4, TouchFacts, RequestMapFacts DEF RequestMap
  <2>2. registered' = registered
    BY <1>4 DEF RequestMap
  <2>3. task' \in [Task -> TaskRecord] /\ issued' \subseteq registered' \X Task
    BY <1>0, <2>1, <2>2, HandedType
  <2> QED
    BY <1>4, <2>1, <2>2, <2>3 DEF RequestMap
<1>5. ASSUME NEW w \in Worker, RequestReduce(w) PROVE TypeOK'
  <2>1. /\ w \in registered /\ alive' \subseteq registered /\ silent' \subseteq registered
        /\ Handed(ReduceTask, w)
    BY <1>5, TouchFacts, RequestReduceFacts DEF RequestReduce
  <2>2. registered' = registered
    BY <1>5 DEF RequestReduce
  <2>3. task' \in [Task -> TaskRecord] /\ issued' \subseteq registered' \X Task
    BY <1>0, <2>1, <2>2, HandedType
  <2> QED
    BY <1>5, <2>1, <2>2, <2>3 DEF RequestReduce
<1>6. ASSUME NEW w \in Worker, RequestExit(w) PROVE TypeOK'
  <2>1. /\ w \in registered /\ alive' \subseteq registered /\ silent' \subseteq registered
        /\ Shrunk(Reclaimed(alive'))
    BY <1>6, TouchFacts DEF RequestExit
  <2>2. task' \in [Task -> TaskRecord]
    BY <1>6, <2>1 DEF RequestExit, Shrunk
  <2> QED
    BY <1>6, <2>1, <2>2 DEF RequestExit, FinishLocked
<1>7. ASSUME NEW w \in Worker, NEW t \in Task, ReportLate(w, t) PROVE TypeOK'
  BY <1>7 DEF ReportLate, ReceiveReport
<1>8. ASSUME NEW w \in Worker, NEW t \in Task, ReportFailure(w, t) PROVE TypeOK'
  <2>1. task' \in [Task -> TaskRecord]
    BY <1>8, FailFacts DEF ReportFailure
  <2>2. phase' \in {"map", "reduce", "done", "failed"} /\ jobErr' \in BOOLEAN /\ closed' \in BOOLEAN
    BY <1>8 DEF ReportFailure, FailLocked
  <2> QED
    BY <1>8, <2>1, <2>2 DEF ReportFailure, ReceiveReport
<1>9. ASSUME NEW w \in Worker, NEW t \in Task, ReportSuccess(w, t) PROVE TypeOK'
  <2>1. task' \in [Task -> TaskRecord]
    <3>1. task' = [task EXCEPT ![t] = [@ EXCEPT !.state = "done", !.overdue = FALSE]]
      BY <1>9 DEF ReportSuccess
    <3>2. [task[t] EXCEPT !.state = "done", !.overdue = FALSE] \in TaskRecord
      BY MarkFacts
    <3> QED
      BY <3>1, <3>2
  <2>2. phase' \in {"map", "reduce", "done", "failed"} /\ jobErr' \in BOOLEAN /\ closed' \in BOOLEAN
    BY <1>9 DEF ReportSuccess, FinishLocked
  <2> QED
    BY <1>9, <2>1, <2>2 DEF ReportSuccess, ReceiveReport
<1>10. CASE MonitorTick
  <2>1. task' \in [Task -> TaskRecord]
    BY <1>10, ReclaimFacts DEF MonitorTick, Shrunk
  <2> QED
    BY <1>10, <2>1 DEF MonitorTick, StillAlive
<1>11. CASE MonitorReturn
  BY <1>11 DEF MonitorReturn
<1>12. ASSUME NEW w \in Worker, FallSilent(w) PROVE TypeOK'
  BY <1>12 DEF FallSilent
<1>13. ASSUME NEW t \in Task, Overrun(t) PROVE TypeOK'
  <2>1. task' \in [Task -> TaskRecord]
    BY <1>13 DEF Overrun, TaskRecord
  <2> QED
    BY <1>13, <2>1 DEF Overrun
<1>14. CASE UNCHANGED vars
  BY <1>14 DEF vars
<1> QED
  BY <1>1, <1>2, <1>3, <1>4, <1>5, <1>6, <1>7, <1>8, <1>9, <1>10, <1>11, <1>12, <1>13, <1>14
  DEF Next, RequestTask, ReportTask

\* The coordinator starts well typed.
LEMMA TypeInit == Init => TypeOK
<1>1. [state |-> "idle", workers |-> {}, failures |-> 0,
       backup |-> FALSE, overdue |-> FALSE] \in TaskRecord
  BY DEF TaskRecord
<1> SUFFICES ASSUME Init PROVE TypeOK
  OBVIOUS
<1>2. task \in [Task -> TaskRecord] /\ merged \in [Task -> Nat]
  BY <1>1 DEF Init
<1>3. /\ registered \subseteq Worker /\ alive \subseteq registered
      /\ exited \subseteq registered /\ silent \subseteq registered
      /\ issued \subseteq registered \X Task
      /\ phase \in {"map", "reduce", "done", "failed"} /\ durations \in Nat
  BY DEF Init
<1>4. jobErr \in BOOLEAN /\ closed \in BOOLEAN /\ monitoring \in BOOLEAN
  BY Zenon DEF Init
<1> QED
  BY <1>2, <1>3, <1>4 DEF TypeOK

(***************************************************************************)
(* Every reachable state of the coordinator is well typed; in particular   *)
(* it only believes in workers that registered.                            *)
(***************************************************************************)
THEOREM TypeCorrect == Spec => []TypeOK
<1>1. Init => TypeOK
  BY TypeInit
<1>2. TypeOK /\ [Next]_vars => TypeOK'
  BY TypeStep
<1> QED
  BY <1>1, <1>2, PTL DEF Spec

--------------------------------------------------------------------------------

(***************************************************************************)
(* The inductive invariant.  The properties the runs check are inductive   *)
(* together, once it is known what the phase says about the tasks: the     *)
(* phase is "map" until the first reduce task can be handed out, and       *)
(* "reduce" only when no map task is left.                                 *)
(***************************************************************************)
PhaseGate ==
  /\ phase = "map" => \A r \in ReduceTask :
       task[r].state = "idle" /\ \A w \in Worker : <<w, r>> \notin issued
  /\ phase = "reduce" => AllDone(task, MapTask)

TasksInv ==
  /\ PhaseGate
  /\ ReduceGated
  /\ CountersMergedOnce
  /\ NoPhantomAttempt
  /\ RunningHasAttempt

EndInv == OutcomeAgrees /\ ExitOnlyWhenOver

IInv == TypeOK /\ TasksInv /\ EndInv

\* Every task is a map task or a reduce task, never both.
LEMMA TaskPartition ==
  /\ MapTask \subseteq Task
  /\ ReduceTask \subseteq Task
  /\ Task = MapTask \cup ReduceTask
  /\ MapTask \cap ReduceTask = {}
BY TaskCountAssumption DEF MapTask, ReduceTask, Task

(***************************************************************************)
(* A table that only shrank, with no assignment, keeps the task part.      *)
(***************************************************************************)
LEMMA ShrunkKeeps ==
  ASSUME TypeOK, TasksInv, Shrunk(task'), issued' = issued, merged' = merged
  PROVE  /\ ReduceGated' /\ CountersMergedOnce' /\ NoPhantomAttempt' /\ RunningHasAttempt'
         /\ Done' = Done
         /\ \A t \in Task : task'[t].failures = task[t].failures
         /\ phase' = phase => PhaseGate'
<1> USE TaskPartition
<1>1. Done' = Done
  BY DEF Done, Shrunk
<1>2. ReduceGated'
  BY DEF TasksInv, ReduceGated, Shrunk
<1>3. CountersMergedOnce'
  BY DEF TasksInv, CountersMergedOnce, Shrunk
<1>4. NoPhantomAttempt'
  BY DEF TasksInv, NoPhantomAttempt, Shrunk
<1>5. RunningHasAttempt'
  BY DEF RunningHasAttempt, Shrunk
<1>6. phase' = phase => PhaseGate'
  BY DEF TasksInv, PhaseGate, Shrunk, AllDone
<1> QED
  BY <1>1, <1>2, <1>3, <1>4, <1>5, <1>6 DEF Shrunk

(***************************************************************************)
(* So does an assignment, if it respects the gate.                         *)
(***************************************************************************)
LEMMA HandedKeeps ==
  ASSUME TypeOK, TasksInv, NEW w \in Worker, NEW list, Handed(list, w), merged' = merged,
         \/ list = MapTask
         \/ list = ReduceTask /\ AllDone(task, MapTask)
  PROVE  /\ ReduceGated' /\ CountersMergedOnce' /\ NoPhantomAttempt' /\ RunningHasAttempt'
         /\ Done' = Done
         /\ \A t \in Task : task'[t].failures = task[t].failures
         /\ list = MapTask /\ phase' = phase => PhaseGate'
         /\ \A t \in Task : task[t].state = "done" => task'[t].state = "done"
         /\ Done = Task => issued' = issued
<1> USE TaskPartition
<1>1. PICK table :
        /\ Shrunk(table)
        /\ \/ \E t \in list : Assigned(table, list, w, t)
           \/ task' = table /\ issued' = issued
  BY DEF Handed
<1>2. CASE task' = table /\ issued' = issued
  <2>1. \A t \in Task : task[t].state = "done" => task'[t].state = "done"
    BY <1>1, <1>2 DEF Shrunk
  <2> QED
    BY <1>1, <1>2, <2>1, ShrunkKeeps
<1>3. CASE \E t \in list : Assigned(table, list, w, t)
  <2>1. PICK t \in list : Assigned(table, list, w, t)
    BY <1>3
  <2>2. /\ t \in Task
        /\ task[t].state # "done" /\ table[t].state # "done"
        /\ task'[t].state = "running"
        /\ task'[t].workers = table[t].workers \cup {w}
        /\ task'[t].failures = task[t].failures
        /\ issued' = issued \cup {<<w, t>>}
    BY <1>1, <2>1 DEF Assigned, Shrunk
  <2>3. ASSUME NEW u \in Task, u # t PROVE task'[u] = table[u]
    BY <2>1, <2>3 DEF Assigned
  <2>4. ASSUME NEW u \in Task
        PROVE  task'[u].state = "done" <=> task[u].state = "done"
    BY <1>1, <2>2, <2>3 DEF Shrunk
  <2>5. Done' = Done
    BY <2>4 DEF Done
  <2>6. ReduceGated'
    <3> SUFFICES ASSUME NEW m \in MapTask, task'[m].state # "done",
                          NEW r \in ReduceTask
                   PROVE  /\ task'[r].state = "idle" /\ task'[r].failures = 0
                          /\ \A v \in Worker : <<v, r>> \notin issued'
      BY DEF ReduceGated
    <3>2. task[m].state # "done"
      BY <2>4
    <3>3. list = MapTask /\ r # t
      BY <3>2 DEF AllDone
    <3> QED
      BY <1>1, <2>2, <2>3, <3>2, <3>3 DEF TasksInv, ReduceGated, Shrunk
  <2>7. CountersMergedOnce'
    BY <2>4 DEF TasksInv, CountersMergedOnce
  <2>8. NoPhantomAttempt'
    <3> SUFFICES ASSUME NEW u \in Task, task'[u].state # "done",
                          NEW v \in Worker, v \in task'[u].workers
                   PROVE  <<v, u>> \in issued'
      BY <1>1, <2>1 DEF NoPhantomAttempt, Assigned, TaskRecord
    <3>2. task[u].state # "done"
      BY <2>4
    <3>3. v \in task[u].workers \/ (u = t /\ v = w)
      BY <1>1, <2>2, <2>3 DEF Shrunk
    <3> QED
      BY <2>2, <3>2, <3>3 DEF TasksInv, NoPhantomAttempt
  <2>9. RunningHasAttempt'
    BY <1>1, <2>2, <2>3 DEF RunningHasAttempt, Shrunk
  <2>10. ASSUME NEW u \in Task PROVE task'[u].failures = task[u].failures
    BY <1>1, <2>2, <2>3 DEF Shrunk
  <2>11. list = MapTask /\ phase' = phase => PhaseGate'
    BY <1>1, <2>2, <2>3, <2>4 DEF TasksInv, PhaseGate, Shrunk, AllDone
  <2>12. Done # Task
    BY <2>2 DEF Done
  <2> QED
    BY <2>4, <2>5, <2>6, <2>7, <2>8, <2>9, <2>10, <2>11, <2>12
<1> QED
  BY <1>1, <1>2, <1>3

(***************************************************************************)
(* A step that changes no task, assignment, outcome or counter keeps it    *)
(* all.                                                                    *)
(***************************************************************************)
LEMMA FrameKeeps ==
  ASSUME IInv,
         UNCHANGED <<task, exited, phase, jobErr, closed, durations, merged, issued>>
  PROVE  TasksInv' /\ EndInv'
BY DEF IInv, TasksInv, EndInv, PhaseGate, ReduceGated, CountersMergedOnce, NoPhantomAttempt,
       RunningHasAttempt, OutcomeAgrees, ExitOnlyWhenOver, AllDone, Done, Over

(***************************************************************************)
(* The outcome survives every step that completes no task, counts no       *)
(* failure and only moves "map" to "reduce".                               *)
(***************************************************************************)
LEMMA OutcomeKeeps ==
  ASSUME IInv, Done' = Done,
         \A t \in Task : task'[t].failures = task[t].failures,
         UNCHANGED <<jobErr, closed, exited>>,
         \/ phase' = phase
         \/ phase = "map" /\ phase' = "reduce"
  PROVE  EndInv'
BY DEF IInv, EndInv, OutcomeAgrees, ExitOnlyWhenOver, Over

\* Each handler keeps the task part and the outcome part of the invariant.
LEMMA TasksStep ==
  ASSUME IInv, [Next]_vars
  PROVE  TasksInv' /\ EndInv'
<1> USE TaskPartition DEF IInv
<1>1. ASSUME NEW w \in Worker, Register(w) PROVE TasksInv' /\ EndInv'
  BY <1>1, FrameKeeps DEF Register
<1>2. ASSUME NEW w \in Worker, Heartbeat(w) PROVE TasksInv' /\ EndInv'
  BY <1>2, FrameKeeps DEF Heartbeat
<1>3. ASSUME NEW w \in Worker, RequestAborted(w) PROVE TasksInv' /\ EndInv'
  <2>1. TasksInv'
    BY <1>3 DEF RequestAborted, TasksInv, PhaseGate, ReduceGated, CountersMergedOnce,
                NoPhantomAttempt, RunningHasAttempt, AllDone
  <2>2. EndInv'
    BY <1>3 DEF RequestAborted, EndInv, OutcomeAgrees, ExitOnlyWhenOver, Over, Done
  <2> QED
    BY <2>1, <2>2
<1>4. ASSUME NEW w \in Worker, RequestMap(w) PROVE TasksInv' /\ EndInv'
  <2>1. UNCHANGED <<exited, phase, jobErr, closed, merged>>
    BY <1>4 DEF RequestMap
  <2>2. Handed(MapTask, w)
    BY <1>4, RequestMapFacts
  <2>3. TasksInv' /\ Done' = Done /\ \A t \in Task : task'[t].failures = task[t].failures
    BY <2>1, <2>2, HandedKeeps DEF TasksInv
  <2> QED
    BY <2>1, <2>3, OutcomeKeeps
<1>5. ASSUME NEW w \in Worker, RequestReduce(w) PROVE TasksInv' /\ EndInv'
  <2>1. /\ UNCHANGED <<exited, jobErr, closed, merged>>
        /\ phase' = IF phase = "map" THEN "reduce" ELSE phase
    BY <1>5 DEF RequestReduce
  <2>2. Handed(ReduceTask, w) /\ AllDone(task, MapTask)
    BY <1>5, RequestReduceFacts
  <2>3. /\ ReduceGated' /\ CountersMergedOnce' /\ NoPhantomAttempt' /\ RunningHasAttempt'
        /\ Done' = Done
        /\ \A t \in Task : task'[t].failures = task[t].failures
        /\ \A t \in Task : task[t].state = "done" => task'[t].state = "done"
    BY <2>1, <2>2, HandedKeeps
  <2>4. PhaseGate'
    BY <2>1, <2>2, <2>3 DEF PhaseGate, AllDone
  <2> QED
    BY <2>1, <2>3, <2>4, OutcomeKeeps DEF TasksInv
<1>6. ASSUME NEW w \in Worker, RequestExit(w) PROVE TasksInv' /\ EndInv'
  <2>1. Shrunk(task') /\ AllDone(task', Task)
    BY <1>6, TouchFacts DEF RequestExit
  <2>2. UNCHANGED <<merged, issued, jobErr>> /\ FinishLocked /\ ~ jobErr
    BY <1>6 DEF RequestExit, FinishLocked, TouchAndReclaim
  <2>3. /\ ReduceGated' /\ CountersMergedOnce' /\ NoPhantomAttempt' /\ RunningHasAttempt'
        /\ Done' = Done
        /\ \A t \in Task : task'[t].failures = task[t].failures
    BY <2>1, <2>2, ShrunkKeeps
  <2>4. phase' = "done" /\ closed'
    BY <2>2 DEF FinishLocked, EndInv, OutcomeAgrees, Over
  <2>5. Done' = Task
    BY <2>1 DEF AllDone, Done
  <2>6. PhaseGate'
    BY <2>4 DEF PhaseGate
  <2>7. EndInv'
    BY <2>2, <2>4, <2>5 DEF EndInv, OutcomeAgrees, ExitOnlyWhenOver, Over
  <2> QED
    BY <2>3, <2>6, <2>7 DEF TasksInv
<1>7. ASSUME NEW w \in Worker, NEW t \in Task, ReportLate(w, t) PROVE TasksInv' /\ EndInv'
  <2>1. /\ UNCHANGED <<task, exited, phase, jobErr, closed, merged>>
        /\ issued' = issued \ {<<w, t>>}
        /\ task[t].state = "done"
    BY <1>7 DEF ReportLate, ReceiveReport
  <2>2. PhaseGate' /\ ReduceGated' /\ CountersMergedOnce' /\ RunningHasAttempt'
    BY <2>1 DEF TasksInv, PhaseGate, ReduceGated, CountersMergedOnce, RunningHasAttempt, AllDone
  <2>3. NoPhantomAttempt'
    BY <2>1 DEF TasksInv, NoPhantomAttempt
  <2>4. EndInv'
    BY <2>1 DEF EndInv, OutcomeAgrees, ExitOnlyWhenOver, Over, Done
  <2> QED
    BY <2>2, <2>3, <2>4 DEF TasksInv
<1>8. ASSUME NEW w \in Worker, NEW t \in Task, ReportFailure(w, t) PROVE TasksInv' /\ EndInv'
  <2> DEFINE r == FailAttempt(task[t], w)
  <2>1. /\ <<w, t>> \in issued
        /\ issued' = issued \ {<<w, t>>}
        /\ task[t].state # "done"
        /\ task' = [task EXCEPT ![t] = r]
        /\ UNCHANGED <<merged, exited>>
    BY <1>8 DEF ReportFailure, ReceiveReport
  <2>2. /\ r.state = "idle" /\ r.workers = task[t].workers \ {w}
        /\ r.failures = task[t].failures + 1
    BY FailFacts DEF TypeOK
  <2>3. /\ task'[t] = r
        /\ \A u \in Task : u # t => task'[u] = task[u]
        /\ \A u \in Task : task'[u].state = "done" <=> task[u].state = "done"
    BY <2>1, <2>2 DEF TypeOK
  <2> HIDE DEF r
  <2>4. \/ UNCHANGED <<phase, jobErr, closed>>
        \/ closed /\ UNCHANGED <<phase, jobErr, closed>>
        \/ ~ closed /\ phase' = "failed" /\ jobErr' /\ closed'
    BY <1>8 DEF ReportFailure, FailLocked, TypeOK
  <2>5. PhaseGate'
    BY <2>1, <2>2, <2>3, <2>4 DEF TasksInv, PhaseGate, AllDone
  <2>6. ReduceGated'
    BY <2>1, <2>2, <2>3 DEF TasksInv, ReduceGated
  <2>7. CountersMergedOnce'
    BY <2>1, <2>3 DEF TasksInv, CountersMergedOnce
  <2>8. NoPhantomAttempt'
    BY <2>1, <2>2, <2>3 DEF TasksInv, NoPhantomAttempt
  <2>9. RunningHasAttempt'
    BY <2>2, <2>3 DEF TasksInv, RunningHasAttempt
  <2>10. Done' = Done
    BY <2>3 DEF Done
  <2>11. /\ closed' <=> Over'
         /\ jobErr' <=> phase' = "failed"
         /\ phase' = "done" => Done' = Task
         /\ Done' = Task /\ Task # {} => Over'
         /\ exited' # {} => Over'
    BY <2>1, <2>4, <2>10 DEF EndInv, OutcomeAgrees, ExitOnlyWhenOver, Over
  <2>12. ASSUME ~ Over', MaxTaskAttempts > 0, NEW u \in Task
         PROVE  task'[u].failures < MaxTaskAttempts
    <3>1. ~ Over
      BY <2>4, <2>12 DEF Over, EndInv, OutcomeAgrees
    <3>2. CASE u # t
      BY <2>3, <2>12, <3>1, <3>2 DEF EndInv, OutcomeAgrees
    <3>3. CASE u = t
      <4>1. ~ (task[t].failures + 1 >= MaxTaskAttempts)
        BY <1>8, <2>12, <3>1 DEF ReportFailure, FailLocked, Over, EndInv, OutcomeAgrees
      <4>2. task[t].failures \in Nat
        BY DEF TypeOK, TaskRecord
      <4> QED
        BY <2>2, <2>3, <3>3, <4>1, <4>2, AttemptsAssumption
    <3> QED
      BY <3>2, <3>3
  <2>13. EndInv'
    BY <2>11, <2>12 DEF EndInv, OutcomeAgrees, ExitOnlyWhenOver
  <2> QED
    BY <2>5, <2>6, <2>7, <2>8, <2>9, <2>13 DEF TasksInv
<1>9. ASSUME NEW w \in Worker, NEW t \in Task, ReportSuccess(w, t) PROVE TasksInv' /\ EndInv'
  <2>1. /\ <<w, t>> \in issued
        /\ issued' = issued \ {<<w, t>>}
        /\ task[t].state # "done"
        /\ task' = [task EXCEPT ![t] = [@ EXCEPT !.state = "done", !.overdue = FALSE]]
        /\ merged' = [merged EXCEPT ![t] = merged[t] + 1]
        /\ UNCHANGED exited
    BY <1>9 DEF ReportSuccess, ReceiveReport
  <2>2. /\ task'[t].state = "done"
        /\ task'[t].failures = task[t].failures
        /\ \A u \in Task : u # t => task'[u] = task[u]
    BY <2>1 DEF TypeOK, TaskRecord
  <2>3. \/ UNCHANGED <<phase, jobErr, closed>> /\ Done' # Task
        \/ closed /\ UNCHANGED <<phase, jobErr, closed>>
        \/ ~ closed /\ phase' = "done" /\ jobErr' = jobErr /\ closed' /\ Done' = Task
    BY <1>9, <2>2 DEF ReportSuccess, FinishLocked, TypeOK, Done
  <2>4. PhaseGate'
    BY <2>1, <2>2, <2>3 DEF TasksInv, PhaseGate, AllDone
  <2>5. ReduceGated'
    BY <2>1, <2>2 DEF TasksInv, ReduceGated
  <2>6. CountersMergedOnce'
    BY <2>1, <2>2 DEF TasksInv, CountersMergedOnce, TypeOK
  <2>7. NoPhantomAttempt'
    BY <2>1, <2>2 DEF TasksInv, NoPhantomAttempt
  <2>8. RunningHasAttempt'
    BY <2>2 DEF TasksInv, RunningHasAttempt
  <2>9. Done' = Done \cup {t}
    BY <2>2 DEF Done
  <2>10. EndInv'
    BY <2>1, <2>2, <2>3, <2>9 DEF EndInv, OutcomeAgrees, ExitOnlyWhenOver, Over, Done
  <2> QED
    BY <2>4, <2>5, <2>6, <2>7, <2>8, <2>10 DEF TasksInv
<1>10. CASE MonitorTick
  <2>1. Shrunk(task') /\ UNCHANGED <<exited, phase, jobErr, closed, merged, issued>>
    BY <1>10, ReclaimFacts DEF MonitorTick
  <2> QED
    BY <2>1, ShrunkKeeps, OutcomeKeeps DEF TasksInv
<1>11. CASE MonitorReturn
  BY <1>11, FrameKeeps DEF MonitorReturn
<1>12. ASSUME NEW w \in Worker, FallSilent(w) PROVE TasksInv' /\ EndInv'
  BY <1>12, FrameKeeps DEF FallSilent
<1>13. ASSUME NEW t \in Task, Overrun(t) PROVE TasksInv' /\ EndInv'
  <2>1. /\ task' = [task EXCEPT ![t].overdue = TRUE]
        /\ task[t].state = "running"
        /\ UNCHANGED <<exited, phase, jobErr, closed, merged, issued>>
    BY <1>13 DEF Overrun
  <2> DEFINE r == [task[t] EXCEPT !.overdue = TRUE]
  <2>2. /\ task \in [Task -> TaskRecord]
        /\ \A u \in Task : task[u].state = "running" => task[u].workers # {}
    BY DEF TypeOK, TasksInv, RunningHasAttempt
  <2>3. task[t] \in TaskRecord
    BY <2>2
  <2>4. /\ r \in TaskRecord
        /\ r.state = "running" /\ r.workers = task[t].workers /\ r.failures = task[t].failures
    BY <2>1, <2>3, MarkFacts
  <2>5. task' = [task EXCEPT ![t] = r]
    BY <2>1
  <2> HIDE DEF r
  <2>6. task'[t] = r /\ \A u \in Task \ {t} : task'[u] = task[u]
    BY <2>2, <2>5
  <2>7. task' \in [Task -> TaskRecord]
    BY <2>2, <2>4, <2>5
  <2>8. Shrunk(task')
    BY <2>1, <2>2, <2>4, <2>6, <2>7 DEF Shrunk
  <2> QED
    BY <2>1, <2>8, ShrunkKeeps, OutcomeKeeps DEF TasksInv
<1>14. CASE UNCHANGED vars
  BY <1>14, FrameKeeps DEF vars
<1> QED
  BY <1>1, <1>2, <1>3, <1>4, <1>5, <1>6, <1>7, <1>8, <1>9, <1>10, <1>11, <1>12, <1>13, <1>14
  DEF Next, RequestTask, ReportTask

\* The inductive invariant holds at the start,
LEMMA IInvInit == Init => IInv
<1> SUFFICES ASSUME Init PROVE IInv
  OBVIOUS
<1>1. TypeOK
  BY TypeInit
<1>2. ASSUME NEW t \in Task
      PROVE  task[t].state = "idle" /\ task[t].workers = {} /\ task[t].failures = 0
  BY <1>2 DEF Init
<1>3. /\ issued = {} /\ exited = {} /\ phase = "map" /\ merged = [t \in Task |-> 0]
      /\ jobErr = FALSE /\ closed = FALSE
  BY DEF Init
<1>4. TasksInv
  BY <1>2, <1>3, TaskPartition DEF TasksInv, PhaseGate, ReduceGated, CountersMergedOnce,
     NoPhantomAttempt, RunningHasAttempt
<1>5. EndInv
  BY <1>2, <1>3, AttemptsAssumption DEF EndInv, OutcomeAgrees, ExitOnlyWhenOver, Over, Done
<1> QED
  BY <1>1, <1>4, <1>5 DEF IInv

\* every step keeps it,
LEMMA IInvStep == IInv /\ [Next]_vars => IInv'
BY TypeStep, TasksStep DEF IInv

\* and so it holds in every state.
LEMMA IInvAlways == Spec => []IInv
BY IInvInit, IInvStep, PTL DEF Spec

--------------------------------------------------------------------------------

(***************************************************************************)
(* No reduce task is handed out, tried or finished before the last map     *)
(* task, for every number of tasks and workers.                            *)
(***************************************************************************)
THEOREM ReduceIsGated == Spec => []ReduceGated
<1>1. IInv => ReduceGated
  BY DEF IInv, TasksInv
<1> QED
  BY <1>1, IInvAlways, PTL

(***************************************************************************)
(* The counters of the job count each finished task once, whatever         *)
(* attempts were duplicated, lost or late.                                 *)
(***************************************************************************)
THEOREM MergedOnce == Spec => []CountersMergedOnce
<1>1. IInv => CountersMergedOnce
  BY DEF IInv, TasksInv
<1> QED
  BY <1>1, IInvAlways, PTL

(***************************************************************************)
(* The coordinator never waits for an attempt it has heard of already, and *)
(* always has one to wait for.                                             *)
(***************************************************************************)
THEOREM AttemptsAreReal == Spec => [](NoPhantomAttempt /\ RunningHasAttempt)
<1>1. IInv => NoPhantomAttempt /\ RunningHasAttempt
  BY DEF IInv, TasksInv
<1> QED
  BY <1>1, IInvAlways, PTL

(***************************************************************************)
(* Status, Err and Wait agree on the outcome, which is true; and no worker *)
(* is told to exit before it.                                              *)
(***************************************************************************)
THEOREM OutcomeIsTrue == Spec => [](OutcomeAgrees /\ ExitOnlyWhenOver)
<1>1. IInv => OutcomeAgrees /\ ExitOnlyWhenOver
  BY DEF IInv, EndInv
<1> QED
  BY <1>1, IInvAlways, PTL

--------------------------------------------------------------------------------

(***************************************************************************)
(* Every step but a successful report is a stutter of the done tasks and   *)
(* the counters.                                                           *)
(***************************************************************************)
LEMMA QuietSteps ==
  ASSUME IInv, [Next]_vars
  PROVE  \/ /\ Done' = Done
            /\ merged' = merged
            /\ Over => phase' = phase /\ issued' \subseteq issued
            /\ \/ phase' = phase /\ durations' = durations
               \/ phase = "map" /\ phase' = "reduce" /\ durations' = 0
               \/ phase' = "failed" /\ ~ Over /\ Done # Task
               \/ phase' = "done" /\ ~ Over /\ Task = {}
         \/ \E w \in Worker, t \in Task : ReportSuccess(w, t)
<1> USE TaskPartition DEF IInv
<1> DEFINE Quiet == /\ Done' = Done
                    /\ merged' = merged
                    /\ Over => phase' = phase /\ issued' \subseteq issued
                    /\ \/ phase' = phase /\ durations' = durations
                       \/ phase = "map" /\ phase' = "reduce" /\ durations' = 0
                       \/ phase' = "failed" /\ ~ Over /\ Done # Task
                       \/ phase' = "done" /\ ~ Over /\ Task = {}
<1>1. ASSUME NEW w \in Worker,
             Register(w) \/ Heartbeat(w) \/ FallSilent(w) \/ RequestAborted(w)
      PROVE  Quiet
  BY <1>1 DEF Register, Heartbeat, FallSilent, RequestAborted, Done
<1>2. ASSUME NEW w \in Worker, RequestMap(w) PROVE Quiet
  <2>1. UNCHANGED <<phase, merged, durations>> /\ ~ jobErr
    BY <1>2 DEF RequestMap, TouchAndReclaim
  <2>2. Handed(MapTask, w)
    BY <1>2, RequestMapFacts
  <2>3. Done' = Done /\ (Done = Task => issued' = issued)
    BY <2>1, <2>2, HandedKeeps
  <2> QED
    BY <2>1, <2>3 DEF EndInv, OutcomeAgrees, Over
<1>3. ASSUME NEW w \in Worker, RequestReduce(w) PROVE Quiet
  <2>1. /\ merged' = merged /\ ~ jobErr
        /\ phase' = IF phase = "map" THEN "reduce" ELSE phase
        /\ durations' = IF phase = "map" THEN 0 ELSE durations
    BY <1>3 DEF RequestReduce, TouchAndReclaim
  <2>2. Handed(ReduceTask, w) /\ AllDone(task, MapTask)
    BY <1>3, RequestReduceFacts
  <2>3. Done' = Done /\ (Done = Task => issued' = issued)
    BY <2>1, <2>2, HandedKeeps
  <2> QED
    BY <2>1, <2>3 DEF EndInv, OutcomeAgrees, Over
<1>4. ASSUME NEW w \in Worker, RequestExit(w) PROVE Quiet
  <2>1. Shrunk(task') /\ AllDone(task', Task)
    BY <1>4, TouchFacts DEF RequestExit
  <2>2. /\ UNCHANGED <<merged, issued>> /\ FinishLocked
        /\ durations' = IF phase = "map" THEN 0 ELSE durations
    BY <1>4 DEF RequestExit
  <2>3. Done' = Done /\ Done' = Task
    BY <2>1 DEF AllDone, Done, Shrunk
  <2> QED
    BY <2>2, <2>3 DEF FinishLocked, EndInv, OutcomeAgrees, Over
<1>5. ASSUME NEW w \in Worker, NEW t \in Task, ReportLate(w, t) PROVE Quiet
  BY <1>5 DEF ReportLate, ReceiveReport, Done
<1>6. ASSUME NEW w \in Worker, NEW t \in Task, ReportFailure(w, t) PROVE Quiet
  <2>1. /\ task' = [task EXCEPT ![t] = FailAttempt(task[t], w)]
        /\ task[t].state # "done" /\ merged' = merged /\ issued' \subseteq issued
    BY <1>6 DEF ReportFailure, ReceiveReport
  <2>2. \A u \in Task : task'[u].state = "done" <=> task[u].state = "done"
    BY <2>1, FailFacts DEF TypeOK
  <2>3. Done' = Done /\ Done # Task
    BY <2>1, <2>2 DEF Done
  <2>4. (phase' = phase \/ (phase' = "failed" /\ ~ closed)) /\ durations' = durations
    BY <1>6 DEF ReportFailure, FailLocked
  <2> QED
    BY <2>1, <2>3, <2>4 DEF EndInv, OutcomeAgrees, Over
<1>7. CASE MonitorTick
  <2>1. Shrunk(task') /\ UNCHANGED <<phase, merged, issued, durations>>
    BY <1>7, ReclaimFacts DEF MonitorTick
  <2> QED
    BY <2>1 DEF Done, Shrunk
<1>8. CASE MonitorReturn \/ UNCHANGED vars
  BY <1>8 DEF MonitorReturn, vars, Done
<1>9. ASSUME NEW t \in Task, Overrun(t) PROVE Quiet
  <2>1. \A u \in Task : task'[u].state = task[u].state
    BY <1>9 DEF Overrun, TypeOK, TaskRecord
  <2>2. UNCHANGED <<phase, merged, issued, durations>>
    BY <1>9 DEF Overrun
  <2> QED
    BY <2>1, <2>2 DEF Done
<1> QED
  BY <1>1, <1>2, <1>3, <1>4, <1>5, <1>6, <1>7, <1>8, <1>9
  DEF Next, RequestTask, ReportTask

\* And a successful report completes one task that was open.
LEMMA SuccessFacts ==
  ASSUME IInv, NEW w \in Worker, NEW t \in Task, ReportSuccess(w, t)
  PROVE  /\ t \notin Done
         /\ Done' = Done \cup {t}
         /\ t \in ReduceTask => MapTask \subseteq Done
         /\ merged' = [merged EXCEPT ![t] = @ + 1]
         /\ issued' \subseteq issued
         /\ durations' = durations + 1
         /\ phase' = IF ~ Over /\ Done' = Task THEN "done" ELSE phase
<1> USE TaskPartition DEF IInv
<1>1. /\ <<w, t>> \in issued
      /\ issued' \subseteq issued
      /\ task[t].state # "done"
      /\ merged' = [merged EXCEPT ![t] = @ + 1]
      /\ durations' = durations + 1
      /\ task' = [task EXCEPT ![t] = [@ EXCEPT !.state = "done", !.overdue = FALSE]]
  BY DEF ReportSuccess, ReceiveReport
<1>2. task'[t].state = "done" /\ \A u \in Task : u # t => task'[u] = task[u]
  BY <1>1 DEF TypeOK, TaskRecord
<1>3. t \notin Done /\ Done' = Done \cup {t}
  BY <1>1, <1>2 DEF Done
<1>4. t \in ReduceTask => MapTask \subseteq Done
  BY <1>1 DEF TasksInv, ReduceGated, Done
<1>5. phase' = IF ~ closed /\ Done' = Task THEN "done" ELSE phase
  <2>1. (\A u \in Task \ {t} : task[u].state = "done") <=> Done' = Task
    BY <1>2 DEF Done
  <2> QED
    BY <2>1 DEF ReportSuccess, FinishLocked
<1> QED
  BY <1>1, <1>3, <1>4, <1>5 DEF EndInv, OutcomeAgrees

(***************************************************************************)
(* Finished tasks and finished jobs are final: no late failure, reclaim or *)
(* retry undoes one, and no work is handed out after the end.              *)
(***************************************************************************)
THEOREM EndIsFinal == Spec => Finality
<1>1. IInv /\ [Next]_vars => [FinalityStep]_vars
  <2> SUFFICES ASSUME IInv, [Next]_vars PROVE FinalityStep
    OBVIOUS
  <2>1. CASE \E w \in Worker, t \in Task : ReportSuccess(w, t)
    BY <2>1, SuccessFacts DEF FinalityStep
  <2> QED
    BY <2>1, QuietSteps DEF FinalityStep
<1> QED
  BY <1>1, IInvAlways, PTL DEF Spec, Finality

(***************************************************************************)
(* The coordinator, with its workers, attempts, heartbeats, backups and    *)
(* late reports, implements JobPromise.                                    *)
(***************************************************************************)
THEOREM CoordinatorKeepsPromise == Spec => KeepsPromise
<1> USE TaskPartition
<1>1. Init => Promise!Init
  BY DEF Init, Promise!Init, Promise!Task, Done, Outcome
<1>2. IInv /\ [Next]_vars => [Promise!Next]_(Promise!vars)
  <2> SUFFICES ASSUME IInv, [Next]_vars
               PROVE  Promise!Next \/ UNCHANGED <<Done, merged, Outcome>>
    BY DEF Promise!vars
  <2>1. ASSUME NEW w \in Worker, NEW t \in Task, ReportSuccess(w, t)
        PROVE  Promise!Complete(t)
    <3>1. Outcome' = IF Outcome = "open" /\ Done' = Task THEN "succeeded" ELSE Outcome
      BY <2>1, SuccessFacts DEF Outcome, Over, IInv, TypeOK
    <3> QED
      BY <2>1, <3>1, SuccessFacts DEF Promise!Complete, Promise!Task
  <2>2. CASE /\ Done' = Done
             /\ merged' = merged
             /\ \/ phase' = phase
                \/ phase = "map" /\ phase' = "reduce"
    BY <2>2 DEF Outcome
  <2>3. CASE /\ Done' = Done /\ merged' = merged
             /\ phase' = "failed" /\ ~ Over /\ Done # Task
    BY <2>3 DEF Outcome, Over, Promise!Next, Promise!Fail, Promise!Task
  <2>4. CASE /\ Done' = Done /\ merged' = merged
             /\ phase' = "done" /\ ~ Over /\ Task = {}
    BY <2>4 DEF Outcome, Over, Promise!Next, Promise!Empty, Promise!Task
  <2> QED
    BY <2>1, <2>2, <2>3, <2>4, QuietSteps DEF Promise!Next, Promise!Task
<1> QED
  BY <1>1, <1>2, IInvAlways, PTL DEF Spec, KeepsPromise, Promise!Spec

--------------------------------------------------------------------------------

\* There are finitely many tasks, so done tasks can be counted.
LEMMA TasksFinite == IsFiniteSet(MapTask) /\ IsFiniteSet(ReduceTask)
BY FS_Interval, TaskCountAssumption DEF MapTask, ReduceTask

\* Each step keeps the number of samples equal to the done tasks of the phase.
LEMMA DurationsStep ==
  ASSUME IInv, DurationsOfThisPhase, [Next]_vars
  PROVE  DurationsOfThisPhase'
<1> USE TaskPartition
<1>1. CASE Done' = Done /\ phase' = phase /\ durations' = durations
  BY <1>1 DEF DurationsOfThisPhase
<1>2. CASE Done' = Done /\ phase = "map" /\ phase' = "reduce" /\ durations' = 0
  <2>1. Done \cap ReduceTask = {}
    BY <1>2 DEF Done, IInv, TasksInv, PhaseGate
  <2> QED
    BY <1>2, <2>1, FS_EmptySet DEF DurationsOfThisPhase
<1>3. CASE phase' = "failed" \/ phase' = "done"
  BY <1>3 DEF DurationsOfThisPhase
<1>4. ASSUME NEW w \in Worker, NEW t \in Task, ReportSuccess(w, t)
      PROVE  DurationsOfThisPhase'
  <2>1. /\ t \notin Done /\ Done' = Done \cup {t}
        /\ t \in ReduceTask => MapTask \subseteq Done
        /\ durations' = durations + 1
        /\ phase' = IF ~ Over /\ Done' = Task THEN "done" ELSE phase
    BY <1>4, SuccessFacts
  <2>2. ASSUME NEW list, IsFiniteSet(list), t \in list
        PROVE  Cardinality(Done' \cap list) = Cardinality(Done \cap list) + 1
    <3>1. IsFiniteSet(Done \cap list)
      BY <2>2, FS_Intersection
    <3>2. Done' \cap list = (Done \cap list) \cup {t} /\ t \notin Done \cap list
      BY <2>1, <2>2
    <3> QED
      BY <3>1, <3>2, FS_AddElement
  <2>3. CASE phase' = "map"
    <3>1. phase = "map"
      BY <2>1, <2>3
    <3>2. <<w, t>> \in issued
      BY <1>4 DEF ReportSuccess, ReceiveReport
    <3>3. t \in MapTask
      BY <3>1, <3>2 DEF IInv, TasksInv, PhaseGate
    <3> QED
      BY <2>1, <2>2, <2>3, <3>1, <3>3, TasksFinite DEF DurationsOfThisPhase
  <2>4. CASE phase' = "reduce"
    <3>1. phase = "reduce"
      BY <2>1, <2>4
    <3>2. t \in ReduceTask
      BY <2>1, <3>1 DEF IInv, TasksInv, PhaseGate, AllDone, Done
    <3> QED
      BY <2>1, <2>2, <2>4, <3>1, <3>2, TasksFinite DEF DurationsOfThisPhase
  <2> QED
    BY <2>3, <2>4 DEF DurationsOfThisPhase
<1> QED
  BY <1>1, <1>2, <1>3, <1>4, QuietSteps

(***************************************************************************)
(* The median that marks a straggler is taken over the finished tasks of   *)
(* the current phase and nothing else.                                     *)
(***************************************************************************)
THEOREM DurationsMatchPhase == Spec => []DurationsOfThisPhase
<1>1. Init => DurationsOfThisPhase
  <2> SUFFICES ASSUME Init PROVE DurationsOfThisPhase
    OBVIOUS
  <2>1. Done = {} /\ phase = "map" /\ durations = 0
    BY DEF Init, Done
  <2> QED
    BY <2>1, FS_EmptySet DEF DurationsOfThisPhase
<1>2. IInv /\ DurationsOfThisPhase /\ [Next]_vars => DurationsOfThisPhase'
  BY DurationsStep
<1> QED
  BY <1>1, <1>2, IInvAlways, PTL DEF Spec

--------------------------------------------------------------------------------

(***************************************************************************)
(* The bound on concurrent attempts, one task struct at a time: each       *)
(* helper keeps the number of listed attempts within the budget.           *)
(***************************************************************************)
Bounded(r) ==
  /\ IsFiniteSet(r.workers)
  /\ r.state # "done" => Cardinality(r.workers) <= AttemptBudget(r)

\* The attempts a task may have are a number.
LEMMA BudgetType ==
  ASSUME NEW r \in TaskRecord
  PROVE  AttemptBudget(r) \in Nat
BY DEF AttemptBudget, TaskRecord

\* Reclaiming a task removes attempts and keeps it within its budget.
LEMMA ReclaimBounded ==
  ASSUME NEW r \in TaskRecord, Bounded(r), NEW live
  PROVE  Bounded(ReclaimTask(r, live))
<1> DEFINE q == ReclaimTask(r, live)
<1>1. CASE r.state # "running"
  BY <1>1 DEF ReclaimTask
<1>2. CASE r.state = "running" /\ (r.workers \cap live = {} \/ r.overdue)
  <2>1. q.workers = {} /\ q.state = "idle" /\ q.backup = FALSE /\ q.failures = r.failures
    BY <1>2 DEF ReclaimTask, TaskRecord
  <2>2. r.failures \in Nat
    BY DEF TaskRecord
  <2> QED
    BY <2>1, <2>2, FS_EmptySet DEF Bounded, AttemptBudget
<1>3. CASE r.state = "running" /\ ~ (r.workers \cap live = {} \/ r.overdue)
  <2>1. /\ q.workers = r.workers \cap live /\ q.state = r.state
        /\ q.backup = r.backup /\ q.failures = r.failures
    BY <1>3 DEF ReclaimTask, TaskRecord
  <2>2. IsFiniteSet(q.workers) /\ Cardinality(q.workers) <= Cardinality(r.workers)
    BY <2>1, FS_Intersection DEF Bounded
  <2>3. AttemptBudget(q) = AttemptBudget(r)
    BY <2>1 DEF AttemptBudget
  <2>4. Cardinality(q.workers) \in Nat /\ Cardinality(r.workers) \in Nat
    BY <2>2, FS_CardinalityType DEF Bounded
  <2>5. r.state # "done"
    BY <1>3
  <2>6. AttemptBudget(r) \in Nat
    BY BudgetType
  <2> HIDE DEF q
  <2>7. Cardinality(q.workers) <= AttemptBudget(q)
    BY <2>2, <2>3, <2>4, <2>5, <2>6 DEF Bounded
  <2>8. Bounded(q)
    BY <2>2, <2>7 DEF Bounded
  <2> QED
    BY <2>8 DEF q
<1> QED
  BY <1>1, <1>2, <1>3

\* An idle task, or a running one whose backup flag was just set, has room
\* for one more attempt.
LEMMA AssignBounded ==
  ASSUME NEW r \in TaskRecord, NEW w \in Worker, IsFiniteSet(r.workers),
         Cardinality(r.workers) + 1 <= AttemptBudget(AssignTask(r, w))
  PROVE  Bounded(AssignTask(r, w))
<1> DEFINE q == AssignTask(r, w)
<1>1. q.workers = r.workers \cup {w} /\ q \in TaskRecord
  BY DEF AssignTask, TaskRecord
<1>2. /\ IsFiniteSet(q.workers)
      /\ Cardinality(q.workers) <= Cardinality(r.workers) + 1
      /\ Cardinality(q.workers) \in Nat /\ Cardinality(r.workers) \in Nat
  <2> DEFINE S == r.workers
  <2> HIDE DEF S
  <2>1. IsFiniteSet(S) /\ Cardinality(S) \in Nat
    BY FS_CardinalityType DEF S
  <2>2. /\ IsFiniteSet(S \cup {w})
        /\ Cardinality(S \cup {w}) = IF w \in S THEN Cardinality(S) ELSE Cardinality(S) + 1
    BY <2>1, FS_AddElement
  <2> QED
    BY <1>1, <2>1, <2>2 DEF S
<1>3. AttemptBudget(q) \in Nat
  BY <1>1, BudgetType
<1> HIDE DEF q
<1>4. Cardinality(r.workers) + 1 <= AttemptBudget(q)
  BY DEF q
<1> QED
  BY <1>2, <1>3, <1>4 DEF Bounded, q

\* A reported failure removes an attempt and adds one to the budget.
LEMMA FailBounded ==
  ASSUME NEW r \in TaskRecord, Bounded(r), r.state # "done", NEW w \in Worker
  PROVE  Bounded(FailAttempt(r, w))
<1> DEFINE q == FailAttempt(r, w)
<1>1. /\ q \in TaskRecord /\ q.state = "idle" /\ q.workers = r.workers \ {w}
      /\ q.failures = r.failures + 1 /\ q.backup = r.backup
  BY FailFacts DEF FailAttempt
<1>2. /\ IsFiniteSet(q.workers)
      /\ Cardinality(q.workers) <= Cardinality(r.workers)
      /\ Cardinality(q.workers) \in Nat /\ Cardinality(r.workers) \in Nat
  <2>1. q.workers \subseteq r.workers
    BY <1>1
  <2> QED
    BY <2>1, FS_Subset, FS_CardinalityType DEF Bounded
<1>3. AttemptBudget(r) <= AttemptBudget(q)
  <2>1. r.failures \in Nat
    BY DEF TaskRecord
  <2> HIDE DEF q
  <2> QED
    BY <1>1, <2>1 DEF AttemptBudget
<1>4. AttemptBudget(q) \in Nat /\ AttemptBudget(r) \in Nat
  BY <1>1, BudgetType
<1> HIDE DEF q
<1>5. Bounded(q)
  BY <1>2, <1>3, <1>4 DEF Bounded
<1> QED
  BY <1>5 DEF q

AllBounded == \A t \in Task : Bounded(task[t])

\* An assignment adds an attempt to an idle task, or the one backup it may have.
LEMMA PickBounded ==
  ASSUME TypeOK, AllBounded, NEW live, NEW list, list \subseteq Task, NEW w \in Worker,
         NEW samples, PickAndAssign(Reclaimed(live), list, w, samples)
  PROVE  AllBounded'
<1> DEFINE table == Reclaimed(live)
<1>1. ASSUME NEW t \in Task PROVE Bounded(table[t]) /\ table[t] \in TaskRecord
  <2>1. table[t] = ReclaimTask(task[t], live)
    BY DEF Reclaimed
  <2>2. task[t] \in TaskRecord /\ Bounded(task[t])
    BY DEF TypeOK, AllBounded
  <2>3. table[t] \in TaskRecord
    BY ReclaimFacts DEF Shrunk
  <2> QED
    BY <2>1, <2>2, <2>3, ReclaimBounded
<1>2. table \in [Task -> TaskRecord]
  BY ReclaimFacts DEF Shrunk
<1> HIDE DEF table
<1>3. PICK t \in list :
        \/ /\ FirstIdle(table, list, t)
           /\ task' = [table EXCEPT ![t] = AssignTask(@, w)]
        \/ /\ Straggler(table, list, w, t, samples)
           /\ task' = [table EXCEPT ![t] = AssignTask([@ EXCEPT !.backup = TRUE], w)]
  BY DEF PickAndAssign, table
<1>4. /\ t \in Task /\ table[t] \in TaskRecord /\ Bounded(table[t])
      /\ Cardinality(table[t].workers) \in Nat /\ table[t].failures \in Nat
  BY <1>1, <1>3, FS_CardinalityType DEF Bounded, TaskRecord
<1>5. CASE /\ FirstIdle(table, list, t)
           /\ task' = [table EXCEPT ![t] = AssignTask(@, w)]
  <2> DEFINE r == table[t]
  <2>1. r.state = "idle"
    BY <1>5 DEF FirstIdle
  <2>2. /\ AssignTask(r, w).failures = r.failures /\ AssignTask(r, w).backup = r.backup
        /\ AssignTask(r, w).state = "running"
    BY <1>4 DEF AssignTask, TaskRecord
  <2> HIDE DEF r
  <2>3. Cardinality(r.workers) + 1 <= AttemptBudget(AssignTask(r, w))
    BY <1>4, <2>1, <2>2 DEF AttemptBudget, Bounded, r
  <2>4. Bounded(AssignTask(r, w))
    BY <1>4, <2>3, AssignBounded DEF Bounded, r
  <2>5. task' = [table EXCEPT ![t] = AssignTask(r, w)]
    BY <1>5 DEF r
  <2> QED
    BY <1>1, <1>2, <1>4, <2>4, <2>5 DEF AllBounded
<1>6. CASE /\ Straggler(table, list, w, t, samples)
           /\ task' = [table EXCEPT ![t] = AssignTask([@ EXCEPT !.backup = TRUE], w)]
  <2> DEFINE r == [table[t] EXCEPT !.backup = TRUE]
  <2>1. table[t].state = "running" /\ ~ table[t].backup
    BY <1>6 DEF Straggler
  <2>2. /\ r \in TaskRecord /\ r.workers = table[t].workers /\ r.backup = TRUE
        /\ r.failures = table[t].failures
    BY <1>4 DEF TaskRecord
  <2>3. task' = [table EXCEPT ![t] = AssignTask(r, w)]
    BY <1>2, <1>4, <1>6
  <2> HIDE DEF r
  <2>4. /\ AssignTask(r, w).failures = r.failures /\ AssignTask(r, w).backup = r.backup
        /\ AssignTask(r, w).state = "running"
    BY <2>2 DEF AssignTask, TaskRecord
  <2>5. Cardinality(r.workers) + 1 <= AttemptBudget(AssignTask(r, w))
    BY <1>4, <2>1, <2>2, <2>4 DEF AttemptBudget, Bounded
  <2>6. Bounded(AssignTask(r, w))
    BY <1>4, <2>2, <2>5, AssignBounded DEF Bounded
  <2> QED
    BY <1>1, <1>2, <1>4, <2>3, <2>6 DEF AllBounded
<1> QED
  BY <1>3, <1>5, <1>6

\* Every step keeps every open task within its budget.
LEMMA BoundedStep ==
  ASSUME TypeOK, AllBounded, [Next]_vars
  PROVE  AllBounded'
<1> USE TaskPartition
<1>1. CASE UNCHANGED task
  BY <1>1 DEF AllBounded
<1>2. ASSUME NEW live, task' = Reclaimed(live) PROVE AllBounded'
  BY <1>2, ReclaimBounded DEF AllBounded, Reclaimed, TypeOK
<1>3. ASSUME NEW w \in Worker, RequestMap(w) PROVE AllBounded'
  BY <1>2, <1>3, PickBounded DEF RequestMap
<1>4. ASSUME NEW w \in Worker, RequestReduce(w) PROVE AllBounded'
  BY <1>2, <1>4, PickBounded DEF RequestReduce
<1>5. ASSUME NEW w \in Worker, RequestExit(w) PROVE AllBounded'
  BY <1>2, <1>5 DEF RequestExit
<1>6. ASSUME NEW w \in Worker, NEW t \in Task, ReportFailure(w, t) PROVE AllBounded'
  <2>1. task[t].state # "done" /\ task' = [task EXCEPT ![t] = FailAttempt(task[t], w)]
    BY <1>6 DEF ReportFailure
  <2>2. Bounded(FailAttempt(task[t], w))
    BY <2>1, FailBounded DEF AllBounded, TypeOK
  <2> QED
    BY <2>1, <2>2 DEF AllBounded, TypeOK
<1>7. ASSUME NEW w \in Worker, NEW t \in Task, ReportSuccess(w, t) PROVE AllBounded'
  <2>1. /\ \A u \in Task : u # t => task'[u] = task[u]
        /\ task'[t].state = "done" /\ task'[t].workers = task[t].workers
    BY <1>7 DEF ReportSuccess, TypeOK, TaskRecord
  <2> QED
    BY <2>1 DEF AllBounded, Bounded
<1>8. CASE MonitorTick
  BY <1>2, <1>8 DEF MonitorTick
<1>9. ASSUME NEW t \in Task, Overrun(t) PROVE AllBounded'
  <2>1. /\ \A u \in Task : u # t => task'[u] = task[u]
        /\ task'[t].state = task[t].state /\ task'[t].workers = task[t].workers
        /\ task'[t].failures = task[t].failures /\ task'[t].backup = task[t].backup
    BY <1>9 DEF Overrun, TypeOK, TaskRecord
  <2>2. AttemptBudget(task'[t]) = AttemptBudget(task[t])
    BY <2>1 DEF AttemptBudget
  <2> QED
    BY <2>1, <2>2 DEF AllBounded, Bounded
<1> QED
  BY <1>1, <1>3, <1>4, <1>5, <1>6, <1>7, <1>8, <1>9
  DEF Next, RequestTask, ReportTask, Register, Heartbeat, RequestAborted, ReportLate,
      MonitorReturn, FallSilent, vars

(***************************************************************************)
(* However reports, silences and timeouts interleave, the coordinator      *)
(* counts on at most one attempt of a task, one backup, and one attempt    *)
(* more for each failure of that task.                                     *)
(***************************************************************************)
THEOREM AttemptsAreBounded == Spec => []AttemptsBounded
<1>1. Init => AllBounded
  <2> SUFFICES ASSUME Init, NEW t \in Task PROVE Bounded(task[t])
    BY DEF AllBounded
  <2>1. task[t].workers = {} /\ task[t].failures = 0 /\ task[t].backup = FALSE
        /\ task[t].state = "idle"
    BY DEF Init
  <2> QED
    BY <2>1, FS_EmptySet DEF Bounded, AttemptBudget
<1>2. TypeOK /\ AllBounded /\ [Next]_vars => AllBounded'
  BY BoundedStep
<1>3. AllBounded => AttemptsBounded
  BY DEF AllBounded, Bounded, AttemptsBounded
<1> QED
  BY <1>1, <1>2, <1>3, TypeCorrect, PTL DEF Spec

--------------------------------------------------------------------------------

(***************************************************************************)
(* A whole job.                                                            *)
(***************************************************************************)
\* What a worker holds is what it was handed and has not reported, and no
\* output is missing once its task is reported.
HoldingInv ==
  /\ \A w \in Worker, t \in Task :
       Serving /\ <<w, t>> \in issued => job[w] = t \/ pc[w] = "crashed"
  /\ \A w \in exited : Ended(w)
  /\ \A w \in Worker : pc[w] = "written" => job[w] \in written
  /\ Done \subseteq written

\* Where the driver is tells whether the job is over and who is left.
DriverInv ==
  /\ driver = "starting" => mode = "cluster"
  /\ mode = "local" => /\ driver \in {"waiting", "gone"}
                       /\ \A w \in Worker : pc[w] # "crashed"
  /\ driver \in {"reaping", "timedOut"} => mode = "cluster"
  /\ driver \in {"draining", "drained", "expired"} => mode = "coordinator"
  /\ driver \in {"reaping", "draining", "drained", "expired"} => closed
  /\ driver = "gone" => \/ closed \/ result = "startFailed"
                       \/ \A w \in Worker : Ended(w)
  /\ driver = "gone" /\ mode # "coordinator" /\ result # "startFailed" =>
       \A w \in Worker : Ended(w)

\* What it returned is the outcome the coordinator recorded.
ResultInv ==
  /\ result # "none" <=> driver = "gone"
  /\ result = "ok" => phase = "done"
  /\ result = "failed" => phase = "failed"
  /\ result # "incomplete"

CInv ==
  /\ IInv /\ ClusterTypeOK /\ HoldingInv
  /\ StopOnlyWhenOver /\ DriverInv /\ ResultInv

--------------------------------------------------------------------------------

(***************************************************************************)
(* RequestTask hands out one task, sends the worker away at the end of the *)
(* job, or does neither.                                                   *)
(***************************************************************************)
LEMMA RequestFacts ==
  ASSUME IInv, NEW w \in Worker, RequestTask(w), IInv'
  PROVE  /\ Done' = Done
         /\ \/ issued' = issued /\ exited' = exited
            \/ /\ exited' = exited
               /\ \E t \in Task : issued' = issued \cup {<<w, t>>}
            \/ issued' = issued /\ exited' = exited \cup {w} /\ closed'
<1> USE TaskPartition DEF IInv
<1>1. ASSUME NEW list, list \subseteq Task, Handed(list, w)
      PROVE  issued' = issued \/ \E t \in Task : issued' = issued \cup {<<w, t>>}
  BY <1>1 DEF Handed, Assigned
<1>2. CASE RequestAborted(w)
  BY <1>2 DEF RequestAborted, Done, EndInv, OutcomeAgrees, Over
<1>3. CASE RequestMap(w)
  <2>1. exited' = exited /\ merged' = merged
    BY <1>3 DEF RequestMap
  <2>2. Handed(MapTask, w)
    BY <1>3, RequestMapFacts
  <2>3. Done' = Done
    BY <2>1, <2>2, HandedKeeps
  <2> QED
    BY <1>1, <2>1, <2>2, <2>3
<1>4. CASE RequestReduce(w)
  <2>1. exited' = exited /\ merged' = merged
    BY <1>4 DEF RequestReduce
  <2>2. Handed(ReduceTask, w) /\ AllDone(task, MapTask)
    BY <1>4, RequestReduceFacts
  <2>3. Done' = Done
    BY <2>1, <2>2, HandedKeeps
  <2> QED
    BY <1>1, <2>1, <2>2, <2>3
<1>5. CASE RequestExit(w)
  <2>1. Shrunk(task')
    BY <1>5, TouchFacts DEF RequestExit
  <2>2. Done' = Done
    BY <2>1 DEF Done, Shrunk
  <2>3. issued' = issued /\ exited' = exited \cup {w} /\ closed'
    BY <1>5 DEF RequestExit, FinishLocked
  <2> QED
    BY <2>2, <2>3
<1> QED
  BY <1>2, <1>3, <1>4, <1>5 DEF RequestTask

(***************************************************************************)
(* A job that is over stays over, with its outcome and its done tasks.     *)
(***************************************************************************)
LEMMA OverStays ==
  ASSUME IInv, [Next]_vars, IInv'
  PROVE  /\ closed => closed'
         /\ Done \subseteq Done'
         /\ phase = "done" => phase' = "done"
         /\ phase = "failed" => phase' = "failed"
<1>1. FinalityStep
  <2>1. CASE \E w \in Worker, t \in Task : ReportSuccess(w, t)
    BY <2>1, SuccessFacts DEF FinalityStep
  <2> QED
    BY <2>1, QuietSteps DEF FinalityStep
<1>2. Over => Over'
  BY <1>1 DEF FinalityStep, Over
<1>3. (closed <=> Over) /\ (closed' <=> Over')
  BY DEF IInv, EndInv, OutcomeAgrees
<1> QED
  BY <1>1, <1>2, <1>3 DEF FinalityStep, Over

--------------------------------------------------------------------------------

\* The steps of the driver that touch no worker.
Driving ==
  \/ ReturnLocal \/ StartFails \/ WaitCluster \/ ReturnCluster
  \/ StartDrain \/ DrainWorkers \/ ReturnCoordinator

LEMMA DrivingFacts ==
  ASSUME Driving
  PROVE  UNCHANGED <<vars, jobVars, mode>> /\ driver # "gone"
  BY DEF Driving, ReturnLocal, StartFails, WaitCluster, ReturnCluster, StartDrain, DrainWorkers,
         ReturnCoordinator, Return

(***************************************************************************)
(* Every step of a job is a step of the coordinator, or none of its        *)
(* variables moves; after it has gone they never move.                     *)
(***************************************************************************)
LEMMA CoordinatorSteps ==
  ASSUME TypeOK, ClusterTypeOK, [ClusterNext]_allVars
  PROVE  /\ [Next]_vars
         /\ ~ Serving => UNCHANGED vars
<1> DEFINE Goal == [Next]_vars /\ (~ Serving => UNCHANGED vars)
<1>1. ASSUME NEW w \in Worker, Dial(w) PROVE Goal
  BY <1>1 DEF Dial, Next
<1>2. ASSUME NEW w \in Worker, Poll(w) PROVE Goal
  BY <1>2 DEF Poll, Next
<1>3. ASSUME NEW w \in Worker, WriteOutput(w) \/ Hang(w) \/ Crash(w) PROVE Goal
  BY <1>3 DEF WriteOutput, Hang, Crash
<1>4. ASSUME NEW w \in Worker, ReportError(w) PROVE Goal
  <2>1. job[w] \in Task
    BY <1>4 DEF ReportError, Report, ClusterTypeOK, Holding
  <2> QED
    BY <1>4, <2>1 DEF ReportError, Report, Failed, Next, ReportTask
<1>5. ASSUME NEW w \in Worker, ReportDone(w) PROVE Goal
  <2>1. job[w] \in Task
    BY <1>5 DEF ReportDone, Report, ClusterTypeOK, Holding
  <2> QED
    BY <1>5, <2>1 DEF ReportDone, Report, Succeeded, Next, ReportTask
<1>6. ASSUME NEW w \in Worker, Beat(w) \/ Silence(w) PROVE Goal
  BY <1>6 DEF Beat, Silence, Next
<1>7. ASSUME NEW t \in Task, Expire(t) PROVE Goal
  BY <1>7 DEF Expire, Next
<1>8. CASE Monitor
  BY <1>8 DEF Monitor, Next
<1>9. CASE DriverStep
  BY <1>9 DEF DriverStep, StartProcess, Driving, ReturnLocal, StartFails, WaitCluster,
     ReturnCluster, StartDrain, DrainWorkers, ReturnCoordinator, Return
<1>10. CASE UNCHANGED allVars
  BY <1>10 DEF allVars
<1> QED
  BY <1>1, <1>2, <1>3, <1>4, <1>5, <1>6, <1>7, <1>8, <1>9, <1>10 DEF ClusterNext, WorkerStep

--------------------------------------------------------------------------------

(***************************************************************************)
(* What each worker's step does to what it holds.                          *)
(***************************************************************************)
LEMMA ReportFacts ==
  ASSUME IInv, NEW w \in Worker, NEW t \in Task, ReportTask(w, t)
  PROVE  /\ issued' = issued \ {<<w, t>>}
         /\ exited' = exited
         /\ Done' \subseteq Done \cup {t}
         /\ ~ ReportSuccess(w, t) => Done' = Done
<1> USE DEF IInv
<1>1. issued' = issued \ {<<w, t>>} /\ exited' = exited
  BY DEF ReportTask, ReportLate, ReportFailure, ReportSuccess, ReceiveReport
<1>2. CASE ReportLate(w, t)
  BY <1>1, <1>2 DEF ReportLate, Done
<1>3. CASE ReportFailure(w, t)
  <2>1. /\ task' = [task EXCEPT ![t] = FailAttempt(task[t], w)]
        /\ task[t].state # "done"
    BY <1>3 DEF ReportFailure
  <2>2. \A u \in Task : task'[u].state = "done" <=> task[u].state = "done"
    BY <2>1, FailFacts DEF TypeOK
  <2> QED
    BY <1>1, <2>2 DEF Done
<1>4. CASE ReportSuccess(w, t)
  BY <1>1, <1>4, SuccessFacts
<1> QED
  BY <1>2, <1>3, <1>4 DEF ReportTask

\* The coordinator's own steps hand out nothing and finish nothing.
LEMMA OwnFacts ==
  ASSUME IInv,
         \/ \E w \in Worker : Register(w) \/ Heartbeat(w) \/ FallSilent(w)
         \/ \E t \in Task : Overrun(t)
         \/ MonitorTick \/ MonitorReturn
  PROVE  issued' = issued /\ exited' = exited /\ Done' = Done
<1> USE DEF IInv
<1>1. issued' = issued /\ exited' = exited
  BY DEF Register, Heartbeat, FallSilent, Overrun, MonitorTick, MonitorReturn
<1>2. CASE \/ \E w \in Worker : Register(w) \/ Heartbeat(w) \/ FallSilent(w)
           \/ MonitorReturn
  BY <1>1, <1>2 DEF Register, Heartbeat, FallSilent, MonitorReturn, Done
<1>3. ASSUME NEW t \in Task, Overrun(t) PROVE Done' = Done
  <2>1. \A u \in Task : task'[u].state = task[u].state
    BY <1>3 DEF Overrun, TypeOK, TaskRecord
  <2> QED
    BY <2>1 DEF Done
<1>4. CASE MonitorTick
  <2>1. Shrunk(task')
    BY <1>4, ReclaimFacts DEF MonitorTick
  <2> QED
    BY <1>1, <2>1 DEF Done, Shrunk
<1> QED
  BY <1>1, <1>2, <1>3, <1>4

(***************************************************************************)
(* RequestTask answers a worker that holds nothing: it has the task it is  *)
(* given, or is told to stop at the end, or asks again.                    *)
(***************************************************************************)
LEMMA PollFacts ==
  ASSUME CInv, NEW w \in Worker, Poll(w), IInv'
  PROVE  /\ pc[w] = "polling" /\ job[w] = 0
         /\ UNCHANGED <<written, driverVars>>
         /\ Done' = Done
         /\ \/ /\ pc' = [pc EXCEPT ![w] = "stopped"]
               /\ job' = job /\ issued' = issued
               /\ exited' = exited \/ exited' = exited \cup {w}
               /\ closed' \/ ~ Serving
            \/ /\ exited' = exited
               /\ \E t \in Task : /\ issued' = issued \cup {<<w, t>>}
                                  /\ job' = [job EXCEPT ![w] = t]
                                  /\ pc' = [pc EXCEPT ![w] = "executing"]
            \/ UNCHANGED <<exited, issued, pc, job>>
<1>1. /\ pc[w] = "polling" /\ job[w] = 0
      /\ UNCHANGED <<written, driverVars>>
  BY DEF Poll, CInv, ClusterTypeOK, Holding
<1>2. CASE ~ Serving
  BY <1>1, <1>2 DEF Poll, Goto, vars, Done
<1>3. CASE Serving
  <2>1. RequestTask(w)
    BY <1>3 DEF Poll
  <2>2. \A t \in Task : <<w, t>> \notin issued
    <3>1. 0 \notin Task
      BY DEF Task
    <3> QED
      BY <1>1, <1>3, <3>1 DEF CInv, HoldingInv
  <2>3. w \notin exited
    BY <1>1 DEF CInv, HoldingInv, Ended
  <2>4. /\ Done' = Done
        /\ \/ issued' = issued /\ exited' = exited
           \/ exited' = exited /\ \E t \in Task : issued' = issued \cup {<<w, t>>}
           \/ issued' = issued /\ exited' = exited \cup {w} /\ closed'
    BY <2>1, RequestFacts DEF CInv
  <2>5. CASE issued' = issued /\ exited' = exited \cup {w} /\ closed'
    BY <1>1, <1>3, <2>4, <2>5 DEF Poll, Goto
  <2>6. CASE exited' = exited /\ \E t \in Task : issued' = issued \cup {<<w, t>>}
    <3>1. PICK t \in Task : issued' = issued \cup {<<w, t>>}
      BY <2>6
    <3>2. \A u \in Task : <<w, u>> \in issued' => u = t
      BY <2>2, <3>1
    <3>3. <<w, t>> \in issued' /\ issued' # issued
      BY <2>2, <3>1
    <3>4. /\ job' = [job EXCEPT ![w] = t]
          /\ pc' = [pc EXCEPT ![w] = "executing"]
      BY <1>3, <2>3, <2>6, <3>2, <3>3 DEF Poll, Goto
    <3> QED
      BY <1>1, <2>4, <2>6, <3>1, <3>4
  <2>7. CASE issued' = issued /\ exited' = exited
    <3>1. \A t \in Task : <<w, t>> \notin issued'
      BY <2>2, <2>7
    <3>2. UNCHANGED <<pc, job>>
      BY <1>3, <2>3, <2>7, <3>1 DEF Poll
    <3> QED
      BY <1>1, <2>4, <2>7, <3>2
  <2> QED
    BY <2>4, <2>5, <2>6, <2>7
<1> QED
  BY <1>2, <1>3

--------------------------------------------------------------------------------

\* Each step keeps the types, and a worker holds a task only while it works on one.
LEMMA ClusterTypeStep ==
  ASSUME CInv, [ClusterNext]_allVars, IInv'
  PROVE  ClusterTypeOK'
<1> USE DEF ClusterTypeOK, Holding
<1>0. ClusterTypeOK
  BY DEF CInv
<1>1. ASSUME NEW w \in Worker, Dial(w) PROVE ClusterTypeOK'
  BY <1>0, <1>1 DEF Dial, Goto, driverVars
<1>2. ASSUME NEW w \in Worker, Poll(w) PROVE ClusterTypeOK'
  <2>1. 0 \notin Task
    BY DEF Task
  <2> QED
    BY <1>0, <1>2, <2>1, PollFacts DEF driverVars
<1>3. ASSUME NEW w \in Worker, WriteOutput(w) PROVE ClusterTypeOK'
  BY <1>0, <1>3 DEF WriteOutput, Goto, driverVars
<1>4. ASSUME NEW w \in Worker, Hang(w) \/ Crash(w) PROVE ClusterTypeOK'
  BY <1>0, <1>4 DEF Hang, Crash, Goto, driverVars
<1>5. ASSUME NEW w \in Worker, ReportError(w) \/ ReportDone(w) PROVE ClusterTypeOK'
  BY <1>0, <1>5 DEF ReportError, ReportDone, Report, Goto, driverVars
<1>6. CASE \/ \E w \in Worker : Beat(w) \/ Silence(w)
           \/ \E t \in Task : Expire(t)
           \/ Monitor
           \/ UNCHANGED allVars
  BY <1>0, <1>6 DEF Beat, Silence, Expire, Monitor, jobVars, driverVars, allVars
<1>7. CASE Driving
  <2>1. UNCHANGED <<jobVars, mode>>
    BY <1>7, DrivingFacts
  <2>2. /\ driver' \in {"starting", "waiting", "reaping", "timedOut", "draining", "drained", "expired",
                        "gone"}
        /\ result' \in {"none", "ok", "failed", "timeout", "incomplete", "startFailed"}
    BY <1>0, <1>7 DEF Driving, ReturnLocal, StartFails, WaitCluster, ReturnCluster, StartDrain,
       DrainWorkers, ReturnCoordinator, Return, JobResult
  <2> QED
    BY <1>0, <2>1, <2>2 DEF jobVars
<1>8. ASSUME NEW w \in Worker, StartProcess(w) PROVE ClusterTypeOK'
  BY <1>0, <1>8 DEF StartProcess, Goto, driverVars
<1> QED
  BY <1>1, <1>2, <1>3, <1>4, <1>5, <1>6, <1>7, <1>8
  DEF ClusterNext, WorkerStep, DriverStep, Driving

(***************************************************************************)
(* What is handed out is held, and what is done is written, after every    *)
(* step.                                                                   *)
(***************************************************************************)
LEMMA HoldingStep ==
  ASSUME CInv, [ClusterNext]_allVars, IInv'
  PROVE  HoldingInv'
<1> USE DEF HoldingInv, Ended
<1>0. HoldingInv /\ IInv /\ ClusterTypeOK
  BY DEF CInv
<1>1. ASSUME NEW w \in Worker, Dial(w) PROVE HoldingInv'
  <2>1. /\ pc' \in {[pc EXCEPT ![w] = "polling"], [pc EXCEPT ![w] = "stopped"]}
        /\ pc[w] = "dialing"
        /\ UNCHANGED <<job, written, driverVars>>
        /\ Register(w) \/ UNCHANGED vars
    BY <1>1 DEF Dial, Goto
  <2>2. issued' = issued /\ exited' = exited /\ Done' = Done
    BY <1>0, <2>1, OwnFacts DEF vars, Done
  <2>3. w \notin exited /\ exited \subseteq Worker
    BY <1>0, <2>1 DEF IInv, TypeOK
  <2>4. \A v \in Worker : v # w => pc'[v] = pc[v]
    BY <1>0, <2>1 DEF ClusterTypeOK
  <2>5. pc'[w] \in {"polling", "stopped"}
    BY <1>0, <2>1 DEF ClusterTypeOK
  <2> QED
    BY <1>0, <2>1, <2>2, <2>3, <2>4, <2>5 DEF driverVars, Serving
<1>2. ASSUME NEW w \in Worker, Poll(w) PROVE HoldingInv'
  <2>1. /\ pc[w] = "polling" /\ job[w] = 0
        /\ UNCHANGED <<written, driverVars>>
        /\ Done' = Done
    BY <1>2, PollFacts
  <2>2. CASE /\ pc' = [pc EXCEPT ![w] = "stopped"]
             /\ job' = job /\ issued' = issued
             /\ exited' = exited \/ exited' = exited \cup {w}
    <3>1. exited \subseteq Worker
      BY <1>0 DEF IInv, TypeOK
    <3>2. \A v \in Worker : pc'[v] = IF v = w THEN "stopped" ELSE pc[v]
      BY <1>0, <2>2 DEF ClusterTypeOK
    <3> QED
      BY <1>0, <2>1, <2>2, <3>1, <3>2 DEF driverVars, Serving
  <2>3. CASE /\ exited' = exited
             /\ \E t \in Task : /\ issued' = issued \cup {<<w, t>>}
                                /\ job' = [job EXCEPT ![w] = t]
                                /\ pc' = [pc EXCEPT ![w] = "executing"]
    <3>1. 0 \notin Task
      BY DEF Task
    <3>2. \A t \in Task : Serving => <<w, t>> \notin issued
      BY <1>0, <2>1, <3>1
    <3> QED
      BY <1>0, <2>1, <2>3, <3>1, <3>2 DEF driverVars, Serving, ClusterTypeOK
  <2>4. CASE UNCHANGED <<exited, issued, pc, job>>
    BY <1>0, <2>1, <2>4 DEF driverVars, Serving
  <2> QED
    BY <1>2, <2>2, <2>3, <2>4, PollFacts
<1>3. ASSUME NEW w \in Worker, WriteOutput(w) PROVE HoldingInv'
  <2>1. /\ pc[w] = "executing" /\ pc' = [pc EXCEPT ![w] = "written"]
        /\ written' = written \cup {job[w]}
        /\ UNCHANGED <<vars, job, driverVars>>
    BY <1>3 DEF WriteOutput, Goto
  <2> QED
    BY <1>0, <2>1 DEF vars, driverVars, Serving, ClusterTypeOK, Done
<1>4. ASSUME NEW w \in Worker, Hang(w) PROVE HoldingInv'
  <2>1. /\ pc[w] = "executing" /\ pc' = [pc EXCEPT ![w] = "hung"]
        /\ UNCHANGED <<vars, job, written, driverVars>>
    BY <1>4 DEF Hang, Goto
  <2> QED
    BY <1>0, <2>1 DEF vars, driverVars, Serving, ClusterTypeOK, Done
<1>5. ASSUME NEW w \in Worker, Crash(w) PROVE HoldingInv'
  <2>1. /\ pc' = [pc EXCEPT ![w] = "crashed"]
        /\ job' = [job EXCEPT ![w] = 0]
        /\ UNCHANGED <<vars, written, driverVars>>
    BY <1>5 DEF Crash, Goto
  <2> QED
    BY <1>0, <2>1 DEF vars, driverVars, Serving, ClusterTypeOK, Done
<1>6. ASSUME NEW w \in Worker, ReportError(w) \/ ReportDone(w) PROVE HoldingInv'
  <2>1. /\ pc[w] \in {"executing", "written"} /\ job[w] \in Task
        /\ pc' = [pc EXCEPT ![w] = "polling"]
        /\ job' = [job EXCEPT ![w] = 0]
        /\ UNCHANGED <<written, driverVars>>
    BY <1>0, <1>6 DEF ReportError, ReportDone, Report, Goto, ClusterTypeOK, Holding
  <2>2. CASE ~ Serving
    <3>1. UNCHANGED vars
      BY <1>6, <2>2 DEF ReportError, ReportDone, Report
    <3> QED
      BY <1>0, <2>1, <2>2, <3>1 DEF vars, driverVars, Serving, ClusterTypeOK, Done
  <2>3. CASE Serving
    <3>1. ReportTask(w, job[w])
      BY <1>6, <2>3 DEF ReportError, ReportDone, Report, Failed, Succeeded, ReportTask
    <3>2. /\ issued' = issued \ {<<w, job[w]>>} /\ exited' = exited
          /\ Done' \subseteq Done \cup {job[w]}
          /\ ~ ReportSuccess(w, job[w]) => Done' = Done
      BY <1>0, <2>1, <3>1, ReportFacts
    <3>3. Done' \subseteq written
      <4>1. CASE ReportError(w)
        <5>1. ~ ReportSuccess(w, job[w])
          <6>1. ReportLate(w, job[w]) \/ ReportFailure(w, job[w])
            BY <2>3, <4>1 DEF ReportError, Report, Failed
          <6>2. ReportLate(w, job[w]) => ~ ReportSuccess(w, job[w])
            BY DEF ReportLate, ReportSuccess
          <6>3. ReportFailure(w, job[w]) => ~ ReportSuccess(w, job[w])
            BY <1>0, <2>1, FailFacts DEF ReportFailure, ReportSuccess, IInv, TypeOK, TaskRecord
          <6> QED
            BY <6>1, <6>2, <6>3
        <5> QED
          BY <1>0, <3>2, <5>1
      <4>2. CASE ReportDone(w)
        BY <1>0, <3>2, <4>2 DEF ReportDone, Report
      <4> QED
        BY <1>6, <4>1, <4>2
    <3> QED
      BY <1>0, <2>1, <2>3, <3>2, <3>3 DEF driverVars, Serving, ClusterTypeOK
  <2> QED
    BY <2>2, <2>3
<1>7. CASE \/ \E w \in Worker : Beat(w) \/ Silence(w)
           \/ \E t \in Task : Expire(t)
           \/ Monitor
  <2>1. UNCHANGED <<jobVars, driverVars>>
    BY <1>7 DEF Beat, Silence, Expire, Monitor
  <2>2. issued' = issued /\ exited' = exited /\ Done' = Done
    BY <1>0, <1>7, OwnFacts DEF Beat, Silence, Expire, Monitor
  <2> QED
    BY <1>0, <2>1, <2>2 DEF jobVars, driverVars, Serving
<1>8. CASE Driving \/ UNCHANGED allVars
  <2>1. UNCHANGED <<vars, jobVars>> /\ (Serving' => Serving)
    BY <1>8, DrivingFacts DEF allVars, driverVars, Serving
  <2> QED
    BY <1>0, <2>1 DEF jobVars, vars, Done
<1>9. ASSUME NEW w \in Worker, StartProcess(w) PROVE HoldingInv'
  <2>1. /\ pc[w] = "unstarted" /\ pc' = [pc EXCEPT ![w] = "dialing"]
        /\ UNCHANGED <<vars, job, written, driverVars>>
    BY <1>9 DEF StartProcess, Goto
  <2>2. Done' = Done /\ \A v \in Worker : pc'[v] = IF v = w THEN "dialing" ELSE pc[v]
    BY <1>0, <2>1 DEF vars, ClusterTypeOK, Done
  <2>3. exited \subseteq Worker
    BY <1>0 DEF IInv, TypeOK
  <2> QED
    BY <1>0, <2>1, <2>2, <2>3 DEF vars, driverVars, Serving
<1> QED
  BY <1>1, <1>2, <1>3, <1>4, <1>5, <1>6, <1>7, <1>8, <1>9
  DEF ClusterNext, WorkerStep, DriverStep, Driving

--------------------------------------------------------------------------------

(***************************************************************************)
(* Stopped and crashed are final; a worker stops at the end of the job or  *)
(* when the coordinator has gone, and none crashes inside runLocal.        *)
(***************************************************************************)
LEMMA WorkerFates ==
  ASSUME CInv, [ClusterNext]_allVars, IInv'
  PROVE  /\ \A v \in Worker : Ended(v) => pc'[v] = pc[v]
         /\ \A v \in Worker : pc'[v] = "crashed" => pc[v] = "crashed" \/ mode # "local"
         /\ \A v \in Worker : pc'[v] = "stopped" => pc[v] = "stopped" \/ closed' \/ ~ Serving
         /\ UNCHANGED driverVars \/ (Driving /\ pc' = pc)
<1> USE DEF Ended
<1> DEFINE Goal ==
      /\ \A v \in Worker : Ended(v) => pc'[v] = pc[v]
      /\ \A v \in Worker : pc'[v] = "crashed" => pc[v] = "crashed" \/ mode # "local"
      /\ \A v \in Worker : pc'[v] = "stopped" => pc[v] = "stopped" \/ closed' \/ ~ Serving
      /\ UNCHANGED driverVars \/ (Driving /\ pc' = pc)
<1>0. ClusterTypeOK
  BY DEF CInv
<1>1. ASSUME NEW w \in Worker, Dial(w) PROVE Goal
  BY <1>0, <1>1 DEF Dial, Goto, ClusterTypeOK
<1>2. ASSUME NEW w \in Worker, Poll(w) PROVE Goal
  <2>1. /\ pc[w] = "polling" /\ UNCHANGED driverVars
        /\ \/ pc' = [pc EXCEPT ![w] = "stopped"] /\ (closed' \/ ~ Serving)
           \/ pc' = [pc EXCEPT ![w] = "executing"]
           \/ pc' = pc
    BY <1>2, PollFacts
  <2> QED
    BY <1>0, <2>1 DEF ClusterTypeOK
<1>3. ASSUME NEW w \in Worker, WriteOutput(w) \/ Hang(w) \/ Crash(w) PROVE Goal
  BY <1>0, <1>3 DEF WriteOutput, Hang, Crash, Goto, ClusterTypeOK, Holding
<1>4. ASSUME NEW w \in Worker, ReportError(w) \/ ReportDone(w) PROVE Goal
  BY <1>0, <1>4 DEF ReportError, ReportDone, Report, Goto, ClusterTypeOK
<1>5. CASE \/ \E w \in Worker : Beat(w) \/ Silence(w)
           \/ \E t \in Task : Expire(t)
           \/ Monitor
           \/ UNCHANGED allVars
  BY <1>5 DEF Beat, Silence, Expire, Monitor, allVars, jobVars
<1>6. CASE Driving
  BY <1>6, DrivingFacts DEF jobVars
<1>7. ASSUME NEW w \in Worker, StartProcess(w) PROVE Goal
  BY <1>0, <1>7 DEF StartProcess, Goto, ClusterTypeOK
<1> QED
  BY <1>1, <1>2, <1>3, <1>4, <1>5, <1>6, <1>7 DEF ClusterNext, WorkerStep, DriverStep, Driving

\* So a worker that stops finds the job over or a failed start, also by a
\* dropped connection,
LEMMA StopStep ==
  ASSUME CInv, [ClusterNext]_allVars, IInv', closed => closed'
  PROVE  StopOnlyWhenOver'
<1> SUFFICES ASSUME NEW v \in Worker, pc'[v] = "stopped"
             PROVE  closed' \/ result' = "startFailed"
  BY DEF StopOnlyWhenOver
<1>0. result = "startFailed" => result' = "startFailed"
  <2>1. result = "startFailed" => driver = "gone"
    BY DEF CInv, ResultInv
  <2>2. UNCHANGED driverVars \/ driver # "gone"
    BY WorkerFates, DrivingFacts
  <2> QED
    BY <2>1, <2>2 DEF driverVars
<1>1. CASE Ended(v)
  <2>1. pc[v] = "stopped"
    BY <1>1, WorkerFates
  <2> QED
    BY <1>0, <2>1 DEF CInv, StopOnlyWhenOver
<1>2. CASE ~ Ended(v)
  <2>1. closed' \/ ~ Serving
    BY <1>2, WorkerFates DEF Ended
  <2>2. ~ Serving => closed \/ result = "startFailed"
    BY <1>2 DEF Serving, CInv, DriverInv
  <2> QED
    BY <1>0, <2>1, <2>2
<1> QED
  BY <1>1, <1>2

\* the driver leaves in time,
LEMMA DriverStays ==
  ASSUME CInv, [ClusterNext]_allVars, IInv', closed => closed'
  PROVE  DriverInv'
<1>0. /\ \A v \in Worker : Ended(v) => pc'[v] = pc[v]
      /\ \A v \in Worker : pc'[v] = "crashed" => pc[v] = "crashed" \/ mode # "local"
      /\ UNCHANGED driverVars \/ (Driving /\ pc' = pc)
  BY WorkerFates
<1>1. DriverInv /\ ClusterTypeOK
  BY DEF CInv
<1>2. CASE UNCHANGED driverVars
  BY <1>0, <1>1, <1>2 DEF DriverInv, Ended, driverVars
<1>3. CASE Driving /\ pc' = pc
  <2>1. pc' = pc /\ mode' = mode /\ closed' = closed
    BY <1>3, DrivingFacts DEF vars
  <2>8. CASE StartFails
    BY <1>1, <2>1, <2>8 DEF StartFails, Return, DriverInv, Ended
  <2>2. CASE ReturnLocal
    BY <1>1, <2>1, <2>2 DEF ReturnLocal, Return, DriverInv, Ended
  <2>3. CASE WaitCluster
    BY <1>1, <2>1, <2>3 DEF WaitCluster, DriverInv, Ended
  <2>4. CASE ReturnCluster
    BY <1>1, <2>1, <2>4 DEF ReturnCluster, Return, DriverInv, Ended
  <2>5. CASE StartDrain
    BY <1>1, <2>1, <2>5 DEF StartDrain, DriverInv, Ended
  <2>6. CASE DrainWorkers
    BY <1>1, <2>1, <2>6 DEF DrainWorkers, DriverInv, Ended
  <2>7. CASE ReturnCoordinator
    BY <1>1, <2>1, <2>7 DEF ReturnCoordinator, Return, DriverInv, Ended
  <2> QED
    BY <1>3, <2>2, <2>3, <2>4, <2>5, <2>6, <2>7, <2>8 DEF Driving
<1> QED
  BY <1>0, <1>2, <1>3

\* and what it returns is what the coordinator recorded.
LEMMA ResultStep ==
  ASSUME CInv, [ClusterNext]_allVars, IInv',
         phase = "done" => phase' = "done",
         phase = "failed" => phase' = "failed"
  PROVE  ResultInv'
<1>1. ResultInv /\ DriverInv /\ ClusterTypeOK /\ StopOnlyWhenOver
  BY DEF CInv
<1>2. closed => \/ JobResult = "ok" /\ phase = "done"
                \/ JobResult = "failed" /\ phase = "failed"
  <2>1. (closed <=> Over) /\ (jobErr <=> phase = "failed")
    BY DEF CInv, IInv, EndInv, OutcomeAgrees
  <2> QED
    BY <2>1 DEF Over, JobResult
<1>3. CASE UNCHANGED driverVars
  BY <1>1, <1>3 DEF ResultInv, driverVars
<1>4. CASE Driving
  <2>1. phase' = phase
    BY <1>4, DrivingFacts DEF vars
  <2>2. CASE ReturnLocal
    <3>1. PICK w \in Worker : pc[w] = "stopped"
      BY <1>1, <2>2, WorkersAssumption DEF ReturnLocal, Ended, DriverInv
    <3>2. closed
      BY <1>1, <2>2, <3>1 DEF StopOnlyWhenOver, ReturnLocal, ResultInv
    <3> QED
      BY <1>2, <2>1, <2>2, <3>2 DEF ReturnLocal, Return, ResultInv
  <2>3. CASE ReturnCluster
    <3>1. driver = "reaping" => closed
      BY <1>1 DEF DriverInv
    <3> QED
      BY <1>2, <2>1, <2>3, <3>1 DEF ReturnCluster, Return, ResultInv
  <2>4. CASE ReturnCoordinator
    <3>1. closed
      BY <1>1, <2>4 DEF DriverInv, ReturnCoordinator
    <3> QED
      BY <1>2, <2>1, <2>4, <3>1 DEF ReturnCoordinator, Return, ResultInv
  <2>5. CASE WaitCluster \/ StartDrain \/ DrainWorkers
    BY <1>1, <2>1, <2>5 DEF WaitCluster, StartDrain, DrainWorkers, ResultInv
  <2>6. CASE StartFails
    BY <1>1, <2>1, <2>6 DEF StartFails, Return, ResultInv
  <2> QED
    BY <1>4, <2>2, <2>3, <2>4, <2>5, <2>6 DEF Driving
<1> QED
  BY <1>3, <1>4, WorkerFates

--------------------------------------------------------------------------------

\* The inductive invariant holds at the start,
LEMMA CInvInit == ClusterInit => CInv
<1> SUFFICES ASSUME ClusterInit PROVE CInv
  OBVIOUS
<1>1. IInv
  BY IInvInit DEF ClusterInit
<1>2. ClusterTypeOK
  BY DEF ClusterInit, ClusterTypeOK, Holding
<1>3. issued = {} /\ exited = {} /\ Done = {}
  BY DEF ClusterInit, Init, Done
<1>4. HoldingInv
  BY <1>3 DEF ClusterInit, HoldingInv
<1>5. StopOnlyWhenOver /\ DriverInv /\ ResultInv
  BY DEF ClusterInit, StopOnlyWhenOver, DriverInv, ResultInv
<1> QED
  BY <1>1, <1>2, <1>4, <1>5 DEF CInv

\* every step keeps it,
LEMMA CInvStep == CInv /\ [ClusterNext]_allVars => CInv'
<1> SUFFICES ASSUME CInv, [ClusterNext]_allVars PROVE CInv'
  OBVIOUS
<1>1. [Next]_vars
  BY CoordinatorSteps DEF CInv, IInv
<1>2. IInv'
  BY <1>1, IInvStep DEF CInv
<1>3. /\ closed => closed'
      /\ phase = "done" => phase' = "done"
      /\ phase = "failed" => phase' = "failed"
  BY <1>1, <1>2, OverStays DEF CInv
<1> QED
  BY <1>2, <1>3, ClusterTypeStep, HoldingStep, StopStep, DriverStays, ResultStep DEF CInv

\* and so it holds in every state of a job.
LEMMA CInvAlways == ClusterSpec => []CInv
BY CInvInit, CInvStep, PTL DEF ClusterSpec

(***************************************************************************)
(* The workers of worker.go and the drivers use the coordinator as its     *)
(* specification assumes - each report answers an assignment, each worker  *)
(* asks after it registered - so every theorem about the Coordinator holds *)
(* in a job.                                                               *)
(***************************************************************************)
THEOREM JobRunsCoordinator == ClusterSpec => Spec
<1>1. ClusterInit => Init
  BY DEF ClusterInit
<1>2. CInv /\ [ClusterNext]_allVars => [Next]_vars
  BY CoordinatorSteps DEF CInv, IInv
<1> QED
  BY <1>1, <1>2, CInvAlways, PTL DEF ClusterSpec, Spec

\* In particular a whole job keeps the promise of the abstract specification.
THEOREM JobKeepsPromise == ClusterSpec => KeepsPromise
BY JobRunsCoordinator, CoordinatorKeepsPromise, PTL

(***************************************************************************)
(* What the caller of Execute is told is true, in every mode and whatever  *)
(* crashes, hangs or times out.                                            *)
(***************************************************************************)
THEOREM ResultsAreTrue == ClusterSpec => []ResultIsTrue
<1>1. CInv => ResultIsTrue
  <2> SUFFICES ASSUME CInv PROVE ResultIsTrue
    OBVIOUS
  <2>1. phase = "done" => Done = Task
    BY DEF CInv, IInv, EndInv, OutcomeAgrees
  <2> QED
    BY <2>1 DEF CInv, ResultInv, HoldingInv, ResultIsTrue
<1> QED
  BY <1>1, CInvAlways, PTL

(***************************************************************************)
(* While the coordinator serves, each attempt it waits for is in the hands *)
(* of the worker it is listed under, or that worker has crashed.           *)
(***************************************************************************)
THEOREM ListedIsHeld == ClusterSpec => []ListedAttemptIsHeld
<1>1. CInv => ListedAttemptIsHeld
  <2> SUFFICES ASSUME CInv, Serving, NEW t \in Task, task[t].state # "done",
                      NEW w \in task[t].workers
               PROVE  job[w] = t \/ pc[w] = "crashed"
    BY DEF ListedAttemptIsHeld
  <2>1. <<w, t>> \in issued
    BY DEF CInv, IInv, TasksInv, NoPhantomAttempt
  <2>2. w \in Worker
    BY DEF CInv, IInv, TypeOK, TaskRecord
  <2> QED
    BY <2>1, <2>2 DEF CInv, HoldingInv
<1> QED
  BY <1>1, CInvAlways, PTL

(***************************************************************************)
(* No worker gives up on a job that goes on, unless runCluster failed to   *)
(* start a process and left with the coordinator (mapreduce.go:172-174).   *)
(***************************************************************************)
THEOREM StopsWhenOver == ClusterSpec => []StopOnlyWhenOver
<1>1. CInv => StopOnlyWhenOver
  BY DEF CInv
<1> QED
  BY <1>1, CInvAlways, PTL

(***************************************************************************)
(* No attempt writes an output file under a caller of runLocal or          *)
(* runCluster that has its result; an error of cmd.Start is none.          *)
(***************************************************************************)
THEOREM OutputsAreSettled == ClusterSpec => OutputsSettled
<1>1. CInv => OutputsSettledStep
  BY DEF CInv, ResultInv, DriverInv, Ended, OutputsSettledStep
<1> QED
  BY <1>1, CInvAlways, PTL DEF ClusterSpec, OutputsSettled

================================================================================
