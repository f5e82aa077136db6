-------------------------------- MODULE Cluster --------------------------------
(***************************************************************************)
(* A whole job: the Coordinator, the worker processes of worker.go (Dial,  *)
(* Run, execute and the heartbeat goroutine) and the driver of             *)
(* mapreduce.go that starts them and returns the result (runLocal,         *)
(* runCluster, runCoordinatorOnly).                                        *)
(*                                                                         *)
(* A client blocks in Call until the coordinator answers, so a call and    *)
(* its handler are one step; once the coordinator has gone the call fails  *)
(* with what isDisconnect recognises.  Workers outside Reliable may crash  *)
(* at any point (not as goroutines of runLocal) and may hang in user code; *)
(* a process of runCluster may fail to start, which ends the call at once. *)
(***************************************************************************)
EXTENDS Coordinator

CONSTANTS
  Modes,     \* the drivers that may run: among "local", "cluster", "coordinator"
  Reliable,  \* workers that neither crash nor hang
  MayHang    \* whether the others may hang in user code

ASSUME WorkersAssumption == Worker # {}   \* config.Validate: workers must be at least 1
ASSUME ModesAssumption == Modes \subseteq {"local", "cluster", "coordinator"}
ASSUME ReliableAssumption == Reliable \subseteq Worker
ASSUME MayHangAssumption == MayHang \in BOOLEAN

VARIABLES
  pc,       \* where each worker is in Run and execute
  job,      \* the task it executes, 0 if none
  written,  \* tasks some attempt of which put its output in place
  mode,     \* which driver runs
  driver,   \* where it is
  result    \* what it returned

jobVars == <<pc, job, written>>
driverVars == <<mode, driver, result>>
allVars == <<vars, jobVars, driverVars>>

Holding == {"executing", "written", "hung"}

ClusterTypeOK ==
  /\ pc \in [Worker -> {"unstarted", "dialing", "polling", "stopped", "crashed"} \cup Holding]
  /\ job \in [Worker -> Task \cup {0}]
  /\ written \subseteq Task
  /\ mode \in Modes
  /\ driver \in {"starting", "waiting", "reaping", "timedOut", "draining", "drained", "expired",
                 "gone"}
  /\ result \in {"none", "ok", "failed", "timeout", "incomplete", "startFailed"}
  /\ \A w \in Worker : pc[w] \in Holding <=> job[w] # 0

ClusterInit ==
  /\ Init
  /\ mode \in Modes
  /\ pc = [w \in Worker |-> IF mode = "cluster" THEN "unstarted" ELSE "dialing"]
  /\ job = [w \in Worker |-> 0]
  /\ written = {}
  /\ driver = IF mode = "cluster" THEN "starting" ELSE "waiting"
  /\ result = "none"

Serving == driver # "gone"

Goto(w, label) == pc' = [pc EXCEPT ![w] = label]

--------------------------------------------------------------------------------

(***************************************************************************)
(* Workers.                                                                *)
(***************************************************************************)
Dial(w) ==
  /\ pc[w] = "dialing"
  /\ \/ Serving /\ Register(w) /\ Goto(w, "polling")
     \/ ~ Serving /\ Goto(w, "stopped") /\ UNCHANGED vars
  /\ UNCHANGED <<job, written, driverVars>>

\* Run: ask for a task, and act on the kind of the reply.
Poll(w) ==
  /\ pc[w] = "polling"
  /\ \/ /\ Serving
        /\ RequestTask(w)
        /\ \/ w \in exited' /\ Goto(w, "stopped") /\ UNCHANGED job
           \/ /\ w \notin exited'
              /\ \/ \E t \in Task : /\ <<w, t>> \in issued'
                                    /\ job' = [job EXCEPT ![w] = t]
                                    /\ Goto(w, "executing")
                 \/ issued' = issued /\ UNCHANGED <<pc, job>>
     \/ ~ Serving /\ Goto(w, "stopped") /\ UNCHANGED <<vars, job>>
  /\ UNCHANGED <<written, driverVars>>

\* mapper.Run and reducer.Run end by renaming their output into place.
WriteOutput(w) ==
  /\ pc[w] = "executing"
  /\ written' = written \cup {job[w]}
  /\ Goto(w, "written")
  /\ UNCHANGED <<vars, job, driverVars>>

\* The report of execute; an error of the call itself is dropped.
Report(w, from, Handler(_, _)) ==
  /\ pc[w] = from
  /\ IF Serving THEN Handler(w, job[w]) ELSE UNCHANGED vars
  /\ Goto(w, "polling")
  /\ job' = [job EXCEPT ![w] = 0]
  /\ UNCHANGED <<written, driverVars>>

Failed(w, t) == ReportLate(w, t) \/ ReportFailure(w, t)
Succeeded(w, t) == ReportLate(w, t) \/ ReportSuccess(w, t)

\* Seeded fault: a failure is not reported.
ReportErrorUnsent(w) ==
  /\ pc[w] = "executing"
  /\ Goto(w, "polling")
  /\ job' = [job EXCEPT ![w] = 0]
  /\ UNCHANGED <<vars, written, driverVars>>

ReportError(w) == Report(w, "executing", Failed)
ReportDone(w) == Report(w, "written", Succeeded)

\* The heartbeat goroutine runs until Close, through the user code.
Beat(w) ==
  /\ pc[w] \in {"polling"} \cup Holding
  /\ Serving
  /\ Heartbeat(w)
  /\ UNCHANGED <<jobVars, driverVars>>

Hang(w) ==
  /\ MayHang
  /\ w \notin Reliable
  /\ pc[w] = "executing"
  /\ Goto(w, "hung")
  /\ UNCHANGED <<vars, job, written, driverVars>>

Crash(w) ==
  /\ mode # "local"
  /\ w \notin Reliable
  /\ pc[w] \in {"polling"} \cup Holding
  /\ Goto(w, "crashed")
  /\ job' = [job EXCEPT ![w] = 0]
  /\ UNCHANGED <<vars, written, driverVars>>

--------------------------------------------------------------------------------

\* Seeded fault: Wait returns no error once the job is over.
JobResultUnchecked == IF closed THEN "ok" ELSE "failed"

(***************************************************************************)
(* The driver.                                                             *)
(***************************************************************************)
JobResult == IF jobErr THEN "failed" ELSE "ok"

Return(value) ==
  /\ driver' = "gone"
  /\ result' = value
  /\ UNCHANGED <<vars, jobVars, mode>>

Ended(w) == pc[w] \in {"stopped", "crashed"}

\* Seeded fault: the result is returned without waiting for the workers.
ReturnLocalEarly ==
  /\ mode = "local"
  /\ driver = "waiting"
  /\ closed
  /\ Return(JobResult)

\* runLocal: wg.Wait, then the job must be over.
ReturnLocal ==
  /\ mode = "local"
  /\ driver = "waiting"
  /\ \A w \in Worker : Ended(w)
  /\ Return(IF closed THEN JobResult ELSE "incomplete")

\* runCluster: cmd.Start for one process after the other.
StartProcess(w) ==
  /\ driver = "starting"
  /\ pc[w] = "unstarted"
  /\ Goto(w, "dialing")
  /\ UNCHANGED <<vars, job, written, driverVars>>

\* One that fails, the first or a later one, returns past Wait and the reaping:
\* the processes there are go on, without their coordinator.
StartFails ==
  /\ driver = "starting"
  /\ \E w \in Worker : pc[w] = "unstarted"
  /\ Return("startFailed")

\* All have started: c.Wait, then cmd.Wait for every process.
WaitCluster ==
  /\ driver = "starting"
  /\ \A w \in Worker : pc[w] # "unstarted"
  /\ driver' \in (IF closed THEN {"reaping", "timedOut"} ELSE {"timedOut"})
  /\ UNCHANGED <<vars, jobVars, mode, result>>

ReturnCluster ==
  /\ driver \in {"reaping", "timedOut"}
  /\ \A w \in Worker : Ended(w)
  /\ Return(IF driver = "timedOut" THEN "timeout" ELSE JobResult)

\* runCoordinatorOnly: wait for the job, DrainWorkers, leave.
StartDrain ==
  /\ mode = "coordinator"
  /\ driver = "waiting"
  /\ closed
  /\ driver' = "draining"
  /\ UNCHANGED <<vars, jobVars, mode, result>>

DrainWorkers ==
  /\ driver = "draining"
  /\ LET pending == registered \ (exited \cup silent) IN
       driver' \in (IF pending = {} THEN {"drained"} ELSE {"expired"})
  /\ UNCHANGED <<vars, jobVars, mode, result>>

ReturnCoordinator ==
  /\ driver \in {"drained", "expired"}
  /\ Return(JobResult)

--------------------------------------------------------------------------------

WorkerStep(w) ==
  Dial(w) \/ Poll(w) \/ WriteOutput(w) \/ ReportError(w) \/ ReportDone(w)

DriverStep ==
  \/ ReturnLocal
  \/ (\E w \in Worker : StartProcess(w)) \/ StartFails \/ WaitCluster \/ ReturnCluster
  \/ StartDrain \/ DrainWorkers \/ ReturnCoordinator

Monitor ==
  /\ Serving
  /\ MonitorTick \/ MonitorReturn
  /\ UNCHANGED <<jobVars, driverVars>>

Silence(w) ==
  /\ Serving
  /\ FallSilent(w)
  /\ UNCHANGED <<jobVars, driverVars>>

Expire(t) ==
  /\ Serving
  /\ Overrun(t)
  /\ UNCHANGED <<jobVars, driverVars>>

ClusterNext ==
  \/ \E w \in Worker : WorkerStep(w) \/ Beat(w) \/ Hang(w) \/ Crash(w) \/ Silence(w)
  \/ \E t \in Task : Expire(t)
  \/ Monitor
  \/ DriverStep

ClusterSpec == ClusterInit /\ [][ClusterNext]_allVars

(***************************************************************************)
(* Fairness: the loops of worker.go and the ticker of monitor() keep       *)
(* running, user code that does not hang returns, timers expire: a worker  *)
(* that sends nothing falls silent, a task that stays running is overdue,  *)
(* and c.Wait and DrainWorkers have deadlines.  How often a healthy worker *)
(* falls silent and how often a task times out is not bounded.             *)
(***************************************************************************)
Fairness ==
  /\ \A w \in Worker : /\ WF_allVars(Dial(w)) /\ WF_allVars(Poll(w))
                       /\ WF_allVars(WriteOutput(w) \/ ReportError(w))
                       /\ WF_allVars(ReportDone(w))
                       /\ WF_allVars(pc[w] = "crashed" /\ Silence(w))
  /\ \A t \in Task : WF_allVars(Expire(t))
  /\ WF_allVars(Monitor)
  /\ WF_allVars(DriverStep)

FairClusterSpec == ClusterSpec /\ Fairness

--------------------------------------------------------------------------------

(***************************************************************************)
(* The result a caller of Execute gets is true: "ok" means every task's    *)
(* output is in place and no task is open, a failure means the coordinator *)
(* recorded one, and runLocal never finds its workers gone with the job    *)
(* unfinished.                                                             *)
(***************************************************************************)
ResultIsTrue ==
  /\ result = "ok" => Done = Task /\ Task \subseteq written
  /\ result = "failed" => phase = "failed"
  /\ result # "incomplete"

(***************************************************************************)
(* runLocal and runCluster return only after every worker has: no attempt  *)
(* writes an output file under a caller who is already reading it.  Not so *)
(* when a process fails to start: those before it are left running, and    *)
(* may write after the error was returned.                                 *)
(***************************************************************************)
OutputsSettledStep ==
  result \notin {"none", "startFailed"} /\ mode # "coordinator" =>
    \A w \in Worker : pc[w] = "executing" => pc'[w] # "written"
OutputsSettled == [][OutputsSettledStep]_allVars

(***************************************************************************)
(* The coordinator never waits for an attempt that nobody works on, though *)
(* workers are presumed lost and come back, tasks are reclaimed and        *)
(* reports are late: a task that is not done is held by each worker on its *)
(* list, or that worker has crashed.  The converse does not hold:          *)
(* reclaimLocked forgets attempts that go on.                              *)
(***************************************************************************)
ListedAttemptIsHeld ==
  Serving => \A t \in Task : task[t].state # "done" =>
    \A w \in task[t].workers : job[w] = t \/ pc[w] = "crashed"

(***************************************************************************)
(* No worker takes a dropped connection for the end of a job that goes on: *)
(* it stops only if the job ended, or runCluster gave up starting.  After  *)
(* its timeout runCluster keeps serving until its processes have gone.     *)
(***************************************************************************)
StopOnlyWhenOver ==
  \A w \in Worker : pc[w] = "stopped" => closed \/ result = "startFailed"

(***************************************************************************)
(* The job ends, which is the deadline of JobPromise: with one worker that *)
(* neither crashes nor hangs, whatever the others do and however often     *)
(* healthy workers are presumed lost or their tasks time out.  Only a      *)
(* process that fails to start leaves it open.                             *)
(***************************************************************************)
JobEnds == Promise!Ends \/ <>(result = "startFailed")

(***************************************************************************)
(* Every worker that joined stops, unless it crashed or hung.              *)
(***************************************************************************)
WorkersStop ==
  \A w \in Worker : pc[w] = "polling" ~> pc[w] \in {"stopped", "crashed", "hung"}

(***************************************************************************)
(* The caller of Execute gets an answer, unless user code that never       *)
(* returns keeps runLocal or runCluster waiting for a worker.              *)
(***************************************************************************)
CallReturns ==
  <>(result # "none" \/ (mode # "coordinator" /\ \E w \in Worker : pc[w] = "hung"))

================================================================================
