------------------------------ MODULE ThreadPool ------------------------------
(***************************************************************************)
(* The worker pool of inference-engine/engine/src/core/thread_pool.cpp:    *)
(* workerLoop, runAll and the destructor, with callers that are not pool   *)
(* threads.  A caller runs tasks[0] itself; in the engine that task may    *)
(* call runAll again (a graph node of a level whose kernel splits its      *)
(* rows), which is the inner call of a caller.  The same body run by a     *)
(* worker is inside the pool and runs its subtasks inline: a caller in     *)
(* Inside.                                                                 *)
(*                                                                         *)
(* mutex_ and group.mutex make their critical sections single steps.  The  *)
(* pool's condition variable is explicit: a worker in "waiting" moves only *)
(* when it is notified.                                                    *)
(***************************************************************************)
EXTENDS Naturals, Sequences, FiniteSets

CONSTANTS
  Thread,      \* the pool's threads
  Caller,      \* threads that call runAll
  Inside,      \* callers that run a task of the pool: insidePool()
  OuterTasks,  \* OuterTasks[c]: tasks.size() of the call of c
  Nesting,     \* callers whose tasks[0] is a call of runAll too
  InnerTasks   \* InnerTasks[c]: tasks.size() of that call

ASSUME ThreadAssumption == IsFiniteSet(Thread)
ASSUME TasksAssumption ==
  /\ Inside \subseteq Caller /\ Nesting \subseteq Caller
  /\ OuterTasks \in [Caller -> Nat] /\ InnerTasks \in [Caller -> Nat]

Level == {1, 2}
Group == Caller \X Level
Size(g) == IF g[2] = 1 THEN OuterTasks[g[1]] ELSE InnerTasks[g[1]]

\* Task i of a call; tasks[0] is number 1.
Item == UNION {{<<g, i>> : i \in 1 .. Size(g)} : g \in Group}
ItemsOf(g) == {x \in Item : x[1] = g}

None == <<>>

VARIABLES
  queue,        \* tasks_
  worker,       \* "check", "waiting" (in condition_.wait), "busy", "threw", "gone"
  holding,      \* the item a busy worker runs
  remaining,    \* group.remaining
  error,        \* group.error: the first item of the group that threw in the pool
  callerError,  \* callerError: tasks[0] threw
  level,        \* the call a caller is in
  at,           \* where in it: "call", "notify", "own", "wait", "done"
  outcome,      \* how the call ended: "none", "ok", or the item whose exception it threw
  ran,          \* how often an item's body was run
  first,        \* the first item of the call that threw, in time
  shutdown      \* the destructor: "no", "stopping" (flag set), "joining", "joined"

vars == <<queue, worker, holding, remaining, error, callerError, level, at,
          outcome, ran, first, shutdown>>

TypeOK ==
  /\ queue \in Seq(Item)
  /\ worker \in [Thread -> {"check", "waiting", "busy", "threw", "gone"}]
  /\ holding \in [Thread -> Item \cup {None}]
  /\ remaining \in [Group -> Nat]
  /\ error \in [Group -> Item \cup {None}]
  /\ callerError \in [Group -> Item \cup {None}]
  /\ level \in [Caller -> Level]
  /\ at \in [Caller -> {"call", "notify", "own", "wait", "done"}]
  /\ outcome \in [Group -> {None, <<"ok">>} \cup {<<"threw", x>> : x \in Item}]
  /\ ran \in [Item -> Nat]
  /\ first \in [Group -> Item \cup {None}]
  /\ shutdown \in {"no", "stopping", "joining", "joined"}

Init ==
  /\ queue = <<>>
  /\ worker = [w \in Thread |-> "check"]
  /\ holding = [w \in Thread |-> None]
  /\ remaining = [g \in Group |-> 0]
  /\ error = [g \in Group |-> None]
  /\ callerError = [g \in Group |-> None]
  /\ level = [c \in Caller |-> 1]
  /\ at = [c \in Caller |-> "call"]
  /\ outcome = [g \in Group |-> None]
  /\ ran = [x \in Item |-> 0]
  /\ first = [g \in Group |-> None]
  /\ shutdown = "no"

Stopping == shutdown # "no"

NotifyAll == worker' = [w \in Thread |-> IF worker[w] = "waiting" THEN "check" ELSE worker[w]]

\* The body of an item runs; it may throw.
RunBody(x) == ran' = [ran EXCEPT ![x] = @ + 1]
NoteThrow(x) == first' = [first EXCEPT ![x[1]] = IF @ = None THEN x ELSE @]

--------------------------------------------------------------------------------

(***************************************************************************)
(* workerLoop.                                                             *)
(***************************************************************************)
\* The predicate of condition_.wait, evaluated with the lock held.
WorkerCheck(w) ==
  /\ worker[w] = "check"
  /\ \/ /\ queue # <<>>
        /\ holding' = [holding EXCEPT ![w] = Head(queue)]
        /\ queue' = Tail(queue)
        /\ worker' = [worker EXCEPT ![w] = "busy"]
     \/ /\ queue = <<>>
        /\ worker' = [worker EXCEPT ![w] = IF Stopping THEN "gone" ELSE "waiting"]
        /\ UNCHANGED <<queue, holding>>
  /\ UNCHANGED <<remaining, error, callerError, level, at, outcome, ran, first, shutdown>>

FinishItem(w) ==
  /\ remaining' = [remaining EXCEPT ![holding[w][1]] = @ - 1]
  /\ holding' = [holding EXCEPT ![w] = None]
  /\ worker' = [worker EXCEPT ![w] = "check"]
  /\ UNCHANGED <<queue, callerError, level, at, outcome, shutdown>>

\* task() returns, and the group is counted down.
WorkerRun(w) ==
  /\ worker[w] = "busy"
  /\ RunBody(holding[w])
  /\ FinishItem(w)
  /\ UNCHANGED <<error, first>>

\* Seeded fault: a task that throws is counted down twice.
WorkerThrowCountsDown(w) ==
  /\ worker[w] = "busy"
  /\ RunBody(holding[w])
  /\ NoteThrow(holding[w])
  /\ error' = [error EXCEPT ![holding[w][1]] = IF @ = None THEN holding[w] ELSE @]
  /\ remaining' = [remaining EXCEPT ![holding[w][1]] = @ - 1]
  /\ worker' = [worker EXCEPT ![w] = "threw"]
  /\ UNCHANGED <<queue, holding, callerError, level, at, outcome, shutdown>>

\* task() throws: record the exception, then count down.
WorkerThrow(w) ==
  /\ worker[w] = "busy"
  /\ RunBody(holding[w])
  /\ NoteThrow(holding[w])
  /\ error' = [error EXCEPT ![holding[w][1]] = IF @ = None THEN holding[w] ELSE @]
  /\ worker' = [worker EXCEPT ![w] = "threw"]
  /\ UNCHANGED <<queue, holding, remaining, callerError, level, at, outcome, shutdown>>

WorkerThrown(w) ==
  /\ worker[w] = "threw"
  /\ FinishItem(w)
  /\ UNCHANGED <<error, ran, first>>

--------------------------------------------------------------------------------

(***************************************************************************)
(* runAll, by caller c in call <<c, level[c]>>.                            *)
(***************************************************************************)
Call(c) == <<c, level[c]>>
Own(c) == <<Call(c), 1>>

\* The call ends: the inner one inside tasks[0] of the outer one, whose
\* exception it then is.
Leave(c, result) ==
  /\ outcome' = [outcome EXCEPT ![Call(c)] = result]
  /\ IF level[c] = 2
     THEN /\ level' = [level EXCEPT ![c] = 1]
          /\ at' = [at EXCEPT ![c] = "wait"]
          /\ RunBody(<<<<c, 1>>, 1>>)
          /\ IF result = <<"ok">>
             THEN UNCHANGED <<callerError, first>>
             ELSE /\ callerError' = [callerError EXCEPT ![<<c, 1>>] = <<<<c, 1>>, 1>>]
                  /\ NoteThrow(<<<<c, 1>>, 1>>)
     ELSE /\ at' = [at EXCEPT ![c] = "done"]
          /\ UNCHANGED <<level, callerError, first, ran>>

CallEmpty(c) ==
  /\ at[c] = "call"
  /\ Size(Call(c)) = 0
  /\ Leave(c, <<"ok">>)
  /\ UNCHANGED <<queue, worker, holding, remaining, error, shutdown>>

\* One task is run in place.
CallSingle(c) ==
  /\ at[c] = "call"
  /\ Size(Call(c)) = 1
  /\ at' = [at EXCEPT ![c] = "own"]
  /\ UNCHANGED <<queue, worker, holding, remaining, error, callerError, level, outcome,
                 ran, first, shutdown>>

\* Without threads, and inside the pool, the tasks are run in order, up to the
\* first that throws; there is no group to wait for.
RunsInline(c) == Thread = {} \/ c \in Inside

CallInline(c) ==
  /\ at[c] = "call"
  /\ RunsInline(c)
  /\ Size(Call(c)) > 1
  /\ \E k \in 1 .. Size(Call(c)) :
       /\ ran' = [x \in Item |-> IF x[1] = Call(c) /\ x[2] <= k THEN ran[x] + 1 ELSE ran[x]]
       /\ \/ k = Size(Call(c)) /\ UNCHANGED <<callerError, first>>
          \/ /\ callerError' = [callerError EXCEPT ![Call(c)] = <<Call(c), k>>]
             /\ NoteThrow(<<Call(c), k>>)
  /\ at' = [at EXCEPT ![c] = "wait"]
  /\ UNCHANGED <<queue, worker, holding, remaining, error, level, outcome, shutdown>>

\* Queue all tasks but the first ...
CallPush(c) ==
  /\ at[c] = "call"
  /\ ~ RunsInline(c)
  /\ Size(Call(c)) > 1
  /\ queue' = queue \o [i \in 1 .. Size(Call(c)) - 1 |-> <<Call(c), i + 1>>]
  /\ remaining' = [remaining EXCEPT ![Call(c)] = Size(Call(c)) - 1]
  /\ at' = [at EXCEPT ![c] = "notify"]
  /\ UNCHANGED <<worker, holding, error, callerError, level, outcome, ran, first, shutdown>>

\* Seeded fault: nobody is woken.
CallNotifyNobody(c) ==
  /\ at[c] = "notify"
  /\ at' = [at EXCEPT ![c] = "own"]
  /\ UNCHANGED <<queue, worker, holding, remaining, error, callerError, level, outcome, ran,
                 first, shutdown>>

\* ... wake the workers, after the lock is released ...
CallNotify(c) ==
  /\ at[c] = "notify"
  /\ NotifyAll
  /\ at' = [at EXCEPT ![c] = "own"]
  /\ UNCHANGED <<queue, holding, remaining, error, callerError, level, outcome, ran, first,
                 shutdown>>

\* ... run tasks[0], which may be a call of its own ...
RunOwn(c) ==
  /\ at[c] = "own"
  /\ level[c] = 2 \/ c \notin Nesting
  /\ RunBody(Own(c))
  /\ at' = [at EXCEPT ![c] = "wait"]
  /\ \/ UNCHANGED <<callerError, first>>
     \/ /\ callerError' = [callerError EXCEPT ![Call(c)] = Own(c)]
        /\ NoteThrow(Own(c))
  /\ UNCHANGED <<queue, worker, holding, remaining, error, level, outcome, shutdown>>

CallNested(c) ==
  /\ at[c] = "own"
  /\ level[c] = 1 /\ c \in Nesting
  /\ level' = [level EXCEPT ![c] = 2]
  /\ at' = [at EXCEPT ![c] = "call"]
  /\ UNCHANGED <<queue, worker, holding, remaining, error, callerError, outcome, ran, first,
                 shutdown>>

\* Seeded fault: the caller's own exception is thrown without waiting; an exception
\* of the pool's is forgotten.
AwaitGroupUnlessThrown(c) ==
  /\ at[c] = "wait"
  /\ remaining[Call(c)] = 0 \/ callerError[Call(c)] # None
  /\ LET g == Call(c) IN
       Leave(c, CASE callerError[g] # None -> <<"threw", callerError[g]>>
                  [] callerError[g] = None /\ error[g] # None -> <<"threw", error[g]>>
                  [] OTHER -> <<"ok">>)
  /\ UNCHANGED <<queue, worker, holding, remaining, error, shutdown>>

AwaitGroupOwnErrorOnly(c) ==
  /\ at[c] = "wait"
  /\ remaining[Call(c)] = 0
  /\ Leave(c, IF callerError[Call(c)] # None THEN <<"threw", callerError[Call(c)]>> ELSE <<"ok">>)
  /\ UNCHANGED <<queue, worker, holding, remaining, error, shutdown>>

\* ... and wait for the group; its own exception comes first.
AwaitGroup(c) ==
  /\ at[c] = "wait"
  /\ remaining[Call(c)] = 0
  /\ LET g == Call(c) IN
       Leave(c, CASE callerError[g] # None -> <<"threw", callerError[g]>>
                  [] callerError[g] = None /\ error[g] # None -> <<"threw", error[g]>>
                  [] OTHER -> <<"ok">>)
  /\ UNCHANGED <<queue, worker, holding, remaining, error, shutdown>>

--------------------------------------------------------------------------------

(***************************************************************************)
(* ~ThreadPool.  Its owner starts no call after it, but calls may still be *)
(* waiting for tasks they queued.                                          *)
(***************************************************************************)
DestroyFlag ==
  /\ shutdown = "no"
  /\ \A c \in Caller : at[c] = "done" \/ (level[c] = 1 /\ at[c] = "wait")
  /\ shutdown' = "stopping"
  /\ UNCHANGED <<queue, worker, holding, remaining, error, callerError, level, at, outcome,
                 ran, first>>

\* Seeded fault: nobody is woken for the shutdown.
DestroyNotifyNobody ==
  /\ shutdown = "stopping"
  /\ shutdown' = "joining"
  /\ UNCHANGED <<queue, worker, holding, remaining, error, callerError, level, at, outcome, ran,
                 first>>

DestroyNotify ==
  /\ shutdown = "stopping"
  /\ shutdown' = "joining"
  /\ NotifyAll
  /\ UNCHANGED <<queue, holding, remaining, error, callerError, level, at, outcome, ran, first>>

DestroyJoin ==
  /\ shutdown = "joining"
  /\ \A w \in Thread : worker[w] = "gone"
  /\ shutdown' = "joined"
  /\ UNCHANGED <<queue, worker, holding, remaining, error, callerError, level, at, outcome,
                 ran, first>>

--------------------------------------------------------------------------------

WorkerStep(w) == WorkerCheck(w) \/ WorkerRun(w) \/ WorkerThrow(w) \/ WorkerThrown(w)

CallerStep(c) ==
  \/ CallEmpty(c) \/ CallSingle(c) \/ CallInline(c) \/ CallPush(c) \/ CallNotify(c)
  \/ RunOwn(c) \/ CallNested(c) \/ AwaitGroup(c)

DestroyStep == DestroyFlag \/ DestroyNotify \/ DestroyJoin

Next ==
  \/ \E w \in Thread : WorkerStep(w)
  \/ \E c \in Caller : CallerStep(c)
  \/ DestroyStep

Spec == Init /\ [][Next]_vars

(***************************************************************************)
(* Threads are scheduled and task bodies return or throw.                  *)
(***************************************************************************)
Fairness ==
  /\ \A w \in Thread : WF_vars(WorkerStep(w))
  /\ \A c \in Caller : WF_vars(CallerStep(c))
  /\ WF_vars(DestroyStep)

FairSpec == Spec /\ Fairness

--------------------------------------------------------------------------------

Open(g) == outcome[g] = None

(***************************************************************************)
(* The closures queued by runAll refer to its TaskGroup and its tasks by   *)
(* reference: none is queued, running, or about to count down once the     *)
(* call that made it has returned.                                         *)
(***************************************************************************)
NoDanglingItem ==
  /\ \A i \in DOMAIN queue : Open(queue[i][1])
  /\ \A w \in Thread : holding[w] # None => Open(holding[w][1])

(***************************************************************************)
(* A call that used the pool has run each of its tasks exactly once when   *)
(* it returns, even if some of them threw; and an exception surfaces if    *)
(* and only if some task of the call threw one.                            *)
(***************************************************************************)
ReturnsWhenFinished ==
  \A g \in Group : ~ Open(g) =>
    /\ ~ RunsInline(g[1]) => \A x \in ItemsOf(g) : ran[x] = 1
    /\ outcome[g] = <<"ok">> <=> first[g] = None
    /\ outcome[g] = <<"ok">> => \A x \in ItemsOf(g) : ran[x] = 1

(***************************************************************************)
(* The countdown of a group is the number of its tasks still queued or     *)
(* held by a worker: no task is lost between the queue and the group.      *)
(***************************************************************************)
Outstanding(g) == {i \in DOMAIN queue : queue[i][1] = g}
Held(g) == {w \in Thread : holding[w] # None /\ holding[w][1] = g}

CountdownExact ==
  \A g \in Group : remaining[g] = Cardinality(Outstanding(g)) + Cardinality(Held(g))

(***************************************************************************)
(* Nested calls, concurrent callers and a starting shutdown never leave a  *)
(* caller waiting for a task nobody runs.                                  *)
(***************************************************************************)
CallsReturn == <>(\A c \in Caller : at[c] = "done")

(***************************************************************************)
(* Every worker is woken for shutdown and the destructor returns.          *)
(***************************************************************************)
DestroyReturns == <>(shutdown = "joined")

================================================================================
