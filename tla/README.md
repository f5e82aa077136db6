# TLA+ models of Building-from-Scratch

The repository holds two programs: a **MapReduce runtime** in Go
(`mapreduce/pkg`) and an **inference engine** in C++
(`inference-engine/engine`). This directory holds TLA+ modules for the parts of
both in which order, concurrency or failure decides whether the answer is
right, TLC runs over small instances of them, and TLAPS proofs for every value
of the constants.

All paths below are relative to `src/`; `PROJECT.json` maps every definition to
the lines it models, lists the runs, and lists the hazards with the properties
that watch them.

## 1. Inventory

### MapReduce

| Part (code) | State | Operations | Talks to | What is hard | What makes it correct |
| --- | --- | --- | --- | --- | --- |
| Coordinator (`pkg/coordinator`) | task table (state, live attempts, failures, backup flag, start time), worker table (last seen, alive, exited), phase, error, `done` channel, durations, counters | RPCs `Register`, `Heartbeat`, `RequestTask`, `ReportTask`; `monitor` goroutine; `Wait`, `Err`, `Status`, `DrainWorkers` | workers, by net/rpc; drivers, by `Wait` and `DrainWorkers` | timeouts presume healthy workers lost; reports arrive late, twice for a task, or never; backups; two ways to end | reduce waits for map; each task counted once; attempts believed live exist; one outcome, for good |
| Worker (`pkg/worker`) | id, connection, stop channel | `Dial`, `Run`, `execute`, `heartbeat`, `Close` | coordinator; shared directory | crash, hung user code, the coordinator leaving first | stops only if the job is over, or could not be started; does stop |
| Drivers (`pkg/mapreduce`) | none but where they are | `runLocal`, `runCluster`, `runCoordinatorOnly`, `collect` | coordinator, worker goroutines or processes | timeouts while workers run; a process that fails to start; shutdown against polling workers | returned result is true; outputs settled; returns |
| Map task (`pkg/mapper`) | buffer, spill count | `Run`, `spill`, `mergeSpills`, `removeStaleSpills`, combiner | shared directory | crash in the middle; overlapping attempts on the same file names | partition files are whole |
| Reduce task, merge (`pkg/reducer`, `pkg/merge`) | heap of run heads, current group | `Run`, `Merger.Next` | shared directory | partition files replaced while it reads; missing files | output is the answer |
| Storage (`pkg/storage`) | files | `WriteAtomic`, paths, `Partition`, `ListInputFiles`, `SplitFiles` | everybody | temporary files left by crashes | all or nothing |
| Records (`pkg/record`) | - | `escape`, `unescape`, readers and writers | mapper, reducer | separators inside keys | round trip |
| Counters, config, protocol, interfaces | counter map | `Add`, `Merge`; `Validate` | | | |

### Inference engine

| Part (code) | State | Operations | Talks to | What is hard | What makes it correct |
| --- | --- | --- | --- | --- | --- |
| Thread pool (`core/thread_pool`) | queue, stop flag, threads; per call a `TaskGroup` on the caller's stack | `runAll`, `workerLoop`, `parallelFor`, destructor | session (levels), kernels (rows) | nested calls; wakeups after unlock; exceptions; references to the caller's stack | nothing dangles; all tasks run; no deadlock |
| Dynamic batcher (`serving/dynamic_batcher`) | queue, stop flag, statistics, promises | `enqueue`, `workerLoop`, `runBatch`, `stop`, `stats` | HTTP threads; session | push against wait, stop against push, partial failure of a batch | every request answered once, in order |
| Arena allocator (`core/allocator`), tensors (`core/tensor.h`) | chunks, cursor, free lists, statistics; size and buffer of tensors | `allocate`, `deallocate`, construct, copy, move, `resize` | each other; other threads in between | size classes, abandoned chunk rests, failed allocation between release and acquire | live blocks apart; none lost; no growth |
| Graph, optimizer (`graph/*`) | nodes in insertion order, edges, initializers | edges, removal, sort, levels; fold, fuse, eliminate | session | each pass exposes work to the others; hash order of traversal | model keeps its meaning |
| Session (`runtime/inference_session`), CPU provider | optimised model, plan, tensor store | `prepare`, `run`, `executeNode` | pool, allocator | nodes of a level in parallel on one store; reuse after a run that threw | result is what the loaded model denotes |
| HTTP server (`serving/http_server`) | listening socket, running flag, counters; per connection a detached thread, its buffer and descriptor | `run`, `stop`, `handleClient`, `handleInfer`, `metricsJson` | batcher | bytes in any pieces, clients that hang up, descriptors used again, threads that outlive `run` | the status the request deserves, counted once; bounded buffers; nobody closes another's socket; handlers end |
| GEMM kernels (`kernels/gemm`) | output, thread-local pack buffers | `compute` with five strategies, `finalize` | pool (`parallelFor`) | ragged tiles, stale buffers, rows on several threads | the product |
| Model file (`model/model_loader`) | - | `save`, `load` | session, command line | a file that stops short | load returns what was saved, or throws |
| Configuration, facade, command line (`runtime/config`, `runtime/inference_engine`, `cli/main`) | options, dataset position | `fromFile`, `validate`, `parseOptions`, `evaluate`, `runEval`, `runBench` | engine, model file | option order, the last batch, limits | the reported count is the true one |
| Operators, profiler, provider registry, scripts | - | numerics, text | | | |

### How they interact

A driver creates a coordinator and starts workers. A worker calls `Register`,
polls `RequestTask`, runs mapper or reducer code against the shared directory,
reports, and keeps sending heartbeats from a second goroutine. The coordinator
never calls a worker: it only forgets about it, so everything it believes about
attempts may be out of date. The file system is the only channel between map
and reduce tasks, and the only protection between attempts of one task is the
rename at the end of `WriteAtomic`.

In the engine, HTTP threads block on futures of the batcher; its one worker
calls the session; the session runs each level with `runAll`, whose first task
is run by the caller and may call `parallelFor`, hence `runAll`, again. The
command line loads a model file into one engine after another and calls it
directly.
Tensors take their buffers from the arena, from any thread.

## 2. Modules

| Module | Models | Used by |
| --- | --- | --- |
| `JobPromise` | what a coordinator promises, without workers, attempts or time | `Coordinator` (refinement) |
| `Coordinator` | `coordinator.go` | `Cluster`, `MCCoordinator` |
| `Cluster` | `worker.go` and `mapreduce.go`, on top of `Coordinator` | `MCCluster`, `ClusterProofs` |
| `ClusterProofs` | theorems about `Coordinator` and, on top of them, about `Cluster` | |
| `Shuffle` | `mapper.go`, `reducer.go`, `merge.go`, paths, `Partition` and `WriteAtomic` of `storage.go` | `MCShuffle`, `ShuffleProofs` |
| `ShuffleProofs` | theorems about `Shuffle` | |
| `ThreadPool` | `thread_pool.cpp` without the arithmetic of `parallelFor` | `MCThreadPool`, `ThreadPoolProofs` |
| `ParallelFor` | the ranges of `parallelFor` in `thread_pool.cpp` | `Gemm` |
| `ThreadPoolProofs` | theorems about `ThreadPool` | |
| `Gemm` | `gemm.cpp` | `MCGemm`, `GemmProofs` |
| `GemmProofs` | theorems about `ParallelFor` and `Gemm` | |
| `Batches` | what the batcher promises, without worker, batch or notification | `DynamicBatcher` (refinement), `HttpServer` (as its batcher) |
| `DynamicBatcher` | `dynamic_batcher.cpp` | `MCBatcher`, `DynamicBatcherProofs` |
| `DynamicBatcherProofs` | theorems about `DynamicBatcher` | |
| `PoolAllocator` | `allocator.cpp` and the buffer of `tensor.h` | `MCPool`, `PoolAllocatorProofs` |
| `PoolAllocatorProofs` | theorems about `PoolAllocator` | |
| `Graph` | `graph.cpp`, the rewrites of `graph_optimizer.cpp`, kernels as terms | `InferenceSession` |
| `HttpServer` | `http_server.cpp`, and how `runServe` ends | `MCHttp`, `FrontEndProofs` |
| `ModelFile` | `model_loader.cpp`, the shape of `model.h` | `CommandLine` |
| `CommandLine` | `eval` and `bench` of `main.cpp`, `config.cpp`, `inferBatch` | `MCCommandLine`, `FrontEndProofs` |
| `FrontEndProofs` | theorems about `HttpServer`, `ModelFile` and `CommandLine` | |
| `InferenceSession` | `prepare` and `run` of `inference_session.cpp`, `GraphOptimizer::run`, `topologicalSort` step by step | `MCSession`, `SessionProofs` |
| `SessionProofs` | theorems about `InferenceSession` | |

Operators introduced by a comment "Seeded fault" are not part of any
specification. Each is a variant of the definition that follows it with a bug
that would be easy to make (a dropped guard, a forgotten reset, a missing
wakeup). Put in place of the original it makes the run of the corresponding
property fail: this is how each property was shown to be able to fail.
`PROJECT.json` pairs them ("mutants").

### Coordinator

Every handler holds `Coordinator.mu` from beginning to end, so a handler is one
action, with the sweep `reclaimLocked` and the choice `pickLocked` /
`pickBackupLocked` inside `RequestTask` part of it. A task is a record `state,
workers, failures, backup, overdue`; `workers` are the keys of `t.workers`, the
attempts *believed* live.

Time appears in three comparisons. `lastSeen` against `WorkerTimeout` is the
set `silent`, `started` against `TaskTimeout` the flag `overdue`; the actions
`FallSilent` and `Overrun` may make either true whenever the clock could have.
Elapsed time against a multiple of the median is left open: any straggler may
be backed up once enough durations are recorded.

The clients in this module are any that answer assignments they were given and
answer each at most once (`execute` runs on the reply of `RequestTask` and
reports once). `issued` holds the assignments handed out and not reported. A
client may lose one (never report), be slow, or hold several. This covers
crashes, lost replies and restarts of workers, and is more than
`worker.go` does. A report sent twice is not covered: net/rpc does not retry.

### Cluster

`Cluster` restricts the clients to `worker.go` and adds the three drivers.
`Report` is `execute` after the user code; an error of the call itself is
dropped in the code and so here. `Beat` runs until `Close`, through user code.
`driver = "gone"` is the process or listener that no longer answers: a call then
fails with what `isDisconnect` recognises and the worker stops. `runCluster`
starts its processes one by one; when one fails to start (`StartFails`,
`mapreduce.go:172-174`) it returns at once, the coordinator goes with it, and the
processes before it run on: they are not waited for, and the job need not be over.
`StopOnlyWhenOver`, `OutputsSettled` and `JobEnds` except that result by name.
`Hang` is user
code that never returns, `Crash` the end of a worker process. `written` are
tasks whose output some attempt has put in place.

### Shuffle

Attempts of map tasks and reduce tasks on one directory. An attempt's `at` is
where it is in `Run`; lines of input are given as the records `Map` emits for
them; keys and values are numbers, the reducer and the combiner add up. The
hash is the key itself modulo the number of partitions. A sort or a merge is
given as the order in which the elements of a finite set leave (`InTurn`): the
least record first (`Sorted`), or the least head, that of the first source on a
tie (`Merged`), which is what the heap hands out.
`WriteAtomic` is two steps, creating a temporary file and renaming it: the
write, sync and close between touch nothing anyone else names, except that
`removeStaleSpills` of another attempt may remove the temporary file, and then
the rename fails. A file read by somebody keeps its content when it is replaced
or removed, as on POSIX, so opening a file is reading it. The coordinator is
reduced to two rules proved or checked elsewhere: a task is not handed out
after it is done, and reduce attempts begin when all map tasks are
(`ReduceGated`). Failures of the file system are not modelled; crashes are.

### ThreadPool

Callers are threads that call `runAll`. Their first task may call it again
(level 2); callers in `Inside` are pool threads, whose calls run in place. The
condition variable is explicit: a worker whose predicate is false moves to
`waiting` and only a notification moves it on; a notification is a step of its
own after the unlock, so anything may happen between. A task throws or not, at
every execution. `first` and `ran` are history variables. The inner call of a
caller is part of its `tasks[0]`: its exception is that task's exception. What
is not modelled: the pool's start (threads exist from the beginning) and
spurious wakeups, which only re-evaluate a predicate.

### ParallelFor and Gemm

`Ranges` is `parallelFor` as a function from count, chunk, workers and place of
the caller to the set of ranges its body is called with. `Gemm` is one call of
`Gemm::compute`: it resolves the strategy, shares the rows out with `Ranges`,
and lets the caller and the pool's threads take ranges and go through the loops
of the kernel a tile at a time, then `finalize`. Elements are integers, so the
order of additions does not matter and rounding is not modelled; what is kept is
which element is read from which address, which products are skipped, what the
pack buffers still hold from the tile before, and whose buffer it is. A thread
is in one range at a time, and ranges write rows of their own, so a tile is one
step.

### DynamicBatcher

One step for each critical section, each notification, each
`promise.set_value` and the forward pass. `worker = "aborted"` is
`std::terminate`: the handler in `runBatch` calls `set_exception` on promises
that already have a value, and the exception leaves the thread.
`wait_for` may end at any time. `Batches` sees of this the line of those who
wait, their answers, the flag and the end of the process.

### HttpServer

One action for each system call or call of the batcher in `handleClient` and
`handleInfer`, with the branches that follow it. A request is known by sizes:
where its head ends, the `Content-Length` headers, how many bytes of body come.
`recv` returns any number of the bytes that are there, up to the chunk, and 0 or
less when the client has hung up. Descriptors are allocated lowest first, as on
POSIX, so one that is closed comes back as somebody else's: `open` says what
each refers to. The accepting thread and a thread in `stop()` read and write
`listenSocket_` without a lock. `stop()` is a step for the flag, one for the test
of `listenSocket_`, one for `close`, which reads it again, and one for forgetting
it, in either thread (`RunFlag` to `RunForget`, `StopFlag` to `StopForget`); an
`accept` may fall between any two. As the read of the argument of `close` is
unsynchronised it may see the value from before or after the other thread's
assignment. The batcher is `Batches` by
`INSTANCE`, which is sound because `DynamicBatcher` implements it
(`KeepsOrder`). After `run` returns, `runServe` destroys the batcher and the
process ends, with handlers still under way. What these read from objects that
are destroyed by then is not modelled.

### ModelFile and CommandLine

A model file is a sequence of items (numbers, strings with their length).
`Save` writes a model in any order its maps give, up to any item: nothing looks
at the stream, so a crash or a full disk looks the same as success. `Load` reads
one element a step. `CommandLine` adds the options one by one (with
`fromFile` and `validate` for `--config`), the dataset, one engine after another
(one for `eval`, a sweep of them for `bench`), and the loop of `evaluate` in
`inferBatch` steps. The forward pass is a constant function of the loaded model
and the row. `stoul` wraps a negative number (`Unsigned`) and the cast of
`http_port` wraps too (`ToInt`); both ranges are constants.

### PoolAllocator

Allocation and deallocation are single steps (`mutex_`); tensor assignments are
two, because the pool is unlocked between release and allocation. Addresses are
`<<chunk, offset>>`; `carved` and `most` are history variables. `MaxChunks`
bounds the memory there is: past it `addChunk` throws `bad_alloc`.

### Graph and InferenceSession

A tensor's value is a term over the input and the weights, so two schedules
agree only if they apply the same operations to the same operands. `Meaning` is
the reference. Optimizer passes are taken one rewrite at a time, the
depth-first sort one visit at a time with the next root and child left open
(they come from a hash map), and a level's nodes in two steps each: gather
inputs, write output.

## 3. Runs

| Run | Instance | Shows |
| --- | --- | --- |
| `mccoordinator` | 3 map, 1 reduce, 2 workers, 2 attempts, backups | handlers in any order: gating, counting, attempts, outcome, finality, refinement of `JobPromise` |
| `mccluster` | 1 map, 1 reduce, 2 workers, 1 attempt, all drivers, one worker may crash or hang, any process may fail to start | the result is true, nobody writes output after the return, the job ends, workers stop, the caller gets an answer |
| `mcshuffle` | 2 map tasks (3 attempts), 2 partitions, 2 reducers, a combiner, spills | files and outputs are right through crashes and overlap |
| `mcthreadpool` | 2 threads, 3 callers, nesting, one caller inside the pool | nothing dangles, all tasks run, no deadlock, clean shutdown |
| `mcbatcher` | 3 requests and a malformed one, 2 stops, batches of 2 | refinement of `Batches`, drain, answers |
| `mcpool` | 3 tensors, 4 sizes, 2 chunks | blocks apart, ownership, no growth |
| `mcsession` | all models of 3 nodes over 3 ops and larger ones with branches, 2 runs, sequential and parallel | optimizer, plan and execution |
| `mcgemm` | 7 sizes around a tile of 2, all strategies, transpositions and biases, 2 pool threads | every strategy computes the product |
| `mchttp` | 2 connections, 17 kinds of request, a client that may hang up, a stop from another thread | statuses, counters, bounds, sockets, handlers end |
| `mccommandline` | 4 models, every cut of their files, 84 command lines | load tells whole files from others; the reported count is true |
| `mcspillrace` | as `mcshuffle`, workers with different spill sizes | *violated*: `PartsAreWhole` |
| `mchttpcut` | as `mchttp` | *violated*: `InferredWasSent` |

The properties `TypeOK`, `DurationsOfThisPhase` and `CountdownExact` are in no
run: section 4 proves them for all constants.

### Bounds, and why they are enough

- **Coordinator.** `medianDurationLocked` wants two durations and
  `pickBackupLocked` a task of the same phase that still runs, so a phase needs
  three tasks before a backup is taken: three map tasks. Two workers: a task can
  move, be held twice, be backed up, and be reported by its first holder while the
  second runs it. Two attempts: a failure that is not the last. `Explored` keeps
  TLC to as many unreported assignments as there are workers (a worker has at
  most one) and to failures of two tasks, enough for a job that fails and for two
  tasks that are queued again; the states one step beyond are checked too.
  `Worker` is a symmetry set (safety only). The proofs remove the bounds.
- **Cluster.** Liveness, hence no symmetry; the smallest job with both phases.
  The reliable worker may still be presumed silent or overdue any number of
  times.
- **Shuffle.** Two attempts of one task in every interleaving, a second task so
  the reduce merges two sources and the gate matters, a key in both, a key out
  of order in a line, a spill in the middle and one at the end.
- **ThreadPool.** Two threads and more tasks than threads; a nested call behind
  another caller's task; a one-task call.
- **DynamicBatcher.** Batches fill, run short, and follow one another; two stops
  cover an explicit one and the destructor.
- **PoolAllocator.** Chunk 6 with alignment 2: classes 2, 4 and 8, so a chunk
  has a rest to give up and one request exceeds it; the second chunk is the last.
- **Gemm.** A tile of 2 with sizes 1 to 5: whole tiles, ragged ones in each
  dimension, several tiles in each loop, an empty inner loop; 4 lanes with 1 to 5
  products; work on both sides of each threshold; 2 threads and the caller for 2
  to 5 rows, where the rounded chunk leaves the last range short.
- **HttpServer.** Chunks of 2 bytes, heads of 1 to 5 against a limit of 2, bodies
  that are declared as 0 to 5 and come as 0 to 6 bytes, against a limit of 3: on,
  below, just past each limit and more than a chunk past it, a declared body past
  the limit that does come, more bytes than were declared, and a head past the
  limit whose body never comes.
  A feature is a byte and a float two, so floats cut in half are pixels. Two
  connections are enough for a descriptor to change hands and for a batch to fail
  for both.
- **CommandLine.** Batches of 1, 2, 3 and 5 over 3 or 5 samples: dividing, not
  dividing, larger than the dataset; limits of 2, 3 and beyond the largest.
- **Session.** Three nodes reach cycles, diamonds over the input, shared
  producers, dead nodes, folding chains and duplicate readers.

### Fairness

Only where the code's scheduling gives it, and always weak.

- *Cluster*: the loops of `Run` go on; user code that does not hang returns; a
  crashed worker falls silent, a running task becomes overdue in the end
  (timeouts are finite), the monitor's ticker fires, `Wait` and `DrainWorkers`
  have deadlines. There is no fairness against presumptions: healthy workers may
  be presumed lost forever often, and the job ends nevertheless, because late
  success is still accepted.
- *ThreadPool*: threads are scheduled, tasks end, the owner destroys the pool
  once calls permit it. *DynamicBatcher*: the same for the worker, for a client
  that has pushed, and for a thread inside `stop`; nobody has to call either.
- *HttpServer*: handler threads are scheduled, and the batcher answers or the
  process ends, which is `EveryRequestAnswered` of the batcher. Nothing is assumed
  of the accept loop, of `stop` or of clients: `HandlersEnd` speaks of those that
  sent what they announced, or a head that is refused however it is cut, or hung
  up. A head past the limit by less than a chunk may be let through, and there is
  no receive timeout, so its handler may wait for a body without end.

`CHECK_DEADLOCK FALSE` appears where the program ends: jobs, pools and batchers
that have stopped, attempts that are done, sessions out of runs, a server, a
GEMM or a command that is over. The coordinator
alone and the allocator never stop, and are checked for deadlock.

## 4. Proofs

The theorems about `Coordinator` are the first part of `ClusterProofs`. They
are checked by TLAPS for every number of tasks and workers, every attempt limit (0, no limit, included) and with or without backups, from
the three assumptions in `Coordinator` (numbers are natural, the switch is
boolean).

| Theorem | States |
| --- | --- |
| `TypeCorrect` | `Spec => []TypeOK` |
| `ReduceIsGated` | `Spec => []ReduceGated` |
| `MergedOnce` | `Spec => []CountersMergedOnce` |
| `AttemptsAreReal` | `Spec => [](NoPhantomAttempt /\ RunningHasAttempt)` |
| `OutcomeIsTrue` | `Spec => [](OutcomeAgrees /\ ExitOnlyWhenOver)` |
| `EndIsFinal` | `Spec => Finality` |
| `DurationsMatchPhase` | `Spec => []DurationsOfThisPhase` |
| `AttemptsAreBounded` | `Spec => []AttemptsBounded` |
| `CoordinatorKeepsPromise` | `Spec => KeepsPromise` (refinement of `JobPromise`) |

The argument. `ReclaimFacts` and `PickFacts` say what the two locked helpers may
do to a task table: reclaiming leaves done and idle tasks as they are and only
removes attempts; picking assigns one task of the list, not done. Everything a
handler does to the table is then one of *shrunk*, *one task assigned*, *one
task reported*. The properties are not inductive one by one: that reduce tasks
are idle while a map task is open needs that none is issued; that an outcome is
consistent needs that the phase says which tasks are done; that a listed attempt
is issued needs that a done task is never listed open again. `IInv` is their
conjunction with `TypeOK`, and each conjunct has its lemma per handler.
Finality and the refinement follow from `IInv` step by step: a successful report
is `Complete`, a failure that spends the attempts is `Fail`, the request that
finds no task at all is `Empty`, everything else stutters. `DurationsOfThisPhase`
and `AttemptsBounded` count sets, and are proved on top of `IInv` with the
facts on finite sets of the standard library (a report adds one element to the
done set; an assignment adds at most one to the attempts).

The theorems about `Cluster`, the second part of `ClusterProofs`, hold for
every set of workers that is not empty
(`WorkersAssumption`, which `config.Validate` ensures), for any number of them
that crash or hang, and for the three drivers.

| Theorem | States |
| --- | --- |
| `JobRunsCoordinator` | `ClusterSpec => Spec` (of `Coordinator`) |
| `JobKeepsPromise` | `ClusterSpec => KeepsPromise` |
| `ResultsAreTrue` | `ClusterSpec => []ResultIsTrue` |
| `ListedIsHeld` | `ClusterSpec => []ListedAttemptIsHeld` |
| `StopsWhenOver` | `ClusterSpec => []StopOnlyWhenOver` |
| `OutputsAreSettled` | `ClusterSpec => OutputsSettled` |

`StopsWhenOver` and `OutputsAreSettled` except the result `startFailed`: the
statements without it are false of `runCluster`.

The argument. The first theorem says that `worker.go` is one of the clients the
coordinator was proved against: each step of a job is a step of `Coordinator` or
leaves its variables alone. So everything proved of the coordinator holds in a
job, and `CInv` adds what a job needs besides. While the coordinator serves, what
it handed out and got no report of is in that worker's hands, or the worker
crashed; an output is written before its task is reported (`HoldingInv`). A
worker that was told to exit, or sees its connection drop, finds the job closed,
because the driver stops serving only after that, or after the last worker has
gone, or because a process failed to start (`DriverInv`).  While processes are
being started the driver serves, and only `runCluster` is ever at that place. What the driver returned is the outcome the coordinator
recorded (`ResultInv`), and success means that every task is done
(`OutcomeAgrees`), hence written.

`ShuffleProofs` holds for any number of map tasks, attempts, reducers, lines and
records, every spill size, with and without a combiner, and at least one
partition (`NumReduceAssumption`; `mapper.go:60` and `config.go:129` refuse less).

| Theorem | States |
| --- | --- |
| `ShuffleTyped` | `Spec => []TypeOK` |
| `ReducersMissNothing` | `Spec => []NothingIsMissed` |
| `AloneAttemptsSucceed` | `Spec => AloneIsSafe` |
| `FilesStayRight` | `Spec => []FilesAreRight`, if `SpillsAgree` |

The argument. An attempt writes and removes only names of its own task
(`DirectoryOfOthers`), and what it removes is a spill or a temporary file for
one, never a part (`PartsOnlyGrow`). So the parts an attempt has put in place
(`HasPut`, by how far it has come) are there for good, through overlapping and
late attempts: `PutParts` leads to `DoneParts` when the success is reported, and
a reducer, which starts behind the last success (`ReducersGated`), appends a file
for each task it goes past. For `AloneAttemptsSucceed`: while an attempt has the
directory to itself no other attempt of the task runs (`Exclusive`), and one
that does not run touches nothing. So what lies in the directory is a function
of where the attempt is (`Tidy`): first exactly what it has listed for removal;
then the runs it has written, `Written`, and at most one temporary file, its own
and the one it is about to rename; at the end only spills on its list. Removing,
opening and renaming therefore find their file.

What files hold. `FilesStayRight` has one hypothesis, `SpillsAgree`: attempts of
a task spill at the same size. It is what a cluster started with one
`-spill-bytes` gives (the default, and all a local job can have), and without it
the statement is false, as `mcspillrace` shows. The argument has three parts.

*Streams.* `Tells(s, p, keys, worth)` says that `s` is in key order, has those of
`keys` that belong to partition `p`, and that the records of each add up to
`worth`. Sums over finite sets are shown to exist by induction over a set of
numbers, to split and to be invariant under renaming the elements (`SumTakesOut`,
`SumOfParts`, `SumMoved`); `InTurn` takes the elements of a finite set one after
the other (`InTurnTakes`), so sorting (`SortedIs`) and the heap's merge
(`MergedIs`) are renamings of what they read. The heap's order gives key order,
since the head it takes is not after any other head. Joining neighbours keeps
every total and, in key order, leaves each key once (`GroupedIs`). Hence
`RunTells`, `MergedTells`, `GroupedTells`, and `TellsTotals`: what tells the
totals satisfies `HoldsTotals`.

*One pass.* For a size, one pass over the lines determines what is buffered and
which runs were cut after each line (`PassOver`); together they account for all
lines read (`PassAccounts`), so the runs of a task, with the rest of the buffer,
are worth what its lines are (`RunsAccount`).

*Steps.* `DataInv` is inductive together with `Inv`: every attempt is at some
place of that pass (`OnPass`: its buffer and its number of spills are those
after its line; the runs it has opened are those of the pass), every spill in
place is the run of its number, every part its task's, every output the job's
(`FilesTell`), and what a reducer has opened as its i-th source is the part of task
i (`AllCollect`, by `ReducersGated`). With equal sizes it does not matter which
of several attempts wrote a spill, when, or how often. `OnPass` is needed
because an attempt that merges trusts names: it opens spills by number and never
checks that it wrote them.

`ThreadPoolProofs` holds for every set of callers and every finite set of
threads (`ThreadAssumption`), with any nesting the model allows.

| Theorem | States |
| --- | --- |
| `TypeCorrect` | `Spec => []TypeOK` |
| `CountdownIsExact` | `Spec => []CountdownExact` |
| `NothingDangles` | `Spec => []NoDanglingItem` |
| `ReturnedIsFinished` | `Spec => []ReturnsWhenFinished` |

The argument. Two facts carry each other. The countdown of a call is the number
of its items in the queue plus the number of threads that hold one
(`CountdownExact`); and items exist only for open calls. A call leaves
`AwaitGroup` only with the countdown at zero, hence with no item anywhere, so
nothing is left to dangle; a call that is not open has a countdown of zero
(`ClosedIsZero`), so it starts from an exact one. A worker that is busy holds an
item, and one that is not holds none (`BusyHolds`), so taking and finishing an
item move the count between the two parts and out of them. The counting uses the
library's facts on finite sets and on concatenation: `runAll` appends the tail
of a task list in one step.

`ReturnedIsFinished` rests on that invariant and on one of its own. A task whose
turn has not come (`Pending`) has run no time, and every other one exactly once
(`RanOnce`), save those behind an exception in a call that runs in place. A
pushed task is pending while it is in the queue or in a busy worker's hands, and
it is never in two places (`Unique`), or it could run twice. A call that has
returned has no item left (`NothingLeft`, from the countdown), hence nothing
pending. The exception: what is recorded is recorded with the first task that
throws (`Recorded`), and a call ends `ok` exactly if none was (`Surfaces`).

`DynamicBatcherProofs` holds for every set of requests and stops, every batch
size (0 included), with or without a delay and with every way a batch can fail.

| Theorem | States |
| --- | --- |
| `TypeCorrect` | `Spec => []TypeOK` |
| `StopHasDrained` | `Spec => []StopDrains` |
| `BatcherKeepsOrder` | `Spec => KeepsOrder` (refinement of `Batches`) |

The argument. A pending request is in the queue or in the part of the batch that
has no answer yet (`Waiting`); the worker's position says how much of the batch
that is (`BatchShape`); it is gone only with the flag set and the queue empty
(`GoneIsEmpty`), which stays so because nothing is pushed behind the flag; a
`stop()` that has joined implies that it is gone (`JoinedIsGone`). `TakeFacts`
is the lemma about cutting a batch from the queue: nobody falls between the two.
For the refinement, the unanswered rest of the batch and the queue behind it are
one line, the `waiting` of `Batches`. Taking a batch leaves the line as it is
(`TakeMovesNobody`), a push appends (`PushAppends`), a value goes to the head
(`NextIsOldest`), a failed batch is the first part (`BatchIsFront`). It takes
three more invariants: who has not pushed has no answer and stands nowhere
(`Fresh`), a failure finds somebody unanswered (`FailedShape`), and a batch
is within the limit (`BatchFits`).

`GemmProofs` holds for every problem with integer elements (`ProblemAssumption`:
operands that fit have as many elements as their sizes say), every tile and
number of lanes but 0, any finite set of pool threads and any thresholds.
`RangesPartition` is about `ParallelFor` alone, for every count, chunk, number of
workers and place of the caller.

| Theorem | States |
| --- | --- |
| `RangesPartition` | the ranges are nonempty, disjoint, and cover `0 .. count - 1` |
| `ProductsAreRight` | `Spec => []ProductIsRight` |

The argument. *Ranges*: a chunk rounded up reaches: shards times chunk is at
least the count (`CeilDivReaches`), so the index `i` lies in the range of the
shard `i \div chunk`, which exists; ranges of different shards start at different
multiples of the chunk, at least a chunk apart (`Monotone`). *Sums*: a loop over
`k` is the function `Sum`, whose values exist and are unique (`SumsExist`,
`SumsAgree`, by induction over a set, `Induct`); sums split, shift and add
(`SumSplit`, `SumShift`, `SumAdd`), so the lanes add up what one loop does
(`LanesAdd`). *Tiles*: at every moment an element of a range's rows is the sum of
its first products, and `Reach` says how many from the tile the range is at: all
of them in rows above the tile, none below it, in its own rows as far as the tile
goes left of it and as far as it starts elsewhere (`Accumulated`). Adding a tile
moves that to the next column of tiles (`TileAdded`), and the loop's next tile is
where it already stands (`AdvanceKeeps`). For the packed kernel `PackedA` and
`PackedB` say that the buffers of the range's thread hold the operands' elements
of the tile, ragged or not; the buffers are large enough, and a quotient and a
remainder find each element (`DivMod`). *Threads*: ranges share no row
(`RowsLieApart`) and working ranges no thread, so a step of one leaves what is
known of the others (`OthersKept`, `StepKeeps`).

`PoolAllocatorProofs` holds for every set of sizes, every alignment and size of
a chunk, any number of chunks and any finite set of tensors.

| Theorem | States |
| --- | --- |
| `BlocksStayApart` | `Spec => []BlocksLieApart` |
| `BlocksAreOwned` | `Spec => []OwnedOrFree` |
| `PoolStopsGrowing` | `Spec => []NoGrowthAfterWarmUp` |

The argument. Blocks are cut upwards from the cursor, so those of the newest
chunk end below it (`BlockInv`), the cursor and what remains add up to the chunk
(`CursorInv`), and a new block lies behind all others (`Apart`). Cutting keeps
the cursor aligned because a size class is a multiple of the alignment:
`sizeClass` rounds up to a power of two and then to the alignment, and rounding
what it returned changes nothing. That is why a block that is given back under
the *tensor's* size comes to the list of its own class: `Owned` ties each holder
to the class of its size. It is stated over holders (tensors, and buffers on
their way from one tensor to another), free lists and cut blocks, and each
operation of a tensor is a composition of few moves: drop a buffer, take one,
hand it over. `DoingInv` says what a tensor holds in the middle of an
assignment, where the pool is unlocked and others run. For
`PoolStopsGrowing`, a class is cut only when its free list is empty, so all its
blocks are in use; that their number is the number in use then is the counting
half. Exponentiation is opaque to the provers: `PowerAssumption` states the two
facts of arithmetic that are needed (`2 ^ b > b`, powers of two are positive),
and TLC evaluates it on the instance. The bookkeeping of `stats` is a sum over
the tensors, hence an induction, and is not part of the invariant; nothing in
the three properties depends on it.

The theorems about `HttpServer`, the first part of `FrontEndProofs`, hold for
every finite set of connections, everything their clients may send, all limits, sizes of a chunk and feature counts, with any
client hanging up and a `stop()` at any time.

| Theorem | States |
| --- | --- |
| `ResponsesAreAsSpecified` | `Spec => []AsSpecified` |
| `InferencesAreCounted` | `Spec => []EachInferenceCounted` |
| `BuffersStayBounded` | `Spec => []BuffersBounded` |
| `SocketsAreOwn` | `Spec => OwnSocket` |

The argument. The invariant has two halves. `TrafficInv` says what is known of a
connection at each place of its handler (`ConnInv`): before the head is
complete the buffer is within the limit, in the body the lengths were accepted,
while it waits its answer is the batcher's, and with a status it is `Judged`, by
its own message and its own answer, in one of the ways `handleClient` has. That
answers do not go to somebody else needs that the batcher's line names each
connection once and only those that wait (`WaitingInv`). The counters are
cardinalities of sets of connections, and `ReplyCounted` is the lemma on what
one reply adds to them. `ServerInv` is about descriptors: each one refers to the
listening socket, which is 0, or to a live connection that has it as its own
(`SocketInv`), so a new one is nobody else's (`LowestFreeIsFree`, a counting
argument). A handler may find its connection closed by somebody else only after
`run` has left its loop, and `ListenInv` is what excludes it otherwise: while
the loop runs and no `stop` has closed it, descriptor 0 is the listening socket.
After the loop, as long as another thread's `stop()` has yet to close, descriptor
0 is nobody's, so neither close hits a connection; and once a `stop()` has
returned `listenSocket_` is forgotten, so no test leads to a close any more. What
is left is what `OwnSocketStep` excepts: a `run` whose test fell between the other
thread's `close` and its assignment, and whose own `close` may come any time after.
`OwnSocketStep` is then a property of each step. The assumptions are that
connections are finitely many and not the listening socket (`ConnAssumption`)
and that messages have the shape `Traffic` describes, with a head that is not
empty (`TrafficAssumption`).

The theorems about `ModelFile` and `CommandLine`, the second part of
`FrontEndProofs`, hold for any models, files, command lines, configuration files,
datasets, limits and sweeps that meet the assumptions below.

| Theorem | States |
| --- | --- |
| `LoadIsRoundTrip` | `CommandSpec => []RoundTrip` |
| `ReportsAreTrue` | `CommandSpec => []ReportIsTrue` |

`ModelAssumption` is what the C++ types give: finite maps, vectors, a tensor with
as many elements as its dimensions say (`computeSize`), unless it has none. One
clause is more than that: each node is in the insertion order once, which fails
for a graph with two nodes of one name (the hazard at `graph.cpp:17`).
`OtherAssumption`: a foreign file differs in magic or version, or is shorter than
a header. A foreign file that begins as a model file does is not covered.
`SweepsAssumption` is the literal list in `runBench`: batch 1 under the configured
limit, then larger ones with the limit raised; no batch exceeds `kMaxBatchSize`.
`CommandAssumption` and `ConfigAssumption` say that options, records and lines
are sequences and that a number after `--batch` is an integer. All are evaluated by
`mccommandline`.

*Round trip.* `Layout` says where each part of a model stands in what `save`
writes: places for every initializer, node, attribute and name, in whatever order
the maps were written, each ending where the next begins. It exists for every
model and order (`LayoutExists`), because a sequence of pieces joined together
has each piece at the place that the lengths before it add up to (`FlattenIs`,
`FlattenSpreads`; by induction over a set of numbers, `Induct`). A file is a prefix
of that (`PrefixOf`), so whatever `load` reads within it is what was written
there (`NamesRead`, `ItemsRead`), and whatever lies beyond its end makes `load`
throw, which is right because the file was cut. `Loading` is the invariant:
`load` stands at the place of the i-th initializer, k-th node or j-th attribute,
with the count of the rest in hand and exactly the parts before it built. The
maps it builds do not depend on the order, since each name is listed once
(`PartMore`, `PartAll`). The last name of the file has to be read for `load` to
succeed, so a cut file, even by one item, is never taken for a model.

*Report.* Once the options are accepted the batch is at least 1 and within
the limit, whichever came first (`OptionsDoneStep`): a configuration file
replaces the limit, not the batch, and the limit is raised at the end. `CliInv`
carries that to every batch of every engine (`BatchFits`), so none is refused, and
says that in mid-evaluation `correct` is the number of right samples up to
`offset` (`RightUpTo`). A batch adds the right ones among the next
`min(batch, rest)` (`BatchCounted`, a bijection between rows of the batch and
samples), each row judged by its own label; the last batch may overshoot the
dataset, and then `RightUpTo` is all of it. The engine's model is the saved one
because it evaluates only after a load that returned (`SavedIsLoaded`), which
is `LoadIsRoundTrip`'s invariant.

`SessionProofs` holds for every set of models the loader may build (with an
input and an output, of any size), every set of passes, sequential and parallel,
any order in which the hash map yields children and any number of runs.

| Theorem | States |
| --- | --- |
| `PlansAreSchedules` | `Spec => []PlanIsSchedule` |
| `NodesDoNotRace` | `Spec => []NoRace`: no node executes while one whose output it reads executes |
| `OptimizationIsSound` | `Spec => []OptimizerPreserves` |
| `SoundModelsAreAccepted` | `Spec => AcceptsSound` |
| `RunsAreRight` | `Spec => []RunIsRight` |

The argument. *Schedule*: a node is appended to `post` only when all its
children are there, and what is on the stack is not in `post` (`SearchInv`), so
`post` reversed is a topological order. The levels solve their recursion
(`LevelsExist`: a least counterexample would have levels below it), and each is
above those of the nodes that feed it (`LevelsRise`); hence two nodes of one
level never feed each other, which is `NodesDoNotRace`. *Meaning*: a *valuation*
gives every name its value for an input. Where two of them are right they agree
(`ValuesAgree`: the nodes where they differ would each read from another such
node, a cycle), a sound model has one (`ValuationExists`: if the largest set of
nodes that has one were not all, some node outside reads only from inside), and
it is what the recursion in `Meaning` computes (`MeaningIs`). *Optimizer*: each
rewrite keeps the model sound and turns a valuation into one of the rewritten
model that agrees at the declared outputs: eliminating forgets the value of a
name nobody reads, folding turns it into an initializer, fusing forgets the
value between the pair, which only the pair reads and which is no output.
*Acceptance*: rewrites leave no name without a source; the stack is a path of
the graph (`PathInv`), so a child met on the stack closes a cycle (`PathCloses`).
*Runs*: while a level executes, the slots that earlier levels wrote agree with
the valuation of this run's input, so do those of nodes of this level that ended
without throwing, and what the executing nodes have read (`ProgressInv`); the
slot of an initializer is never written (`StoreInv`). At the end without a throw
all slots agree, and the optimizer carries the result over to the model as
loaded. Soundness is needed where the theorems say so: with two writers of a
name, or a cycle, the code promises nothing.

Checked by TLC only: the liveness properties (`JobEnds`, `WorkersStop`,
`CallReturns`, `CallsReturn`, `DestroyReturns`, `EveryRequestAnswered`,
`StopReturns`, `HandlersEnd`), because fairness and
ENABLED are beyond the prover. Every safety property of a passing run is a theorem
for all values of the constants. Induction over data is within reach where it can
be put as induction over a set of numbers: the sums of `Gemm` and of `Shuffle`,
the groups, the turns of a merge, the pass over lines, the pieces of a model file
and the lines of a configuration are recursive functions of numbers.

## 5. What the violated runs show

Each states what a comment, test or document of the repository says; `findings`
in `PROJECT.json` quotes it and tells the story.

- `mcspillrace`: spill files carry the task and not the attempt in their names;
  overlapping attempts with different `-spill-bytes` mix their runs. With equal
  sizes the runs are the same bytes and `mcshuffle` passes.
- `mchttpcut`: a body that ends early is used as far as it came
  (`http_server.cpp:214-219`); a float body cut to a quarter is a body of pixels
  to `handleInfer`.

Further disagreements between text and code, noted while modelling, for which
there is no run:

- `coordinator.go:173-174` says a normal shutdown never looks like a dropped
  connection; a worker that registers after the last look of `DrainWorkers` is
  left polling. It stops anyway, by `isDisconnect`, as `WorkersStop` shows.
- `worker.go:73-75` says the coordinator only goes away once the job is over. When
  a later `cmd.Start` fails `runCluster` returns at once (`mapreduce.go:172-174`)
  and takes the coordinator away from the processes already started; they stop as
  if the job were over, and may write an output after the error was returned.
- `dynamic_batcher.cpp:75-86` answers first and counts afterwards;
  `test_dynamic_batcher.cpp:32-33` expects the count right after the last answer.
- `graph_optimizer.cpp:3-5` says passes run to a fixpoint in the order fuse, fold,
  eliminate; `run` goes once through fold, fuse, eliminate, and the last may
  expose a pair that could be fused.
- `gemm.h:11-12` says `Auto` picks between the tiled and the packed kernel; small
  products take the reordered one (`gemm.cpp:204`).
- `model_loader.cpp` writes a tensor of rank 0 without its element, and `load`
  then refuses or misreads the file; attributes of one name keep the first value
  (`emplace`), initializers the last.
- `config.cpp:80` casts the port to `int` before `validate` looks at it: one
  beyond 2^32 may pass.
- `http_server.cpp:169` looks at the limit on the head only while the blank line
  is missing, so a head may be a chunk longer than `kMaxHeaderBytes`.
- `thread_pool.cpp:3-5` speaks of the first exception; the caller's own is
  preferred even if one of the pool's came first (lines 109-110).
- `dynamic_batcher.cpp:3-5` says an exception is forwarded to every waiter; if
  some promise of the batch has its value already, `set_exception` throws and
  ends the process.
- `graph.cpp:3-5` claims detection of cycles; a node that reads its own output
  has no edge to itself and passes. `prepare()` does not check that output
  names are distinct (`inference_session.cpp:6-9`).
- `reducer.go:8-10` and the README ("Streaming reduce") say the values of a key
  are never all in memory; `Run` collects them in `groupIterator.values` before
  it calls `Reduce`.
- `mapreduce/README.md:102-104` says the late report of the losing attempt is
  rejected "so output is written once"; the loser has renamed its output by
  then. The content is the same, so nothing is lost.
- `runCluster` derives its deadline from `len(cfg.InputDir)`, the length of a
  path.

## 6. Not modelled, and why

The record format (a byte-level conversion), `SplitFiles` and `ListInputFiles`
(one pass over a listing); the elementwise operators and all floating-point
rounding (`Gemm` is exact, on integers); `run` and `inspect` of the command line,
timing, printing, profiler and scripts (I/O); `cpuOptions` and
`optimizerOptions` (copies of fields); `Status`, `metricsJson` and logging (read
only). Size arithmetic near 2^64 in the allocator and in tensor shapes is left
out: sizes are unbounded here, and no caller comes near. Element access of
tensors is left out. Failures of `socket`, `bind`, `listen` and of creating a
thread are left out, as are objects read after their destruction at the end of
`serve`. A model file with two nodes of one name, after which edges refer to a
node that is gone (`graph.cpp:17`), is a hazard outside the models.

## 7. Plan

1. Done: coordinator with its promise and proofs; cluster; shuffle; thread pool
   and batcher, each with first proofs; arena; optimizer and session.
2. Done: the server on top of the batcher's promise, and the batcher shown to
   implement it, by TLC and by proof; `parallelFor`, proved, and GEMM on top of
   it; model file, configuration and the evaluating commands.
3. `Record`: escaping as a pure function against its inverse, over short strings
   of separators and plain characters; `SplitFiles`: splits cover the input.
4. An abstract parallel call for `ThreadPool`; `Gemm` as its client.
5. Proofs: done for `Cluster`, `Shuffle` with what its files hold, `ThreadPool`,
   `PoolAllocator`, `HttpServer`, `InferenceSession` with the optimizer, `Gemm`,
   `ModelFile` and `CommandLine`, and for the two first components.
