--------------------------- MODULE InferenceSession ---------------------------
(***************************************************************************)
(* inference-engine/engine/src/runtime/inference_session.cpp: prepare(),   *)
(* with the optimizer passes and the depth-first topologicalSort of        *)
(* graph.cpp, and run(), which walks the order or runs the nodes of each   *)
(* level concurrently (ThreadPool::runAll returns once all of them ended). *)
(*                                                                         *)
(* A node that executes is two steps: it reads from the first to the       *)
(* second, and its result is in its slot after the second.  A kernel may   *)
(* throw (operand shapes that do not fit).                                 *)
(***************************************************************************)
EXTENDS Graph

CONSTANTS
  Models,    \* the models that may be loaded
  Passes,    \* the optimizer passes switched on, {} for graphOptimization off
  Parallel,  \* the values that "parallel" may have in run()
  Batches,   \* names of the input tensors that run() is called with
  MaxRuns    \* bound: calls of run()

\* What the loader builds, with an input and an output: prepare() refuses others.
IsNode(n) == n \in [name : {n.name}, op : OpType, ins : Seq(STRING), out : STRING]

IsModel(m) ==
  /\ m \in [nodes : Seq(ToSet(m.nodes)), init : {m.init}, inputs : Seq(STRING), outputs : Seq(STRING)]
  /\ \A n \in ToSet(m.nodes) : IsNode(n)
  /\ m.init = [name \in DOMAIN m.init |-> m.init[name]] /\ DOMAIN m.init \subseteq STRING
  /\ m.inputs # <<>> /\ m.outputs # <<>>

ASSUME ModelsAssumption == \A m \in Models : IsModel(m)
ASSUME PassesAssumption == Passes \subseteq {"fold", "fuse", "eliminate"}
ASSUME ParallelAssumption == Parallel \subseteq BOOLEAN
ASSUME MaxRunsAssumption == MaxRuns \in Nat

VARIABLES
  loaded,   \* the model as it was loaded
  parallel, \* interOpParallel, with a provider that has a thread pool
  model,    \* model_
  stage,    \* where prepare() is; "ready", "refused", "running" afterwards
  visited,  \* topologicalSort: visited,
  stack,    \*   the nodes on the stack,
  post,     \*   and order before it is reversed
  tensors,  \* the tensor store
  plan,     \* levels_, or order_ as levels of one node
  level,    \* the level run() is at
  pending,  \* its nodes that have not begun
  active,   \* those that execute, with the inputs they have read
  threw,    \* one of them threw
  input,    \* the input of the current or last run
  last,     \* how the last run ended: "none", "ok", "error"
  runs      \* calls of run() so far

vars == <<loaded, parallel, model, stage, visited, stack, post, tensors, plan, level,
          pending, active, threw, input, last, runs>>

loadVars == <<loaded, parallel, model, visited, stack, post, plan>>
runVars == <<tensors, level, pending, active, threw, input, last, runs>>

PassOrder == <<"fold", "fuse", "eliminate">>
Stages == ToSet(PassOrder) \cup {"sort", "check", "ready", "running", "refused"}

TypeOK ==
  /\ loaded \in Models
  /\ parallel \in Parallel
  /\ stage \in Stages
  /\ Cardinality(visited) = Len(post) /\ visited = ToSet(post)
  /\ ToSet(stack) \cap visited = {}
  /\ stage \in {"ready", "running"} =>
       ToSet(post) = ToSet(model.nodes) /\ Len(post) = Len(model.nodes)
  /\ last \in {"none", "ok", "error"}
  /\ runs \in 0 .. MaxRuns
  /\ threw \in BOOLEAN

Init ==
  /\ loaded \in Models
  /\ parallel \in Parallel
  /\ model = loaded
  /\ stage = "fold"
  /\ visited = {} /\ stack = <<>> /\ post = <<>>
  /\ tensors = <<>>
  /\ plan = <<>> /\ level = 0 /\ pending = {} /\ active = {} /\ threw = FALSE
  /\ input = Unknown
  /\ last = "none"
  /\ runs = 0

--------------------------------------------------------------------------------

(***************************************************************************)
(* prepare(): GraphOptimizer::run.                                         *)
(***************************************************************************)
NextStage(s) == CASE s = "fold" -> "fuse" [] s = "fuse" -> "eliminate" [] OTHER -> "sort"

RewriteOne ==
  /\ stage \in Passes
  /\ Applies(model, stage)
  /\ model' = Rewrite(model, stage)
  /\ UNCHANGED <<loaded, parallel, stage, visited, stack, post, plan, runVars>>

\* Folding runs the kernel, which may throw out of prepare().
FoldThrows ==
  /\ stage = "fold" /\ stage \in Passes
  /\ Applies(model, stage)
  /\ stage' = "refused"
  /\ UNCHANGED <<loadVars, runVars>>

PassOver ==
  /\ stage \in ToSet(PassOrder)
  /\ stage \in Passes => ~ Applies(model, stage)
  /\ stage' = NextStage(stage)
  /\ UNCHANGED <<loadVars, runVars>>

(***************************************************************************)
(* prepare(): topologicalSort.  The children of a node are visited in no   *)
(* particular order (nodeMap_ is a hash map).                              *)
(***************************************************************************)
Unvisited(i) == i \in DOMAIN model.nodes /\ model.nodes[i] \notin visited

VisitRoot ==
  /\ stage = "sort"
  /\ stack = <<>>
  /\ \E i \in DOMAIN model.nodes :
       /\ Unvisited(i) /\ \A j \in 1 .. i - 1 : ~ Unvisited(j)
       /\ stack' = <<model.nodes[i]>>
  /\ UNCHANGED <<loaded, parallel, model, stage, visited, post, plan, runVars>>

\* Seeded fault: a node reached a second time is taken for a cycle.
VisitChildOnce ==
  /\ stage = "sort"
  /\ stack # <<>>
  /\ \E child \in Children(model, Last(stack)) :
       IF child \in ToSet(stack) \cup visited
       THEN stage' = "refused" /\ UNCHANGED stack
       ELSE stack' = Append(stack, child) /\ UNCHANGED stage
  /\ UNCHANGED <<loaded, parallel, model, visited, post, plan, runVars>>

VisitChild ==
  /\ stage = "sort"
  /\ stack # <<>>
  /\ \E child \in Children(model, Last(stack)) \ visited :
       IF child \in ToSet(stack)
       THEN stage' = "refused" /\ UNCHANGED stack
       ELSE stack' = Append(stack, child) /\ UNCHANGED stage
  /\ UNCHANGED <<loaded, parallel, model, visited, post, plan, runVars>>

LeaveNode ==
  /\ stage = "sort"
  /\ stack # <<>>
  /\ Children(model, Last(stack)) \subseteq visited
  /\ visited' = visited \cup {Last(stack)}
  /\ post' = Append(post, Last(stack))
  /\ stack' = Front(stack)
  /\ UNCHANGED <<loaded, parallel, model, stage, plan, runVars>>

\* The order is complete, and the levels follow from it.
Order == Reverse(post)

SortDone ==
  /\ stage = "sort"
  /\ stack = <<>> /\ \A i \in DOMAIN model.nodes : ~ Unvisited(i)
  /\ plan' = IF parallel THEN ExecutionLevels(Order)
             ELSE [i \in DOMAIN Order |-> {Order[i]}]
  /\ stage' = "check"
  /\ UNCHANGED <<loaded, parallel, model, visited, stack, post, runVars>>

(***************************************************************************)
(* prepare(): the checks, and the tensor store with a slot per name.       *)
(***************************************************************************)
Outs == {n.out : n \in ToSet(model.nodes)}
Slots == DOMAIN model.init \cup {model.inputs[1]} \cup Outs
Empty == Term("empty", <<>>)

Runnable ==
  /\ \A n \in ToSet(model.nodes) : Supports(n.op) /\ ToSet(n.ins) \subseteq Slots
  /\ model.outputs[1] \in Slots

Check ==
  /\ stage = "check"
  /\ IF Runnable
     THEN /\ stage' = "ready"
          /\ tensors' = [s \in Slots |-> IF s \in DOMAIN model.init THEN model.init[s] ELSE Empty]
     ELSE /\ stage' = "refused"
          /\ UNCHANGED tensors
  /\ UNCHANGED <<loadVars, level, pending, active, threw, input, last, runs>>

--------------------------------------------------------------------------------

(***************************************************************************)
(* run().                                                                  *)
(***************************************************************************)
StartLevel(k) ==
  /\ level' = k
  /\ pending' = IF k \in DOMAIN plan THEN plan[k] ELSE {}

RunBegin ==
  /\ stage = "ready"
  /\ runs < MaxRuns
  /\ runs' = runs + 1
  /\ \E batch \in Batches : input' = Term(batch, <<>>)
  /\ tensors' = [tensors EXCEPT ![model.inputs[1]] = input']
  /\ StartLevel(1)
  /\ stage' = "running"
  /\ UNCHANGED <<loadVars, active, threw, last>>

\* executeNode, once the inputs are gathered ...
NodeBegin(node) ==
  /\ stage = "running"
  /\ node \in pending
  /\ pending' = pending \ {node}
  /\ active' = active \cup
       {[node |-> node, args |-> [i \in DOMAIN node.ins |-> tensors[node.ins[i]]]]}
  /\ UNCHANGED <<loadVars, stage, tensors, level, threw, input, last, runs>>

\* ... and once the kernel is done or has thrown.
NodeEnd(a) ==
  /\ a \in active
  /\ active' = active \ {a}
  /\ \/ tensors' = [tensors EXCEPT ![a.node.out] = Compute(a.node.op, a.args)] /\ UNCHANGED threw
     \/ threw' = TRUE /\ UNCHANGED tensors
  /\ UNCHANGED <<loadVars, stage, level, pending, input, last, runs>>

\* Seeded fault: the next level starts while nodes of this one still execute.
LevelDoneEarly ==
  /\ stage = "running"
  /\ level \in DOMAIN plan
  /\ pending = {}
  /\ ~ threw
  /\ StartLevel(level + 1)
  /\ UNCHANGED <<loadVars, stage, tensors, active, threw, input, last, runs>>

LevelDone ==
  /\ stage = "running"
  /\ level \in DOMAIN plan
  /\ pending = {} /\ active = {}
  /\ ~ threw
  /\ StartLevel(level + 1)
  /\ UNCHANGED <<loadVars, stage, tensors, active, threw, input, last, runs>>

RunEnd ==
  /\ stage = "running"
  /\ pending = {} /\ active = {}
  /\ threw \/ level \notin DOMAIN plan
  /\ last' = IF threw THEN "error" ELSE "ok"
  /\ threw' = FALSE
  /\ stage' = "ready"
  /\ UNCHANGED <<loadVars, tensors, level, pending, active, input, runs>>

--------------------------------------------------------------------------------

Prepare ==
  \/ RewriteOne \/ FoldThrows \/ PassOver
  \/ VisitRoot \/ VisitChild \/ LeaveNode \/ SortDone
  \/ Check

RunOn ==
  \/ \E node \in pending : NodeBegin(node)
  \/ \E a \in active : NodeEnd(a)
  \/ LevelDone \/ RunEnd

Next == Prepare \/ RunBegin \/ RunOn

Spec == Init /\ [][Next]_vars

--------------------------------------------------------------------------------

Sound(m) == SingleSource(m) /\ ~ Cyclic(m)
Result == tensors[model.outputs[1]]

(***************************************************************************)
(* No rewrite of the optimizer changes what the model computes for any of  *)
(* its declared outputs, whatever pass it belongs to and whatever the      *)
(* earlier rewrites have exposed.                                          *)
(***************************************************************************)
OptimizerPreserves ==
  Sound(loaded) =>
    /\ Sound(model)
    /\ \A i \in DOMAIN loaded.outputs :
         LET Value(m) == Meaning(m, Term("any", <<>>), loaded.outputs[i]) IN
         Value(model) = Value(loaded)

(***************************************************************************)
(* The plan runs every node once and after all the nodes it reads from,    *)
(* so the nodes of a level are independent of each other, in whatever      *)
(* order the hash map yields the children.                                 *)
(***************************************************************************)
Position(n) == CHOOSE k \in DOMAIN plan : n \in plan[k]

PlanIsSchedule ==
  stage \in {"ready", "running"} =>
    /\ UNION {plan[k] : k \in DOMAIN plan} = ToSet(model.nodes)
    /\ \A j, k \in DOMAIN plan : j # k => plan[j] \cap plan[k] = {}
    /\ \A a, b \in ToSet(model.nodes) : Feeds(a, b) => Position(a) < Position(b)

(***************************************************************************)
(* A run that returns has computed what the model as loaded means for this *)
(* run's input: nothing is read before it was computed, and nothing an     *)
(* earlier run, or one that threw halfway, left in the store is read.      *)
(***************************************************************************)
RunIsRight ==
  Sound(loaded) /\ stage = "ready" /\ last = "ok" =>
    Result = Meaning(loaded, input, loaded.outputs[1])

(***************************************************************************)
(* prepare() refuses no model that is sound, complete and of known ops,    *)
(* except when folding one of its nodes throws.                            *)
(***************************************************************************)
Complete(m) ==
  LET names == {n.out : n \in ToSet(m.nodes)} \cup DOMAIN m.init \cup {m.inputs[1]} IN
  /\ \A n \in ToSet(m.nodes) : Supports(n.op) /\ ToSet(n.ins) \subseteq names
  /\ m.outputs[1] \in names

AcceptsSoundStep ==
  Sound(loaded) /\ Complete(loaded) /\ stage # "fold" => stage' # "refused"
AcceptsSound == [][AcceptsSoundStep]_vars

================================================================================
