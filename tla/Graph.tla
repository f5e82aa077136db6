--------------------------------- MODULE Graph ---------------------------------
(***************************************************************************)
(* A loaded model and the operations of the inference engine's graph on    *)
(* it: inference-engine/engine/src/graph/graph.cpp, the rewrites of        *)
(* graph_optimizer.cpp, and what the CPU provider's kernels compute.       *)
(*                                                                         *)
(* A model is a record: nodes, in insertion order; init, the initializers; *)
(* inputs and outputs, the tensor names the graph declares.  A node has a  *)
(* name, an op, the tensors it reads and the tensor it writes (prepare()   *)
(* refuses nodes with any other number of outputs).  A tensor's value is a *)
(* term: the op that made it and the terms it was made from.               *)
(***************************************************************************)
EXTENDS Naturals, Sequences, FiniteSets, SequencesExt, FiniteSetsExt

Term(op, args) == <<op, args>>

OpType == {"Flatten", "Gemm", "Relu", "Add", "GemmRelu", "Unknown"}

\* A node as it is built from a model file: opTypeFromString of an op it does
\* not know is Unknown.
Node(name, op, ins, out) ==
  [name |-> name, op |-> IF op \in OpType THEN op ELSE "Unknown", ins |-> ins, out |-> out]

Model(nodes, init, inputs, outputs) ==
  [nodes |-> nodes, init |-> init, inputs |-> inputs, outputs |-> outputs]

\* supports() of the CPU provider.
Supports(op) == op \in OpType \ {"Unknown"}

\* compute() of the CPU provider: GemmRelu is Relu of Gemm.
Compute(op, args) ==
  CASE op = "GemmRelu" -> Term("Relu", <<Term("Gemm", args)>>)
    [] op \in {"Relu", "Flatten"} -> Term(op, <<args[1]>>)
    [] OTHER -> Term(op, args)

--------------------------------------------------------------------------------

(***************************************************************************)
(* Edges: a node's output name matched against the inputs of the others.   *)
(***************************************************************************)
Reads(node, name) == name \in ToSet(node.ins)
Feeds(a, b) == a # b /\ Reads(b, a.out)
Parents(m, node) == {p \in ToSet(m.nodes) : Feeds(p, node)}
Children(m, node) == {c \in ToSet(m.nodes) : Feeds(node, c)}

RemoveNode(m, node) == [m EXCEPT !.nodes = RemoveFirst(@, node)]

\* The first node of nodesInInsertionOrder that passes a test.
First(m, Test(_)) == m.nodes[SelectInSeq(m.nodes, Test)]

\* Seeded fault: a node shares the level of its parents.
LevelOfParents(order) ==
  LET level[i \in DOMAIN order] ==
        LET above == {j \in 1 .. i - 1 : Feeds(order[j], order[i])} IN
        IF above = {} THEN 1 ELSE Max({level[j] : j \in above})
  IN level

(***************************************************************************)
(* executionLevels: one more than the highest level among the parents that *)
(* come earlier in the topological order.                                  *)
(***************************************************************************)
LevelOf(order) ==
  LET level[i \in DOMAIN order] ==
        LET above == {j \in 1 .. i - 1 : Feeds(order[j], order[i])} IN
        IF above = {} THEN 1 ELSE 1 + Max({level[j] : j \in above})
  IN level

ExecutionLevels(order) ==
  LET level == LevelOf(order) IN
  IF order = <<>> THEN <<>>
  ELSE [k \in 1 .. Max({level[i] : i \in DOMAIN order}) |->
          {order[i] : i \in {j \in DOMAIN order : level[j] = k}}]

--------------------------------------------------------------------------------

(***************************************************************************)
(* The rewrites of GraphOptimizer, one at a time: each pass repeats its    *)
(* rewrite on the first node that allows it.                               *)
(***************************************************************************)
Foldable(m, node) ==
  /\ Supports(node.op)
  /\ node.ins # <<>>
  /\ ToSet(node.ins) \subseteq DOMAIN m.init

Fold(m) ==
  LET node == First(m, LAMBDA n : Foldable(m, n))
      value == Compute(node.op, [i \in DOMAIN node.ins |-> m.init[node.ins[i]]])
  IN [RemoveNode(m, node) EXCEPT
        !.init = [name \in DOMAIN m.init \cup {node.out} |->
                    IF name = node.out THEN value ELSE m.init[name]]]

\* Seeded fault: the producer may have other readers.
FusableShared(m, node) ==
  /\ node.op = "Relu"
  /\ Len(node.ins) = 1
  /\ Cardinality(Parents(m, node)) = 1
  /\ \A parent \in Parents(m, node) :
       parent.op = "Gemm" /\ parent.out \notin ToSet(m.outputs)

Fusable(m, node) ==
  /\ node.op = "Relu"
  /\ Len(node.ins) = 1
  /\ Cardinality(Parents(m, node)) = 1
  /\ \A parent \in Parents(m, node) :
       /\ parent.op = "Gemm"
       /\ Cardinality(Children(m, parent)) = 1
       /\ parent.out \notin ToSet(m.outputs)

Fuse(m) ==
  LET relu == First(m, LAMBDA n : Fusable(m, n))
      fused(n) == IF n \in Parents(m, relu)
                  THEN [n EXCEPT !.op = "GemmRelu", !.out = relu.out] ELSE n
      rest == RemoveNode(m, relu)
  IN [rest EXCEPT !.nodes = [i \in DOMAIN rest.nodes |-> fused(rest.nodes[i])]]

Dead(m, node) ==
  /\ \A n \in ToSet(m.nodes) : ~ Reads(n, node.out)
  /\ node.out \notin ToSet(m.outputs)

Eliminate(m) == RemoveNode(m, First(m, LAMBDA n : Dead(m, n)))

Applies(m, pass) ==
  \E node \in ToSet(m.nodes) :
    CASE pass = "fold" -> Foldable(m, node)
      [] pass = "fuse" -> Fusable(m, node)
      [] pass = "eliminate" -> Dead(m, node)

Rewrite(m, pass) ==
  CASE pass = "fold" -> Fold(m)
    [] pass = "fuse" -> Fuse(m)
    [] pass = "eliminate" -> Eliminate(m)

--------------------------------------------------------------------------------

(***************************************************************************)
(* The reference: what a model denotes, independent of any schedule.       *)
(***************************************************************************)
\* Every tensor name has one source.
SingleSource(m) ==
  LET sources == [i \in DOMAIN m.nodes |-> m.nodes[i].out] IN
  /\ \A i, j \in DOMAIN sources : i # j => sources[i] # sources[j]
  /\ ToSet(sources) \cap (DOMAIN m.init \cup ToSet(m.inputs)) = {}
  /\ DOMAIN m.init \cap ToSet(m.inputs) = {}

\* Some nodes each read what one of them writes.
Cyclic(m) ==
  \E loop \in (SUBSET ToSet(m.nodes)) \ {{}} :
    \A n \in loop : \E p \in loop : Reads(n, p.out)

Unknown == Term("unknown", <<>>)

\* The value of a tensor of an acyclic, single-source model for an input.
Meaning(m, input, tensorName) ==
  LET value[name \in STRING] ==
        IF name = m.inputs[1] THEN input
        ELSE IF name \in DOMAIN m.init THEN m.init[name]
        ELSE IF ~ \E n \in ToSet(m.nodes) : n.out = name THEN Unknown
        ELSE LET node == CHOOSE n \in ToSet(m.nodes) : n.out = name IN
             Compute(node.op, [i \in DOMAIN node.ins |-> value[node.ins[i]]])
  IN value[tensorName]

================================================================================
