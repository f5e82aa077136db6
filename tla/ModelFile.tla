------------------------------- MODULE ModelFile -------------------------------
(***************************************************************************)
(* The OIEN file of inference-engine/engine/src/model/model_loader.cpp:    *)
(* save writes a model to a file, which may stop short (a crash, or a full *)
(* disk: the stream is never looked at again), and load reads it section   *)
(* by section and adds what it finds to a new model.                       *)
(*                                                                         *)
(* A file is a sequence of items: numbers, and strings with the length in  *)
(* front of them.  An item that is cut is as good as missing.  Maps are    *)
(* written in any order, as their iteration gives it.                      *)
(***************************************************************************)
EXTENDS Integers, SequencesExt

CONSTANTS
  SavedModel,  \* models that are saved: initializers, a function of names to
               \* dims and data; node, a function of names to op, inputs,
               \* outputs and attrs; order, the insertion order; inputs; outputs
  OtherFile,   \* files that save did not write
  Magic, Version

VARIABLES
  saved,    \* the model that was saved
  file,     \* the file
  written,  \* "other", or by save, "cut" or "whole"
  load,     \* where load is: at "closed", "initializers", "nodes", "attributes",
            \* "loaded", "failed"; the place in the file, and the items left
  model     \* the model it builds

fileVars == <<saved, file, written, load, model>>

EmptyModel == [initializers |-> << >>, node |-> << >>, order |-> << >>, inputs |-> << >>, outputs |-> << >>]

FileInit ==
  /\ saved = EmptyModel /\ written = "other"
  /\ file \in OtherFile
  /\ load = [at |-> "closed", pos |-> 0, left |-> 0, attrs |-> 0, node |-> << >>]
  /\ model = EmptyModel

\* insert_or_assign, emplace
Assign(map, key, value) == [k \in DOMAIN map \cup {key} |-> IF k = key THEN value ELSE map[k]]
Emplace(map, key, value) == IF key \in DOMAIN map THEN map ELSE Assign(map, key, value)

\* The elements there should be; one without dimensions, where the tensor has none.
Elements(dims) == FoldSeq(LAMBDA d, t : d * t, 1, dims)

IsTensor(t) ==
  /\ t = [dims |-> t.dims, data |-> t.data]
  /\ t.dims \in Seq(Nat) /\ t.data \in Seq(ToSet(t.data))
  /\ t.dims # << >> => Len(t.data) = Elements(t.dims)

IsAttribute(a) ==
  /\ a = [tag |-> a.tag, value |-> a.value]
  /\ a.tag \in {"int", "float", "ints"}
  /\ a.tag = "ints" => a.value \in Seq(ToSet(a.value))

IsNode(n) ==
  /\ n = [op |-> n.op, inputs |-> n.inputs, outputs |-> n.outputs, attrs |-> n.attrs]
  /\ n.inputs \in Seq(ToSet(n.inputs)) /\ n.outputs \in Seq(ToSet(n.outputs))
  /\ n.attrs = [x \in DOMAIN n.attrs |-> n.attrs[x]] /\ IsFiniteSet(DOMAIN n.attrs)
  /\ \A x \in DOMAIN n.attrs : IsAttribute(n.attrs[x])

\* What a Model can hold; each node is in the order once.
IsModel(m) ==
  /\ m = [initializers |-> m.initializers, node |-> m.node, order |-> m.order,
          inputs |-> m.inputs, outputs |-> m.outputs]
  /\ m.initializers = [x \in DOMAIN m.initializers |-> m.initializers[x]]
  /\ m.node = [x \in DOMAIN m.node |-> m.node[x]]
  /\ IsFiniteSet(DOMAIN m.initializers)
  /\ \A x \in DOMAIN m.initializers : IsTensor(m.initializers[x])
  /\ \A x \in DOMAIN m.node : IsNode(m.node[x])
  /\ m.order \in Seq(DOMAIN m.node) /\ ToSet(m.order) = DOMAIN m.node /\ IsInjective(m.order)
  /\ m.inputs \in Seq(ToSet(m.inputs)) /\ m.outputs \in Seq(ToSet(m.outputs))

ASSUME ModelAssumption == \A m \in SavedModel : IsModel(m)

\* What the header does not give away is beyond load.
ASSUME OtherAssumption ==
  \A f \in OtherFile : ~ (Len(f) >= 3 /\ f[1] = Magic /\ f[2] = Version)

--------------------------------------------------------------------------------

(***************************************************************************)
(* save.                                                                   *)
(***************************************************************************)
Names(list) == <<Len(list)>> \o list

EncodeInitializer(name, tensor) == <<name>> \o Names(tensor.dims) \o tensor.data

EncodeAttribute(name, attr) ==
  <<name, attr.tag>> \o (IF attr.tag = "ints" THEN Names(attr.value) ELSE <<attr.value>>)

EncodeAttributes(attrs, order) ==
  <<Len(order)>> \o FlattenSeq([i \in DOMAIN order |-> EncodeAttribute(order[i], attrs[order[i]])])

\* Seeded fault: outputs come before inputs.
EncodeNodeSwapped(name, node, attrOrder) ==
  <<name, node.op>> \o Names(node.outputs) \o Names(node.inputs) \o EncodeAttributes(node.attrs, attrOrder)

EncodeNode(name, node, attrOrder) ==
  <<name, node.op>> \o Names(node.inputs) \o Names(node.outputs) \o EncodeAttributes(node.attrs, attrOrder)

\* The whole file, for an order of the initializers and of each node's attributes.
Encoded(m, order, attrOrder) ==
  <<Magic, Version, Len(order)>>
  \o FlattenSeq([i \in DOMAIN order |-> EncodeInitializer(order[i], m.initializers[order[i]])])
  \o <<Len(m.order)>>
  \o FlattenSeq([i \in DOMAIN m.order |-> EncodeNode(m.order[i], m.node[m.order[i]], attrOrder[m.order[i]])])
  \o Names(m.inputs) \o Names(m.outputs)

AttrOrders(m) ==
  {f \in [DOMAIN m.node -> UNION {SetToSeqs(DOMAIN m.node[n].attrs) : n \in DOMAIN m.node}] :
     \A n \in DOMAIN m.node : f[n] \in SetToSeqs(DOMAIN m.node[n].attrs)}

Save ==
  /\ written = "other"
  /\ \E m \in SavedModel :
     \E order \in SetToSeqs(DOMAIN m.initializers), attrOrder \in AttrOrders(m) :
       LET content == Encoded(m, order, attrOrder) IN
       \E n \in 0 .. Len(content) :
         /\ file' = SubSeq(content, 1, n)
         /\ saved' = m
         /\ written' = IF n = Len(content) THEN "whole" ELSE "cut"
  /\ UNCHANGED <<load, model>>

--------------------------------------------------------------------------------

(***************************************************************************)
(* load, an element at a time.                                             *)
(***************************************************************************)
Has(p) == p <= Len(file)
\* A count at p and as many items.
HasNames(p) == Has(p) /\ Has(p + file[p])
NamesAt(p) == SubSeq(file, p + 1, p + file[p])
AfterNames(p) == p + 1 + file[p]

Fail == load' = [load EXCEPT !.at = "failed"] /\ UNCHANGED model

LoadHeader ==
  /\ load.at = "closed"
  /\ IF Has(3) /\ file[1] = Magic /\ file[2] = Version
     THEN /\ load' = [load EXCEPT !.at = "initializers", !.pos = 4, !.left = file[3]]
          /\ model' = EmptyModel
     ELSE Fail

LoadInitializer ==
  /\ load.at = "initializers" /\ load.left > 0
  /\ LET p == load.pos
         dims == NamesAt(p + 1)
         first == AfterNames(p + 1)
     IN  IF Has(p) /\ HasNames(p + 1) /\ Has(first + Elements(dims) - 1) /\ dims # << >>
         THEN /\ load' = [load EXCEPT !.pos = first + Elements(dims), !.left = @ - 1]
              /\ model' = [model EXCEPT !.initializers =
                   Assign(@, file[p], [dims |-> dims, data |-> SubSeq(file, first, first + Elements(dims) - 1)])]
         ELSE Fail

InitializersEnd ==
  /\ load.at = "initializers" /\ load.left = 0
  /\ IF Has(load.pos) THEN /\ load' = [load EXCEPT !.at = "nodes", !.left = file[load.pos], !.pos = @ + 1]
                           /\ UNCHANGED model
     ELSE Fail

LoadNode ==
  /\ load.at = "nodes" /\ load.left > 0
  /\ LET p == load.pos
         outs == AfterNames(p + 2)
         attrs == AfterNames(outs)
     IN  IF Has(p + 1) /\ HasNames(p + 2) /\ HasNames(outs) /\ Has(attrs)
         THEN /\ load' = [load EXCEPT !.at = "attributes", !.pos = attrs + 1, !.attrs = file[attrs],
                            !.node = [name |-> file[p], op |-> file[p + 1], inputs |-> NamesAt(p + 2),
                                      outputs |-> NamesAt(outs), attrs |-> << >>]]
              /\ UNCHANGED model
         ELSE Fail

LoadAttribute ==
  /\ load.at = "attributes" /\ load.attrs > 0
  /\ LET p == load.pos
         Found(value, next) ==
           /\ load' = [load EXCEPT !.pos = next, !.attrs = @ - 1,
                         !.node.attrs = Emplace(@, file[p], [tag |-> file[p + 1], value |-> value])]
           /\ UNCHANGED model
     IN  IF ~ Has(p + 1) \/ file[p + 1] \notin {"int", "float", "ints"} THEN Fail
         ELSE IF file[p + 1] = "ints" /\ HasNames(p + 2) THEN Found(NamesAt(p + 2), AfterNames(p + 2))
         ELSE IF file[p + 1] # "ints" /\ Has(p + 2) THEN Found(file[p + 2], p + 3)
         ELSE Fail

\* Graph::addNode: a node takes the place of one of the same name.
AddNode ==
  /\ load.at = "attributes" /\ load.attrs = 0
  /\ LET n == load.node IN
     model' = [model EXCEPT
       !.node = Assign(@, n.name, [op |-> n.op, inputs |-> n.inputs, outputs |-> n.outputs, attrs |-> n.attrs]),
       !.order = Append(@, n.name)]
  /\ load' = [load EXCEPT !.at = "nodes", !.left = @ - 1]

LoadEnds ==
  /\ load.at = "nodes" /\ load.left = 0
  /\ LET p == load.pos  outs == AfterNames(p) IN
     IF HasNames(p) /\ HasNames(outs)
     THEN /\ model' = [model EXCEPT !.inputs = NamesAt(p), !.outputs = NamesAt(outs)]
          /\ load' = [load EXCEPT !.at = "loaded"]
     ELSE Fail

Load ==
  /\ \/ LoadHeader \/ LoadInitializer \/ InitializersEnd \/ LoadNode \/ LoadAttribute \/ AddNode \/ LoadEnds
  /\ UNCHANGED <<saved, file, written>>

--------------------------------------------------------------------------------

(***************************************************************************)
(* Save is not atomic and never reports an error, so load has to tell: it  *)
(* returns the model that was saved, nothing less and nothing else, or it  *)
(* throws, and it throws only if the file is cut or foreign, or a tensor   *)
(* has no dimensions, which save writes without the element load expects.  *)
(***************************************************************************)
RoundTrip ==
  /\ load.at = "loaded" => written = "whole" /\ model = saved
  /\ load.at = "failed" /\ written = "whole" =>
       \E x \in DOMAIN saved.initializers : saved.initializers[x].dims = << >>

================================================================================
