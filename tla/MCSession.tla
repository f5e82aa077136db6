------------------------------- MODULE MCSession -------------------------------
(***************************************************************************)
(* Models for TLC.  Graph input "x", weight "w", "t1" .. for what nodes    *)
(* write.                                                                  *)
(***************************************************************************)
EXTENDS InferenceSession

N(name, op, ins, out) == Node(name, op, ins, out)
M(nodes, outputs) == Model(nodes, [n \in {"w"} |-> Term("w", <<>>)], <<"x">>, outputs)

\* Every model of three nodes, in every insertion order, over three ops.
Operand == {"x", "w", "t1", "t2", "t3"}
Shape ==
  {[op |-> "Gemm", ins |-> <<a, "w">>] : a \in Operand}
  \cup {[op |-> "Relu", ins |-> <<a>>] : a \in Operand}
  \cup {[op |-> "Add", ins |-> ab] : ab \in {<<"t1", "t2">>, <<"t2", "t3">>, <<"x", "t1">>,
                                           <<"w", "t2">>, <<"t1", "t1">>}}
OutName == <<"t1", "t2", "t3">>

AnyThree ==
  {M([i \in 1 .. 3 |-> N(i, s[i].op, s[i].ins, OutName[i])], <<"t3">>) : s \in [1 .. 3 -> Shape]}

\* Two branches that meet, a chain to fuse, a constant to fold, a dead node.
Branches ==
  {M(<<N(1, "Gemm", <<"x", "w">>, "t1"), N(2, "Gemm", <<"x", "w">>, "t2"),
       N(3, "Relu", <<"t1">>, "t3"), N(4, "Add", <<"t3", "t2">>, "t4")>>, <<"t4">>),
   M(<<N(1, "Gemm", <<"x", "w">>, "t1"), N(2, "Gemm", <<"t1", "w">>, "t2"),
       N(3, "Relu", <<"t1">>, "t3"), N(4, "Relu", <<"t2">>, "t4")>>, <<"t4", "t1">>),
   M(<<N(4, "Add", <<"t2", "t3">>, "t4"), N(3, "Relu", <<"x">>, "t3"),
       N(2, "Gemm", <<"t1", "w">>, "t2"), N(1, "Flatten", <<"x">>, "t1")>>, <<"t4">>),
   M(<<N(1, "Relu", <<"w">>, "t1"), N(2, "Add", <<"x", "t1">>, "t2"),
       N(3, "Relu", <<"x">>, "t3"), N(4, "Relu", <<"t2">>, "t4")>>, <<"t4">>),
   M(<<N(1, "Relu", <<"w">>, "t1"), N(2, "Gemm", <<"t1", "w">>, "t2")>>, <<"t2">>),
   M(<<N(1, "Conv", <<"x">>, "t1")>>, <<"t1">>),
   M(<<N(1, "Relu", <<"z">>, "t1")>>, <<"t1">>),
   M(<<N(1, "Relu", <<"x">>, "t1")>>, <<"t2">>)}

\* Three parallel readers of the input and a join.
Wide ==
  {M(<<N(1, "Gemm", <<"x", "w">>, "t1"), N(2, "Relu", <<"x">>, "t2"),
       N(3, "Add", <<"t1", "t2">>, "t3"), N(4, "Relu", <<"t1">>, "t4"),
       N(5, "Add", <<"t3", "t4">>, "t5")>>, <<"t5">>)}

MCModels == AnyThree \cup Branches \cup Wide

================================================================================
