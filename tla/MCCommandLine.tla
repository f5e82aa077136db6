----------------------------- MODULE MCCommandLine -----------------------------
EXTENDS CommandLine, TLC

Tensor(dims, data) == [dims |-> dims, data |-> data]
Attr(tag, value) == [tag |-> tag, value |-> value]
Gemm(inputs, outputs, attrs) == [op |-> "Gemm", inputs |-> inputs, outputs |-> outputs, attrs |-> attrs]

\* Two initializers and all kinds of attributes; a graph without nodes; one
\* without inputs; and an initializer without dimensions.
MCSavedModel ==
  {[initializers |-> "w" :> Tensor(<<2, 1>>, <<5, 6>>) @@ "b" :> Tensor(<<0>>, << >>),
    node |-> "n" :> Gemm(<<"x", "w">>, <<"y">>, "transA" :> Attr("int", 1) @@ "perm" :> Attr("ints", <<1, 0>>))
             @@ "r" :> [op |-> "Relu", inputs |-> <<"y">>, outputs |-> <<"z">>, attrs |-> "alpha" :> Attr("float", 2)],
    order |-> <<"n", "r">>, inputs |-> <<"x">>, outputs |-> <<"z">>],
   [EmptyModel EXCEPT !.inputs = <<"x">>, !.outputs = <<"x">>],
   [EmptyModel EXCEPT !.outputs = <<"x">>],
   [EmptyModel EXCEPT !.initializers = "s" :> Tensor(<< >>, << >>), !.inputs = <<"x">>, !.outputs = <<"x">>]}

MCOtherFile == {<< >>, <<Version, Magic, 0, 0, 0, 0>>, <<Magic, 2, 0, 0, 0, 0>>}

Line(key, value) == <<key, value>>
Opt(name, value) == <<name, value>>
Path == Line("model_path", "p")

MCConfigFile ==
  "small" :> <<Path, Line("max_batch_size", 2), Line("http_port", 20), Line("profiling", TRUE)>> @@
  "large" :> <<Path, Line("max_batch_size", 9)>> @@
  "pathless" :> <<Line("intra_op_threads", 2)>> @@
  "typo" :> <<Path, Line("max_batchsize", 2)>> @@
  "word" :> <<Path, Line("http_port", Malformed), Line("memory_pool", FALSE)>> @@
  "port" :> <<Path, Line("http_port", 9), Line("max_queue_delay_microseconds", 0)>>

Options ==
  {Opt("config", f) : f \in {"small", "large", "pathless", "typo", "word", "port", "nowhere"}} \cup
  {Opt("batch", n) : n \in {-1, 0, 2, 3, 5}} \cup
  {Opt("threads", 2), Opt("threads", 0), Opt("gemm", "tiled"), Opt("gemm", "fast"), Opt("gemm", Missing),
   Opt("batch", Malformed), Opt("profile", Missing), Opt("config", Missing), Opt("verbose", Missing)}

Sample(pixels, label) == [pixels |-> pixels, label |-> label]
MCRecords == <<Sample(0, 0), Sample(1, 0), Sample(2, 2), Sample(3, 0), Sample(4, 1)>>
Dataset(count, n) == [count |-> count, records |-> SubSeq(MCRecords, 1, n)]

Line1(bench, options, dataset) == [bench |-> bench, options |-> options, dataset |-> dataset]

MCCommand ==
  {Line1(b, o, Dataset(5, 5)) : b \in BOOLEAN, o \in {<< >>} \cup {<<p>> : p \in Options} \cup
     {<<p, q>> : p, q \in {Opt("config", "small"), Opt("batch", 3), Opt("batch", 5), Opt("threads", 2)}}} \cup
  {Line1(b, << >>, d) : b \in BOOLEAN, d \in {Dataset(0, 5), Dataset(5, 4), Dataset(9, 5), Dataset(1, 2)}}

MCClass(m, pixels) == (pixels + Len(m.order)) % 3
MCSweeps == <<[batch |-> 1, raise |-> FALSE], [batch |-> 2, raise |-> TRUE], [batch |-> 4, raise |-> TRUE]>>
================================================================================
