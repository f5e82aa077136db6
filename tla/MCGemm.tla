-------------------------------- MODULE MCGemm --------------------------------
EXTENDS Gemm

\* Sizes on both sides of a tile of 2, of 4 lanes and of the thresholds.
Sizes == {<<1, 1, 1>>, <<2, 5, 1>>, <<3, 3, 3>>, <<5, 1, 2>>, <<1, 4, 3>>, <<2, 0, 2>>, <<4, 2, 3>>}

MCProblem ==
  {[strategy |-> g, transA |-> ta, transB |-> tb, relu |-> r[1], inside |-> r[2],
    n |-> s[1], k |-> s[2], m |-> s[3], fits |-> TRUE, shaped |-> b # 0,
    biasSize |-> IF b = 2 THEN s[1] * s[3] ELSE b * s[3]] :
     g \in {"naive", "reordered", "tiled", "packed", "auto"}, ta \in BOOLEAN, tb \in BOOLEAN,
     r \in {<<FALSE, FALSE>>, <<TRUE, TRUE>>}, s \in Sizes, b \in 0 .. 2}
  \cup
  {[strategy |-> "auto", transA |-> FALSE, transB |-> FALSE, relu |-> FALSE, inside |-> FALSE,
    n |-> 2, k |-> 2, m |-> 2, biasSize |-> b, fits |-> b = 3, shaped |-> TRUE] : b \in 2 .. 3}

MCA == [x \in 0 .. 15 |-> IF x % 3 = 1 THEN 0 ELSE x + 1]
MCB == [x \in 0 .. 15 |-> x * x - 20]
MCBias == [x \in 0 .. 15 |-> 7 - 5 * x]
================================================================================
