----------------------------- MODULE MCThreadPool -----------------------------
EXTENDS ThreadPool, TLC

CONSTANTS c1, c2, c3

\* c1 runs two tasks, the first of which splits in two again; c2 runs two, the
\* first of which has nothing to split; c3 is inside the pool and its only task
\* splits in two.
MCOuter == (c1 :> 2) @@ (c2 :> 2) @@ (c3 :> 1)
MCInner == (c1 :> 2) @@ (c2 :> 0) @@ (c3 :> 2)

================================================================================
