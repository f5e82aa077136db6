------------------------------- MODULE MCShuffle -------------------------------
EXTENDS Shuffle

CONSTANTS a1, a2, b1, r1, r2

\* Task 1 emits two records out of order, then one of their keys again; task 2
\* emits that key too.  Two attempts of task 1, one of task 2.
Line1 == <<<<2, 1>>, <<1, 1>>>>
Line2 == <<<<2, 1>>>>
MCLines == <<<<Line1, Line2>>, <<Line2>>>>
MCTaskOf == (a1 :> 1) @@ (a2 :> 1) @@ (b1 :> 2)
MCPartitionOf == (r1 :> 0) @@ (r2 :> 1)

\* A spill after the first line and one at the end; task 2 never spills.
SameSpill == (a1 :> 2) @@ (a2 :> 2) @@ (b1 :> 9)

\* The worker of a2 was started with a larger -spill-bytes.
OtherSpill == (a1 :> 2) @@ (a2 :> 3) @@ (b1 :> 9)

================================================================================
