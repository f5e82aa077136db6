------------------------------ MODULE ParallelFor ------------------------------
(***************************************************************************)
(* How parallelFor of inference-engine/engine/src/core/thread_pool.cpp     *)
(* cuts 0 .. count - 1 into ranges for the pool.  A range <<begin, end>>   *)
(* stands for begin .. end - 1.                                            *)
(***************************************************************************)
EXTENDS Integers

CeilDiv(a, b) == (a + b - 1) \div b

\* At most one shard for each thread and one for the caller, and none that
\* would get less than minChunk.
ShardCount(count, minChunk, workers) ==
  LET most == CeilDiv(count, IF minChunk = 0 THEN 1 ELSE minChunk)
  IN  IF workers + 1 > most THEN most ELSE workers + 1

\* Seeded fault: rounded down, so the last rows belong to nobody.
CutDown(count, shards) ==
  LET chunk == count \div shards
      Upto(s) == IF s * chunk + chunk > count THEN count ELSE s * chunk + chunk
  IN  {<<s * chunk, Upto(s)>> : s \in {s \in 0 .. shards - 1 : s * chunk < count}}

\* The loop over the shards; it ends early when the chunks, rounded up, have
\* used up the count.
Cut(count, shards) ==
  LET chunk == CeilDiv(count, shards)
      Upto(s) == IF s * chunk + chunk > count THEN count ELSE s * chunk + chunk
  IN  {<<s * chunk, Upto(s)>> : s \in {s \in 0 .. shards - 1 : s * chunk < count}}

\* The calls of body that parallelFor leads to.
Ranges(count, minChunk, workers, inside) ==
  LET shards == ShardCount(count, minChunk, workers) IN
  IF count = 0 THEN {}
  ELSE IF shards <= 1 \/ workers = 0 \/ inside THEN {<<0, count>>}
  ELSE Cut(count, shards)

\* Every index is in exactly one range, and no range is empty.
Partitions(ranges, count) ==
  /\ \A r \in ranges : 0 <= r[1] /\ r[1] < r[2] /\ r[2] <= count
  /\ \A i \in 0 .. count - 1 : \E r \in ranges : r[1] <= i /\ i < r[2]
  /\ \A r, q \in ranges : r # q => r[2] <= q[1] \/ q[2] <= r[1]
================================================================================
