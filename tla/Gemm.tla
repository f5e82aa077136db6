--------------------------------- MODULE Gemm ---------------------------------
(***************************************************************************)
(* One call of Gemm::compute, inference-engine/engine/src/kernels/gemm.cpp:*)
(* the choice of a kernel, the rows shared out by parallelFor, the kernels *)
(* tile by tile on several threads, and the finalize pass.                 *)
(*                                                                         *)
(* Elements are integers, so sums do not depend on their order; what the   *)
(* model keeps is which products go where, and when.  A kernel works on    *)
(* rows of its own, so what it does between two uses of a pack buffer is a *)
(* single step.                                                            *)
(***************************************************************************)
EXTENDS Integers, FiniteSets, ParallelFor

CONSTANTS
  Problem,     \* the calls: strategy, transA, transB, relu, inside (a pool
               \* thread calls), rows N, inner K, columns M, biasSize, fits
               \* (ranks and inner sizes agree), shaped (out is N by M already)
  A, B, Bias,  \* the elements, by their place in memory
  Alpha, Beta,
  Caller,      \* the thread that calls
  Worker,      \* the threads of the pool; none is no pool
  Tile,        \* kTile and kPackTile, 64
  Lanes,       \* the partial sums of accumulateDotContiguous, 4
  SmallWork, PackedRows,  \* 1 << 12 and 16 in resolveAuto
  ShardWork,   \* 1 << 18
  Stale        \* what buffers hold before they are written

ASSUME TileAssumption == Tile \in Nat \ {0} /\ Lanes \in Nat \ {0}
ASSUME WorkerAssumption == IsFiniteSet(Worker)
ASSUME ProblemAssumption ==
  \A p \in Problem :
    /\ p.strategy \in {"naive", "reordered", "tiled", "packed", "auto"}
    /\ p.n \in Nat /\ p.k \in Nat /\ p.m \in Nat /\ p.inside \in BOOLEAN
    \* The operands have their elements.
    /\ p.fits => /\ \A x \in 0 .. p.n * p.k - 1 : A[x] \in Int
                 /\ \A x \in 0 .. p.k * p.m - 1 : B[x] \in Int

VARIABLES
  call,    \* the problem
  pc,      \* "called", "running", "finished", "refused"
  kernel,  \* the strategy, Auto resolved
  out,     \* the output buffer
  shard,   \* for each range of rows, how far the kernel is: stage, thread, tile
  packA, packB  \* the thread_local buffers of accumulatePacked

vars == <<call, pc, kernel, out, shard, packA, packB>>

Thread == Worker \cup {Caller}
N == call.n
K == call.k
M == call.m

Low(a, b) == IF a < b THEN a ELSE b

\* Where the kernels find op(A) and op(B).
ElemA(i, k) == IF call.transA THEN A[k * N + i] ELSE A[i * K + k]
ElemB(k, j) == IF call.transB THEN B[j * K + k] ELSE B[k * M + j]

\* The loops over k: 0 + f[from] + ... + f[to - 1].
Sum(f, from, to) ==
  LET total[k \in 0 .. to] == IF k <= from THEN 0 ELSE total[k - 1] + f[k - 1]
  IN  total[to]

\* What is added up for row i and column j; zero multipliers may be skipped.
Products(i, j) == [k \in 0 .. K - 1 |-> ElemA(i, k) * ElemB(k, j)]
Nonzero(i, j) == [k \in 0 .. K - 1 |-> IF ElemA(i, k) = 0 THEN 0 ELSE ElemA(i, k) * ElemB(k, j)]

Init ==
  /\ call \in Problem
  /\ pc = "called" /\ kernel = call.strategy
  /\ out = [x \in 0 .. N * M - 1 |-> Stale]
  /\ shard = << >>
  /\ packA = [t \in Thread |-> [x \in 0 .. Tile * Tile - 1 |-> Stale]]
  /\ packB = packA

--------------------------------------------------------------------------------

(***************************************************************************)
(* Gemm::compute up to the kernels.                                        *)
(***************************************************************************)
ResolveAuto ==
  IF N * K * M < SmallWork THEN "reordered" ELSE IF N >= PackedRows THEN "packed" ELSE "tiled"

Valid == call.fits /\ call.biasSize \in {0, M, N * M}

Refuse ==
  /\ pc = "called" /\ ~ Valid
  /\ pc' = "refused"
  /\ UNCHANGED <<call, kernel, out, shard, packA, packB>>

Compute ==
  /\ pc = "called" /\ Valid
  /\ pc' = "running"
  /\ kernel' = IF call.strategy = "auto" THEN ResolveAuto ELSE call.strategy
  /\ out' = IF call.shaped THEN out ELSE [x \in 0 .. N * M - 1 |-> 0]
  /\ LET worthSharding == Worker # {} /\ N > 1 /\ K * M * N >= ShardWork
         ranges == IF worthSharding THEN Ranges(N, 1, Cardinality(Worker), call.inside)
                   ELSE {<<0, N>>}
     IN  shard' = [r \in ranges |-> [stage |-> "queued", thread |-> Caller, tile |-> <<r[1], 0, 0>>]]
  /\ UNCHANGED <<call, packA, packB>>

--------------------------------------------------------------------------------

(***************************************************************************)
(* The kernels, on the rows of one range.                                  *)
(***************************************************************************)
Idle(t) == \A r \in DOMAIN shard : shard[r].thread = t => shard[r].stage \in {"queued", "done"}

RowOf(x) == x \div M
Rows(r) == {x \in DOMAIN out : r[1] <= RowOf(x) /\ RowOf(x) < r[2]}

At(r, stage) == /\ pc = "running" /\ r \in DOMAIN shard
                /\ shard[r].stage = stage
Goto(r, stage) == shard' = [shard EXCEPT ![r].stage = stage]

\* runAll: the caller takes the first range, any free worker each other one.
\* The blocked kernels begin by clearing their rows.
Begin(t, r) ==
  /\ At(r, "queued") /\ Idle(t)
  /\ r[1] = 0 <=> t = Caller
  /\ LET blocked == kernel \in {"tiled", "packed"}
         first == IF kernel = "tiled" THEN "tile" ELSE "packA"
         next == IF ~ blocked THEN "rows" ELSE IF K > 0 /\ M > 0 /\ N > 0 THEN first ELSE "finalize"
     IN  /\ shard' = [shard EXCEPT ![r].stage = next, ![r].thread = t]
         /\ out' = [x \in DOMAIN out |-> IF blocked /\ x \in Rows(r) THEN 0 ELSE out[x]]
  /\ UNCHANGED <<call, pc, kernel, packA, packB>>

Naive(i, j) == Sum(Products(i, j), 0, K)

\* A partial sum for each lane, and the rest.
DotContiguous(i, j) ==
  LET f == Products(i, j)
      blocks == K \div Lanes
      lane(l) == Sum([q \in 0 .. blocks - 1 |-> f[Lanes * q + l]], 0, blocks)
  IN  Sum([l \in 0 .. Lanes - 1 |-> lane(l)], 0, Lanes) + Sum(f, Lanes * blocks, K)

Reordered(i, j) ==
  IF call.transB /\ ~ call.transA THEN DotContiguous(i, j) ELSE Sum(Nonzero(i, j), 0, K)

WholeRows(r) ==
  /\ At(r, "rows")
  /\ out' = [x \in DOMAIN out |->
               IF x \notin Rows(r) THEN out[x]
               ELSE IF kernel = "naive" THEN Naive(RowOf(x), x % M) ELSE Reordered(RowOf(x), x % M)]
  /\ Goto(r, "finalize")
  /\ UNCHANGED <<call, pc, kernel, packA, packB>>

\* The loops over jj, kk and ii: the innermost goes on, or ends and the next
\* one does.  A packed kernel packs a tile of A for each new kk and ii.
Advance(r) ==
  LET ii == shard[r].tile[1]  kk == shard[r].tile[2]  jj == shard[r].tile[3]
      Moved(stage, tile) == shard' = [shard EXCEPT ![r].stage = stage, ![r].tile = tile]
      Packed(stage) == IF kernel = "packed" THEN stage ELSE "tile"
  IN  \/ /\ jj + Tile < M
         /\ Moved(Packed("packB"), <<ii, kk, jj + Tile>>)
      \/ /\ jj + Tile >= M /\ kk + Tile < K
         /\ Moved(Packed("packA"), <<ii, kk + Tile, 0>>)
      \/ /\ jj + Tile >= M /\ kk + Tile >= K /\ ii + Tile < r[2]
         /\ Moved(Packed("packA"), <<ii + Tile, 0, 0>>)
      \/ /\ jj + Tile >= M /\ kk + Tile >= K /\ ii + Tile >= r[2]
         /\ Moved("finalize", shard[r].tile)

\* The sizes of the tile a range is at.
Height(r) == Low(shard[r].tile[1] + Tile, r[2]) - shard[r].tile[1]
Depth(r) == Low(shard[r].tile[2] + Tile, K) - shard[r].tile[2]
Width(r) == Low(shard[r].tile[3] + Tile, M) - shard[r].tile[3]

\* Adds Term(i, j) to the element at row i and column j of the tile.
AddToTile(r, Term(_, _)) ==
  LET ii == shard[r].tile[1]  jj == shard[r].tile[3] IN
  out' = [x \in DOMAIN out |->
            LET i == RowOf(x) - ii  j == (x % M) - jj IN
            IF i \in 0 .. Height(r) - 1 /\ j \in 0 .. Width(r) - 1 THEN out[x] + Term(i, j)
            ELSE out[x]]

TileStep(r) ==
  /\ At(r, "tile")
  /\ LET ii == shard[r].tile[1]  kk == shard[r].tile[2]  jj == shard[r].tile[3]
     IN  AddToTile(r, LAMBDA i, j : Sum(Nonzero(ii + i, jj + j), kk, kk + Depth(r)))
  /\ Advance(r)
  /\ UNCHANGED <<call, pc, kernel, packA, packB>>

\* Seeded fault: static without thread_local.
BufferShared(t) == Caller

\* The pack buffers are thread_local.
Buffer(t) == t

PackA(r) ==
  /\ At(r, "packA")
  /\ LET ii == shard[r].tile[1]  kk == shard[r].tile[2]  depth == Depth(r) IN
     packA' = [packA EXCEPT ![Buffer(shard[r].thread)] =
       [x \in DOMAIN @ |-> IF x < Height(r) * depth THEN ElemA(ii + x \div depth, kk + (x % depth))
                           ELSE @[x]]]
  /\ Goto(r, "packB")
  /\ UNCHANGED <<call, pc, kernel, out, packB>>

PackB(r) ==
  /\ At(r, "packB")
  /\ LET kk == shard[r].tile[2]  jj == shard[r].tile[3]  cols == Width(r) IN
     packB' = [packB EXCEPT ![Buffer(shard[r].thread)] =
       [x \in DOMAIN @ |-> IF x < Depth(r) * cols THEN ElemB(kk + x \div cols, jj + (x % cols))
                           ELSE @[x]]]
  /\ Goto(r, "micro")
  /\ UNCHANGED <<call, pc, kernel, out, packA>>

MicroKernel(r) ==
  /\ At(r, "micro")
  /\ LET a == packA[Buffer(shard[r].thread)]
         b == packB[Buffer(shard[r].thread)]
         depth == Depth(r)  cols == Width(r)
         Product(x, y) == IF x = 0 THEN 0 ELSE x * y
         Pairs(i, j) == [k \in 0 .. depth - 1 |-> Product(a[i * depth + k], b[k * cols + j])]
     IN  AddToTile(r, LAMBDA i, j : Sum(Pairs(i, j), 0, depth))
  /\ Advance(r)
  /\ UNCHANGED <<call, pc, kernel, packA, packB>>

BiasAt(i, j) ==
  IF call.biasSize = M THEN Bias[j] ELSE IF call.biasSize = N * M THEN Bias[i * M + j] ELSE 0

Finished(i, j, raw) ==
  LET value == Alpha * raw + Beta * BiasAt(i, j)
  IN  IF call.relu /\ value < 0 THEN 0 ELSE value

Finalize(r) ==
  /\ At(r, "finalize")
  /\ out' = [x \in DOMAIN out |-> IF x \in Rows(r) THEN Finished(RowOf(x), x % M, out[x]) ELSE out[x]]
  /\ Goto(r, "done")
  /\ UNCHANGED <<call, pc, kernel, packA, packB>>

\* runAll returns when every range is done.
Return ==
  /\ pc = "running"
  /\ \A r \in DOMAIN shard : shard[r].stage = "done"
  /\ pc' = "finished"
  /\ UNCHANGED <<call, kernel, out, shard, packA, packB>>

KernelStep(r) ==
  WholeRows(r) \/ TileStep(r) \/ PackA(r) \/ PackB(r) \/ MicroKernel(r) \/ Finalize(r)

Next ==
  \/ Refuse
  \/ Compute
  \/ \E t \in Thread, r \in DOMAIN shard : Begin(t, r)
  \/ \E r \in DOMAIN shard : KernelStep(r)
  \/ Return

Spec == Init /\ [][Next]_vars

--------------------------------------------------------------------------------

(***************************************************************************)
(* gemm.h: every kernel computes C = alpha * op(A) * op(B) + beta * bias,  *)
(* the fused form with the activation, whatever the buffers held before,   *)
(* however the rows are shared out and the threads take turns.  The        *)
(* blocked kernels are measured against the plain triple loop.             *)
(***************************************************************************)
ProductIsRight ==
  pc = "finished" =>
    \A i \in 0 .. N - 1, j \in 0 .. M - 1 : out[i * M + j] = Finished(i, j, Naive(i, j))

================================================================================
