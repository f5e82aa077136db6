----------------------------- MODULE PoolAllocator -----------------------------
(***************************************************************************)
(* The arena of inference-engine/engine/src/core/allocator.cpp and the     *)
(* tensors that draw their buffers from it (include/ie/core/tensor.h).     *)
(* allocate and deallocate hold the pool's mutex and are single steps; a   *)
(* tensor assignment is two calls, between which other threads use the     *)
(* pool.  A pointer is a chunk and an offset into it.                      *)
(***************************************************************************)
EXTENDS Naturals, Sequences, FiniteSets, FiniteSetsExt

CONSTANTS
  Alignment,   \* kAlignment
  ChunkBytes,  \* chunkBytes_
  Bytes,       \* buffer sizes that tensors ask for (size_ * sizeof(T)), 0 included
  Tensor,      \* the tensor objects
  MaxChunks    \* bound: operator new fails beyond so many chunks

ASSUME AlignmentAssumption == Alignment \in Nat \ {0}
ASSUME ChunkAssumption == ChunkBytes \in Nat /\ MaxChunks \in Nat
ASSUME BytesAssumption == 0 \in Bytes /\ Bytes \subseteq Nat
ASSUME TensorAssumption == IsFiniteSet(Tensor)
\* Arithmetic: a power of two is positive and exceeds its exponent.
ASSUME PowerAssumption == \A b \in Bytes : 2 ^ b > b /\ \A k \in 0 .. b : 2 ^ k \in Nat \ {0}

\* sizeClass: the least power of two times kAlignment that holds the bytes.
Rounded(bytes) == ((bytes + Alignment - 1) \div Alignment) * Alignment

SizeClass(bytes) ==
  CHOOSE cls \in {Alignment * 2 ^ k : k \in 0 .. bytes} :
    /\ cls >= Rounded(bytes)
    /\ \A k \in 0 .. bytes : Alignment * 2 ^ k >= Rounded(bytes) => cls <= Alignment * 2 ^ k

Class == {SizeClass(b) : b \in Bytes \ {0}}

Null == <<>>

VARIABLES
  chunks,     \* sizes of chunks_
  cursor,     \* cursor_: <<chunk, offset>>, or Null
  remaining,  \* remaining_
  freeLists,  \* freeLists_
  stats,      \* stats_, without the counts of hits and misses
  tensor,     \* size_ and data_ of each tensor
  doing,      \* "idle", or the assignment the tensor is in the middle of
  incoming,   \* the buffer of the temporary that is about to be moved in
  carved,     \* every block ever cut from a chunk: <<pointer, class>>
  most        \* per class, the most blocks in use at one time

vars == <<chunks, cursor, remaining, freeLists, stats, tensor, doing, incoming, carved, most>>

poolVars == <<chunks, cursor, remaining, freeLists, stats, carved, most>>

Pointer == (1 .. MaxChunks) \X Nat
Buffer == [size : Bytes, data : Pointer \cup {Null}]
NoBuffer == [size |-> 0, data |-> Null]

TypeOK ==
  /\ chunks \in Seq(Nat)
  /\ cursor \in Pointer \cup {Null}
  /\ remaining \in Nat
  /\ freeLists \in [Class -> Seq(Pointer)]
  /\ stats \in [arenaBytes : Nat, liveBytes : Nat, peakLiveBytes : Nat]
  /\ tensor \in [Tensor -> Buffer]
  /\ doing \in [Tensor -> {"idle", "resize", "copy"}]
  /\ incoming \in [Tensor -> Buffer]
  /\ carved \subseteq Pointer \X Class
  /\ most \in [Class -> Nat]

Init ==
  /\ chunks = <<>> /\ cursor = Null /\ remaining = 0
  /\ freeLists = [c \in Class |-> <<>>]
  /\ stats = [arenaBytes |-> 0, liveBytes |-> 0, peakLiveBytes |-> 0]
  /\ tensor = [t \in Tensor |-> NoBuffer]
  /\ doing = [t \in Tensor |-> "idle"]
  /\ incoming = [t \in Tensor |-> NoBuffer]
  /\ carved = {}
  /\ most = [c \in Class |-> 0]

LastOf(seq) == seq[Len(seq)]

\* The buffers in use: those of the tensors and of temporaries.
Holder == [owner : Tensor, part : {"own", "incoming"}]
Held(h) == IF h.part = "own" THEN tensor[h.owner] ELSE incoming[h.owner]
Holders == {h \in Holder : Held(h).data # Null}
InUse(c) == Cardinality({h \in Holders : SizeClass(Held(h).size) = c})

--------------------------------------------------------------------------------

(***************************************************************************)
(* The pool.                                                               *)
(***************************************************************************)
\* addChunk: a chunk of its own for a class larger than chunkBytes_.
ChunkSize(cls) == IF ChunkBytes > cls THEN ChunkBytes ELSE cls

\* What a hit and a miss both do to the statistics.
CountLive(cls, updated) ==
  LET live == stats.liveBytes + cls IN
  /\ stats' = [updated EXCEPT !.liveBytes = live,
                              !.peakLiveBytes = IF live > @ THEN live ELSE @]
  /\ most' = [most EXCEPT ![cls] = IF InUse(cls) + 1 > @ THEN InUse(cls) + 1 ELSE @]

\* allocate finds a free block: the one freed last.
Hit(cls) ==
  /\ freeLists[cls] # <<>>
  /\ freeLists' = [freeLists EXCEPT ![cls] = SubSeq(@, 1, Len(@) - 1)]
  /\ CountLive(cls, stats)
  /\ UNCHANGED <<chunks, cursor, remaining, carved>>

\* It cuts one off the current chunk.
Cut(cls) ==
  /\ freeLists[cls] = <<>>
  /\ remaining >= cls
  /\ cursor' = <<cursor[1], cursor[2] + cls>>
  /\ remaining' = remaining - cls
  /\ carved' = carved \cup {<<cursor, cls>>}
  /\ CountLive(cls, stats)
  /\ UNCHANGED <<chunks, freeLists>>

\* Seeded fault: the rest of the old chunk is counted with the new one.
GrowKeepsRest(cls) ==
  /\ freeLists[cls] = <<>>
  /\ remaining < cls
  /\ Len(chunks) < MaxChunks
  /\ chunks' = Append(chunks, ChunkSize(cls))
  /\ cursor' = <<Len(chunks'), cls>>
  /\ remaining' = remaining + ChunkSize(cls) - cls
  /\ carved' = carved \cup {<<<<Len(chunks'), 0>>, cls>>}
  /\ CountLive(cls, [stats EXCEPT !.arenaBytes = @ + ChunkSize(cls)])
  /\ UNCHANGED freeLists

\* The rest of the chunk is too short and is given up for a new chunk.
Grow(cls) ==
  /\ freeLists[cls] = <<>>
  /\ remaining < cls
  /\ Len(chunks) < MaxChunks
  /\ chunks' = Append(chunks, ChunkSize(cls))
  /\ cursor' = <<Len(chunks'), cls>>
  /\ remaining' = ChunkSize(cls) - cls
  /\ carved' = carved \cup {<<<<Len(chunks'), 0>>, cls>>}
  /\ CountLive(cls, [stats EXCEPT !.arenaBytes = @ + ChunkSize(cls)])
  /\ UNCHANGED freeLists

\* operator new throws, and nothing has changed.
OutOfMemory(cls) ==
  /\ freeLists[cls] = <<>>
  /\ remaining < cls
  /\ Len(chunks) >= MaxChunks
  /\ UNCHANGED poolVars

Allocate(cls) == Hit(cls) \/ Cut(cls) \/ Grow(cls)

\* The pointer allocate returns.
Allocated(cls) ==
  CASE freeLists[cls] # <<>> -> LastOf(freeLists[cls])
    [] freeLists[cls] = <<>> /\ remaining >= cls -> cursor
    [] OTHER -> <<Len(chunks) + 1, 0>>

DeallocateLeaks(ptr, bytes) ==
  /\ stats' = [stats EXCEPT !.liveBytes = @ - SizeClass(bytes)]
  /\ UNCHANGED <<chunks, cursor, remaining, freeLists, carved, most>>

Deallocate(ptr, bytes) ==
  LET cls == SizeClass(bytes) IN
  /\ freeLists' = [freeLists EXCEPT ![cls] = Append(@, ptr)]
  /\ stats' = [stats EXCEPT !.liveBytes = @ - cls]
  /\ UNCHANGED <<chunks, cursor, remaining, carved, most>>

--------------------------------------------------------------------------------

(***************************************************************************)
(* Tensors.                                                                *)
(***************************************************************************)
\* allocateBuffer and releaseBuffer skip a buffer that is empty.
NewBuffer(bytes) ==
  [size |-> bytes, data |-> IF bytes = 0 THEN Null ELSE Allocated(SizeClass(bytes))]

AllocateBuffer(bytes) ==
  IF bytes = 0 THEN UNCHANGED poolVars ELSE Allocate(SizeClass(bytes))

ReleaseBuffer(t) ==
  IF tensor[t].data = Null THEN UNCHANGED poolVars
  ELSE Deallocate(tensor[t].data, tensor[t].size)

\* t = Tensor(shape): the temporary has its buffer before t's goes ...
BeginResize(t) ==
  /\ doing[t] = "idle"
  /\ \E bytes \in Bytes :
       /\ AllocateBuffer(bytes)
       /\ incoming' = [incoming EXCEPT ![t] = NewBuffer(bytes)]
  /\ doing' = [doing EXCEPT ![t] = "resize"]
  /\ UNCHANGED tensor

\* ... or it cannot be made, and t keeps what it has ...
FailResize(t) ==
  /\ doing[t] = "idle"
  /\ \E bytes \in Bytes \ {0} : OutOfMemory(SizeClass(bytes))
  /\ UNCHANGED <<tensor, doing, incoming>>

\* ... and the move assignment releases t's buffer and takes the other over.
EndResize(t) ==
  /\ doing[t] = "resize"
  /\ ReleaseBuffer(t)
  /\ tensor' = [tensor EXCEPT ![t] = incoming[t]]
  /\ incoming' = [incoming EXCEPT ![t] = NoBuffer]
  /\ doing' = [doing EXCEPT ![t] = "idle"]

\* Seeded fault: the source keeps its pointer.
MoveAssignShares(t, u) ==
  /\ t # u
  /\ doing[t] = "idle" /\ doing[u] = "idle"
  /\ ReleaseBuffer(t)
  /\ tensor' = [tensor EXCEPT ![t] = tensor[u]]
  /\ UNCHANGED <<doing, incoming>>

\* t = std::move(u) of another tensor.
MoveAssign(t, u) ==
  /\ t # u
  /\ doing[t] = "idle" /\ doing[u] = "idle"
  /\ ReleaseBuffer(t)
  /\ tensor' = [tensor EXCEPT ![t] = tensor[u], ![u] = NoBuffer]
  /\ UNCHANGED <<doing, incoming>>

\* t = u: the buffer of t goes first, and then one of u's size is allocated.
BeginCopy(t, u) ==
  /\ t # u
  /\ doing[t] = "idle" /\ doing[u] = "idle"
  /\ ReleaseBuffer(t)
  /\ tensor' = [tensor EXCEPT ![t] = [size |-> tensor[u].size, data |-> Null]]
  /\ doing' = [doing EXCEPT ![t] = "copy"]
  /\ UNCHANGED incoming

\* When that fails t is left with a size and no buffer.
EndCopy(t) ==
  /\ doing[t] = "copy"
  /\ LET bytes == tensor[t].size IN
       \/ /\ AllocateBuffer(bytes)
          /\ tensor' = [tensor EXCEPT ![t] = NewBuffer(bytes)]
       \/ /\ bytes # 0
          /\ OutOfMemory(SizeClass(bytes))
          /\ UNCHANGED tensor
  /\ doing' = [doing EXCEPT ![t] = "idle"]
  /\ UNCHANGED incoming

--------------------------------------------------------------------------------

Next ==
  \/ \E t \in Tensor : BeginResize(t) \/ FailResize(t) \/ EndResize(t) \/ EndCopy(t)
  \/ \E t, u \in Tensor : MoveAssign(t, u) \/ BeginCopy(t, u)

Spec == Init /\ [][Next]_vars

--------------------------------------------------------------------------------

Freed(c) == {freeLists[c][i] : i \in DOMAIN freeLists[c]}

(***************************************************************************)
(* The blocks cut so far lie apart, aligned and inside their chunks.       *)
(***************************************************************************)
BlocksLieApart ==
  \A x, y \in carved :
    /\ x[1][2] % Alignment = 0
    /\ x[1][2] + x[2] <= chunks[x[1][1]]
    /\ x # y /\ x[1][1] = y[1][1] =>
         x[1][2] + x[2] <= y[1][2] \/ y[1][2] + y[2] <= x[1][2]

(***************************************************************************)
(* No two tensors share memory: each block cut so far is held by one       *)
(* tensor, whose bytes it can hold, or sits in the free list of its own    *)
(* size class, once - so a size given back wrongly, a buffer given back    *)
(* twice or never by the assignments of Tensor would show.                 *)
(***************************************************************************)
OwnedOrFree ==
  /\ \A h \in Holders :
       \E c \in Class : c >= Held(h).size /\ <<Held(h).data, c>> \in carved
  /\ \A g, h \in Holders : g # h => Held(g).data # Held(h).data
  /\ \A h \in Holders, c \in Class : Held(h).data \notin Freed(c)
  /\ \A c \in Class : /\ Cardinality(Freed(c)) = Len(freeLists[c])
                      /\ \A p \in Freed(c) : <<p, c>> \in carved
  /\ \A x \in carved : \/ x[1] \in Freed(x[2])
                       \/ \E h \in Holders : Held(h).data = x[1]

(***************************************************************************)
(* "The inference loop performs no real allocations after warm-up"         *)
(* (allocator.h:4-6): the pool never cuts more blocks of a size class than *)
(* were in use at one time, so a loop that repeats itself stops growing it.*)
(***************************************************************************)
NoGrowthAfterWarmUp ==
  \A c \in Class : Cardinality({x \in carved : x[2] = c}) = most[c]

================================================================================
