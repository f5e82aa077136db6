-------------------------------- MODULE Shuffle --------------------------------
(***************************************************************************)
(* The data of a MapReduce job on the shared file system: attempts of map  *)
(* tasks (pkg/mapper) that buffer, spill, merge and put their partitions   *)
(* in place, and attempts of reduce tasks (pkg/reducer) that merge those   *)
(* of every map task.  Attempts of one task run at the same time when the  *)
(* coordinator launches a backup or gives up on a worker that still runs,  *)
(* and all of them use the same directory.                                 *)
(*                                                                         *)
(* A record is <<key, value>> with a number as value; Combine and Reduce   *)
(* add the values up, as in examples/wordcount.  Each operation on a file  *)
(* is a step.  Files are replaced by rename and never changed in place, so *)
(* a source reads what its file held when it was opened.                   *)
(***************************************************************************)
EXTENDS Naturals, Sequences, FiniteSets, SequencesExt, FiniteSetsExt, TLC

CONSTANTS
  Lines,        \* Lines[t]: for each input line of map task t, the records Map emits
  NumReduce,    \* number of partitions
  MapAttempt,   \* attempts of map tasks
  TaskOf,       \* TaskOf[a]: the map task of an attempt
  SpillAt,      \* SpillAt[a]: buffered records that reach the SpillBytes of its worker
  HasCombiner,  \* a Combiner is configured
  ReduceAttempt, PartitionOf  \* attempts of reduce tasks, and their partitions

MapTask == DOMAIN Lines
Partitions == 0 .. NumReduce - 1

ASSUME LinesAssumption == Lines \in Seq(Seq(Seq(Nat \X Nat)))
ASSUME NumReduceAssumption == NumReduce \in Nat \ {0}
ASSUME TaskOfAssumption == TaskOf \in [MapAttempt -> MapTask]
ASSUME SpillAssumption == SpillAt \in [MapAttempt -> Nat \ {0}]
ASSUME PartitionOfAssumption == PartitionOf \in [ReduceAttempt -> Partitions]
ASSUME CombinerAssumption == HasCombiner \in BOOLEAN

VARIABLES
  files,       \* the files in place: what each path holds
  temps,       \* temporary files of WriteAtomic: <<path it is for, attempt>>
  map,         \* the map attempts
  reduce,      \* the reduce attempts
  doneTasks,   \* map tasks the coordinator has a success of
  overlapped   \* attempts that did not have the task's directory to themselves

vars == <<files, temps, map, reduce, doneTasks, overlapped>>

Spill(t, n, p) == <<"spill", t, n, p>>
Part(t, p) == <<"part", t, 0, p>>
Out(p) == <<"out", 0, 0, p>>

\* Seeded fault: the prefix removeStaleSpills looks for fits every file of the task.
IsFileOf(path, t) == path[2] = t

IsSpillOf(path, t) == path[1] = "spill" /\ path[2] = t

MapLabel == {"new", "stale", "consume", "spill", "final", "merge", "cleanup",
             "done", "failed", "crashed", "reported"}
Running(a) == map[a].at \notin {"new", "done", "failed", "crashed", "reported"}

TypeOK ==
  /\ \A a \in MapAttempt :
       /\ map[a].at \in MapLabel
       /\ map[a].line \in 0 .. Len(Lines[TaskOf[a]])
       /\ map[a].part \in Partitions
       /\ map[a].writing => map[a].at \in {"spill", "final", "merge"}
  /\ \A r \in ReduceAttempt : reduce[r].at \in {"new", "open", "done", "crashed"}
  /\ doneTasks \subseteq MapTask
  /\ overlapped \subseteq MapAttempt
  /\ \A temp \in temps : temp[2] \in MapAttempt

Init ==
  /\ files = <<>>
  /\ temps = {}
  /\ map = [a \in MapAttempt |->
              [at |-> "new", line |-> 0, buffer |-> <<>>, spills |-> 0, part |-> 0,
               opened |-> <<>>, writing |-> FALSE, todo |-> {}]]
  /\ reduce = [r \in ReduceAttempt |-> [at |-> "new", next |-> 1, opened |-> <<>>]]
  /\ doneTasks = {}
  /\ overlapped = {}

--------------------------------------------------------------------------------

(***************************************************************************)
(* Streams of records.                                                     *)
(***************************************************************************)
\* storage.Partition, with the key for its hash.
Partition(key) == key % NumReduce

\* The order of pairs of numbers.
Precedes(x, y) == x[1] < y[1] \/ (x[1] = y[1] /\ x[2] <= y[2])

\* The members of S in a sequence, each the first one of those left.
InTurn(S, first) ==
  LET left[k \in 0 .. Cardinality(S)] ==
        IF k = 0 THEN S ELSE LET before == left[k - 1] IN before \ {first[before]}
  IN [k \in 1 .. Cardinality(S) |-> first[left[k - 1]]]

\* applyCombiner, and the groups Reduce is called with: neighbours with equal
\* keys are added up.
Join(groups, rec) ==
  IF groups # <<>> /\ Last(groups)[1] = rec[1]
  THEN Append(Front(groups), <<rec[1], Last(groups)[2] + rec[2]>>)
  ELSE Append(groups, rec)

Grouped(records) ==
  LET groups[n \in 0 .. Len(records)] ==
        IF n = 0 THEN <<>> ELSE Join(groups[n - 1], records[n])
  IN groups[Len(records)]

\* sortBuffer and partitionBuffer: the records of a partition by key and value.
Sorted(buffer, p) ==
  LET mine == {i \in DOMAIN buffer : Partition(buffer[i][1]) = p}
      least == [left \in SUBSET mine |->
                  CHOOSE i \in left : \A j \in left : Precedes(buffer[i], buffer[j])]
      turn == InTurn(mine, least)
  IN [n \in 1 .. Cardinality(mine) |-> buffer[turn[n]]]

\* What spill and writeFinalFromBuffer write for a partition.
Run(buffer, p) == IF HasCombiner THEN Grouped(Sorted(buffer, p)) ELSE Sorted(buffer, p)

\* merge.Merger: the least head goes first, that of the first source on a tie.
Merged(sources) ==
  LET all == UNION {{<<i, n>> : n \in DOMAIN sources[i]} : i \in DOMAIN sources}
      Heads(left) == {x \in left : \A y \in left : y[1] = x[1] => x[2] <= y[2]}
      Entry(x) == <<sources[x[1]][x[2]][1], x[1]>>
      top == [left \in SUBSET all |->
                CHOOSE x \in Heads(left) : \A y \in Heads(left) : Precedes(Entry(x), Entry(y))]
      turn == InTurn(all, top)
  IN [n \in 1 .. Cardinality(all) |-> sources[turn[n][1]][turn[n][2]]]

--------------------------------------------------------------------------------

(***************************************************************************)
(* mapper.Run, by attempt a.                                               *)
(***************************************************************************)
Become(a, new) == map' = [map EXCEPT ![a] = new]
Fail(a) == Become(a, [map[a] EXCEPT !.at = "failed", !.writing = FALSE])

\* Seeded fault: the spills of earlier attempts are left alone.
StartMapKeepsStale(a) ==
  /\ map[a].at = "new"
  /\ TaskOf[a] \notin doneTasks
  /\ Become(a, [map[a] EXCEPT !.at = "consume"])
  /\ LET others == {b \in MapAttempt \ {a} : TaskOf[b] = TaskOf[a] /\ Running(b)} IN
       overlapped' = IF others = {} THEN overlapped ELSE overlapped \cup others \cup {a}
  /\ UNCHANGED <<files, temps, reduce, doneTasks>>

\* The coordinator hands the task out, and removeStaleSpills lists the
\* directory, in which names of temporary files begin with "spill-" too.
StartMap(a) ==
  /\ map[a].at = "new"
  /\ TaskOf[a] \notin doneTasks
  /\ LET t == TaskOf[a] IN
       Become(a, [map[a] EXCEPT
                    !.at = "stale",
                    !.todo = {path \in DOMAIN files : IsSpillOf(path, t)}
                             \cup {temp \in temps : IsSpillOf(temp[1], t)}])
  /\ LET others == {b \in MapAttempt \ {a} : TaskOf[b] = TaskOf[a] /\ Running(b)} IN
       overlapped' = IF others = {} THEN overlapped ELSE overlapped \cup others \cup {a}
  /\ UNCHANGED <<files, temps, reduce, doneTasks>>

Delete(x) ==
  /\ files' = [path \in DOMAIN files \ {x} |-> files[path]]
  /\ temps' = temps \ {x}

\* It removes them, in an order left open, and fails on one that is gone.
RemoveStale(a) ==
  /\ map[a].at = "stale"
  /\ \E x \in map[a].todo :
       IF x \in DOMAIN files \cup temps
       THEN Delete(x) /\ Become(a, [map[a] EXCEPT !.todo = @ \ {x}])
       ELSE Fail(a) /\ UNCHANGED <<files, temps>>
  /\ UNCHANGED <<reduce, doneTasks, overlapped>>

StaleRemoved(a) ==
  /\ map[a].at = "stale" /\ map[a].todo = {}
  /\ Become(a, [map[a] EXCEPT !.at = "consume"])
  /\ UNCHANGED <<files, temps, reduce, doneTasks, overlapped>>

\* consume: the size is looked at after each line.
ReadLine(a) ==
  /\ map[a].at = "consume"
  /\ map[a].line < Len(Lines[TaskOf[a]])
  /\ LET buffer == map[a].buffer \o Lines[TaskOf[a]][map[a].line + 1] IN
       Become(a, [map[a] EXCEPT !.line = @ + 1, !.buffer = buffer,
                                !.at = IF Len(buffer) >= SpillAt[a] THEN "spill" ELSE @])
  /\ UNCHANGED <<files, temps, reduce, doneTasks, overlapped>>

\* Seeded fault: what is buffered at the end is not spilled.
InputOverDropsBuffer(a) ==
  /\ map[a].at = "consume"
  /\ map[a].line = Len(Lines[TaskOf[a]])
  /\ Become(a, [map[a] EXCEPT !.at = IF map[a].spills = 0 THEN "final" ELSE "merge"])
  /\ UNCHANGED <<files, temps, reduce, doneTasks, overlapped>>

\* The end of Run: the buffer is all there is, or it is one more spill.
InputOver(a) ==
  /\ map[a].at = "consume"
  /\ map[a].line = Len(Lines[TaskOf[a]])
  /\ Become(a, [map[a] EXCEPT !.at = CASE map[a].spills = 0 -> "final"
                                       [] map[a].spills > 0 /\ map[a].buffer # <<>> -> "spill"
                                       [] OTHER -> "merge"])
  /\ UNCHANGED <<files, temps, reduce, doneTasks, overlapped>>

\* mergeSpills opens the runs of the partition, one after the other.
OpenSpill(a) ==
  /\ map[a].at = "merge" /\ ~ map[a].writing
  /\ Len(map[a].opened) < map[a].spills
  /\ LET path == Spill(TaskOf[a], Len(map[a].opened), map[a].part) IN
       IF path \in DOMAIN files
       THEN Become(a, [map[a] EXCEPT !.opened = Append(@, files[path])])
       ELSE Fail(a)
  /\ UNCHANGED <<files, temps, reduce, doneTasks, overlapped>>

Target(a) ==
  IF map[a].at = "spill" THEN Spill(TaskOf[a], map[a].spills, map[a].part)
  ELSE Part(TaskOf[a], map[a].part)

Content(a) ==
  IF map[a].at = "merge" THEN Merged(map[a].opened) ELSE Run(map[a].buffer, map[a].part)

\* WriteAtomic: a temporary file is created in the same directory ...
CreateTemp(a) ==
  /\ map[a].at \in {"spill", "final", "merge"} /\ ~ map[a].writing
  /\ map[a].at = "merge" => Len(map[a].opened) = map[a].spills
  /\ temps' = temps \cup {<<Target(a), a>>}
  /\ Become(a, [map[a] EXCEPT !.writing = TRUE])
  /\ UNCHANGED <<files, reduce, doneTasks, overlapped>>

\* The next partition, or what follows the last one.
AfterWrite(m, t) ==
  CASE m.part + 1 < NumReduce -> [m EXCEPT !.part = @ + 1, !.writing = FALSE, !.opened = <<>>]
    [] m.part + 1 = NumReduce /\ m.at = "spill" ->
         [m EXCEPT !.at = "consume", !.part = 0, !.writing = FALSE, !.buffer = <<>>, !.spills = @ + 1]
    [] m.part + 1 = NumReduce /\ m.at = "final" -> [m EXCEPT !.at = "done", !.writing = FALSE]
    [] m.part + 1 = NumReduce /\ m.at = "merge" ->
         [m EXCEPT !.at = "cleanup", !.writing = FALSE, !.opened = <<>>,
                   !.todo = {Spill(t, n, p) : n \in 0 .. m.spills - 1, p \in Partitions}]

\* ... and, when written, renamed into place, unless somebody removed it.
Place(path, content) ==
  files' = [x \in DOMAIN files \cup {path} |-> IF x = path THEN content ELSE files[x]]

RenameTemp(a) ==
  /\ map[a].writing
  /\ LET path == Target(a) IN
       IF <<path, a>> \in temps
       THEN /\ Place(path, Content(a))
            /\ temps' = temps \ {<<path, a>>}
            /\ Become(a, AfterWrite(map[a], TaskOf[a]))
       ELSE Fail(a) /\ UNCHANGED <<files, temps>>
  /\ UNCHANGED <<reduce, doneTasks, overlapped>>

\* The spills are removed, in an order left open; those gone are ignored.
RemoveSpill(a) ==
  /\ map[a].at = "cleanup"
  /\ \E x \in map[a].todo : Delete(x) /\ Become(a, [map[a] EXCEPT !.todo = @ \ {x}])
  /\ UNCHANGED <<reduce, doneTasks, overlapped>>

SpillsRemoved(a) ==
  /\ map[a].at = "cleanup" /\ map[a].todo = {}
  /\ Become(a, [map[a] EXCEPT !.at = "done"])
  /\ UNCHANGED <<files, temps, reduce, doneTasks, overlapped>>

\* The report of a success reaches the coordinator.
ReportMap(a) ==
  /\ map[a].at = "done"
  /\ doneTasks' = doneTasks \cup {TaskOf[a]}
  /\ Become(a, [map[a] EXCEPT !.at = "reported"])
  /\ UNCHANGED <<files, temps, reduce, overlapped>>

\* The process is killed, and what it had on disk stays there.
CrashMap(a) ==
  /\ Running(a)
  /\ Become(a, [map[a] EXCEPT !.at = "crashed", !.writing = FALSE])
  /\ UNCHANGED <<files, temps, reduce, doneTasks, overlapped>>

--------------------------------------------------------------------------------

(***************************************************************************)
(* reducer.Run, by attempt r.  Map tasks are 1, 2, ... here.               *)
(***************************************************************************)
\* The coordinator hands out reduce tasks once every map task is done.
StartReduce(r) ==
  /\ reduce[r].at = "new"
  /\ doneTasks = MapTask
  /\ reduce' = [reduce EXCEPT ![r].at = "open"]
  /\ UNCHANGED <<files, temps, map, doneTasks, overlapped>>

\* The part of the next map task; one that is missing counts as empty.
OpenPart(r) ==
  /\ reduce[r].at = "open"
  /\ reduce[r].next \in MapTask
  /\ LET path == Part(reduce[r].next, PartitionOf[r]) IN
       reduce' = [reduce EXCEPT
         ![r].next = @ + 1,
         ![r].opened = IF path \in DOMAIN files THEN Append(@, files[path]) ELSE @]
  /\ UNCHANGED <<files, temps, map, doneTasks, overlapped>>

\* WriteAtomic of the output; nobody removes its temporary file.
WriteOutput(r) ==
  /\ reduce[r].at = "open"
  /\ reduce[r].next \notin MapTask
  /\ Place(Out(PartitionOf[r]), Grouped(Merged(reduce[r].opened)))
  /\ reduce' = [reduce EXCEPT ![r].at = "done"]
  /\ UNCHANGED <<temps, map, doneTasks, overlapped>>

CrashReduce(r) ==
  /\ reduce[r].at = "open"
  /\ reduce' = [reduce EXCEPT ![r].at = "crashed"]
  /\ UNCHANGED <<files, temps, map, doneTasks, overlapped>>

--------------------------------------------------------------------------------

MapStep(a) ==
  \/ StartMap(a) \/ RemoveStale(a) \/ StaleRemoved(a)
  \/ ReadLine(a) \/ InputOver(a) \/ OpenSpill(a)
  \/ CreateTemp(a) \/ RenameTemp(a)
  \/ RemoveSpill(a) \/ SpillsRemoved(a)
  \/ ReportMap(a) \/ CrashMap(a)

ReduceStep(r) == StartReduce(r) \/ OpenPart(r) \/ WriteOutput(r) \/ CrashReduce(r)

Next ==
  \/ \E a \in MapAttempt : MapStep(a)
  \/ \E r \in ReduceAttempt : ReduceStep(r)

Spec == Init /\ [][Next]_vars

--------------------------------------------------------------------------------

(***************************************************************************)
(* The reference: the totals of the keys of a partition over some tasks.   *)
(***************************************************************************)
KeysOf(records) == {records[i][1] : i \in DOMAIN records}
KeysOfAll(sources) == UNION {KeysOf(sources[i]) : i \in DOMAIN sources}
Keys(tasks, p) ==
  {key \in UNION {KeysOfAll(Lines[t]) : t \in tasks} : Partition(key) = p}

\* What the records of a key add up to: in a sequence, in several, in tasks.
Worth(records, key) ==
  SumFunction([i \in DOMAIN records |-> IF records[i][1] = key THEN records[i][2] ELSE 0])
WorthOfAll(sources, key) == SumFunction([i \in DOMAIN sources |-> Worth(sources[i], key)])
Total(key, tasks) == SumFunction([t \in tasks |-> WorthOfAll(Lines[t], key)])

Totals(tasks, p) == {<<key, Total(key, tasks)>> : key \in Keys(tasks, p)}

\* Each key makes one group, with the right total.
HoldsTotals(records, tasks, p) ==
  LET groups == Grouped(records) IN
  /\ ToSet(groups) = Totals(tasks, p)
  /\ Len(groups) = Cardinality(Totals(tasks, p))

(***************************************************************************)
(* A partition file in place is whole - every record of its map task, once,*)
(* in key order - though attempts crash, overlap and overwrite, use each   *)
(* other's spills and spill at other places than one pass would ("spill    *)
(* equivalence - a tiny spill buffer gives the same answer as one pass",   *)
(* mapreduce/README.md).                                                   *)
(***************************************************************************)
PartsAreWhole ==
  \A t \in MapTask, p \in Partitions :
    Part(t, p) \in DOMAIN files => HoldsTotals(files[Part(t, p)], {t}, p)

(***************************************************************************)
(* A reducer takes a missing file for an empty one, and never meets one:   *)
(* the coordinator has a success only of map tasks with all their files in *)
(* place, none of these is removed again by a late attempt, and a reducer  *)
(* has opened one file for each map task it has gone past.                 *)
(***************************************************************************)
NothingIsMissed ==
  /\ \A t \in doneTasks, p \in Partitions : Part(t, p) \in DOMAIN files
  /\ \A r \in ReduceAttempt : Len(reduce[r].opened) = reduce[r].next - 1

(***************************************************************************)
(* Output in place is the answer: the totals of its keys over all map      *)
(* tasks, one group per key, whatever late map attempts rewrite meanwhile. *)
(***************************************************************************)
OutputIsRight ==
  \A p \in Partitions :
    Out(p) \in DOMAIN files => HoldsTotals(files[Out(p)], MapTask, p)

(***************************************************************************)
(* Whatever is in place, part or output, is whole and right.               *)
(***************************************************************************)
FilesAreRight == PartsAreWhole /\ OutputIsRight

(***************************************************************************)
(* An attempt that has its directory to itself does not fail, whatever     *)
(* crashed attempts left there, and when it is done no spill is left.      *)
(***************************************************************************)
AloneStep ==
  \A a \in MapAttempt \ overlapped' :
    /\ map'[a].at # "failed"
    /\ map[a].at # "done" /\ map'[a].at = "done" =>
         /\ \A path \in DOMAIN files' : ~ IsSpillOf(path, TaskOf[a])
         /\ \A temp \in temps' : ~ IsSpillOf(temp[1], TaskOf[a])

AloneIsSafe == [][AloneStep]_vars

================================================================================
