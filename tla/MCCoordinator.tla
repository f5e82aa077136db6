---------------------------- MODULE MCCoordinator ----------------------------
(* Coordinator on small instances: any client behaviour, symmetric workers. *)
EXTENDS Coordinator, TLC

WorkerSymmetry == Permutations(Worker)

\* Bounds: as many assignments without a report as there are workers, lost ones
\* included, and failures of MaxFailing tasks.  What lies just beyond is looked
\* at too, but not what follows from it.
MaxFailing == 2
Explored ==
  /\ Cardinality(issued) <= Cardinality(Worker)
  /\ Cardinality({t \in Task : task[t].failures > 0}) <= MaxFailing
==============================================================================
