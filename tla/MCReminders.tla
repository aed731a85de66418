------------------------------ MODULE MCReminders ------------------------------
(* Two bills and a rule whose payloads hash to the same, last id, so that  *)
(* ids are probed, wrap around and move when a bill is paid.               *)
EXTENDS Reminders

Symmetry == Permutations(Tasks)
(* Two calls overlap only while nothing has failed.                        *)
OverlapOrFault ==
  faults > 0 => Cardinality({t \in Tasks : tasks[t].at # "idle"}) <= 1

MCStableId == [r \in Rows |-> LastId]
================================================================================
