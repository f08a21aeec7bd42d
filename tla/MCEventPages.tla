---------------------------- MODULE MCEventPages ----------------------------
(***************************************************************************)
(* An instance of EventPages: e1 is a process observation and e2 a legacy  *)
(* process row, so that importing e1 changes what the processes view shows *)
(* of e2.                                                                  *)
(***************************************************************************)
EXTENDS EventPages

CONSTANTS e1, e2, timeline

MCFilter == [view \in View |-> {e1, e2}]

Symmetry == Permutations(Thread) \cup Permutations(Case)
=============================================================================
