----------------------------- MODULE MCCaseStore -----------------------------
(***************************************************************************)
(* Instances of CaseStore.  The scores make {e1,e2} an edge under both     *)
(* thresholds, {e2,e3} under the lower one only and {e1,e3} under none, so *)
(* analyzing again under another threshold changes the edges, and the      *)
(* component of a root can take two hops.                                  *)
(***************************************************************************)
EXTENDS CaseStore, TLC

CONSTANTS e1, e2, e3

MCScore == [e \in Edge |-> CASE e = {e1, e2} -> 90
                             [] e = {e2, e3} -> 60
                             [] OTHER -> 0]

\* Two batches that make the evidence grow in two steps, in either order; a
\* parser of the second one timed out.  Importing a batch again meets its own
\* events.
Batches == {[events |-> {e1, e2}, states |-> {"SUCCESS"}],
            [events |-> {e3}, states |-> {"SUCCESS", "TIMEOUT"}]}

MCRoot == {None, e1}

Symmetry == Permutations(Client) \cup Permutations(ImportId)
=============================================================================
