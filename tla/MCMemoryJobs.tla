---------------------------- MODULE MCMemoryJobs ----------------------------
(***************************************************************************)
(* Instances of MemoryJobs.  Two jobs are enough for one to take from the  *)
(* cache what the other put there; two plugins for one of them to fail, to *)
(* be skipped or to be cancelled after the other succeeded.                *)
(***************************************************************************)
EXTENDS MemoryJobs, TLC

CONSTANTS p1, p2, A, B

\* A single plugin asked for again, with and without the cache.
CacheRequests == {[plugins |-> <<p1>>, rerun |-> FALSE],
                  [plugins |-> <<p1>>, rerun |-> TRUE]}

\* Two plugins, so that they can end differently.
PairRequests == {[plugins |-> <<p1, p2>>, rerun |-> FALSE]}

EndRequests == {[plugins |-> <<p1>>, rerun |-> FALSE],
                [plugins |-> <<p1, p2>>, rerun |-> FALSE]}

\* Two jobs of one plugin share one failed save; a job of two plugins is alone
\* and has two.
Pairs == {j \in Job : asked[j] \in PairRequests}
Bounded == IF Pairs = {} THEN faults <= 1
           ELSE \A i \in Pairs : \A j \in Job \ {i} : asked[j] = NoRequest

EndSpec == Init /\ [][Next /\ Bounded']_vars /\ Fairness

SingleRequests == {[plugins |-> <<p1>>, rerun |-> FALSE]}

\* The image is written, but an earlier content never comes back.
Forward == {<<A, B>>}

\* The image is written and then restored.
Restored == {<<A, B>>, <<B, A>>}

Symmetry == Permutations(Job)
=============================================================================
