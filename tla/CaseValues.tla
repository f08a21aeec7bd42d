----------------------------- MODULE CaseValues -----------------------------
(***************************************************************************)
(* The values a case is made of: events, the correlation edges between     *)
(* them, the views over both, and what a client is answered.               *)
(*                                                                         *)
(* The rules read two events at a time, so their whole effect is the       *)
(* constant Score: a pair the rules leave without an anchoring reason      *)
(* scores 0, and min_score is at least 1.  An edge is an unordered pair;   *)
(* the code orders it by time for display only.                            *)
(***************************************************************************)
EXTENDS ParserRuns, Integers, FiniteSets

CONSTANTS
  Event,       \* identifiers of the normalized events that can be imported
  MinScore,    \* min_score values a correlation request can carry
  Score,       \* score of every pair of events under the rules
  Root,        \* root_event_id values requests carry; None selects no root
  None         \* SQL NULL / Python None

Edge == {e \in SUBSET Event : \E a, b \in Event : a # b /\ e = {a, b}}

View == [events : SUBSET Event, edges : SUBSET Edge]

ASSUME ValuesAssumption ==
  /\ MinScore \subseteq 1..100
  /\ Score \in [Edge -> 0..100]
  /\ Root \subseteq Event \cup {None}
  /\ None \notin Nat
  /\ None \notin Event

\* CorrelationEngine.correlate: the pairs of the events that reach min_score.
Correlate(events, minScore) ==
  {e \in Edge : e \subseteq events /\ Score[e] >= minScore}

\* related_ids: the least set that holds root and is closed under the edges.
Closed(ids, edges) == \A e \in edges : e \cap ids # {} => e \subseteq ids

RelatedIds(edges, root) ==
  {x \in Event : \A ids \in SUBSET Event :
                    root \in ids /\ Closed(ids, edges) => x \in ids}

\* What is shown of events and edges: all, or the component of the root.
Focus(events, edges, root) ==
  IF root = None
  THEN [events |-> events, edges |-> edges]
  ELSE LET ids == RelatedIds(edges, root)
       IN  [events |-> events \cap ids,
            edges  |-> {e \in edges : e \subseteq ids}]

\* The three kinds of answer a request can leave with its client.
NoAnswer == [kind |-> "none"]
Shown(kind, view) == [kind |-> kind, view |-> view]
Receipt(row) == [kind |-> "import", row |-> row]
=============================================================================
