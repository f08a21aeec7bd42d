---------------------------- MODULE CaseContract ----------------------------
(***************************************************************************)
(* What a case promises to the clients of the local API, with no           *)
(* transactions, revisions or intermediate reads in sight:                 *)
(*                                                                         *)
(*   - evidence only grows, a whole batch at a time, and growing it        *)
(*     withdraws every conclusion drawn from the smaller evidence          *)
(*     (README.md: "Adding new evidence invalidates previously computed    *)
(*     analysis");                                                         *)
(*   - an analysis, a view or a graph handed to a client describes the     *)
(*     evidence exactly as it stands when the client gets it;              *)
(*   - the receipt of an import is the record the audit trail keeps.       *)
(*                                                                         *)
(* CaseStore is shown to implement this specification.                     *)
(***************************************************************************)
EXTENDS CaseValues

CONSTANTS
  Client,      \* concurrent requests being served by the API process
  ImportId     \* import_id values (fresh UUIDs)

-----------------------------------------------------------------------------
VARIABLES
  evidence,    \* events of the case
  analysis,    \* the current analysis: a set of at most one set of edges
  graph,       \* the saved full-case graph: a set of at most one view
  imports,     \* audit trail: rows [id, status, imported]
  glimpse,     \* per client: the analysis of the present evidence it has read
  answer       \* per client: what its last request returned

contractVars == <<evidence, analysis, graph, imports, glimpse, answer>>

Row(i, status, imported) == [id |-> i, status |-> status, imported |-> imported]

Init ==
  /\ evidence = {}
  /\ analysis = {}
  /\ graph = {}
  /\ imports = {}
  /\ glimpse = [c \in Client |-> {}]
  /\ answer = [c \in Client |-> NoAnswer]

\* A client sends a new request and forgets the previous answer.
Ask(c) ==
  /\ answer' = [answer EXCEPT ![c] = NoAnswer]
  /\ UNCHANGED <<evidence, analysis, graph, imports, glimpse>>

\* Requests fail, or the process serving them dies.
Abandon ==
  /\ \E gone \in SUBSET Client :
       glimpse' = [c \in Client |-> IF c \in gone THEN {} ELSE glimpse[c]]
  /\ UNCHANGED <<evidence, analysis, graph, imports, answer>>

\* The evidence grows by a whole batch; nothing derived from it survives.
Grow(batch) ==
  /\ batch # {}
  /\ batch \cap evidence = {}
  /\ evidence' = evidence \cup batch
  /\ analysis' = {}
  /\ graph' = {}
  /\ glimpse' = [c \in Client |-> {}]

PostEvents(c, batch) ==
  /\ Grow(batch)
  /\ answer' = [answer EXCEPT ![c] = NoAnswer]
  /\ UNCHANGED imports

\* The audit trail gains one row and the client a copy of it.
Record(c, row) ==
  /\ \A old \in imports : old.id # row.id
  /\ imports' = imports \cup {row}
  /\ answer' = [answer EXCEPT ![c] = Receipt(row)]

ImportEvidence(c, i, status, batch) ==
  /\ status \in {"SUCCESS", "PARTIAL"}
  /\ Grow(batch)
  /\ Record(c, Row(i, status, Cardinality(batch)))

ImportNothing(c, i, status) ==
  /\ Record(c, Row(i, status, 0))
  /\ UNCHANGED <<evidence, analysis, graph, glimpse>>

\* Correlation: the analysis of exactly the present evidence becomes current.
Publish(c, minScore, root) ==
  LET edges == Correlate(evidence, minScore)
  IN  /\ evidence # {}
      /\ root \in evidence \cup {None}
      /\ analysis' = {edges}
      /\ answer' = [answer EXCEPT ![c] = Shown("analysis", Focus(evidence, edges, root))]
      /\ UNCHANGED <<evidence, graph, imports, glimpse>>

\* A client reads the current analysis on its way to a view.
Glance(c) ==
  /\ analysis # {}
  /\ glimpse' = [glimpse EXCEPT ![c] = analysis]
  /\ UNCHANGED <<evidence, analysis, graph, imports, answer>>

\* A view of the present evidence under an analysis of it.
Answer(c, kind, view) ==
  /\ answer' = [answer EXCEPT ![c] = Shown(kind, view)]
  /\ glimpse' = [glimpse EXCEPT ![c] = {}]
  /\ UNCHANGED <<evidence, analysis, imports>>

ShowView(c, kind, root) ==
  /\ root \in evidence \cup {None}
  /\ \E edges \in glimpse[c] : Answer(c, kind, Focus(evidence, edges, root))
  /\ UNCHANGED graph

SaveGraph(c) ==
  \E edges \in glimpse[c] :
    LET view == Focus(evidence, edges, None)
    IN  /\ Answer(c, "graph", view)
        /\ graph' = {view}

Next ==
  \/ Abandon
  \/ \E c \in Client :
       \/ Ask(c)
       \/ \E batch \in SUBSET Event : PostEvents(c, batch)
       \/ \E i \in ImportId, status \in Status :
            \/ ImportNothing(c, i, status)
            \/ \E batch \in SUBSET Event : ImportEvidence(c, i, status, batch)
       \/ \E s \in MinScore, root \in Root : Publish(c, s, root)
       \/ Glance(c)
       \/ \E kind \in {"view", "graph"}, root \in Root : ShowView(c, kind, root)
       \/ SaveGraph(c)

Spec == Init /\ [][Next]_contractVars
=============================================================================
