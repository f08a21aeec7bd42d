--------------------------- MODULE MCBoundedGraph ---------------------------
(***************************************************************************)
(* An instance of BoundedGraph: every graph over four events whose         *)
(* correlations are missing, weak or strong, searched from the first event *)
(* within every depth, limit and threshold that makes a difference.        *)
(***************************************************************************)
EXTENDS Naturals, TLC

CONSTANTS program, document

MCEvent == 1..4

MCPairs == {<<a, b>> \in MCEvent \X MCEvent : a < b}

MCCorrelations ==
  {{[source |-> p[1], target |-> p[2], score |-> score[p]] : p \in {q \in MCPairs : score[q] > 0}} :
     score \in [MCPairs -> {0, 50, 90}]}

\* Two events mention one program, one of them a document, the others nothing.
MCMentions == 1 :> {program} @@ 2 :> {program, document} @@ 3 :> {} @@ 4 :> {}

\* The second event records that the program opened the document, the first two
\* together, when they are correlated, that it executed it.
MCRelations ==
  {[edge |-> [source |-> program, target |-> document, kind |-> "OPENED"],
    events |-> {2}, correlated |-> FALSE],
   [edge |-> [source |-> program, target |-> document, kind |-> "EXECUTED"],
    events |-> {1, 2}, correlated |-> TRUE]}

MCRequest == [root : {1}, depth : 0..3, limit : 1..6, minScore : {0, 60},
              entities : BOOLEAN]
=============================================================================
