------------------------------ MODULE CaseGraphs ------------------------------
(***************************************************************************)
(* From events to bounded graphs in one specification: the candidate index *)
(* and the rules over pairs of events, the graph built of a case, and the  *)
(* bounded search.  Each works on values it is given, so that kind chooses *)
(* the one that is at work and the variables of the others stay None.      *)
(***************************************************************************)
EXTENDS Integers, FiniteSets

CONSTANTS
  None,
  Event, Correlations, Entity, Mentions,    \* see BoundedGraph
  Relations, Request, QueryEvents, RowsPerNode,
  Families, Thresholds,                     \* see CandidateIndex
  Cases, MinScore, AnyAddress               \* see GraphBuild

VARIABLES kind,
          stored, request, at, levels, ids, frontier, unqueried, rows, found, collected,
          truncated, nodes, edges,
          events, minScore, phase, todo, results,
          correlations, graph

Search == INSTANCE BoundedGraph
Index == INSTANCE CandidateIndex
Builder == INSTANCE GraphBuild

MaxLimit == 2000    \* the largest limit of nodes that a request may name

\* Depth and limits are those the API accepts; a case and its events are finite.
ASSUME SearchAssumption ==
  /\ Event \subseteq Nat /\ IsFiniteSet(Event)
  /\ Correlations \subseteq SUBSET Search!Correlation
  /\ Mentions \in [Event -> SUBSET Entity]
  /\ \A e \in Event : IsFiniteSet(Mentions[e])
  /\ Request \subseteq [root : Event, depth : 0..8, limit : 1..MaxLimit,
                        minScore : 0..100, entities : BOOLEAN]
  /\ QueryEvents \in Nat \ {0}
  /\ RowsPerNode \in Nat \ {0}

\* Times are numbers, and the parts of a path, a program and an answer are known.
Present(x) == x = None \/ x \in Int
Observed(e) ==
  /\ e.time \in Int
  /\ e.process # None =>
       e.process.pid # None /\ Present(e.process.created) /\ Present(e.process.exit)
  /\ e.network # None => Present(e.network.end) /\ None \notin e.network.resolved
  /\ e.file # None /\ e.file.path # None => e.file.path.base # None
  /\ e.prefetch # None => e.prefetch.executable # None

ASSUME PairsAssumption ==
  /\ Thresholds \subseteq 1..100
  /\ \A cases \in Families : \A es \in cases :
       /\ Index!Len(es) \in Nat /\ DOMAIN es = 1..Index!Len(es)
       /\ \A i \in DOMAIN es : Observed(es[i])

\* The events of a case have identifiers of their own, and finite lists; addresses
\* are ordered as numbers.
Recorded(e) ==
  /\ Observed(e)
  /\ e.process # None => Builder!ProcessOf(e) # None
  /\ e.file # None => Builder!FileOf(e) # None /\ IsFiniteSet(e.file.references)
  /\ e.service # None => IsFiniteSet(e.service.programs)
  /\ e.network # None => IsFiniteSet(e.network.resolved) /\ IsFiniteSet(e.network.names)
  /\ Builder!Addresses(e) \subseteq Int

ASSUME CasesAssumption ==
  \A es \in Cases :
    /\ Builder!Len(es) \in Nat /\ DOMAIN es = 1..Builder!Len(es)
    /\ \A i, j \in DOMAIN es : es[i].id = es[j].id => i = j
    /\ \A i \in DOMAIN es : Recorded(es[i])

searchVars == <<stored, request, at, levels, ids, frontier, unqueried, rows, found,
                collected, truncated, nodes, edges>>
indexVars == <<minScore, phase, todo, results>>
graphVars == <<correlations, graph>>
vars == <<kind, events, searchVars, indexVars, graphVars>>

NoSearch ==
  /\ stored = None /\ request = None /\ at = None /\ levels = None /\ ids = None
  /\ frontier = None /\ unqueried = None /\ rows = None /\ found = None
  /\ collected = None /\ truncated = None /\ nodes = None /\ edges = None
NoIndex == minScore = None /\ phase = None /\ todo = None /\ results = None
NoGraph == correlations = None /\ graph = None

Init ==
  \/ kind = "search" /\ Search!Init /\ events = None /\ NoIndex /\ NoGraph
  \/ kind = "index" /\ Index!Init /\ NoSearch /\ NoGraph
  \/ kind = "graph" /\ Builder!Init /\ NoSearch /\ NoIndex

Next ==
  /\ UNCHANGED kind
  /\ \/ kind = "search" /\ Search!Next /\ UNCHANGED <<events, indexVars, graphVars>>
     \/ kind = "index" /\ Index!Next /\ UNCHANGED <<searchVars, graphVars>>
     \/ kind = "graph" /\ Builder!Next /\ UNCHANGED <<searchVars, indexVars>>

Spec == Init /\ [][Next]_vars

-----------------------------------------------------------------------------
(* The properties of each while it is at work; its module states them in full. *)

\* The events of an answer are connected to the root by the correlations of the
\* answer, in as many steps as were asked for, and in number within the limit
\* (bounded_graph).
ResultIsNear == kind = "search" => Search!ResultIsNear

\* What the limits cut off is announced, but for edges beyond eight per node of the
\* limit, and no more is cut off than that (bounded_graph).
CutsAreAnnounced == kind = "search" => Search!CutsAreAnnounced

\* The index loses no edge but those of three named shapes (EventIndex.pairs).
MissedPairsAreKnown == kind = "index" => Index!MissedPairsAreKnown

\* Scores are in range and symmetric, distant events are joined by identities, and
\* no edge crosses a lifetime (CorrelationEngine, negative_reasons).
EdgesAreSound == kind = "index" => Index!EdgesAreSound

\* Parents are linked with full score whatever the order of rows (build_graph).
RecordedParentsAreLinked == kind = "graph" => Builder!RecordedParentsAreLinked

\* The graph joins nodes and rests on events of the case, in whatever order these
\* were read but for which of several addresses a flow refers to (build_graph,
\* extend_graph).
GraphIgnoresOrder == kind = "graph" => Builder!TypeOK /\ Builder!GraphIgnoresOrder

\* A command line backs the edge to its file, and a record of the child the edge of
\* its parent; an edge the other way never stands alone (build_graph, extend_graph).
DirectionsAreRecorded == kind = "graph" => Builder!DirectionsAreRecorded
=============================================================================
