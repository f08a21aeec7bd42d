---------------------------- MODULE BoundedGraph ----------------------------
(***************************************************************************)
(* bounded_graph: the graph around a root event, found breadth first over  *)
(* the stored correlations within a depth, a number of nodes and a number  *)
(* of rows per query.  It runs in one read transaction, so the             *)
(* correlations stay as they are; truncated tells the client that a bound  *)
(* has cut something off, unless it is the one on the edges of the answer. *)
(*                                                                         *)
(* Events are numbered in the order of their identifiers.  A correlation   *)
(* is [source, target, score]; there is one at most for a pair of events.  *)
(***************************************************************************)
EXTENDS Integers, FiniteSets

CONSTANTS
  Event,        \* an initial segment of the positive numbers
  Correlations, \* the sets of correlations a case can have stored
  Entity,       \* processes, files, addresses, ... the events mention
  Mentions,     \* the entities build_graph makes of each event
  Relations,    \* the further edges of build_graph, see Draws
  Request,      \* [root, depth, limit, minScore, entities |-> BOOLEAN]
  QueryEvents,  \* events per query (200)
  RowsPerNode   \* rows and edges per node of the limit (8)

Correlation == [source : Event, target : Event, score : 0..100]

VARIABLES
  stored,     \* the case's correlations
  request,    \* what the client asks for
  at,         \* "level", "query", "rows", "build" or "done"
  levels,     \* iterations of the loop over depth still to come
  ids,        \* events found
  frontier,   \* those found in the last level
  unqueried,  \* events of the frontier this level has still to query
  rows,       \* rows of the present query that are still to be read
  found,      \* next_frontier
  collected,  \* correlations followed
  truncated,
  nodes,      \* events and entities of the answer
  edges       \* and its edges

search == <<levels, ids, frontier, unqueried, rows, found, collected, truncated>>
answer == <<nodes, edges>>
vars == <<stored, request, at, search, answer>>

\* The n events with the lowest numbers.
Lowest(n, S) == {x \in S : Cardinality({y \in S : y < x}) < n}

\* ORDER BY score DESC, source_event, target_event
Stronger(c, d) ==
  \/ c.score > d.score
  \/ c.score = d.score /\ c.source < d.source
  \/ c.score = d.score /\ c.source = d.source /\ c.target < d.target

\* The first n rows in that order.
Strongest(n, S) == {c \in S : Cardinality({d \in S : Stronger(d, c)}) < n}

Ends(c) == {c.source, c.target}

\* The correlations a request may follow at all.
Strong == {c \in stored : c.score >= request.minScore}

Cap == request.limit * RowsPerNode

Init ==
  /\ stored \in Correlations
  /\ request \in Request
  /\ at = "level"
  /\ levels = request.depth
  /\ ids = {request.root}
  /\ frontier = {request.root}
  /\ unqueried = {}
  /\ rows = {}
  /\ found = {}
  /\ collected = {}
  /\ truncated = FALSE
  /\ nodes = {}
  /\ edges = {}

-----------------------------------------------------------------------------
\* Mutant: one level too many.
LevelTooMany == levels >= 0

MoreLevels == levels > 0

BeginLevel ==
  /\ at = "level"
  /\ MoreLevels /\ frontier # {}
  /\ levels' = levels - 1
  /\ unqueried' = frontier
  /\ found' = {}
  /\ at' = "query"
  /\ UNCHANGED <<stored, request, ids, frontier, rows, collected, truncated, answer>>

\* The next events of the frontier, and the strongest rows that touch them.
Query ==
  /\ at = "query"
  /\ unqueried # {}
  /\ LET batch == Lowest(QueryEvents, unqueried)
         matching == {c \in Strong : Ends(c) \cap batch # {}}
     IN  /\ unqueried' = unqueried \ batch
         /\ rows' = Strongest(Cap, matching)
         /\ truncated' = (truncated \/ Cardinality(matching) > Cap)
  /\ at' = "rows"
  /\ UNCHANGED <<stored, request, levels, ids, frontier, found, collected, answer>>

\* Mutant: the row is skipped without a word.
SkipSilently(c) == UNCHANGED <<ids, found, collected, truncated>>

\* A row whose new events no longer fit is skipped.
Skip(c) ==
  /\ truncated' = TRUE
  /\ UNCHANGED <<ids, found, collected>>

Follow(c) ==
  LET missing == Ends(c) \ ids
  IN  /\ ids' = ids \cup missing
      /\ found' = found \cup missing
      /\ collected' = collected \cup {c}
      /\ UNCHANGED truncated

\* Mutant: every event of the row takes a place, also those that have one.
FitsAnew(c) == Cardinality(ids) + Cardinality(Ends(c)) <= request.limit

Fits(c) == Cardinality(ids) + Cardinality(Ends(c) \ ids) <= request.limit

ReadRow ==
  /\ at = "rows"
  /\ \E c \in Strongest(1, rows) :
       /\ rows' = rows \ {c}
       /\ IF Fits(c) THEN Follow(c) ELSE Skip(c)
  /\ UNCHANGED <<stored, request, at, levels, frontier, unqueried, answer>>

RowsRead ==
  /\ at = "rows"
  /\ rows = {}
  /\ at' = "query"
  /\ UNCHANGED <<stored, request, search, answer>>

EndLevel ==
  /\ at = "query"
  /\ unqueried = {}
  /\ frontier' = found
  /\ at' = "level"
  /\ UNCHANGED <<stored, request, levels, ids, unqueried, rows, found, collected,
                 truncated, answer>>

\* Events nobody has asked about remain, unless the client wants the root only.
EndSearch ==
  /\ at = "level"
  /\ ~(MoreLevels /\ frontier # {})
  /\ truncated' = (truncated \/ (frontier # {} /\ request.depth > 0))
  /\ at' = "build"
  /\ UNCHANGED <<stored, request, levels, ids, frontier, unqueried, rows, found,
                 collected, answer>>

\* The nodes of the kinds that were asked for.
NodesOf(events) ==
  LET entities == UNION {Mentions[e] : e \in events}
  IN  IF request.entities THEN entities ELSE events \cup entities

Edge(source, target, kind) == [source |-> source, target |-> target, kind |-> kind]

\* A relation between entities or events is drawn when the events that record it
\* are there, one that rests on a correlation when that was followed.
Draws(relation, events, followed) ==
  /\ relation.events \subseteq events
  /\ relation.correlated => \E c \in followed : Ends(c) = relation.events

\* The edges of build_graph.
EdgesOf(events, followed) ==
  UNION { UNION {{Edge(e, x, "OBSERVED") : x \in Mentions[e]} : e \in events},
          {Edge(c.source, c.target, "CORRELATED_WITH") : c \in followed},
          {r.edge : r \in {q \in Relations : Draws(q, events, followed)}} }

\* The first n of S in an order of hashes: any n of them, or all.
FirstOf(n, S) ==
  {s \in SUBSET S : Cardinality(s) <= n /\ (s # S => Cardinality(s) = n)}

Joining(drawn, kept) == {d \in drawn : d.source \in kept /\ d.target \in kept}

\* Mutant: the edges are cut before those without their nodes are left out.
CutFirst(drawn, kept) == {Joining(first, kept) : first \in FirstOf(Cap, drawn)}

\* The edges between nodes of the answer are cut as well, which sets no flag.
EdgesLeft(drawn, kept) == FirstOf(Cap, Joining(drawn, kept))

\* The nodes are sorted, the root first, and the first ones kept.  The order
\* of the others is that of hashes.
Build ==
  /\ at = "build"
  /\ LET wanted == NodesOf(ids)
     IN  /\ \E kept \in FirstOf(request.limit, wanted) :
              /\ request.root \in wanted => request.root \in kept
              /\ nodes' = kept
              /\ edges' \in EdgesLeft(EdgesOf(ids, collected), kept)
         /\ truncated' = (truncated \/ Cardinality(wanted) > request.limit)
  /\ at' = "done"
  /\ UNCHANGED <<stored, request, levels, ids, frontier, unqueried, rows, found,
                 collected>>

Next == BeginLevel \/ Query \/ ReadRow \/ RowsRead \/ EndLevel \/ EndSearch \/ Build

Spec == Init /\ [][Next]_vars

-----------------------------------------------------------------------------
(***************************************************************************)
(* Properties                                                              *)
(***************************************************************************)

\* Events within so many correlations of the root.
Within(links) ==
  LET Step(events) ==
        events \cup {e \in Event : \E c \in links : e \in Ends(c) /\ Ends(c) \cap events # {}}
      near[n \in 0..8] == IF n = 0 THEN {request.root} ELSE Step(near[n - 1])
  IN  near

\* What is returned is near: every event is connected to the root by
\* returned correlations, in as many steps as were asked for, and there are
\* no more of them than were asked for (bounded_graph).
ResultIsNear ==
  /\ ids = Within(collected)[request.depth - levels]
  /\ ids \subseteq Within(Strong)[request.depth]
  /\ Cardinality(ids) <= request.limit

\* The edges fill the answer: more may have been left out.
EdgesAreFull == Cardinality(edges) = Cap

\* truncated = FALSE can be relied on for nodes: then the answer holds everything
\* that is connected to the root, however far.  It can for edges only while there
\* are fewer than eight per node of the limit; then all of them are there.
UntruncatedIsComplete ==
  at = "done" /\ ~truncated /\ request.depth > 0 =>
    LET component == Within(Strong)[8]
        links == {c \in Strong : Ends(c) \subseteq component}
        whole == Joining(EdgesOf(component, links), nodes)
    IN  /\ nodes = NodesOf(component)
        /\ edges \subseteq whole
        /\ edges = whole \/ EdgesAreFull

\* The limit on events costs no correlation between events of the answer: only a
\* query with too many rows, or an answer full of edges, does.
KeptEventsKeepTheirCorrelations ==
  at = "done" /\ Cardinality(Strong) <= Cap =>
    \A c \in Strong :
      Ends(c) \subseteq ids \cap nodes /\ Ends(c) \cap (ids \ frontier) # {} =>
        \/ Edge(c.source, c.target, "CORRELATED_WITH") \in edges
        \/ EdgesAreFull

\* What the limits cut off is announced, but for edges beyond eight per node of the
\* limit (views.py:205), and no more is cut off than that (bounded_graph).
CutsAreAnnounced == UntruncatedIsComplete /\ KeptEventsKeepTheirCorrelations
=============================================================================
