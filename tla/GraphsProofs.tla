----------------------------- MODULE GraphsProofs -----------------------------
(***************************************************************************)
(* Proofs about the way from events to graphs: the bounded search, for     *)
(* every graph of correlations, request and bounds; the candidate index,   *)
(* for every list of events and threshold; and the graph of a case, for    *)
(* every list of events.                                                   *)
(***************************************************************************)
EXTENDS CaseGraphs, FiniteSetTheorems, WellFoundedInduction, TLAPS

LEMMA SameCardinality == \A S : Search!Cardinality(S) = Cardinality(S)
BY DEF Search!Cardinality, Cardinality

-----------------------------------------------------------------------------
(***************************************************************************)
(* What is near a root: Within, for a root and correlations of its own.    *)
(***************************************************************************)

Step(links, some) ==
  some \cup {e \in Event : \E c \in links : /\ e \in Search!Ends(c)
                                              /\ Search!Ends(c) \cap some # {}}

Near(root, links) ==
  LET near[n \in 0..8] == IF n = 0 THEN {root} ELSE Step(links, near[n - 1])
  IN  near

LEMMA WithinIsNear == \A links : Search!Within(links) = Near(request.root, links)
BY DEF Search!Within, Near, Step

LEMMA NearIs ==
  ASSUME NEW root, NEW links
  PROVE  /\ Near(root, links)[0] = {root}
         /\ \A n \in 1..8 : Near(root, links)[n] = Step(links, Near(root, links)[n - 1])
<1> DEFINE s0 == {root}
           s1 == Step(links, s0)
           s2 == Step(links, s1)
           s3 == Step(links, s2)
           s4 == Step(links, s3)
           s5 == Step(links, s4)
           s6 == Step(links, s5)
           s7 == Step(links, s6)
           s8 == Step(links, s7)
           g == [n \in 0..8 |-> CASE n = 0 -> s0 [] n = 1 -> s1 [] n = 2 -> s2 [] n = 3 -> s3
                                  [] n = 4 -> s4 [] n = 5 -> s5 [] n = 6 -> s6 [] n = 7 -> s7
                                  [] n = 8 -> s8]
           Right(f) == f = [n \in 0..8 |-> IF n = 0 THEN {root} ELSE Step(links, f[n - 1])]
<1>1. /\ g[0] = s0 /\ g[1] = s1 /\ g[2] = s2 /\ g[3] = s3 /\ g[4] = s4 /\ g[5] = s5
      /\ g[6] = s6 /\ g[7] = s7 /\ g[8] = s8
      /\ g = [n \in 0..8 |-> g[n]]
  <2> HIDE DEF s0, s1, s2, s3, s4, s5, s6, s7, s8
  <2> QED
    OBVIOUS
<1>2. /\ g[0] = {root} /\ g[1] = Step(links, g[0]) /\ g[2] = Step(links, g[1])
      /\ g[3] = Step(links, g[2]) /\ g[4] = Step(links, g[3]) /\ g[5] = Step(links, g[4])
      /\ g[6] = Step(links, g[5]) /\ g[7] = Step(links, g[6]) /\ g[8] = Step(links, g[7])
  <2> HIDE DEF g
  <2> QED
    BY <1>1
<1> HIDE DEF g, s0, s1, s2, s3, s4, s5, s6, s7, s8
<1>3. \A n \in 0..8 : g[n] = IF n = 0 THEN {root} ELSE Step(links, g[n - 1])
  BY <1>2
<1>4. Right(g)
  BY <1>1, <1>3
<1>5. Right(Near(root, links))
  BY <1>4 DEF Near
<1> QED
  BY <1>5

LEMMA UpToEight ==
  ASSUME NEW S, 0 \in S, \A n \in 1..8 : n - 1 \in S => n \in S
  PROVE  \A n \in 0..8 : n \in S
<1>1. 1 \in S /\ (1 \in S => 2 \in S) /\ (2 \in S => 3 \in S) /\ (3 \in S => 4 \in S)
  OBVIOUS
<1>2. (4 \in S => 5 \in S) /\ (5 \in S => 6 \in S) /\ (6 \in S => 7 \in S) /\ (7 \in S => 8 \in S)
  OBVIOUS
<1>3. {1, 2, 3, 4, 5, 6, 7, 8} \subseteq S
  BY <1>1, <1>2
<1> QED
  BY <1>3

LEMMA NearGrows ==
  ASSUME NEW root, NEW links, NEW n \in 1..8
  PROVE  Near(root, links)[n - 1] \subseteq Near(root, links)[n]
BY NearIs DEF Step

LEMMA NearOrdered ==
  ASSUME NEW root, NEW links
  PROVE  \A n \in 0..8 : \A m \in 0..n : Near(root, links)[m] \subseteq Near(root, links)[n]
<1> DEFINE S == {n \in 0..8 : \A m \in 0..n : Near(root, links)[m] \subseteq Near(root, links)[n]}
<1>1. 0 \in S
  OBVIOUS
<1>2. ASSUME NEW n \in 1..8, n - 1 \in S
      PROVE  n \in S
  <2>1. Near(root, links)[n - 1] \subseteq Near(root, links)[n]
    BY NearGrows
  <2>2. \A m \in 0..n : m \in 0..n - 1 \/ m = n
    OBVIOUS
  <2> QED
    BY <1>2, <2>1, <2>2
<1>3. \A n \in 0..8 : n \in S
  <2> HIDE DEF S
  <2> QED
    BY <1>1, <1>2, UpToEight
<1> QED
  BY <1>3

LEMMA NearMonotone ==
  ASSUME NEW root, NEW links, NEW more, links \subseteq more
  PROVE  \A n \in 0..8 : Near(root, links)[n] \subseteq Near(root, more)[n]
<1> DEFINE S == {n \in 0..8 : Near(root, links)[n] \subseteq Near(root, more)[n]}
<1>1. 0 \in S
  BY NearIs
<1>2. ASSUME NEW n \in 1..8, n - 1 \in S
      PROVE  n \in S
  <2>1. Near(root, links)[n - 1] \subseteq Near(root, more)[n - 1]
    BY <1>2
  <2>2. /\ Near(root, links)[n] = Step(links, Near(root, links)[n - 1])
        /\ Near(root, more)[n] = Step(more, Near(root, more)[n - 1])
    BY NearIs
  <2>3. Near(root, links)[n] \subseteq Near(root, more)[n]
    BY <2>1, <2>2 DEF Step
  <2> QED
    BY <2>3
<1>3. \A n \in 0..8 : n \in S
  <2> HIDE DEF S
  <2> QED
    BY <1>1, <1>2, UpToEight
<1> QED
  BY <1>3

\* Nothing is near that correlations do not lead to.
LEMMA NearStaysIn ==
  ASSUME NEW root, NEW links, NEW closed, root \in closed,
         \A c \in links : Search!Ends(c) \cap closed # {} => Search!Ends(c) \subseteq closed
  PROVE  \A n \in 0..8 : Near(root, links)[n] \subseteq closed
<1> DEFINE S == {n \in 0..8 : Near(root, links)[n] \subseteq closed}
<1>1. 0 \in S
  BY NearIs
<1>2. ASSUME NEW n \in 1..8, n - 1 \in S
      PROVE  n \in S
  <2>1. Near(root, links)[n] = Step(links, Near(root, links)[n - 1])
    BY NearIs
  <2>2. Near(root, links)[n] \subseteq closed
    BY <1>2, <2>1 DEF Step
  <2> QED
    BY <2>2
<1>3. \A n \in 0..8 : n \in S
  <2> HIDE DEF S
  <2> QED
    BY <1>1, <1>2, UpToEight
<1> QED
  BY <1>3

\* A correlation takes its ends one step further.
LEMMA NearReaches ==
  ASSUME NEW root, NEW links, NEW c \in links, Search!Ends(c) \subseteq Event, NEW n \in 1..8,
         Search!Ends(c) \cap Near(root, links)[n - 1] # {}
  PROVE  Search!Ends(c) \subseteq Near(root, links)[n]
BY NearIs DEF Step

-----------------------------------------------------------------------------
(***************************************************************************)
(* Finite sets of events and correlations.                                 *)
(***************************************************************************)

LEMMA EventsAreFinite ==
  ASSUME NEW some, some \subseteq Event
  PROVE  IsFiniteSet(some) /\ Cardinality(some) \in Nat
<1>1. IsFiniteSet(Event)
  BY SearchAssumption
<1>2. IsFiniteSet(some)
  BY <1>1, FS_Subset
<1> QED
  BY <1>2, FS_CardinalityType

LEMMA CorrelationsAreFinite ==
  ASSUME NEW some, some \subseteq Search!Correlation
  PROVE  IsFiniteSet(some) /\ Cardinality(some) \in Nat
<1> DEFINE triples == (Event \X Event) \X (0..100)
           f == [t \in triples |-> [source |-> t[1][1], target |-> t[1][2], score |-> t[2]]]
<1>1. IsFiniteSet(triples)
  <2>1. IsFiniteSet(Event \X Event)
    BY SearchAssumption, FS_Product
  <2>2. IsFiniteSet(0..100)
    <3>1. 0 \in Int /\ 100 \in Int
      OBVIOUS
    <3> QED
      BY <3>1, FS_Interval
  <2> QED
    BY <2>1, <2>2, FS_Product
<1>2. f \in Surjection(triples, Search!Correlation)
  <2>1. f \in [triples -> Search!Correlation]
    BY DEF Search!Correlation
  <2>2. ASSUME NEW c \in Search!Correlation
        PROVE  \E t \in triples : f[t] = c
    <3>1. c = [source |-> c.source, target |-> c.target, score |-> c.score]
      BY DEF Search!Correlation
    <3>2. <<<<c.source, c.target>>, c.score>> \in triples
      BY DEF Search!Correlation
    <3> QED
      BY <3>1, <3>2
  <2> HIDE DEF f, triples
  <2> QED
    BY <2>1, <2>2 DEF Surjection
<1> HIDE DEF f, triples
<1>3. IsFiniteSet(Search!Correlation)
  BY <1>1, <1>2, FS_Surjection
<1> QED
  BY <1>3, FS_Subset, FS_CardinalityType

\* All rows are returned when there are no more than that.
LEMMA AllAreStrongest ==
  ASSUME NEW n \in Nat, NEW S, S \subseteq Search!Correlation, Cardinality(S) <= n
  PROVE  Search!Strongest(n, S) = S
<1> SUFFICES ASSUME NEW c \in S
             PROVE  Cardinality({d \in S : Search!Stronger(d, c)}) < n
  BY SameCardinality DEF Search!Strongest
<1> DEFINE before == {d \in S : Search!Stronger(d, c)}
<1>1. IsFiniteSet(S) /\ Cardinality(S) \in Nat
  BY CorrelationsAreFinite
<1>2. c \notin before
  <2>1. Event \subseteq Nat
    BY SearchAssumption
  <2>2. c.score \in 0..100 /\ c.source \in Event /\ c.target \in Event
    BY DEF Search!Correlation
  <2>3. c.score \in Int /\ c.source \in Int /\ c.target \in Int
    <3>1. \A x \in 0..100 : x \in Int
      OBVIOUS
    <3>2. \A x \in Event : x \in Int
      BY <2>1
    <3> QED
      BY <2>2, <3>1, <3>2
  <2> QED
    BY <2>3 DEF Search!Stronger
<1>3. before \in SUBSET S /\ before # S
  BY <1>2
<1> HIDE DEF before
<1>4. IsFiniteSet(before) /\ Cardinality(before) <= Cardinality(S)
      /\ (Cardinality(S) = Cardinality(before) => S = before)
  BY <1>1, <1>3, FS_Subset
<1>5. Cardinality(before) \in Nat
  BY <1>4, FS_CardinalityType
<1>6. Cardinality(before) < n
  BY <1>1, <1>3, <1>4, <1>5
<1> QED
  BY <1>6 DEF before

-----------------------------------------------------------------------------
(***************************************************************************)
(* The bounded search.                                                     *)
(***************************************************************************)

SearchTyped ==
  /\ stored \subseteq Search!Correlation
  /\ request \in Request
  /\ at \in {"level", "query", "rows", "build", "done"}
  /\ levels \in 0..request.depth
  /\ ids \subseteq Event /\ request.root \in ids
  /\ frontier \subseteq ids /\ found \subseteq ids /\ unqueried \subseteq frontier
  /\ rows \subseteq Search!Strong /\ collected \subseteq Search!Strong
  /\ truncated \in BOOLEAN

InLevel == at \in {"query", "rows"}

\* The correlations that are read touch the frontier, those that are followed join
\* events that are found, and there is room for these.
Followed ==
  /\ at # "rows" => rows = {}
  /\ ~InLevel => unqueried = {}
  /\ \A c \in rows : Search!Ends(c) \cap frontier # {}
  /\ \A c \in collected : Search!Ends(c) \subseteq ids
  /\ Cardinality(ids) <= request.limit

\* Each event was reached in as many steps as levels were begun, and the events of
\* the frontier in one less.
Reached ==
  /\ ids \subseteq Near(request.root, collected)[request.depth - levels]
  /\ InLevel => /\ levels < request.depth
                /\ frontier \subseteq Near(request.root, collected)[request.depth - levels - 1]

\* The events whose correlations were read.
Asked == ids \ (IF InLevel THEN found \cup unqueried ELSE frontier)

\* Of the correlations of these events none was lost but to the limit on events,
\* unless a query had too many rows.
Covered ==
  ~truncated \/ Cardinality(Search!Strong) <= Search!Cap =>
    \A c \in Search!Strong : Search!Ends(c) \cap Asked # {} =>
      \/ c \in collected \cup rows
      \/ /\ truncated
         /\ Cardinality(ids) >= request.limit
         /\ ~(Search!Ends(c) \subseteq ids)

\* The edges that could be drawn between the nodes of the answer.
Drawable == Search!Joining(Search!EdgesOf(ids, collected), nodes)

\* An answer that is not truncated left no event unasked and no node out; the edges
\* are cut only to a full answer.
Ended ==
  /\ at \in {"build", "done"} /\ ~truncated /\ request.depth > 0 => frontier = {}
  /\ at = "done" /\ ~truncated => nodes = Search!NodesOf(ids)
  /\ at = "done" => /\ edges \subseteq Drawable
                    /\ edges = Drawable \/ Cardinality(edges) = Search!Cap

SearchInv == SearchTyped /\ Followed /\ Reached /\ Covered /\ Ended

LEMMA RequestIs ==
  ASSUME request \in Request
  PROVE  /\ request.root \in Event /\ request.depth \in 0..8 /\ request.limit \in 1..MaxLimit
         /\ request.limit \in Nat /\ Search!Cap \in Nat
<1>1. request \in [root : Event, depth : 0..8, limit : 1..MaxLimit,
                   minScore : 0..100, entities : BOOLEAN]
  <2>1. Request \subseteq [root : Event, depth : 0..8, limit : 1..MaxLimit,
                           minScore : 0..100, entities : BOOLEAN]
    BY SearchAssumption
  <2> QED
    BY <2>1
<1>2. request.limit \in Nat /\ RowsPerNode \in Nat
  <2>1. RowsPerNode \in Nat \ {0}
    BY SearchAssumption
  <2>2. request.limit \in 1..MaxLimit
    BY <1>1
  <2>3. MaxLimit \in Nat
    BY DEF MaxLimit
  <2> QED
    BY <2>1, <2>2, <2>3
<1>3. \A m, n \in Nat : m * n \in Nat
  OBVIOUS
<1>4. Search!Cap \in Nat
  BY <1>2, <1>3 DEF Search!Cap
<1> QED
  BY <1>1, <1>2, <1>4

LEMMA StrongIsStored == Search!Strong \subseteq stored
BY DEF Search!Strong

LEMMA EndsAreEvents ==
  ASSUME NEW c \in Search!Correlation
  PROVE  Search!Ends(c) \subseteq Event
BY DEF Search!Ends, Search!Correlation

LEMMA SearchInit ==
  ASSUME Search!Init
  PROVE  SearchInv
<1> USE DEF Search!Init
<1>1. /\ stored \subseteq Search!Correlation /\ request \in Request
      /\ request.root \in Event /\ request.depth \in 0..8 /\ request.limit \in 1..MaxLimit
  BY RequestIs, SearchAssumption
<1>2. SearchTyped
  <2>1. levels \in 0..request.depth
    BY <1>1
  <2>2. truncated \in BOOLEAN /\ at \in {"level", "query", "rows", "build", "done"}
    OBVIOUS
  <2> QED
    BY <1>1, <2>1, <2>2 DEF SearchTyped
<1>3. Cardinality({request.root}) = 1
  BY FS_Singleton
<1>4. Followed
  BY <1>1, <1>3 DEF Followed, InLevel
<1>5. request.depth - levels = 0
  BY <1>1
<1>6. Reached
  BY <1>5, NearIs DEF Reached, InLevel
<1>7. Asked = {}
  BY DEF Asked, InLevel
<1>8. Covered
  BY <1>7 DEF Covered
<1>9. Ended
  BY DEF Ended
<1> QED
  BY <1>2, <1>4, <1>6, <1>8, <1>9 DEF SearchInv

LEMMA BeginLevelKeeps ==
  ASSUME SearchInv, Search!BeginLevel
  PROVE  SearchInv'
<1> USE DEF Search!BeginLevel
<1>1. request' = request /\ Search!Strong' = Search!Strong /\ Search!Cap' = Search!Cap
  BY DEF Search!Strong, Search!Cap
<1>2. /\ request.depth \in 0..8 /\ levels \in 1..request.depth /\ levels' \in 0..request.depth
      /\ request.depth - levels \in 0..7
      /\ request.depth - levels' - 1 = request.depth - levels
      /\ request.depth - levels' = (request.depth - levels) + 1
      /\ levels' < request.depth
  <2>1. request.depth \in 0..8 /\ levels \in 0..request.depth
    BY RequestIs DEF SearchInv, SearchTyped
  <2> QED
    BY <2>1 DEF Search!MoreLevels
<1>3. SearchTyped'
  BY <1>1, <1>2 DEF SearchInv, SearchTyped
<1>4. Followed'
  BY <1>1 DEF SearchInv, SearchTyped, Followed, InLevel
<1>5. Reached'
  <2> DEFINE k == request.depth - levels
  <2>1. ids \subseteq Near(request.root, collected)[k]
    BY DEF SearchInv, Reached
  <2>2. Near(request.root, collected)[k] \subseteq Near(request.root, collected)[k + 1]
    BY <1>2, NearOrdered
  <2>3. frontier \subseteq ids
    BY DEF SearchInv, SearchTyped
  <2>4. ids' \subseteq Near(request.root, collected)[request.depth - levels']
    BY <2>1, <2>2, <1>2
  <2>5. frontier' \subseteq Near(request.root, collected)[request.depth - levels' - 1]
    BY <2>1, <2>3, <1>2
  <2> QED
    BY <1>1, <1>2, <2>4, <2>5 DEF Reached
<1>6. Asked' = Asked
  BY DEF Asked, InLevel
<1>7. Covered'
  BY <1>1, <1>6 DEF SearchInv, Covered
<1>8. Ended'
  BY DEF Ended
<1> QED
  BY <1>3, <1>4, <1>5, <1>7, <1>8 DEF SearchInv

LEMMA QueryKeeps ==
  ASSUME SearchInv, Search!Query
  PROVE  SearchInv'
<1> DEFINE batch == Search!Lowest(QueryEvents, unqueried)
           matching == {c \in Search!Strong : Search!Ends(c) \cap batch # {}}
<1>1. /\ at = "query" /\ at' = "rows"
      /\ unqueried' = unqueried \ batch
      /\ rows' = Search!Strongest(Search!Cap, matching)
      /\ truncated' = (truncated \/ Cardinality(matching) > Search!Cap)
      /\ UNCHANGED <<stored, request, levels, ids, frontier, found, collected>>
  BY SameCardinality DEF Search!Query
<1>2. batch \subseteq unqueried
  BY DEF Search!Lowest
<1>3. matching \subseteq Search!Strong /\ \A c \in matching : Search!Ends(c) \cap batch # {}
  OBVIOUS
<1>4. rows' \subseteq matching
  BY <1>1 DEF Search!Strongest
<1>5. Search!Strong' = Search!Strong /\ Search!Cap' = Search!Cap
  BY <1>1 DEF Search!Strong, Search!Cap
<1>6. /\ Search!Strong \subseteq Search!Correlation /\ Search!Cap \in Nat
      /\ IsFiniteSet(Search!Strong) /\ Cardinality(Search!Strong) \in Nat
  BY StrongIsStored, RequestIs, CorrelationsAreFinite DEF SearchInv, SearchTyped
<1>7. Cardinality(matching) \in Nat /\ Cardinality(matching) <= Cardinality(Search!Strong)
  BY <1>3, <1>6, FS_Subset, FS_CardinalityType
<1>8. Cardinality(matching) <= Search!Cap => rows' = matching
  BY <1>1, <1>3, <1>6, AllAreStrongest
<1>9. ASSUME NEW c \in Search!Strong, Search!Ends(c) \cap batch # {}
      PROVE  c \in matching
  BY <1>9
<1> HIDE DEF batch, matching
<1>10. SearchTyped'
  BY <1>1, <1>2, <1>3, <1>4, <1>5 DEF SearchInv, SearchTyped
<1>11. Followed'
  BY <1>1, <1>2, <1>3, <1>4, <1>5 DEF SearchInv, SearchTyped, Followed, InLevel
<1>12. Reached'
  BY <1>1 DEF SearchInv, Reached, InLevel
<1>13. Covered'
  <2> SUFFICES ASSUME (~truncated \/ Cardinality(Search!Strong) <= Search!Cap)',
                      NEW c \in Search!Strong, Search!Ends(c) \cap Asked' # {}
               PROVE  \/ c \in (collected \cup rows)'
                      \/ /\ truncated'
                         /\ Cardinality(ids') >= request'.limit
                         /\ ~(Search!Ends(c) \subseteq ids')
    BY <1>5 DEF Covered
  <2>1. Asked' \subseteq Asked \cup batch
    BY <1>1 DEF Asked, InLevel
  <2>2. ~truncated \/ Cardinality(Search!Strong) <= Search!Cap
    BY <1>1, <1>5
  <2>3. Cardinality(matching) <= Search!Cap
    <3>1. CASE ~truncated'
      <4>1. ~(Cardinality(matching) > Search!Cap)
        BY <1>1, <3>1, Zenon
      <4> QED
        BY <4>1, <1>6, <1>7
    <3>2. CASE Cardinality(Search!Strong') <= Search!Cap'
      BY <3>2, <1>5, <1>6, <1>7
    <3> QED
      BY <3>1, <3>2
  <2>4. CASE Search!Ends(c) \cap batch # {}
    BY <2>3, <2>4, <1>8, <1>9
  <2>5. CASE Search!Ends(c) \cap Asked # {}
    <3>1. \/ c \in collected \cup rows
          \/ /\ truncated
             /\ Cardinality(ids) >= request.limit
             /\ ~(Search!Ends(c) \subseteq ids)
      BY <2>2, <2>5 DEF SearchInv, Covered
    <3>2. rows = {}
      BY <1>1 DEF SearchInv, Followed
    <3> QED
      BY <1>1, <3>1, <3>2
  <2> QED
    BY <2>1, <2>4, <2>5
<1>14. Ended'
  BY <1>1 DEF Ended
<1> QED
  BY <1>10, <1>11, <1>12, <1>13, <1>14 DEF SearchInv

\* A row touches an event that is found, so it brings one at most.
LEMMA RowsBringOne ==
  ASSUME SearchInv, NEW c \in rows
  PROVE  /\ c \in Search!Strong /\ c \in Search!Correlation
         /\ Search!Ends(c) \subseteq Event
         /\ IsFiniteSet(Search!Ends(c) \ ids) /\ Cardinality(Search!Ends(c) \ ids) \in 0..1
         /\ Cardinality(Search!Ends(c) \ ids) = 0 => Search!Ends(c) \subseteq ids
         /\ IsFiniteSet(ids) /\ Cardinality(ids) \in Nat
<1>1. c \in Search!Strong /\ c \in Search!Correlation /\ Search!Ends(c) \subseteq Event
  BY StrongIsStored, EndsAreEvents DEF SearchInv, SearchTyped
<1>2. IsFiniteSet(ids) /\ Cardinality(ids) \in Nat
  BY EventsAreFinite DEF SearchInv, SearchTyped
<1>3. Search!Ends(c) \cap ids # {}
  BY DEF SearchInv, SearchTyped, Followed
<1>4. Search!Ends(c) = {c.source, c.target}
  BY DEF Search!Ends
<1>5. \/ Search!Ends(c) \ ids = {}
      \/ Search!Ends(c) \ ids = {c.source}
      \/ Search!Ends(c) \ ids = {c.target}
  BY <1>3, <1>4
<1>6. /\ IsFiniteSet(Search!Ends(c) \ ids)
      /\ \/ Search!Ends(c) \ ids = {} /\ Cardinality(Search!Ends(c) \ ids) = 0
         \/ Cardinality(Search!Ends(c) \ ids) = 1
  <2>1. IsFiniteSet({}) /\ Cardinality({}) = 0
    BY FS_EmptySet
  <2>2. \A x : IsFiniteSet({x}) /\ Cardinality({x}) = 1
    BY FS_Singleton
  <2> QED
    BY <1>5, <2>1, <2>2
<1> QED
  BY <1>1, <1>2, <1>6

LEMMA FollowKeeps ==
  ASSUME SearchInv, at = "rows", NEW c \in rows, rows' = rows \ {c},
         Search!Fits(c), Search!Follow(c),
         UNCHANGED <<stored, request, at, levels, frontier, unqueried>>
  PROVE  SearchInv'
<1> DEFINE missing == Search!Ends(c) \ ids
<1>1. /\ ids' = ids \cup missing
      /\ found' = found \cup missing
      /\ collected' = collected \cup {c}
      /\ truncated' = truncated
      /\ Cardinality(ids) + Cardinality(missing) <= request.limit
  BY SameCardinality DEF Search!Follow, Search!Fits
<1>2. /\ c \in Search!Strong /\ c \in Search!Correlation
      /\ Search!Ends(c) \subseteq Event
      /\ IsFiniteSet(missing) /\ Cardinality(missing) \in 0..1
      /\ Cardinality(missing) = 0 => Search!Ends(c) \subseteq ids
      /\ IsFiniteSet(ids) /\ Cardinality(ids) \in Nat
  BY RowsBringOne
<1>3. Search!Strong' = Search!Strong /\ Search!Cap' = Search!Cap
  BY DEF Search!Strong, Search!Cap
<1>4. missing \subseteq Event /\ Search!Ends(c) \subseteq ids' /\ ids \cap missing = {}
  BY <1>1, <1>2
<1> HIDE DEF missing
<1>5. SearchTyped'
  BY <1>1, <1>2, <1>3, <1>4 DEF SearchInv, SearchTyped
<1>6. Cardinality(ids') <= request.limit
  <2>1. Cardinality(ids') = Cardinality(ids) + Cardinality(missing) - Cardinality(ids \cap missing)
    BY <1>1, <1>2, FS_Union
  <2>2. Cardinality(ids \cap missing) = 0
    BY <1>4, FS_EmptySet
  <2>3. request.limit \in Nat /\ Cardinality(missing) \in Nat
    BY <1>2, RequestIs DEF SearchInv, SearchTyped
  <2> QED
    BY <1>1, <1>2, <2>1, <2>2, <2>3
<1>7. Followed'
  BY <1>1, <1>4, <1>6 DEF SearchInv, Followed, InLevel
<1>8. Reached'
  <2> DEFINE n == request.depth - levels
  <2>1. levels < request.depth /\ request.depth \in 0..8 /\ levels \in 0..request.depth
    BY RequestIs DEF SearchInv, SearchTyped, Reached, InLevel
  <2>2. n \in 1..8 /\ n - 1 \in 0..8
    BY <2>1
  <2>3. /\ ids \subseteq Near(request.root, collected)[n]
        /\ frontier \subseteq Near(request.root, collected)[n - 1]
    BY DEF SearchInv, Reached, InLevel
  <2>4. Search!Ends(c) \cap frontier # {}
    BY DEF SearchInv, Followed
  <2> HIDE DEF n
  <2>5. /\ Near(request.root, collected)[n] \subseteq Near(request.root, collected')[n]
        /\ Near(request.root, collected)[n - 1] \subseteq Near(request.root, collected')[n - 1]
    BY <1>1, <2>2, NearMonotone
  <2>6. Search!Ends(c) \subseteq Near(request.root, collected')[n]
    <3>1. c \in collected' /\ Search!Ends(c) \cap Near(request.root, collected')[n - 1] # {}
      BY <1>1, <2>3, <2>4, <2>5
    <3> QED
      BY <1>2, <2>2, <3>1, NearReaches
  <2>7. ids' \subseteq Near(request.root, collected')[n]
    BY <1>1, <2>3, <2>5, <2>6 DEF missing
  <2>8. frontier \subseteq Near(request.root, collected')[n - 1]
    BY <2>3, <2>5
  <2> QED
    BY <2>1, <2>7, <2>8 DEF Reached, n
<1>9. Covered'
  <2> SUFFICES ASSUME (~truncated \/ Cardinality(Search!Strong) <= Search!Cap)',
                      NEW d \in Search!Strong, Search!Ends(d) \cap Asked' # {}
               PROVE  \/ d \in (collected \cup rows)'
                      \/ /\ truncated'
                         /\ Cardinality(ids') >= request'.limit
                         /\ ~(Search!Ends(d) \subseteq ids')
    BY <1>3 DEF Covered
  <2>1. Asked' \subseteq Asked
    BY <1>1 DEF Asked, InLevel
  <2>2. ~truncated \/ Cardinality(Search!Strong) <= Search!Cap
    BY <1>1, <1>3
  <2>3. \/ d \in collected \cup rows
        \/ /\ truncated
           /\ Cardinality(ids) >= request.limit
           /\ ~(Search!Ends(d) \subseteq ids)
    BY <2>1, <2>2 DEF SearchInv, Covered
  <2>4. CASE d \in collected \cup rows
    BY <1>1, <2>4
  <2>5. CASE truncated /\ Cardinality(ids) >= request.limit /\ ~(Search!Ends(d) \subseteq ids)
    <3>1. request.limit \in Nat
      BY RequestIs DEF SearchInv, SearchTyped
    <3>2. Cardinality(missing) = 0
      BY <1>1, <1>2, <2>5, <3>1
    <3>3. ids' = ids
      BY <1>1, <1>2, <3>2 DEF missing
    <3> QED
      BY <1>1, <2>5, <3>3
  <2> QED
    BY <2>3, <2>4, <2>5
<1>10. Ended'
  BY DEF Ended
<1> QED
  BY <1>5, <1>7, <1>8, <1>9, <1>10 DEF SearchInv

LEMMA SkipKeeps ==
  ASSUME SearchInv, at = "rows", NEW c \in rows, rows' = rows \ {c},
         ~Search!Fits(c), Search!Skip(c),
         UNCHANGED <<stored, request, at, levels, frontier, unqueried>>
  PROVE  SearchInv'
<1> USE DEF Search!Skip
<1>1. Search!Strong' = Search!Strong /\ Search!Cap' = Search!Cap
  BY DEF Search!Strong, Search!Cap
<1>2. Cardinality(ids) >= request.limit /\ ~(Search!Ends(c) \subseteq ids)
  <2>1. ~(Cardinality(ids) + Cardinality(Search!Ends(c) \ ids) <= request.limit)
    BY SameCardinality DEF Search!Fits
  <2>2. /\ request.limit \in Nat /\ Cardinality(ids) \in Nat
        /\ Cardinality(Search!Ends(c) \ ids) \in 0..1
    BY RowsBringOne, RequestIs DEF SearchInv, SearchTyped
  <2>3. Cardinality(ids) <= request.limit
    BY DEF SearchInv, Followed
  <2>4. Cardinality(ids) >= request.limit /\ Cardinality(Search!Ends(c) \ ids) # 0
    BY <2>1, <2>2, <2>3
  <2>5. Search!Ends(c) \subseteq ids => Search!Ends(c) \ ids = {}
    OBVIOUS
  <2> QED
    BY <2>4, <2>5, FS_EmptySet
<1>3. SearchTyped'
  BY <1>1 DEF SearchInv, SearchTyped
<1>4. Followed'
  BY DEF SearchInv, Followed, InLevel
<1>5. Reached'
  BY DEF SearchInv, Reached, InLevel
<1>6. Asked' = Asked
  BY DEF Asked, InLevel
<1>7. Covered'
  <2> SUFFICES ASSUME (~truncated \/ Cardinality(Search!Strong) <= Search!Cap)',
                      NEW d \in Search!Strong, Search!Ends(d) \cap Asked # {}
               PROVE  \/ d \in (collected \cup rows)'
                      \/ /\ truncated'
                         /\ Cardinality(ids') >= request'.limit
                         /\ ~(Search!Ends(d) \subseteq ids')
    BY <1>1, <1>6 DEF Covered
  <2>1. Cardinality(Search!Strong) <= Search!Cap
    BY <1>1
  <2>2. \/ d \in collected \cup rows
        \/ /\ truncated
           /\ Cardinality(ids) >= request.limit
           /\ ~(Search!Ends(d) \subseteq ids)
    BY <2>1 DEF SearchInv, Covered
  <2>3. CASE d = c
    BY <1>2, <2>3
  <2>4. CASE d # c
    BY <2>2, <2>4
  <2> QED
    BY <2>3, <2>4
<1>8. Ended'
  BY DEF Ended
<1> QED
  BY <1>3, <1>4, <1>5, <1>7, <1>8 DEF SearchInv

LEMMA ReadRowKeeps ==
  ASSUME SearchInv, Search!ReadRow
  PROVE  SearchInv'
<1>1. PICK c \in Search!Strongest(1, rows) :
        /\ rows' = rows \ {c}
        /\ IF Search!Fits(c) THEN Search!Follow(c) ELSE Search!Skip(c)
  BY DEF Search!ReadRow
<1>2. c \in rows
  BY DEF Search!Strongest
<1>3. at = "rows" /\ UNCHANGED <<stored, request, at, levels, frontier, unqueried>>
  BY DEF Search!ReadRow
<1> QED
  BY <1>1, <1>2, <1>3, FollowKeeps, SkipKeeps

LEMMA RowsReadKeeps ==
  ASSUME SearchInv, Search!RowsRead
  PROVE  SearchInv'
<1> USE DEF Search!RowsRead, Search!search
<1>1. Search!Strong' = Search!Strong /\ Search!Cap' = Search!Cap
  BY DEF Search!Strong, Search!Cap
<1>2. SearchTyped'
  BY <1>1 DEF SearchInv, SearchTyped
<1>3. Followed'
  BY DEF SearchInv, Followed, InLevel
<1>4. Reached'
  BY DEF SearchInv, Reached, InLevel
<1>5. Asked' = Asked
  BY DEF Asked, InLevel
<1>6. Covered'
  BY <1>1, <1>5 DEF SearchInv, Covered
<1>7. Ended'
  BY DEF Ended
<1> QED
  BY <1>2, <1>3, <1>4, <1>6, <1>7 DEF SearchInv

LEMMA EndLevelKeeps ==
  ASSUME SearchInv, Search!EndLevel
  PROVE  SearchInv'
<1> USE DEF Search!EndLevel
<1>1. Search!Strong' = Search!Strong /\ Search!Cap' = Search!Cap
  BY DEF Search!Strong, Search!Cap
<1>2. SearchTyped'
  BY <1>1 DEF SearchInv, SearchTyped
<1>3. Followed'
  BY DEF SearchInv, Followed, InLevel
<1>4. Reached'
  BY DEF SearchInv, Reached, InLevel
<1>5. Asked' = Asked
  BY DEF Asked, InLevel
<1>6. Covered'
  BY <1>1, <1>5 DEF SearchInv, Covered
<1>7. Ended'
  BY DEF Ended
<1> QED
  BY <1>2, <1>3, <1>4, <1>6, <1>7 DEF SearchInv

LEMMA EndSearchKeeps ==
  ASSUME SearchInv, Search!EndSearch
  PROVE  SearchInv'
<1> USE DEF Search!EndSearch
<1>1. Search!Strong' = Search!Strong /\ Search!Cap' = Search!Cap
  BY DEF Search!Strong, Search!Cap
<1>2. truncated \in BOOLEAN /\ truncated' \in BOOLEAN /\ (truncated => truncated')
  BY Zenon DEF SearchInv, SearchTyped
<1>3. SearchTyped'
  BY <1>1, <1>2 DEF SearchInv, SearchTyped
<1>4. Followed'
  BY DEF SearchInv, Followed, InLevel
<1>5. Reached'
  BY DEF SearchInv, Reached, InLevel
<1>6. Asked' = Asked
  BY DEF Asked, InLevel
<1>7. Covered'
  BY <1>1, <1>2, <1>6 DEF SearchInv, Covered
<1>8. ~truncated' /\ request.depth > 0 => frontier = {}
  BY Zenon
<1>9. Ended'
  BY <1>8 DEF Ended
<1> QED
  BY <1>3, <1>4, <1>5, <1>7, <1>9 DEF SearchInv

LEMMA NodesAreFinite ==
  ASSUME NEW some, some \subseteq Event
  PROVE  IsFiniteSet(Search!NodesOf(some)) /\ Cardinality(Search!NodesOf(some)) \in Nat
<1> DEFINE entities == UNION {Mentions[e] : e \in some}
           mentioned == [e \in some |-> Mentions[e]]
<1>1. IsFiniteSet(some)
  BY EventsAreFinite
<1>2. IsFiniteSet({Mentions[e] : e \in some})
  <2>1. mentioned \in Surjection(some, {Mentions[e] : e \in some})
    BY DEF Surjection
  <2> QED
    BY <1>1, <2>1, FS_Surjection
<1>3. \A e \in some : IsFiniteSet(Mentions[e])
  BY SearchAssumption
<1>4. IsFiniteSet(entities)
  BY <1>2, <1>3, FS_UNION
<1> HIDE DEF entities
<1>5. IsFiniteSet(some \cup entities)
  BY <1>1, <1>4, FS_Union
<1>6. Search!NodesOf(some) = IF request.entities THEN entities ELSE some \cup entities
  BY DEF Search!NodesOf, entities
<1> QED
  BY <1>4, <1>5, <1>6, FS_CardinalityType

LEMMA BuildKeeps ==
  ASSUME SearchInv, Search!Build
  PROVE  SearchInv'
<1> DEFINE wanted == Search!NodesOf(ids)
<1>1. /\ at = "build" /\ at' = "done"
      /\ truncated' = (truncated \/ Cardinality(wanted) > request.limit)
      /\ UNCHANGED <<stored, request, levels, ids, frontier, unqueried, rows, found,
                     collected>>
  BY SameCardinality DEF Search!Build
<1>2. PICK kept \in SUBSET wanted :
        /\ kept # wanted => Cardinality(kept) = request.limit
        /\ nodes' = kept
        /\ edges' \in Search!EdgesLeft(Search!EdgesOf(ids, collected), kept)
  BY SameCardinality DEF Search!Build, Search!FirstOf
<1>3. Search!Strong' = Search!Strong /\ Search!Cap' = Search!Cap /\ wanted' = wanted
  BY <1>1 DEF Search!Strong, Search!Cap, Search!NodesOf
<1>4. IsFiniteSet(wanted) /\ Cardinality(wanted) \in Nat
  BY NodesAreFinite DEF SearchInv, SearchTyped
<1> HIDE DEF wanted
<1>5. truncated \in BOOLEAN /\ truncated' \in BOOLEAN /\ (truncated => truncated')
  BY <1>1, Zenon DEF SearchInv, SearchTyped
<1>6. SearchTyped'
  BY <1>1, <1>3, <1>5 DEF SearchInv, SearchTyped
<1>7. Followed'
  BY <1>1 DEF SearchInv, Followed, InLevel
<1>8. Reached'
  BY <1>1 DEF SearchInv, Reached, InLevel
<1>9. Asked' = Asked
  BY <1>1 DEF Asked, InLevel
<1>10. Covered'
  BY <1>1, <1>3, <1>5, <1>9 DEF SearchInv, Covered
<1>11. ~truncated' => nodes' = wanted
  <2> SUFFICES ASSUME ~truncated', kept # wanted
               PROVE  FALSE
    BY <1>2
  <2>1. ~(Cardinality(wanted) > request.limit)
    BY <1>1, Zenon
  <2>2. /\ IsFiniteSet(kept) /\ Cardinality(kept) <= Cardinality(wanted)
        /\ Cardinality(wanted) # Cardinality(kept)
    BY <1>2, <1>4, FS_Subset
  <2>3. request.limit \in Nat
    BY RequestIs DEF SearchInv, SearchTyped
  <2> QED
    BY <1>2, <1>4, <2>1, <2>2, <2>3
<1>12. /\ edges' \subseteq Drawable'
       /\ edges' = Drawable' \/ Cardinality(edges') = Search!Cap'
  <2>1. Drawable' = Search!Joining(Search!EdgesOf(ids, collected), kept)
    BY <1>1, <1>2 DEF Drawable, Search!Joining, Search!EdgesOf, Search!Draws
  <2>2. edges' \in Search!FirstOf(Search!Cap, Drawable')
    BY <1>2, <2>1 DEF Search!EdgesLeft
  <2> HIDE DEF Drawable
  <2>3. /\ edges' \subseteq Drawable'
        /\ edges' # Drawable' => Cardinality(edges') = Search!Cap
    BY <2>2, SameCardinality DEF Search!FirstOf
  <2> QED
    BY <1>3, <2>3
<1>13. Ended'
  BY <1>1, <1>3, <1>5, <1>11, <1>12 DEF SearchInv, Ended, wanted
<1> QED
  BY <1>6, <1>7, <1>8, <1>10, <1>13 DEF SearchInv

LEMMA SearchStep ==
  ASSUME SearchInv, Search!Next
  PROVE  SearchInv'
BY BeginLevelKeeps, QueryKeeps, ReadRowKeeps, RowsReadKeeps, EndLevelKeeps, EndSearchKeeps,
   BuildKeeps DEF Search!Next

LEMMA FoundIsNear ==
  ASSUME SearchInv
  PROVE  /\ ids = Near(request.root, collected)[request.depth - levels]
         /\ ids \subseteq Near(request.root, Search!Strong)[request.depth]
<1> DEFINE n == request.depth - levels
<1>1. n \in 0..8 /\ n \in 0..request.depth /\ request.depth \in 0..8
  <2>1. request.depth \in 0..8 /\ levels \in 0..request.depth
    BY RequestIs DEF SearchInv, SearchTyped
  <2> QED
    BY <2>1
<1>2. ids \subseteq Near(request.root, collected)[n]
  BY DEF SearchInv, Reached
<1> HIDE DEF n
<1>3. Near(request.root, collected)[n] \subseteq ids
  <2>1. request.root \in ids /\ \A c \in collected : Search!Ends(c) \subseteq ids
    BY DEF SearchInv, SearchTyped, Followed
  <2> QED
    BY <1>1, <2>1, NearStaysIn
<1>4. /\ Near(request.root, collected)[n] \subseteq Near(request.root, Search!Strong)[n]
      /\ Near(request.root, Search!Strong)[n]
                \subseteq Near(request.root, Search!Strong)[request.depth]
  <2>1. collected \subseteq Search!Strong
    BY DEF SearchInv, SearchTyped
  <2> QED
    BY <1>1, <2>1, NearMonotone, NearOrdered
<1> QED
  BY <1>2, <1>3, <1>4 DEF n

LEMMA SearchIsNear ==
  ASSUME SearchInv
  PROVE  Search!ResultIsNear
<1>1. Cardinality(ids) <= request.limit
  BY DEF SearchInv, Followed
<1> QED
  BY <1>1, FoundIsNear, WithinIsNear, SameCardinality DEF Search!ResultIsNear

LEMMA SearchIsComplete ==
  ASSUME SearchInv
  PROVE  Search!UntruncatedIsComplete
<1> SUFFICES ASSUME at = "done", ~truncated, request.depth > 0
             PROVE  /\ ids = Near(request.root, Search!Strong)[8]
                    /\ nodes = Search!NodesOf(ids)
                    /\ collected = {c \in Search!Strong : Search!Ends(c) \subseteq ids}
                    /\ edges \subseteq Drawable
                    /\ edges = Drawable \/ Search!EdgesAreFull
  BY WithinIsNear DEF Search!UntruncatedIsComplete, Drawable
<1>7. edges \subseteq Drawable /\ (edges = Drawable \/ Search!EdgesAreFull)
  BY SameCardinality DEF SearchInv, Ended, Search!EdgesAreFull
<1>1. nodes = Search!NodesOf(ids) /\ frontier = {} /\ rows = {}
  BY DEF SearchInv, Ended, Followed
<1>2. Asked = ids
  BY <1>1 DEF Asked, InLevel
<1>3. \A c \in Search!Strong : Search!Ends(c) \cap ids # {} => c \in collected
  BY <1>1, <1>2 DEF SearchInv, Covered
<1>4. \A c \in collected : c \in Search!Strong /\ Search!Ends(c) \subseteq ids
  BY DEF SearchInv, SearchTyped, Followed
<1>5. \A c \in Search!Strong : Search!Ends(c) # {}
  BY DEF Search!Ends
<1>6. ids = Near(request.root, Search!Strong)[8]
  <2>1. Near(request.root, Search!Strong)[8] \subseteq ids
    <3>1. request.root \in ids
      BY DEF SearchInv, SearchTyped
    <3> QED
      BY <1>3, <1>4, <3>1, NearStaysIn
  <2>2. request.depth \in 0..8
    BY RequestIs DEF SearchInv, SearchTyped
  <2>3. Near(request.root, Search!Strong)[request.depth]
            \subseteq Near(request.root, Search!Strong)[8]
    BY <2>2, NearOrdered
  <2> QED
    BY <2>1, <2>3, FoundIsNear
<1> QED
  BY <1>1, <1>3, <1>4, <1>5, <1>6, <1>7

LEMMA SearchKeepsCorrelations ==
  ASSUME SearchInv
  PROVE  Search!KeptEventsKeepTheirCorrelations
<1> SUFFICES ASSUME at = "done", Cardinality(Search!Strong) <= Search!Cap,
                    NEW c \in Search!Strong, Search!Ends(c) \subseteq ids \cap nodes,
                    Search!Ends(c) \cap (ids \ frontier) # {}
             PROVE  \/ Search!Edge(c.source, c.target, "CORRELATED_WITH") \in edges
                    \/ Search!EdgesAreFull
  BY SameCardinality DEF Search!KeptEventsKeepTheirCorrelations
<1> DEFINE edge == Search!Edge(c.source, c.target, "CORRELATED_WITH")
<1>1. Asked = ids \ frontier /\ rows = {}
  BY DEF Asked, InLevel, SearchInv, Followed
<1>2. c \in collected
  BY <1>1 DEF SearchInv, Covered
<1>3. edge \in Drawable
  <2>1. edge \in Search!EdgesOf(ids, collected)
    <3>1. edge \in {Search!Edge(d.source, d.target, "CORRELATED_WITH") : d \in collected}
      BY <1>2
    <3> QED
      BY <3>1, Zenon DEF Search!EdgesOf
  <2>2. edge.source \in nodes /\ edge.target \in nodes
    BY DEF Search!Edge, Search!Ends
  <2> QED
    BY <2>1, <2>2 DEF Drawable, Search!Joining
<1> QED
  BY <1>3, SameCardinality DEF SearchInv, Ended, Search!EdgesAreFull

-----------------------------------------------------------------------------
(***************************************************************************)
(* Reasons: a rule asked in the other order of the events gives the same   *)
(* reasons, those of one direction with their sides exchanged.             *)
(***************************************************************************)

Opposite(side) == CASE side = "left" -> "right" [] side = "right" -> "left" [] OTHER -> side
Mirror(m) == [rule |-> m.rule, score |-> m.score, side |-> Opposite(m.side)]
Flip(reasons) == {Mirror(m) : m \in reasons}

IsReason(m) ==
  /\ m = [rule |-> m.rule, score |-> m.score, side |-> m.side]
  /\ m.score \in Int
  /\ m.side \in {"left", "right", "pair"}

\* The reasons of a rule, and those it gives in the other order.
Fair(reasons, reversed) ==
  /\ IsFiniteSet(reasons)
  /\ \A m \in reasons : IsReason(m)
  /\ reversed = Flip(reasons)

LEMMA EmptyFair == Fair({}, {})
BY FS_EmptySet DEF Fair, Flip

LEMMA OneFair ==
  ASSUME NEW m, NEW n, IsReason(m), n = Mirror(m)
  PROVE  Fair({m}, {n})
<1>1. IsFiniteSet({m})
  BY FS_Singleton
<1>2. Flip({m}) = {Mirror(m)}
  BY DEF Flip
<1> QED
  BY <1>1, <1>2 DEF Fair

LEMMA PairFair ==
  ASSUME NEW rule, NEW score \in Int
  PROVE  Fair({Index!Reason(rule, score, "pair")}, {Index!Reason(rule, score, "pair")})
<1> DEFINE m == Index!Reason(rule, score, "pair")
<1>1. Mirror(m) = m /\ IsReason(m)
  BY DEF Mirror, IsReason, Opposite, Index!Reason
<1> QED
  BY <1>1, OneFair

LEMMA SideFair ==
  ASSUME NEW rule, NEW score \in Int
  PROVE  /\ Fair({Index!Reason(rule, score, "left")}, {Index!Reason(rule, score, "right")})
         /\ Fair({Index!Reason(rule, score, "right")}, {Index!Reason(rule, score, "left")})
<1> DEFINE m == Index!Reason(rule, score, "left")
           n == Index!Reason(rule, score, "right")
<1>1. Mirror(m) = n /\ Mirror(n) = m /\ IsReason(m) /\ IsReason(n)
  BY DEF Mirror, IsReason, Opposite, Index!Reason
<1> QED
  BY <1>1, OneFair

LEMMA UnionFair ==
  ASSUME NEW A, NEW B, NEW C, NEW D, Fair(A, B), Fair(C, D)
  PROVE  Fair(A \cup C, B \cup D)
BY FS_Union DEF Fair, Flip

\* What the order does not change of a set of reasons.
LEMMA FairKeepsRules ==
  ASSUME NEW A, NEW B, Fair(A, B)
  PROVE  /\ \A rules : Index!HasRule(A, rules) <=> Index!HasRule(B, rules)
         /\ (\E m \in A : m.score >= 25) <=> (\E m \in B : m.score >= 25)
         /\ (\E m \in A : m.rule \in Index!Anchors /\ m.score >= 35)
              <=> (\E m \in B : m.rule \in Index!Anchors /\ m.score >= 35)
         /\ A = {} <=> B = {}
<1>1. \A m \in A : Mirror(m) \in B /\ Mirror(m).rule = m.rule /\ Mirror(m).score = m.score
  BY DEF Fair, Flip, Mirror
<1>2. \A n \in B : \E m \in A : n = Mirror(m) /\ m.rule = n.rule /\ m.score = n.score
  BY DEF Fair, Flip, Mirror
<1>3. \A rules : Index!HasRule(A, rules) <=> Index!HasRule(B, rules)
  BY <1>1, <1>2 DEF Index!HasRule
<1>4. (\E m \in A : m.score >= 25) <=> (\E m \in B : m.score >= 25)
  BY <1>1, <1>2
<1>5. (\E m \in A : m.rule \in Index!Anchors /\ m.score >= 35)
        <=> (\E m \in B : m.rule \in Index!Anchors /\ m.score >= 35)
  BY <1>1, <1>2
<1>6. A = {} <=> B = {}
  BY <1>1, <1>2
<1> QED
  BY <1>3, <1>4, <1>5, <1>6

LEMMA FairThree ==
  ASSUME NEW A1, NEW A2, NEW A3, NEW B1, NEW B2, NEW B3,
         Fair(A1, B1), Fair(A2, B2), Fair(A3, B3)
  PROVE  Fair(UNION {A1, A2, A3}, UNION {B1, B2, B3})
<1>1. /\ UNION {A1, A2, A3} = (A1 \cup A2) \cup A3
      /\ UNION {B1, B2, B3} = (B1 \cup B2) \cup B3
  OBVIOUS
<1>2. Fair(A1 \cup A2, B1 \cup B2)
  BY UnionFair
<1> QED
  BY <1>1, <1>2, UnionFair

LEMMA FairFive ==
  ASSUME NEW A1, NEW A2, NEW A3, NEW A4, NEW A5,
         NEW B1, NEW B2, NEW B3, NEW B4, NEW B5,
         Fair(A1, B1), Fair(A2, B2), Fair(A3, B3), Fair(A4, B4), Fair(A5, B5)
  PROVE  Fair(UNION {A1, A2, A3, A4, A5}, UNION {B1, B2, B3, B4, B5})
<1>1. /\ UNION {A1, A2, A3, A4, A5} = UNION {UNION {A1, A2, A3}, A4, A5}
      /\ UNION {B1, B2, B3, B4, B5} = UNION {UNION {B1, B2, B3}, B4, B5}
  OBVIOUS
<1>2. Fair(UNION {A1, A2, A3}, UNION {B1, B2, B3})
  BY FairThree
<1> QED
  BY <1>1, <1>2, FairThree

LEMMA FairSix ==
  ASSUME NEW A1, NEW A2, NEW A3, NEW A4, NEW A5, NEW A6,
         Fair(A1, A1), Fair(A2, A2), Fair(A3, A3), Fair(A4, A4), Fair(A5, A5), Fair(A6, A6)
  PROVE  Fair(UNION {A1, A2, A3, A4, A5, A6}, UNION {A1, A2, A3, A4, A5, A6})
<1>1. UNION {A1, A2, A3, A4, A5, A6} = UNION {UNION {A1, A2, A3}, UNION {A4, A5, A6}, A6}
  OBVIOUS
<1>2. /\ Fair(UNION {A1, A2, A3}, UNION {A1, A2, A3})
      /\ Fair(UNION {A4, A5, A6}, UNION {A4, A5, A6})
  BY FairThree
<1> QED
  BY <1>1, <1>2, FairThree

\* A distance is the same from both ends.
LEMMA DistanceIsEven ==
  ASSUME NEW x \in Int, NEW y \in Int
  PROVE  /\ Index!Distance(x, y) \in Nat
         /\ Index!Distance(x, y) = Index!Distance(y, x)
BY DEF Index!Distance

LEMMA TemporalFair ==
  ASSUME NEW l, NEW r, Observed(l), Observed(r)
  PROVE  Fair(Index!TemporalReasons(l, r), Index!TemporalReasons(r, l))
<1> DEFINE rule == "temporal_proximity"
           timed == ~Index!Extracted(l) /\ ~Index!Extracted(r)
           gap == Index!Distance(l.time, r.time)
           a == Index!When(timed /\ gap <= 2, rule, 30)
           b == Index!When(timed /\ gap \in 3..5, rule, 25)
           c == Index!When(timed /\ gap \in 6..30, rule, 15)
           d == Index!When(timed /\ gap \in 31..60, rule, 5)
<1>1. Index!TemporalReasons(l, r) = UNION {a, b, c, d}
  BY DEF Index!TemporalReasons
<1>2. Index!TemporalReasons(r, l) = UNION {a, b, c, d}
  <2>1. gap = Index!Distance(r.time, l.time)
    BY DistanceIsEven DEF Observed
  <2>2. (~Index!Extracted(l) /\ ~Index!Extracted(r))
            <=> (~Index!Extracted(r) /\ ~Index!Extracted(l))
    OBVIOUS
  <2> QED
    BY <2>1, <2>2 DEF Index!TemporalReasons, Index!When
<1>3. Fair(a, a) /\ Fair(b, b) /\ Fair(c, c) /\ Fair(d, d)
  BY EmptyFair, PairFair DEF Index!When
<1> HIDE DEF a, b, c, d
<1>4. Fair(UNION {a, b, c}, UNION {a, b, c})
  BY <1>3, FairThree
<1>5. UNION {a, b, c, d} = UNION {UNION {a, b, c}, d, d}
  OBVIOUS
<1> QED
  BY <1>1, <1>2, <1>3, <1>4, <1>5, FairThree

\* Known and Clash take their two sides alike.
LEMMA KnownIsEven == \A x, y : /\ Index!Known(x, y) <=> Index!Known(y, x)
                               /\ Index!Clash(x, y) <=> Index!Clash(y, x)
BY DEF Index!Known, Index!Clash

LEMMA WithinIsEven ==
  ASSUME NEW l, NEW r, Observed(l), Observed(r), NEW n
  PROVE  Index!Within(l, r, n) <=> Index!Within(r, l, n)
BY DistanceIsEven DEF Index!Within, Observed

LEMMA SameProcessFair ==
  ASSUME NEW l, NEW r, Observed(l), Observed(r)
  PROVE  Fair(Index!SameProcessReasons(l, r), Index!SameProcessReasons(r, l))
<1> DEFINE a == l.process
           b == r.process
           lifetimes == a.created # None /\ b.created # None
           refuted == \/ Index!Clash(a.created, b.created)
                      \/ ~Index!ScopedSame(a, b) /\ ~lifetimes /\ ~Index!Within(l, r, 60)
                      \/ Index!Clash(a.path, b.path)
                      \/ Index!Clash(a.name, b.name)
           m1 == Index!When(Index!ScopedSame(a, b), "same_process_instance", 55)
           m2 == Index!When(~Index!ScopedSame(a, b), "same_process_id", 35)
           m3 == Index!When(lifetimes, "same_process_creation", 20)
           m4 == Index!When(Index!Known(a.name, b.name), "same_process_name", 5)
           m5 == Index!When(Index!Known(a.path, b.path), "same_executable_path", 10)
           m6 == Index!When(a.command # {} /\ a.command = b.command, "same_command_line", 10)
<1>1. /\ Index!ScopedSame(a, b) <=> Index!ScopedSame(b, a)
      /\ Index!Within(l, r, 60) <=> Index!Within(r, l, 60)
      /\ a.command # {} /\ a.command = b.command <=> b.command # {} /\ b.command = a.command
  BY WithinIsEven DEF Index!ScopedSame, Index!Known
<1>2. Index!SameProcessReasons(l, r) = IF refuted THEN {} ELSE UNION {m1, m2, m3, m4, m5, m6}
  BY DEF Index!SameProcessReasons
<1>3. /\ m1 = Index!When(Index!ScopedSame(b, a), "same_process_instance", 55)
      /\ m2 = Index!When(~Index!ScopedSame(b, a), "same_process_id", 35)
      /\ m3 = Index!When(b.created # None /\ a.created # None, "same_process_creation", 20)
      /\ m4 = Index!When(Index!Known(b.name, a.name), "same_process_name", 5)
      /\ m5 = Index!When(Index!Known(b.path, a.path), "same_executable_path", 10)
      /\ m6 = Index!When(b.command # {} /\ b.command = a.command, "same_command_line", 10)
  BY <1>1, KnownIsEven DEF Index!When
<1>4. refuted <=>
         \/ Index!Clash(b.created, a.created)
         \/ /\ ~Index!ScopedSame(b, a) /\ ~(b.created # None /\ a.created # None)
            /\ ~Index!Within(r, l, 60)
         \/ Index!Clash(b.path, a.path)
         \/ Index!Clash(b.name, a.name)
  BY <1>1, KnownIsEven
<1>5. Index!SameProcessReasons(r, l) = IF refuted THEN {} ELSE UNION {m1, m2, m3, m4, m5, m6}
  <2> HIDE DEF m1, m2, m3, m4, m5, m6, refuted
  <2> QED
    BY <1>3, <1>4 DEF Index!SameProcessReasons
<1>6. /\ Fair(m1, m1) /\ Fair(m2, m2) /\ Fair(m3, m3) /\ Fair(m4, m4) /\ Fair(m5, m5)
      /\ Fair(m6, m6)
  BY EmptyFair, PairFair DEF Index!When
<1> HIDE DEF m1, m2, m3, m4, m5, m6, refuted
<1>7. Fair(UNION {m1, m2, m3, m4, m5, m6}, UNION {m1, m2, m3, m4, m5, m6})
  BY <1>6, FairSix
<1> QED
  BY <1>2, <1>5, <1>7, EmptyFair

LEMMA ComparableIsEven ==
  ASSUME NEW l, NEW r
  PROVE  /\ Index!ScopedParent(l.process, r.process) <=> Index!ScopedParent(r.process, l.process)
         /\ Index!Comparable(l, r) <=> Index!Comparable(r, l)
<1>1. /\ Index!ScopedParent(l.process, r.process) <=> Index!ScopedParent(r.process, l.process)
      /\ Index!ScopedSame(l.process, r.process) <=> Index!ScopedSame(r.process, l.process)
      /\ Index!SameHost(l, r) <=> Index!SameHost(r, l)
      /\ \A x, y : Index!Known(x, y) <=> Index!Known(y, x)
  BY DEF Index!ScopedParent, Index!ScopedSame, Index!SameHost, Index!Known
<1> QED
  BY <1>1 DEF Index!Comparable

LEMMA ProcessFair ==
  ASSUME NEW l, NEW r, Observed(l), Observed(r)
  PROVE  Fair(Index!ProcessReasons(l, r), Index!ProcessReasons(r, l))
<1>1. CASE l.process = None \/ r.process = None \/ ~Index!Comparable(l, r)
  BY <1>1, ComparableIsEven, EmptyFair DEF Index!ProcessReasons
<1>2. CASE ~(l.process = None \/ r.process = None \/ ~Index!Comparable(l, r))
  <2>1. CASE Index!ScopedParent(l.process, r.process)
    BY <1>2, <2>1, ComparableIsEven, PairFair DEF Index!ProcessReasons
  <2>2. CASE ~Index!ScopedParent(l.process, r.process) /\ l.process.pid = r.process.pid
    BY <1>2, <2>2, ComparableIsEven, SameProcessFair DEF Index!ProcessReasons
  <2>3. CASE ~Index!ScopedParent(l.process, r.process) /\ l.process.pid # r.process.pid
    <3> DEFINE hit == Index!IsParent(l, r) \/ Index!IsParent(r, l)
               m == Index!When(hit, "parent_process", 40)
    <3>1. Index!ProcessReasons(l, r) = m
      BY <1>2, <2>3 DEF Index!ProcessReasons
    <3>2. Index!ProcessReasons(r, l) = Index!When(Index!IsParent(r, l) \/ Index!IsParent(l, r),
                                                  "parent_process", 40)
      BY <1>2, <2>3, ComparableIsEven DEF Index!ProcessReasons
    <3>3. m = Index!When(Index!IsParent(r, l) \/ Index!IsParent(l, r), "parent_process", 40)
      BY DEF Index!When
    <3>4. Fair(m, m)
      BY EmptyFair, PairFair DEF Index!When
    <3> QED
      BY <3>1, <3>2, <3>3, <3>4
  <2> QED
    BY <2>1, <2>2, <2>3
<1> QED
  BY <1>1, <1>2

\* What two directions find, in the order of the sides.
LEMMA DirectionsFair ==
  ASSUME NEW A, NEW B, NEW C, NEW D, Fair(A, B), Fair(C, D)
  PROVE  Fair(A \cup C, D \cup B)
<1>1. B \cup D = D \cup B
  OBVIOUS
<1> QED
  BY <1>1, UnionFair

LEMMA FileLookupFair ==
  ASSUME NEW origin, NEW target
  PROVE  /\ Fair(Index!FileLookup("left", origin, target),
                 Index!FileLookup("right", origin, target))
         /\ Fair(Index!FileLookup("right", origin, target),
                 Index!FileLookup("left", origin, target))
<1>1. CASE target.file = None
  BY <1>1, EmptyFair DEF Index!FileLookup
<1>2. CASE target.file # None
  <2> DEFINE path == target.file.path
             name == Index!Base(target.file)
             named == name # None /\ Index!BarePath(name) \in Index!Tokens(origin)
             full == path # None /\ path \in Index!Tokens(origin)
             launcher == /\ origin.process # None
                         /\ origin.process.path # None
                         /\ origin.process.path.base = name
                         /\ Index!Clash(origin.process.path, path)
             listed == origin.file # None /\ path # None /\ path \in origin.file.references
             A(side) == Index!WhenFrom(side, full, "command_line_file_path", 50)
             B(side) == Index!WhenFrom(side, ~full /\ named /\ ~launcher,
                                       "command_line_filename", 25)
             C(side) == Index!WhenFrom(side, listed, "prefetch_reference", 45)
  <2>1. \A side : Index!FileLookup(side, origin, target) = UNION {A(side), B(side), C(side)}
    BY <1>2 DEF Index!FileLookup
  <2>2. /\ Fair(A("left"), A("right")) /\ Fair(B("left"), B("right")) /\ Fair(C("left"), C("right"))
        /\ Fair(A("right"), A("left")) /\ Fair(B("right"), B("left")) /\ Fair(C("right"), C("left"))
    BY EmptyFair, SideFair DEF Index!WhenFrom
  <2> HIDE DEF A, B, C
  <2>3. /\ Fair(UNION {A("left"), B("left"), C("left")}, UNION {A("right"), B("right"), C("right")})
        /\ Fair(UNION {A("right"), B("right"), C("right")}, UNION {A("left"), B("left"), C("left")})
    BY <2>2, FairThree
  <2> QED
    BY <2>1, <2>3
<1> QED
  BY <1>1, <1>2

LEMMA SameFileFair ==
  ASSUME NEW l, NEW r
  PROVE  Fair(Index!SameFileReasons(l, r), Index!SameFileReasons(r, l))
<1> DEFINE a == l.file
           b == r.file
           m1 == Index!When(Index!Known(Index!Digest(l), Index!Digest(r)), "same_sha256", 60)
           m2 == Index!When(Index!Known(a.path, b.path), "same_file_path", 45)
           m3 == Index!When(~Index!Known(a.path, b.path) /\
                            Index!Known(Index!Base(a), Index!Base(b)),
                            "same_filename", 10)
<1>1. Index!SameFileReasons(l, r) = UNION {m1, m2, m3}
  BY DEF Index!SameFileReasons
<1>2. /\ m1 = Index!When(Index!Known(Index!Digest(r), Index!Digest(l)), "same_sha256", 60)
      /\ m2 = Index!When(Index!Known(b.path, a.path), "same_file_path", 45)
      /\ m3 = Index!When(~Index!Known(b.path, a.path) /\ Index!Known(Index!Base(b), Index!Base(a)),
                         "same_filename", 10)
  BY KnownIsEven DEF Index!When
<1>3. Fair(m1, m1) /\ Fair(m2, m2) /\ Fair(m3, m3)
  BY EmptyFair, PairFair DEF Index!When
<1> HIDE DEF m1, m2, m3
<1>4. Index!SameFileReasons(r, l) = UNION {m1, m2, m3}
  BY <1>2 DEF Index!SameFileReasons
<1> QED
  BY <1>1, <1>3, <1>4, FairThree

LEMMA FileFair ==
  ASSUME NEW l, NEW r
  PROVE  Fair(Index!FileReasons(l, r), Index!FileReasons(r, l))
<1> DEFINE Both(x, y) == x.file # None /\ y.file # None
           Same(x, y) == IF Both(x, y) THEN Index!SameFileReasons(x, y) ELSE {}
           Looked(x, y) == Index!FileLookup("left", x, y) \cup Index!FileLookup("right", y, x)
           Matches(x, y) == Same(x, y) \cup Looked(x, y)
           Strong(x, y) == \E m \in Matches(x, y) : m.score >= 25
           Support(x, y) == Index!When(Strong(x, y) /\ (x.ntfs \/ y.ntfs),
                                       "ntfs_artifact_support", 5)
           Refuted(x, y) == Both(x, y) /\ Index!Clash(Index!Digest(x), Index!Digest(y))
<1>1. \A x, y : Index!FileReasons(x, y) =
                  IF Refuted(x, y) THEN {} ELSE Matches(x, y) \cup Support(x, y)
  BY DEF Index!FileReasons, Index!BothWays
<1>2. Fair(Matches(l, r), Matches(r, l))
  <2>1. Fair(Same(l, r), Same(r, l))
    BY SameFileFair, EmptyFair
  <2>2. Fair(Looked(l, r), Looked(r, l))
    BY FileLookupFair, DirectionsFair
  <2> QED
    BY <2>1, <2>2, UnionFair
<1>3. Strong(l, r) <=> Strong(r, l)
  <2> HIDE DEF Matches
  <2> QED
    BY <1>2, FairKeepsRules
<1>4. Refuted(l, r) <=> Refuted(r, l)
  BY KnownIsEven
<1>5. Support(l, r) = Support(r, l) /\ Fair(Support(l, r), Support(l, r))
  <2> HIDE DEF Strong
  <2> QED
    BY <1>3, EmptyFair, PairFair DEF Index!When
<1>6. Fair(Matches(l, r) \cup Support(l, r), Matches(r, l) \cup Support(r, l))
  <2> HIDE DEF Matches, Support
  <2> QED
    BY <1>2, <1>5, UnionFair
<1> HIDE DEF Matches, Support, Refuted
<1> QED
  BY <1>1, <1>4, <1>6, EmptyFair

LEMMA SeparationIs ==
  ASSUME NEW l, NEW r, Observed(l), Observed(r)
  PROVE  /\ Index!Separation(l, r) = Index!Separation(r, l)
         /\ Index!Separation(l, r) \in {0, l.time - Index!Ends(r), r.time - Index!Ends(l)}
         /\ Index!Separation(l, r) \in Nat
         /\ Index!Separation(l, r) >= l.time - Index!Ends(r)
         /\ Index!Separation(l, r) >= r.time - Index!Ends(l)
<1> DEFINE S == {0, l.time - Index!Ends(r), r.time - Index!Ends(l)}
<1>1. /\ Index!Ends(l) \in Int /\ Index!Ends(r) \in Int
      /\ l.time \in Int /\ r.time \in Int
  BY DEF Observed, Present, Index!Ends
<1>2. S = {0, r.time - Index!Ends(l), l.time - Index!Ends(r)}
  OBVIOUS
<1>3. Index!Separation(l, r) = Index!Max(S) /\ Index!Separation(r, l) = Index!Max(S)
  BY <1>2 DEF Index!Separation
<1>4. \E x \in S : \A y \in S : x >= y
  BY <1>1
<1>5. Index!Max(S) \in S /\ \A y \in S : Index!Max(S) >= y
  <2> HIDE DEF S
  <2> QED
    BY <1>4 DEF Index!Max
<1> QED
  BY <1>1, <1>3, <1>5

LEMMA TupleIsEven ==
  \A a, b : Index!SameTuple(a, b) <=> Index!SameTuple(b, a)
BY DEF Index!SameTuple

LEMMA EndpointIsEven ==
  ASSUME NEW l, NEW r
  PROVE  Index!SameEndpoint(l, r) <=> Index!SameEndpoint(r, l)
<1>1. /\ \A field \in {"protocol", "src", "sport"} :
             /\ Index!Clash(l.network[field], r.network[field])
                       <=> Index!Clash(r.network[field], l.network[field])
      /\ Index!SameHost(l, r) <=> Index!SameHost(r, l)
      /\ Index!Known(l.network.dst, r.network.dst) <=> Index!Known(r.network.dst, l.network.dst)
      /\ Index!Known(l.network.dport, r.network.dport)
                <=> Index!Known(r.network.dport, l.network.dport)
  BY KnownIsEven DEF Index!SameHost
<1> QED
  BY <1>1, TupleIsEven DEF Index!SameEndpoint

LEMMA ResolvedFair ==
  ASSUME NEW origin, NEW target
  PROVE  /\ Fair(Index!Resolved("left", origin, target), Index!Resolved("right", origin, target))
         /\ Fair(Index!Resolved("right", origin, target), Index!Resolved("left", origin, target))
<1> DEFINE dns == origin.network
           net == target.network
           answered == /\ dns.query # None
                    /\ net.dst \in dns.resolved
                    /\ Index!SameClient(Index!Client(dns), net.src, origin, target)
                    /\ target.time - origin.time \in 0..60
           A(side) == Index!WhenFrom(side, answered, "dns_resolved_destination", 40)
           B(side) == Index!WhenFrom(side, answered, "dns_preceded_connection", 10)
<1>1. \A side : Index!Resolved(side, origin, target) = A(side) \cup B(side)
  BY DEF Index!Resolved
<1>2. /\ Fair(A("left"), A("right")) /\ Fair(B("left"), B("right"))
      /\ Fair(A("right"), A("left")) /\ Fair(B("right"), B("left"))
  BY EmptyFair, SideFair DEF Index!WhenFrom
<1> HIDE DEF A, B
<1> QED
  BY <1>1, <1>2, UnionFair

LEMMA NetworkFair ==
  ASSUME NEW l, NEW r, Observed(l), Observed(r)
  PROVE  Fair(Index!NetworkReasons(l, r), Index!NetworkReasons(r, l))
<1> DEFINE Silent(x, y) == \/ Index!Extracted(x) \/ Index!Extracted(y)
                           \/ x.network = None \/ y.network = None
                           \/ Index!Separation(x, y) > 60
           Same(x, y) == Index!When(Index!SameTuple(x.network, y.network), "same_socket_tuple", 60)
           Overlap(x, y) == Index!When(/\ Index!SameTuple(x.network, y.network)
                                       /\ x.network.end # None \/ y.network.end # None
                                       /\ Index!Separation(x, y) = 0, "flow_temporal_overlap", 10)
           Endpoint(x, y) == Index!When(Index!SameEndpoint(x, y), "same_destination_endpoint", 40)
           Answers(x, y) == Index!Resolved("left", x, y) \cup Index!Resolved("right", y, x)
           Query(x, y) ==
             Index!When(/\ Index!Known(x.network.query, y.network.query)
                        /\ Index!SameClient(Index!Client(x.network), Index!Client(y.network), x, y)
                        /\ Index!SameHost(x, y) \/ x.network.id = y.network.id,
                        "same_dns_query", 35)
<1>1. \A x, y : Index!NetworkReasons(x, y) =
                  IF Silent(x, y) THEN {}
                  ELSE UNION {Same(x, y), Overlap(x, y), Endpoint(x, y), Answers(x, y), Query(x, y)}
  BY DEF Index!NetworkReasons, Index!BothWays
<1>2. Silent(l, r) <=> Silent(r, l)
  BY SeparationIs
<1>3. Same(r, l) = Same(l, r) /\ Fair(Same(l, r), Same(l, r))
  BY TupleIsEven, EmptyFair, PairFair DEF Index!When
<1>4. Overlap(r, l) = Overlap(l, r) /\ Fair(Overlap(l, r), Overlap(l, r))
  <2>1. Overlap(r, l) = Overlap(l, r)
    BY TupleIsEven, SeparationIs DEF Index!When
  <2>2. Fair(Overlap(l, r), Overlap(l, r))
    BY EmptyFair, PairFair DEF Index!When
  <2> QED
    BY <2>1, <2>2
<1>5. Endpoint(r, l) = Endpoint(l, r) /\ Fair(Endpoint(l, r), Endpoint(l, r))
  BY EndpointIsEven, EmptyFair, PairFair DEF Index!When
<1>6. Fair(Answers(l, r), Answers(r, l))
  BY ResolvedFair, DirectionsFair
<1>7. Query(r, l) = Query(l, r) /\ Fair(Query(l, r), Query(l, r))
  <2>1. /\ Index!SameHost(l, r) <=> Index!SameHost(r, l)
        /\ Index!SameClient(Index!Client(l.network), Index!Client(r.network), l, r)
              <=> Index!SameClient(Index!Client(r.network), Index!Client(l.network), r, l)
    BY KnownIsEven DEF Index!SameHost, Index!SameClient
  <2>2. Query(r, l) = Query(l, r)
    BY <2>1, KnownIsEven DEF Index!When
  <2>3. Fair(Query(l, r), Query(l, r))
    BY EmptyFair, PairFair DEF Index!When
  <2> QED
    BY <2>2, <2>3
<1> HIDE DEF Silent, Same, Overlap, Endpoint, Answers, Query
<1>8. Fair(UNION {Same(l, r), Overlap(l, r), Endpoint(l, r), Answers(l, r), Query(l, r)},
           UNION {Same(r, l), Overlap(r, l), Endpoint(r, l), Answers(r, l), Query(r, l)})
  BY <1>3, <1>4, <1>5, <1>6, <1>7, FairFive
<1> QED
  BY <1>1, <1>2, <1>8, EmptyFair

LEMMA ProgramLookupFair ==
  ASSUME NEW origin, NEW target
  PROVE  /\ Fair(Index!ProgramLookup("left", origin, target),
                 Index!ProgramLookup("right", origin, target))
         /\ Fair(Index!ProgramLookup("right", origin, target),
                 Index!ProgramLookup("left", origin, target))
<1>1. CASE origin.process = None
  BY <1>1, EmptyFair DEF Index!ProgramLookup
<1>2. CASE origin.process # None
  <2> DEFINE process == origin.process
             name == IF process.path # None THEN process.path.base ELSE process.name
             prefetched == target.prefetch # None /\ name = target.prefetch.executable
             paths == prefetched /\ process.path # None /\ target.prefetch.path # None
             agreed == paths /\ process.path = target.prefetch.path
             A(side) == Index!WhenFrom(side, agreed, "prefetch_executable_path", 50)
             B(side) == Index!WhenFrom(side, prefetched /\ ~paths /\ Index!Within(origin, target, 5),
                                       "prefetch_executable_name", 25)
             C(side) == Index!WhenFrom(side, /\ ~paths \/ agreed
                                             /\ target.registry /\ target.file # None
                                             /\ Index!Known(process.path, target.file.path),
                                       "amcache_executable_path", 50)
  <2>1. \A side : Index!ProgramLookup(side, origin, target) = UNION {A(side), B(side), C(side)}
    BY <1>2 DEF Index!ProgramLookup
  <2>2. /\ Fair(A("left"), A("right")) /\ Fair(A("right"), A("left"))
        /\ Fair(B("left"), B("right")) /\ Fair(B("right"), B("left"))
        /\ Fair(C("left"), C("right")) /\ Fair(C("right"), C("left"))
    <3>1. Fair(A("left"), A("right")) /\ Fair(A("right"), A("left"))
      BY EmptyFair, SideFair DEF Index!WhenFrom
    <3>2. Fair(B("left"), B("right")) /\ Fair(B("right"), B("left"))
      BY EmptyFair, SideFair DEF Index!WhenFrom
    <3>3. Fair(C("left"), C("right")) /\ Fair(C("right"), C("left"))
      BY EmptyFair, SideFair DEF Index!WhenFrom
    <3> QED
      BY <3>1, <3>2, <3>3
  <2> HIDE DEF A, B, C
  <2>3. /\ Fair(UNION {A("left"), B("left"), C("left")}, UNION {A("right"), B("right"), C("right")})
        /\ Fair(UNION {A("right"), B("right"), C("right")}, UNION {A("left"), B("left"), C("left")})
    BY <2>2, FairThree
  <2> QED
    BY <2>1, <2>3
<1> QED
  BY <1>1, <1>2

LEMMA SharedFileFair ==
  ASSUME NEW l, NEW r
  PROVE  Fair(Index!SharedFileReasons(l, r), Index!SharedFileReasons(r, l))
<1> DEFINE Mft(x, y) == Index!When(/\ Index!Known(x.file.mft, y.file.mft)
                                   /\ Index!SameHost(x, y), "same_mft_reference", 55)
           Object(x, y) == Index!When(/\ Index!Known(x.file.object, y.file.object)
                                      /\ Index!Known(x.acquisition, y.acquisition),
                                      "same_file_object", 55)
           Handle(x, y) == Index!When(Index!SharedPath(x, y) /\ (x.handle \/ y.handle),
                                      "handle_file_reference", 10)
           Module(x, y) == Index!When(Index!SharedPath(x, y) /\ (x.module \/ y.module),
                                      "dll_file_reference", 10)
           Key(x, y) == Index!When(Index!SharedPath(x, y) /\ (x.registry \/ y.registry),
                                   "registry_file_reference", 10)
<1>1. \A x, y : Index!SharedFileReasons(x, y) =
                  UNION {Mft(x, y), Object(x, y), Handle(x, y), Module(x, y), Key(x, y)}
  BY DEF Index!SharedFileReasons
<1>2. /\ Index!SameHost(l, r) <=> Index!SameHost(r, l)
      /\ Index!SharedPath(l, r) <=> Index!SharedPath(r, l)
  BY KnownIsEven DEF Index!SameHost, Index!SharedPath
<1>3. Mft(l, r) = Mft(r, l) /\ Fair(Mft(l, r), Mft(l, r))
  BY <1>2, KnownIsEven, EmptyFair, PairFair DEF Index!When
<1>4. Object(l, r) = Object(r, l) /\ Fair(Object(l, r), Object(l, r))
  BY KnownIsEven, EmptyFair, PairFair DEF Index!When
<1>5. Handle(l, r) = Handle(r, l) /\ Fair(Handle(l, r), Handle(l, r))
  BY <1>2, EmptyFair, PairFair DEF Index!When
<1>6. Module(l, r) = Module(r, l) /\ Fair(Module(l, r), Module(l, r))
  BY <1>2, EmptyFair, PairFair DEF Index!When
<1>7. Key(l, r) = Key(r, l) /\ Fair(Key(l, r), Key(l, r))
  BY <1>2, EmptyFair, PairFair DEF Index!When
<1> HIDE DEF Mft, Object, Handle, Module, Key
<1> QED
  BY <1>1, <1>3, <1>4, <1>5, <1>6, <1>7, FairFive

LEMMA ArtifactFair ==
  ASSUME NEW l, NEW r, Observed(l), Observed(r)
  PROVE  Fair(Index!ArtifactReasons(l, r), Index!ArtifactReasons(r, l))
<1> DEFINE Both(x, y) == x.file # None /\ y.file # None
           Refuted(x, y) == Both(x, y) /\ Index!Clash(x.file.sha256, y.file.sha256)
           Shared(x, y) == IF Both(x, y) THEN Index!SharedFileReasons(x, y) ELSE {}
           Looked(x, y) == Index!ProgramLookup("left", x, y) \cup Index!ProgramLookup("right", y, x)
           Named(x, y) == /\ x.network # None /\ y.network # None
                          /\ Index!Domains(x) \cap Index!Domains(y) # {}
                          /\ x.network.tls \/ y.network.tls
                          /\ Index!Known(Index!Client(x.network), Index!Client(y.network))
                          /\ Index!Within(x, y, 60)
           Greeting(x, y) == Index!When(Named(x, y), "tls_sni_domain", 40)
<1>1. \A x, y : Index!ArtifactReasons(x, y) =
                  IF Refuted(x, y) THEN {} ELSE UNION {Shared(x, y), Looked(x, y), Greeting(x, y)}
  BY DEF Index!ArtifactReasons, Index!BothWays
<1>2. Refuted(l, r) <=> Refuted(r, l)
  BY KnownIsEven
<1>3. Fair(Shared(l, r), Shared(r, l))
  BY SharedFileFair, EmptyFair
<1>4. Fair(Looked(l, r), Looked(r, l))
  BY ProgramLookupFair, DirectionsFair
<1>5. Named(l, r) <=> Named(r, l)
  <2>1. Index!Domains(l) \cap Index!Domains(r) = Index!Domains(r) \cap Index!Domains(l)
    OBVIOUS
  <2> QED
    BY <2>1, KnownIsEven, WithinIsEven
<1>6. Greeting(r, l) = Greeting(l, r) /\ Fair(Greeting(l, r), Greeting(l, r))
  <2> HIDE DEF Named
  <2> QED
    BY <1>5, EmptyFair, PairFair DEF Index!When
<1> HIDE DEF Refuted, Shared, Looked, Greeting
<1>7. Fair(UNION {Shared(l, r), Looked(l, r), Greeting(l, r)},
           UNION {Shared(r, l), Looked(r, l), Greeting(r, l)})
  BY <1>3, <1>4, <1>6, FairThree
<1> QED
  BY <1>1, <1>2, <1>7, EmptyFair

LEMMA NegativeFair ==
  ASSUME NEW l, NEW r, Observed(l), Observed(r)
  PROVE  Fair(Index!NegativeReasons(l, r), Index!NegativeReasons(r, l))
<1> DEFINE Dated(x, y) == ~Index!Extracted(x) /\ ~Index!Extracted(y)
           Outside(x, y) == Index!When(Index!OutsideLifetime(x, y) \/ Index!OutsideLifetime(y, x),
                                       "process_lifetime_conflict", -100)
           Blurred(x, y) == Index!When(Dated(x, y) /\ (x.imprecise \/ y.imprecise),
                                       "timestamp_precision_penalty", -10)
           Apart(x, y) == Index!When(Dated(x, y) /\ Index!FarApart(x, y), "temporal_distance", -30)
<1>1. \A x, y : Index!NegativeReasons(x, y) = UNION {Outside(x, y), Blurred(x, y), Apart(x, y)}
  BY DEF Index!NegativeReasons
<1>2. Index!FarApart(l, r) <=> Index!FarApart(r, l)
  BY SeparationIs, KnownIsEven DEF Index!FarApart
<1>3. Outside(l, r) = Outside(r, l) /\ Fair(Outside(l, r), Outside(l, r))
  BY EmptyFair, PairFair DEF Index!When
<1>4. Blurred(l, r) = Blurred(r, l) /\ Fair(Blurred(l, r), Blurred(l, r))
  BY EmptyFair, PairFair DEF Index!When
<1>5. Apart(l, r) = Apart(r, l) /\ Fair(Apart(l, r), Apart(l, r))
  BY <1>2, EmptyFair, PairFair DEF Index!When
<1> HIDE DEF Outside, Blurred, Apart
<1> QED
  BY <1>1, <1>3, <1>4, <1>5, FairThree

LEMMA RulesFair ==
  ASSUME NEW l, NEW r, Observed(l), Observed(r)
  PROVE  Fair(Index!RuleReasons(l, r), Index!RuleReasons(r, l))
BY TemporalFair, ProcessFair, FileFair, NetworkFair, ArtifactFair, FairFive DEF Index!RuleReasons

LEMMA IncompatibleIsEven ==
  ASSUME NEW l, NEW r
  PROVE  Index!Incompatible(l, r) <=> Index!Incompatible(r, l)
BY KnownIsEven DEF Index!Incompatible

LEMMA KeptFair ==
  ASSUME NEW l, NEW r, Observed(l), Observed(r)
  PROVE  Fair(Index!KeptReasons(l, r), Index!KeptReasons(r, l))
<1> DEFINE Rules(x, y) == Index!RuleReasons(x, y)
           Against(x, y) == Index!NegativeReasons(x, y)
           More(x, y) == Index!Corroboration(x, y, Rules(x, y))
           Passed(x, y) == \/ Index!Incompatible(x, y)
                           \/ ~Index!HasRule(Rules(x, y), Index!Anchors)
                           \/ Index!HasRule(Against(x, y), {"process_lifetime_conflict"})
                           \/ /\ Index!HasRule(Against(x, y), {"temporal_distance"})
                              /\ ~Index!HasRule(Rules(x, y), Index!Lasting)
<1>1. \A x, y : Index!KeptReasons(x, y) =
                  IF Passed(x, y) THEN {} ELSE UNION {Rules(x, y), More(x, y), Against(x, y)}
  BY DEF Index!KeptReasons
<1>2. Fair(Rules(l, r), Rules(r, l)) /\ Fair(Against(l, r), Against(r, l))
  BY RulesFair, NegativeFair
<1> HIDE DEF Rules, Against
<1>3. Passed(l, r) <=> Passed(r, l)
  BY <1>2, FairKeepsRules, IncompatibleIsEven
<1>4. More(r, l) = More(l, r) /\ Fair(More(l, r), More(l, r))
  BY <1>2, FairKeepsRules, EmptyFair, PairFair DEF Index!Corroboration, Index!When
<1> HIDE DEF More, Passed
<1>5. Fair(UNION {Rules(l, r), More(l, r), Against(l, r)},
           UNION {Rules(r, l), More(r, l), Against(r, l)})
  BY <1>2, <1>4, FairThree
<1> QED
  BY <1>1, <1>3, <1>5, EmptyFair

-----------------------------------------------------------------------------
(***************************************************************************)
(* The sum of the scores, which is defined by a recursive function over    *)
(* the sets of reasons, adds up in any order, and that of the reversed     *)
(* reasons is the same.                                                    *)
(***************************************************************************)

\* A nonempty family of subsets of a finite set has a smallest member.
LEMMA SmallestMember ==
  ASSUME NEW S, IsFiniteSet(S), NEW family \in SUBSET SUBSET S, family # {}
  PROVE  \E T \in family : \A U \in family : U \subseteq T => U = T
<1>1. IsWellFoundedOn(StrictSubsetOrdering(S), SUBSET S)
  BY FS_FiniteSubsetsOfFinite, FS_StrictSubsetOrderingWellFounded
<1>2. \E T \in family : \A U \in family : ~(<<U, T>> \in StrictSubsetOrdering(S))
  BY <1>1, WFMin
<1> QED
  BY <1>2 DEF StrictSubsetOrdering

LEMMA ImageIsFinite ==
  ASSUME NEW S, IsFiniteSet(S), NEW image, DOMAIN image = S
  PROVE  IsFiniteSet({image[x] : x \in S})
<1> DEFINE f == [x \in S |-> image[x]]
           all == {image[x] : x \in S}
<1>1. f \in Surjection(S, all)
  BY DEF Surjection
<1>2. IsFiniteSet(all)
  <2> HIDE DEF f, all
  <2> QED
    BY <1>1, FS_Surjection
<1> QED
  BY <1>2

\* So has a family that gives every member of a nonempty set one.
LEMMA SmallestImage ==
  ASSUME NEW S, IsFiniteSet(S), S # {}, NEW f \in [S -> SUBSET S]
  PROVE  \E x \in S : \A z \in S : f[z] \subseteq f[x] => f[z] = f[x]
<1> DEFINE family == {f[x] : x \in S}
<1>1. family \in SUBSET SUBSET S
  OBVIOUS
<1>2. \A x \in S : f[x] \in family
  OBVIOUS
<1>3. \A T \in family : \E x \in S : T = f[x]
  OBVIOUS
<1> HIDE DEF family
<1>4. family # {}
  BY <1>2
<1>5. PICK T \in family : \A U \in family : U \subseteq T => U = T
  BY <1>1, <1>4, SmallestMember
<1> QED
  BY <1>2, <1>3, <1>5

\* The members of a set greater than one of them: the greatest has the fewest.
Above(S, x) == {y \in S : y > x}

LEMMA FewestAbove ==
  ASSUME NEW S, IsFiniteSet(S), S # {}
  PROVE  \E x \in S : \A z \in S : Above(S, z) \subseteq Above(S, x) => Above(S, z) = Above(S, x)
<1> DEFINE above == [x \in S |-> Above(S, x)]
<1>1. above \in [S -> SUBSET S] /\ \A x \in S : above[x] = Above(S, x)
  BY DEF Above
<1> HIDE DEF above
<1>2. \E x \in S : \A z \in S : above[z] \subseteq above[x] => above[z] = above[x]
  BY <1>1, SmallestImage
<1> QED
  BY <1>1, <1>2

\* A nonempty finite set of integers has a greatest and a least member.
LEMMA GreatestInteger ==
  ASSUME NEW S, IsFiniteSet(S), S \subseteq Int, S # {}
  PROVE  \E x \in S : \A y \in S : x >= y
<1>1. PICK x \in S : \A z \in S : Above(S, z) \subseteq Above(S, x) => Above(S, z) = Above(S, x)
  BY FewestAbove
<1>2. ASSUME NEW y \in S, y > x
      PROVE  FALSE
  <2>1. ASSUME NEW z \in Above(S, y) PROVE z \in Above(S, x)
    <3>1. z \in S /\ z > y /\ z \in Int /\ y \in Int /\ x \in Int
      BY <2>1 DEF Above
    <3>2. z > x
      BY <1>2, <3>1
    <3> QED
      BY <3>1, <3>2 DEF Above
  <2>2. y \in Above(S, x) /\ y \notin Above(S, y)
    BY <1>2 DEF Above
  <2> QED
    BY <1>1, <2>1, <2>2
<1>3. \A y \in S : x >= y
  BY <1>2
<1> QED
  BY <1>3

LEMMA LeastInteger ==
  ASSUME NEW S, IsFiniteSet(S), S \subseteq Int, S # {}
  PROVE  \E x \in S : \A y \in S : x <= y
<1> DEFINE opposite == [x \in S |-> -x]
           T == {opposite[x] : x \in S}
<1>1. T \subseteq Int /\ T # {}
  <2>1. \A x \in S : opposite[x] \in Int
    OBVIOUS
  <2>2. PICK x : x \in S
    OBVIOUS
  <2>3. opposite[x] \in T
    BY <2>2
  <2> HIDE DEF opposite
  <2> QED
    BY <2>1, <2>3
<1>2. IsFiniteSet(T)
  BY ImageIsFinite
<1>3. PICK t \in T : \A u \in T : t >= u
  <2> HIDE DEF T
  <2> QED
    BY <1>1, <1>2, GreatestInteger
<1>4. PICK x \in S : t = -x
  OBVIOUS
<1>5. \A y \in S : -y \in T
  OBVIOUS
<1>6. ASSUME NEW y \in S PROVE x <= y
  <2>1. x \in Int /\ y \in Int /\ -x >= -y
    BY <1>3, <1>4, <1>5
  <2> QED
    BY <2>1
<1> QED
  BY <1>6

LEMMA MaxIsGreatest ==
  ASSUME NEW S, IsFiniteSet(S), S \subseteq Int, S # {}
  PROVE  Builder!Max(S) \in S /\ \A x \in S : x <= Builder!Max(S)
<1>1. PICK x \in S : \A y \in S : x >= y
  BY GreatestInteger
<1>2. Builder!Max(S) \in S /\ \A y \in S : Builder!Max(S) >= y
  BY <1>1 DEF Builder!Max
<1> QED
  BY <1>2

LEMMA MinIsLeast ==
  ASSUME NEW S, IsFiniteSet(S), S \subseteq Int, S # {}
  PROVE  Builder!Min(S) \in S /\ \A x \in S : Builder!Min(S) <= x
BY LeastInteger DEF Builder!Min

FirstOf(S) == CHOOSE x \in S : TRUE

LEMMA FirstIsIn == ASSUME NEW S, S # {} PROVE FirstOf(S) \in S
BY DEF FirstOf

AddsUp(f, S) ==
  f = [s \in SUBSET S |-> IF s = {} THEN 0 ELSE FirstOf(s).score + f[s \ {FirstOf(s)}]]

Sums(S) == CHOOSE f : AddsUp(f, S)
Total(S) == Sums(S)[S]

LEMMA RawScoreIsTotal ==
  ASSUME NEW S
  PROVE  Index!RawScore(S) = Total(S)
BY DEF Index!RawScore, Index!MapThenSumSet, Index!MapThenFoldSet, Total, Sums, AddsUp, FirstOf

\* Two such functions agree where both are defined.
LEMMA SumsAgree ==
  ASSUME NEW S, IsFiniteSet(S), NEW T \in SUBSET S, NEW f, NEW g, AddsUp(f, S), AddsUp(g, T)
  PROVE  \A s \in SUBSET T : f[s] = g[s]
<1> DEFINE family == {s \in SUBSET T : f[s] # g[s]}
<1>1. SUFFICES ASSUME family # {} PROVE FALSE
  OBVIOUS
<1>2. PICK s \in family : \A u \in family : u \subseteq s => u = s
  <2>1. family \in SUBSET SUBSET S
    OBVIOUS
  <2> HIDE DEF family
  <2> QED
    BY <1>1, <2>1, SmallestMember
<1>3. \A u \in SUBSET T : /\ f[u] = IF u = {} THEN 0 ELSE FirstOf(u).score + f[u \ {FirstOf(u)}]
                          /\ g[u] = IF u = {} THEN 0 ELSE FirstOf(u).score + g[u \ {FirstOf(u)}]
  BY DEF AddsUp
<1>4. s # {} /\ FirstOf(s) \in s
  BY <1>2, <1>3, FirstIsIn
<1>5. f[s \ {FirstOf(s)}] = g[s \ {FirstOf(s)}]
  BY <1>2, <1>4
<1> QED
  BY <1>2, <1>3, <1>4, <1>5

\* Every finite set has such a function.
LEMMA SumsExist ==
  ASSUME NEW S, IsFiniteSet(S)
  PROVE  AddsUp(Sums(S), S)
<1> DEFINE family == {T \in SUBSET S : ~AddsUp(Sums(T), T)}
<1>1. SUFFICES ASSUME family # {} PROVE FALSE
  OBVIOUS
<1>2. PICK T \in family : \A U \in family : U \subseteq T => U = T
  <2>1. family \in SUBSET SUBSET S
    OBVIOUS
  <2> HIDE DEF family
  <2> QED
    BY <1>1, <2>1, SmallestMember
<1> DEFINE f == [s \in SUBSET T |->
                   IF s = {} THEN 0
                   ELSE FirstOf(s).score + Sums(s \ {FirstOf(s)})[s \ {FirstOf(s)}]]
<1>3. ASSUME NEW s \in SUBSET T, s # {}
      PROVE  f[s \ {FirstOf(s)}] = Sums(s \ {FirstOf(s)})[s \ {FirstOf(s)}]
  <2> DEFINE u == s \ {FirstOf(s)}
             v == u \ {FirstOf(u)}
  <2>1. u \in SUBSET T /\ u # T
    BY <1>3, FirstIsIn
  <2>2. AddsUp(Sums(u), u) /\ AddsUp(Sums(v), v) /\ IsFiniteSet(u)
    BY <1>2, <2>1, FS_Subset
  <2>3. Sums(u)[v] = Sums(v)[v]
    BY <2>2, SumsAgree
  <2>4. Sums(u)[u] = IF u = {} THEN 0 ELSE FirstOf(u).score + Sums(u)[v]
    BY <2>2 DEF AddsUp
  <2>5. f[u] = IF u = {} THEN 0 ELSE FirstOf(u).score + Sums(v)[v]
    BY <2>1
  <2> QED
    BY <2>3, <2>4, <2>5
<1>4. AddsUp(f, T)
  BY <1>3 DEF AddsUp
<1>5. AddsUp(Sums(T), T)
  BY <1>4 DEF Sums
<1> QED
  BY <1>2, <1>5

LEMMA TotalStep ==
  ASSUME NEW S, IsFiniteSet(S)
  PROVE  Total(S) = IF S = {} THEN 0 ELSE FirstOf(S).score + Total(S \ {FirstOf(S)})
<1> DEFINE T == S \ {FirstOf(S)}
<1>1. IsFiniteSet(T) /\ T \in SUBSET S
  BY FS_Subset
<1>2. AddsUp(Sums(S), S) /\ AddsUp(Sums(T), T)
  BY <1>1, SumsExist
<1>3. Sums(S)[T] = Sums(T)[T]
  BY <1>1, <1>2, SumsAgree
<1>4. Sums(S)[S] = IF S = {} THEN 0 ELSE FirstOf(S).score + Sums(S)[T]
  BY <1>2 DEF AddsUp
<1> QED
  BY <1>3, <1>4 DEF Total

\* The order in which the scores are added up does not matter.
LEMMA TotalInAnyOrder ==
  ASSUME NEW S, IsFiniteSet(S), \A x \in S : x.score \in Int
  PROVE  /\ Total(S) \in Int
         /\ \A x \in S : Total(S) = x.score + Total(S \ {x})
<1> DEFINE family ==
             {T \in SUBSET S :
                ~ /\ Total(T) \in Int
                  /\ \A x \in T : Total(T) = x.score + Total(T \ {x})}
<1>1. SUFFICES ASSUME family # {} PROVE FALSE
  OBVIOUS
<1>2. PICK T \in family : \A U \in family : U \subseteq T => U = T
  <2>1. family \in SUBSET SUBSET S
    OBVIOUS
  <2> HIDE DEF family
  <2> QED
    BY <1>1, <2>1, SmallestMember
<1>3. IsFiniteSet(T) /\ T \in SUBSET S
  BY <1>2, FS_Subset
<1>4. ASSUME NEW U \in SUBSET T, U # T
      PROVE  /\ Total(U) \in Int
             /\ \A x \in U : Total(U) = x.score + Total(U \ {x})
  BY <1>2, <1>4
<1> HIDE DEF family
<1> DEFINE p == FirstOf(T)
<1>5. Total({}) = 0
  BY TotalStep, FS_EmptySet
<1>6. T # {}
  <2>1. {} \notin family
    BY <1>5 DEF family
  <2> QED
    BY <1>2, <2>1
<1>7. p \in T /\ p.score \in Int /\ Total(T) = p.score + Total(T \ {p})
  BY <1>3, <1>6, TotalStep, FirstIsIn
<1>8. Total(T) \in Int
  BY <1>4, <1>7
<1>9. ASSUME NEW x \in T, x # p
      PROVE  Total(T) = x.score + Total(T \ {x})
  <2> DEFINE rest == (T \ {p}) \ {x}
  <2>1. rest = (T \ {x}) \ {p}
    OBVIOUS
  <2>2. Total(T \ {p}) = x.score + Total(rest)
    BY <1>4, <1>7, <1>9
  <2>3. Total(T \ {x}) = p.score + Total(rest)
    BY <1>4, <1>7, <1>9, <2>1
  <2>4. Total(rest) \in Int /\ x.score \in Int
    BY <1>3, <1>4, <1>7
  <2> QED
    BY <1>7, <2>2, <2>3, <2>4
<1> QED
  BY <1>2, <1>7, <1>8, <1>9 DEF family

LEMMA MirrorTellsApart ==
  ASSUME NEW m, NEW n, IsReason(m), IsReason(n), Mirror(m) = Mirror(n)
  PROVE  m = n
<1>1. m.rule = n.rule /\ m.score = n.score /\ Opposite(m.side) = Opposite(n.side)
  BY DEF Mirror
<1>2. m.side = n.side
  BY <1>1 DEF IsReason, Opposite
<1> QED
  BY <1>1, <1>2 DEF IsReason

LEMMA FlipKeepsTotal ==
  ASSUME NEW S, IsFiniteSet(S), \A m \in S : IsReason(m)
  PROVE  Total(Flip(S)) = Total(S)
<1> DEFINE family == {T \in SUBSET S : Total(Flip(T)) # Total(T)}
<1>1. SUFFICES ASSUME family # {} PROVE FALSE
  OBVIOUS
<1>2. PICK T \in family : \A U \in family : U \subseteq T => U = T
  <2>1. family \in SUBSET SUBSET S
    OBVIOUS
  <2> HIDE DEF family
  <2> QED
    BY <1>1, <2>1, SmallestMember
<1>3. T # {}
  <2>1. Flip({}) = {}
    BY DEF Flip
  <2> QED
    BY <1>2, <2>1
<1> DEFINE p == FirstOf(T)
           rest == T \ {p}
<1>4. p \in T /\ IsReason(p) /\ p.score \in Int /\ Mirror(p).score = p.score
  BY <1>2, <1>3, FirstIsIn DEF IsReason, Mirror
<1>5. Total(Flip(rest)) = Total(rest)
  <2>1. rest \in SUBSET S /\ rest # T /\ rest \subseteq T
    BY <1>2, <1>4
  <2> QED
    BY <1>2, <2>1
<1>6. Flip(T) \ {Mirror(p)} = Flip(rest) /\ Mirror(p) \in Flip(T)
  <2>1. \A m \in T : Mirror(m) = Mirror(p) => m = p
    BY <1>2, <1>4, MirrorTellsApart
  <2> HIDE DEF p
  <2> QED
    BY <1>4, <2>1 DEF Flip
<1>7. IsFiniteSet(T) /\ \A m \in T : m.score \in Int
  BY <1>2, FS_Subset DEF IsReason
<1>8. IsFiniteSet(Flip(T)) /\ \A m \in Flip(T) : m.score \in Int
  <2>1. IsFiniteSet(Flip(T))
    <3> DEFINE f == [m \in T |-> Mirror(m)]
    <3>1. f \in Surjection(T, Flip(T))
      BY DEF Surjection, Flip
    <3> QED
      BY <1>7, <3>1, FS_Surjection
  <2> QED
    BY <1>7, <2>1 DEF Flip, Mirror
<1>9. Total(T) = p.score + Total(rest)
  BY <1>4, <1>7, TotalInAnyOrder
<1>10. Total(Flip(T)) = p.score + Total(Flip(rest))
  BY <1>4, <1>6, <1>8, TotalInAnyOrder
<1> QED
  BY <1>2, <1>5, <1>9, <1>10

LEMMA FairKeepsTotal ==
  ASSUME NEW A, NEW B, Fair(A, B)
  PROVE  Index!RawScore(A) = Index!RawScore(B) /\ Index!RawScore(A) \in Int
<1>1. Total(B) = Total(A)
  BY FlipKeepsTotal DEF Fair
<1>2. Total(A) \in Int
  BY TotalInAnyOrder DEF Fair, IsReason
<1> QED
  BY <1>1, <1>2, RawScoreIsTotal

LEMMA ScoreIsInRange ==
  ASSUME NEW A, NEW B, Fair(A, B)
  PROVE  Index!Score(A) \in 0..100
<1> DEFINE n == Index!RawScore(A)
           m == Index!Min({100, n})
<1>1. n \in Int
  BY FairKeepsTotal
<1> HIDE DEF n
<1>2. m \in {100, n} /\ m <= 100
  <2>1. \E x \in {100, n} : \A y \in {100, n} : x <= y
    BY <1>1
  <2>2. m \in {100, n} /\ \A y \in {100, n} : m <= y
    BY <2>1 DEF Index!Min
  <2> QED
    BY <2>2
<1> HIDE DEF m
<1>3. Index!Max({0, m}) \in {0, m} /\ Index!Max({0, m}) >= 0
  <2>1. \E x \in {0, m} : \A y \in {0, m} : x >= y
    BY <1>1, <1>2
  <2>2. Index!Max({0, m}) \in {0, m} /\ \A y \in {0, m} : Index!Max({0, m}) >= y
    BY <2>1 DEF Index!Max
  <2> QED
    BY <2>2
<1>4. Index!Score(A) = Index!Max({0, m})
  BY DEF Index!Score, n, m
<1> QED
  BY <1>1, <1>2, <1>3, <1>4

-----------------------------------------------------------------------------
(***************************************************************************)
(* Which reasons a rule can give, and what each of them means.             *)
(***************************************************************************)

LEMMA TemporalRules ==
  ASSUME NEW l, NEW r, NEW m \in Index!TemporalReasons(l, r)
  PROVE  m.rule = "temporal_proximity"
BY DEF Index!TemporalReasons, Index!When, Index!Reason

ProcessFact(l, r, m) ==
  \/ m.rule = "parent_process_instance" /\ Index!ScopedParent(l.process, r.process)
  \/ /\ ~Index!ScopedParent(l.process, r.process)
     /\ l.process.pid = r.process.pid
     /\ \/ Index!ScopedSame(l.process, r.process)
        \/ l.process.created # None /\ r.process.created # None
        \/ Index!Within(l, r, 60)
     /\ ~Index!Clash(l.process.created, r.process.created)
     /\ \/ m.rule = "same_process_instance" /\ Index!ScopedSame(l.process, r.process)
        \/ m.rule = "same_process_id" /\ ~Index!ScopedSame(l.process, r.process)
        \/ /\ m.rule = "same_process_creation"
           /\ l.process.created # None /\ r.process.created # None
        \/ m.rule \in {"same_process_name", "same_executable_path", "same_command_line"}
  \/ /\ m.rule = "parent_process"
     /\ ~Index!ScopedParent(l.process, r.process)
     /\ l.process.pid # r.process.pid
     /\ Index!IsParent(l, r) \/ Index!IsParent(r, l)

LEMMA SameProcessRules ==
  ASSUME NEW l, NEW r, NEW m \in Index!SameProcessReasons(l, r)
  PROVE  /\ \/ Index!ScopedSame(l.process, r.process)
            \/ l.process.created # None /\ r.process.created # None
            \/ Index!Within(l, r, 60)
         /\ ~Index!Clash(l.process.created, r.process.created)
         /\ \/ m.rule = "same_process_instance" /\ Index!ScopedSame(l.process, r.process)
            \/ m.rule = "same_process_id" /\ ~Index!ScopedSame(l.process, r.process)
            \/ /\ m.rule = "same_process_creation"
               /\ l.process.created # None /\ r.process.created # None
            \/ m.rule \in {"same_process_name", "same_executable_path", "same_command_line"}
BY DEF Index!SameProcessReasons, Index!When, Index!Reason

LEMMA ProcessRules ==
  ASSUME NEW l, NEW r, NEW m \in Index!ProcessReasons(l, r)
  PROVE  /\ l.process # None /\ r.process # None /\ Index!Comparable(l, r)
         /\ ProcessFact(l, r, m)
<1>1. l.process # None /\ r.process # None /\ Index!Comparable(l, r)
  BY DEF Index!ProcessReasons
<1>2. CASE Index!ScopedParent(l.process, r.process)
  BY <1>1, <1>2 DEF Index!ProcessReasons, Index!Reason, ProcessFact
<1>3. CASE ~Index!ScopedParent(l.process, r.process) /\ l.process.pid = r.process.pid
  <2>1. m \in Index!SameProcessReasons(l, r)
    BY <1>1, <1>3 DEF Index!ProcessReasons
  <2> QED
    BY <1>1, <1>3, <2>1, SameProcessRules DEF ProcessFact
<1>4. CASE ~Index!ScopedParent(l.process, r.process) /\ l.process.pid # r.process.pid
  BY <1>1, <1>4 DEF Index!ProcessReasons, Index!When, Index!Reason, ProcessFact
<1> QED
  BY <1>1, <1>2, <1>3, <1>4

\* What the command line or the references of origin say of the file of target.
FileLookupFact(origin, target, m) ==
  /\ target.file # None
  /\ \/ /\ m.rule = "command_line_file_path"
        /\ target.file.path # None /\ target.file.path \in Index!Tokens(origin)
     \/ /\ m.rule = "command_line_filename"
        /\ Index!Base(target.file) # None
        /\ Index!BarePath(Index!Base(target.file)) \in Index!Tokens(origin)
     \/ /\ m.rule = "prefetch_reference"
        /\ origin.file # None /\ target.file.path # None
        /\ target.file.path \in origin.file.references

LEMMA FileLookupRules ==
  ASSUME NEW side, NEW origin, NEW target, NEW m \in Index!FileLookup(side, origin, target)
  PROVE  FileLookupFact(origin, target, m)
BY DEF Index!FileLookup, Index!WhenFrom, Index!Reason, FileLookupFact

FileFact(l, r, m) ==
  \/ m.rule = "same_sha256" /\ Index!Known(Index!Digest(l), Index!Digest(r))
  \/ /\ m.rule = "same_file_path" /\ l.file # None /\ r.file # None
     /\ Index!Known(l.file.path, r.file.path)
  \/ m.rule \in {"same_filename", "ntfs_artifact_support"}
  \/ FileLookupFact(l, r, m)
  \/ FileLookupFact(r, l, m)

LEMMA FileRules ==
  ASSUME NEW l, NEW r, NEW m \in Index!FileReasons(l, r)
  PROVE  FileFact(l, r, m)
<1> DEFINE both == l.file # None /\ r.file # None
           matches == (IF both THEN Index!SameFileReasons(l, r) ELSE {})
                      \cup (Index!FileLookup("left", l, r) \cup Index!FileLookup("right", r, l))
           support == Index!When(/\ \E n \in matches : n.score >= 25
                                 /\ l.ntfs \/ r.ntfs, "ntfs_artifact_support", 5)
<1>1. Index!FileReasons(l, r) = IF both /\ Index!Clash(Index!Digest(l), Index!Digest(r)) THEN {}
                               ELSE matches \cup support
  BY DEF Index!FileReasons, Index!BothWays
<1>2. m \in matches \/ m \in support
  <2> HIDE DEF matches, support
  <2> QED
    BY <1>1
<1>3. CASE m \in support
  BY <1>3 DEF Index!When, Index!Reason, FileFact
<1>4. CASE m \in Index!FileLookup("left", l, r) \cup Index!FileLookup("right", r, l)
  BY <1>4, FileLookupRules DEF FileFact
<1>5. CASE both /\ m \in Index!SameFileReasons(l, r)
  BY <1>5 DEF Index!SameFileReasons, Index!When, Index!Reason, FileFact
<1> HIDE DEF support
<1> QED
  BY <1>2, <1>3, <1>4, <1>5

ResolvedFact(origin, target) ==
  /\ origin.network.query # None
  /\ target.network.dst \in origin.network.resolved
  /\ Index!SameClient(Index!Client(origin.network), target.network.src, origin, target)
  /\ target.time - origin.time \in 0..60

NetworkFact(l, r, m) ==
  /\ ~Index!Extracted(l) /\ ~Index!Extracted(r)
  /\ l.network # None /\ r.network # None
  /\ \/ /\ m.rule \in {"same_socket_tuple", "flow_temporal_overlap"}
        /\ Index!SameTuple(l.network, r.network)
     \/ m.rule = "same_destination_endpoint" /\ Index!SameEndpoint(l, r)
     \/ /\ m.rule \in {"dns_resolved_destination", "dns_preceded_connection"}
        /\ ResolvedFact(l, r) \/ ResolvedFact(r, l)
     \/ /\ m.rule = "same_dns_query"
        /\ Index!Known(l.network.query, r.network.query)
        /\ Index!SameClient(Index!Client(l.network), Index!Client(r.network), l, r)

LEMMA ResolvedRules ==
  ASSUME NEW side, NEW origin, NEW target, NEW m \in Index!Resolved(side, origin, target)
  PROVE  /\ m.rule \in {"dns_resolved_destination", "dns_preceded_connection"}
         /\ ResolvedFact(origin, target)
BY DEF Index!Resolved, Index!WhenFrom, Index!Reason, ResolvedFact

LEMMA NetworkRules ==
  ASSUME NEW l, NEW r, NEW m \in Index!NetworkReasons(l, r)
  PROVE  NetworkFact(l, r, m)
<1> DEFINE tuple == Index!SameTuple(l.network, r.network)
           overlap == /\ tuple
                      /\ l.network.end # None \/ r.network.end # None
                      /\ Index!Separation(l, r) = 0
           query == /\ Index!Known(l.network.query, r.network.query)
                    /\ Index!SameClient(Index!Client(l.network), Index!Client(r.network), l, r)
                    /\ Index!SameHost(l, r) \/ l.network.id = r.network.id
<1>1. /\ ~Index!Extracted(l) /\ ~Index!Extracted(r)
      /\ l.network # None /\ r.network # None
      /\ m \in UNION { Index!When(tuple, "same_socket_tuple", 60),
                       Index!When(overlap, "flow_temporal_overlap", 10),
                       Index!When(Index!SameEndpoint(l, r), "same_destination_endpoint", 40),
                       Index!Resolved("left", l, r) \cup Index!Resolved("right", r, l),
                       Index!When(query, "same_dns_query", 35) }
  BY DEF Index!NetworkReasons, Index!BothWays
<1>2. CASE m \in Index!Resolved("left", l, r) \cup Index!Resolved("right", r, l)
  BY <1>1, <1>2, ResolvedRules DEF NetworkFact
<1>3. CASE \/ m \in Index!When(tuple, "same_socket_tuple", 60)
           \/ m \in Index!When(overlap, "flow_temporal_overlap", 10)
  BY <1>1, <1>3 DEF Index!When, Index!Reason, NetworkFact
<1>4. CASE m \in Index!When(Index!SameEndpoint(l, r), "same_destination_endpoint", 40)
  BY <1>1, <1>4 DEF Index!When, Index!Reason, NetworkFact
<1>5. CASE m \in Index!When(query, "same_dns_query", 35)
  BY <1>1, <1>5 DEF Index!When, Index!Reason, NetworkFact
<1> HIDE DEF tuple, overlap, query
<1> QED
  BY <1>1, <1>2, <1>3, <1>4, <1>5

\* What a recorded program and the record of a run say of each other.
ProgramFact(origin, target, m) ==
  /\ origin.process # None
  /\ \/ /\ m.rule = "prefetch_executable_path"
        /\ target.prefetch # None /\ target.prefetch.path # None
        /\ origin.process.path # None /\ origin.process.path = target.prefetch.path
     \/ /\ m.rule = "prefetch_executable_name"
        /\ target.prefetch # None /\ Index!Within(origin, target, 5)
        /\ target.prefetch.executable = IF origin.process.path # None
                                        THEN origin.process.path.base ELSE origin.process.name
     \/ /\ m.rule = "amcache_executable_path"
        /\ target.registry /\ target.file # None
        /\ Index!Known(origin.process.path, target.file.path)

LEMMA ProgramRules ==
  ASSUME NEW side, NEW origin, NEW target, NEW m \in Index!ProgramLookup(side, origin, target)
  PROVE  ProgramFact(origin, target, m)
BY DEF Index!ProgramLookup, Index!WhenFrom, Index!Reason, ProgramFact

ArtifactFact(l, r, m) ==
  \/ /\ l.file # None /\ r.file # None
     /\ \/ /\ m.rule = "same_mft_reference"
           /\ Index!Known(l.file.mft, r.file.mft) /\ Index!SameHost(l, r)
        \/ /\ m.rule = "same_file_object"
           /\ Index!Known(l.file.object, r.file.object)
           /\ Index!Known(l.acquisition, r.acquisition)
        \/ m.rule \in {"handle_file_reference", "dll_file_reference", "registry_file_reference"}
  \/ ProgramFact(l, r, m)
  \/ ProgramFact(r, l, m)
  \/ /\ m.rule = "tls_sni_domain"
     /\ l.network # None /\ r.network # None
     /\ Index!Domains(l) \cap Index!Domains(r) # {}
     /\ Index!Known(Index!Client(l.network), Index!Client(r.network))
     /\ Index!Within(l, r, 60)

LEMMA SharedFileRules ==
  ASSUME NEW l, NEW r, l.file # None, r.file # None, NEW m \in Index!SharedFileReasons(l, r)
  PROVE  ArtifactFact(l, r, m)
BY DEF Index!SharedFileReasons, Index!When, Index!Reason, ArtifactFact

LEMMA ArtifactRules ==
  ASSUME NEW l, NEW r, NEW m \in Index!ArtifactReasons(l, r)
  PROVE  ArtifactFact(l, r, m)
<1> DEFINE both == l.file # None /\ r.file # None
           named == /\ l.network # None /\ r.network # None
                    /\ Index!Domains(l) \cap Index!Domains(r) # {}
                    /\ l.network.tls \/ r.network.tls
                    /\ Index!Known(Index!Client(l.network), Index!Client(r.network))
                    /\ Index!Within(l, r, 60)
<1>1. \/ both /\ m \in Index!SharedFileReasons(l, r)
      \/ m \in Index!ProgramLookup("left", l, r) \cup Index!ProgramLookup("right", r, l)
      \/ m \in Index!When(named, "tls_sni_domain", 40)
  BY DEF Index!ArtifactReasons, Index!BothWays
<1>2. CASE both /\ m \in Index!SharedFileReasons(l, r)
  BY <1>2, SharedFileRules
<1>3. CASE m \in Index!ProgramLookup("left", l, r) \cup Index!ProgramLookup("right", r, l)
  BY <1>3, ProgramRules DEF ArtifactFact
<1>4. CASE m \in Index!When(named, "tls_sni_domain", 40)
  BY <1>4 DEF Index!When, Index!Reason, ArtifactFact
<1> HIDE DEF named
<1> QED
  BY <1>1, <1>2, <1>3, <1>4

RuleFact(l, r, m) ==
  \/ m.rule = "temporal_proximity"
  \/ /\ l.process # None /\ r.process # None /\ Index!Comparable(l, r)
     /\ ProcessFact(l, r, m)
  \/ FileFact(l, r, m)
  \/ NetworkFact(l, r, m)
  \/ ArtifactFact(l, r, m)

LEMMA RulesMean ==
  ASSUME NEW l, NEW r, NEW m \in Index!RuleReasons(l, r)
  PROVE  RuleFact(l, r, m)
<1>1. \/ m \in Index!TemporalReasons(l, r) \/ m \in Index!ProcessReasons(l, r)
      \/ m \in Index!FileReasons(l, r) \/ m \in Index!NetworkReasons(l, r)
      \/ m \in Index!ArtifactReasons(l, r)
  BY DEF Index!RuleReasons
<1> QED
  BY <1>1, TemporalRules, ProcessRules, FileRules, NetworkRules, ArtifactRules DEF RuleFact

\* A fact that identifies a thing over time, as LongGapsNeedIdentity lists them.
LastingFact(l, r) ==
  \/ Index!Known(Index!Digest(l), Index!Digest(r))
  \/ /\ l.process # None /\ r.process # None
     /\ \/ Index!ScopedSame(l.process, r.process)
        \/ Index!ScopedParent(l.process, r.process)
        \/ /\ Index!Known(l.process.created, r.process.created)
           /\ l.process.pid = r.process.pid /\ Index!Comparable(l, r)
  \/ /\ l.file # None /\ r.file # None
     /\ \/ Index!Known(l.file.mft, r.file.mft) /\ Index!SameHost(l, r)
        \/ /\ Index!Known(l.file.object, r.file.object)
           /\ Index!Known(l.acquisition, r.acquisition)

LEMMA LastingRules ==
  ASSUME NEW l, NEW r, NEW m, m.rule \in Index!Lasting, RuleFact(l, r, m)
  PROVE  LastingFact(l, r)
<1>1. m.rule \in {"same_sha256", "same_process_instance", "parent_process_instance",
                  "same_process_creation", "same_mft_reference", "same_file_object"}
  BY DEF Index!Lasting
<1>2. ~NetworkFact(l, r, m)
  BY <1>1 DEF NetworkFact
<1>3. ~FileLookupFact(l, r, m) /\ ~FileLookupFact(r, l, m)
  BY <1>1 DEF FileLookupFact
<1>4. ~ProgramFact(l, r, m) /\ ~ProgramFact(r, l, m)
  BY <1>1 DEF ProgramFact
<1>5. CASE FileFact(l, r, m)
  BY <1>1, <1>3, <1>5 DEF FileFact, LastingFact
<1>6. CASE ArtifactFact(l, r, m)
  BY <1>1, <1>4, <1>6 DEF ArtifactFact, LastingFact
<1>7. CASE /\ l.process # None /\ r.process # None /\ Index!Comparable(l, r)
           /\ ProcessFact(l, r, m)
  BY <1>1, <1>7 DEF ProcessFact, LastingFact, Index!Known, Index!Clash
<1> QED
  BY <1>1, <1>2, <1>5, <1>6, <1>7 DEF RuleFact

LEMMA KeptMean ==
  ASSUME NEW l, NEW r, Index!KeptReasons(l, r) # {}
  PROVE  /\ ~Index!Incompatible(l, r)
         /\ \E m : m.rule \in Index!Anchors /\ RuleFact(l, r, m)
         /\ ~Index!OutsideLifetime(l, r) /\ ~Index!OutsideLifetime(r, l)
         /\ \/ Index!Extracted(l) \/ Index!Extracted(r)
            \/ ~(Index!Separation(l, r) > 60)
            \/ LastingFact(l, r)
<1> DEFINE reasons == Index!RuleReasons(l, r)
           negatives == Index!NegativeReasons(l, r)
<1>1. /\ ~Index!Incompatible(l, r)
      /\ Index!HasRule(reasons, Index!Anchors)
      /\ ~Index!HasRule(negatives, {"process_lifetime_conflict"})
      /\ ~Index!HasRule(negatives, {"temporal_distance"}) \/ Index!HasRule(reasons, Index!Lasting)
  BY DEF Index!KeptReasons
<1> DEFINE outside == Index!OutsideLifetime(l, r) \/ Index!OutsideLifetime(r, l)
           timed == ~Index!Extracted(l) /\ ~Index!Extracted(r)
           blurred == timed /\ (l.imprecise \/ r.imprecise)
           apart == timed /\ Index!FarApart(l, r)
<1>2. negatives = UNION { Index!When(outside, "process_lifetime_conflict", -100),
                          Index!When(blurred, "timestamp_precision_penalty", -10),
                          Index!When(apart, "temporal_distance", -30) }
  BY DEF Index!NegativeReasons
<1> HIDE DEF negatives, outside, blurred, apart
<1>3. ~outside
  <2> SUFFICES ASSUME outside PROVE FALSE
    OBVIOUS
  <2>1. Index!Reason("process_lifetime_conflict", -100, "pair") \in negatives
    BY <1>2 DEF Index!When
  <2> QED
    BY <1>1, <2>1 DEF Index!HasRule, Index!Reason
<1>4. apart => Index!HasRule(reasons, Index!Lasting)
  <2> SUFFICES ASSUME apart PROVE Index!HasRule(reasons, Index!Lasting)
    OBVIOUS
  <2>1. Index!Reason("temporal_distance", -30, "pair") \in negatives
    BY <1>2 DEF Index!When
  <2> QED
    BY <1>1, <2>1 DEF Index!HasRule, Index!Reason
<1>5. \E m : m.rule \in Index!Anchors /\ RuleFact(l, r, m)
  BY <1>1, RulesMean DEF Index!HasRule
<1>6. apart => LastingFact(l, r)
  BY <1>4, RulesMean, LastingRules DEF Index!HasRule
<1>7. \/ Index!Extracted(l) \/ Index!Extracted(r)
      \/ ~(Index!Separation(l, r) > 60)
      \/ LastingFact(l, r)
  BY <1>6 DEF apart, Index!FarApart, LastingFact
<1> QED
  BY <1>1, <1>3, <1>5, <1>7 DEF outside

-----------------------------------------------------------------------------
(***************************************************************************)
(* What a rule accepts, the index proposes: the identity under which the   *)
(* one event is entered and the other looked up, rule by rule.             *)
(***************************************************************************)

Meet(l, r) == Index!Finds(l, r) \/ Index!Finds(r, l)
Close(l, r) == Index!Distance(l.time, r.time) <= 60
Loose(l, r) == Close(l, r) \/ Index!Extracted(l) \/ Index!Extracted(r)
Shares(l, r, key) ==
  \/ key \in Index!Queries(l) /\ key \in Index!Entries(r)
  \/ key \in Index!Queries(r) /\ key \in Index!Entries(l)

LEMMA NearBuckets ==
  ASSUME NEW x \in Int, NEW y \in Int, Index!Distance(x, y) <= 60
  PROVE  y \div 60 \in ((x \div 60) - 1)..((x \div 60) + 1)
BY DEF Index!Distance

LEMMA MeetTimeless ==
  ASSUME NEW l, NEW r, NEW key, Shares(l, r, key), key[1] \in Index!Timeless
  PROVE  Meet(l, r)
BY DEF Shares, Meet, Index!Finds

LEMMA MeetNear ==
  ASSUME NEW l, NEW r, Observed(l), Observed(r), NEW key, Shares(l, r, key), Close(l, r)
  PROVE  Meet(l, r)
<1>1. /\ Index!Bucket(r) \in (Index!Bucket(l) - 1)..(Index!Bucket(l) + 1)
      /\ Index!Bucket(l) \in (Index!Bucket(r) - 1)..(Index!Bucket(r) + 1)
  <2>1. l.time \in Int /\ r.time \in Int /\ Index!Distance(r.time, l.time) <= 60
    BY DistanceIsEven DEF Observed, Close
  <2> QED
    BY <2>1, NearBuckets DEF Close, Index!Bucket
<1> QED
  BY <1>1 DEF Shares, Meet, Index!Finds

LEMMA MeetLoose ==
  ASSUME NEW l, NEW r, Observed(l), Observed(r), NEW key, Shares(l, r, key),
         key[1] \in Index!Undated, Loose(l, r)
  PROVE  Meet(l, r)
<1>1. CASE Close(l, r)
  BY <1>1, MeetNear
<1>2. CASE Index!Extracted(l) \/ Index!Extracted(r)
  BY <1>2 DEF Shares, Meet, Index!Finds
<1> QED
  BY <1>1, <1>2 DEF Loose

LEMMA PartsOfEntries ==
  ASSUME NEW e
  PROVE  /\ Index!ProcessEntries(e) \subseteq Index!Entries(e)
         /\ Index!FileEntries(e) \subseteq Index!Entries(e)
         /\ Index!NetworkEntries(e) \subseteq Index!Entries(e)
BY DEF Index!Entries

LEMMA PartsOfQueries ==
  ASSUME NEW e
  PROVE  /\ Index!ProcessQueries(e) \subseteq Index!Queries(e)
         /\ Index!FileQueries(e) \subseteq Index!Queries(e)
         /\ Index!PrefetchQueries(e) \subseteq Index!Queries(e)
         /\ Index!NetworkQueries(e) \subseteq Index!Queries(e)
         /\ \A key \in Index!Entries(e) : key[1] \in Index!Reflexive => key \in Index!Queries(e)
BY DEF Index!Queries

LEMMA SharesEqual ==
  ASSUME NEW l, NEW r, NEW key, key \in Index!Entries(l), key \in Index!Entries(r),
         key[1] \in Index!Reflexive
  PROVE  Shares(l, r, key)
BY PartsOfQueries DEF Shares

LEMMA ProcessKeys ==
  ASSUME NEW e, e.process # None
  PROVE  /\ <<"pid", e.host, e.process.pid>> \in Index!Entries(e)
         /\ e.process.created # None =>
              /\ <<"parent_pid", e.host, e.process.pid>> \in Index!Entries(e)
              /\ <<"lifetime", e.host, e.process.pid, e.process.created>> \in Index!Entries(e)
         /\ e.process.instance # None => <<"instance", e.process.instance>> \in Index!Entries(e)
         /\ e.process.name # None => <<"process_name", e.process.name>> \in Index!Entries(e)
         /\ e.process.path # None => <<"executable", e.process.path>> \in Index!Entries(e)
<1>1. Index!ProcessEntries(e) \subseteq Index!Entries(e)
  BY PartsOfEntries
<1> QED
  BY <1>1 DEF Index!ProcessEntries, Index!If

LEMMA ProcessAsks ==
  ASSUME NEW e, e.process # None
  PROVE  /\ e.process.ppid # None =>
              /\ <<"pid", e.host, e.process.ppid>> \in Index!Queries(e)
              /\ <<"parent_pid", e.host, e.process.ppid>> \in Index!Queries(e)
         /\ e.process.parentInstance # None =>
              <<"instance", e.process.parentInstance>> \in Index!Queries(e)
         /\ e.process.path # None => <<"registry_path", e.process.path>> \in Index!Queries(e)
         /\ \A t \in e.process.command :
              /\ t.dir # Index!NoDirectory => <<"path", t>> \in Index!Queries(e)
              /\ t.dir = Index!NoDirectory => <<"filename", t.base>> \in Index!Queries(e)
<1>1. Index!ProcessQueries(e) \subseteq Index!Queries(e)
  BY PartsOfQueries
<1> QED
  BY <1>1 DEF Index!ProcessQueries, Index!If

LEMMA FileKeys ==
  ASSUME NEW e, e.file # None
  PROVE  /\ e.file.path # None => <<"path", e.file.path>> \in Index!Entries(e)
         /\ e.file.path # None /\ e.registry =>
              <<"registry_path", e.file.path>> \in Index!Entries(e)
         /\ Index!Base(e.file) # None => <<"filename", Index!Base(e.file)>> \in Index!Entries(e)
         /\ e.file.mft # None => <<"mft", e.host, e.file.mft>> \in Index!Entries(e)
         /\ e.file.object # None /\ e.acquisition # None =>
              <<"file_object", e.acquisition, e.file.object>> \in Index!Entries(e)
<1>1. Index!FileEntries(e) \subseteq Index!Entries(e)
  BY PartsOfEntries
<1> QED
  BY <1>1 DEF Index!FileEntries, Index!If

LEMMA DigestKey ==
  ASSUME NEW e, Index!Digest(e) # None
  PROVE  <<"hash", Index!Digest(e)>> \in Index!Entries(e)
<1>1. CASE e.file # None /\ e.file.sha256 # None
  <2>1. Index!FileEntries(e) \subseteq Index!Entries(e)
    BY PartsOfEntries
  <2> QED
    BY <1>1, <2>1 DEF Index!FileEntries, Index!If, Index!Digest
<1>2. CASE ~(e.file # None /\ e.file.sha256 # None)
  <2>1. Index!Digest(e) = e.hash
    BY <1>2 DEF Index!Digest
  <2>2. <<"hash", e.hash>> \in Index!If(e.hash # None, {<<"hash", e.hash>>})
    BY <2>1 DEF Index!If
  <2> QED
    BY <2>1, <2>2 DEF Index!Entries
<1> QED
  BY <1>1, <1>2

LEMMA ComparableHosts ==
  ASSUME NEW l, NEW r, Index!Comparable(l, r), ~Index!ScopedSame(l.process, r.process),
         ~Index!ScopedParent(l.process, r.process)
  PROVE  /\ Index!SameHost(l, r)
         /\ \/ l.process.pid = r.process.pid
            \/ l.process.instance = None /\ r.process.instance = None
BY DEF Index!Comparable

\* Lasting facts are found at any distance.
LEMMA LastingMeets ==
  ASSUME NEW l, NEW r, LastingFact(l, r)
  PROVE  Meet(l, r)
<1>1. CASE Index!Known(Index!Digest(l), Index!Digest(r))
  <2> DEFINE key == <<"hash", Index!Digest(l)>>
  <2>1. Shares(l, r, key)
    BY <1>1, DigestKey, SharesEqual DEF Index!Known, Index!Reflexive
  <2> QED
    BY <2>1, MeetTimeless DEF Index!Timeless
<1>2. CASE l.process # None /\ r.process # None /\ Index!ScopedSame(l.process, r.process)
  <2> DEFINE key == <<"instance", l.process.instance>>
  <2>1. Shares(l, r, key)
    BY <1>2, ProcessKeys, SharesEqual DEF Index!ScopedSame, Index!Known, Index!Reflexive
  <2> QED
    BY <2>1, MeetTimeless DEF Index!Timeless
<1>3. CASE l.process # None /\ r.process # None /\ Index!ScopedParent(l.process, r.process)
  <2>1. CASE Index!Known(l.process.instance, r.process.parentInstance)
    <3> DEFINE key == <<"instance", l.process.instance>>
    <3>1. Shares(l, r, key)
      BY <1>3, <2>1, ProcessKeys, ProcessAsks DEF Index!Known, Shares
    <3> QED
      BY <3>1, MeetTimeless DEF Index!Timeless
  <2>2. CASE Index!Known(r.process.instance, l.process.parentInstance)
    <3> DEFINE key == <<"instance", r.process.instance>>
    <3>1. Shares(l, r, key)
      BY <1>3, <2>2, ProcessKeys, ProcessAsks DEF Index!Known, Shares
    <3> QED
      BY <3>1, MeetTimeless DEF Index!Timeless
  <2> QED
    BY <1>3, <2>1, <2>2 DEF Index!ScopedParent
<1>4. CASE /\ l.process # None /\ r.process # None
           /\ ~Index!ScopedSame(l.process, r.process)
           /\ ~Index!ScopedParent(l.process, r.process)
           /\ Index!Known(l.process.created, r.process.created)
           /\ l.process.pid = r.process.pid /\ Index!Comparable(l, r)
  <2> DEFINE key == <<"lifetime", l.host, l.process.pid, l.process.created>>
  <2>1. l.host = r.host
    BY <1>4, ComparableHosts DEF Index!SameHost, Index!Known
  <2>2. Shares(l, r, key)
    BY <1>4, <2>1, ProcessKeys, SharesEqual DEF Index!Known, Index!Reflexive
  <2> QED
    BY <2>2, MeetTimeless DEF Index!Timeless
<1>5. CASE /\ l.file # None /\ r.file # None
           /\ Index!Known(l.file.mft, r.file.mft) /\ Index!SameHost(l, r)
  <2> DEFINE key == <<"mft", l.host, l.file.mft>>
  <2>1. Shares(l, r, key)
    BY <1>5, FileKeys, SharesEqual DEF Index!SameHost, Index!Known, Index!Reflexive
  <2> QED
    BY <2>1, MeetTimeless DEF Index!Timeless
<1>6. CASE /\ l.file # None /\ r.file # None
           /\ Index!Known(l.file.object, r.file.object)
           /\ Index!Known(l.acquisition, r.acquisition)
  <2> DEFINE key == <<"file_object", l.acquisition, l.file.object>>
  <2>1. Shares(l, r, key)
    BY <1>6, FileKeys, SharesEqual DEF Index!Known, Index!Reflexive
  <2> QED
    BY <2>1, MeetTimeless DEF Index!Timeless
<1> QED
  BY <1>1, <1>2, <1>3, <1>4, <1>5, <1>6 DEF LastingFact

LEMMA ParentMeets ==
  ASSUME NEW l, NEW r, Observed(l), Observed(r), l.process # None, r.process # None,
         Index!IsParent(l, r), l.host = r.host, r.process.ppid # None
  PROVE  Meet(l, r)
<1>1. r.process.ppid = l.process.pid
  BY DEF Index!IsParent
<1>2. CASE l.process.created # None
  <2> DEFINE key == <<"parent_pid", l.host, l.process.pid>>
  <2>1. Shares(l, r, key)
    BY <1>1, <1>2, ProcessKeys, ProcessAsks DEF Shares
  <2> QED
    BY <2>1, MeetTimeless DEF Index!Timeless
<1>3. CASE l.process.created = None
  <2> DEFINE key == <<"pid", l.host, l.process.pid>>
  <2>1. Shares(l, r, key)
    BY <1>1, ProcessKeys, ProcessAsks DEF Shares
  <2>2. Close(l, r)
    BY <1>3 DEF Index!IsParent, Index!Within, Close
  <2> QED
    BY <2>1, <2>2, MeetNear
<1> QED
  BY <1>2, <1>3

LEMMA LooseIsEven ==
  ASSUME NEW l, NEW r, Observed(l), Observed(r)
  PROVE  /\ Close(l, r) <=> Close(r, l)
         /\ Loose(l, r) <=> Loose(r, l)
         /\ Meet(l, r) <=> Meet(r, l)
BY DistanceIsEven DEF Close, Loose, Meet, Observed

LEMMA ProcessesMeet ==
  ASSUME NEW l, NEW r, Observed(l), Observed(r), l.process # None, r.process # None,
         Index!Comparable(l, r), NEW m, m.rule \in Index!Anchors, ProcessFact(l, r, m)
  PROVE  Meet(l, r)
<1> DEFINE a == l.process
           b == r.process
<1>1. CASE LastingFact(l, r)
  BY <1>1, LastingMeets
<1>2. CASE ~LastingFact(l, r)
  <2>1. ~Index!ScopedSame(a, b) /\ ~Index!ScopedParent(a, b)
    BY <1>2 DEF LastingFact
  <2>2. l.host = r.host
    BY <2>1, ComparableHosts DEF Index!SameHost, Index!Known
  <2>3. \/ m.rule = "same_process_id" /\ a.pid = b.pid
        \/ /\ m.rule = "parent_process" /\ a.pid # b.pid
           /\ Index!IsParent(l, r) \/ Index!IsParent(r, l)
    BY <1>2, <2>1 DEF ProcessFact, Index!Anchors, LastingFact, Index!Known, Index!Clash
  <2>4. CASE m.rule = "same_process_id" /\ a.pid = b.pid
    <3> DEFINE key == <<"pid", l.host, a.pid>>
    <3>1. Shares(l, r, key)
      BY <2>2, <2>4, ProcessKeys, SharesEqual DEF Index!Reflexive
    <3>2. Index!Within(l, r, 60)
      BY <1>2, <2>1, <2>4 DEF ProcessFact, LastingFact, Index!Known, Index!Clash
    <3> QED
      BY <3>1, <3>2, MeetNear DEF Close, Index!Within
  <2>5. CASE m.rule = "parent_process" /\ (Index!IsParent(l, r) \/ Index!IsParent(r, l))
    <3>1. a.pid # None /\ b.pid # None
      BY DEF Observed
    <3>2. CASE Index!IsParent(l, r)
      BY <2>2, <3>1, <3>2, ParentMeets DEF Index!IsParent
    <3>3. CASE Index!IsParent(r, l)
      <4>1. Meet(r, l)
        BY <2>2, <3>1, <3>3, ParentMeets DEF Index!IsParent
      <4> QED
        BY <4>1, LooseIsEven
    <3> QED
      BY <2>5, <3>2, <3>3
  <2> QED
    BY <2>3, <2>4, <2>5
<1> QED
  BY <1>1, <1>2

LEMMA BareIs ==
  ASSUME NEW name
  PROVE  /\ Index!BarePath(name).dir = Index!NoDirectory
         /\ Index!BarePath(name).base = name
BY DEF Index!BarePath

\* A file and a command line or a list that names it.
LEMMA NamedFileMeets ==
  ASSUME NEW origin, NEW target, Observed(origin), Observed(target), Loose(origin, target),
         NEW m, FileLookupFact(origin, target, m)
  PROVE  Meet(origin, target)
<1> DEFINE path == target.file.path
           name == Index!Base(target.file)
<1>1. target.file # None
  BY DEF FileLookupFact
<1>2. ASSUME name # None, origin.process # None, NEW t \in origin.process.command,
             t.dir = Index!NoDirectory, t.base = name
      PROVE  Meet(origin, target)
  <2> DEFINE key == <<"filename", name>>
  <2>1. Shares(origin, target, key)
    BY <1>1, <1>2, FileKeys, ProcessAsks DEF Shares
  <2> QED
    BY <2>1, MeetLoose DEF Index!Undated
<1>3. CASE path # None /\ path \in Index!Tokens(origin)
  <2>1. origin.process # None /\ path \in origin.process.command
    BY <1>3 DEF Index!Tokens
  <2>2. CASE path.dir # Index!NoDirectory
    <3> DEFINE key == <<"path", path>>
    <3>1. Shares(origin, target, key)
      BY <1>1, <1>3, <2>1, <2>2, FileKeys, ProcessAsks DEF Shares
    <3> QED
      BY <3>1, MeetLoose DEF Index!Undated
  <2>3. CASE path.dir = Index!NoDirectory
    <3>1. name = path.base /\ name # None
      BY <1>1, <1>3 DEF Index!Base, Observed
    <3> QED
      BY <1>2, <2>1, <2>3, <3>1
  <2> QED
    BY <2>2, <2>3
<1>4. CASE name # None /\ Index!BarePath(name) \in Index!Tokens(origin)
  <2>1. origin.process # None /\ Index!BarePath(name) \in origin.process.command
    BY <1>4 DEF Index!Tokens
  <2> QED
    BY <1>2, <1>4, <2>1, BareIs
<1>5. CASE origin.file # None /\ path # None /\ path \in origin.file.references
  <2> DEFINE key == <<"path", path>>
  <2>1. key \in Index!Queries(origin)
    <3>1. key \in Index!FileQueries(origin)
      BY <1>5 DEF Index!FileQueries
    <3> QED
      BY <3>1, PartsOfQueries
  <2>2. Shares(origin, target, key)
    BY <1>1, <1>5, <2>1, FileKeys DEF Shares
  <2> QED
    BY <2>2, MeetLoose DEF Index!Undated
<1> QED
  BY <1>3, <1>4, <1>5 DEF FileLookupFact

LEMMA FilesMeet ==
  ASSUME NEW l, NEW r, Observed(l), Observed(r), Loose(l, r),
         NEW m, m.rule \in Index!Anchors, FileFact(l, r, m)
  PROVE  Meet(l, r)
<1>1. CASE Index!Known(Index!Digest(l), Index!Digest(r))
  BY <1>1, LastingMeets DEF LastingFact
<1>2. CASE l.file # None /\ r.file # None /\ Index!Known(l.file.path, r.file.path)
  <2> DEFINE key == <<"path", l.file.path>>
  <2>1. Shares(l, r, key)
    BY <1>2, FileKeys, SharesEqual DEF Index!Known, Index!Reflexive
  <2> QED
    BY <2>1, MeetLoose DEF Index!Undated
<1>3. CASE FileLookupFact(l, r, m)
  BY <1>3, NamedFileMeets
<1>4. CASE FileLookupFact(r, l, m)
  BY <1>4, NamedFileMeets, LooseIsEven
<1>5. m.rule \notin {"same_filename", "ntfs_artifact_support"}
  BY DEF Index!Anchors
<1> QED
  BY <1>1, <1>2, <1>3, <1>4, <1>5 DEF FileFact

\* A program and the record of its run.
LEMMA ProgramMeets ==
  ASSUME NEW origin, NEW target, Observed(origin), Observed(target), Loose(origin, target),
         NEW m, ProgramFact(origin, target, m)
  PROVE  Meet(origin, target) \/ Index!NamedOtherwise(origin, target)
<1> DEFINE p == origin.process
<1>1. p # None
  BY DEF ProgramFact
<1>2. CASE /\ target.prefetch # None /\ target.prefetch.path # None
           /\ p.path # None /\ p.path = target.prefetch.path
  <2> DEFINE key == <<"executable", p.path>>
  <2>1. key \in Index!PrefetchQueries(target)
    BY <1>2 DEF Index!PrefetchQueries, Index!If
  <2>2. Shares(origin, target, key)
    BY <1>1, <1>2, <2>1, PartsOfQueries, ProcessKeys DEF Shares
  <2> QED
    BY <2>2, MeetLoose DEF Index!Undated
<1>3. CASE /\ target.prefetch # None /\ Index!Within(origin, target, 5)
           /\ target.prefetch.executable = IF p.path # None THEN p.path.base ELSE p.name
  <2>1. CASE p.name = target.prefetch.executable
    <3> DEFINE key == <<"process_name", p.name>>
    <3>1. key \in Index!PrefetchQueries(target)
      BY <1>3, <2>1 DEF Index!PrefetchQueries
    <3>2. p.name # None
      BY <1>3, <2>1 DEF Observed
    <3>3. Shares(origin, target, key)
      BY <1>1, <3>1, <3>2, PartsOfQueries, ProcessKeys DEF Shares
    <3>4. Close(origin, target)
      <4>1. Index!Distance(origin.time, target.time) \in Nat
        BY DistanceIsEven DEF Observed
      <4>2. Index!Distance(origin.time, target.time) <= 5
        BY <1>3 DEF Index!Within
      <4> QED
        BY <4>1, <4>2 DEF Close
    <3> QED
      BY <3>3, <3>4, MeetNear
  <2>2. CASE p.name # target.prefetch.executable
    BY <1>1, <1>3, <2>2 DEF Index!NamedOtherwise
  <2> QED
    BY <2>1, <2>2
<1>4. CASE /\ target.registry /\ target.file # None
           /\ Index!Known(p.path, target.file.path)
  <2> DEFINE key == <<"registry_path", p.path>>
  <2>1. Shares(origin, target, key)
    BY <1>1, <1>4, FileKeys, ProcessAsks DEF Index!Known, Shares
  <2> QED
    BY <2>1, MeetLoose DEF Index!Undated
<1> QED
  BY <1>2, <1>3, <1>4 DEF ProgramFact

LEMMA NetworkKeys ==
  ASSUME NEW e, e.network # None
  PROVE  /\ Index!NetworkEntries(e) \subseteq Index!Entries(e)
         /\ Index!NetworkQueries(e) \subseteq Index!Queries(e)
BY PartsOfEntries, PartsOfQueries

LEMMA TuplesMeet ==
  ASSUME NEW l, NEW r, l.network # None, r.network # None,
         Index!SameTuple(l.network, r.network)
  PROVE  Meet(l, r)
<1> DEFINE Key(n) == <<"tuple", n.protocol, {<<n.src, n.sport>>, <<n.dst, n.dport>>}>>
           a == l.network
           b == r.network
<1>1. ASSUME NEW e, e.network # None, Index!Complete(e.network)
      PROVE  Key(e.network) \in Index!Entries(e)
  <2>1. Key(e.network) \in Index!NetworkEntries(e)
    BY <1>1 DEF Index!NetworkEntries, Index!If
  <2> QED
    BY <1>1, <2>1, NetworkKeys
<1>2. Key(a) = Key(b)
  <2>1. CASE a.src = b.src /\ a.sport = b.sport /\ a.dst = b.dst /\ a.dport = b.dport
    BY <2>1 DEF Index!SameTuple
  <2>2. CASE a.src = b.dst /\ a.sport = b.dport /\ a.dst = b.src /\ a.dport = b.sport
    <3>1. {<<a.src, a.sport>>, <<a.dst, a.dport>>} = {<<b.src, b.sport>>, <<b.dst, b.dport>>}
      BY <2>2
    <3> QED
      BY <3>1 DEF Index!SameTuple
  <2> QED
    BY <2>1, <2>2 DEF Index!SameTuple
<1>3. Key(a) \in Index!Entries(l) /\ Key(a) \in Index!Entries(r)
  <2> HIDE DEF Key
  <2> QED
    BY <1>1, <1>2 DEF Index!SameTuple
<1>4. Key(a)[1] = "tuple"
  OBVIOUS
<1> HIDE DEF Key
<1>5. Shares(l, r, Key(a))
  BY <1>3, <1>4, SharesEqual DEF Index!Reflexive
<1> QED
  BY <1>4, <1>5, MeetTimeless DEF Index!Timeless

LEMMA EndpointsMeet ==
  ASSUME NEW l, NEW r, Observed(l), Observed(r), l.network # None, r.network # None,
         Index!SameEndpoint(l, r), Close(l, r)
  PROVE  Meet(l, r)
<1> DEFINE a == l.network
           b == r.network
           key == <<"partial_endpoint", l.host, a.dst, a.dport>>
<1>1. /\ l.host = r.host /\ a.dst = b.dst /\ a.dport = b.dport
      /\ a.dst # None /\ a.dport # None
  BY DEF Index!SameEndpoint, Index!SameHost, Index!Known
<1>2. ~Index!Complete(a) \/ ~Index!Complete(b)
  <2> SUFFICES ASSUME Index!Complete(a), Index!Complete(b) PROVE FALSE
    OBVIOUS
  <2>1. /\ ~Index!Clash(a["protocol"], b["protocol"]) /\ ~Index!Clash(a["src"], b["src"])
        /\ ~Index!Clash(a["sport"], b["sport"])
    BY DEF Index!SameEndpoint
  <2>2. /\ a["protocol"] # None /\ a["src"] # None /\ a["sport"] # None
        /\ b["protocol"] # None /\ b["src"] # None /\ b["sport"] # None
    BY DEF Index!Complete
  <2>3. a.protocol = b.protocol /\ a.src = b.src /\ a.sport = b.sport
    BY <2>1, <2>2 DEF Index!Clash
  <2>4. Index!SameTuple(a, b)
    BY <1>1, <2>3 DEF Index!SameTuple
  <2> QED
    BY <2>4 DEF Index!SameEndpoint
<1>3. key \in Index!Queries(l) /\ key \in Index!Queries(r)
  <2>1. key \in Index!NetworkQueries(l) /\ key \in Index!NetworkQueries(r)
    BY <1>1 DEF Index!NetworkQueries, Index!If
  <2> QED
    BY <2>1, NetworkKeys
<1>4. key \in Index!Entries(l) \/ key \in Index!Entries(r)
  <2>1. CASE ~Index!Complete(a)
    <3>1. key \in Index!NetworkEntries(l)
      BY <1>1, <2>1 DEF Index!NetworkEntries, Index!If
    <3> QED
      BY <3>1, NetworkKeys
  <2>2. CASE ~Index!Complete(b)
    <3>1. key \in Index!NetworkEntries(r)
      BY <1>1, <2>2 DEF Index!NetworkEntries, Index!If
    <3> QED
      BY <3>1, NetworkKeys
  <2> QED
    BY <1>2, <2>1, <2>2
<1>5. Shares(l, r, key)
  BY <1>3, <1>4 DEF Shares
<1> QED
  BY <1>5, MeetNear

\* An answer and a connection to an address it names.
LEMMA AnswersMeet ==
  ASSUME NEW l, NEW r, Observed(l), Observed(r), l.network # None, r.network # None,
         ResolvedFact(l, r)
  PROVE  Meet(l, r)
<1> DEFINE dns == l.network
           net == r.network
           ip == net.dst
           client == Index!Client(dns)
<1>1. /\ ip \in dns.resolved /\ ip # None
      /\ Index!SameClient(client, net.src, l, r)
      /\ Close(l, r)
  BY DEF ResolvedFact, Observed, Close, Index!Distance
<1>2. ASSUME NEW key, key \in Index!NetworkQueries(l), key \in Index!NetworkEntries(r)
      PROVE  Meet(l, r)
  BY <1>1, <1>2, NetworkKeys, MeetNear DEF Shares
<1>3. CASE client # None /\ net.src # None
  <2> DEFINE key == <<"destination", client, ip>>
  <2>1. key \in Index!NetworkQueries(l)
    BY <1>1 DEF Index!NetworkQueries
  <2>2. client = net.src
    BY <1>1, <1>3 DEF Index!SameClient
  <2>3. key \in Index!NetworkEntries(r)
    BY <1>1, <2>2 DEF Index!NetworkEntries, Index!If
  <2> QED
    BY <1>2, <2>1, <2>3
<1>4. CASE client = None
  <2> DEFINE key == <<"destination_host", l.host, ip>>
  <2>1. l.host = r.host /\ l.host # None
    BY <1>1, <1>4 DEF Index!SameClient, Index!SameHost, Index!Known
  <2>2. key \in Index!NetworkQueries(l)
    BY <1>1, <1>4, <2>1 DEF Index!NetworkQueries, Index!If
  <2>3. key \in Index!NetworkEntries(r)
    BY <1>1, <2>1 DEF Index!NetworkEntries, Index!If
  <2> QED
    BY <1>2, <2>2, <2>3
<1>5. CASE client # None /\ net.src = None
  <2> DEFINE key == <<"destination_missing", l.host, ip>>
  <2>1. l.host = r.host /\ l.host # None
    BY <1>1, <1>5 DEF Index!SameClient, Index!SameHost, Index!Known
  <2>2. key \in Index!NetworkQueries(l)
    BY <1>1, <1>5, <2>1 DEF Index!NetworkQueries, Index!If
  <2>3. key \in Index!NetworkEntries(r)
    BY <1>1, <1>5, <2>1 DEF Index!NetworkEntries, Index!If
  <2> QED
    BY <1>2, <2>2, <2>3
<1> QED
  BY <1>3, <1>4, <1>5

\* Two queries or greetings of one client for one name.
LEMMA DomainsMeet ==
  ASSUME NEW l, NEW r, Observed(l), Observed(r), l.network # None, r.network # None,
         NEW name \in Index!Domains(l) \cap Index!Domains(r),
         Index!Known(Index!Client(l.network), Index!Client(r.network)), Close(l, r)
  PROVE  Meet(l, r)
<1> DEFINE key == <<"domain", Index!Client(l.network), name>>
<1>1. key \in Index!NetworkEntries(l) /\ key \in Index!NetworkEntries(r)
  BY DEF Index!NetworkEntries, Index!Known
<1>2. Shares(l, r, key)
  BY <1>1, NetworkKeys, SharesEqual DEF Index!Reflexive
<1> QED
  BY <1>2, MeetNear

LEMMA QueriesMeet ==
  ASSUME NEW l, NEW r, Observed(l), Observed(r), l.network # None, r.network # None,
         Index!Known(l.network.query, r.network.query),
         Index!SameClient(Index!Client(l.network), Index!Client(r.network), l, r), Close(l, r)
  PROVE  Meet(l, r)
<1> DEFINE name == l.network.query
<1>1. /\ name # None /\ r.network.query = name
      /\ name \in Index!Domains(l) /\ name \in Index!Domains(r)
  BY DEF Index!Known, Index!Domains
<1>2. CASE Index!Client(l.network) # None /\ Index!Client(r.network) # None
  BY <1>1, <1>2, DomainsMeet DEF Index!SameClient, Index!Known
<1>3. ASSUME NEW x, NEW y, x.network # None, y.network # None, x.host = y.host, x.host # None,
             x.network.query # None, y.network.query # None,
             name \in Index!Domains(x), name \in Index!Domains(y),
             Index!Client(x.network) = None
      PROVE  <<"domain_host", x.host, name>> \in Index!Queries(x) \cap Index!Entries(y)
  <2> DEFINE key == <<"domain_host", x.host, name>>
  <2>1. key \in Index!NetworkQueries(x)
    BY <1>3 DEF Index!NetworkQueries, Index!If
  <2>2. key \in Index!NetworkEntries(y)
    BY <1>3 DEF Index!NetworkEntries, Index!If
  <2> QED
    BY <1>3, <2>1, <2>2, NetworkKeys
<1>4. CASE Index!Client(l.network) = None \/ Index!Client(r.network) = None
  <2> DEFINE key == <<"domain_host", l.host, name>>
  <2>1. l.host = r.host /\ l.host # None
    BY <1>4 DEF Index!SameClient, Index!SameHost, Index!Known
  <2>2. Shares(l, r, key)
    BY <1>1, <1>3, <1>4, <2>1 DEF Shares
  <2> QED
    BY <2>2, MeetNear
<1> QED
  BY <1>2, <1>4

LEMMA LooseMeet ==
  ASSUME NEW l, NEW r, Observed(l), Observed(r), Loose(l, r), NEW m,
         m.rule \in Index!Anchors, RuleFact(l, r, m)
  PROVE  Meet(l, r) \/ Index!NamedOtherwise(l, r) \/ Index!NamedOtherwise(r, l)
<1>1. m.rule # "temporal_proximity"
  BY DEF Index!Anchors
<1>2. CASE /\ l.process # None /\ r.process # None /\ Index!Comparable(l, r)
           /\ ProcessFact(l, r, m)
  BY <1>2, ProcessesMeet
<1>3. CASE FileFact(l, r, m)
  BY <1>3, FilesMeet
<1>4. CASE NetworkFact(l, r, m)
  <2>1. /\ Close(l, r) /\ l.network # None /\ r.network # None
    BY <1>4 DEF NetworkFact, Loose
  <2>2. CASE Index!SameTuple(l.network, r.network)
    BY <2>1, <2>2, TuplesMeet
  <2>3. CASE Index!SameEndpoint(l, r)
    BY <2>1, <2>3, EndpointsMeet
  <2>4. CASE ResolvedFact(l, r) \/ ResolvedFact(r, l)
    BY <2>1, <2>4, AnswersMeet, LooseIsEven
  <2>5. CASE /\ Index!Known(l.network.query, r.network.query)
             /\ Index!SameClient(Index!Client(l.network), Index!Client(r.network), l, r)
    BY <2>1, <2>5, QueriesMeet
  <2> QED
    BY <1>4, <2>2, <2>3, <2>4, <2>5 DEF NetworkFact
<1>5. CASE ArtifactFact(l, r, m)
  <2>1. CASE ProgramFact(l, r, m)
    BY <2>1, ProgramMeets
  <2>2. CASE ProgramFact(r, l, m)
    BY <2>2, ProgramMeets, LooseIsEven
  <2>3. CASE LastingFact(l, r)
    BY <2>3, LastingMeets
  <2>4. CASE /\ l.network # None /\ r.network # None
             /\ Index!Domains(l) \cap Index!Domains(r) # {}
             /\ Index!Known(Index!Client(l.network), Index!Client(r.network))
             /\ Index!Within(l, r, 60)
    BY <2>4, DomainsMeet DEF Close, Index!Within
  <2>5. m.rule \notin {"handle_file_reference", "dll_file_reference", "registry_file_reference"}
    BY DEF Index!Anchors
  <2> QED
    BY <1>5, <2>1, <2>2, <2>3, <2>4, <2>5 DEF ArtifactFact, LastingFact
<1> QED
  BY <1>1, <1>2, <1>3, <1>4, <1>5 DEF RuleFact

\* Events whose intervals are near and whose times are not: one of the two is a flow.
LEMMA FlowBetween ==
  ASSUME NEW l, NEW r, Observed(l), Observed(r), ~Close(l, r), ~(Index!Separation(l, r) > 60)
  PROVE  /\ \/ l.network # None /\ l.network.end # None
            \/ r.network # None /\ r.network.end # None
         /\ Index!Separation(l, r) < Index!Distance(l.time, r.time)
<1>1. l.time \in Int /\ r.time \in Int /\ Index!Distance(l.time, r.time) > 60
  <2>1. l.time \in Int /\ r.time \in Int
    BY DEF Observed
  <2>2. Index!Distance(l.time, r.time) \in Nat
    BY <2>1, DistanceIsEven
  <2> QED
    BY <2>1, <2>2 DEF Close
<1>2. /\ Index!Separation(l, r) \in Nat /\ Index!Separation(l, r) <= 60
      /\ Index!Separation(l, r) >= l.time - Index!Ends(r)
      /\ Index!Separation(l, r) >= r.time - Index!Ends(l)
  BY SeparationIs
<1>3. ~(Index!Ends(l) = l.time /\ Index!Ends(r) = r.time)
  BY <1>1, <1>2 DEF Index!Distance
<1>4. \/ l.network # None /\ l.network.end # None
      \/ r.network # None /\ r.network.end # None
  BY <1>3 DEF Index!Ends
<1>5. Index!Distance(l.time, r.time) \in Nat
  BY <1>1, DistanceIsEven
<1> QED
  BY <1>1, <1>2, <1>4, <1>5

\* A flow records no process, file, program or name.
Silent(e) == e.process = None /\ e.file = None /\ e.prefetch = None

LEMMA SilentLookups ==
  ASSUME NEW origin, NEW target, Silent(origin) \/ Silent(target), NEW m
  PROVE  ~FileLookupFact(origin, target, m) /\ ~ProgramFact(origin, target, m)
BY DEF Silent, FileLookupFact, ProgramFact, Index!Tokens

LEMMA FlowsMeet ==
  ASSUME NEW l, NEW r, Observed(l), Observed(r), Index!FlowAlone(l), Index!FlowAlone(r),
         ~Loose(l, r), ~(Index!Separation(l, r) > 60), NEW m,
         m.rule \in Index!Anchors, RuleFact(l, r, m)
  PROVE  Meet(l, r) \/ Index!EndpointDuringFlow(l, r)
<1>1. ~Close(l, r)
  BY DEF Loose
<1>2. \/ Silent(l) /\ l.network # None /\ l.network.query = None
      \/ Silent(r) /\ r.network # None /\ r.network.query = None
  BY <1>1, FlowBetween DEF Index!FlowAlone, Silent
<1>3. /\ ~FileLookupFact(l, r, m) /\ ~FileLookupFact(r, l, m)
      /\ ~ProgramFact(l, r, m) /\ ~ProgramFact(r, l, m)
  BY <1>2, SilentLookups
<1>4. ~(l.process # None /\ r.process # None) /\ ~(l.file # None /\ r.file # None)
  BY <1>2 DEF Silent
<1>5. m.rule \notin {"temporal_proximity", "same_filename", "ntfs_artifact_support"}
  BY DEF Index!Anchors
<1>6. CASE FileFact(l, r, m)
  BY <1>3, <1>4, <1>5, <1>6, LastingMeets DEF FileFact, LastingFact
<1>7. CASE NetworkFact(l, r, m)
  <2>1. l.network # None /\ r.network # None
    BY <1>7 DEF NetworkFact
  <2>2. CASE Index!SameTuple(l.network, r.network)
    BY <2>1, <2>2, TuplesMeet
  <2>3. CASE Index!SameEndpoint(l, r)
    BY <1>1, <2>1, <2>3, FlowBetween DEF Index!EndpointDuringFlow
  <2>4. ~ResolvedFact(l, r) /\ ~ResolvedFact(r, l)
    BY <1>1 DEF ResolvedFact, Observed, Close, Index!Distance
  <2>5. ~Index!Known(l.network.query, r.network.query)
    BY <1>2 DEF Index!Known
  <2> QED
    BY <1>7, <2>2, <2>3, <2>4, <2>5 DEF NetworkFact
<1>8. ~ArtifactFact(l, r, m)
  BY <1>1, <1>3, <1>4 DEF ArtifactFact, Close, Index!Within
<1> QED
  BY <1>4, <1>5, <1>6, <1>7, <1>8 DEF RuleFact

LEMMA KeptMeet ==
  ASSUME NEW l, NEW r, Observed(l), Observed(r), Index!KeptReasons(l, r) # {}
  PROVE  \/ Meet(l, r)
         \/ Index!EndpointDuringFlow(l, r) \/ Index!SharedDuringFlow(l, r)
         \/ Index!NamedOtherwise(l, r) \/ Index!NamedOtherwise(r, l)
<1>1. CASE LastingFact(l, r)
  BY <1>1, LastingMeets
<1>2. CASE ~LastingFact(l, r)
  <2>1. PICK m : m.rule \in Index!Anchors /\ RuleFact(l, r, m)
    BY KeptMean
  <2>2. CASE Loose(l, r)
    BY <2>1, <2>2, LooseMeet
  <2>3. CASE ~Loose(l, r)
    <3>1. ~(Index!Separation(l, r) > 60)
      BY <1>2, <2>3, KeptMean DEF Loose
    <3>2. CASE Index!FlowAlone(l) /\ Index!FlowAlone(r)
      BY <2>1, <2>3, <3>1, <3>2, FlowsMeet
    <3>3. CASE ~Index!FlowAlone(l) \/ ~Index!FlowAlone(r)
      BY <2>3, <3>1, <3>3, FlowBetween DEF Index!SharedDuringFlow, Loose
    <3> QED
      BY <3>2, <3>3
  <2> QED
    BY <2>2, <2>3
<1> QED
  BY <1>1, <1>2

-----------------------------------------------------------------------------
(***************************************************************************)
(* The pass over the pairs.                                                *)
(***************************************************************************)

KeptOf(p) == Index!KeptReasons(events[p[1]], events[p[2]])

IndexInv ==
  /\ \E n \in Nat : DOMAIN events = 1..n
  /\ \A i \in DOMAIN events : Observed(events[i])
  /\ minScore \in 1..100
  /\ phase \in {"index", "score", "done"}
  /\ todo \subseteq Index!AllPairs
  /\ phase = "index" => results = {}
  /\ phase # "score" => todo = {}
  /\ \A d \in results : /\ d.pair \in Index!AllPairs /\ Index!AcceptedByRules(d.pair)
                        /\ d.reasons = KeptOf(d.pair)
                        /\ d.score = Index!Score(KeptOf(d.pair))
  /\ phase # "index" =>
       \A p \in Index!AllPairs :
         Index!Proposed(p) /\ Index!AcceptedByRules(p) =>
           p \in todo \/ \E d \in results : d.pair = p

LEMMA PairOfCase ==
  ASSUME IndexInv, NEW p \in Index!AllPairs
  PROVE  Observed(events[p[1]]) /\ Observed(events[p[2]])
<1>1. p[1] \in DOMAIN events /\ p[2] \in DOMAIN events
  BY DEF Index!AllPairs
<1> QED
  BY <1>1 DEF IndexInv

\* What is said of a pair depends on the events and on the threshold, which stay.
LEMMA PairsStay ==
  ASSUME events' = events, minScore' = minScore
  PROVE  /\ Index!AllPairs' = Index!AllPairs
         /\ \A p : KeptOf(p)' = KeptOf(p)
         /\ \A p : Index!AcceptedByRules(p)' <=> Index!AcceptedByRules(p)
         /\ \A p : Index!Proposed(p)' <=> Index!Proposed(p)
<1>1. Index!AllPairs' = Index!AllPairs
  BY DEF Index!AllPairs
<1>2. \A p : KeptOf(p)' = KeptOf(p)
  BY DEF KeptOf
<1>3. \A p : Index!AcceptedByRules(p)' <=> Index!AcceptedByRules(p)
  BY DEF Index!AcceptedByRules
<1>4. \A p : Index!Proposed(p)' <=> Index!Proposed(p)
  BY DEF Index!Proposed
<1> QED
  BY <1>1, <1>2, <1>3, <1>4

LEMMA IndexInit == Index!Init => IndexInv
<1> SUFFICES ASSUME Index!Init PROVE IndexInv
  OBVIOUS
<1>1. PICK cases \in Families : events \in cases
  BY DEF Index!Init
<1>2. /\ Index!Len(events) \in Nat /\ DOMAIN events = 1..Index!Len(events)
      /\ \A i \in DOMAIN events : Observed(events[i])
  BY <1>1, PairsAssumption
<1>3. minScore \in 1..100
  BY PairsAssumption DEF Index!Init
<1> QED
  BY <1>2, <1>3 DEF Index!Init, IndexInv

LEMMA BuildIndexKeeps == IndexInv /\ Index!BuildIndex => IndexInv'
<1> SUFFICES ASSUME IndexInv, Index!BuildIndex PROVE IndexInv'
  OBVIOUS
<1>1. /\ phase = "index" /\ phase' = "score" /\ results = {}
      /\ todo' = {p \in Index!AllPairs : Index!Proposed(p)}
      /\ events' = events /\ minScore' = minScore /\ results' = results
  BY DEF Index!BuildIndex, IndexInv
<1> QED
  BY <1>1, PairsStay DEF IndexInv

\* The pairs are taken in their sorted order: one of them comes first.
LEMMA FirstPair ==
  ASSUME IndexInv, todo # {}
  PROVE  \E q \in todo : \A o \in todo : q[1] < o[1] \/ (q[1] = o[1] /\ q[2] <= o[2])
<1>1. PICK n \in Nat : DOMAIN events = 1..n
  BY DEF IndexInv
<1>2. \A q \in todo : q[1] \in 1..n /\ q[2] \in 1..n
  BY <1>1 DEF IndexInv, Index!AllPairs
<1>3. IsFiniteSet(1..n)
  BY FS_Interval
<1> DEFINE lefts == {i \in 1..n : \E q \in todo : q[1] = i}
<1>4. PICK a \in lefts : \A i \in lefts : a <= i
  <2>1. lefts \subseteq Int /\ lefts # {} /\ IsFiniteSet(lefts)
    BY <1>2, <1>3, FS_Subset
  <2> HIDE DEF lefts
  <2> QED
    BY <2>1, LeastInteger
<1> DEFINE rights == {i \in 1..n : \E q \in todo : q[1] = a /\ q[2] = i}
<1>5. PICK b \in rights : \A i \in rights : b <= i
  <2>1. rights \subseteq Int /\ rights # {} /\ IsFiniteSet(rights)
    BY <1>2, <1>3, FS_Subset
  <2> HIDE DEF rights
  <2> QED
    BY <2>1, LeastInteger
<1>6. PICK q \in todo : q[1] = a /\ q[2] = b
  BY <1>5
<1>7. ASSUME NEW o \in todo
      PROVE  q[1] < o[1] \/ (q[1] = o[1] /\ q[2] <= o[2])
  <2>1. o[1] \in lefts /\ a <= o[1] /\ o[1] \in Int /\ a \in Int
    BY <1>2, <1>4
  <2>2. o[1] = a => b <= o[2]
    BY <1>2, <1>5
  <2> QED
    BY <1>6, <2>1, <2>2
<1> QED
  BY <1>7

LEMMA ScorePairKeeps == IndexInv /\ Index!ScorePair => IndexInv'
<1> SUFFICES ASSUME IndexInv, Index!ScorePair PROVE IndexInv'
  OBVIOUS
<1>1. /\ phase = "score" /\ phase' = phase /\ todo # {}
      /\ events' = events /\ minScore' = minScore
  BY DEF Index!ScorePair
<1> DEFINE p == CHOOSE q \in todo :
                  \A o \in todo : q[1] < o[1] \/ (q[1] = o[1] /\ q[2] <= o[2])
           edge == [pair |-> p, score |-> Index!Score(KeptOf(p)), reasons |-> KeptOf(p)]
<1>2. p \in todo
  BY <1>1, FirstPair
<1>3. /\ todo' = todo \ {p}
      /\ results' = results \cup Index!If(Index!AcceptedByRules(p), {edge})
  BY DEF Index!ScorePair, Index!AcceptedByRules, KeptOf
<1> HIDE DEF p
<1>4. p \in Index!AllPairs
  BY <1>2 DEF IndexInv
<1>5. \A d \in results' : \/ d \in results
                          \/ d = edge /\ Index!AcceptedByRules(p)
  BY <1>3 DEF Index!If
<1>6. Index!AcceptedByRules(p) => edge \in results'
  BY <1>3 DEF Index!If
<1>7. /\ edge.pair = p /\ edge.reasons = KeptOf(p)
      /\ edge.score = Index!Score(KeptOf(p))
  OBVIOUS
<1> HIDE DEF edge
<1>8. \A d \in results' : /\ d.pair \in Index!AllPairs /\ Index!AcceptedByRules(d.pair)
                          /\ d.reasons = KeptOf(d.pair)
                          /\ d.score = Index!Score(KeptOf(d.pair))
  BY <1>4, <1>5, <1>7 DEF IndexInv
<1>9. ASSUME NEW q \in Index!AllPairs, Index!Proposed(q), Index!AcceptedByRules(q)
      PROVE  q \in todo' \/ \E d \in results' : d.pair = q
  <2>1. CASE q = p
    BY <1>6, <1>7, <1>9, <2>1
  <2>2. CASE q # p
    BY <1>1, <1>3, <1>9, <2>2 DEF IndexInv
  <2> QED
    BY <2>1, <2>2
<1> QED
  BY <1>1, <1>3, <1>8, <1>9, PairsStay DEF IndexInv

LEMMA ReturnKeeps == IndexInv /\ Index!Return => IndexInv'
<1> SUFFICES ASSUME IndexInv, Index!Return PROVE IndexInv'
  OBVIOUS
<1>1. /\ phase = "score" /\ phase' = "done" /\ todo = {} /\ todo' = todo
      /\ events' = events /\ minScore' = minScore /\ results' = results
  BY DEF Index!Return
<1> QED
  BY <1>1, PairsStay DEF IndexInv

LEMMA IndexStep == IndexInv /\ Index!Next => IndexInv'
BY BuildIndexKeeps, ScorePairKeeps, ReturnKeeps DEF Index!Next

LEMMA IndexKnowsItsMisses ==
  ASSUME IndexInv
  PROVE  Index!MissedPairsAreKnown
<1> SUFFICES ASSUME phase = "done", NEW p \in Index!Missed
             PROVE  LET l == events[p[1]]
                        r == events[p[2]]
                    IN  \/ Index!EndpointDuringFlow(l, r) \/ Index!SharedDuringFlow(l, r)
                        \/ Index!NamedOtherwise(l, r) \/ Index!NamedOtherwise(r, l)
  BY DEF Index!MissedPairsAreKnown
<1>1. p \in Index!AllPairs /\ Index!AcceptedByRules(p) /\ ~\E d \in results : d.pair = p
  BY DEF Index!Missed
<1>2. ~Index!Proposed(p)
  BY <1>1 DEF IndexInv
<1>3. KeptOf(p) # {} /\ ~Meet(events[p[1]], events[p[2]])
  BY <1>1, <1>2 DEF Index!AcceptedByRules, Index!Proposed, KeptOf, Meet
<1> QED
  BY <1>1, <1>3, PairOfCase, KeptMeet DEF KeptOf

LEMMA IndexScoresAreSound ==
  ASSUME IndexInv
  PROVE  Index!TypeOK /\ Index!RulesAreSymmetric
<1>1. ASSUME NEW p \in Index!AllPairs
      PROVE  Fair(KeptOf(p), Index!KeptReasons(events[p[2]], events[p[1]]))
  BY PairOfCase, KeptFair DEF KeptOf
<1>2. \A p \in Index!AllPairs : Index!Score(KeptOf(p)) \in 0..100
  BY <1>1, ScoreIsInRange
<1>3. ASSUME NEW d \in results
      PROVE  d.pair \in Index!AllPairs /\ d.score \in minScore..100
  <2>1. /\ d.pair \in Index!AllPairs /\ Index!AcceptedByRules(d.pair)
        /\ d.score = Index!Score(KeptOf(d.pair)) /\ minScore \in 1..100
    BY DEF IndexInv
  <2>2. Index!Score(KeptOf(d.pair)) >= minScore
    BY <2>1 DEF Index!AcceptedByRules, KeptOf
  <2> HIDE DEF KeptOf
  <2> QED
    BY <1>2, <2>1, <2>2
<1>4. Index!TypeOK
  BY <1>3 DEF Index!TypeOK, IndexInv
<1>5. \A p \in Index!AllPairs :
        Index!RawScore(KeptOf(p)) = Index!RawScore(Index!KeptReasons(events[p[2]], events[p[1]]))
  BY <1>1, FairKeepsTotal
<1>6. Index!RulesAreSymmetric
  BY <1>5 DEF Index!RulesAreSymmetric, Index!If, KeptOf
<1> QED
  BY <1>4, <1>6

\* What the rules keep of a pair, an identity or a short distance goes with.
LEMMA KeptJoins ==
  ASSUME NEW l, NEW r, Observed(l), Observed(r), Index!KeptReasons(l, r) # {}
  PROVE  /\ \/ Index!Extracted(l) \/ Index!Extracted(r) \/ Index!Separation(l, r) <= 60
            \/ LastingFact(l, r)
         /\ ~Index!Incompatible(l, r)
         /\ l.process # None /\ r.process # None /\ l.process.pid = r.process.pid =>
              /\ ~Index!Clash(l.process.created, r.process.created)
              /\ \/ Index!Extracted(r)
                 \/ /\ l.process.created # None => l.process.created <= r.time
                    /\ l.process.exit # None => r.time <= l.process.exit
              /\ \/ Index!Extracted(l)
                 \/ /\ r.process.created # None => r.process.created <= l.time
                    /\ r.process.exit # None => l.time <= r.process.exit
<1>1. Index!Separation(l, r) \in Nat
  BY SeparationIs
<1>2. \/ Index!Extracted(l) \/ Index!Extracted(r) \/ Index!Separation(l, r) <= 60
      \/ LastingFact(l, r)
  BY <1>1, KeptMean
<1>3. /\ ~Index!Incompatible(l, r)
      /\ ~Index!OutsideLifetime(l, r) /\ ~Index!OutsideLifetime(r, l)
  BY KeptMean
<1>4. ASSUME l.process # None, r.process # None, l.process.pid = r.process.pid
      PROVE  /\ ~Index!Clash(l.process.created, r.process.created)
             /\ \/ Index!Extracted(r)
                \/ /\ l.process.created # None => l.process.created <= r.time
                   /\ l.process.exit # None => r.time <= l.process.exit
             /\ \/ Index!Extracted(l)
                \/ /\ r.process.created # None => r.process.created <= l.time
                   /\ r.process.exit # None => l.time <= r.process.exit
  BY <1>3, <1>4 DEF Index!Incompatible, Index!OutsideLifetime, Observed, Present
<1> QED
  BY <1>2, <1>3, <1>4

LEMMA IndexJoinsIdentities ==
  ASSUME IndexInv
  PROVE  Index!LongGapsNeedIdentity /\ Index!LifetimesAreRespected
<1>1. ASSUME NEW d \in results
      PROVE  /\ Observed(events[d.pair[1]]) /\ Observed(events[d.pair[2]])
             /\ Index!KeptReasons(events[d.pair[1]], events[d.pair[2]]) # {}
  <2>1. d.pair \in Index!AllPairs /\ Index!AcceptedByRules(d.pair)
    BY DEF IndexInv
  <2> QED
    BY <2>1, PairOfCase DEF Index!AcceptedByRules
<1>2. Index!LongGapsNeedIdentity
  BY <1>1, KeptJoins DEF Index!LongGapsNeedIdentity, LastingFact
<1>3. Index!LifetimesAreRespected
  BY <1>1, KeptJoins DEF Index!LifetimesAreRespected, Index!Incompatible
<1> QED
  BY <1>2, <1>3

-----------------------------------------------------------------------------
(***************************************************************************)
(* The graph is built with the rules of the index: both are instances of   *)
(* CorrelationRules, operator by operator.                                 *)
(***************************************************************************)

LEMMA SameSmallRules ==
  /\ \A x, y : Builder!Known(x, y) <=> Index!Known(x, y)
  /\ \A x, y : Builder!Clash(x, y) <=> Index!Clash(x, y)
  /\ \A S, rules : Builder!HasRule(S, rules) <=> Index!HasRule(S, rules)
  /\ \A e : Builder!Tokens(e) = Index!Tokens(e)
BY DEF Builder!Known, Index!Known, Builder!Clash, Index!Clash, Builder!HasRule, Index!HasRule,
   Builder!Tokens, Index!Tokens

LEMMA SameTemporal ==
  ASSUME NEW l, NEW r
  PROVE  Builder!TemporalReasons(l, r) = Index!TemporalReasons(l, r)
BY DEF Builder!TemporalReasons, Index!TemporalReasons, Builder!Distance, Index!Distance,
   Builder!Extracted, Index!Extracted, Builder!When, Index!When, Builder!Reason, Index!Reason

LEMMA SameScore ==
  ASSUME NEW S
  PROVE  Builder!Score(S) = Index!Score(S)
BY DEF Builder!Score, Index!Score, Builder!RawScore, Index!RawScore, Builder!Max, Index!Max,
   Builder!Min, Index!Min, Builder!MapThenSumSet, Index!MapThenSumSet,
   Builder!MapThenFoldSet, Index!MapThenFoldSet

LEMMA SameSameProcess ==
  ASSUME NEW l, NEW r
  PROVE  Builder!SameProcessReasons(l, r) = Index!SameProcessReasons(l, r)
BY DEF Builder!SameProcessReasons, Index!SameProcessReasons,
   Builder!Known, Index!Known, Builder!Clash, Index!Clash, Builder!Within, Index!Within,
   Builder!Distance, Index!Distance, Builder!ScopedSame, Index!ScopedSame,
   Builder!When, Index!When, Builder!Reason, Index!Reason

LEMMA SameProcessRule ==
  ASSUME NEW l, NEW r
  PROVE  Builder!ProcessReasons(l, r) = Index!ProcessReasons(l, r)
BY SameSameProcess
   DEF Builder!ProcessReasons, Index!ProcessReasons, Builder!Comparable, Index!Comparable,
   Builder!SameHost, Index!SameHost, Builder!IsParent, Index!IsParent,
   Builder!ScopedSame, Index!ScopedSame, Builder!ScopedParent, Index!ScopedParent,
   Builder!Known, Index!Known, Builder!Within, Index!Within, Builder!Distance, Index!Distance,
   Builder!When, Index!When, Builder!Reason, Index!Reason

LEMMA SameFileLookup ==
  ASSUME NEW side, NEW l, NEW r
  PROVE  Builder!FileLookup(side, l, r) = Index!FileLookup(side, l, r)
BY DEF Builder!FileLookup, Index!FileLookup, Builder!Base, Index!Base,
   Builder!BarePath, Index!BarePath, Builder!NoDirectory, Index!NoDirectory,
   Builder!Tokens, Index!Tokens, Builder!Clash, Index!Clash,
   Builder!WhenFrom, Index!WhenFrom, Builder!Reason, Index!Reason

LEMMA SameFileRule ==
  ASSUME NEW l, NEW r
  PROVE  Builder!FileReasons(l, r) = Index!FileReasons(l, r)
<1>1. Builder!SameFileReasons(l, r) = Index!SameFileReasons(l, r)
  BY DEF Builder!SameFileReasons, Index!SameFileReasons, Builder!Known, Index!Known,
     Builder!Digest, Index!Digest, Builder!Base, Index!Base,
     Builder!When, Index!When, Builder!Reason, Index!Reason
<1>2. Builder!Clash(Builder!Digest(l), Builder!Digest(r))
          <=> Index!Clash(Index!Digest(l), Index!Digest(r))
  BY DEF Builder!Digest, Index!Digest, Builder!Clash, Index!Clash
<1>3. Builder!FileLookup("left", l, r) \cup Builder!FileLookup("right", r, l)
        = Index!FileLookup("left", l, r) \cup Index!FileLookup("right", r, l)
  BY SameFileLookup
<1> QED
  BY <1>1, <1>2, <1>3 DEF Builder!FileReasons, Index!FileReasons, Builder!BothWays, Index!BothWays,
     Builder!When, Index!When, Builder!Reason, Index!Reason

LEMMA SameNetworkRule ==
  ASSUME NEW l, NEW r
  PROVE  Builder!NetworkReasons(l, r) = Index!NetworkReasons(l, r)
BY DEF Builder!NetworkReasons, Index!NetworkReasons, Builder!BothWays, Index!BothWays,
   Builder!Extracted, Index!Extracted, Builder!Separation, Index!Separation,
   Builder!Ends, Index!Ends, Builder!Max, Index!Max,
   Builder!SameTuple, Index!SameTuple, Builder!Complete, Index!Complete,
   Builder!SameEndpoint, Index!SameEndpoint, Builder!SameHost, Index!SameHost,
   Builder!SameClient, Index!SameClient, Builder!Client, Index!Client,
   Builder!Resolved, Index!Resolved, Builder!Known, Index!Known, Builder!Clash, Index!Clash,
   Builder!WhenFrom, Index!WhenFrom, Builder!When, Index!When, Builder!Reason, Index!Reason

LEMMA SameArtifactRule ==
  ASSUME NEW l, NEW r
  PROVE  Builder!ArtifactReasons(l, r) = Index!ArtifactReasons(l, r)
BY DEF Builder!ArtifactReasons, Index!ArtifactReasons, Builder!BothWays, Index!BothWays,
   Builder!SharedFileReasons, Index!SharedFileReasons, Builder!SharedPath, Index!SharedPath,
   Builder!ProgramLookup, Index!ProgramLookup, Builder!Domains, Index!Domains,
   Builder!Client, Index!Client, Builder!SameHost, Index!SameHost,
   Builder!Within, Index!Within, Builder!Distance, Index!Distance,
   Builder!Known, Index!Known, Builder!Clash, Index!Clash,
   Builder!WhenFrom, Index!WhenFrom, Builder!When, Index!When, Builder!Reason, Index!Reason

LEMMA SameNegatives ==
  ASSUME NEW l, NEW r
  PROVE  Builder!NegativeReasons(l, r) = Index!NegativeReasons(l, r)
BY DEF Builder!NegativeReasons, Index!NegativeReasons,
   Builder!OutsideLifetime, Index!OutsideLifetime, Builder!FarApart, Index!FarApart,
   Builder!Extracted, Index!Extracted, Builder!Separation, Index!Separation,
   Builder!Ends, Index!Ends, Builder!Max, Index!Max, Builder!Digest, Index!Digest,
   Builder!Known, Index!Known, Builder!When, Index!When, Builder!Reason, Index!Reason

LEMMA SameKept ==
  ASSUME NEW l, NEW r
  PROVE  Builder!KeptReasons(l, r) = Index!KeptReasons(l, r)
<1>1. Builder!RuleReasons(l, r) = Index!RuleReasons(l, r)
  BY SameTemporal, SameProcessRule, SameFileRule, SameNetworkRule, SameArtifactRule
     DEF Builder!RuleReasons, Index!RuleReasons
<1>2. Builder!Incompatible(l, r) <=> Index!Incompatible(l, r)
  BY DEF Builder!Incompatible, Index!Incompatible, Builder!Clash, Index!Clash
<1>3. \A S : Builder!Corroboration(l, r, S) = Index!Corroboration(l, r, S)
  BY DEF Builder!Corroboration, Index!Corroboration, Builder!Anchors, Index!Anchors,
     Builder!When, Index!When, Builder!Reason, Index!Reason
<1> QED
  BY <1>1, <1>2, <1>3, SameNegatives, SameSmallRules
     DEF Builder!KeptReasons, Index!KeptReasons, Builder!Anchors, Index!Anchors,
     Builder!Lasting, Index!Lasting

-----------------------------------------------------------------------------
(***************************************************************************)
(* The links of one event: both ends are nodes of the event, and none of   *)
(* them is of a kind that only relations between events have.              *)
(***************************************************************************)

NamedEnds(link) == link.source[1] = "Process" /\ link.target[1] = "File"

OwnLink(e, link) ==
  /\ link.source \in Builder!NodesOf(e) /\ link.target \in Builder!NodesOf(e)
  /\ link.support = {e.id}
  /\ link.score \in {0, 100}
  /\ link.kind \notin {"PARENT_OF", "EXECUTED"}
  /\ link.kind = "REFERENCES" => ~NamedEnds(link)

Own(e, links) == IsFiniteSet(links) /\ \A link \in links : OwnLink(e, link)

LEMMA NoLinks == ASSUME NEW e PROVE Own(e, {})
BY FS_EmptySet DEF Own

LEMMA BothOwn ==
  ASSUME NEW e, NEW A, NEW B, Own(e, A), Own(e, B)
  PROVE  Own(e, A \cup B)
BY FS_Union DEF Own

LEMMA ThreeOwn ==
  ASSUME NEW e, NEW A, NEW B, NEW C, Own(e, A), Own(e, B), Own(e, C)
  PROVE  Own(e, UNION {A, B, C})
<1>1. UNION {A, B, C} = (A \cup B) \cup C
  OBVIOUS
<1>2. Own(e, A \cup B)
  BY BothOwn
<1>3. Own(e, (A \cup B) \cup C)
  BY <1>2, BothOwn
<1> QED
  BY <1>1, <1>3

\* A link of an event for each member of a finite set.
LEMMA AllOwn ==
  ASSUME NEW e, NEW S, IsFiniteSet(S), NEW links, \A x \in S : Own(e, links[x]),
         DOMAIN links = S
  PROVE  Own(e, UNION {links[x] : x \in S})
<1> DEFINE all == {links[x] : x \in S}
           f == [x \in S |-> links[x]]
<1>1. f \in Surjection(S, all)
  BY DEF Surjection
<1>2. IsFiniteSet(all)
  <2> HIDE DEF f, all
  <2> QED
    BY <1>1, FS_Surjection
<1>3. \A set \in all : IsFiniteSet(set) /\ \A link \in set : OwnLink(e, link)
  BY DEF Own
<1> HIDE DEF all
<1>4. IsFiniteSet(UNION all)
  BY <1>2, <1>3, FS_UNION
<1> QED
  BY <1>3, <1>4 DEF Own, all

LEMMA LinkIs ==
  ASSUME NEW source, NEW target, NEW label, NEW support, NEW score
  PROVE  /\ IsFiniteSet(Builder!Link(source, target, label, support, score))
         /\ \A link \in Builder!Link(source, target, label, support, score) :
              /\ link.source = source /\ link.target = target /\ link.kind = label
              /\ link.support = support /\ link.score = score
              /\ source # None /\ target # None /\ source # target
<1> DEFINE it == [source |-> source, target |-> target, kind |-> label,
                  support |-> support, score |-> score]
<1>1. IsFiniteSet({it}) /\ IsFiniteSet({})
  BY FS_Singleton, FS_EmptySet
<1>2. Builder!Link(source, target, label, support, score) =
        IF source # None /\ target # None /\ source # target THEN {it} ELSE {}
  BY DEF Builder!Link, Builder!Only
<1>3. IsFiniteSet(Builder!Link(source, target, label, support, score))
  <2> HIDE DEF it
  <2> QED
    BY <1>1, <1>2
<1> QED
  BY <1>2, <1>3

LEMMA TypedIs ==
  ASSUME NEW e, NEW source, NEW target, NEW label,
         label \notin {"PARENT_OF", "EXECUTED"},
         source # None => source \in Builder!NodesOf(e),
         target # None => target \in Builder!NodesOf(e),
         source # None /\ target # None /\ label = "REFERENCES" =>
           ~(source[1] = "Process" /\ target[1] = "File")
  PROVE  /\ Own(e, Builder!Typed(e, source, target, label))
         /\ Own(e, Builder!FromMain(e, source, target, label))
BY LinkIs DEF Own, OwnLink, NamedEnds, Builder!Typed, Builder!FromMain

LEMMA OwnNodes ==
  ASSUME NEW e
  PROVE  /\ Builder!EventNode(e) \in Builder!NodesOf(e)
         /\ \A n \in {Builder!ProcessOf(e), Builder!FileOf(e), Builder!QueryOf(e),
                      Builder!RecordNode(e), Builder!ObjectNode(e), Builder!ModuleNode(e),
                      Builder!RegionNode(e), Builder!ServiceNode(e), Builder!RegistryNode(e),
                      Builder!DriverNode(e), Builder!CallbackNode(e), Builder!FlowNode(e)} :
              n # None => n \in Builder!NodesOf(e)
         /\ \A ip \in Builder!Addresses(e) : Builder!IpNode(ip) \in Builder!NodesOf(e)
         /\ Builder!Referenced(e) \subseteq Builder!NodesOf(e)
         /\ Builder!ServiceFiles(e) \subseteq Builder!NodesOf(e)
         /\ \A n \in Builder!OtherNames(e) :
              /\ Builder!DomainNode(n) \in Builder!NodesOf(e)
              /\ Builder!Server(e) # None => Builder!Server(e) \in Builder!NodesOf(e)
<1>1. Builder!CoreNodes(e) \subseteq Builder!NodesOf(e)
  BY DEF Builder!NodesOf
<1>2. Builder!FurtherNodes(e) \subseteq Builder!NodesOf(e)
  BY DEF Builder!NodesOf
<1>3. /\ Builder!EventNode(e) \in Builder!CoreNodes(e)
      /\ {Builder!ProcessOf(e), Builder!FileOf(e), Builder!QueryOf(e)} \ {None}
           \subseteq Builder!CoreNodes(e)
      /\ \A ip \in Builder!Addresses(e) : Builder!IpNode(ip) \in Builder!CoreNodes(e)
  BY DEF Builder!CoreNodes
<1>4. /\ {Builder!RecordNode(e), Builder!ObjectNode(e), Builder!ModuleNode(e),
          Builder!RegionNode(e), Builder!ServiceNode(e), Builder!RegistryNode(e),
          Builder!DriverNode(e), Builder!CallbackNode(e), Builder!FlowNode(e)} \ {None}
           \subseteq Builder!FurtherNodes(e)
      /\ Builder!Referenced(e) \subseteq Builder!FurtherNodes(e)
      /\ Builder!ServiceFiles(e) \subseteq Builder!FurtherNodes(e)
  BY DEF Builder!FurtherNodes
<1>5. \A n \in Builder!OtherNames(e) :
        /\ Builder!DomainNode(n) \in Builder!FurtherNodes(e)
        /\ Builder!Server(e) # None => Builder!Server(e) \in Builder!FurtherNodes(e)
  BY DEF Builder!FurtherNodes, Builder!Only
<1> QED
  BY <1>1, <1>2, <1>3, <1>4, <1>5

LEMMA NodeKinds ==
  ASSUME NEW e
  PROVE  /\ Builder!EventNode(e)[1] = "Event"
         /\ Builder!ProcessOf(e) # None => Builder!ProcessOf(e)[1] = "Process"
         /\ Builder!FileOf(e) # None => Builder!FileOf(e)[1] = "File"
         /\ Builder!RecordNode(e) # None => Builder!RecordNode(e)[1] = "MFTRecord"
         /\ Builder!ObjectNode(e) # None => Builder!ObjectNode(e)[1] = "FileObject"
         /\ Builder!ModuleNode(e) # None => Builder!ModuleNode(e)[1] \in {"DLL", "Module"}
         /\ Builder!RegistryNode(e) # None => Builder!RegistryNode(e)[1] = "RegistryArtifact"
         /\ Builder!DriverNode(e) # None => Builder!DriverNode(e)[1] = "Driver"
         /\ Builder!FlowNode(e) # None => Builder!FlowNode(e)[1] \in {"NetworkFlow", "Socket"}
<1>1. /\ Builder!EventNode(e)[1] = "Event"
      /\ Builder!ProcessOf(e) # None => Builder!ProcessOf(e)[1] = "Process"
      /\ Builder!FileOf(e) # None => Builder!FileOf(e)[1] = "File"
  BY DEF Builder!EventNode, Builder!ProcessOf, Builder!FileOf, Builder!FileNode
<1>2. /\ Builder!RecordNode(e) # None => Builder!RecordNode(e)[1] = "MFTRecord"
      /\ Builder!ObjectNode(e) # None => Builder!ObjectNode(e)[1] = "FileObject"
      /\ Builder!RegistryNode(e) # None => Builder!RegistryNode(e)[1] = "RegistryArtifact"
      /\ Builder!DriverNode(e) # None => Builder!DriverNode(e)[1] = "Driver"
  BY DEF Builder!RecordNode, Builder!ObjectNode, Builder!RegistryNode, Builder!DriverNode
<1>3. Builder!ModuleNode(e) # None => Builder!ModuleNode(e)[1] \in {"DLL", "Module"}
  BY DEF Builder!ModuleNode
<1>4. Builder!FlowNode(e) # None => Builder!FlowNode(e)[1] \in {"NetworkFlow", "Socket"}
  BY DEF Builder!FlowNode
<1> QED
  BY <1>1, <1>2, <1>3, <1>4

LEMMA ListsAreFinite ==
  ASSUME NEW e, Recorded(e)
  PROVE  /\ IsFiniteSet(Builder!Referenced(e))
         /\ IsFiniteSet(Builder!ServiceFiles(e))
         /\ IsFiniteSet(Builder!OtherNames(e))
         /\ e.network # None => IsFiniteSet(e.network.resolved)
<1>1. IsFiniteSet(Builder!Referenced(e))
  <2>1. CASE e.file # None
    <3> DEFINE node == [p \in e.file.references |->
                          Builder!FileNode(Builder!ArtifactScope(e), p, None)]
    <3>1. IsFiniteSet({node[p] : p \in e.file.references})
      BY <2>1, ImageIsFinite DEF Recorded
    <3>2. Builder!Referenced(e) = {node[p] : p \in e.file.references}
      BY <2>1 DEF Builder!Referenced, Builder!Only
    <3> QED
      BY <3>1, <3>2
  <2>2. CASE e.file = None
    BY <2>2, FS_EmptySet DEF Builder!Referenced, Builder!Only
  <2> QED
    BY <2>1, <2>2
<1>2. IsFiniteSet(Builder!ServiceFiles(e))
  <2>1. CASE e.service # None
    <3> DEFINE programs == e.service.programs
               node == [p \in programs |-> Builder!FileNode(Builder!ArtifactScope(e), p, None)]
               library == <<"DLL", Builder!ArtifactScope(e), e.service.dll>>
    <3>1. DOMAIN node = programs /\ IsFiniteSet(programs)
      BY <2>1 DEF Recorded
    <3>2. IsFiniteSet({node[p] : p \in programs} \cup {library})
      <4> DEFINE files == {node[p] : p \in programs}
      <4>1. IsFiniteSet(files)
        <5> HIDE DEF node
        <5> QED
          BY <3>1, ImageIsFinite
      <4>2. IsFiniteSet({library})
        BY FS_Singleton
      <4>3. IsFiniteSet(files \cup {library})
        <5> HIDE DEF files, library
        <5> QED
          BY <4>1, <4>2, FS_Union
      <4> QED
        BY <4>3
    <3>3. Builder!ServiceFiles(e) \subseteq {node[p] : p \in programs} \cup {library}
      BY <2>1 DEF Builder!ServiceFiles, Builder!Only, Builder!NodeIf
    <3> QED
      BY <3>2, <3>3, FS_Subset
  <2>2. CASE e.service = None
    BY <2>2, FS_EmptySet DEF Builder!ServiceFiles, Builder!Only
  <2> QED
    BY <2>1, <2>2
<1>3. IsFiniteSet(Builder!OtherNames(e))
  <2>1. CASE e.network # None
    <3>1. Builder!OtherNames(e) \subseteq e.network.names
      BY <2>1 DEF Builder!OtherNames, Builder!Only, Builder!Domains
    <3> QED
      BY <2>1, <3>1, FS_Subset DEF Recorded
  <2>2. CASE e.network = None
    BY <2>2, FS_EmptySet DEF Builder!OtherNames, Builder!Only
  <2> QED
    BY <2>1, <2>2
<1> QED
  BY <1>1, <1>2, <1>3 DEF Recorded

LEMMA CoreLinksOwn ==
  ASSUME NEW e, Recorded(e)
  PROVE  Own(e, Builder!CoreLinks(e))
<1> DEFINE net == e.network
           answers == Builder!Only(net # None, net.resolved)
           remote == Builder!Only(/\ net # None
                                  /\ e.type \in {"network_connection", "socket"}
                                  /\ ~net.listening /\ net.dst # AnyAddress,
                                  {net.dst} \ {None})
           answer == [ip \in answers |->
                        Builder!FromMain(e, Builder!QueryOf(e), Builder!IpNode(ip), "RESOLVED")]
           connection == [ip \in remote |->
                            Builder!FromMain(e, Builder!ProcessOf(e), Builder!IpNode(ip),
                                             "CONNECTED_TO")]
           loaded == Builder!Only(e.type = "module_load",
                       Builder!FromMain(e, Builder!ProcessOf(e), Builder!FileOf(e), "LOADED"))
<1>1. answers \subseteq Builder!Addresses(e) /\ remote \subseteq Builder!Addresses(e)
  BY DEF Builder!Only, Builder!Addresses
<1>2. IsFiniteSet(answers) /\ IsFiniteSet(remote)
  <2>1. IsFiniteSet(answers)
    BY ListsAreFinite, FS_EmptySet DEF Builder!Only
  <2>2. IsFiniteSet({net.dst}) /\ remote \subseteq {net.dst}
    BY FS_Singleton DEF Builder!Only
  <2> QED
    BY <2>1, <2>2, FS_Subset
<1>3. \A ip \in answers : Own(e, answer[ip])
  BY <1>1, OwnNodes, TypedIs
<1>4. \A ip \in remote : Own(e, connection[ip])
  BY <1>1, OwnNodes, TypedIs
<1>5. Own(e, loaded)
  <2>1. Own(e, Builder!FromMain(e, Builder!ProcessOf(e), Builder!FileOf(e), "LOADED"))
    BY OwnNodes, TypedIs
  <2> QED
    BY <2>1, NoLinks DEF Builder!Only
<1>6. /\ Own(e, UNION {answer[ip] : ip \in answers})
      /\ Own(e, UNION {connection[ip] : ip \in remote})
  <2>1. DOMAIN answer = answers /\ DOMAIN connection = remote
    OBVIOUS
  <2> HIDE DEF answers, remote, answer, connection
  <2> QED
    BY <1>2, <1>3, <1>4, <2>1, AllOwn
<1>7. Builder!CoreLinks(e) = UNION { loaded, UNION {answer[ip] : ip \in answers},
                                    UNION {connection[ip] : ip \in remote} }
  BY DEF Builder!CoreLinks
<1> HIDE DEF answers, remote, loaded, answer, connection
<1> QED
  BY <1>5, <1>6, <1>7, ThreeOwn

LEMMA FileLinksOwn ==
  ASSUME NEW e, Recorded(e)
  PROVE  Own(e, Builder!FileLinks(e))
<1> DEFINE file == Builder!FileOf(e)
           process == Builder!ProcessOf(e)
           object == Builder!ObjectNode(e)
           actor == IF process # None THEN process ELSE Builder!EventNode(e)
           named == Builder!Referenced(e)
           reference == [r \in named |-> Builder!Typed(e, file, r, "REFERENCES")]
           l1 == Builder!Typed(e, Builder!RecordNode(e), file, "REFERENCES")
           l2 == Builder!Typed(e, process, object, "REFERENCES")
           l3 == Builder!Typed(e, object, file, "REFERENCES")
           l4 == Builder!Only(e.dumped, Builder!Typed(e, file, object, "EXTRACTED_FROM"))
           l5 == Builder!Only(e.file # None /\ e.handle, Builder!Typed(e, process, file, "OPENED"))
           l6 == Builder!Only(Builder!ActionKind(e.type) # None,
                              Builder!Typed(e, actor, file, Builder!ActionKind(e.type)))
           l7 == UNION {reference[r] : r \in named}
<1>1. Builder!FileLinks(e) = UNION {l1, l2, l3, l4, l5, l6, l7}
  BY DEF Builder!FileLinks
<1>2. Own(e, l1) /\ Own(e, l2) /\ Own(e, l3)
  <2>1. Own(e, l1)
    BY OwnNodes, NodeKinds, TypedIs
  <2>2. Own(e, l2)
    BY OwnNodes, NodeKinds, TypedIs
  <2>3. Own(e, l3)
    BY OwnNodes, NodeKinds, TypedIs
  <2> QED
    BY <2>1, <2>2, <2>3
<1>3. Own(e, l4) /\ Own(e, l5)
  <2>1. Own(e, Builder!Typed(e, file, object, "EXTRACTED_FROM"))
    BY OwnNodes, TypedIs
  <2>2. Own(e, Builder!Typed(e, process, file, "OPENED"))
    BY OwnNodes, TypedIs
  <2> QED
    BY <2>1, <2>2, NoLinks DEF Builder!Only
<1>4. Own(e, l6)
  <2>1. CASE Builder!ActionKind(e.type) # None
    <3>1. Builder!ActionKind(e.type) \in {"CREATED", "MODIFIED", "DELETED"}
      BY <2>1 DEF Builder!ActionKind
    <3>2. Own(e, Builder!Typed(e, actor, file, Builder!ActionKind(e.type)))
      BY <3>1, OwnNodes, TypedIs
    <3> QED
      BY <2>1, <3>2 DEF Builder!Only
  <2>2. CASE Builder!ActionKind(e.type) = None
    BY <2>2, NoLinks DEF Builder!Only
  <2> QED
    BY <2>1, <2>2
<1>5. Own(e, l7)
  <2>1. \A r \in named : Own(e, reference[r])
    <3> TAKE r \in named
    <3>1. r \in Builder!NodesOf(e)
      BY OwnNodes
    <3>2. file # None => file[1] = "File"
      BY NodeKinds
    <3>3. Own(e, Builder!Typed(e, file, r, "REFERENCES"))
      BY <3>1, <3>2, OwnNodes, TypedIs
    <3> QED
      BY <3>3
  <2>2. DOMAIN reference = named /\ IsFiniteSet(named)
    BY ListsAreFinite
  <2> HIDE DEF named, reference
  <2> QED
    BY <2>1, <2>2, AllOwn
<1> HIDE DEF l1, l2, l3, l4, l5, l6, l7
<1>6. UNION {l1, l2, l3, l4, l5, l6, l7} = UNION {UNION {l1, l2, l3}, UNION {l4, l5, l6}, l7}
  OBVIOUS
<1>7. Own(e, UNION {l1, l2, l3}) /\ Own(e, UNION {l4, l5, l6})
  BY <1>2, <1>3, <1>4, ThreeOwn
<1> QED
  BY <1>1, <1>5, <1>6, <1>7, ThreeOwn

LEMMA SectionLinksOwn ==
  ASSUME NEW e, Recorded(e)
  PROVE  Own(e, Builder!SectionLinks(e))
<1> DEFINE file == Builder!FileOf(e)
           process == Builder!ProcessOf(e)
           files == Builder!ServiceFiles(e)
           use == [f \in files |-> Builder!Typed(e, Builder!ServiceNode(e), f, "USES_BINARY")]
           l1 == Builder!Typed(e, Builder!ModuleNode(e), file, "REFERENCES")
           l2 == Builder!Typed(e, process, Builder!RegionNode(e), "ASSOCIATED_WITH")
           l3 == Builder!Typed(e, Builder!ServiceNode(e), process, "ASSOCIATED_WITH")
           l4 == UNION {use[f] : f \in files}
           l5 == Builder!Typed(e, Builder!RegistryNode(e), file, "REFERENCES")
           l6 == Builder!Typed(e, Builder!DriverNode(e), file, "REFERENCES")
           l7 == Builder!Typed(e, Builder!EventNode(e), Builder!CallbackNode(e), "REFERENCES")
<1>1. Builder!SectionLinks(e) = UNION {l1, l2, l3, l4, l5, l6, l7}
  BY DEF Builder!SectionLinks
<1>2. Own(e, l1)
  BY OwnNodes, NodeKinds, TypedIs
<1>3. Own(e, l2) /\ Own(e, l3)
  <2>1. Own(e, l2)
    BY OwnNodes, TypedIs
  <2>2. Own(e, l3)
    BY OwnNodes, TypedIs
  <2> QED
    BY <2>1, <2>2
<1>4. Own(e, l4)
  <2>1. \A f \in files : Own(e, use[f])
    BY OwnNodes, TypedIs
  <2>2. DOMAIN use = files /\ IsFiniteSet(files)
    BY ListsAreFinite
  <2> HIDE DEF files, use
  <2> QED
    BY <2>1, <2>2, AllOwn
<1>5. Own(e, l5) /\ Own(e, l6) /\ Own(e, l7)
  <2>1. Own(e, l5)
    BY OwnNodes, NodeKinds, TypedIs
  <2>2. Own(e, l6)
    BY OwnNodes, NodeKinds, TypedIs
  <2>3. Own(e, l7)
    BY OwnNodes, NodeKinds, TypedIs
  <2> QED
    BY <2>1, <2>2, <2>3
<1> HIDE DEF l1, l2, l3, l4, l5, l6, l7
<1>6. UNION {l1, l2, l3, l4, l5, l6, l7} = UNION {UNION {l1, l2, l3}, UNION {l4, l5, l6}, l7}
  OBVIOUS
<1>7. Own(e, UNION {l1, l2, l3}) /\ Own(e, UNION {l4, l5, l6})
  BY <1>2, <1>3, <1>4, <1>5, ThreeOwn
<1> QED
  BY <1>1, <1>5, <1>6, <1>7, ThreeOwn

Among(es) == {es[i] : i \in DOMAIN es}

CaseOf(es) ==
  /\ \E n \in Nat : DOMAIN es = 1..n
  /\ \A i, j \in DOMAIN es : es[i].id = es[j].id => i = j
  /\ \A i \in DOMAIN es : Recorded(es[i])

LEMMA CasesAre == ASSUME NEW es \in Cases PROVE CaseOf(es)
BY CasesAssumption DEF CaseOf

LEMMA RowsOfCase ==
  ASSUME NEW es, CaseOf(es)
  PROVE  /\ IsFiniteSet(Among(es))
         /\ \A e \in Among(es) : Recorded(e)
         /\ \A e, f \in Among(es) : e.id = f.id => e = f
<1>1. IsFiniteSet(DOMAIN es)
  BY FS_Interval DEF CaseOf
<1>2. IsFiniteSet({es[i] : i \in DOMAIN es})
  BY <1>1, ImageIsFinite
<1> QED
  BY <1>2 DEF Among, CaseOf

\* The address a flow refers to is one of those its event lists.
LEMMA AddressIs ==
  ASSUME NEW es, NEW n \in Nat, DOMAIN es = 1..n, NEW e \in Among(es), Recorded(e)
  PROVE  /\ Builder!Addresses(e) = {} => Builder!AddressOf(es, e) = None
         /\ Builder!Addresses(e) # {} =>
              \E ip \in Builder!Addresses(e) : Builder!AddressOf(es, e) = Builder!IpNode(ip)
<1>1. CASE Builder!Addresses(e) = {}
  BY <1>1 DEF Builder!AddressOf
<1>2. CASE Builder!Addresses(e) # {}
  <2> DEFINE Lists(a) == {i \in DOMAIN es : a \in Builder!Addresses(es[i])}
             first == [a \in Builder!Addresses(e) |-> Builder!Min(Lists(a))]
             firsts == {first[a] : a \in Builder!Addresses(e)}
             last == Builder!Max(firsts)
             latest == {a \in Builder!Addresses(e) : first[a] = last}
  <2>1. IsFiniteSet(Builder!Addresses(e)) /\ Builder!Addresses(e) \subseteq Int
    <3>1. CASE e.network = None
      BY <3>1, FS_EmptySet DEF Builder!Addresses
    <3>2. CASE e.network # None
      <4>1. IsFiniteSet(e.network.resolved)
        BY <3>2 DEF Recorded
      <4>2. IsFiniteSet({e.network.dst})
        BY FS_Singleton
      <4>3. IsFiniteSet({e.network.dst} \ {None})
        BY <4>2, FS_Subset
      <4> QED
        BY <3>2, <4>1, <4>3, FS_Union DEF Builder!Addresses, Recorded
    <3> QED
      BY <3>1, <3>2 DEF Recorded
  <2>2. \A a \in Builder!Addresses(e) : first[a] \in 1..n
    <3>1. IsFiniteSet(1..n)
      BY FS_Interval
    <3>2. ASSUME NEW a \in Builder!Addresses(e)
          PROVE  Lists(a) # {} /\ Lists(a) \subseteq 1..n
      BY DEF Among
    <3>3. ASSUME NEW a \in Builder!Addresses(e)
          PROVE  Builder!Min(Lists(a)) \in Lists(a)
      <4>1. IsFiniteSet(Lists(a)) /\ Lists(a) \subseteq Int /\ Lists(a) # {}
        BY <3>1, <3>2, FS_Subset
      <4> HIDE DEF Lists
      <4> QED
        BY <4>1, MinIsLeast
    <3> QED
      BY <3>2, <3>3
  <2>3. last \in firsts
    <3>1. firsts # {} /\ firsts \subseteq Int
      <4> HIDE DEF first
      <4>1. PICK a : a \in Builder!Addresses(e)
        BY <1>2
      <4>2. first[a] \in firsts
        BY <4>1
      <4> QED
        BY <2>2, <4>2
    <3>2. IsFiniteSet(firsts)
      BY <2>1, ImageIsFinite
    <3> HIDE DEF firsts
    <3> QED
      BY <3>1, <3>2, MaxIsGreatest
  <2>4. latest # {} /\ latest \subseteq Builder!Addresses(e)
    <3> HIDE DEF last, first
    <3> QED
      BY <2>3
  <2>5. Builder!Max(latest) \in latest
    <3>1. IsFiniteSet(latest) /\ latest \subseteq Int
      BY <2>1, <2>4, FS_Subset
    <3> HIDE DEF latest
    <3> QED
      BY <2>4, <3>1, MaxIsGreatest
  <2>6. Builder!AddressOf(es, e) = Builder!IpNode(Builder!Max(latest))
    <3>1. /\ firsts = {Builder!Min(Lists(a)) : a \in Builder!Addresses(e)}
          /\ latest = {a \in Builder!Addresses(e) : Builder!Min(Lists(a)) = last}
      OBVIOUS
    <3>2. Builder!AddressOf(es, e) =
            LET final == Builder!Max({Builder!Min(Lists(a)) : a \in Builder!Addresses(e)})
            IN  Builder!IpNode(Builder!Max({a \in Builder!Addresses(e) :
                                              Builder!Min(Lists(a)) = final}))
      BY <1>2 DEF Builder!AddressOf
    <3> QED
      BY <3>1, <3>2
  <2> HIDE DEF latest
  <2> QED
    BY <1>2, <2>4, <2>5, <2>6
<1> QED
  BY <1>1, <1>2

LEMMA FourOwn ==
  ASSUME NEW e, NEW A, NEW B, NEW C, NEW D, Own(e, A), Own(e, B), Own(e, C), Own(e, D)
  PROVE  Own(e, UNION {A, B, C, D})
<1>1. UNION {A, B, C, D} = (A \cup B) \cup (C \cup D)
  OBVIOUS
<1>2. Own(e, A \cup B)
  BY BothOwn
<1>3. Own(e, C \cup D)
  BY BothOwn
<1>4. Own(e, (A \cup B) \cup (C \cup D))
  BY <1>2, <1>3, BothOwn
<1> QED
  BY <1>1, <1>4

LEMMA NetworkLinksOwn ==
  ASSUME NEW es, NEW n \in Nat, DOMAIN es = 1..n, NEW e \in Among(es), Recorded(e)
  PROVE  Own(e, Builder!NetworkLinks(es, e))
<1> DEFINE answers == Builder!Only(Builder!QueryOf(e) # None, e.network.resolved)
           names == Builder!OtherNames(e)
           answer == [ip \in answers |->
                        Builder!Typed(e, Builder!QueryOf(e), Builder!IpNode(ip), "RESOLVED_TO")]
           greeting == [name \in names |->
                          Builder!Typed(e, Builder!DomainNode(name), Builder!Server(e),
                                        "ASSOCIATED_WITH")]
           l1 == UNION {answer[ip] : ip \in answers}
           l2 == UNION {greeting[name] : name \in names}
           l3 == Builder!Typed(e, Builder!ProcessOf(e), Builder!FlowNode(e), "ASSOCIATED_WITH")
           l4 == Builder!Typed(e, Builder!FlowNode(e), Builder!AddressOf(es, e), "REFERENCES")
<1>1. Builder!NetworkLinks(es, e) = UNION {l1, l2, l3, l4}
  BY DEF Builder!NetworkLinks
<1>2. Own(e, l1)
  <2>1. answers \subseteq Builder!Addresses(e)
    BY DEF Builder!Only, Builder!QueryOf, Builder!Addresses
  <2>2. IsFiniteSet(answers)
    BY ListsAreFinite, FS_EmptySet DEF Builder!Only, Builder!QueryOf
  <2>3. \A ip \in answers : Own(e, answer[ip])
    BY <2>1, OwnNodes, TypedIs
  <2>4. DOMAIN answer = answers
    OBVIOUS
  <2> HIDE DEF answers, answer
  <2> QED
    BY <2>2, <2>3, <2>4, AllOwn
<1>3. Own(e, l2)
  <2>1. \A name \in names : Own(e, greeting[name])
    BY OwnNodes, TypedIs
  <2>2. DOMAIN greeting = names /\ IsFiniteSet(names)
    BY ListsAreFinite
  <2> HIDE DEF names, greeting
  <2> QED
    BY <2>1, <2>2, AllOwn
<1>4. Own(e, l3)
  BY OwnNodes, TypedIs
<1>5. Own(e, l4)
  <2>1. CASE Builder!FlowNode(e) = None
    BY <2>1, NoLinks DEF Builder!Typed, Builder!Link, Builder!Only
  <2>2. CASE Builder!FlowNode(e) # None
    <3>1. Builder!AddressOf(es, e) # None => Builder!AddressOf(es, e) \in Builder!NodesOf(e)
      BY AddressIs, OwnNodes
    <3>2. Builder!FlowNode(e) \in Builder!NodesOf(e) /\ Builder!FlowNode(e)[1] # "Process"
      BY <2>2, OwnNodes, NodeKinds
    <3> QED
      BY <3>1, <3>2, TypedIs
  <2> QED
    BY <2>1, <2>2
<1> HIDE DEF l1, l2, l3, l4
<1> QED
  BY <1>1, <1>2, <1>3, <1>4, <1>5, FourOwn

OwnLinks(es, e) ==
  UNION {Builder!CoreLinks(e), Builder!FileLinks(e), Builder!SectionLinks(e),
         Builder!NetworkLinks(es, e)}

LEMMA EventLinksOwn ==
  ASSUME NEW es, NEW n \in Nat, DOMAIN es = 1..n, NEW e \in Among(es), Recorded(e)
  PROVE  Own(e, OwnLinks(es, e))
<1> DEFINE l1 == Builder!CoreLinks(e)
           l2 == Builder!FileLinks(e)
           l3 == Builder!SectionLinks(e)
           l4 == Builder!NetworkLinks(es, e)
<1>1. Own(e, l1) /\ Own(e, l2) /\ Own(e, l3) /\ Own(e, l4)
  BY CoreLinksOwn, FileLinksOwn, SectionLinksOwn, NetworkLinksOwn
<1>2. OwnLinks(es, e) = UNION {l1, l2, l3, l4}
  BY DEF OwnLinks
<1> HIDE DEF l1, l2, l3, l4
<1> QED
  BY <1>1, <1>2, FourOwn

-----------------------------------------------------------------------------
(***************************************************************************)
(* The links between events.                                               *)
(***************************************************************************)

LEMMA UnionIsFinite ==
  ASSUME NEW S, IsFiniteSet(S), NEW sets, DOMAIN sets = S, \A x \in S : IsFiniteSet(sets[x])
  PROVE  IsFiniteSet(UNION {sets[x] : x \in S})
<1> DEFINE all == {sets[x] : x \in S}
<1>1. IsFiniteSet(all)
  BY ImageIsFinite
<1>2. \A T \in all : IsFiniteSet(T)
  OBVIOUS
<1> HIDE DEF all
<1>3. IsFiniteSet(UNION all)
  BY <1>1, <1>2, FS_UNION
<1> QED
  BY <1>3 DEF all

\* Links that hold for every event of a case.
LEMMA EventsLinks ==
  ASSUME NEW es, CaseOf(es)
  PROVE  /\ IsFiniteSet(UNION {OwnLinks(es, es[i]) : i \in DOMAIN es})
         /\ \A link \in UNION {OwnLinks(es, es[i]) : i \in DOMAIN es} :
              \E e \in Among(es) : OwnLink(e, link)
<1> DEFINE of == [i \in DOMAIN es |-> OwnLinks(es, es[i])]
<1>1. \A i \in DOMAIN es : Own(es[i], of[i])
  BY EventLinksOwn DEF CaseOf, Among
<1>2. IsFiniteSet(DOMAIN es) /\ DOMAIN of = DOMAIN es
  BY FS_Interval DEF CaseOf
<1>3. UNION {OwnLinks(es, es[i]) : i \in DOMAIN es} = UNION {of[i] : i \in DOMAIN es}
  OBVIOUS
<1> HIDE DEF of
<1>4. \A i \in DOMAIN es : IsFiniteSet(of[i]) /\ \A link \in of[i] : OwnLink(es[i], link)
  BY <1>1 DEF Own
<1>5. IsFiniteSet(UNION {of[i] : i \in DOMAIN es})
  BY <1>2, <1>4, UnionIsFinite
<1> QED
  BY <1>3, <1>4, <1>5 DEF Among

FromParent(es, link) ==
  \E p \in Builder!Owners(es) :
    /\ link.source = Builder!ProcessOf(p)
    /\ link.kind = "PARENT_OF" /\ link.score = 0
    /\ link.support = {c.id : c \in Builder!ChildRows(es, p, link.target)}
    /\ Builder!ChildRows(es, p, link.target) # {}
    /\ link.source # None /\ link.target # None /\ link.source # link.target

LEMMA ParentLinkIs ==
  ASSUME NEW es, NEW p \in Builder!Owners(es), NEW n
  PROVE  /\ IsFiniteSet(Builder!ParentLink(p, n, Builder!ChildRows(es, p, n)))
         /\ \A link \in Builder!ParentLink(p, n, Builder!ChildRows(es, p, n)) :
              FromParent(es, link)
<1> DEFINE children == Builder!ChildRows(es, p, n)
           it == Builder!Link(Builder!ProcessOf(p), n, "PARENT_OF", {c.id : c \in children}, 0)
<1>1. Builder!ParentLink(p, n, children) = IF children # {} THEN it ELSE {}
  BY DEF Builder!ParentLink, Builder!Only
<1>2. /\ IsFiniteSet(it)
      /\ \A link \in it :
           /\ link.source = Builder!ProcessOf(p) /\ link.target = n
           /\ link.kind = "PARENT_OF"
           /\ link.support = {c.id : c \in children} /\ link.score = 0
           /\ Builder!ProcessOf(p) # None /\ n # None /\ Builder!ProcessOf(p) # n
  BY LinkIs
<1>3. IsFiniteSet(Builder!ParentLink(p, n, children))
  BY <1>1, <1>2, FS_EmptySet
<1>4. ASSUME NEW link \in Builder!ParentLink(p, n, children)
      PROVE  FromParent(es, link)
  BY <1>1, <1>2, <1>4 DEF FromParent
<1> QED
  BY <1>3, <1>4

LEMMA OwnersAre ==
  ASSUME NEW es
  PROVE  Builder!Owners(es) = {e \in Among(es) : e.process # None}
BY DEF Builder!Owners, Among

LEMMA ParentLinksAre ==
  ASSUME NEW es, CaseOf(es)
  PROVE  /\ IsFiniteSet(Builder!ParentLinks(es))
         /\ \A link \in Builder!ParentLinks(es) : FromParent(es, link)
<1> DEFINE owners == Builder!Owners(es)
           names == Builder!ProcessNodes(es)
           joined == [p \in owners |-> [n \in names |->
                      Builder!ParentLink(p, n, Builder!ChildRows(es, p, n))]]
           of == [p \in owners |-> UNION {joined[p][n] : n \in names}]
           nodeOf == [p \in owners |-> Builder!ProcessOf(p)]
<1>1. IsFiniteSet(owners)
  BY OwnersAre, RowsOfCase, FS_Subset
<1>2. IsFiniteSet(names)
  <2>1. names = {nodeOf[p] : p \in owners}
    BY DEF Builder!ProcessNodes
  <2>2. DOMAIN nodeOf = owners
    OBVIOUS
  <2> HIDE DEF owners, names, nodeOf
  <2> QED
    BY <1>1, <2>1, <2>2, ImageIsFinite
<1>3. \A p \in owners : /\ DOMAIN joined[p] = names
                        /\ \A n \in names : /\ IsFiniteSet(joined[p][n])
                                            /\ \A link \in joined[p][n] : FromParent(es, link)
  BY ParentLinkIs
<1>4. Builder!ParentLinks(es) = UNION {UNION {joined[p][n] : n \in names} : p \in owners}
  BY DEF Builder!ParentLinks
<1>5. DOMAIN of = owners /\ \A p \in owners : of[p] = UNION {joined[p][n] : n \in names}
  OBVIOUS
<1>6. UNION {UNION {joined[p][n] : n \in names} : p \in owners} = UNION {of[p] : p \in owners}
  OBVIOUS
<1> HIDE DEF owners, names, joined, of
<1>7. \A p \in owners : IsFiniteSet(of[p])
  BY <1>2, <1>3, <1>5, UnionIsFinite
<1>8. IsFiniteSet(UNION {of[p] : p \in owners})
  BY <1>1, <1>5, <1>7, UnionIsFinite
<1>9. ASSUME NEW link \in UNION {of[p] : p \in owners}
      PROVE  FromParent(es, link)
  BY <1>3, <1>5, <1>9
<1> QED
  BY <1>4, <1>6, <1>8, <1>9

\* A correlation of the analysis: two different events and what the rules keep of them.
OfPair(es, c) ==
  /\ c.source \in Among(es) /\ c.target \in Among(es) /\ c.source # c.target
  /\ c.reasons = Builder!KeptReasons(c.source, c.target)
  /\ c.score = Builder!Score(c.reasons)

Correlated(es, cs) == IsFiniteSet(cs) /\ \A c \in cs : OfPair(es, c)

LEMMA PairScore ==
  ASSUME NEW es, CaseOf(es), NEW c, OfPair(es, c)
  PROVE  c.score \in 0..100
<1>1. Observed(c.source) /\ Observed(c.target)
  BY RowsOfCase DEF OfPair, Recorded
<1>2. Fair(Index!KeptReasons(c.source, c.target), Index!KeptReasons(c.target, c.source))
  BY <1>1, KeptFair
<1>3. Index!Score(Index!KeptReasons(c.source, c.target)) \in 0..100
  BY <1>2, ScoreIsInRange
<1> QED
  BY <1>3, SameKept, SameScore DEF OfPair

\* A link that the correlation gives in the direction from left to right.
FromPair(c, left, right, link) ==
  /\ link.source = Builder!ProcessOf(left)
  /\ link.source # None /\ link.target # None /\ link.source # link.target
  /\ link.support = {left.id, right.id} /\ link.score = c.score
  /\ \/ /\ Index!HasRule(c.reasons, {"command_line_file_path"})
        /\ link.target = Builder!FileOf(right)
        /\ link.kind \in {"EXECUTED", "REFERENCES"}
     \/ /\ Index!HasRule(c.reasons, {"parent_process"})
        /\ link.target = Builder!ProcessOf(right)
        /\ link.kind = "PARENT_OF"
        /\ left.process # None /\ right.process # None
        /\ right.process.ppid = left.process.pid

LEMMA ProjectedIs ==
  ASSUME NEW c, NEW left, NEW right
  PROVE  /\ IsFiniteSet(Builder!Projected(c, left, right))
         /\ \A link \in Builder!Projected(c, left, right) : FromPair(c, left, right, link)
<1> DEFINE named == Builder!HasRule(c.reasons, {"command_line_file_path"})
           child == /\ Builder!HasRule(c.reasons, {"parent_process"})
                    /\ left.process # None /\ right.process # None
                    /\ right.process.ppid = left.process.pid
           label == IF left.process # None /\ left.script THEN "EXECUTED" ELSE "REFERENCES"
           support == {left.id, right.id}
           it == Builder!Link(Builder!ProcessOf(left), Builder!FileOf(right),
                              label, support, c.score)
           that == Builder!Link(Builder!ProcessOf(left), Builder!ProcessOf(right), "PARENT_OF",
                                support, c.score)
<1>1. Builder!Projected(c, left, right) = Builder!Only(named, it) \cup Builder!Only(child, that)
  BY DEF Builder!Projected
<1>2. /\ IsFiniteSet(it)
      /\ \A link \in it :
           /\ link.source = Builder!ProcessOf(left) /\ link.target = Builder!FileOf(right)
           /\ link.kind = label /\ link.support = support /\ link.score = c.score
           /\ Builder!ProcessOf(left) # None /\ Builder!FileOf(right) # None
           /\ Builder!ProcessOf(left) # Builder!FileOf(right)
  BY LinkIs
<1>3. /\ IsFiniteSet(that)
      /\ \A link \in that :
           /\ link.source = Builder!ProcessOf(left) /\ link.target = Builder!ProcessOf(right)
           /\ link.kind = "PARENT_OF" /\ link.support = support /\ link.score = c.score
           /\ Builder!ProcessOf(left) # None /\ Builder!ProcessOf(right) # None
           /\ Builder!ProcessOf(left) # Builder!ProcessOf(right)
  BY LinkIs
<1>4. label \in {"EXECUTED", "REFERENCES"}
  OBVIOUS
<1>5. /\ named <=> Index!HasRule(c.reasons, {"command_line_file_path"})
      /\ child <=> /\ Index!HasRule(c.reasons, {"parent_process"})
                   /\ left.process # None /\ right.process # None
                   /\ right.process.ppid = left.process.pid
  BY SameSmallRules
<1> HIDE DEF it, that, label, named, child
<1>6. IsFiniteSet(Builder!Only(named, it)) /\ IsFiniteSet(Builder!Only(child, that))
  BY <1>2, <1>3, FS_EmptySet DEF Builder!Only
<1>7. IsFiniteSet(Builder!Projected(c, left, right))
  BY <1>1, <1>6, FS_Union
<1>8. ASSUME NEW link \in Builder!Only(named, it)
      PROVE  FromPair(c, left, right, link)
  BY <1>2, <1>4, <1>5, <1>8 DEF Builder!Only, FromPair
<1>9. ASSUME NEW link \in Builder!Only(child, that)
      PROVE  FromPair(c, left, right, link)
  BY <1>3, <1>5, <1>9 DEF Builder!Only, FromPair
<1> QED
  BY <1>1, <1>7, <1>8, <1>9

FromEvents(c, link) ==
  /\ link.source = Builder!EventNode(c.source) /\ link.target = Builder!EventNode(c.target)
  /\ link.kind = "CORRELATED_WITH"
  /\ link.support = {c.source.id, c.target.id} /\ link.score = c.score

FromCorrelation(c, link) ==
  \/ FromPair(c, c.source, c.target, link)
  \/ FromPair(c, c.target, c.source, link)
  \/ FromEvents(c, link)

LEMMA CorrelationLinksAre ==
  ASSUME NEW cs, IsFiniteSet(cs)
  PROVE  /\ IsFiniteSet(Builder!CorrelationLinks(cs))
         /\ \A link \in Builder!CorrelationLinks(cs) : \E c \in cs : FromCorrelation(c, link)
<1> DEFINE Way(c) == Builder!Projected(c, c.source, c.target)
           Back(c) == Builder!Projected(c, c.target, c.source)
           Join(c) == Builder!Link(Builder!EventNode(c.source), Builder!EventNode(c.target),
                                   "CORRELATED_WITH", {c.source.id, c.target.id}, c.score)
           of == [c \in cs |-> Way(c) \cup Back(c) \cup Join(c)]
<1>1. ASSUME NEW c \in cs
      PROVE  /\ IsFiniteSet(Way(c) \cup Back(c) \cup Join(c))
             /\ \A link \in Way(c) \cup Back(c) \cup Join(c) : FromCorrelation(c, link)
  <2>1. IsFiniteSet(Way(c)) /\ \A link \in Way(c) : FromPair(c, c.source, c.target, link)
    BY ProjectedIs
  <2>2. IsFiniteSet(Back(c)) /\ \A link \in Back(c) : FromPair(c, c.target, c.source, link)
    BY ProjectedIs
  <2>3. IsFiniteSet(Join(c)) /\ \A link \in Join(c) : FromEvents(c, link)
    BY LinkIs DEF FromEvents
  <2> HIDE DEF Way, Back, Join
  <2>4. IsFiniteSet(Way(c) \cup Back(c))
    BY <2>1, <2>2, FS_Union
  <2>5. IsFiniteSet((Way(c) \cup Back(c)) \cup Join(c))
    BY <2>3, <2>4, FS_Union
  <2> QED
    BY <2>1, <2>2, <2>3, <2>5 DEF FromCorrelation
<1>2. Builder!CorrelationLinks(cs) = UNION {of[c] : c \in cs}
  BY DEF Builder!CorrelationLinks
<1>3. DOMAIN of = cs /\ \A c \in cs : /\ IsFiniteSet(of[c])
                                     /\ \A link \in of[c] : FromCorrelation(c, link)
  <2>1. DOMAIN of = cs /\ \A c \in cs : of[c] = Way(c) \cup Back(c) \cup Join(c)
    OBVIOUS
  <2> HIDE DEF of, Way, Back, Join
  <2> QED
    BY <1>1, <2>1
<1> HIDE DEF of
<1>4. IsFiniteSet(UNION {of[c] : c \in cs})
  BY <1>3, UnionIsFinite
<1> QED
  BY <1>2, <1>3, <1>4

LinkFact(es, cs, link) ==
  \/ \E e \in Among(es) : OwnLink(e, link)
  \/ FromParent(es, link)
  \/ \E c \in cs : FromCorrelation(c, link)

LEMMA LinksAre ==
  ASSUME NEW es, CaseOf(es), NEW cs, IsFiniteSet(cs)
  PROVE  /\ IsFiniteSet(Builder!AllLinks(es, cs))
         /\ \A link \in Builder!AllLinks(es, cs) : LinkFact(es, cs, link)
<1> DEFINE l1 == UNION {OwnLinks(es, es[i]) : i \in DOMAIN es}
           l2 == Builder!ParentLinks(es)
           l3 == Builder!CorrelationLinks(cs)
<1>1. Builder!AllLinks(es, cs) = UNION {l1, l2, l3}
  BY DEF Builder!AllLinks, OwnLinks
<1>2. IsFiniteSet(l1) /\ \A link \in l1 : LinkFact(es, cs, link)
  BY EventsLinks DEF LinkFact
<1>3. IsFiniteSet(l2) /\ \A link \in l2 : LinkFact(es, cs, link)
  BY ParentLinksAre DEF LinkFact
<1>4. IsFiniteSet(l3) /\ \A link \in l3 : LinkFact(es, cs, link)
  BY CorrelationLinksAre DEF LinkFact
<1> HIDE DEF l1, l2, l3
<1>5. UNION {l1, l2, l3} = (l1 \cup l2) \cup l3
  OBVIOUS
<1>6. IsFiniteSet(l1 \cup l2)
  BY <1>2, <1>3, FS_Union
<1>7. IsFiniteSet((l1 \cup l2) \cup l3)
  BY <1>4, <1>6, FS_Union
<1> QED
  BY <1>1, <1>2, <1>3, <1>4, <1>5, <1>7

-----------------------------------------------------------------------------
(***************************************************************************)
(* The edges: one for each relation that a link has.                       *)
(***************************************************************************)

LEMMA LargestScore ==
  ASSUME NEW S, S \subseteq 0..100, S # {}
  PROVE  Builder!Max(S) \in S /\ \A x \in S : x <= Builder!Max(S)
<1>1. IsFiniteSet(S)
  <2>1. 0 \in Int /\ 100 \in Int
    OBVIOUS
  <2>2. IsFiniteSet(0..100)
    BY ONLY <2>1, FS_Interval
  <2> QED
    BY <2>2, FS_Subset
<1>2. S \subseteq Int
  OBVIOUS
<1> QED
  BY <1>1, <1>2, MaxIsGreatest

SameRelation(links, link) ==
  {l \in links : l.source = link.source /\ l.target = link.target /\ l.kind = link.kind}
ScoreOf(links) ==
  LET strongest == Builder!Max({l.score : l \in links})
  IN  IF strongest = 0 THEN 100 ELSE strongest
EdgeOf(links, link) ==
  LET same == SameRelation(links, link)
  IN  [source |-> link.source, target |-> link.target, kind |-> link.kind,
       support |-> UNION {l.support : l \in same}, score |-> ScoreOf(same),
       count |-> Builder!Cardinality(same)]

LEMMA SameCounts == \A S : Builder!Cardinality(S) = Cardinality(S)
BY DEF Builder!Cardinality, Cardinality

LEMMA EdgesAre ==
  ASSUME NEW links
  PROVE  Builder!Coalesced(links) = {EdgeOf(links, link) : link \in links}
<1>1. \A link \in links :
        /\ {l \in links : Builder!Relation(l) = Builder!Relation(link)} = SameRelation(links, link)
        /\ Builder!Relation(link)[1] = link.source
        /\ Builder!Relation(link)[2] = link.target
        /\ Builder!Relation(link)[3] = link.kind
  BY DEF Builder!Relation, SameRelation
<1>2. \A link \in links :
        EdgeOf(links, link) =
          LET r == Builder!Relation(link)
              same == {l \in links : Builder!Relation(l) = r}
              strongest == Builder!Max({l.score : l \in same})
          IN  [ source |-> r[1], target |-> r[2], kind |-> r[3],
                support |-> UNION {l.support : l \in same},
                score |-> IF strongest = 0 THEN 100 ELSE strongest,
                count |-> Builder!Cardinality(same) ]
  BY <1>1 DEF EdgeOf, ScoreOf
<1>3. Builder!Coalesced(links) =
        {LET same == {l \in links : Builder!Relation(l) = r}
             strongest == Builder!Max({l.score : l \in same})
         IN  [ source |-> r[1], target |-> r[2], kind |-> r[3],
               support |-> UNION {l.support : l \in same},
               score |-> IF strongest = 0 THEN 100 ELSE strongest,
               count |-> Builder!Cardinality(same) ] : r \in {Builder!Relation(l) : l \in links}}
  BY DEF Builder!Coalesced
<1> QED
  BY ZenonT(60), <1>2, <1>3

LEMMA SameHasLink ==
  ASSUME NEW links, IsFiniteSet(links), NEW link \in links
  PROVE  /\ link \in SameRelation(links, link)
         /\ IsFiniteSet(SameRelation(links, link))
         /\ Cardinality(SameRelation(links, link)) \in Nat \ {0}
<1>1. link \in SameRelation(links, link)
  BY DEF SameRelation
<1>2. IsFiniteSet(SameRelation(links, link))
  BY FS_Subset DEF SameRelation
<1>3. Cardinality(SameRelation(links, link)) # 0
  BY <1>1, <1>2, FS_EmptySet
<1>4. Cardinality(SameRelation(links, link)) \in Nat
  BY <1>2, FS_CardinalityType
<1> QED
  BY <1>1, <1>2, <1>3, <1>4

LEMMA ScoreOfLinks ==
  ASSUME NEW links, links # {}, \A l \in links : l.score \in 0..100
  PROVE  /\ ScoreOf(links) \in 1..100
         /\ (\A l \in links : l.score = 0) => ScoreOf(links) = 100
<1> DEFINE scores == {l.score : l \in links}
<1>1. scores \in SUBSET (0..100) /\ scores # {}
  OBVIOUS
<1>2. (\A l \in links : l.score = 0) => \A x \in scores : x = 0
  OBVIOUS
<1>3. ScoreOf(links) = IF Builder!Max(scores) = 0 THEN 100 ELSE Builder!Max(scores)
  BY DEF ScoreOf
<1> HIDE DEF scores
<1>4. Builder!Max(scores) \in scores
  BY <1>1, LargestScore
<1>5. Builder!Max(scores) \in 0..100
  BY <1>1, <1>4
<1> QED
  BY <1>2, <1>3, <1>4, <1>5

-----------------------------------------------------------------------------
(***************************************************************************)
(* The invariant of the builder, and what it says of the edges.            *)
(***************************************************************************)

CaseInv ==
  /\ events \in Cases
  /\ Correlated(events, correlations)
  /\ graph = None \/ graph = Builder!Graph(events, correlations)

\* A link, and the case it comes from.
LEMMA LinkScores ==
  ASSUME NEW es, CaseOf(es), NEW cs, Correlated(es, cs),
         NEW link \in Builder!AllLinks(es, cs)
  PROVE  link.score \in 0..100
<1>1. LinkFact(es, cs, link)
  BY LinksAre DEF Correlated
<1>2. \A c \in cs : c.score \in 0..100
  BY PairScore DEF Correlated
<1> QED
  BY <1>1, <1>2 DEF LinkFact, OwnLink, FromParent, FromCorrelation, FromPair, FromEvents

NodeOfCase(es, n) == \E e \in Among(es) : n \in Builder!NodesOf(e)

LEMMA LinkEnds ==
  ASSUME NEW es, CaseOf(es), NEW cs, Correlated(es, cs),
         NEW link \in Builder!AllLinks(es, cs)
  PROVE  /\ NodeOfCase(es, link.source) /\ NodeOfCase(es, link.target)
         /\ link.support # {} /\ link.support \subseteq {e.id : e \in Among(es)}
<1>1. LinkFact(es, cs, link)
  BY LinksAre DEF Correlated
<1>2. CASE \E e \in Among(es) : OwnLink(e, link)
  BY <1>2 DEF OwnLink, NodeOfCase
<1>3. CASE FromParent(es, link)
  <2>1. PICK p \in Builder!Owners(es) :
          /\ link.source = Builder!ProcessOf(p)
          /\ link.support = {c.id : c \in Builder!ChildRows(es, p, link.target)}
          /\ Builder!ChildRows(es, p, link.target) # {}
          /\ link.source # None /\ link.target # None
    BY <1>3 DEF FromParent
  <2>2. \A c \in Builder!ChildRows(es, p, link.target) :
          c \in Among(es) /\ Builder!ProcessOf(c) = link.target
    BY OwnersAre DEF Builder!ChildRows
  <2>3. p \in Among(es)
    BY OwnersAre
  <2>4. NodeOfCase(es, link.source) /\ NodeOfCase(es, link.target)
    BY <2>1, <2>2, <2>3, OwnNodes DEF NodeOfCase
  <2> QED
    BY <2>1, <2>2, <2>4
<1>4. CASE \E c \in cs : FromCorrelation(c, link)
  <2>1. PICK c \in cs : FromCorrelation(c, link)
    BY <1>4
  <2>2. c.source \in Among(es) /\ c.target \in Among(es)
    BY DEF Correlated, OfPair
  <2>3. ASSUME NEW l \in Among(es), NEW r \in Among(es), FromPair(c, l, r, link)
        PROVE  NodeOfCase(es, link.source) /\ NodeOfCase(es, link.target)
    BY <2>3, OwnNodes DEF FromPair, NodeOfCase
  <2>4. FromEvents(c, link) => NodeOfCase(es, link.source) /\ NodeOfCase(es, link.target)
    BY <2>2, OwnNodes DEF FromEvents, NodeOfCase
  <2>5. link.support = {c.source.id, c.target.id}
    BY <2>1 DEF FromCorrelation, FromPair, FromEvents
  <2>6. NodeOfCase(es, link.source) /\ NodeOfCase(es, link.target)
    BY <2>1, <2>2, <2>3, <2>4 DEF FromCorrelation
  <2> QED
    BY <2>2, <2>5, <2>6
<1> QED
  BY <1>1, <1>2, <1>3, <1>4 DEF LinkFact

LEMMA GraphIs ==
  ASSUME NEW es, CaseOf(es), NEW cs, Correlated(es, cs),
         NEW d \in Builder!Graph(es, cs).edges
  PROVE  LET links == Builder!AllLinks(es, cs)
         IN  /\ \E link \in links : d = EdgeOf(links, link)
             /\ \A link \in links : d = EdgeOf(links, link) => 
                  /\ d.source = link.source /\ d.target = link.target /\ d.kind = link.kind
                  /\ \A x \in d.support : \E l \in SameRelation(links, link) : x \in l.support
                  /\ link.support \subseteq d.support
<1> DEFINE links == Builder!AllLinks(es, cs)
<1>1. d \in Builder!Coalesced(links)
  BY DEF Builder!Graph
<1> HIDE DEF links
<1>2. \E link \in links : d = EdgeOf(links, link)
  BY <1>1, EdgesAre
<1>3. ASSUME NEW link \in links, d = EdgeOf(links, link)
      PROVE  /\ d.source = link.source /\ d.target = link.target /\ d.kind = link.kind
             /\ \A x \in d.support : \E l \in SameRelation(links, link) : x \in l.support
             /\ link.support \subseteq d.support
  <2>1. /\ d.source = link.source /\ d.target = link.target /\ d.kind = link.kind
        /\ d.support = UNION {l.support : l \in SameRelation(links, link)}
    BY <1>3 DEF EdgeOf
  <2>2. link \in SameRelation(links, link)
    BY DEF SameRelation
  <2> QED
    BY <2>1, <2>2
<1> QED
  BY <1>2, <1>3 DEF links

LEMMA ListedAre == Builder!Listed = Among(events)
BY DEF Builder!Listed, Among

LEMMA GraphHasType == CaseInv => Builder!TypeOK
<1> SUFFICES ASSUME CaseInv, graph # None PROVE Builder!TypeOK
  BY DEF Builder!TypeOK
<1> DEFINE links == Builder!AllLinks(events, correlations)
           listed == {e.id : e \in Among(events)}
           names == {n.id : n \in graph.nodes}
<1>1. CaseOf(events) /\ Correlated(events, correlations)
  BY CasesAre DEF CaseInv
<1>2. graph = Builder!Graph(events, correlations)
  BY DEF CaseInv
<1>3. graph.nodes = Builder!Nodes(events) /\ graph.edges = Builder!Coalesced(links)
  BY <1>2 DEF Builder!Graph
<1>4. ASSUME NEW n \in graph.nodes
      PROVE  n.seen # {} /\ n.seen \subseteq listed
  <2>1. PICK name \in UNION {Builder!NodesOf(events[i]) : i \in DOMAIN events} :
          n = [id |-> name,
               seen |-> {events[i].id : i \in {k \in DOMAIN events :
                                                 name \in Builder!NodesOf(events[k])}}]
    BY <1>3, <1>4 DEF Builder!Nodes
  <2> QED
    BY <2>1 DEF Among
<1>5. \A n : NodeOfCase(events, n) => n \in names
  <2> SUFFICES ASSUME NEW name, NodeOfCase(events, name) PROVE name \in names
    OBVIOUS
  <2>1. name \in UNION {Builder!NodesOf(events[i]) : i \in DOMAIN events}
    BY DEF NodeOfCase, Among
  <2>2. \E n \in Builder!Nodes(events) : n.id = name
    <3> DEFINE node == [id |-> name,
                        seen |-> {events[i].id : i \in {k \in DOMAIN events :
                                                          name \in Builder!NodesOf(events[k])}}]
    <3>1. node \in Builder!Nodes(events) /\ node.id = name
      BY <2>1 DEF Builder!Nodes
    <3> QED
      BY <3>1
  <2> QED
    BY <1>3, <2>2
<1>6. ASSUME NEW d \in graph.edges
      PROVE  /\ d.source \in names /\ d.target \in names
             /\ d.support # {} /\ d.support \subseteq listed
             /\ d.score \in 1..100 /\ d.count >= 1
  <2>1. PICK link \in links : d = EdgeOf(links, link)
    BY <1>3, <1>6, EdgesAre
  <2> DEFINE same == SameRelation(links, link)
  <2>2. /\ d.source = link.source /\ d.target = link.target
        /\ d.support = UNION {l.support : l \in same}
        /\ d.score = ScoreOf(same) /\ d.count = Cardinality(same)
    BY <2>1, SameCounts DEF EdgeOf
  <2>3. IsFiniteSet(links)
    BY <1>1, LinksAre DEF Correlated
  <2>4. link \in same /\ Cardinality(same) \in Nat \ {0}
    BY <2>3, SameHasLink
  <2>5. same \subseteq links
    BY DEF SameRelation
  <2>6. \A l \in same : /\ l.support # {} /\ l.support \subseteq listed
                        /\ l.score \in 0..100
    BY <1>1, <2>5, LinkEnds, LinkScores
  <2>7. NodeOfCase(events, link.source) /\ NodeOfCase(events, link.target)
    BY <1>1, LinkEnds
  <2>8. ScoreOf(same) \in 1..100
    <3> HIDE DEF same
    <3> QED
      BY <2>4, <2>6, ScoreOfLinks
  <2>9. d.source \in names /\ d.target \in names
    BY <1>5, <2>2, <2>7
  <2>10. d.support # {} /\ d.support \subseteq listed
    <3> HIDE DEF same, listed, names
    <3> QED
      BY <2>2, <2>4, <2>6
  <2>11. d.count >= 1
    <3> HIDE DEF same
    <3> QED
      BY <2>2, <2>4
  <2> QED
    BY <2>2, <2>8, <2>9, <2>10, <2>11
<1> QED
  BY <1>4, <1>6, ListedAre DEF Builder!TypeOK

LEMMA CaseInit == Builder!Init => CaseInv
<1> SUFFICES ASSUME Builder!Init PROVE CaseInv
  OBVIOUS
<1>1. events \in Cases /\ correlations = {} /\ graph = None
  BY DEF Builder!Init
<1>2. IsFiniteSet({})
  BY FS_EmptySet
<1> QED
  BY <1>1, <1>2 DEF CaseInv, Correlated

\* The pairs of a case, each of two different events.
LEMMA PairsOfCase ==
  ASSUME NEW es, CaseOf(es)
  PROVE  LET Pair(i, j) == [source |-> es[i], target |-> es[j],
                            reasons |-> Builder!KeptReasons(es[i], es[j]),
                            score |-> Builder!Score(Builder!KeptReasons(es[i], es[j]))]
         IN  Correlated(es, UNION {{Pair(i, j) : j \in i + 1..Builder!Len(es)} : i \in DOMAIN es})
<1> DEFINE table == [i \in DOMAIN es |-> [j \in i + 1..Builder!Len(es) |->
                      [source |-> es[i], target |-> es[j],
                       reasons |-> Builder!KeptReasons(es[i], es[j]),
                       score |-> Builder!Score(Builder!KeptReasons(es[i], es[j]))]]]
           of == [i \in DOMAIN es |-> {table[i][j] : j \in i + 1..Builder!Len(es)}]
           pairs == UNION {of[i] : i \in DOMAIN es}
<1>1. Builder!Len(es) \in Nat /\ DOMAIN es = 1..Builder!Len(es)
  BY DEF CaseOf
<1>2. IsFiniteSet(DOMAIN es) /\ DOMAIN of = DOMAIN es
  BY <1>1, FS_Interval
<1>3. ASSUME NEW i \in DOMAIN es
      PROVE  IsFiniteSet(of[i]) /\ \A c \in of[i] : OfPair(es, c)
  <2>1. i \in Int /\ IsFiniteSet(i + 1..Builder!Len(es))
    BY <1>1, FS_Interval
  <2>2. DOMAIN table[i] = i + 1..Builder!Len(es)
        /\ of[i] = {table[i][j] : j \in i + 1..Builder!Len(es)}
    OBVIOUS
  <2>3. IsFiniteSet({table[i][j] : j \in i + 1..Builder!Len(es)})
    <3> HIDE DEF table
    <3> QED
      BY <2>1, <2>2, ImageIsFinite
  <2>4. ASSUME NEW j \in i + 1..Builder!Len(es)
        PROVE  OfPair(es, table[i][j])
    <3>1. j \in DOMAIN es /\ i # j
      BY <1>1
    <3>2. es[i] # es[j]
      BY <3>1 DEF CaseOf
    <3> QED
      BY <3>1, <3>2 DEF OfPair, Among
  <2> QED
    BY <2>2, <2>3, <2>4
<1>4. IsFiniteSet(pairs)
  <2> HIDE DEF of
  <2> QED
    BY <1>2, <1>3, UnionIsFinite
<1>5. Correlated(es, pairs)
  <2> HIDE DEF of
  <2> QED
    BY <1>3, <1>4 DEF Correlated
<1>6. pairs = UNION {{[source |-> es[i], target |-> es[j],
                       reasons |-> Builder!KeptReasons(es[i], es[j]),
                       score |-> Builder!Score(Builder!KeptReasons(es[i], es[j]))] :
                        j \in i + 1..Builder!Len(es)} : i \in DOMAIN es}
  OBVIOUS
<1> HIDE DEF pairs
<1> QED
  BY <1>5, <1>6

LEMMA AnalyzeKeeps == CaseInv /\ Builder!Analyze => CaseInv'
<1> SUFFICES ASSUME CaseInv, Builder!Analyze PROVE CaseInv'
  OBVIOUS
<1> DEFINE Pair(i, j) == [source |-> events[i], target |-> events[j],
                          reasons |-> Builder!KeptReasons(events[i], events[j]),
                          score |-> Builder!Score(Builder!KeptReasons(events[i], events[j]))]
           pairs == UNION {{Pair(i, j) : j \in i + 1..Builder!Len(events)} : i \in DOMAIN events}
<1>1. graph = None /\ events' = events /\ graph' = graph
      /\ correlations' = {c \in pairs : c.reasons # {} /\ c.score >= MinScore}
  BY DEF Builder!Analyze
<1>2. CaseOf(events)
  BY CasesAre DEF CaseInv
<1>3. Correlated(events, pairs)
  BY <1>2, PairsOfCase
<1> HIDE DEF pairs
<1>4. Correlated(events, correlations')
  BY <1>1, <1>3, FS_Subset DEF Correlated
<1> QED
  BY <1>1, <1>4 DEF CaseInv

LEMMA DrawKeeps == CaseInv /\ Builder!Build => CaseInv'
<1> SUFFICES ASSUME CaseInv, Builder!Build PROVE CaseInv'
  OBVIOUS
<1>1. events' = events /\ correlations' = correlations
      /\ graph' = Builder!Graph(events, correlations)
  BY DEF Builder!Build
<1> QED
  BY <1>1 DEF CaseInv

LEMMA CaseStep == CaseInv /\ Builder!Next => CaseInv'
BY AnalyzeKeeps, DrawKeeps DEF Builder!Next

-----------------------------------------------------------------------------
(***************************************************************************)
(* What the two reasons mean that are drawn as edges.                      *)
(***************************************************************************)

LEMMA ReasonsOfRules ==
  ASSUME NEW l, NEW r, NEW rule \in {"parent_process", "command_line_file_path"},
         Index!HasRule(Index!KeptReasons(l, r), {rule})
  PROVE  \E m : m.rule = rule /\ RuleFact(l, r, m)
<1> DEFINE rules == Index!RuleReasons(l, r)
           more == Index!Corroboration(l, r, rules)
           against == Index!NegativeReasons(l, r)
<1>1. PICK m \in Index!KeptReasons(l, r) : m.rule = rule
  BY DEF Index!HasRule
<1>2. m \in rules \/ m \in more \/ m \in against
  BY <1>1 DEF Index!KeptReasons
<1>3. m \notin more
  BY <1>1 DEF Index!Corroboration, Index!When, Index!Reason
<1>4. m \notin against
  BY <1>1 DEF Index!NegativeReasons, Index!When, Index!Reason
<1> QED
  BY <1>1, <1>2, <1>3, <1>4, RulesMean

LEMMA ParentReason ==
  ASSUME NEW l, NEW r, Index!HasRule(Index!KeptReasons(l, r), {"parent_process"})
  PROVE  /\ l.process # None /\ r.process # None
         /\ l.process.instance = None /\ r.process.instance = None
         /\ Index!IsParent(l, r) \/ Index!IsParent(r, l)
<1>1. PICK m : m.rule = "parent_process" /\ RuleFact(l, r, m)
  BY ReasonsOfRules
<1>2. ~FileFact(l, r, m)
  BY <1>1 DEF FileFact, FileLookupFact
<1>3. ~NetworkFact(l, r, m)
  BY <1>1 DEF NetworkFact
<1>4. ~ArtifactFact(l, r, m)
  BY <1>1 DEF ArtifactFact, ProgramFact
<1>5. l.process # None /\ r.process # None /\ Index!Comparable(l, r) /\ ProcessFact(l, r, m)
  BY <1>1, <1>2, <1>3, <1>4 DEF RuleFact
<1>6. /\ ~Index!ScopedParent(l.process, r.process) /\ l.process.pid # r.process.pid
      /\ Index!IsParent(l, r) \/ Index!IsParent(r, l)
  BY <1>1, <1>5 DEF ProcessFact
<1>7. ~Index!ScopedSame(l.process, r.process)
  BY <1>6 DEF Index!ScopedSame
<1> QED
  BY <1>5, <1>6, <1>7, ComparableHosts

LEMMA CommandReason ==
  ASSUME NEW l, NEW r, Index!HasRule(Index!KeptReasons(l, r), {"command_line_file_path"})
  PROVE  \/ r.file # None /\ r.file.path \in Index!Tokens(l)
         \/ l.file # None /\ l.file.path \in Index!Tokens(r)
<1>1. PICK m : m.rule = "command_line_file_path" /\ RuleFact(l, r, m)
  BY ReasonsOfRules
<1>2. ~ProcessFact(l, r, m)
  BY <1>1 DEF ProcessFact
<1>3. ~NetworkFact(l, r, m)
  BY <1>1 DEF NetworkFact
<1>4. ~ArtifactFact(l, r, m)
  BY <1>1 DEF ArtifactFact, ProgramFact
<1>5. FileFact(l, r, m)
  BY <1>1, <1>2, <1>3, <1>4 DEF RuleFact
<1> QED
  BY <1>1, <1>5 DEF FileFact, FileLookupFact

\* A link of a correlation is drawn from one of its events to the other.
LEMMA PairReason ==
  ASSUME NEW es, NEW c, OfPair(es, c), NEW link, NEW l, NEW r, FromPair(c, l, r, link),
         \/ l = c.source /\ r = c.target
         \/ l = c.target /\ r = c.source
  PROVE  /\ link.kind = "PARENT_OF" =>
              /\ l.process.instance = None /\ r.process.instance = None
              /\ Index!IsParent(l, r) \/ Index!IsParent(r, l)
         /\ link.kind # "PARENT_OF" =>
              /\ link.target = Builder!FileOf(r)
              /\ \/ r.file # None /\ r.file.path \in Index!Tokens(l)
                 \/ l.file # None /\ l.file.path \in Index!Tokens(r)
<1>1. c.reasons = Index!KeptReasons(c.source, c.target)
  BY SameKept DEF OfPair
<1>2. CASE link.kind = "PARENT_OF"
  <2>1. Index!HasRule(c.reasons, {"parent_process"})
    BY <1>2 DEF FromPair
  <2> QED
    BY <1>1, <1>2, <2>1, ParentReason
<1>3. CASE link.kind # "PARENT_OF"
  <2>1. Index!HasRule(c.reasons, {"command_line_file_path"}) /\ link.target = Builder!FileOf(r)
    BY <1>3 DEF FromPair
  <2> QED
    BY <1>1, <1>3, <2>1, CommandReason
<1> QED
  BY <1>2, <1>3

\* A node of a process tells whether its rows have an instance, and otherwise
\* their number and start.
LEMMA NodeTells ==
  ASSUME NEW e, NEW f, e.process # None, f.process # None,
         Builder!ProcessOf(e) = Builder!ProcessOf(f)
  PROVE  /\ e.process.instance = None <=> f.process.instance = None
         /\ e.process.instance = None /\ e.process.created # None =>
              f.process.pid = e.process.pid /\ f.process.created = e.process.created
<1> DEFINE Scoped(x) == <<"Process", x.process.instance>>
           Start(x) == IF x.process.created # None THEN <<"created", x.process.created>>
                       ELSE Builder!EventNode(x)
           Plain(x) == <<"Process", Builder!Scope(x), x.process.pid, Start(x)>>
<1>1. \A x \in {e, f} :
        Builder!ProcessOf(x) = IF x.process.instance # None THEN Scoped(x) ELSE Plain(x)
  BY DEF Builder!ProcessOf
<1>2. \A x, y : Builder!Len(Scoped(x)) = 2 /\ Builder!Len(Plain(y)) = 4
  <2> HIDE DEF Start
  <2> QED
    OBVIOUS
<1>3. e.process.instance = None <=> f.process.instance = None
  <2> HIDE DEF Scoped, Plain
  <2> QED
    BY <1>1, <1>2
<1>4. ASSUME e.process.instance = None, e.process.created # None
      PROVE  f.process.pid = e.process.pid /\ f.process.created = e.process.created
  <2>1. Plain(e) = Plain(f)
    BY <1>1, <1>3, <1>4
  <2>2. f.process.pid = e.process.pid /\ Start(e) = Start(f)
    <3> HIDE DEF Start
    <3> QED
      BY <2>1
  <2>3. Start(e) = <<"created", e.process.created>>
    BY <1>4
  <2>4. Start(f)[1] = "created" /\ Start(f)[2] = e.process.created
    BY <2>2, <2>3
  <2>5. f.process.created # None
    BY <2>4 DEF Builder!EventNode
  <2> QED
    BY <2>2, <2>4, <2>5
<1> QED
  BY <1>3, <1>4

\* The links of a relation that a recorded parent has carry no score.
LEMMA RecordedParentLinks ==
  ASSUME CaseInv, NEW link \in Builder!AllLinks(events, correlations),
         NEW p, p.process # None, p.process.instance # None,
         link.source = Builder!ProcessOf(p), link.kind = "PARENT_OF"
  PROVE  link.score = 0
<1>1. CaseOf(events) /\ Correlated(events, correlations)
  BY CasesAre DEF CaseInv
<1>2. LinkFact(events, correlations, link)
  BY <1>1, LinksAre DEF Correlated
<1>3. CASE \E e \in Among(events) : OwnLink(e, link)
  BY <1>3 DEF OwnLink
<1>4. CASE FromParent(events, link)
  BY <1>4 DEF FromParent
<1>5. CASE \E c \in correlations : FromCorrelation(c, link)
  <2>1. PICK c \in correlations : FromCorrelation(c, link)
    BY <1>5
  <2>2. OfPair(events, c)
    BY <1>1 DEF Correlated
  <2>3. PICK l, r : /\ FromPair(c, l, r, link)
                    /\ \/ l = c.source /\ r = c.target
                       \/ l = c.target /\ r = c.source
    BY <2>1 DEF FromCorrelation, FromEvents
  <2>4. l.process.instance = None
    BY <2>2, <2>3, PairReason
  <2>5. l.process # None /\ Builder!ProcessOf(l) = Builder!ProcessOf(p)
    BY <2>3 DEF FromPair
  <2> QED
    BY <2>4, <2>5, NodeTells
<1> QED
  BY <1>2, <1>3, <1>4, <1>5 DEF LinkFact

LEMMA GraphLinksParents == CaseInv => Builder!RecordedParentsAreLinked
<1> SUFFICES ASSUME CaseInv, graph # None, NEW r \in Builder!ParentRows
             PROVE  \E d \in Builder!Edges("PARENT_OF") :
                      /\ d.source = Builder!ProcessOf(r[1])
                      /\ d.target = Builder!ProcessOf(r[2])
                      /\ r[2].id \in d.support
                      /\ d.score = 100
  BY DEF Builder!RecordedParentsAreLinked, Builder!Built
<1> DEFINE links == Builder!AllLinks(events, correlations)
           p == r[1]
           c == r[2]
           node == Builder!ProcessOf(c)
           children == Builder!ChildRows(events, p, node)
           link == [source |-> Builder!ProcessOf(p), target |-> node, kind |-> "PARENT_OF",
                    support |-> {x.id : x \in children}, score |-> 0]
           d == EdgeOf(links, link)
           same == SameRelation(links, link)
<1>1. CaseOf(events) /\ Correlated(events, correlations)
      /\ graph = Builder!Graph(events, correlations)
  BY CasesAre DEF CaseInv
<1>2. /\ p \in Among(events) /\ c \in Among(events)
      /\ p.process # None /\ c.process # None
      /\ Builder!Known(p.process.instance, c.process.parentInstance)
      /\ Builder!ProcessOf(p) # node
  BY ListedAre DEF Builder!ParentRows
<1>3. p \in Builder!Owners(events) /\ c \in Builder!Owners(events)
  BY <1>2, OwnersAre
<1>4. c \in children
  BY <1>2, <1>3 DEF Builder!ChildRows
<1>5. node \in Builder!ProcessNodes(events)
  BY <1>3 DEF Builder!ProcessNodes
<1>6. Builder!ProcessOf(p) # None /\ node # None
  BY <1>1, <1>2, RowsOfCase DEF Recorded
<1>7. link \in Builder!ParentLink(p, node, children)
  BY <1>2, <1>4, <1>6 DEF Builder!ParentLink, Builder!Only, Builder!Link
<1>8. link \in Builder!ParentLinks(events)
  <2> HIDE DEF link, p, node
  <2>1. link \in UNION {Builder!ParentLink(p, n, Builder!ChildRows(events, p, n)) :
                          n \in Builder!ProcessNodes(events)}
    BY <1>5, <1>7
  <2> QED
    BY <1>3, <2>1 DEF Builder!ParentLinks
<1>9. link \in links
  BY <1>8 DEF Builder!AllLinks
<1>10. d \in graph.edges
  <2> HIDE DEF link, links
  <2>1. d \in Builder!Coalesced(links)
    BY <1>9, EdgesAre
  <2> QED
    BY <1>1, <2>1 DEF Builder!Graph, links
<1>11. /\ d.source = Builder!ProcessOf(p) /\ d.target = node /\ d.kind = "PARENT_OF"
       /\ d.support = UNION {l.support : l \in same} /\ d.score = ScoreOf(same)
  <2> HIDE DEF links, same, p, node, children
  <2> QED
    BY DEF EdgeOf, same
<1>12. c.id \in d.support
  <2>1. link \in same
    BY <1>9 DEF SameRelation
  <2>2. c.id \in link.support
    BY <1>4
  <2> HIDE DEF link, same, d, c, p
  <2> QED
    BY <1>11, <2>1, <2>2
<1>13. d.score = 100
  <2>1. same # {} /\ same \subseteq links
    BY <1>9 DEF SameRelation
  <2>2. p.process.instance # None
    BY <1>2 DEF Builder!Known
  <2>3. \A l \in same : l.source = Builder!ProcessOf(p) /\ l.kind = "PARENT_OF"
    BY DEF SameRelation
  <2> HIDE DEF links, link, same, d, p
  <2>4. \A l \in same : l.score = 0
    BY <1>2, <2>1, <2>2, <2>3, RecordedParentLinks DEF links
  <2> QED
    BY <1>11, <2>1, <2>4, ScoreOfLinks
<1>14. d \in Builder!Edges("PARENT_OF")
  BY <1>10, <1>11 DEF Builder!Edges
<1> HIDE DEF d, p, c, node
<1> QED
  BY <1>11, <1>12, <1>13, <1>14 DEF p, c, node

\* A link is an edge of the graph, or part of one.
LEMMA LinkIsDrawn ==
  ASSUME NEW es, NEW cs, NEW link \in Builder!AllLinks(es, cs)
  PROVE  \E d \in Builder!Graph(es, cs).edges :
           /\ d.source = link.source /\ d.target = link.target /\ d.kind = link.kind
           /\ link.support \subseteq d.support
<1> DEFINE links == Builder!AllLinks(es, cs)
           same == SameRelation(links, link)
           d == EdgeOf(links, link)
<1>1. d \in Builder!Coalesced(links)
  <2> HIDE DEF links
  <2> QED
    BY EdgesAre DEF links
<1>2. Builder!Graph(es, cs).edges = Builder!Coalesced(links)
  BY DEF Builder!Graph
<1>3. /\ d.source = link.source /\ d.target = link.target /\ d.kind = link.kind
      /\ d.support = UNION {l.support : l \in same}
  <2> HIDE DEF links, same
  <2> QED
    BY DEF EdgeOf, same
<1>4. link \in same
  BY DEF SameRelation
<1>5. link.support \subseteq UNION {l.support : l \in same}
  <2> HIDE DEF links, same
  <2> QED
    BY <1>4
<1> HIDE DEF links, same, d
<1> QED
  BY <1>1, <1>2, <1>3, <1>5

\* A correlation is drawn from each of its events to the other.
LEMMA DrawnBothWays ==
  ASSUME NEW es, NEW cs, NEW c \in cs, NEW l, NEW r,
         \/ l = c.source /\ r = c.target
         \/ l = c.target /\ r = c.source,
         Builder!ProcessOf(l) # None
  PROVE  /\ /\ Index!HasRule(c.reasons, {"parent_process"})
            /\ l.process # None /\ r.process # None
            /\ r.process.ppid = l.process.pid
            /\ Builder!ProcessOf(r) # None /\ Builder!ProcessOf(l) # Builder!ProcessOf(r)
            => \E d \in Builder!Graph(es, cs).edges :
                 /\ d.kind = "PARENT_OF"
                 /\ d.source = Builder!ProcessOf(l) /\ d.target = Builder!ProcessOf(r)
         /\ /\ Index!HasRule(c.reasons, {"command_line_file_path"})
            /\ Builder!FileOf(r) # None /\ Builder!ProcessOf(l) # Builder!FileOf(r)
            => \E d \in Builder!Graph(es, cs).edges :
                 /\ d.kind \in {"EXECUTED", "REFERENCES"}
                 /\ d.source = Builder!ProcessOf(l) /\ d.target = Builder!FileOf(r)
                 /\ {l.id, r.id} \subseteq d.support
<1> DEFINE label == IF l.process # None /\ l.script THEN "EXECUTED" ELSE "REFERENCES"
           It(target, sort) ==
             [source |-> Builder!ProcessOf(l), target |-> target, kind |-> sort,
              support |-> {l.id, r.id}, score |-> c.score]
<1>1. \A x \in Builder!Projected(c, l, r) : x \in Builder!AllLinks(es, cs)
  BY DEF Builder!AllLinks, Builder!CorrelationLinks
<1>2. \A target, sort :
        target # None /\ Builder!ProcessOf(l) # target =>
          It(target, sort) \in
            Builder!Link(Builder!ProcessOf(l), target, sort, {l.id, r.id}, c.score)
  BY DEF Builder!Link, Builder!Only
<1>3. ASSUME Index!HasRule(c.reasons, {"parent_process"}),
             l.process # None, r.process # None,
             r.process.ppid = l.process.pid,
             Builder!ProcessOf(r) # None, Builder!ProcessOf(l) # Builder!ProcessOf(r)
      PROVE  \E d \in Builder!Graph(es, cs).edges :
               /\ d.kind = "PARENT_OF"
               /\ d.source = Builder!ProcessOf(l) /\ d.target = Builder!ProcessOf(r)
  <2> DEFINE it == It(Builder!ProcessOf(r), "PARENT_OF")
  <2>1. it \in Builder!Link(Builder!ProcessOf(l), Builder!ProcessOf(r), "PARENT_OF",
                            {l.id, r.id}, c.score)
    BY <1>2, <1>3
  <2>2. Builder!HasRule(c.reasons, {"parent_process"})
    BY <1>3, SameSmallRules
  <2>3. /\ it.kind = "PARENT_OF"
        /\ it.source = Builder!ProcessOf(l) /\ it.target = Builder!ProcessOf(r)
    OBVIOUS
  <2> HIDE DEF it, It
  <2>4. it \in Builder!Projected(c, l, r)
    BY <1>3, <2>1, <2>2 DEF Builder!Projected, Builder!Only
  <2>5. it \in Builder!AllLinks(es, cs)
    BY <1>1, <2>4
  <2> QED
    BY <2>3, <2>5, LinkIsDrawn
<1>4. ASSUME Index!HasRule(c.reasons, {"command_line_file_path"}),
             Builder!FileOf(r) # None, Builder!ProcessOf(l) # Builder!FileOf(r)
      PROVE  \E d \in Builder!Graph(es, cs).edges :
               /\ d.kind \in {"EXECUTED", "REFERENCES"}
               /\ d.source = Builder!ProcessOf(l) /\ d.target = Builder!FileOf(r)
               /\ {l.id, r.id} \subseteq d.support
  <2> DEFINE it == It(Builder!FileOf(r), label)
  <2>1. it \in Builder!Link(Builder!ProcessOf(l), Builder!FileOf(r), label,
                            {l.id, r.id}, c.score)
    <3> HIDE DEF label
    <3> QED
      BY <1>2, <1>4
  <2>2. Builder!HasRule(c.reasons, {"command_line_file_path"})
    BY <1>4, SameSmallRules
  <2>3. /\ it.kind \in {"EXECUTED", "REFERENCES"}
        /\ it.source = Builder!ProcessOf(l) /\ it.target = Builder!FileOf(r)
        /\ it.support = {l.id, r.id}
    OBVIOUS
  <2> HIDE DEF it, It
  <2>4. it \in Builder!Projected(c, l, r)
    BY <2>1, <2>2 DEF Builder!Projected, Builder!Only
  <2>5. it \in Builder!AllLinks(es, cs)
    BY <1>1, <2>4
  <2> QED
    BY <2>3, <2>5, LinkIsDrawn
<1> QED
  BY <1>3, <1>4

\* A link between two processes that the case did not record as parent and child.
LEMMA ParentByNumber ==
  ASSUME CaseInv, NEW link \in Builder!AllLinks(events, correlations), link.kind = "PARENT_OF",
         ~FromParent(events, link)
  PROVE  \E l, r \in Among(events) :
           /\ link.support = {l.id, r.id}
           /\ link.source = Builder!ProcessOf(l) /\ link.target = Builder!ProcessOf(r)
           /\ link.source # link.target
           /\ l.process # None /\ r.process # None
           /\ l.process.instance = None /\ r.process.instance = None
           /\ r.process.ppid = l.process.pid
           /\ Index!IsParent(l, r) \/ Index!IsParent(r, l)
           /\ l.process.ppid = r.process.pid =>
                \E e \in Builder!Graph(events, correlations).edges :
                  e.kind = "PARENT_OF" /\ e.source = link.target /\ e.target = link.source
<1>1. CaseOf(events) /\ Correlated(events, correlations)
  BY CasesAre DEF CaseInv
<1>2. LinkFact(events, correlations, link)
  BY <1>1, LinksAre DEF Correlated
<1>3. \A e \in Among(events) : ~OwnLink(e, link)
  BY DEF OwnLink
<1>4. PICK c \in correlations : FromCorrelation(c, link)
  BY <1>2, <1>3 DEF LinkFact
<1>5. OfPair(events, c)
  BY <1>1 DEF Correlated
<1>6. PICK l, r : /\ FromPair(c, l, r, link)
                  /\ \/ l = c.source /\ r = c.target
                     \/ l = c.target /\ r = c.source
  BY <1>4 DEF FromCorrelation, FromEvents
<1>7. l \in Among(events) /\ r \in Among(events)
  BY <1>5, <1>6 DEF OfPair
<1>8. /\ l.process.instance = None /\ r.process.instance = None
      /\ Index!IsParent(l, r) \/ Index!IsParent(r, l)
  BY <1>5, <1>6, PairReason
<1>9. /\ link.support = {l.id, r.id}
      /\ link.source = Builder!ProcessOf(l) /\ link.target = Builder!ProcessOf(r)
      /\ link.source # link.target
      /\ l.process # None /\ r.process # None
      /\ r.process.ppid = l.process.pid
  BY <1>6 DEF FromPair
<1>10. ASSUME l.process.ppid = r.process.pid
       PROVE  \E e \in Builder!Graph(events, correlations).edges :
                e.kind = "PARENT_OF" /\ e.source = link.target /\ e.target = link.source
  <2>1. Index!HasRule(c.reasons, {"parent_process"})
    BY <1>6 DEF FromPair
  <2>2. Builder!ProcessOf(l) # None /\ Builder!ProcessOf(r) # None
    BY <1>1, <1>7, <1>9, RowsOfCase DEF Recorded
  <2> QED
    BY <1>6, <1>9, <1>10, <2>1, <2>2, DrawnBothWays
<1> QED
  BY <1>7, <1>8, <1>9, <1>10

\* An edge between processes, and two of its rows: one of its source with a known
\* start and one of its target.
LEMMA ParentEdges ==
  ASSUME CaseInv, NEW d \in Builder!Graph(events, correlations).edges, d.kind = "PARENT_OF",
         NEW p \in Among(events), NEW c \in Among(events),
         p.id \in d.support, Builder!ProcessOf(p) = d.source,
         c.id \in d.support, Builder!ProcessOf(c) = d.target,
         Builder!Clash(p.process.created, c.process.created)
  PROVE  \/ p.process.created < c.process.created
         \/ /\ p.process.ppid = c.process.pid /\ c.process.ppid = p.process.pid
            /\ \E e \in Builder!Graph(events, correlations).edges :
                 e.kind = "PARENT_OF" /\ e.source = d.target /\ e.target = d.source
<1> DEFINE links == Builder!AllLinks(events, correlations)
<1>1. CaseOf(events) /\ Correlated(events, correlations)
  BY CasesAre DEF CaseInv
<1>2. d \in Builder!Coalesced(links)
  BY DEF Builder!Graph
<1>3. PICK link \in links : d = EdgeOf(links, link)
  <2> HIDE DEF links
  <2> QED
    BY <1>2, EdgesAre
<1>4. \A x \in d.support : \E l \in links :
        /\ x \in l.support /\ l.kind = "PARENT_OF"
        /\ l.source = d.source /\ l.target = d.target
  <2> HIDE DEF links
  <2>1. /\ d.source = link.source /\ d.target = link.target /\ d.kind = link.kind
        /\ d.support = UNION {l.support : l \in SameRelation(links, link)}
    BY <1>3 DEF EdgeOf
  <2> QED
    BY <2>1 DEF SameRelation
<1>5. PICK pl \in links : /\ p.id \in pl.support /\ pl.kind = "PARENT_OF"
                          /\ pl.source = d.source /\ pl.target = d.target
  BY <1>4
<1>6. PICK cl \in links : /\ c.id \in cl.support /\ cl.kind = "PARENT_OF"
                          /\ cl.source = d.source /\ cl.target = d.target
  BY <1>4
<1>7. \A e, f \in Among(events) : e.id = f.id => e = f
  BY <1>1, RowsOfCase
<1>8. ~FromParent(events, pl)
  <2>1. SUFFICES ASSUME FromParent(events, pl) PROVE FALSE
    OBVIOUS
  <2>2. /\ pl.source # pl.target
        /\ \E q \in Builder!Owners(events) :
             pl.support = {x.id : x \in Builder!ChildRows(events, q, pl.target)}
    BY <2>1 DEF FromParent
  <2>3. \A q : \A x \in Builder!ChildRows(events, q, pl.target) :
          x \in Among(events) /\ Builder!ProcessOf(x) = pl.target
    BY OwnersAre DEF Builder!ChildRows
  <2>4. \E x \in Among(events) : x.id = p.id /\ Builder!ProcessOf(x) = pl.target
    BY <1>5, <2>2, <2>3
  <2>5. Builder!ProcessOf(p) = pl.target
    BY <1>7, <2>4
  <2> QED
    BY <1>5, <2>2, <2>5
<1>9. PICK l, r \in Among(events) :
        /\ pl.support = {l.id, r.id}
        /\ pl.source = Builder!ProcessOf(l) /\ pl.target = Builder!ProcessOf(r)
        /\ pl.source # pl.target
        /\ l.process # None /\ r.process # None
        /\ l.process.instance = None /\ r.process.instance = None
        /\ r.process.ppid = l.process.pid
        /\ Index!IsParent(l, r) \/ Index!IsParent(r, l)
        /\ l.process.ppid = r.process.pid =>
             \E e \in Builder!Graph(events, correlations).edges :
               e.kind = "PARENT_OF" /\ e.source = pl.target /\ e.target = pl.source
  BY <1>5, <1>8, ParentByNumber
<1>10. p = l
  BY <1>5, <1>7, <1>9
<1>11. /\ p.process # None /\ p.process.instance = None
       /\ p.process.created # None /\ c.process.created # None
       /\ p.process.created # c.process.created
  BY <1>9, <1>10 DEF Builder!Clash
<1>12. c.process # None
  <2>1. Builder!ProcessOf(r) # None
    BY <1>1, <1>9, RowsOfCase DEF Recorded
  <2>2. Builder!ProcessOf(c) # None
    BY <1>5, <1>9, <2>1
  <2> QED
    BY <2>2 DEF Builder!ProcessOf
<1>13. /\ c.process.instance = None
       /\ r.process.pid = c.process.pid /\ r.process.created = c.process.created
  <2>1. Builder!ProcessOf(c) = Builder!ProcessOf(r)
    BY <1>5, <1>9
  <2> QED
    BY <1>9, <1>11, <1>12, <2>1, NodeTells
<1>14. ~FromParent(events, cl)
  <2>1. SUFFICES ASSUME FromParent(events, cl) PROVE FALSE
    OBVIOUS
  <2>2. PICK q \in Builder!Owners(events) :
          /\ cl.source = Builder!ProcessOf(q)
          /\ Builder!ChildRows(events, q, cl.target) # {}
    BY <2>1 DEF FromParent
  <2>3. q.process # None /\ q.process.instance # None
    BY <2>2, OwnersAre DEF Builder!ChildRows, Builder!Known
  <2>4. Builder!ProcessOf(q) = Builder!ProcessOf(p)
    BY <1>6, <2>2
  <2> QED
    BY <1>11, <2>3, <2>4, NodeTells
<1>15. PICK x, y \in Among(events) :
        /\ cl.support = {x.id, y.id}
        /\ cl.source = Builder!ProcessOf(x) /\ cl.target = Builder!ProcessOf(y)
        /\ cl.source # cl.target
        /\ x.process # None /\ y.process # None
        /\ y.process.ppid = x.process.pid
  BY <1>6, <1>14, ParentByNumber
<1>16. c = y
  BY <1>6, <1>7, <1>15
<1>17. c.process.ppid = p.process.pid
  <2>1. Builder!ProcessOf(p) = Builder!ProcessOf(x)
    BY <1>6, <1>15
  <2>2. x.process.pid = p.process.pid
    BY <1>11, <1>15, <2>1, NodeTells
  <2> QED
    BY <1>15, <1>16, <2>2
<1>18. CASE Index!IsParent(p, r)
  <2>1. p.process.created <= r.process.created
    BY <1>11, <1>13, <1>18 DEF Index!IsParent
  <2>2. p.process.created \in Int /\ c.process.created \in Int
    BY <1>1, <1>11, <1>12, RowsOfCase DEF Recorded, Observed, Present
  <2> QED
    BY <1>11, <1>13, <2>1, <2>2
<1>19. CASE Index!IsParent(r, p)
  <2>1. p.process.ppid = r.process.pid
    BY <1>19 DEF Index!IsParent
  <2> QED
    BY <1>5, <1>9, <1>10, <1>13, <1>17, <2>1
<1> QED
  BY <1>9, <1>10, <1>18, <1>19

LEMMA CommandEdges ==
  ASSUME CaseInv, NEW d \in Builder!Graph(events, correlations).edges,
         d.kind \in {"EXECUTED", "REFERENCES"}, d.source[1] = "Process", d.target[1] = "File"
  PROVE  \E l, r \in Among(events) :
           /\ {l.id, r.id} \subseteq d.support
           /\ Builder!ProcessOf(l) = d.source /\ Builder!FileOf(r) = d.target
           /\ \/ r.file.path \in l.process.command
              \/ /\ l.file # None /\ r.process # None
                 /\ l.file.path \in r.process.command
                 /\ \E e \in Builder!Graph(events, correlations).edges :
                      /\ e.kind \in {"EXECUTED", "REFERENCES"}
                      /\ e.source = Builder!ProcessOf(r) /\ e.target = Builder!FileOf(l)
                      /\ {l.id, r.id} \subseteq e.support
<1> DEFINE links == Builder!AllLinks(events, correlations)
<1>1. CaseOf(events) /\ Correlated(events, correlations)
  BY CasesAre DEF CaseInv
<1>2. d \in Builder!Coalesced(links)
  BY DEF Builder!Graph
<1>3. PICK link \in links : d = EdgeOf(links, link)
  <2> HIDE DEF links
  <2> QED
    BY <1>2, EdgesAre
<1>4. /\ d.source = link.source /\ d.target = link.target /\ d.kind = link.kind
      /\ link.support \subseteq d.support
  <2> HIDE DEF links
  <2>1. /\ d.source = link.source /\ d.target = link.target /\ d.kind = link.kind
        /\ d.support = UNION {l.support : l \in SameRelation(links, link)}
    BY <1>3 DEF EdgeOf
  <2>2. link \in SameRelation(links, link)
    BY DEF SameRelation
  <2> QED
    BY <2>1, <2>2
<1>5. LinkFact(events, correlations, link)
  BY <1>1, LinksAre DEF Correlated
<1>6. \A e \in Among(events) : ~OwnLink(e, link)
  BY <1>4 DEF OwnLink, NamedEnds
<1>7. ~FromParent(events, link)
  BY <1>4 DEF FromParent
<1>8. PICK c \in correlations : FromCorrelation(c, link)
  BY <1>5, <1>6, <1>7 DEF LinkFact
<1>9. OfPair(events, c)
  BY <1>1 DEF Correlated
<1>10. PICK l, r : /\ FromPair(c, l, r, link)
                   /\ \/ l = c.source /\ r = c.target
                      \/ l = c.target /\ r = c.source
  BY <1>4, <1>8 DEF FromCorrelation, FromEvents
<1>11. l \in Among(events) /\ r \in Among(events)
  BY <1>9, <1>10 DEF OfPair
<1>12. /\ link.support = {l.id, r.id} /\ link.source = Builder!ProcessOf(l)
       /\ link.source # None
  BY <1>10 DEF FromPair
<1>13. /\ link.target = Builder!FileOf(r)
       /\ \/ r.file # None /\ r.file.path \in Index!Tokens(l)
          \/ l.file # None /\ l.file.path \in Index!Tokens(r)
  BY <1>4, <1>9, <1>10, PairReason
<1>14. l.process # None
  BY <1>12 DEF Builder!ProcessOf
<1>15. \A x, e : x \in Index!Tokens(e) => e.process # None /\ x \in e.process.command
  BY DEF Index!Tokens
<1>16. ASSUME l.file # None, r.process # None
       PROVE  \E e \in Builder!Graph(events, correlations).edges :
                /\ e.kind \in {"EXECUTED", "REFERENCES"}
                /\ e.source = Builder!ProcessOf(r) /\ e.target = Builder!FileOf(l)
                /\ {l.id, r.id} \subseteq e.support
  <2>1. Index!HasRule(c.reasons, {"command_line_file_path"})
    BY <1>4, <1>10 DEF FromPair
  <2>2. Builder!ProcessOf(r) # None
    BY <1>1, <1>11, <1>16, RowsOfCase DEF Recorded
  <2>3. Builder!FileOf(l) # None /\ Builder!ProcessOf(r) # Builder!FileOf(l)
    <3>1. Builder!FileOf(l)[1] = "File"
      BY <1>16 DEF Builder!FileOf, Builder!FileNode
    <3>2. Builder!ProcessOf(r)[1] = "Process"
      BY <1>16 DEF Builder!ProcessOf
    <3>3. Builder!FileOf(l) # None
      BY <1>1, <1>11, <1>16, RowsOfCase DEF Recorded
    <3> QED
      BY <3>1, <3>2, <3>3
  <2>4. \/ r = c.source /\ l = c.target
        \/ r = c.target /\ l = c.source
    BY <1>10
  <2>5. {l.id, r.id} = {r.id, l.id}
    OBVIOUS
  <2> QED
    BY <1>8, <2>1, <2>2, <2>3, <2>4, <2>5, DrawnBothWays
<1> QED
  BY <1>4, <1>11, <1>12, <1>13, <1>15, <1>16

\* Every event that an edge between processes rests on.
LEMMA ParentRowsOfEdges ==
  ASSUME CaseInv, NEW d \in Builder!Graph(events, correlations).edges, d.kind = "PARENT_OF",
         NEW x \in d.support
  PROVE  \E p, c \in Among(events) :
           /\ Builder!ProcessOf(p) = d.source /\ Builder!ProcessOf(c) = d.target
           /\ \/ x = c.id /\ Builder!Known(p.process.instance, c.process.parentInstance)
              \/ /\ x \in {p.id, c.id} /\ {p.id, c.id} \subseteq d.support
                 /\ c.process.ppid = p.process.pid
<1> DEFINE links == Builder!AllLinks(events, correlations)
<1>1. d \in Builder!Coalesced(links)
  BY DEF Builder!Graph
<1>2. PICK link \in links : d = EdgeOf(links, link)
  <2> HIDE DEF links
  <2> QED
    BY <1>1, EdgesAre
<1>3. /\ d.source = link.source /\ d.target = link.target /\ d.kind = link.kind
      /\ d.support = UNION {l.support : l \in SameRelation(links, link)}
  <2> HIDE DEF links
  <2> QED
    BY <1>2 DEF EdgeOf
<1>4. PICK l \in SameRelation(links, link) : x \in l.support
  <2> HIDE DEF links
  <2> QED
    BY <1>3
<1>5. /\ l \in links /\ l.kind = "PARENT_OF"
      /\ l.source = d.source /\ l.target = d.target /\ l.support \subseteq d.support
  <2> HIDE DEF links
  <2> QED
    BY <1>3, <1>4 DEF SameRelation
<1>6. CASE FromParent(events, l)
  <2>1. PICK p \in Builder!Owners(events) :
          /\ l.source = Builder!ProcessOf(p)
          /\ l.support = {c.id : c \in Builder!ChildRows(events, p, l.target)}
    BY <1>6 DEF FromParent
  <2>2. PICK c \in Builder!ChildRows(events, p, l.target) : x = c.id
    BY <1>4, <2>1
  <2>3. /\ c \in Builder!Owners(events) /\ Builder!ProcessOf(c) = l.target
        /\ Builder!Known(p.process.instance, c.process.parentInstance)
    BY DEF Builder!ChildRows
  <2>4. p \in Among(events) /\ c \in Among(events)
    BY <2>3, OwnersAre
  <2> QED
    BY <1>5, <2>1, <2>2, <2>3, <2>4
<1>7. CASE ~FromParent(events, l)
  <2>1. PICK p, c \in Among(events) :
          /\ l.support = {p.id, c.id}
          /\ l.source = Builder!ProcessOf(p) /\ l.target = Builder!ProcessOf(c)
          /\ c.process.ppid = p.process.pid
    BY <1>5, <1>7, ParentByNumber
  <2> QED
    BY <1>4, <1>5, <2>1
<1> QED
  BY <1>6, <1>7

LEMMA GraphDirects == CaseInv => Builder!DirectionsAreRecorded
<1> SUFFICES ASSUME CaseInv PROVE Builder!DirectionsAreRecorded
  OBVIOUS
<1>1. graph # None => graph = Builder!Graph(events, correlations)
  BY DEF CaseInv
<1> DEFINE commands == Builder!Edges("EXECUTED") \cup Builder!Edges("REFERENCES")
<1>2. Builder!CommandLinksAreRecorded
  <2> SUFFICES ASSUME graph # None, NEW d \in commands,
                      d.source[1] = "Process" /\ d.target[1] = "File"
               PROVE  \E l, r \in Among(events) :
                        /\ {l.id, r.id} \subseteq d.support
                        /\ Builder!ProcessOf(l) = d.source /\ Builder!FileOf(r) = d.target
                        /\ \/ r.file.path \in l.process.command
                           \/ /\ l.file # None /\ r.process # None
                              /\ l.file.path \in r.process.command
                              /\ \E e \in commands :
                                   /\ e.source = Builder!ProcessOf(r)
                                   /\ e.target = Builder!FileOf(l)
                                   /\ {l.id, r.id} \subseteq e.support
    BY ListedAre DEF Builder!CommandLinksAreRecorded, Builder!Built
  <2>1. commands = {e \in Builder!Graph(events, correlations).edges :
                      e.kind \in {"EXECUTED", "REFERENCES"}}
    BY <1>1 DEF Builder!Edges
  <2> HIDE DEF commands
  <2> QED
    BY <2>1, CommandEdges
<1>3. Builder!ParentsAreNamed
  <2> SUFFICES ASSUME graph # None, NEW d \in Builder!Edges("PARENT_OF"), NEW x \in d.support
               PROVE  \E p, c \in Among(events) :
                        /\ Builder!ProcessOf(p) = d.source /\ Builder!ProcessOf(c) = d.target
                        /\ \/ /\ x = c.id
                              /\ Builder!Known(p.process.instance, c.process.parentInstance)
                           \/ /\ x \in {p.id, c.id} /\ {p.id, c.id} \subseteq d.support
                              /\ c.process.ppid = p.process.pid
    BY ListedAre DEF Builder!ParentsAreNamed, Builder!Built
  <2>1. d \in Builder!Graph(events, correlations).edges /\ d.kind = "PARENT_OF"
    BY <1>1 DEF Builder!Edges
  <2> QED
    BY <2>1, ParentRowsOfEdges
<1>4. Builder!ParentsStartFirst
  <2> SUFFICES ASSUME graph # None, NEW d \in Builder!Edges("PARENT_OF"),
                      NEW p \in Among(events), NEW c \in Among(events),
                      p.id \in d.support, Builder!ProcessOf(p) = d.source,
                      c.id \in d.support, Builder!ProcessOf(c) = d.target,
                      Builder!Clash(p.process.created, c.process.created)
               PROVE  \/ p.process.created < c.process.created
                      \/ /\ p.process.ppid = c.process.pid /\ c.process.ppid = p.process.pid
                         /\ \E e \in Builder!Edges("PARENT_OF") :
                              e.source = d.target /\ e.target = d.source
    BY ListedAre DEF Builder!ParentsStartFirst, Builder!Built
  <2>1. d \in Builder!Graph(events, correlations).edges /\ d.kind = "PARENT_OF"
    BY <1>1 DEF Builder!Edges
  <2>2. \A e \in Builder!Graph(events, correlations).edges :
          e.kind = "PARENT_OF" => e \in Builder!Edges("PARENT_OF")
    BY <1>1 DEF Builder!Edges
  <2> QED
    BY <2>1, <2>2, ParentEdges
<1> QED
  BY <1>2, <1>3, <1>4 DEF Builder!DirectionsAreRecorded

-----------------------------------------------------------------------------
(***************************************************************************)
(* The graph depends on which events there are, and not on their order.    *)
(***************************************************************************)

LEMMA NodesAre ==
  ASSUME NEW es
  PROVE  Builder!Nodes(es) =
           {[id |-> n, seen |-> {e.id : e \in {x \in Among(es) : n \in Builder!NodesOf(x)}}] :
              n \in UNION {Builder!NodesOf(e) : e \in Among(es)}}
<1>1. UNION {Builder!NodesOf(es[i]) : i \in DOMAIN es}
          = UNION {Builder!NodesOf(e) : e \in Among(es)}
  BY DEF Among
<1>2. \A n : {es[i].id : i \in {k \in DOMAIN es : n \in Builder!NodesOf(es[k])}}
               = {e.id : e \in {x \in Among(es) : n \in Builder!NodesOf(x)}}
  BY DEF Among
<1> DEFINE names == UNION {Builder!NodesOf(es[i]) : i \in DOMAIN es}
<1>3. Builder!Nodes(es) =
        {[id |-> n, seen |-> {es[i].id : i \in {k \in DOMAIN es : n \in Builder!NodesOf(es[k])}}] :
           n \in names}
  BY DEF Builder!Nodes
<1>4. names = UNION {Builder!NodesOf(e) : e \in Among(es)}
  BY <1>1
<1> HIDE DEF names
<1> QED
  BY <1>2, <1>3, <1>4

LEMMA ParentLinksIgnoreOrder ==
  ASSUME NEW es, NEW fs, Among(es) = Among(fs)
  PROVE  Builder!ParentLinks(es) = Builder!ParentLinks(fs)
<1>1. Builder!Owners(es) = Builder!Owners(fs)
  BY OwnersAre
<1>2. \A p, n : Builder!ChildRows(es, p, n) = Builder!ChildRows(fs, p, n)
  BY <1>1 DEF Builder!ChildRows
<1>3. Builder!ProcessNodes(es) = Builder!ProcessNodes(fs)
  BY <1>1 DEF Builder!ProcessNodes
<1> QED
  BY <1>1, <1>2, <1>3 DEF Builder!ParentLinks

\* The same links in another order of events, but for an address out of several.
LEMMA OwnLinksIgnoreOrder ==
  ASSUME NEW es, NEW fs, NEW n \in Nat, DOMAIN es = 1..n, DOMAIN fs = 1..n,
         NEW e \in Among(es), e \in Among(fs), Recorded(e), NEW link \in OwnLinks(es, e),
         ~ /\ Builder!ManyAddresses(e)
           /\ link.source = Builder!FlowNode(e) /\ link.kind = "REFERENCES"
  PROVE  link \in OwnLinks(fs, e)
<1> DEFINE ToAddress(xs) ==
             Builder!Typed(e, Builder!FlowNode(e), Builder!AddressOf(xs, e), "REFERENCES")
           answers == Builder!Only(Builder!QueryOf(e) # None, e.network.resolved)
           l1 == UNION {Builder!Typed(e, Builder!QueryOf(e), Builder!IpNode(ip), "RESOLVED_TO") :
                          ip \in answers}
           l2 == UNION {Builder!Typed(e, Builder!DomainNode(name), Builder!Server(e),
                                      "ASSOCIATED_WITH") : name \in Builder!OtherNames(e)}
           l3 == Builder!Typed(e, Builder!ProcessOf(e), Builder!FlowNode(e), "ASSOCIATED_WITH")
<1>1. \A xs : Builder!NetworkLinks(xs, e) = UNION {l1, l2, l3, ToAddress(xs)}
  BY DEF Builder!NetworkLinks
<1>2. ASSUME link \in ToAddress(es)
      PROVE  link \in ToAddress(fs)
  <2>1. link.source = Builder!FlowNode(e) /\ link.kind = "REFERENCES"
    BY <1>2, LinkIs DEF Builder!Typed
  <2>2. \A x, y \in Builder!Addresses(e) : x = y
    BY <2>1 DEF Builder!ManyAddresses
  <2>3. Builder!AddressOf(es, e) = Builder!AddressOf(fs, e)
    BY <2>2, AddressIs
  <2> QED
    BY <1>2, <2>3
<1> HIDE DEF l1, l2, l3, ToAddress
<1>3. link \in Builder!NetworkLinks(es, e) => link \in Builder!NetworkLinks(fs, e)
  BY <1>1, <1>2
<1> QED
  BY <1>3 DEF OwnLinks

LEMMA LinksIgnoreOrder ==
  ASSUME NEW es, NEW fs, NEW n \in Nat, DOMAIN es = 1..n, DOMAIN fs = 1..n,
         Among(es) = Among(fs), Among(es) = Among(events), \A e \in Among(es) : Recorded(e),
         NEW cs, NEW link \in Builder!AllLinks(es, cs), ~Builder!OfManyAddresses(link)
  PROVE  link \in Builder!AllLinks(fs, cs)
<1> DEFINE Links(xs) == UNION {OwnLinks(xs, xs[i]) : i \in DOMAIN xs}
<1>1. \A xs : Builder!AllLinks(xs, cs) =
                UNION {Links(xs), Builder!ParentLinks(xs), Builder!CorrelationLinks(cs)}
  BY DEF Builder!AllLinks, OwnLinks
<1>2. ASSUME link \in Links(es)
      PROVE  link \in Links(fs)
  <2>1. PICK i \in DOMAIN es : link \in OwnLinks(es, es[i])
    BY <1>2
  <2>2. PICK j \in DOMAIN fs : fs[j] = es[i]
    BY DEF Among
  <2>3. es[i] \in Among(es) /\ es[i] \in Among(fs) /\ Recorded(es[i])
    BY DEF Among
  <2>4. ~ /\ Builder!ManyAddresses(es[i])
          /\ link.source = Builder!FlowNode(es[i]) /\ link.kind = "REFERENCES"
    BY <2>3, ListedAre DEF Builder!OfManyAddresses
  <2>5. link \in OwnLinks(fs, es[i])
    BY <2>1, <2>3, <2>4, OwnLinksIgnoreOrder
  <2> QED
    BY <2>2, <2>5
<1> HIDE DEF Links
<1>3. CASE link \in Links(es)
  BY <1>1, <1>2, <1>3
<1>4. CASE link \in Builder!ParentLinks(es)
  <2>1. link \in Builder!ParentLinks(fs)
    BY <1>4, ParentLinksIgnoreOrder
  <2> QED
    BY <1>1, <2>1
<1>5. CASE link \in Builder!CorrelationLinks(cs)
  BY <1>1, <1>5
<1> QED
  BY <1>1, <1>3, <1>4, <1>5

\* Edges of the same relations, and of the same links of each.
LEMMA DefiniteEdges ==
  ASSUME NEW links, NEW others,
         \A link \in links : ~Builder!OfManyAddresses(link) => link \in others,
         \A link \in others : ~Builder!OfManyAddresses(link) => link \in links
  PROVE  Builder!Definite(Builder!Coalesced(links)) \subseteq
           Builder!Definite(Builder!Coalesced(others))
<1> SUFFICES ASSUME NEW d \in Builder!Coalesced(links), ~Builder!OfManyAddresses(d)
             PROVE  d \in Builder!Coalesced(others)
  BY DEF Builder!Definite
<1>1. PICK link \in links : d = EdgeOf(links, link)
  BY EdgesAre
<1>2. d.source = link.source /\ d.kind = link.kind
  BY <1>1 DEF EdgeOf
<1>3. \A l : l.source = link.source /\ l.kind = link.kind => ~Builder!OfManyAddresses(l)
  BY <1>2 DEF Builder!OfManyAddresses
<1>4. link \in others /\ SameRelation(links, link) = SameRelation(others, link)
  BY <1>3 DEF SameRelation
<1>5. d = EdgeOf(others, link)
  BY <1>1, <1>4 DEF EdgeOf
<1> QED
  BY <1>4, <1>5, EdgesAre

LEMMA OrderIsIgnored == CaseInv => Builder!GraphIgnoresOrder
<1> SUFFICES ASSUME CaseInv, graph # None,
                    NEW p \in Builder!Bijection(DOMAIN events, DOMAIN events)
             PROVE  LET other == Builder!Graph([i \in DOMAIN events |-> events[p[i]]],
                                               correlations)
                    IN  /\ other.nodes = graph.nodes
                        /\ Builder!Definite(other.edges) = Builder!Definite(graph.edges)
  BY DEF Builder!GraphIgnoresOrder, Builder!Built
<1> DEFINE other == [i \in DOMAIN events |-> events[p[i]]]
           links == Builder!AllLinks(events, correlations)
           others == Builder!AllLinks(other, correlations)
<1>1. /\ CaseOf(events)
      /\ graph.nodes = Builder!Nodes(events) /\ graph.edges = Builder!Coalesced(links)
  BY CasesAre DEF CaseInv, Builder!Graph
<1>2. PICK n \in Nat : DOMAIN events = 1..n
  BY <1>1 DEF CaseOf
<1>3. /\ p \in [DOMAIN events -> DOMAIN events]
      /\ \A i \in DOMAIN events : \E j \in DOMAIN events : p[j] = i
  BY DEF Builder!Bijection, Builder!Surjection
<1>4. DOMAIN other = 1..n /\ Among(other) = Among(events)
  BY <1>2, <1>3 DEF Among
<1>5. \A e \in Among(events) : Recorded(e)
  BY <1>1, RowsOfCase
<1> HIDE DEF other
<1>6. \A link \in links : ~Builder!OfManyAddresses(link) => link \in others
  BY <1>2, <1>4, <1>5, LinksIgnoreOrder
<1>7. \A link \in others : ~Builder!OfManyAddresses(link) => link \in links
  BY <1>2, <1>4, <1>5, LinksIgnoreOrder
<1> HIDE DEF links, others
<1>8. Builder!Definite(Builder!Coalesced(others)) = Builder!Definite(Builder!Coalesced(links))
  <2>1. /\ Builder!Definite(Builder!Coalesced(links)) \subseteq
             Builder!Definite(Builder!Coalesced(others))
        /\ Builder!Definite(Builder!Coalesced(others)) \subseteq
             Builder!Definite(Builder!Coalesced(links))
    BY <1>6, <1>7, DefiniteEdges
  <2> QED
    BY <2>1
<1>9. Builder!Nodes(other) = Builder!Nodes(events)
  BY <1>4, NodesAre
<1> QED
  BY <1>1, <1>8, <1>9 DEF other, others, Builder!Graph

-----------------------------------------------------------------------------
(***************************************************************************)
(* The theorems.                                                           *)
(***************************************************************************)

Inv ==
  /\ kind = "search" => SearchInv
  /\ kind = "index" => IndexInv
  /\ kind = "graph" => CaseInv

LEMMA Starts == Init => Inv
<1>1. CASE kind = "search" /\ Search!Init
  BY <1>1, SearchInit DEF Inv
<1>2. CASE kind = "index" /\ Index!Init
  BY <1>2, IndexInit DEF Inv
<1>3. CASE kind = "graph" /\ Builder!Init
  BY <1>3, CaseInit DEF Inv
<1> QED
  BY <1>1, <1>2, <1>3 DEF Init

LEMMA NextKeeps == Inv /\ Next => Inv'
<1> SUFFICES ASSUME Inv, Next PROVE Inv'
  OBVIOUS
<1>1. CASE kind = "search" /\ kind' = kind /\ Search!Next
  BY <1>1, SearchStep DEF Inv
<1>2. CASE kind = "index" /\ kind' = kind /\ Index!Next
  BY <1>2, IndexStep DEF Inv
<1>3. CASE kind = "graph" /\ kind' = kind /\ Builder!Next
  BY <1>3, CaseStep DEF Inv
<1> QED
  BY <1>1, <1>2, <1>3 DEF Next

LEMMA RestKeeps == Inv /\ UNCHANGED vars => Inv'
<1> SUFFICES ASSUME Inv, UNCHANGED vars PROVE Inv'
  OBVIOUS
<1>1. kind' = kind
  BY DEF vars
<1>2. CASE kind = "search"
  <2>1. UNCHANGED <<stored, request, at, levels, ids, frontier, unqueried, rows,
                    found, collected, truncated, nodes, edges>>
    BY DEF vars, searchVars
  <2>2. SearchInv' = SearchInv
    BY <2>1 DEF SearchInv, SearchTyped, Followed, InLevel, Reached, Covered, Asked, Ended,
       Search!Strong, Search!Cap, Search!NodesOf, Drawable, Search!Joining, Search!EdgesOf,
       Search!Draws
  <2> QED
    BY <1>1, <1>2, <2>2 DEF Inv
<1>3. CASE kind = "index"
  <2>1. UNCHANGED <<events, minScore, phase, todo, results>>
    BY DEF vars, indexVars
  <2>2. IndexInv'
    BY <1>3, <2>1, PairsStay DEF Inv, IndexInv
  <2> QED
    BY <1>1, <1>3, <2>2 DEF Inv
<1>4. CASE kind = "graph"
  <2>1. UNCHANGED <<events, correlations, graph>>
    BY DEF vars, graphVars
  <2>2. CaseInv'
    BY <1>4, <2>1 DEF Inv, CaseInv
  <2> QED
    BY <1>1, <1>4, <2>2 DEF Inv
<1> QED
  BY <1>1, <1>2, <1>3, <1>4 DEF Inv

LEMMA Invariance == Spec => []Inv
<1>1. Inv /\ [Next]_vars => Inv'
  BY NextKeeps, RestKeeps
<1> QED
  BY <1>1, Starts, PTL DEF Spec

\* The events of an answer are the root and those its correlations lead to in as many
\* steps as levels were searched, all of them near by the stored correlations and in
\* number within the limit, for every graph and request (bounded_graph).
THEOREM AnswersAreNear == Spec => []ResultIsNear
<1>1. Inv => ResultIsNear
  BY SearchIsNear DEF Inv, ResultIsNear
<1> QED
  BY <1>1, Invariance, PTL

\* An answer without truncated has the whole component of the root, and unless a query
\* had too many rows every correlation between events that were asked about is in the
\* answer; both but for edges left out of an answer that has eight for each node of the
\* limit.  This holds for every graph and request (bounded_graph).
THEOREM CutsAreTold == Spec => []CutsAreAnnounced
<1>1. Inv => CutsAreAnnounced
  BY SearchIsComplete, SearchKeepsCorrelations DEF Inv, CutsAreAnnounced, Search!CutsAreAnnounced
<1> QED
  BY <1>1, Invariance, PTL

\* A pair of events that the rules accept is missing from the answer of the index only
\* when it has one of three named shapes: whatever identity a rule accepts, the index
\* has entered under it or looks it up, for every case of any size and threshold
\* (EventIndex.pairs).
THEOREM MissesAreNamed == Spec => []MissedPairsAreKnown
<1>1. Inv => MissedPairsAreKnown
  BY IndexKnowsItsMisses DEF Inv, MissedPairsAreKnown
<1> QED
  BY <1>1, Invariance, PTL

\* Scores are from 0 to 100 and the rules say the same of both orders of a pair, events
\* that are far apart in time are joined by an identity that lasts, and an edge is
\* drawn over no recorded start or end, for every case (negative_reasons,
\* CorrelationEngine.correlate).
THEOREM EdgesRestOnIdentities == Spec => []EdgesAreSound
<1>1. Inv => EdgesAreSound
  BY IndexScoresAreSound, IndexJoinsIdentities DEF Inv, EdgesAreSound, Index!EdgesAreSound
<1> QED
  BY <1>1, Invariance, PTL

\* A parent that a row records by its instance is linked to the child with full score
\* whatever the order of the rows, for every case: no correlation between the two
\* processes is ever coalesced with such a link (build_graph).
THEOREM ParentsAreLinked == Spec => []RecordedParentsAreLinked
<1>1. Inv => RecordedParentsAreLinked
  BY GraphLinksParents DEF Inv, RecordedParentsAreLinked
<1> QED
  BY <1>1, Invariance, PTL

\* For every case, a process is joined to a file of another event over a command line
\* that names its path, and every event that a parent edge rests on records the
\* instance of the parent, or is one of a pair in which the child records the number of
\* the parent.  The pair of an edge that no command line of its own process backs, and
\* the two processes of an edge whose parent started later, are drawn the other way as
\* well, so that a wrong direction does not stand alone (build_graph, extend_graph).
THEOREM DirectionsHold == Spec => []DirectionsAreRecorded
<1>1. Inv => DirectionsAreRecorded
  BY GraphDirects DEF Inv, DirectionsAreRecorded
<1> QED
  BY <1>1, Invariance, PTL

\* Edges join nodes of the graph, rest on events of the case and score from 1 to 100,
\* and the same events in any other order give the same graph but for the address that
\* a flow with several of them refers to, for every case (build_graph, extend_graph).
THEOREM OrderDoesNotMatter == Spec => []GraphIgnoresOrder
<1>1. Inv => GraphIgnoresOrder
  BY GraphHasType, OrderIsIgnored DEF Inv, GraphIgnoresOrder
<1> QED
  BY <1>1, Invariance, PTL

=============================================================================
