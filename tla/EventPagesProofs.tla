-------------------------- MODULE EventPagesProofs --------------------------
(***************************************************************************)
(* Proofs about EventPages for every number of threads, cases, events and  *)
(* views and every capacity.                                               *)
(***************************************************************************)
EXTENDS EventPages, FiniteSetTheorems, TLAPS

\* The threads whose insertion is still to come.
Inserting == {t \in Thread : page[t].at = "insert"}

\* Room in the cache is spoken for by those insertions.
RoomIsReserved == Len(cache) + Cardinality(Inserting) <= Capacity + Cardinality(Thread) - 1

\* What the cache remembers of a revision is what that revision holds.
MatchesHistory(entry) ==
  /\ entry.key.revision < Len(history[entry.key.case])
  /\ entry.counts = Counts(history[entry.key.case][entry.key.revision + 1])

CacheMatchesHistory == \A k \in DOMAIN cache : MatchesHistory(cache[k])

\* A request knows the total of its revision and, once past the lookup, the
\* counts.
RequestsMatchHistory ==
  \A t \in Thread :
    page[t].at \notin {"idle", "failed"} =>
      /\ page[t].total = Total(page[t].view, Snapshot(page[t]))
      /\ page[t].at # "lookup" => page[t].counts = Counts(Snapshot(page[t]))

IInv == TypeOK /\ RoomIsReserved /\ CacheMatchesHistory /\ RequestsMatchHistory

-----------------------------------------------------------------------------
(***************************************************************************)
(* Counting.                                                               *)
(***************************************************************************)

\* A view counts finitely many events.
LEMMA TotalType ==
  ASSUME NEW view, NEW events \in SUBSET Event
  PROVE  Total(view, events) \in Nat
<1>1. IsFiniteSet(events)
  BY PagesAssumption, FS_Subset
<1>2. Matching(view, events) \subseteq events
  BY DEF Matching
<1> QED
  BY <1>1, <1>2, FS_Subset, FS_CardinalityType DEF Total

LEMMA CountsType ==
  ASSUME NEW events \in SUBSET Event
  PROVE  Counts(events) \in [View -> Nat]
BY TotalType DEF Counts

LEMMA ThreadCount == Cardinality(Thread) \in Nat
BY PagesAssumption, FS_CardinalityType

\* At most all threads are about to insert.
LEMMA InsertingCount ==
  /\ IsFiniteSet(Inserting)
  /\ Cardinality(Inserting) \in Nat
  /\ Cardinality(Inserting) <= Cardinality(Thread)
BY PagesAssumption, FS_Subset, FS_CardinalityType DEF Inserting

\* A thread that comes to its insertion adds one to those that insert ...
LEMMA InsertingGrows ==
  ASSUME NEW t \in Thread, page[t].at # "insert", page'[t].at = "insert",
         \A u \in Thread \ {t} : page'[u] = page[u]
  PROVE  Cardinality(Inserting') = Cardinality(Inserting) + 1
<1>1. Inserting' = Inserting \cup {t} /\ t \notin Inserting
  BY DEF Inserting
<1> QED
  BY <1>1, InsertingCount, FS_AddElement

\* ... one that is done takes one away ...
LEMMA InsertingShrinks ==
  ASSUME NEW t \in Thread, page[t].at = "insert", page'[t].at # "insert",
         \A u \in Thread \ {t} : page'[u] = page[u]
  PROVE  Cardinality(Inserting') = Cardinality(Inserting) - 1
<1>1. Inserting' = Inserting \ {t} /\ t \in Inserting
  BY DEF Inserting
<1> QED
  BY <1>1, InsertingCount, FS_RemoveElement

\* ... and every other step leaves them as they are.
LEMMA InsertingStays ==
  ASSUME NEW t \in Thread, page[t].at # "insert", page'[t].at # "insert",
         \A u \in Thread \ {t} : page'[u] = page[u]
  PROVE  Inserting' = Inserting
BY DEF Inserting

-----------------------------------------------------------------------------
(***************************************************************************)
(* Removing an entry.                                                      *)
(***************************************************************************)

\* A sequence without its k-th element: one shorter, the others in order.
LEMMA RemoveAtResult ==
  ASSUME NEW S, NEW s \in Seq(S), NEW k \in DOMAIN s
  PROVE  /\ Len(RemoveAt(s, k)) = Len(s) - 1
         /\ \A m \in DOMAIN RemoveAt(s, k) :
              \E n \in DOMAIN s : RemoveAt(s, k)[m] = s[n]
<1> DEFINE before == SubSeq(s, 1, k - 1)
           after == SubSeq(s, k + 1, Len(s))
<1>1. k \in 1..Len(s) /\ Len(s) \in Nat
  OBVIOUS
<1>2. /\ before \in Seq(S)
      /\ Len(before) = k - 1
      /\ \A m \in 1..k - 1 : before[m] = s[m]
  BY <1>1
<1>3. /\ after \in Seq(S)
      /\ Len(after) = Len(s) - k
      /\ \A m \in 1..Len(s) - k : after[m] = s[k + m]
  BY <1>1
<1> HIDE DEF before, after
<1>4. /\ Len(before \o after) = Len(s) - 1
      /\ DOMAIN (before \o after) = 1..Len(s) - 1
  BY <1>1, <1>2, <1>3
<1>5. ASSUME NEW m \in 1..Len(s) - 1
      PROVE  \E n \in DOMAIN s : (before \o after)[m] = s[n]
  <2>1. CASE m < k
    BY <1>1, <1>2, <1>3, <2>1
  <2>2. CASE m >= k
    <3>1. (before \o after)[m] = after[m - (k - 1)]
      BY SMTT(60), <1>1, <1>2, <1>3, <2>2
    <3>2. m - (k - 1) \in 1..Len(s) - k
      BY <1>1, <2>2
    <3>3. k + (m - (k - 1)) \in DOMAIN s
      BY <1>1, <2>2
    <3> QED
      BY <1>3, <3>1, <3>2, <3>3
  <2>3. m < k \/ m >= k
    BY <1>1
  <2> QED
    BY <2>1, <2>2, <2>3
<1> QED
  BY <1>4, <1>5 DEF RemoveAt, before, after

-----------------------------------------------------------------------------
(***************************************************************************)
(* Evidence of the past.                                                   *)
(***************************************************************************)

\* The evidence of a revision that exists is a set of events.
LEMMA PastType ==
  ASSUME TypeOK, NEW c \in Case, NEW r \in Nat, r < Len(history[c])
  PROVE  history[c][r + 1] \in SUBSET Event
<1>1. history[c] \in Seq(SUBSET Event)
  BY DEF TypeOK
<1>2. r + 1 \in 1..Len(history[c])
  BY <1>1
<1> QED
  BY <1>1, <1>2

\* An import adds a revision and changes none.
LEMMA ImportKeepsThePast ==
  ASSUME TypeOK, NEW c \in Case, Import(c)
  PROVE  /\ history' \in [Case -> Seq(SUBSET Event) \ {<<>>}]
         /\ \A d \in Case, r \in Nat :
              r < Len(history[d]) => /\ r < Len(history'[d])
                                     /\ history'[d][r + 1] = history[d][r + 1]
<1>1. PICK new \in SUBSET Event :
        history' = [history EXCEPT ![c] = Append(@, Last(@) \cup new)]
  BY DEF Import
<1>2. history \in [Case -> Seq(SUBSET Event) \ {<<>>}]
  BY DEF TypeOK
<1>3. Last(history[c]) \in SUBSET Event
  <2>1. Len(history[c]) \in 1..Len(history[c])
    BY <1>2
  <2> QED
    BY <1>2, <2>1 DEF Last
<1>4. history' = [history EXCEPT ![c] = Append(history[c], Last(history[c]) \cup new)]
  BY <1>1, <1>2
<1>5. Append(history[c], Last(history[c]) \cup new) \in Seq(SUBSET Event) \ {<<>>}
  BY <1>2, <1>3
<1>6. history' \in [Case -> Seq(SUBSET Event) \ {<<>>}]
  BY <1>2, <1>4, <1>5
<1>7. ASSUME NEW d \in Case, NEW r \in Nat, r < Len(history[d])
      PROVE  r < Len(history'[d]) /\ history'[d][r + 1] = history[d][r + 1]
  <2>1. CASE d = c
    <3>1. history'[c] = Append(history[c], Last(history[c]) \cup new)
      BY <1>2, <1>4
    <3>2. Len(history'[c]) = Len(history[c]) + 1
      BY <1>2, <3>1
    <3>3. \A k \in 1..Len(history[c]) : history'[c][k] = history[c][k]
      BY <1>2, <3>1
    <3>4. history[c] \in Seq(SUBSET Event)
      BY <1>2
    <3>5. r \in Nat /\ Len(history[c]) \in Nat /\ r < Len(history[c])
      BY <1>7, <2>1, <3>4
    <3>6. r + 1 \in 1..Len(history[c]) /\ r < Len(history[c]) + 1
      BY <3>5
    <3> QED
      BY <2>1, <3>2, <3>3, <3>6
  <2>2. CASE d # c
    BY <1>2, <1>4, <1>7, <2>2
  <2> QED
    BY <2>1, <2>2
<1> QED
  BY <1>6, <1>7

-----------------------------------------------------------------------------
(***************************************************************************)
(* The inductive invariant.                                                *)
(***************************************************************************)

\* A thread's step moves its own request only and leaves the evidence alone.
LEMMA OneThreadMoves ==
  ASSUME TypeOK, NEW t \in Thread, Serve(t)
  PROVE  /\ history' = history
         /\ page' = [page EXCEPT ![t] = page'[t]]
         /\ \A u \in Thread \ {t} : page'[u] = page[u]
BY DEF Serve, TypeOK, Begin, Hit, Miss, TestSize, MakeIterator, ChooseOldest,
       SizeChanged, Evict, EvictTwice, Insert, Goes

\* A request that has begun is a page with a revision that exists.
LEMMA RequestType ==
  ASSUME TypeOK, NEW t \in Thread, page[t].at \notin {"idle", "failed"}
  PROVE  /\ page[t] \in Page
         /\ page[t].revision < Len(history[page[t].case])
         /\ Snapshot(page[t]) \in SUBSET Event
<1>1. page[t] \in Page /\ page[t].revision < Len(history[page[t].case])
  BY DEF TypeOK, Idle, Failed
<1>2. page[t].case \in Case /\ page[t].revision \in Nat
  BY <1>1 DEF Page
<1> QED
  BY <1>1, <1>2, PastType DEF Snapshot

\* What a thread leaves behind is a sequence of entries and again a request
\* for a revision that exists.
LEMMA ServeKeepsTypes ==
  ASSUME TypeOK, NEW t \in Thread, Serve(t)
  PROVE  TypeOK'
<1> DEFINE Fits == /\ cache' \in Seq(Entry)
                   /\ page'[t] \in Page \cup {Idle, Failed}
                   /\ disturbed' \subseteq Thread
                   /\ page'[t].at \notin {"idle", "failed"} =>
                        page'[t].revision < Len(history[page'[t].case])
<1>1. /\ cache \in Seq(Entry)
      /\ page[t] \in Page \cup {Idle, Failed}
      /\ page \in [Thread -> Page \cup {Idle, Failed}]
      /\ disturbed' \subseteq Thread
  BY DEF TypeOK, Serve, Begin, Hit, Miss, TestSize, MakeIterator, ChooseOldest,
         SizeChanged, Evict, EvictTwice, Insert, OthersEvicting
<1>2. ASSUME NEW c \in Case, NEW view \in View, Begin(t, c, view)
      PROVE  Fits
  <2> DEFINE r == Len(history[c]) - 1
             events == history[c][r + 1]
  <2>1. r \in Nat /\ r < Len(history[c])
    <3>1. history[c] \in Seq(SUBSET Event) /\ history[c] # <<>>
      BY DEF TypeOK
    <3> QED
      BY <3>1
  <2>2. Total(view, events) \in Nat
    BY <2>1, PastType, TotalType
  <2>3. page'[t] = [at |-> "lookup", case |-> c, revision |-> r, view |-> view,
                    total |-> Total(view, events), counts |-> [v \in View |-> 0], size |-> 0,
                    victim |-> [case |-> c, revision |-> r]]
    BY <1>1, <1>2 DEF Begin, Snapshot, KeyOf
  <2>4. page'[t] \in Page
    BY <2>1, <2>2, <2>3 DEF Page, Key
  <2>5. cache' = cache
    BY <1>2 DEF Begin
  <2> QED
    BY <1>1, <2>1, <2>3, <2>4, <2>5
<1> DEFINE Moves == /\ page[t].at \notin {"idle", "failed"}
                    /\ page'[t] \in Page
                    /\ page'[t].revision = page[t].revision
                    /\ page'[t].case = page[t].case
<1>3. ASSUME page[t].at \notin {"idle", "failed"}
      PROVE  page[t] \in Page /\ page[t].revision < Len(history[page[t].case])
  BY <1>3, RequestType
<1>4. ASSUME Hit(t)
      PROVE  Fits
  <2>1. PICK k \in DOMAIN cache :
          page' = [page EXCEPT ![t].at = "answered", ![t].counts = cache[k].counts]
    BY <1>4 DEF Hit, Cached
  <2>2. cache[k].counts \in [View -> Nat]
    <3>1. cache[k] \in Entry
      BY <1>1
    <3> QED
      BY <3>1 DEF Entry
  <2>3. page[t].at \notin {"idle", "failed"} /\ cache' = cache
    BY <1>4 DEF Hit, At
  <2>4. page'[t] = [page[t] EXCEPT !.at = "answered", !.counts = cache[k].counts]
    BY <1>1, <2>1
  <2>5. Moves
    BY <1>3, <2>2, <2>3, <2>4 DEF Page
  <2> QED
    BY <1>1, <1>3, <2>3, <2>5
<1>5. ASSUME Miss(t)
      PROVE  Fits
  <2>1. page[t].at \notin {"idle", "failed"} /\ cache' = cache
    BY <1>5 DEF Miss, At
  <2>2. Counts(Snapshot(page[t])) \in [View -> Nat]
    BY <2>1, RequestType, CountsType
  <2>3. page'[t] = [page[t] EXCEPT !.at = "full", !.counts = Counts(Snapshot(page[t]))]
    BY <1>1, <1>5 DEF Miss
  <2>4. Moves
    BY <1>3, <2>1, <2>2, <2>3 DEF Page
  <2> QED
    BY <1>1, <1>3, <2>1, <2>4
<1>6. ASSUME TestSize(t)
      PROVE  Fits
  <2>1. page[t].at \notin {"idle", "failed"} /\ cache' = cache
    BY <1>6 DEF TestSize, At
  <2>2. page'[t] = [page[t] EXCEPT !.at = IF Full THEN "iterate" ELSE "insert"]
    BY <1>1, <1>6 DEF TestSize, Goes
  <2>3. Moves
    BY <1>3, <2>1, <2>2 DEF Page
  <2> QED
    BY <1>1, <1>3, <2>1, <2>3
<1>6a. ASSUME MakeIterator(t)
       PROVE  Fits
  <2>1. /\ page[t].at \notin {"idle", "failed"}
        /\ cache' = cache
        /\ Len(cache) \in Nat
    BY <1>1, <1>6a DEF MakeIterator, At
  <2>2. page'[t] = [page[t] EXCEPT !.at = "oldest", !.size = Len(cache)]
    BY <1>1, <1>6a DEF MakeIterator
  <2>3. Moves
    BY <1>3, <2>1, <2>2 DEF Page
  <2> QED
    BY <1>1, <1>3, <2>1, <2>3
<1>7. ASSUME ChooseOldest(t)
      PROVE  Fits
  <2>1. Head(cache).key \in Key
    <3>1. Head(cache) \in Entry
      BY <1>1, <1>7 DEF ChooseOldest
    <3> QED
      BY <3>1 DEF Entry
  <2>2. page[t].at \notin {"idle", "failed"} /\ cache' = cache
    BY <1>7 DEF ChooseOldest, At
  <2>3. page'[t] = [page[t] EXCEPT !.at = "pop", !.victim = Head(cache).key]
    BY <1>1, <1>7 DEF ChooseOldest
  <2>4. Moves
    BY <1>3, <2>1, <2>2, <2>3 DEF Page
  <2> QED
    BY <1>1, <1>3, <2>2, <2>4
<1>8. ASSUME Evict(t)
      PROVE  Fits
  <2>1. cache' \in Seq(Entry)
    BY <1>1, <1>8 DEF Evict, RemoveAt, Cached
  <2>2. page[t].at \notin {"idle", "failed"}
    BY <1>8 DEF Evict, At
  <2>3. PICK n \in Nat : page'[t] = [page[t] EXCEPT !.at = "insert", !.size = n]
    BY <1>1, <1>8 DEF Evict
  <2>4. Moves
    BY <1>3, <2>2, <2>3 DEF Page
  <2> QED
    BY <1>1, <1>3, <2>1, <2>4
<1>9. ASSUME EvictTwice(t) \/ SizeChanged(t)
      PROVE  Fits
  <2>1. page'[t] = Failed /\ cache' = cache
    BY <1>1, <1>9 DEF EvictTwice, SizeChanged
  <2>2. Failed.at = "failed"
    BY DEF Failed
  <2> QED
    BY <1>1, <2>1, <2>2
<1>10. ASSUME Insert(t)
      PROVE  Fits
  <2>1. page[t].at \notin {"idle", "failed"}
    BY <1>10 DEF Insert, At
  <2>2. [key |-> KeyOf(page[t]), counts |-> page[t].counts] \in Entry
    BY <1>3, <2>1 DEF Entry, Key, KeyOf, Page
  <2>3. cache' \in Seq(Entry)
    BY <1>1, <1>10, <2>2 DEF Insert, Cached
  <2>4. page'[t] = [page[t] EXCEPT !.at = "answered"]
    BY <1>1, <1>10 DEF Insert, Goes
  <2>5. Moves
    BY <1>3, <2>1, <2>4 DEF Page
  <2> QED
    BY <1>1, <1>3, <2>3, <2>5
<1>11. Fits
  BY <1>2, <1>4, <1>5, <1>6, <1>6a, <1>7, <1>8, <1>9, <1>10 DEF Serve
<1> HIDE DEF Fits
<1>12. history' = history /\ page' = [page EXCEPT ![t] = page'[t]]
  BY OneThreadMoves
<1> QED
  BY <1>1, <1>11, <1>12 DEF Fits, TypeOK

\* No step lets cache and pending insertions outgrow the room there is: a
\* thread goes on without evicting only while an entry is free, and one that
\* evicts makes room for its own entry.
LEMMA ServeKeepsRoom ==
  ASSUME TypeOK, RoomIsReserved, NEW t \in Thread, Serve(t)
  PROVE  RoomIsReserved'
<1>1. /\ cache \in Seq(Entry)
      /\ page \in [Thread -> Page \cup {Idle, Failed}]
  BY DEF TypeOK
<1>2. /\ Len(cache) \in Nat
      /\ Cardinality(Inserting) \in Nat
      /\ Cardinality(Thread) \in Nat
      /\ Capacity \in Nat
  BY <1>1, InsertingCount, ThreadCount, PagesAssumption
<1>3. ASSUME page[t].at # "insert", page'[t].at # "insert", cache' = cache
      PROVE  RoomIsReserved'
  BY <1>3, OneThreadMoves, InsertingStays DEF RoomIsReserved
<1>4. ASSUME NEW c \in Case, NEW view \in View, Begin(t, c, view)
      PROVE  RoomIsReserved'
  <2>1. page[t].at # "insert" /\ page'[t].at = "lookup" /\ cache' = cache
    BY <1>1, <1>4 DEF Begin
  <2> QED
    BY <1>3, <2>1
<1>5. CASE Hit(t)
  BY <1>1, <1>3, <1>5 DEF Hit, At
<1>6. CASE Miss(t)
  BY <1>1, <1>3, <1>6 DEF Miss, At
<1>7. CASE ChooseOldest(t)
  BY <1>1, <1>3, <1>7 DEF ChooseOldest, At
<1>7a. CASE MakeIterator(t)
  BY <1>1, <1>3, <1>7a DEF MakeIterator, At
<1>8. CASE EvictTwice(t) \/ SizeChanged(t)
  <2>1. page[t].at # "insert" /\ page'[t] = Failed /\ cache' = cache
    BY <1>1, <1>8 DEF EvictTwice, SizeChanged, At
  <2>2. Failed.at # "insert"
    BY DEF Failed
  <2> QED
    BY <1>3, <2>1, <2>2
<1>9. CASE TestSize(t)
  <2>1. /\ page[t].at = "full" /\ cache' = cache
        /\ page'[t].at = IF Full THEN "iterate" ELSE "insert"
    BY <1>1, <1>9 DEF TestSize, At, Goes
  <2>2. CASE Full
    BY <1>3, <2>1, <2>2
  <2>3. CASE ~Full
    <3>1. IsFiniteSet(Thread) /\ Inserting' \subseteq Thread
      BY PagesAssumption DEF Inserting
    <3>2. Cardinality(Inserting') \in Nat /\ Cardinality(Inserting') <= Cardinality(Thread)
      BY <3>1, FS_Subset, FS_CardinalityType
    <3>3. Len(cache) < Capacity
      BY <1>2, <2>3 DEF Full
    <3> QED
      BY <1>2, <2>1, <3>2, <3>3 DEF RoomIsReserved
  <2> QED
    BY <2>2, <2>3
<1>10. CASE Evict(t)
  <2>1. page[t].at = "pop" /\ page'[t].at = "insert"
    BY <1>1, <1>10 DEF Evict, At, Goes
  <2>2. Cardinality(Inserting') = Cardinality(Inserting) + 1
    BY <2>1, OneThreadMoves, InsertingGrows
  <2>3. Len(cache') = Len(cache) - 1
    BY <1>1, <1>10, RemoveAtResult DEF Evict, Cached
  <2> QED
    BY <1>2, <2>2, <2>3 DEF RoomIsReserved
<1>11. CASE Insert(t)
  <2>1. page[t].at = "insert" /\ page'[t].at = "answered"
    BY <1>1, <1>11 DEF Insert, At, Goes
  <2>2. Cardinality(Inserting') = Cardinality(Inserting) - 1
    BY <2>1, OneThreadMoves, InsertingShrinks
  <2>3. Len(cache') \in {Len(cache), Len(cache) + 1}
    BY <1>1, <1>11 DEF Insert, Cached
  <2> QED
    BY <1>2, <2>2, <2>3 DEF RoomIsReserved
<1> QED
  BY <1>4, <1>5, <1>6, <1>7, <1>7a, <1>8, <1>9, <1>10, <1>11 DEF Serve

\* An entry is inserted with the counts its request has taken, and the other
\* entries stay or go.
LEMMA ServeKeepsCache ==
  ASSUME IInv, NEW t \in Thread, Serve(t)
  PROVE  CacheMatchesHistory'
<1>1. cache \in Seq(Entry) /\ history' = history
  BY OneThreadMoves DEF IInv, TypeOK
<1>2. ASSUME cache' = cache
      PROVE  CacheMatchesHistory'
  BY <1>1, <1>2 DEF IInv, CacheMatchesHistory, MatchesHistory
<1>3. CASE Evict(t)
  <2>1. PICK k \in DOMAIN cache : cache' = RemoveAt(cache, k)
    BY <1>3 DEF Evict, Cached
  <2>2. \A m \in DOMAIN cache' : \E n \in DOMAIN cache : cache'[m] = cache[n]
    BY <1>1, <2>1, RemoveAtResult
  <2> QED
    BY <1>1, <2>2 DEF IInv, CacheMatchesHistory, MatchesHistory
<1>4. CASE Insert(t)
  <2> DEFINE entry == [key |-> KeyOf(page[t]), counts |-> page[t].counts]
  <2>1. MatchesHistory(entry)
    <3>1. page[t].at = "insert"
      BY <1>4 DEF Insert, At
    <3>2. page[t].counts = Counts(Snapshot(page[t]))
      BY <3>1 DEF IInv, RequestsMatchHistory
    <3>3. page[t].revision < Len(history[page[t].case])
      BY <3>1, RequestType DEF IInv
    <3> QED
      BY <3>2, <3>3 DEF MatchesHistory, KeyOf, Snapshot
  <2>2. \A m \in DOMAIN cache' :
          cache'[m] = entry \/ \E n \in DOMAIN cache : cache'[m] = cache[n]
    BY <1>1, <1>4 DEF Insert, Cached
  <2> HIDE DEF entry
  <2> QED
    BY <1>1, <2>1, <2>2 DEF IInv, CacheMatchesHistory, MatchesHistory
<1> QED
  BY <1>2, <1>3, <1>4 DEF Serve, Begin, Hit, Miss, TestSize, MakeIterator, ChooseOldest,
                             SizeChanged, EvictTwice

\* A request that has passed the lookup holds the counts of its revision:
\* its own, or those of an entry with its key.
LEMMA ServeKeepsRequests ==
  ASSUME IInv, NEW t \in Thread, Serve(t)
  PROVE  RequestsMatchHistory'
<1> DEFINE Right == /\ page'[t].total = Total(page'[t].view, Snapshot(page'[t]))
                    /\ page'[t].at # "lookup" => page'[t].counts = Counts(Snapshot(page'[t]))
           Fits == page'[t].at \notin {"idle", "failed"} => Right
           Holds == /\ page[t].at \notin {"idle", "failed"}
                    /\ page'[t].case = page[t].case
                    /\ page'[t].revision = page[t].revision
                    /\ page'[t].view = page[t].view
                    /\ page'[t].total = page[t].total
<1>1. page \in [Thread -> Page \cup {Idle, Failed}]
  BY DEF IInv, TypeOK
<1>2. ASSUME page[t].at \notin {"idle", "failed"}
      PROVE  /\ page[t] \in Page
             /\ page[t].total = Total(page[t].view, Snapshot(page[t]))
             /\ page[t].at # "lookup" => page[t].counts = Counts(Snapshot(page[t]))
  BY <1>2, RequestType DEF IInv, RequestsMatchHistory
<1>3. ASSUME Holds, page'[t].counts = Counts(Snapshot(page[t]))
      PROVE  Fits
  BY <1>2, <1>3 DEF Snapshot
<1>4. ASSUME NEW c \in Case, NEW view \in View, Begin(t, c, view)
      PROVE  Fits
  BY <1>1, <1>4 DEF Begin, Snapshot
<1>5. ASSUME Hit(t)
      PROVE  Fits
  <2>1. PICK k \in DOMAIN cache :
          /\ cache[k].key = KeyOf(page[t])
          /\ page' = [page EXCEPT ![t].at = "answered", ![t].counts = cache[k].counts]
    BY <1>5 DEF Hit, Cached
  <2>2. cache[k].counts = Counts(Snapshot(page[t]))
    BY <2>1 DEF IInv, CacheMatchesHistory, MatchesHistory, Snapshot, KeyOf
  <2>3. page[t].at \notin {"idle", "failed"}
    BY <1>5 DEF Hit, At
  <2>4. page'[t] = [page[t] EXCEPT !.at = "answered", !.counts = cache[k].counts]
    BY <1>1, <2>1
  <2>5. Holds /\ page'[t].counts = cache[k].counts
    BY <1>2, <2>3, <2>4 DEF Page
  <2> QED
    BY <1>3, <2>2, <2>5
<1>6. ASSUME Miss(t)
      PROVE  Fits
  <2>1. page[t].at \notin {"idle", "failed"}
    BY <1>6 DEF Miss, At
  <2>2. page'[t] = [page[t] EXCEPT !.at = "full", !.counts = Counts(Snapshot(page[t]))]
    BY <1>1, <1>6 DEF Miss
  <2>3. Holds /\ page'[t].counts = Counts(Snapshot(page[t]))
    BY <1>2, <2>1, <2>2 DEF Page
  <2> QED
    BY <1>3, <2>3
<1>7. ASSUME TestSize(t) \/ MakeIterator(t) \/ ChooseOldest(t) \/ Evict(t) \/ Insert(t)
      PROVE  Fits
  <2>1. page[t].at \notin {"idle", "failed"} /\ page[t].at # "lookup"
    BY <1>7 DEF TestSize, MakeIterator, ChooseOldest, Evict, Insert, At
  <2>2. ASSUME NEW place, page' = [page EXCEPT ![t].at = place]
        PROVE  Holds /\ page'[t].counts = page[t].counts
    <3>1. page'[t] = [page[t] EXCEPT !.at = place]
      BY <1>1, <2>2
    <3> QED
      BY <1>2, <2>1, <3>1 DEF Page
  <2>3. CASE ChooseOldest(t)
    <3>1. page'[t] = [page[t] EXCEPT !.at = "pop", !.victim = Head(cache).key]
      BY <1>1, <2>3 DEF ChooseOldest
    <3>2. Holds /\ page'[t].counts = page[t].counts
      BY <1>2, <2>1, <3>1 DEF Page
    <3> QED
      BY <1>2, <1>3, <2>1, <3>2
  <2>5. CASE MakeIterator(t)
    <3>1. page'[t] = [page[t] EXCEPT !.at = "oldest", !.size = Len(cache)]
      BY <1>1, <2>5 DEF MakeIterator
    <3>2. Holds /\ page'[t].counts = page[t].counts
      BY <1>2, <2>1, <3>1 DEF Page
    <3> QED
      BY <1>2, <1>3, <2>1, <3>2
  <2>6. CASE Evict(t)
    <3>1. page'[t] = [page[t] EXCEPT !.at = "insert", !.size = 0]
      BY <1>1, <2>6 DEF Evict
    <3>2. Holds /\ page'[t].counts = page[t].counts
      BY <1>2, <2>1, <3>1 DEF Page
    <3> QED
      BY <1>2, <1>3, <2>1, <3>2
  <2>4. CASE TestSize(t) \/ Insert(t)
    <3>1. Holds /\ page'[t].counts = page[t].counts
      BY <2>2, <2>4 DEF TestSize, Insert, Goes
    <3> QED
      BY <1>2, <1>3, <2>1, <3>1
  <2> QED
    BY <1>7, <2>3, <2>4, <2>5, <2>6
<1>8. ASSUME EvictTwice(t) \/ SizeChanged(t)
      PROVE  Fits
  <2>1. page'[t] = Failed
    BY <1>1, <1>8 DEF EvictTwice, SizeChanged
  <2>2. Failed.at = "failed"
    BY DEF Failed
  <2> QED
    BY <2>1, <2>2
<1>9. Fits
  BY <1>4, <1>5, <1>6, <1>7, <1>8 DEF Serve
<1> HIDE DEF Fits
<1>10. ASSUME NEW u \in Thread, page'[u].at \notin {"idle", "failed"}
       PROVE  /\ page'[u].total = Total(page'[u].view, Snapshot(page'[u]))
              /\ page'[u].at # "lookup" => page'[u].counts = Counts(Snapshot(page'[u]))
  <2>1. CASE u = t
    BY <1>9, <1>10, <2>1 DEF Fits
  <2>2. CASE u # t
    BY <1>10, <2>2, OneThreadMoves DEF IInv, RequestsMatchHistory
  <2> QED
    BY <2>1, <2>2
<1>11. history' = history
  BY OneThreadMoves DEF IInv
<1> QED
  BY <1>10, <1>11 DEF RequestsMatchHistory, Snapshot

\* An import adds a revision that nothing in the cache or on its way is about.
LEMMA ImportKeepsAll ==
  ASSUME IInv, NEW c \in Case, Import(c)
  PROVE  IInv'
<1>1. /\ history' \in [Case -> Seq(SUBSET Event) \ {<<>>}]
      /\ \A d \in Case, r \in Nat :
           r < Len(history[d]) => /\ r < Len(history'[d])
                                  /\ history'[d][r + 1] = history[d][r + 1]
  BY ImportKeepsThePast DEF IInv
<1>2. cache' = cache /\ page' = page /\ disturbed' = disturbed
  BY DEF Import
<1>3. ASSUME NEW t \in Thread, page[t].at \notin {"idle", "failed"}
      PROVE  /\ page[t].case \in Case /\ page[t].revision \in Nat
             /\ page[t].revision < Len(history[page[t].case])
  BY <1>3, RequestType DEF IInv, Page
<1>4. TypeOK'
  BY <1>1, <1>2, <1>3 DEF IInv, TypeOK
<1>5. RoomIsReserved'
  BY <1>2 DEF IInv, RoomIsReserved, Inserting
<1>6. CacheMatchesHistory'
  <2>1. ASSUME NEW k \in DOMAIN cache
        PROVE  /\ cache[k].key.case \in Case /\ cache[k].key.revision \in Nat
               /\ MatchesHistory(cache[k])
    <3>1. cache[k] \in Entry
      BY DEF IInv, TypeOK
    <3> QED
      BY <3>1 DEF IInv, CacheMatchesHistory, Entry, Key
  <2> QED
    BY <1>1, <1>2, <2>1 DEF CacheMatchesHistory, MatchesHistory
<1>7. RequestsMatchHistory'
  BY <1>1, <1>2, <1>3 DEF IInv, RequestsMatchHistory, Snapshot
<1> QED
  BY <1>4, <1>5, <1>6, <1>7 DEF IInv

-----------------------------------------------------------------------------
(***************************************************************************)
(* Theorems                                                                *)
(***************************************************************************)

\* The invariant holds before the first request ...
LEMMA InitInvariant == Init => IInv
<1> SUFFICES ASSUME Init PROVE IInv
  OBVIOUS
<1>1. Idle.at = "idle" /\ <<{}>> \in Seq(SUBSET Event) \ {<<>>}
  BY DEF Idle
<1>2. \A t \in Thread : page[t].at = "idle"
  BY <1>1 DEF Init
<1>3. TypeOK
  BY <1>1, <1>2 DEF Init, TypeOK
<1>4. RoomIsReserved
  <2>1. Inserting = {}
    BY <1>2 DEF Inserting
  <2>2. Len(cache) = 0 /\ Capacity \in Nat /\ Capacity > 0
    BY PagesAssumption DEF Init
  <2> QED
    BY <2>1, <2>2, FS_EmptySet, ThreadCount DEF RoomIsReserved
<1>5. CacheMatchesHistory /\ RequestsMatchHistory
  BY <1>2 DEF Init, CacheMatchesHistory, RequestsMatchHistory
<1> QED
  BY <1>3, <1>4, <1>5 DEF IInv

\* ... and every step keeps it.
LEMMA NextInvariant == IInv /\ [Next]_vars => IInv'
<1> SUFFICES ASSUME IInv, [Next]_vars PROVE IInv'
  OBVIOUS
<1>1. ASSUME NEW t \in Thread, Serve(t)
      PROVE  IInv'
  BY <1>1, ServeKeepsTypes, ServeKeepsRoom, ServeKeepsCache, ServeKeepsRequests DEF IInv
<1>2. ASSUME UNCHANGED vars
      PROVE  IInv'
  BY <1>2 DEF vars, IInv, TypeOK, RoomIsReserved, Inserting, CacheMatchesHistory,
              MatchesHistory, RequestsMatchHistory, Snapshot
<1> QED
  BY <1>1, <1>2, ImportKeepsAll DEF Next

THEOREM Invariant == Spec => []IInv
BY InitInvariant, NextInvariant, PTL DEF Spec

\* Cache, requests and evidence always have the form the code relies on.
THEOREM TypeCorrect == Spec => []TypeOK
BY Invariant, PTL DEF IInv

\* However many threads count at once, the cache exceeds its capacity by
\* fewer entries than there are threads.
THEOREM CacheIsBounded == Spec => []CacheStaysBounded
<1>1. IInv => CacheStaysBounded
  <2> SUFFICES ASSUME IInv PROVE CacheStaysBounded
    OBVIOUS
  <2>1. Len(cache) \in Nat /\ Capacity \in Nat
    BY PagesAssumption DEF IInv, TypeOK
  <2> QED
    BY <2>1, InsertingCount, ThreadCount DEF IInv, RoomIsReserved, CacheStaysBounded
<1> QED
  BY <1>1, Invariant, PTL

\* A page is never shown with the counts of another revision.
THEOREM PagesAreConsistent == Spec => []PagesMatchTheirRevision
<1>1. IInv => PagesMatchTheirRevision
  <2> SUFFICES ASSUME IInv, NEW t \in Thread, page[t].at = "answered"
               PROVE  /\ page[t].counts = Counts(Snapshot(page[t]))
                      /\ page[t].counts[page[t].view] = page[t].total
    BY DEF PagesMatchTheirRevision, At
  <2>1. page[t].view \in View
    BY RequestType DEF IInv, Page
  <2>2. /\ page[t].total = Total(page[t].view, Snapshot(page[t]))
        /\ page[t].counts = Counts(Snapshot(page[t]))
    BY DEF IInv, RequestsMatchHistory
  <2> QED
    BY <2>1, <2>2 DEF Counts
<1> QED
  BY <1>1, Invariant, PTL

-----------------------------------------------------------------------------
(***************************************************************************)
(* Evictions under way.  EvictionsFailByInterference is not inductive.     *)
(* That a request fails only when disturbed rests on what it still knows   *)
(* while it is not: the size of the cache, then a key in it.  That the     *)
(* cache is not empty rests on the others: a thread that has found it full *)
(* may be overtaken by others that evict first, but each of them had found *)
(* it full as well, so it still holds all but the entries they can have    *)
(* taken.                                                                  *)
(***************************************************************************)

\* The threads that have found the cache full and are still to evict.
Evicting == {t \in Thread : page[t].at \in {"iterate", "oldest", "pop"}}

EvictionsAreCovered ==
  Evicting # {} => Len(cache) + Cardinality(Thread) >= Capacity + Cardinality(Evicting)

LEMMA EvictingCount ==
  /\ IsFiniteSet(Evicting)
  /\ Cardinality(Evicting) \in Nat
  /\ Cardinality(Evicting) <= Cardinality(Thread)
BY PagesAssumption, FS_Subset, FS_CardinalityType DEF Evicting

\* A thread that is done with its eviction, or fails it, was one of them.
LEMMA EvictingShrinks ==
  ASSUME NEW t \in Thread, t \in Evicting, page'[t].at \notin {"iterate", "oldest", "pop"},
         \A u \in Thread \ {t} : page'[u] = page[u]
  PROVE  Cardinality(Evicting') = Cardinality(Evicting) - 1
<1>1. Evicting' = Evicting \ {t}
  BY DEF Evicting
<1> QED
  BY <1>1, EvictingCount, FS_RemoveElement

LEMMA EvictingStays ==
  ASSUME NEW t \in Thread, \A u \in Thread \ {t} : page'[u] = page[u],
         page'[t].at \in {"iterate", "oldest", "pop"} <=> page[t].at \in {"iterate", "oldest", "pop"}
  PROVE  Evicting' = Evicting
BY DEF Evicting

LEMMA ServeKeepsCovered ==
  ASSUME TypeOK, EvictionsAreCovered, NEW t \in Thread, Serve(t)
  PROVE  EvictionsAreCovered'
<1>1. /\ cache \in Seq(Entry)
      /\ page \in [Thread -> Page \cup {Idle, Failed}]
      /\ \A u \in Thread \ {t} : page'[u] = page[u]
  BY OneThreadMoves DEF TypeOK
<1>2. /\ Len(cache) \in Nat
      /\ Cardinality(Evicting) \in Nat
      /\ Cardinality(Evicting) <= Cardinality(Thread)
      /\ Cardinality(Thread) \in Nat
      /\ Capacity \in Nat
  BY <1>1, EvictingCount, ThreadCount, PagesAssumption
<1>3. ASSUME page'[t].at \in {"iterate", "oldest", "pop"} <=> page[t].at \in {"iterate", "oldest", "pop"},
             Len(cache') \in Nat, Len(cache') >= Len(cache)
      PROVE  EvictionsAreCovered'
  BY <1>1, <1>2, <1>3, EvictingStays DEF EvictionsAreCovered
<1>4. ASSUME page[t].at \notin {"iterate", "oldest", "pop"}, page'[t].at \notin {"iterate", "oldest", "pop"},
             cache' = cache
      PROVE  EvictionsAreCovered'
  BY <1>2, <1>3, <1>4
<1>5. ASSUME NEW c \in Case, NEW view \in View, Begin(t, c, view)
      PROVE  EvictionsAreCovered'
  <2>1. page[t].at \notin {"iterate", "oldest", "pop"} /\ page'[t].at = "lookup" /\ cache' = cache
    BY <1>1, <1>5 DEF Begin
  <2> QED
    BY <1>4, <2>1
<1>6. CASE Hit(t)
  BY <1>1, <1>4, <1>6 DEF Hit, At
<1>7. CASE Miss(t)
  BY <1>1, <1>4, <1>7 DEF Miss, At
<1>8. CASE TestSize(t)
  <2>1. /\ page[t].at = "full" /\ cache' = cache
        /\ page'[t].at = IF Full THEN "iterate" ELSE "insert"
    BY <1>1, <1>8 DEF TestSize, At, Goes
  <2>2. CASE Full
    <3>1. IsFiniteSet(Thread) /\ Evicting' \subseteq Thread
      BY PagesAssumption DEF Evicting
    <3>2. Cardinality(Evicting') \in Nat /\ Cardinality(Evicting') <= Cardinality(Thread)
      BY <3>1, FS_Subset, FS_CardinalityType
    <3>3. Len(cache') >= Capacity
      BY <2>1, <2>2 DEF Full
    <3> QED
      BY <1>2, <2>1, <3>2, <3>3 DEF EvictionsAreCovered
  <2>3. CASE ~Full
    BY <1>4, <2>1, <2>3
  <2> QED
    BY <2>2, <2>3
<1>8a. CASE MakeIterator(t)
  BY <1>1, <1>2, <1>3, <1>8a DEF MakeIterator, At
<1>9. CASE ChooseOldest(t)
  BY <1>1, <1>2, <1>3, <1>9 DEF ChooseOldest, At
<1>10. CASE Evict(t)
  <2>1. page[t].at = "pop" /\ page'[t].at = "insert"
    BY <1>1, <1>10 DEF Evict, At, Goes
  <2>2. t \in Evicting /\ Cardinality(Evicting') = Cardinality(Evicting) - 1
    BY <1>1, <2>1, EvictingShrinks DEF Evicting
  <2>3. Len(cache') = Len(cache) - 1
    BY <1>1, <1>10, RemoveAtResult DEF Evict, Cached
  <2> QED
    BY <1>2, <2>2, <2>3 DEF EvictionsAreCovered
<1>11. CASE EvictTwice(t) \/ SizeChanged(t)
  <2>1. page[t].at \in {"oldest", "pop"} /\ page'[t] = Failed /\ cache' = cache
    BY <1>1, <1>11 DEF EvictTwice, SizeChanged, At
  <2>2. page'[t].at \notin {"iterate", "oldest", "pop"}
    BY <2>1 DEF Failed
  <2>3. t \in Evicting /\ Cardinality(Evicting') = Cardinality(Evicting) - 1
    BY <1>1, <2>1, <2>2, EvictingShrinks DEF Evicting
  <2> QED
    BY <1>2, <2>1, <2>3 DEF EvictionsAreCovered
<1>12. CASE Insert(t)
  <2>1. page[t].at = "insert" /\ page'[t].at = "answered"
    BY <1>1, <1>12 DEF Insert, At, Goes
  <2>2. Len(cache') \in {Len(cache), Len(cache) + 1}
    BY <1>1, <1>12 DEF Insert, Cached
  <2> QED
    BY <1>2, <1>3, <2>1, <2>2
<1> QED
  BY <1>5, <1>6, <1>7, <1>8, <1>8a, <1>9, <1>10, <1>11, <1>12 DEF Serve

\* While nobody else changes the keys, a thread that evicts has the size of
\* the cache, then a key of it; one that fails was disturbed.
Undisturbed ==
  \A t \in Thread :
    \/ t \in disturbed
    \/ /\ page[t].at = "oldest" => page[t].size = Len(cache)
       /\ page[t].at = "pop" => Cached(page[t].victim) # {}
       /\ page[t].at # "failed"

\* A step keeps this for the thread that takes it ...
LEMMA ServeKeepsOwn ==
  ASSUME TypeOK, Undisturbed, NEW t \in Thread, Serve(t)
  PROVE  \/ t \in disturbed'
         \/ /\ page'[t].at = "oldest" => page'[t].size = Len(cache')
            /\ page'[t].at = "pop" => Cached(page[t].victim)' # {}
            /\ page'[t].at # "failed"
<1> DEFINE Goal == \/ t \in disturbed'
                   \/ /\ page'[t].at = "oldest" => page'[t].size = Len(cache')
                      /\ page'[t].at = "pop" => Cached(page[t].victim)' # {}
                      /\ page'[t].at # "failed"
<1>1. /\ cache \in Seq(Entry)
      /\ page \in [Thread -> Page \cup {Idle, Failed}]
      /\ disturbed \subseteq Thread
  BY DEF TypeOK
<1>2. ASSUME page'[t].at \in {"lookup", "full", "iterate", "insert", "answered"}
      PROVE  Goal
  BY <1>2
<1>3. ASSUME NEW c \in Case, NEW view \in View, Begin(t, c, view)
      PROVE  Goal
  <2>1. page'[t].at = "lookup"
    BY <1>1, <1>3 DEF Begin
  <2> QED
    BY <1>2, <2>1
<1>4. ASSUME Hit(t) \/ Miss(t) \/ TestSize(t) \/ Evict(t) \/ Insert(t)
      PROVE  Goal
  <2>1. page[t] \in Page
    BY <1>1, <1>4 DEF Hit, Miss, TestSize, Evict, Insert, At, Idle, Failed
  <2>2. page'[t].at \in {"full", "iterate", "insert", "answered"}
    BY <1>1, <1>4, <2>1 DEF Hit, Miss, TestSize, Evict, Insert, Goes, Page
  <2> QED
    BY <1>2, <2>2
<1>5. ASSUME MakeIterator(t)
      PROVE  Goal
  <2>1. page[t] \in Page
    BY <1>1, <1>5 DEF MakeIterator, At, Idle, Failed
  <2>2. /\ page'[t] = [page[t] EXCEPT !.at = "oldest", !.size = Len(cache)]
        /\ cache' = cache
    BY <1>1, <1>5 DEF MakeIterator
  <2>3. page'[t].at = "oldest" /\ page'[t].size = Len(cache)
    BY <2>1, <2>2 DEF Page
  <2> QED
    BY <2>2, <2>3
<1>6. ASSUME ChooseOldest(t)
      PROVE  Goal
  <2>1. page[t] \in Page /\ cache # <<>> /\ cache' = cache
    BY <1>1, <1>6 DEF ChooseOldest, At, Idle, Failed
  <2>2. page'[t] = [page[t] EXCEPT !.at = "pop", !.victim = Head(cache).key]
    BY <1>1, <1>6 DEF ChooseOldest
  <2>3. page'[t].at = "pop" /\ page'[t].victim = Head(cache).key
    BY <2>1, <2>2 DEF Page
  <2>4. 1 \in DOMAIN cache /\ cache[1].key = Head(cache).key
    BY <1>1, <2>1
  <2>5. Cached(page[t].victim)' # {}
    BY <2>1, <2>3, <2>4 DEF Cached
  <2> QED
    BY <2>3, <2>5
<1>7. ASSUME SizeChanged(t) \/ EvictTwice(t)
      PROVE  Goal
  <2>1. /\ disturbed' = disturbed
        /\ page[t].at \in {"oldest", "pop"}
        /\ page[t].at = "oldest" => page[t].size # Len(cache)
        /\ page[t].at = "pop" => Cached(page[t].victim) = {}
    BY <1>7 DEF SizeChanged, EvictTwice, At
  <2> QED
    BY <2>1 DEF Undisturbed
<1> QED
  BY <1>3, <1>4, <1>5, <1>6, <1>7 DEF Serve

\* ... and for every other, whom it disturbs if it changes the keys.
LEMMA ServeKeepsUndisturbed ==
  ASSUME TypeOK, Undisturbed, NEW t \in Thread, Serve(t)
  PROVE  Undisturbed'
<1>1. cache \in Seq(Entry) /\ disturbed \subseteq Thread
  BY DEF TypeOK
<1>2. \A u \in Thread \ {t} : page'[u] = page[u]
  BY OneThreadMoves
<1>3. ASSUME NEW u \in Thread \ {t}
      PROVE  \/ u \in disturbed'
             \/ /\ page'[u].at = "oldest" => page'[u].size = Len(cache')
                /\ page'[u].at = "pop" => Cached(page[u].victim)' # {}
                /\ page'[u].at # "failed"
  <2>1. u \in disturbed => u \in disturbed'
    BY <1>3 DEF Serve, Begin, Hit, Miss, TestSize, MakeIterator, ChooseOldest,
                SizeChanged, Evict, EvictTwice, Insert
  <2>2. ASSUME cache' = cache
        PROVE  Cached(page[u].victim)' = Cached(page[u].victim)
    BY <1>2, <1>3, <2>2 DEF Cached
  <2>3. CASE cache' = cache
    BY <1>2, <1>3, <2>1, <2>2, <2>3 DEF Undisturbed
  <2>4. CASE disturbed' = (disturbed \ {t}) \cup OthersEvicting(t)
             \/ disturbed' = disturbed \cup OthersEvicting(t)
    <3>1. page[u].at \in {"iterate", "oldest", "pop"} => u \in disturbed'
      BY <1>3, <2>4 DEF OthersEvicting
    <3>2. page[u].at = "failed" => u \in disturbed
      BY <1>3 DEF Undisturbed
    <3> QED
      BY <1>2, <1>3, <2>1, <3>1, <3>2
  <2>5. ASSUME NEW entry, NEW k \in Cached(entry.key), cache' = [cache EXCEPT ![k] = entry]
        PROVE  \/ u \in disturbed'
               \/ /\ page'[u].at = "oldest" => page'[u].size = Len(cache')
                  /\ page'[u].at = "pop" => Cached(page[u].victim)' # {}
                  /\ page'[u].at # "failed"
    <3>1. Len(cache') = Len(cache) /\ DOMAIN cache' = DOMAIN cache
      BY <1>1, <2>5 DEF Cached
    <3>2. \A m \in DOMAIN cache : cache'[m].key = cache[m].key
      BY <1>1, <2>5 DEF Cached
    <3>3. Cached(page[u].victim)' = Cached(page[u].victim)
      BY <1>2, <1>3, <3>1, <3>2 DEF Cached
    <3> QED
      BY <1>2, <1>3, <2>1, <3>1, <3>3 DEF Undisturbed
  <2>6. CASE Insert(t)
    BY <2>4, <2>5, <2>6 DEF Insert
  <2>7. CASE Evict(t)
    BY <2>4, <2>7 DEF Evict
  <2> QED
    BY <2>3, <2>6, <2>7 DEF Serve, Begin, Hit, Miss, TestSize, MakeIterator,
       ChooseOldest, SizeChanged, EvictTwice
<1> QED
  BY <1>3, ServeKeepsOwn DEF Undisturbed

\* With a capacity of at least the number of threads (PagesAssumption; the code
\* has 128 and 40 threads), an eviction fails only when another request has
\* changed the keys of the cache since this one found it full, and next() never
\* meets an empty cache.
THEOREM EvictionsFailOnlyByOthers == Spec => []EvictionsFailByInterference
<1>1. Init => EvictionsAreCovered /\ Undisturbed
  <2> SUFFICES ASSUME Init PROVE EvictionsAreCovered /\ Undisturbed
    OBVIOUS
  <2>1. \A t \in Thread : page[t].at = "idle"
    BY DEF Init, Idle
  <2> QED
    BY <2>1 DEF EvictionsAreCovered, Undisturbed, Evicting
<1>2. IInv /\ EvictionsAreCovered /\ [Next]_vars => EvictionsAreCovered'
  <2> SUFFICES ASSUME IInv, EvictionsAreCovered, [Next]_vars
               PROVE  EvictionsAreCovered'
    OBVIOUS
  <2>1. ASSUME NEW t \in Thread, Serve(t)
        PROVE  EvictionsAreCovered'
    BY <2>1, ServeKeepsCovered DEF IInv
  <2>2. CASE UNCHANGED <<cache, page>>
    BY <2>2 DEF EvictionsAreCovered, Evicting
  <2> QED
    BY <2>1, <2>2 DEF Next, Import, vars
<1>3. IInv /\ Undisturbed /\ [Next]_vars => Undisturbed'
  <2> SUFFICES ASSUME IInv, Undisturbed, [Next]_vars
               PROVE  Undisturbed'
    OBVIOUS
  <2>1. ASSUME NEW t \in Thread, Serve(t)
        PROVE  Undisturbed'
    BY <2>1, ServeKeepsUndisturbed DEF IInv
  <2>2. CASE UNCHANGED <<cache, page, disturbed>>
    BY <2>2 DEF Undisturbed, Cached
  <2> QED
    BY <2>1, <2>2 DEF Next, Import, vars
<1>4. IInv /\ EvictionsAreCovered /\ Undisturbed => EvictionsFailByInterference
  <2>1. ASSUME IInv, EvictionsAreCovered, NEW t \in Thread, page[t].at = "oldest"
        PROVE  cache # <<>>
    <3>1. t \in Evicting
      BY <2>1 DEF Evicting
    <3>2. Cardinality(Evicting) >= 1
      <4>1. Cardinality(Evicting) # 0
        BY <3>1, EvictingCount, FS_EmptySet
      <4> QED
        BY <4>1, EvictingCount
    <3>3. Len(cache) \in Nat /\ Capacity \in Nat /\ Capacity >= Cardinality(Thread)
      BY <2>1, PagesAssumption DEF IInv, TypeOK
    <3>4. Len(cache) >= 1
      BY <2>1, <3>1, <3>2, <3>3, EvictingCount, ThreadCount DEF EvictionsAreCovered
    <3> QED
      BY <3>4
  <2> QED
    BY <2>1 DEF EvictionsFailByInterference, Undisturbed, At
<1> QED
  BY <1>1, <1>2, <1>3, <1>4, Invariant, PTL DEF Spec
=============================================================================
