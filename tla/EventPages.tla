----------------------------- MODULE EventPages -----------------------------
(***************************************************************************)
(* The evidence pages and the counts shown beside them.  Counting walks    *)
(* all the evidence of a case, so the counts are kept in COUNTS_CACHE, a   *)
(* dictionary that all request threads share without a lock.  A page is    *)
(* read in one transaction and sees one revision of its case.              *)
(*                                                                         *)
(* Threads are switched between any two accesses to the dictionary: the    *)
(* lookup, the test of its size, the iterator over it, the first key that  *)
(* iterator gives, the removal of the key and the insertion are steps of   *)
(* their own.                                                              *)
(***************************************************************************)
EXTENDS Integers, FiniteSets, SequencesExt

CONSTANTS
  Thread,       \* request threads
  Case,         \* cases of the repository
  Event,        \* normalized events
  View,         \* keys of VIEW_FILTERS
  Processes,    \* the view with a fallback for legacy imports
  Filter,       \* the events each view's filter accepts
  Observation,  \* the process observations among the events
  Capacity,     \* entries the cache is meant to hold (128)
  MaxRevision   \* bound: imports per case

ASSUME PagesAssumption ==
  /\ IsFiniteSet(Thread)
  /\ IsFiniteSet(Event)
  /\ Processes \in View
  /\ Filter \in [View -> SUBSET Event]
  /\ Observation \subseteq Event
  /\ Capacity \in Nat
  /\ Capacity >= Cardinality(Thread)
  /\ Capacity > 0
  /\ MaxRevision \in Nat

VARIABLES
  history,  \* the evidence of each case at every revision, 0 first
  cache,    \* COUNTS_CACHE, oldest entry first
  page,     \* the request each thread is in
  disturbed \* history: the requests that are evicting, or failed to, and saw
            \* another one change the keys of the cache since they found it full

vars == <<history, cache, page, disturbed>>

Key == [case : Case, revision : Nat]

\* Mutant: the revision is not part of the key.
KeyWithoutRevision(request) == [case |-> request.case, revision |-> 0]

\* A dictionary key holds the repository's path as well; there is one here.
KeyOf(request) == [case |-> request.case, revision |-> request.revision]

\* Process observations hide legacy process rows once there are any.
Matching(view, events) ==
  IF view = Processes /\ events \cap Observation # {}
  THEN events \cap Filter[view] \cap Observation
  ELSE events \cap Filter[view]

Total(view, events) == Cardinality(Matching(view, events))

Counts(events) == [view \in View |-> Total(view, events)]

\* The evidence a request's transaction sees.
Snapshot(request) == history[request.case][request.revision + 1]

Entry == [key : Key, counts : [View -> Nat]]

\* size is the size of the cache its iterator has noted, 0 without one.
Page == [at : {"lookup", "full", "iterate", "oldest", "pop", "insert", "answered"},
         case : Case, revision : Nat, view : View, total : Nat,
         counts : [View -> Nat], size : Nat, victim : Key]

Idle == [at |-> "idle"]

\* The request ended with an exception.
Failed == [at |-> "failed"]

Init ==
  /\ history = [c \in Case |-> <<{}>>]
  /\ cache = <<>>
  /\ page = [t \in Thread |-> Idle]
  /\ disturbed = {}

-----------------------------------------------------------------------------
\* add_events: new evidence, a new revision.
Import(c) ==
  /\ Len(history[c]) <= MaxRevision
  /\ \E new \in (SUBSET (Event \ Last(history[c]))) \ {{}} :
       history' = [history EXCEPT ![c] = Append(@, Last(@) \cup new)]
  /\ UNCHANGED <<cache, page, disturbed>>

\* The transaction fixes the revision; total and rows are read under it.
\* There are no counts, no iterator and no victim yet.
Begin(t, c, view) ==
  /\ page[t].at \in {"idle", "answered", "failed"}
  /\ LET request == [case |-> c, revision |-> Len(history[c]) - 1]
     IN  page' = [page EXCEPT ![t] =
                    [at |-> "lookup", case |-> c, revision |-> request.revision,
                     view |-> view, total |-> Total(view, Snapshot(request)),
                     counts |-> [v \in View |-> 0], size |-> 0,
                     victim |-> KeyOf(request)]]
  /\ disturbed' = disturbed \ {t}
  /\ UNCHANGED <<history, cache>>

At(t, place) == page[t].at = place

Goes(t, place) == page' = [page EXCEPT ![t].at = place]

Cached(key) == {k \in DOMAIN cache : cache[k].key = key}

\* COUNTS_CACHE.get: the cached counts, or the counts of the snapshot.
Hit(t) ==
  /\ At(t, "lookup")
  /\ \E k \in Cached(KeyOf(page[t])) :
       page' = [page EXCEPT ![t].at = "answered", ![t].counts = cache[k].counts]
  /\ UNCHANGED <<history, cache, disturbed>>

Miss(t) ==
  /\ At(t, "lookup")
  /\ Cached(KeyOf(page[t])) = {}
  /\ page' = [page EXCEPT ![t].at = "full", ![t].counts = Counts(Snapshot(page[t]))]
  /\ UNCHANGED <<history, cache, disturbed>>

\* Mutant: one entry too late.
OverFull == Len(cache) > Capacity

\* Mutant: the size is not tested.
AlwaysFull == TRUE

Full == Len(cache) >= Capacity

TestSize(t) ==
  /\ At(t, "full")
  /\ Goes(t, IF Full THEN "iterate" ELSE "insert")
  /\ UNCHANGED <<history, cache, disturbed>>

\* iter(COUNTS_CACHE): an iterator notes the size of its dictionary ...
MakeIterator(t) ==
  /\ At(t, "iterate")
  /\ page' = [page EXCEPT ![t].at = "oldest", ![t].size = Len(cache)]
  /\ UNCHANGED <<history, cache, disturbed>>

\* Mutant: the request's own key is taken for the oldest.
ChooseOwn(t) ==
  /\ At(t, "oldest")
  /\ Len(cache) = page[t].size
  /\ page' = [page EXCEPT ![t].at = "pop", ![t].victim = KeyOf(page[t])]
  /\ UNCHANGED <<history, cache, disturbed>>

\* ... and next() gives the first key there is now, if the size is still that
\* one (never an empty dictionary's: see EvictionsFailByInterference) ...
ChooseOldest(t) ==
  /\ At(t, "oldest")
  /\ Len(cache) = page[t].size
  /\ cache # <<>>
  /\ page' = [page EXCEPT ![t].at = "pop", ![t].victim = Head(cache).key]
  /\ UNCHANGED <<history, cache, disturbed>>

\* ... or else RuntimeError, dictionary changed size during iteration: no
\* route handles it and the request fails.
SizeChanged(t) ==
  /\ At(t, "oldest")
  /\ Len(cache) # page[t].size
  /\ page' = [page EXCEPT ![t] = Failed]
  /\ UNCHANGED <<history, cache, disturbed>>

\* The requests other than t's that are evicting.
OthersEvicting(t) == {u \in Thread \ {t} : page[u].at \in {"iterate", "oldest", "pop"}}

Evict(t) ==
  /\ At(t, "pop")
  /\ \E k \in Cached(page[t].victim) : cache' = RemoveAt(cache, k)
  /\ page' = [page EXCEPT ![t].at = "insert", ![t].size = 0]
  /\ disturbed' = (disturbed \ {t}) \cup OthersEvicting(t)
  /\ UNCHANGED history

\* The key is no longer there: KeyError, and the request fails.
EvictTwice(t) ==
  /\ At(t, "pop")
  /\ Cached(page[t].victim) = {}
  /\ page' = [page EXCEPT ![t] = Failed]
  /\ UNCHANGED <<history, cache, disturbed>>

\* A key another thread has entered meanwhile keeps its place.
Insert(t) ==
  /\ At(t, "insert")
  /\ LET entry == [key |-> KeyOf(page[t]), counts |-> page[t].counts]
     IN  \/ /\ Cached(entry.key) = {}
            /\ cache' = Append(cache, entry)
            /\ disturbed' = disturbed \cup OthersEvicting(t)
         \/ /\ \E k \in Cached(entry.key) : cache' = [cache EXCEPT ![k] = entry]
            /\ UNCHANGED disturbed
  /\ Goes(t, "answered")
  /\ UNCHANGED history

Serve(t) ==
  \/ \E c \in Case, view \in View : Begin(t, c, view)
  \/ Hit(t)
  \/ Miss(t)
  \/ TestSize(t)
  \/ MakeIterator(t)
  \/ ChooseOldest(t)
  \/ SizeChanged(t)
  \/ Evict(t)
  \/ EvictTwice(t)
  \/ Insert(t)

Next ==
  \/ \E c \in Case : Import(c)
  \/ \E t \in Thread : Serve(t)

Spec == Init /\ [][Next]_vars

-----------------------------------------------------------------------------
(***************************************************************************)
(* Properties                                                              *)
(***************************************************************************)

\* Every variable has its type, and every request a revision that exists.
TypeOK ==
  /\ history \in [Case -> Seq(SUBSET Event) \ {<<>>}]
  /\ cache \in Seq(Entry)
  /\ page \in [Thread -> Page \cup {Idle, Failed}]
  /\ \A t \in Thread : page[t].at \notin {"idle", "failed"} =>
                          page[t].revision < Len(history[page[t].case])
  /\ disturbed \subseteq Thread

\* The counts beside a page are those of the revision it shows, whoever
\* counted them, and agree with the page's own total (event_page).
PagesMatchTheirRevision ==
  \A t \in Thread :
    At(t, "answered") =>
      /\ page[t].counts = Counts(Snapshot(page[t]))
      /\ page[t].counts[page[t].view] = page[t].total

\* Without a lock the cache may exceed its capacity, but never by more than
\* the threads that can be past the test of its size at once.
CacheStaysBounded == Len(cache) <= Capacity + Cardinality(Thread) - 1

\* A request fails to evict only when another one has changed the keys of the
\* cache since it tested its size: alone it always finds a first key and that
\* key still there.  And however many evict at once, none of them empties the
\* cache under one that has found it full: next() meets other sizes, but
\* always a key, and raises no StopIteration.
EvictionsFailByInterference ==
  \A t \in Thread :
    /\ At(t, "failed") => t \in disturbed
    /\ At(t, "oldest") => cache # <<>>
=============================================================================
