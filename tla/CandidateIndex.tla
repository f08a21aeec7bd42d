---------------------------- MODULE CandidateIndex ----------------------------
(***************************************************************************)
(* EventIndex (engine/correlation/index.py): which pairs of events the     *)
(* engine looks at, and the engine's pass over them.  Every event is       *)
(* entered under its identities and looked up under others; an identity is *)
(* a tuple that starts with its kind.  The index exists to avoid scoring   *)
(* all pairs, and must not lose one the rules would accept.                *)
(***************************************************************************)
EXTENDS CorrelationRules, Sequences

CONSTANTS Families,      \* sets of cases, each a sequence of events
          Thresholds     \* the values of min_score

VARIABLES events, minScore, phase, todo, results
vars == <<events, minScore, phase, todo, results>>

-----------------------------------------------------------------------------
(* identities *)

If(condition, identities) == IF condition THEN identities ELSE {}

ProcessEntries(e) ==
    IF e.process = None THEN {}
    ELSE LET p == e.process
         IN  UNION { {<<"pid", e.host, p.pid>>},
                     If(p.created # None,
                        { <<"parent_pid", e.host, p.pid>>,
                          <<"lifetime", e.host, p.pid, p.created>> }),
                     If(p.instance # None, {<<"instance", p.instance>>}),
                     If(p.name # None, {<<"process_name", p.name>>}),
                     If(p.path # None, {<<"executable", p.path>>}) }

ProcessQueries(e) ==
    IF e.process = None THEN {}
    ELSE LET p == e.process
         IN  UNION { If(p.ppid # None,
                        { <<"pid", e.host, p.ppid>>, <<"parent_pid", e.host, p.ppid>> }),
                     If(p.parentInstance # None, {<<"instance", p.parentInstance>>}),
                     If(p.path # None, {<<"registry_path", p.path>>}),
                     {<<"path", t>> : t \in {x \in p.command : x.dir # NoDirectory}},
                     {<<"filename", t.base>> : t \in {x \in p.command : x.dir = NoDirectory}} }

FileEntries(e) ==
    IF e.file = None THEN {}
    ELSE LET f == e.file
         IN  UNION { If(f.path # None, {<<"path", f.path>>}),
                     If(f.path # None /\ e.registry, {<<"registry_path", f.path>>}),
                     If(Base(f) # None, {<<"filename", Base(f)>>}),
                     If(f.sha256 # None, {<<"hash", f.sha256>>}),
                     If(f.mft # None, {<<"mft", e.host, f.mft>>}),
                     If(f.object # None /\ e.acquisition # None,
                        {<<"file_object", e.acquisition, f.object>>}) }

FileQueries(e) ==
    IF e.file = None THEN {}
    ELSE {<<"path", p>> : p \in e.file.references}
         \cup If(e.registry /\ e.file.path # None, {<<"executable", e.file.path>>})

PrefetchQueries(e) ==
    IF e.prefetch = None THEN {}
    ELSE {<<"process_name", e.prefetch.executable>>}
         \cup If(e.prefetch.path # None, {<<"executable", e.prefetch.path>>})

NetworkEntries(e) ==
    IF e.network = None THEN {}
    ELSE LET n == e.network
             named == n.query # None /\ e.host # None
             routed == n.dst # None
         IN  UNION {
               If(Complete(n), {<<"tuple", n.protocol, {<<n.src, n.sport>>, <<n.dst, n.dport>>}>>}),
               If(routed /\ n.dport # None,
                  {<<IF Complete(n) THEN "endpoint" ELSE "partial_endpoint",
                     e.host, n.dst, n.dport>>}),
               If(routed, {<<"destination", n.src, n.dst>>}),
               If(routed /\ e.host # None, {<<"destination_host", e.host, n.dst>>}),
               If(routed /\ e.host # None /\ n.src = None,
                  {<<"destination_missing", e.host, n.dst>>}),
               {<<"domain", Client(n), d>> : d \in Domains(e)},
               If(named, {<<"domain_host", e.host, d>> : d \in Domains(e)}),
               If(named /\ Client(n) = None,
                  {<<"domain_missing", e.host, d>> : d \in Domains(e)}) }

NetworkQueries(e) ==
    IF e.network = None THEN {}
    ELSE LET n == e.network
             unknown == Client(n) = None
         IN  UNION {
               If(n.dst # None /\ n.dport # None,
                  {<<"partial_endpoint", e.host, n.dst, n.dport>>}),
               If(n.dst # None /\ n.dport # None /\ ~Complete(n),
                  {<<"endpoint", e.host, n.dst, n.dport>>}),
               {<<"destination", Client(n), ip>> : ip \in n.resolved},
               If(e.host # None,
                  {<<IF unknown THEN "destination_host" ELSE "destination_missing",
                     e.host, ip>> : ip \in n.resolved}),
               If(n.query # None /\ e.host # None,
                  {<<IF unknown THEN "domain_host" ELSE "domain_missing", e.host, d>> :
                      d \in Domains(e)}) }

Entries(e) ==
    UNION { ProcessEntries(e), FileEntries(e), NetworkEntries(e),
            If(e.hash # None, {<<"hash", e.hash>>}) }

\* The kinds of identity under which an event also looks for its equals.
Reflexive == {"pid", "lifetime", "instance", "path", "hash", "mft",
              "file_object", "tuple", "domain"}

Queries(e) ==
    UNION { ProcessQueries(e), FileQueries(e), PrefetchQueries(e), NetworkQueries(e),
            {entry \in Entries(e) : entry[1] \in Reflexive} }

-----------------------------------------------------------------------------
(* EventIndex.pairs *)

\* Identities looked up over all times, and those looked up over all times when
\* one of the two events only has the time of its extraction.
Timeless == {"hash", "instance", "lifetime", "mft", "file_object", "parent_pid", "tuple"}
Undated == {"path", "filename", "pid", "executable", "registry_path"}

Bucket(e) == e.time \div 60

\* Mutant: only the minute of the seeker is read.
FindsInMinute(seeker, target) ==
    \E key \in Queries(seeker) \cap Entries(target) :
        \/ key[1] \in Timeless
        \/ key[1] \in Undated /\ (Extracted(seeker) \/ Extracted(target))
        \/ Bucket(target) = Bucket(seeker)

Finds(seeker, target) ==
    \E key \in Queries(seeker) \cap Entries(target) :
        \/ key[1] \in Timeless
        \/ key[1] \in Undated /\ (Extracted(seeker) \/ Extracted(target))
        \/ Bucket(target) \in (Bucket(seeker) - 1)..(Bucket(seeker) + 1)

AllPairs == {p \in (DOMAIN events) \X (DOMAIN events) : p[1] < p[2]}
Proposed(p) == \/ Finds(events[p[1]], events[p[2]])
               \/ Finds(events[p[2]], events[p[1]])

-----------------------------------------------------------------------------
(* CorrelationEngine.correlate *)

\* A case of any number of events in time order.
Init ==
    /\ \E cases \in Families : events \in cases
    /\ minScore \in Thresholds
    /\ phase = "index"
    /\ todo = {}
    /\ results = {}

BuildIndex ==
    /\ phase = "index"
    /\ phase' = "score"
    /\ todo' = {p \in AllPairs : Proposed(p)}
    /\ UNCHANGED <<events, minScore, results>>

\* The pairs are taken in their sorted order.
ScorePair ==
    /\ phase = "score" /\ todo # {}
    /\ LET p == CHOOSE q \in todo :
                   \A o \in todo : q[1] < o[1] \/ (q[1] = o[1] /\ q[2] <= o[2])
           kept == KeptReasons(events[p[1]], events[p[2]])
       IN  /\ todo' = todo \ {p}
           /\ results' = results \cup
                 If(kept # {} /\ Score(kept) >= minScore,
                    {[pair |-> p, score |-> Score(kept), reasons |-> kept]})
    /\ UNCHANGED <<events, minScore, phase>>

Return ==
    /\ phase = "score" /\ todo = {}
    /\ phase' = "done"
    /\ UNCHANGED <<events, minScore, todo, results>>

Next == BuildIndex \/ ScorePair \/ Return

Spec == Init /\ [][Next]_vars

-----------------------------------------------------------------------------
(* Properties *)

\* min_score, a phase of the pass, pairs left to score and the edges found.
TypeOK ==
    /\ minScore \in 1..100
    /\ phase \in {"index", "score", "done"}
    /\ todo \subseteq AllPairs
    /\ \A r \in results : r.pair \in AllPairs /\ r.score \in minScore..100

\* Scoring every pair of the case, without the index, accepts this one.
AcceptedByRules(p) ==
    LET kept == KeptReasons(events[p[1]], events[p[2]])
    IN  kept # {} /\ Score(kept) >= minScore

Missed == {p \in AllPairs : AcceptedByRules(p) /\ \A r \in results : r.pair # p}

\* An endpoint is only looked up in the neighbouring minutes, also when a
\* recorded flow to it lasts longer.
EndpointDuringFlow(l, r) ==
    /\ l.network # None /\ r.network # None
    /\ SameEndpoint(l, r)
    /\ Separation(l, r) < Distance(l.time, r.time)

\* A program is entered under its recorded name, the rule compares the base name
\* of its path.
NamedOtherwise(program, run) ==
    /\ program.process # None /\ run.prefetch # None
    /\ program.process.path # None
    /\ program.process.path.base = run.prefetch.executable
    /\ program.process.name # run.prefetch.executable

\* Flows of a capture are the only events of the adapters that have an end, and they
\* record nothing but packets (_flow, pcap.py).
FlowAlone(e) ==
    e.network # None /\ e.network.end # None =>
      e.process = None /\ e.file = None /\ e.prefetch = None /\ e.network.query = None

\* A flow that records more than packets, as an event that a client posts may, is
\* only looked up in the minutes around its start whatever else it records.
SharedDuringFlow(l, r) ==
    /\ ~FlowAlone(l) \/ ~FlowAlone(r)
    /\ Separation(l, r) < Distance(l.time, r.time)

\* Whatever the index loses has one of these three shapes.
MissedPairsAreKnown ==
    phase = "done" =>
        \A p \in Missed :
            LET l == events[p[1]]
                r == events[p[2]]
            IN  \/ EndpointDuringFlow(l, r) \/ SharedDuringFlow(l, r)
                \/ NamedOtherwise(l, r) \/ NamedOtherwise(r, l)

\* "Pure, symmetric rule" (base.py): the order in which two events reach the
\* rules, which their times and identifiers decide, changes no score.
RulesAreSymmetric ==
    \A p \in If(phase = "done", AllPairs) :
        LET l == events[p[1]]
            r == events[p[2]]
        IN  RawScore(KeptReasons(l, r)) = RawScore(KeptReasons(r, l))

\* Events recorded more than a minute apart are only joined when they share a
\* fact that identifies a thing over time: content, process instance or
\* creation, file record, file object.
LongGapsNeedIdentity ==
    \A e \in results :
        LET l == events[e.pair[1]]
            r == events[e.pair[2]]
            processes == l.process # None /\ r.process # None
            files == l.file # None /\ r.file # None
        IN  \/ Extracted(l) \/ Extracted(r) \/ Separation(l, r) <= 60
            \/ Known(Digest(l), Digest(r))
            \/ processes /\ \/ ScopedSame(l.process, r.process)
                            \/ ScopedParent(l.process, r.process)
                            \/ Known(l.process.created, r.process.created)
            \/ files /\ \/ Known(l.file.mft, r.file.mft)
                        \/ Known(l.file.object, r.file.object)

\* No edge joins two observations of a process number of which one happened
\* before the creation or after the exit that the other records, nor known
\* different hosts, whatever else they share.
LifetimesAreRespected ==
    \A e \in results :
        LET l == events[e.pair[1]]
            r == events[e.pair[2]]
            Alive(p, at) == /\ p.created # None => p.created <= at
                            /\ p.exit # None => at <= p.exit
        IN  /\ ~Clash(l.host, r.host)
            /\ l.process # None /\ r.process # None =>
                 \/ l.process.pid # r.process.pid
                 \/ /\ ~Clash(l.process.created, r.process.created)
                    /\ Extracted(r) \/ Alive(l.process, r.time)
                    /\ Extracted(l) \/ Alive(r.process, l.time)

\* The edges of the engine: their scores are in range, do not depend on the order
\* of two events, and rest on identities where times are apart (correlate).
EdgesAreSound ==
    TypeOK /\ RulesAreSymmetric /\ LongGapsNeedIdentity /\ LifetimesAreRespected
=============================================================================
