--------------------------- MODULE CorrelationRules ---------------------------
(***************************************************************************)
(* The scoring rules of engine/correlation: what two normalised events say *)
(* of each other.  A rule returns a set of reasons.  A reason names the    *)
(* signal, its weight and the side it was found from: a signal looked up   *)
(* in both directions can count twice, as in the list the code builds.     *)
(*                                                                         *)
(* An event is a record; an absent field or section is None.  Times are    *)
(* whole seconds.  A path is a directory and a base name, both already     *)
(* folded as path_key folds them; a path without directory is a bare name. *)
(* A command line is the set of its tokens, each of them a path.           *)
(***************************************************************************)
EXTENDS Integers, FiniteSets, FiniteSetsExt

CONSTANT None    \* an absent field

NoDirectory == "."

Distance(x, y) == IF x >= y THEN x - y ELSE y - x

\* Both fields are present and agree, or are present and disagree.  An unknown
\* fact does neither.
Known(x, y) == x # None /\ x = y
Clash(x, y) == x # None /\ y # None /\ x # y

Extracted(e) == e.semantics = "extraction_time"
SameHost(l, r) == Known(l.host, r.host)
Within(l, r, seconds) == Distance(l.time, r.time) <= seconds

Reason(rule, score, side) == [rule |-> rule, score |-> score, side |-> side]
When(condition, rule, score) ==
    IF condition THEN {Reason(rule, score, "pair")} ELSE {}
WhenFrom(side, condition, rule, score) ==
    IF condition THEN {Reason(rule, score, side)} ELSE {}

\* A lookup that the code makes in both directions.
BothWays(Look(_, _, _), l, r) == Look("left", l, r) \cup Look("right", r, l)

-----------------------------------------------------------------------------
(* TemporalRule *)

TemporalReasons(l, r) ==
    LET gap == Distance(l.time, r.time)
        timed == ~Extracted(l) /\ ~Extracted(r)
    IN  UNION { When(timed /\ gap <= 2, "temporal_proximity", 30),
                When(timed /\ gap \in 3..5, "temporal_proximity", 25),
                When(timed /\ gap \in 6..30, "temporal_proximity", 15),
                When(timed /\ gap \in 31..60, "temporal_proximity", 5) }

-----------------------------------------------------------------------------
(* ProcessRule *)

ScopedSame(a, b) == Known(a.instance, b.instance) /\ a.pid = b.pid
ScopedParent(a, b) ==
    Known(a.instance, b.parentInstance) \/ Known(b.instance, a.parentInstance)

ComparableOnHost(l, r) == SameHost(l, r)    \* mutant: scopes are not looked at
\* Whether the two process records may be compared at all: identities scoped to
\* one memory image meet others only through a full creation match.
Comparable(l, r) ==
    LET a == l.process
        b == r.process
        bridge == /\ l.source # r.source
                  /\ SameHost(l, r)
                  /\ a.pid = b.pid
                  /\ Known(a.created, b.created)
    IN  IF a.instance # None \/ b.instance # None
        THEN ScopedSame(a, b) \/ ScopedParent(a, b) \/ bridge
        ELSE SameHost(l, r)

SameProcessReasons(l, r) ==
    LET a == l.process
        b == r.process
        lifetimes == a.created # None /\ b.created # None
        refuted == \/ Clash(a.created, b.created)
                   \/ /\ ~ScopedSame(a, b) /\ ~lifetimes
                      /\ ~Within(l, r, 60)
                   \/ Clash(a.path, b.path)
                   \/ Clash(a.name, b.name)
    IN  IF refuted THEN {}
        ELSE UNION { When(ScopedSame(a, b), "same_process_instance", 55),
                     When(~ScopedSame(a, b), "same_process_id", 35),
                     When(lifetimes, "same_process_creation", 20),
                     When(Known(a.name, b.name), "same_process_name", 5),
                     When(Known(a.path, b.path), "same_executable_path", 10),
                     When(a.command # {} /\ a.command = b.command,
                          "same_command_line", 10) }

\* Mutant: the parent may have started later.
IsParentByNumber(parentEvent, childEvent) ==
    LET parent == parentEvent.process
        child == childEvent.process
    IN  /\ child.ppid = parent.pid
        /\ \/ parent.created # None /\ child.created # None
           \/ Within(parentEvent, childEvent, 60)

IsParent(parentEvent, childEvent) ==
    LET parent == parentEvent.process
        child == childEvent.process
        Start(e) == IF e.process.created # None THEN e.process.created ELSE e.time
    IN  /\ child.ppid = parent.pid
        /\ Start(parentEvent) <= Start(childEvent)
        /\ \/ parent.created # None /\ child.created # None
           \/ Within(parentEvent, childEvent, 60)

ProcessReasons(l, r) ==
    IF l.process = None \/ r.process = None \/ ~Comparable(l, r) THEN {}
    ELSE LET a == l.process
             b == r.process
         IN  IF ScopedParent(a, b)
             THEN {Reason("parent_process_instance", 55, "pair")}
             ELSE IF a.pid = b.pid THEN SameProcessReasons(l, r)
             ELSE When(IsParent(l, r) \/ IsParent(r, l), "parent_process", 40)

-----------------------------------------------------------------------------
(* FileRule *)

Base(file) == IF file.path # None THEN file.path.base ELSE file.name
BarePath(name) == [dir |-> NoDirectory, base |-> name]
Tokens(e) == IF e.process = None THEN {} ELSE e.process.command

\* The digest of the event: that of its file, or that of its hash section.
Digest(e) == IF e.file # None /\ e.file.sha256 # None THEN e.file.sha256 ELSE e.hash

SameFileReasons(l, r) ==
    LET a == l.file
        b == r.file
        samePath == Known(a.path, b.path)
    IN  UNION { When(Known(Digest(l), Digest(r)), "same_sha256", 60),
                When(samePath, "same_file_path", 45),
                When(~samePath /\ Known(Base(a), Base(b)), "same_filename", 10) }

\* What the command line or the references of origin say of the file of target.
\* The base name of the launched program does not override another known path.
FileLookup(side, origin, target) ==
    IF target.file = None THEN {}
    ELSE LET path == target.file.path
             name == Base(target.file)
             named == name # None /\ BarePath(name) \in Tokens(origin)
             full == path # None /\ path \in Tokens(origin)
             launcher == /\ origin.process # None
                         /\ origin.process.path # None
                         /\ origin.process.path.base = name
                         /\ Clash(origin.process.path, path)
             listed == origin.file # None /\ path # None /\ path \in origin.file.references
         IN  UNION { WhenFrom(side, full, "command_line_file_path", 50),
                     WhenFrom(side, ~full /\ named /\ ~launcher,
                              "command_line_filename", 25),
                     WhenFrom(side, listed, "prefetch_reference", 45) }

FileReasons(l, r) ==
    LET both == l.file # None /\ r.file # None
        matches == (IF both THEN SameFileReasons(l, r) ELSE {})
                   \cup BothWays(FileLookup, l, r)
    IN  IF both /\ Clash(Digest(l), Digest(r)) THEN {}
        ELSE matches \cup When(/\ \E m \in matches : m.score >= 25
                               /\ l.ntfs \/ r.ntfs,
                               "ntfs_artifact_support", 5)

-----------------------------------------------------------------------------
(* NetworkRule *)

Client(net) == IF net.response THEN net.dst ELSE net.src
Ends(e) == IF e.network # None /\ e.network.end # None THEN e.network.end ELSE e.time
\* Mutant: trusts the order of the two events.
SeparationForward(l, r) == Max({0, r.time - Ends(l)})
\* The time between two recorded intervals, 0 when they overlap.
Separation(l, r) == Max({0, l.time - Ends(r), r.time - Ends(l)})

Complete(net) ==
    \A field \in {"src", "sport", "dst", "dport", "protocol"} : net[field] # None

SameTuple(a, b) ==
    /\ Complete(a) /\ Complete(b)
    /\ a.protocol = b.protocol
    /\ \/ /\ a.src = b.src /\ a.sport = b.sport
          /\ a.dst = b.dst /\ a.dport = b.dport
       \/ /\ a.src = b.dst /\ a.sport = b.dport
          /\ a.dst = b.src /\ a.dport = b.sport

SameEndpoint(l, r) ==
    LET a == l.network
        b == r.network
    IN  /\ ~SameTuple(a, b)
        /\ Known(a.dst, b.dst) /\ Known(a.dport, b.dport)
        /\ \A field \in {"protocol", "src", "sport"} : ~Clash(a[field], b[field])
        /\ SameHost(l, r)

SameClient(x, y, l, r) == IF x # None /\ y # None THEN x = y ELSE SameHost(l, r)

Resolved(side, dnsEvent, connection) ==
    LET dns == dnsEvent.network
        net == connection.network
        found == /\ dns.query # None
                 /\ net.dst \in dns.resolved
                 /\ SameClient(Client(dns), net.src, dnsEvent, connection)
                 /\ connection.time - dnsEvent.time \in 0..60
    IN  WhenFrom(side, found, "dns_resolved_destination", 40)
        \cup WhenFrom(side, found, "dns_preceded_connection", 10)

NetworkReasons(l, r) ==
    IF \/ Extracted(l) \/ Extracted(r)
       \/ l.network = None \/ r.network = None
       \/ Separation(l, r) > 60
    THEN {}
    ELSE LET a == l.network
             b == r.network
         IN  UNION { When(SameTuple(a, b), "same_socket_tuple", 60),
                     When(/\ SameTuple(a, b)
                          /\ a.end # None \/ b.end # None
                          /\ Separation(l, r) = 0,
                          "flow_temporal_overlap", 10),
                     When(SameEndpoint(l, r), "same_destination_endpoint", 40),
                     BothWays(Resolved, l, r),
                     When(/\ Known(a.query, b.query)
                          /\ SameClient(Client(a), Client(b), l, r)
                          /\ SameHost(l, r) \/ a.id = b.id,
                          "same_dns_query", 35) }

-----------------------------------------------------------------------------
(* ArtifactRule *)

SharedPath(l, r) == Known(l.file.path, r.file.path)

SharedFileReasons(l, r) ==
    LET a == l.file
        b == r.file
    IN  UNION { When(Known(a.mft, b.mft) /\ SameHost(l, r), "same_mft_reference", 55),
                When(/\ Known(a.object, b.object)
                     /\ Known(l.acquisition, r.acquisition), "same_file_object", 55),
                When(SharedPath(l, r) /\ (l.handle \/ r.handle),
                     "handle_file_reference", 10),
                When(SharedPath(l, r) /\ (l.module \/ r.module),
                     "dll_file_reference", 10),
                When(SharedPath(l, r) /\ (l.registry \/ r.registry),
                     "registry_file_reference", 10) }

\* A known path that contradicts the prefetch entry also ends the lookup in the
\* registry for this direction.
ProgramLookup(side, origin, target) ==
    IF origin.process = None THEN {}
    ELSE LET process == origin.process
             name == IF process.path # None THEN process.path.base ELSE process.name
             prefetched == target.prefetch # None /\ name = target.prefetch.executable
             paths == prefetched /\ process.path # None /\ target.prefetch.path # None
             agreed == paths /\ process.path = target.prefetch.path
         IN  UNION { WhenFrom(side, agreed, "prefetch_executable_path", 50),
                     WhenFrom(side, prefetched /\ ~paths /\ Within(origin, target, 5),
                              "prefetch_executable_name", 25),
                     WhenFrom(side, /\ ~paths \/ agreed
                                    /\ target.registry /\ target.file # None
                                    /\ Known(process.path, target.file.path),
                              "amcache_executable_path", 50) }

Domains(e) ==
    IF e.network = None THEN {}
    ELSE e.network.names \cup ({e.network.query} \ {None})

ArtifactReasons(l, r) ==
    LET both == l.file # None /\ r.file # None
        sni == /\ l.network # None /\ r.network # None
               /\ Domains(l) \cap Domains(r) # {}
               /\ l.network.tls \/ r.network.tls
               /\ Known(Client(l.network), Client(r.network))
               /\ Within(l, r, 60)
    IN  IF both /\ Clash(l.file.sha256, r.file.sha256) THEN {}
        ELSE UNION { IF both THEN SharedFileReasons(l, r) ELSE {},
                     BothWays(ProgramLookup, l, r),
                     When(sni, "tls_sni_domain", 40) }

-----------------------------------------------------------------------------
(* negative_reasons *)

\* Mutant: the recorded exit is not compared.
OutsideCreation(owner, observation) ==
    /\ owner.process # None /\ observation.process # None
    /\ owner.process.pid = observation.process.pid
    /\ ~Extracted(observation)
    /\ owner.process.created # None /\ observation.time < owner.process.created

\* The observation, of the same process number, lies outside the lifetime that
\* the other event records.
OutsideLifetime(owner, observation) ==
    /\ owner.process # None /\ observation.process # None
    /\ owner.process.pid = observation.process.pid
    /\ ~Extracted(observation)
    /\ \/ owner.process.exit # None /\ observation.time > owner.process.exit
       \/ owner.process.created # None /\ observation.time < owner.process.created

FarApart(l, r) ==
    Separation(l, r) > 60 /\ ~Known(Digest(l), Digest(r))

NegativeReasons(l, r) ==
    LET timed == ~Extracted(l) /\ ~Extracted(r)
    IN  UNION { When(OutsideLifetime(l, r) \/ OutsideLifetime(r, l),
                     "process_lifetime_conflict", -100),
                When(timed /\ (l.imprecise \/ r.imprecise),
                     "timestamp_precision_penalty", -10),
                When(timed /\ FarApart(l, r), "temporal_distance", -30) }

-----------------------------------------------------------------------------
(* The decision of CorrelationEngine.correlate on one pair *)

Anchors ==
    { "same_process_instance", "parent_process_instance", "same_process_id",
      "parent_process", "same_file_path", "same_sha256",
      "command_line_file_path", "command_line_filename", "prefetch_reference",
      "same_socket_tuple", "same_destination_endpoint",
      "dns_resolved_destination", "same_dns_query", "same_mft_reference",
      "same_file_object", "prefetch_executable_path",
      "prefetch_executable_name", "amcache_executable_path", "tls_sni_domain" }

\* Mutant: a recorded parent number counts as an identity over time.
LastingParents ==
    { "same_sha256", "same_process_instance", "parent_process_instance",
      "same_process_creation", "same_mft_reference", "same_file_object",
      "parent_process" }

\* Identities that survive a long time between the observations.
Lasting ==
    { "same_sha256", "same_process_instance", "parent_process_instance",
      "same_process_creation", "same_mft_reference", "same_file_object" }

HasRule(reasons, rules) == \E m \in reasons : m.rule \in rules

RuleReasons(l, r) ==
    UNION { TemporalReasons(l, r), ProcessReasons(l, r), FileReasons(l, r),
            NetworkReasons(l, r), ArtifactReasons(l, r) }

\* Pairs the engine passes over before it asks any rule.
Incompatible(l, r) ==
    \/ Clash(l.host, r.host)
    \/ /\ l.process # None /\ r.process # None
       /\ l.process.pid = r.process.pid
       /\ Clash(l.process.created, r.process.created)

Corroboration(l, r, reasons) ==
    When(/\ l.source # r.source
         /\ l.typed \/ r.typed
         /\ \E m \in reasons : m.rule \in Anchors /\ m.score >= 35,
         "cross_source_corroboration", 10)

\* The reasons kept for the pair, {} when the pair is passed over.
KeptReasons(l, r) ==
    LET reasons == RuleReasons(l, r)
        negatives == NegativeReasons(l, r)
    IN  IF \/ Incompatible(l, r)
           \/ ~HasRule(reasons, Anchors)
           \/ HasRule(negatives, {"process_lifetime_conflict"})
           \/ HasRule(negatives, {"temporal_distance"}) /\ ~HasRule(reasons, Lasting)
        THEN {}
        ELSE UNION {reasons, Corroboration(l, r, reasons), negatives}

RawScore(reasons) == MapThenSumSet(LAMBDA m : m.score, reasons)
ScoreUnbounded(reasons) == Max({0, RawScore(reasons)})    \* mutant: no upper bound
Score(reasons) == Max({0, Min({100, RawScore(reasons)})})
=============================================================================
