------------------------------ MODULE GraphBuild ------------------------------
(***************************************************************************)
(* build_graph and extend_graph (engine/graph): the entity graph of a case *)
(* from its events and the correlations of its pairs.  A node is named by  *)
(* a tuple, its kind first; an edge joins two nodes and names the events   *)
(* it rests on.  The OBSERVED edge from an event to each node that lists   *)
(* it is left out, being the list itself.                                  *)
(*                                                                         *)
(* An event is that of CorrelationRules with more fields: its id, type and *)
(* user, the registry_key attribute (key), the sections loaded (module),   *)
(* region, service, artifact (registry), driver and callback, whether the  *)
(* row is of dumpfiles (dumped), whether its command line holds -file      *)
(* (script), whether its socket is LISTENING, and its TLS server.          *)
(***************************************************************************)
EXTENDS CorrelationRules, Sequences

CONSTANTS Cases,        \* sequences of events
          MinScore,     \* the threshold of the analysis
          AnyAddress    \* 0.0.0.0

VARIABLES events, correlations, graph
vars == <<events, correlations, graph>>

Listed == {events[i] : i \in DOMAIN events}
Only(condition, set) == IF condition THEN set ELSE {}
NodeIf(x, Name(_)) == IF x = None THEN {} ELSE {Name(x)}

-----------------------------------------------------------------------------
(* The entities an event observes. *)

EventNode(e) == <<"Event", e.id>>
Scope(e) == IF e.host # None THEN <<"host", e.host>> ELSE <<"unknown", e.id>>
\* extend_graph scopes by the acquisition as well, and the two never agree on an
\* event without a host.
ArtifactScope(e) ==
    CASE e.host # None -> <<"host", e.host>>
      [] e.host = None /\ e.acquisition # None -> <<"acquisition", e.acquisition>>
      [] OTHER -> <<"event", e.id>>

FileNode(scope, path, sha256) == <<"File", scope, path, sha256>>
IpNode(ip) == <<"IP", ip>>
DomainNode(name) == <<"Domain", name>>

ProcessOf(e) ==
    IF e.process = None THEN None
    ELSE LET p == e.process
         IN  IF p.instance # None THEN <<"Process", p.instance>>
             ELSE <<"Process", Scope(e), p.pid,
                    IF p.created # None THEN <<"created", p.created>> ELSE EventNode(e)>>
FileOf(e) ==
    CASE e.file = None -> None
      [] e.file # None /\ e.file.path = None -> <<"File", EventNode(e)>>
      [] OTHER -> FileNode(Scope(e), e.file.path, e.file.sha256)
QueryOf(e) ==
    IF e.network = None \/ e.network.query = None THEN None ELSE DomainNode(e.network.query)
Addresses(e) ==
    IF e.network = None THEN {} ELSE e.network.resolved \cup ({e.network.dst} \ {None})

CoreNodes(e) ==
    UNION { {EventNode(e)},
            {ProcessOf(e), FileOf(e), QueryOf(e)} \ {None},
            {IpNode(ip) : ip \in Addresses(e)},
            NodeIf(e.user, LAMBDA u : <<"User", Scope(e), u>>),
            NodeIf(e.key, LAMBDA k : <<"Registry", Scope(e), k>>) }

\* observed[event, IP]: of the nodes that list the event the one entered last.
\* Nodes are entered in the order of the events, those of one event by address.
AddressOf(es, e) ==
    IF Addresses(e) = {} THEN None
    ELSE LET First(ip) == Min({i \in DOMAIN es : ip \in Addresses(es[i])})
             last == Max({First(ip) : ip \in Addresses(e)})
         IN  IpNode(Max({ip \in Addresses(e) : First(ip) = last}))

-----------------------------------------------------------------------------
(* The relations an event records.  A link is kept when both ends are known  *)
(* and differ; score 0 is an edge without a reason of its own.               *)

Link(source, target, kind, support, score) ==
    Only(source # None /\ target # None /\ source # target,
         {[source |-> source, target |-> target, kind |-> kind,
           support |-> support, score |-> score]})
Typed(e, source, target, kind) == Link(source, target, kind, {e.id}, 100)
FromMain(e, source, target, kind) == Link(source, target, kind, {e.id}, 0)

CoreLinks(e) ==
    LET net == e.network
        answers == Only(net # None, e.network.resolved)
        remote == Only(/\ net # None
                       /\ e.type \in {"network_connection", "socket"}
                       /\ ~net.listening /\ net.dst # AnyAddress,
                       {net.dst} \ {None})
    IN  UNION { Only(e.type = "module_load", FromMain(e, ProcessOf(e), FileOf(e), "LOADED")),
                UNION {FromMain(e, QueryOf(e), IpNode(ip), "RESOLVED") : ip \in answers},
                UNION {FromMain(e, ProcessOf(e), IpNode(ip), "CONNECTED_TO") : ip \in remote} }

ActionKind(type) ==
    CASE type = "file_created" -> "CREATED"
      [] type = "file_modified" -> "MODIFIED"
      [] type = "file_deleted" -> "DELETED"
      [] OTHER -> None

RecordNode(e) ==
    IF e.file = None \/ e.file.mft = None THEN None
    ELSE <<"MFTRecord", ArtifactScope(e), e.file.mft>>
ObjectNode(e) ==
    IF e.file = None \/ e.file.object = None THEN None
    ELSE <<"FileObject", IF e.acquisition = None THEN EventNode(e) ELSE e.acquisition,
           e.file.object>>
Referenced(e) ==
    Only(e.file # None, {FileNode(ArtifactScope(e), p, None) : p \in e.file.references})

FileLinks(e) ==
    LET file == FileOf(e)
        process == ProcessOf(e)
        object == ObjectNode(e)
        actor == IF process # None THEN process ELSE EventNode(e)
    IN  UNION { Typed(e, RecordNode(e), file, "REFERENCES"),
                Typed(e, process, object, "REFERENCES"),
                Typed(e, object, file, "REFERENCES"),
                Only(e.dumped, Typed(e, file, object, "EXTRACTED_FROM")),
                Only(e.file # None /\ e.handle, Typed(e, process, file, "OPENED")),
                Only(ActionKind(e.type) # None, Typed(e, actor, file, ActionKind(e.type))),
                UNION {Typed(e, file, r, "REFERENCES") : r \in Referenced(e)} }

\* A module of an event without a file is identified by its name alone.
ModuleNode(e) ==
    IF e.loaded = None THEN None
    ELSE LET m == e.loaded
         IN  <<IF e.process # None THEN "DLL" ELSE "Module", ArtifactScope(e),
               CASE e.file = None -> <<"name", m.name>>
                 [] e.file # None /\ m.path # None -> <<"path", m.path>>
                 [] OTHER -> <<"path", e.file.path>>,
               m.base>>
RegionNode(e) ==
    IF e.region = None THEN None
    ELSE <<"MemoryRegion", IF e.process # None THEN ProcessOf(e) ELSE EventNode(e), e.region>>
ServiceNode(e) ==
    IF e.service = None THEN None ELSE <<"Service", ArtifactScope(e), e.service.name>>
\* The one program of a service's command line, and its library.
ServiceFiles(e) ==
    Only(e.service # None,
         LET s == e.service
         IN  Only(Cardinality(s.programs) = 1,
                  {FileNode(ArtifactScope(e), p, None) : p \in s.programs})
             \cup NodeIf(s.dll, LAMBDA d : <<"DLL", ArtifactScope(e), d>>))
RegistryNode(e) ==
    IF e.artifact = None THEN None
    ELSE <<"RegistryArtifact", ArtifactScope(e), e.artifact, e.id>>
DriverNode(e) ==
    IF e.driver = None THEN None ELSE <<"Driver", ArtifactScope(e), e.driver>>
CallbackNode(e) ==
    IF e.callback = None THEN None ELSE <<"Module", ArtifactScope(e), e.callback>>

SectionLinks(e) ==
    LET file == FileOf(e)
        process == ProcessOf(e)
    IN  UNION { Typed(e, ModuleNode(e), file, "REFERENCES"),
                Typed(e, process, RegionNode(e), "ASSOCIATED_WITH"),
                Typed(e, ServiceNode(e), process, "ASSOCIATED_WITH"),
                UNION {Typed(e, ServiceNode(e), f, "USES_BINARY") : f \in ServiceFiles(e)},
                Typed(e, RegistryNode(e), file, "REFERENCES"),
                Typed(e, DriverNode(e), file, "REFERENCES"),
                Typed(e, EventNode(e), CallbackNode(e), "REFERENCES") }

FlowNode(e) ==
    IF e.network = None \/ e.type \notin {"network_flow", "socket", "network_connection"}
    THEN None
    ELSE <<IF e.type = "network_flow" THEN "NetworkFlow" ELSE "Socket", e.id>>
OtherNames(e) == Only(e.network # None, Domains(e) \ {e.network.query})
Server(e) ==
    IF e.network = None \/ e.network.server = None THEN None ELSE IpNode(e.network.server)

NetworkLinks(es, e) ==
    LET answers == Only(QueryOf(e) # None, e.network.resolved)
    IN  UNION { UNION {Typed(e, QueryOf(e), IpNode(ip), "RESOLVED_TO") : ip \in answers},
                UNION {Typed(e, DomainNode(n), Server(e), "ASSOCIATED_WITH") : n \in OtherNames(e)},
                Typed(e, ProcessOf(e), FlowNode(e), "ASSOCIATED_WITH"),
                Typed(e, FlowNode(e), AddressOf(es, e), "REFERENCES") }

FurtherNodes(e) ==
    UNION { {RecordNode(e), ObjectNode(e), ModuleNode(e), RegionNode(e), ServiceNode(e),
             RegistryNode(e), DriverNode(e), CallbackNode(e), FlowNode(e)} \ {None},
            Referenced(e), ServiceFiles(e),
            {DomainNode(n) : n \in OtherNames(e)},
            Only(OtherNames(e) # {}, {Server(e)} \ {None}) }

-----------------------------------------------------------------------------
(* Relations between events. *)

Owners(es) == {e \in {es[i] : i \in DOMAIN es} : e.process # None}
\* The rows that record p's instance as the parent of the process node.
ChildRows(es, p, node) ==
    {c \in Owners(es) : /\ Known(p.process.instance, c.process.parentInstance)
                        /\ ProcessOf(c) = node}
ProcessNodes(es) == {ProcessOf(e) : e \in Owners(es)}
ParentLink(p, node, rows) ==
    Only(rows # {}, Link(ProcessOf(p), node, "PARENT_OF", {c.id : c \in rows}, 0))

\* Mutant: a parent is looked up among the events read before its child.
ParentLinksSoFar(es) ==
    UNION { UNION {ParentLink(es[i], n, ChildRows(SubSeq(es, i, Len(es)), es[i], n)) :
                     n \in ProcessNodes(es)} :
              i \in {k \in DOMAIN es : es[k].process # None} }
\* Mutant: of several rows of a child one is kept.
ParentLinksOneRow(es) ==
    UNION { UNION {ParentLink(p, n, {c \in ChildRows(es, p, n) :
                                       \A d \in ChildRows(es, p, n) : d.id <= c.id}) :
                     n \in ProcessNodes(es)} : p \in Owners(es) }
\* Mutant: the row that records a parent is taken for the parent's.
ParentLinksUpwards(es) ==
    UNION { UNION {LET rows == ChildRows(es, p, n)
                   IN  Only(rows # {}, Link(n, ProcessOf(p), "PARENT_OF",
                                            {c.id : c \in rows}, 0)) :
                     n \in ProcessNodes(es)} : p \in Owners(es) }
\* A recorded parent instance is resolved when every event has been read, and
\* the rows of one child make one edge.
ParentLinks(es) ==
    UNION { UNION {ParentLink(p, n, ChildRows(es, p, n)) : n \in ProcessNodes(es)} :
              p \in Owners(es) }

\* Mutant: a name on the command line is as good as a path.
ProjectedByName(c, left, right) ==
    LET named == HasRule(c.reasons, {"command_line_file_path", "command_line_filename"})
        support == {left.id, right.id}
    IN  Only(named, Link(ProcessOf(left), FileOf(right), "REFERENCES", support, c.score))
\* Mutant: a pair is drawn both ways without a look at who records whose number.
ProjectedBothWays(c, left, right) ==
    LET named == HasRule(c.reasons, {"command_line_file_path"})
        child == /\ HasRule(c.reasons, {"parent_process"})
                 /\ left.process # None /\ right.process # None
        support == {left.id, right.id}
    IN  Only(named, Link(ProcessOf(left), FileOf(right), "REFERENCES", support, c.score))
        \cup Only(child, Link(ProcessOf(left), ProcessOf(right), "PARENT_OF", support, c.score))
\* What a correlation says in the direction from left to right.
Projected(c, left, right) ==
    LET named == HasRule(c.reasons, {"command_line_file_path"})
        child == /\ HasRule(c.reasons, {"parent_process"})
                 /\ left.process # None /\ right.process # None
                 /\ right.process.ppid = left.process.pid
        kind == IF left.process # None /\ left.script THEN "EXECUTED" ELSE "REFERENCES"
        support == {left.id, right.id}
    IN  Only(named, Link(ProcessOf(left), FileOf(right), kind, support, c.score))
        \cup Only(child, Link(ProcessOf(left), ProcessOf(right), "PARENT_OF", support, c.score))

\* Mutant: the earlier event of a pair is taken for the parent or the command.
CorrelationLinksOneWay(cs) ==
    UNION { Projected(c, c.source, c.target)
            \cup Link(EventNode(c.source), EventNode(c.target), "CORRELATED_WITH",
                      {c.source.id, c.target.id}, c.score) : c \in cs }
CorrelationLinks(cs) ==
    UNION { Projected(c, c.source, c.target) \cup Projected(c, c.target, c.source)
            \cup Link(EventNode(c.source), EventNode(c.target), "CORRELATED_WITH",
                      {c.source.id, c.target.id}, c.score) : c \in cs }

AllLinks(es, cs) ==
    UNION { UNION { UNION { CoreLinks(es[i]), FileLinks(es[i]), SectionLinks(es[i]),
                            NetworkLinks(es, es[i]) } : i \in DOMAIN es },
            ParentLinks(es), CorrelationLinks(cs) }

-----------------------------------------------------------------------------
(* Coalescing and the finished graph *)

Relation(link) == <<link.source, link.target, link.kind>>

\* Links of one relation become one edge: all their events, the strongest score,
\* and 100 when no link had a reason.
Coalesced(links) ==
    LET Same(r) == {l \in links : Relation(l) = r}
        Strongest(r) == Max({l.score : l \in Same(r)})
    IN  { [ source |-> r[1], target |-> r[2], kind |-> r[3],
            support |-> UNION {l.support : l \in Same(r)},
            score |-> IF Strongest(r) = 0 THEN 100 ELSE Strongest(r),
            count |-> Cardinality(Same(r)) ] : r \in {Relation(l) : l \in links} }

NodesOf(e) == CoreNodes(e) \cup FurtherNodes(e)
Nodes(es) ==
    LET names == UNION {NodesOf(es[i]) : i \in DOMAIN es}
    IN  {[id |-> n, seen |-> {es[i].id : i \in {k \in DOMAIN es : n \in NodesOf(es[k])}}] :
           n \in names}

Graph(es, cs) == [nodes |-> Nodes(es), edges |-> Coalesced(AllLinks(es, cs))]

Init == events \in Cases /\ correlations = {} /\ graph = None

\* AnalysisService.analyze, with every pair the rules accept.
Analyze ==
    /\ graph = None /\ correlations = {}
    /\ LET Pair(i, j) == [source |-> events[i], target |-> events[j],
                          reasons |-> KeptReasons(events[i], events[j]),
                          score |-> Score(KeptReasons(events[i], events[j]))]
           pairs == UNION {{Pair(i, j) : j \in i + 1..Len(events)} : i \in DOMAIN events}
       IN  correlations' = {c \in pairs : c.reasons # {} /\ c.score >= MinScore}
    /\ UNCHANGED <<events, graph>>

\* AnalysisService.graph, before or after the analysis.
Build ==
    /\ graph = None
    /\ graph' = Graph(events, correlations)
    /\ UNCHANGED <<events, correlations>>

Next == Analyze \/ Build
Spec == Init /\ [][Next]_vars

-----------------------------------------------------------------------------
(* Properties *)

\* Every edge joins two nodes of the graph, rests on events of the case, and has
\* a score from 1 to 100; the seen events of a node are events of the case.
TypeOK ==
    \/ graph = None
    \/ LET ids == {e.id : e \in Listed}
           names == {n.id : n \in graph.nodes}
       IN  /\ \A n \in graph.nodes : n.seen # {} /\ n.seen \subseteq ids
           /\ \A d \in graph.edges : /\ d.source \in names /\ d.target \in names
                                    /\ d.support # {} /\ d.support \subseteq ids
                                    /\ d.score \in 1..100 /\ d.count >= 1

Built == graph # None
Edges(kind) == {d \in graph.edges : d.kind = kind}
ParentRows ==
    {r \in Listed \X Listed : /\ r[1].process # None /\ r[2].process # None
                             /\ Known(r[1].process.instance, r[2].process.parentInstance)
                             /\ ProcessOf(r[1]) # ProcessOf(r[2])}

\* A recorded parent is in the graph whatever the order of the two rows, and the
\* edge names every row of the child that records it.  Such an edge carries no
\* reason of its own, so that any correlation coalesced with it would lend it a
\* weaker score than 100: none that the process rule allows joins the same two
\* processes (build_graph).
RecordedParentsAreLinked ==
    Built => \A r \in ParentRows :
               \E d \in Edges("PARENT_OF") : /\ d.source = ProcessOf(r[1])
                                            /\ d.target = ProcessOf(r[2])
                                            /\ r[2].id \in d.support
                                            /\ d.score = 100

\* Flows of the adapters have one remote address, and answers are the rows of
\* queries; an event that a client posts may have several.
ManyAddresses(e) == \E x, y \in Addresses(e) : x # y
OfManyAddresses(edge) ==
    /\ edge.kind = "REFERENCES"
    /\ \E e \in Listed : ManyAddresses(e) /\ edge.source = FlowNode(e)
Definite(edges) == {edge \in edges : ~OfManyAddresses(edge)}

\* The order in which the events were read decides which of its several addresses a
\* flow refers to (artifacts.py:199), and nothing else.
GraphIgnoresOrder ==
    Built => \A p \in Bijection(DOMAIN events, DOMAIN events) :
               LET other == Graph([i \in DOMAIN events |-> events[p[i]]], correlations)
               IN  /\ other.nodes = graph.nodes
                   /\ Definite(other.edges) = Definite(graph.edges)

\* A process is joined to a file of another event only when a command line of
\* that process, among the events the edge rests on, names the path of the file.
\* The rule of a pair is drawn both ways, so that of two rows which each record a
\* process and a file one command line is enough (artifacts.py:208-213): an edge
\* that no command line backs stands beside the converse edge, which one does.
CommandLinksAreRecorded ==
    Built =>
      LET commands == Edges("EXECUTED") \cup Edges("REFERENCES")
      IN  \A d \in commands :
            d.source[1] = "Process" /\ d.target[1] = "File" =>
              \E l, r \in Listed :
                 /\ {l.id, r.id} \subseteq d.support
                 /\ ProcessOf(l) = d.source /\ FileOf(r) = d.target
                 /\ \/ r.file.path \in l.process.command
                    \/ /\ l.file # None /\ r.process # None
                       /\ l.file.path \in r.process.command
                       /\ \E e \in commands :
                            /\ e.source = ProcessOf(r) /\ e.target = FileOf(l)
                            /\ {l.id, r.id} \subseteq e.support

\* Every event that a parent edge rests on is a row of the child that records the
\* instance of the parent, or one of a pair in which the child records the parent's
\* number (build_graph, artifacts.py:215-217).
ParentsAreNamed ==
    Built => \A d \in Edges("PARENT_OF") : \A x \in d.support :
               \E p, c \in Listed :
                  /\ ProcessOf(p) = d.source /\ ProcessOf(c) = d.target
                  /\ \/ x = c.id /\ Known(p.process.instance, c.process.parentInstance)
                     \/ /\ x \in {p.id, c.id} /\ {p.id, c.id} \subseteq d.support
                        /\ c.process.ppid = p.process.pid

\* A parent edge that rests on a row of the parent, as those drawn from process
\* numbers do, does not lead to a process that is known to have started earlier.
\* When each of the two records the number of the other both directions are drawn
\* (artifacts.py:208-217), so that a wrong one never stands alone.  A recorded
\* instance is followed whatever the starts are: such edges rest on rows of the
\* child, and ParentsAreNamed is what holds of them.
ParentsStartFirst ==
    Built => \A d \in Edges("PARENT_OF"), p, c \in Listed :
               /\ p.id \in d.support /\ ProcessOf(p) = d.source
               /\ c.id \in d.support /\ ProcessOf(c) = d.target
               /\ Clash(p.process.created, c.process.created)
               => \/ p.process.created < c.process.created
                  \/ /\ p.process.ppid = c.process.pid /\ c.process.ppid = p.process.pid
                     /\ \E e \in Edges("PARENT_OF") : /\ e.source = d.target
                                                      /\ e.target = d.source

\* Edges that have a direction have that of the records they rest on, and where two
\* records disagree both directions are there (build_graph, extend_graph).
DirectionsAreRecorded == CommandLinksAreRecorded /\ ParentsAreNamed /\ ParentsStartFirst
=============================================================================
