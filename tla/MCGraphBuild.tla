---------------------------- MODULE MCGraphBuild ----------------------------
(***************************************************************************)
(* Cases of two and three events for GraphBuild, one family for each part  *)
(* of the graph: processes and their parents, command lines and files, the *)
(* sections of one event, and network events.                              *)
(***************************************************************************)
EXTENDS CorrelationRules

P == [dir |-> "bin", base |-> "tool"]
Q == [dir |-> "tmp", base |-> "script"]

Process == [ pid |-> 1, ppid |-> None, instance |-> None, parentInstance |-> None,
             created |-> None, exit |-> None, name |-> None, path |-> None,
             command |-> {} ]
File == [ path |-> None, name |-> "tool", sha256 |-> None, references |-> {},
          mft |-> None, object |-> None ]
Network == [ src |-> None, sport |-> None, dst |-> None, dport |-> None,
             protocol |-> None, query |-> None, resolved |-> {}, response |-> FALSE,
             id |-> None, names |-> {}, tls |-> FALSE, end |-> None,
             listening |-> FALSE, server |-> None ]
Row == [ id |-> 1, type |-> "observation", host |-> "h", time |-> 60,
           semantics |-> "event_time", source |-> "memory", typed |-> FALSE,
           imprecise |-> FALSE, hash |-> None, acquisition |-> None,
           process |-> None, file |-> None, prefetch |-> None, registry |-> FALSE,
           network |-> None, ntfs |-> FALSE, handle |-> FALSE, module |-> FALSE,
           user |-> None, key |-> None, loaded |-> None, region |-> None,
           service |-> None, artifact |-> None, driver |-> None, callback |-> None,
           dumped |-> FALSE, script |-> FALSE ]

Maybe(x) == {None, x}
Rows(x, y) == {<<[e EXCEPT !.id = 1], [f EXCEPT !.id = 2]>> : e \in x, f \in y}
Rows3(x, y, z) ==
    {<<[e EXCEPT !.id = 1], [f EXCEPT !.id = 2], [g EXCEPT !.id = 3]>> :
       e \in x, f \in y, g \in z}

\* A parent, two rows of its child, and rows without scoped identities.
Parents ==
    {[Row EXCEPT !.process = [Process EXCEPT !.instance = i, !.created = c]] :
       i \in Maybe("i"), c \in Maybe(50)}
Children ==
    {[Row EXCEPT !.time = t,
                   !.process = [Process EXCEPT !.pid = 2, !.ppid = q, !.instance = i,
                                               !.parentInstance = o, !.created = 55]] :
       t \in {60, 61}, q \in Maybe(1), i \in Maybe("j"), o \in Maybe("i")}
Parentage == Rows3(Children, Parents, Children) \cup Rows3(Parents, Children, Children)

\* A command line with and without -file, and the files it may name.
Commands ==
    Rows({[Row EXCEPT !.script = s, !.host = h, !.acquisition = "a",
                        !.process = [Process EXCEPT !.command = c]] :
            s \in BOOLEAN, h \in Maybe("h"), c \in {{}, {Q}}},
         {[Row EXCEPT !.type = t, !.host = h, !.acquisition = a, !.handle = d, !.dumped = d,
                        !.file = [File EXCEPT !.path = p, !.references = r, !.mft = m,
                                              !.object = o]] :
            t \in {"observation", "file_created"}, h \in Maybe("h"), a \in Maybe("a"),
            d \in BOOLEAN, p \in {None, P, Q}, r \in {{}, {P}}, m \in Maybe("m"),
            o \in Maybe("o")})

\* One event with one section, beside a file or a process, and a second row of it.
Module == [name |-> "m", path |-> None, base |-> 1]
Service == [name |-> "s", programs |-> {P}, dll |-> Q]
Sections ==
    {[Row EXCEPT !.type = "module_load", !.loaded = Module],
     [Row EXCEPT !.type = "module_load", !.loaded = [Module EXCEPT !.path = P]],
     [Row EXCEPT !.region = 4096], [Row EXCEPT !.service = Service],
     [Row EXCEPT !.service = [Service EXCEPT !.programs = {P, Q}, !.dll = None]],
     [Row EXCEPT !.artifact = P], [Row EXCEPT !.driver = "d"],
     [Row EXCEPT !.callback = "m"], [Row EXCEPT !.user = "u", !.key = "k"],
     [Row EXCEPT !.type = "file_deleted"], [Row EXCEPT !.type = "file_modified"]}
Owned ==
    {[s EXCEPT !.process = p, !.file = f, !.handle = f # None] :
       s \in Sections, p \in Maybe([Process EXCEPT !.instance = "i"]),
       f \in Maybe([File EXCEPT !.path = P])}
Pieces == Rows(Owned, Owned)

\* Answers, greetings, flows and sockets; one address for each endpoint, and flows
\* with an answer of their own, as no adapter writes them.
Connections ==
    {[Row EXCEPT !.type = t, !.process = p,
                   !.network = [Network EXCEPT !.dst = d, !.listening = l, !.resolved = a]] :
       t \in {"socket", "network_connection", "network_flow"}, a \in {{}, {4}},
       p \in Maybe([Process EXCEPT !.instance = "i"]), d \in {None, 0, 3}, l \in BOOLEAN}
Answers ==
    {[Row EXCEPT !.source = "network", !.type = "dns_query",
                   !.network = [Network EXCEPT !.query = q, !.resolved = a, !.names = n,
                                               !.tls = n # {}, !.server = s]] :
       q \in Maybe("q"), a \in {{}, {3}, {3, 4}}, n \in {{}, {"n"}}, s \in Maybe(5)}
Traffic == Rows(Connections, Answers) \cup Rows(Answers, Connections)

\* Rows with a process and a file each, and command lines that name the path or
\* the base name of the other's file.
Handles ==
    {[Row EXCEPT !.handle = TRUE, !.process = [Process EXCEPT !.pid = n, !.command = c],
                   !.file = [File EXCEPT !.path = p]] :
       n \in {1, 2}, p \in {P, Q}, c \in {{}, {P}, {Q}, {BarePath("script")}}}
Handled == Rows(Handles, Handles)

\* Process numbers that are used again: a parent's number by a later process,
\* also by a descendant.
Successors ==
    {[Row EXCEPT !.time = 70,
                   !.process = [Process EXCEPT !.pid = n, !.ppid = q, !.created = c]] :
       n \in {1, 2}, q \in {None, 1, 2}, c \in {None, 50, 60}}
Returned == Rows(Successors, Successors)

AllCases == UNION {Parentage, Commands, Pieces, Traffic, Handled, Returned}
=============================================================================
