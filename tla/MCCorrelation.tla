---------------------------- MODULE MCCorrelation ----------------------------
(***************************************************************************)
(* Values for CandidateIndex: cases of two events, the first at time 60,   *)
(* one family for each kind of evidence the rules compare, and cases of    *)
(* three.  The times of the second event lie on the edges of the rules'    *)
(* windows and of the one-minute buckets.                                  *)
(***************************************************************************)
EXTENDS CorrelationRules

P == [dir |-> "bin", base |-> "tool"]
Q == [dir |-> "tmp", base |-> "tool"]

Process == [ pid |-> 1, ppid |-> None, instance |-> None, parentInstance |-> None,
             created |-> None, exit |-> None, name |-> "tool", path |-> None,
             command |-> {} ]
File == [ path |-> None, name |-> None, sha256 |-> None, references |-> {},
          mft |-> None, object |-> None ]
Network == [ src |-> None, sport |-> None, dst |-> None, dport |-> None,
             protocol |-> None, query |-> None, resolved |-> {}, response |-> FALSE,
             id |-> None, names |-> {}, tls |-> FALSE, end |-> None ]
Row == [ host |-> "h", time |-> 60, semantics |-> "event_time", source |-> "memory",
           typed |-> FALSE, imprecise |-> FALSE, hash |-> None, acquisition |-> None,
           process |-> None, file |-> None, prefetch |-> None, registry |-> FALSE,
           network |-> None, ntfs |-> FALSE, handle |-> FALSE, module |-> FALSE ]

Semantics == {"event_time", "extraction_time"}
Maybe(x) == {None, x}
Then == {60, 119, 120, 121, 179, 180, 200}    \* up to 140 seconds later

\* One process number: scoped identity, creation, exit, path.
Lives ==
    <<{[Row EXCEPT !.semantics = s,
                        !.process = [Process EXCEPT !.instance = i, !.created = c,
                                                    !.exit = x, !.path = P]] :
            s \in Semantics, i \in Maybe("i"), c \in Maybe(50), x \in Maybe(120)},
         {[Row EXCEPT !.semantics = s, !.host = h, !.time = t, !.source = o,
                        !.typed = TRUE, !.imprecise = z,
                        !.process = [Process EXCEPT !.instance = i, !.created = c, !.path = p]] :
            s \in Semantics, h \in {None, "h", "g"}, t \in Then, o \in {"memory", "disk"},
            i \in Maybe("i"), c \in {None, 50, 100}, p \in {P, Q}, z \in BOOLEAN}>>

\* Parent and child, in both orders of their records.
Children(times) ==
    {[Row EXCEPT !.semantics = s, !.time = t,
                   !.process = [Process EXCEPT !.pid = 2, !.ppid = q, !.parentInstance = i,
                                               !.created = c]] :
       s \in Semantics, t \in times, q \in Maybe(1), i \in Maybe("i"), c \in {None, 50, 110}}
Parents(times) ==
    {[Row EXCEPT !.semantics = s, !.time = t, !.host = h,
                   !.process = [Process EXCEPT !.instance = i, !.created = c]] :
       s \in Semantics, t \in times, h \in Maybe("h"), i \in Maybe("i"), c \in Maybe(50)}
Offspring == <<Parents({60}), Children(Then)>>
Parentage == <<Children({60}), Parents(Then)>>

\* A command line, and the files it may name.
Commands ==
    <<{[Row EXCEPT !.semantics = s, !.host = h, !.time = t,
                        !.process = [Process EXCEPT !.path = p, !.command = c]] :
            t \in {0, 59, 60}, s \in Semantics, h \in Maybe("h"), p \in {None, P, Q},
            c \in {{}, {P}, {BarePath("tool")}, {P, BarePath("tool")}}},
         {[Row EXCEPT !.semantics = s, !.time = t, !.source = "disk", !.typed = TRUE,
                        !.registry = g, !.ntfs = m,
                        !.file = [File EXCEPT !.path = p, !.name = "tool"]] :
            s \in Semantics, t \in Then, g \in BOOLEAN, m \in BOOLEAN,
            p \in {None, P, Q, BarePath("tool")}}>>

\* Two files.
Files ==
    <<{[Row EXCEPT !.semantics = s, !.hash = d, !.acquisition = "a", !.handle = TRUE,
                        !.file = [File EXCEPT !.path = P, !.sha256 = x, !.mft = m, !.object = o]] :
            s \in Semantics, d \in Maybe("d"), x \in Maybe("d"), m \in Maybe("m"),
            o \in Maybe("o")},
         {[Row EXCEPT !.semantics = s, !.time = t, !.source = "disk", !.typed = TRUE,
                        !.hash = d, !.acquisition = "a",
                        !.file = [File EXCEPT !.path = p, !.sha256 = x, !.mft = m, !.object = o,
                                              !.references = r]] :
            s \in Semantics, t \in {120, 200}, d \in {None, "e"}, x \in {None, "d", "e"},
            m \in Maybe("m"), o \in Maybe("o"), p \in {P, Q}, r \in {{}, {P}}}>>

\* A program and the prefetch entry of a run; the recorded name may be cut short.
Runs ==
    <<{[Row EXCEPT !.semantics = s,
                        !.process = [Process EXCEPT !.name = n, !.path = p]] :
            s \in Semantics, n \in {None, "tool", "too"}, p \in {None, P, Q}},
         {[Row EXCEPT !.semantics = s, !.time = t, !.source = "disk", !.typed = TRUE,
                        !.prefetch = [executable |-> "tool", path |-> p],
                        !.registry = g, !.file = IF g THEN [File EXCEPT !.path = P] ELSE None] :
            s \in Semantics, t \in Then \cup {65, 66}, p \in {None, P}, g \in BOOLEAN}>>

\* A recorded flow, and a socket of which parts are unknown.
Flow(end) == [Network EXCEPT !.src = "c", !.sport = 1, !.dst = "d", !.dport = 443,
                             !.protocol = "tcp", !.end = end]
Sockets ==
    <<{[Row EXCEPT !.source = "network", !.typed = TRUE, !.host = h, !.network = Flow(e)] :
            h \in {None, "h"}, e \in {None, 60, 150}},
         {[Row EXCEPT !.time = t, !.host = h, !.semantics = s,
                        !.network = [Network EXCEPT !.src = ends[1], !.sport = ends[2],
                                                    !.dst = ends[3], !.dport = ends[4],
                                                    !.protocol = p]] :
            t \in Then \cup {210, 211}, h \in {None, "h"}, s \in Semantics, p \in Maybe("tcp"),
            ends \in { <<"c", 1, "d", 443>>, <<"d", 443, "c", 1>>, <<None, None, "d", 443>>,
                       <<"c", 2, "d", 443>>, <<"c", None, "d", 443>>, <<"d", 443, None, None>>,
                       <<None, None, "d", None>> }}>>

\* A query or an answer, and a connection, a TLS greeting or a second query.
Names ==
    <<{[Row EXCEPT !.source = "network", !.host = h,
                        !.network = [Network EXCEPT !.src = w[1], !.dst = w[2], !.response = w[3],
                                                    !.query = q, !.resolved = a, !.id = 1]] :
            h \in Maybe("h"), q \in Maybe("q"), a \in {{}, {"d"}},
            w \in { <<"c", "s", FALSE>>, <<"s", "c", TRUE>>, <<None, None, TRUE>>,
                    <<None, "c", TRUE>>, <<"s", None, TRUE>> }},
         {[Row EXCEPT !.source = o, !.host = h, !.time = t,
                        !.network = [Network EXCEPT !.src = c, !.dst = "d", !.query = q,
                                                    !.id = n, !.names = IF tls THEN {"q"} ELSE {},
                                                    !.tls = tls]] :
            o \in {"network", "memory"}, h \in {None, "h", "g"}, t \in Then,
            c \in {None, "c", "s"}, q \in Maybe("q"), n \in {1, 2}, tls \in BOOLEAN}>>

\* A flow that records a file, as no adapter writes it, and that file or a command
\* line that names it.
Transfers ==
    <<{[Row EXCEPT !.source = "network", !.network = Flow(e),
                        !.file = [File EXCEPT !.path = P, !.name = "tool"]] :
            e \in {None, 60, 150}},
         {[Row EXCEPT !.time = t, !.semantics = s, !.file = f, !.process = p] :
            t \in Then \cup {210, 211}, s \in Semantics,
            f \in Maybe([File EXCEPT !.path = P, !.name = "tool"]),
            p \in Maybe([Process EXCEPT !.command = {P}])}>>

Pairs(family) == family[1] \X family[2]

\* A process, its child and a file that its command line names.
Households ==
    {[Row EXCEPT !.semantics = s, !.process = [Process EXCEPT !.command = {P}]] :
       s \in Semantics}
    \X {[Row EXCEPT !.time = t, !.process = [Process EXCEPT !.pid = n, !.ppid = 1, !.path = P]] :
          t \in {60, 120, 200}, n \in {1, 2}}
    \X {[Row EXCEPT !.time = t, !.source = "disk", !.typed = TRUE, !.registry = g,
                    !.file = [File EXCEPT !.path = p, !.name = "tool"]] :
          t \in {200, 260}, g \in BOOLEAN, p \in {P, Q, BarePath("tool")}}

AllFamilies ==
    {Pairs(family) : family \in {Lives, Offspring, Parentage, Commands, Files, Runs,
                                 Sockets, Names, Transfers}}
    \cup {Households}
=============================================================================
