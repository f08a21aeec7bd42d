--------------------------- MODULE MCMemoryExports ---------------------------
(* Values for MemoryExports: every list of two processes, joined with       *)
(* exports that agree with it, contradict it or cannot be read.               *)
EXTENDS Naturals

CONSTANT None

Row(plugin, pid, ppid, name, created, exit) ==
  [plugin |-> plugin, path |-> plugin, pid |-> pid, ppid |-> ppid, name |-> name,
   created |-> created, exit |-> exit, offset |-> None, time |-> None, good |-> TRUE]
Export(plugin, rows) == [plugin |-> plugin, readable |-> TRUE, rows |-> rows]
Unreadable(plugin) == [Export(plugin, {}) EXCEPT !.readable = FALSE]

\* Two PIDs that name each other as parent, reused or not.
Listed(plugin) ==
  {Row(plugin, pid, 3 - pid, name, created, exit) :
     pid \in 1..2, name \in {"a", "b"}, created \in {None, 1, 3}, exit \in {None, 2}}
Lists ==
  {Export("pslist", {r, s}) : r \in Listed("pslist"), s \in Listed("pslist")}
    \cup {Export("pslist", {}), Unreadable("pslist")}

Trees ==
  {Export("pstree", {Row("pstree", 1, ppid, "a", created, None)}) :
     ppid \in {None, 1}, created \in {None, 1}}
Commands ==
  {Export("cmdline", {Row("cmdline", 1, None, "a", None, None)}),
   Export("cmdline", {[Row("cmdline", 1, None, "a", None, None) EXCEPT !.good = FALSE]}),
   Unreadable("cmdline")}
Sockets ==
  {Export("netscan", {[Row("netscan", 1, None, name, None, None) EXCEPT !.time = time]}) :
     name \in {None, "a"}, time \in {None, 2, 3}}
Scans ==
  {Export("psscan", {[Row("psscan", 1, 2, "a", created, exit) EXCEPT !.offset = 7]}) :
     created \in {None, 1, 3}, exit \in {None, 2}}
Handles ==
  {Export("handles", {Row("handles", pid, None, name, None, None)}) :
     pid \in {None, 1}, name \in {None, "a"}}
Offsets ==
  {Export("pstree", {[Row("pstree", 1, 2, "a", None, None) EXCEPT !.offset = 8]})}

AllInputs ==
  {<<l, t, c>> : l \in Lists, t \in Trees \cup Offsets, c \in Commands}
    \cup {<<n, l>> : l \in Lists, n \in Sockets}
    \cup {<<s, l, h>> : l \in Lists, s \in Scans, h \in Handles}
    \cup {<<l, c, h>> : l \in Lists, c \in Commands, h \in Handles}
=============================================================================
