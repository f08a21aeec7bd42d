---------------------------- MODULE MemoryExports ----------------------------
(***************************************************************************)
(* MemoryImportAdapter.load_exports: the exports of one memory image become *)
(* events.  The exports of the five first plugins are validated one by one  *)
(* and then merged together by Volatility3Adapter, which gives processes    *)
(* their identity, parents and owned objects; the other plugins are         *)
(* converted afterwards, against the processes found.                       *)
(*                                                                          *)
(* An export is [plugin, readable, rows].  A row is [plugin, path, pid,     *)
(* ppid, name, created, exit, offset, time, good]: None where a column is   *)
(* absent, time for the creation of a socket or the load of a module, good  *)
(* when what its plugin requires is there and well formed.  Of the other    *)
(* plugins psscan and the ones that need an owner are told apart.           *)
(***************************************************************************)
EXTENDS Naturals, Sequences, FiniteSets, SequencesExt

CONSTANTS
  None,
  Inputs,      \* the sequences of exports an import can be given
  Expected     \* the plugins that were asked for

VARIABLES
  exports,     \* the input
  phase,       \* "load", "convert" or "done"
  at,          \* the export load_exports has come to
  runs,        \* the state of each export's run
  skipped,     \* expected plugins without an export
  events       \* batch.events

vars == <<exports, phase, at, runs, skipped, events>>

ProcessPlugins == {"pslist", "pstree", "cmdline"}
Merged == ProcessPlugins \cup {"netscan", "dlllist"}

-----------------------------------------------------------------------------
(* Volatility3Adapter._processes: rows of one lifetime form a process *)

ProcessRows(rows) == {r \in rows : r.plugin \in ProcessPlugins}
Lifetimes(rows, pid) ==
  {r.created : r \in {r \in ProcessRows(rows) : r.pid = pid /\ r.created # None}}

\* A row without a time belongs to the only lifetime its PID has.
StartOf(rows, r) ==
  IF r.created # None THEN r.created
  ELSE IF Lifetimes(rows, r.pid) = {} THEN None
  ELSE CHOOSE t \in Lifetimes(rows, r.pid) : TRUE

\* Mutant: rows are merged by PID.
SamePid(rows, r) == {s \in ProcessRows(rows) : s.pid = r.pid}

SameProcess(rows, r) ==
  {s \in ProcessRows(rows) : s.pid = r.pid /\ StartOf(rows, s) = StartOf(rows, r)}

Values(group, Field(_)) == {Field(r) : r \in group} \ {None}
OneOf(values) == IF values = {} THEN None ELSE CHOOSE v \in values : TRUE
Name(r) == r.name
Ppid(r) == r.ppid
Exit(r) == r.exit
Offset(r) == r.offset

\* The rows that no consistent set of processes can account for.
Refused(rows) ==
  \/ \E r \in rows : ~r.good
  \/ \E r \in ProcessRows(rows) :
       LET group == SameProcess(rows, r)
           start == StartOf(rows, r)
       IN  \/ r.created = None /\ Cardinality(Lifetimes(rows, r.pid)) > 1
           \/ Cardinality(Values(group, Name)) > 1
           \/ Cardinality(Values(group, Ppid)) > 1
           \/ Cardinality(Values(group, Offset)) > 1
           \/ Cardinality(Values(group, Exit)) > 1
           \/ start # None /\ \E t \in Values(group, Exit) : t < start

Processes(rows) ==
  {[ pid |-> r.pid, start |-> StartOf(rows, r),
     name |-> OneOf(Values(SameProcess(rows, r), Name)),
     ppid |-> OneOf(Values(SameProcess(rows, r), Ppid)),
     exit |-> OneOf(Values(SameProcess(rows, r), Exit)),
     rows |-> SameProcess(rows, r) ] : r \in ProcessRows(rows)}

\* instance_id: the PID and what tells its lifetimes apart, the time of creation
\* or, without one, the offset of the object if there is one.
Instance(p) ==
  <<"process", p.pid,
    IF p.start # None THEN <<"start", p.start>>
    ELSE <<"offset", OneOf(Values(p.rows, Offset))>> >>

Alive(p, time) ==
  /\ p.start = None \/ p.start <= time
  /\ p.exit = None \/ time <= p.exit

\* Mutant: the end of a process does not matter for its children.
StartedBefore(p, candidates) ==
  IF p.start = None THEN candidates
  ELSE {q \in candidates : q.start = None \/ q.start <= p.start}

PossibleParents(p, candidates) ==
  IF p.start = None THEN candidates ELSE {q \in candidates : Alive(q, p.start)}

\* _parent: the only process that can be the parent, if there is one.
ParentOf(p, processes) ==
  LET found == PossibleParents(p, {q \in processes : q.pid = p.ppid})
  IN  IF p.ppid # None /\ p.ppid # p.pid /\ Cardinality(found) = 1
      THEN Instance(OneOf(found)) ELSE None

\* Mutant: the first candidate is taken for the owner.
FirstOwner(row, processes) ==
  OneOf({p \in processes : p.pid = row.pid /\ (row.name = None \/ p.name = row.name)})

\* _owner: the only process with the row's PID and name that lived at its time.
OwnerOf(row, processes) ==
  LET found == {p \in processes :
                  /\ p.pid = row.pid
                  /\ row.name = None \/ p.name = row.name
                  /\ row.time = None \/ Alive(p, row.time)}
  IN  IF Cardinality(found) = 1 THEN OneOf(found) ELSE None

ProcessEvent(p, processes) ==
  [ type |-> "process", instance |-> Instance(p), pid |-> p.pid, name |-> p.name,
    start |-> p.start, exit |-> p.exit, time |-> None,
    parent |-> ParentOf(p, processes), rows |-> p.rows, signal |-> None ]

\* An object of a process; an unresolved owner keeps an identity of its own.
OwnedEvent(row, processes, kind) ==
  LET owner == OwnerOf(row, processes)
  IN  [ type |-> kind, pid |-> row.pid, name |-> row.name, start |-> None,
        exit |-> None, parent |-> None, signal |-> None, time |-> row.time,
        instance |-> IF row.pid = None THEN None
                     ELSE IF owner = None THEN <<"unresolved", row>>
                     ELSE Instance(owner),
        rows |-> {row} \cup IF owner = None THEN {} ELSE owner.rows ]

MergedEvents(rows) ==
  LET processes == Processes(rows)
  IN  {ProcessEvent(p, processes) : p \in processes} \cup
      {OwnedEvent(r, processes, "object") : r \in rows \ ProcessRows(rows)}

-----------------------------------------------------------------------------
(* MemoryImportAdapter.convert: the other plugins *)

\* The processes as the events of the merge show them.
Owners ==
  {[ pid |-> e.pid, start |-> e.start, name |-> e.name, exit |-> e.exit,
     instance |-> e.instance, rows |-> e.rows ] : e \in {e \in events : e.type = "process"}}

\* Mutant: a scanned process is recognised by its PID.
ScannedByPid(row) == {o \in Owners : o.pid = row.pid}

\* The listed process a row of psscan shows again.
Scanned(row) ==
  {o \in Owners : /\ o.pid = row.pid
                  /\ row.created # None /\ o.start = row.created
                  /\ o.name = row.name}

ScanEvent(row) ==
  [ type |-> "scan", pid |-> row.pid, name |-> row.name, start |-> row.created,
    exit |-> row.exit, time |-> None, parent |-> None, signal |-> None, rows |-> {row},
    instance |-> IF Cardinality(Scanned(row)) = 1 THEN OneOf(Scanned(row)).instance
                 ELSE <<"scan", row.pid, row.created, row.offset>> ]

\* convert calls _owner without the time of the row.
HeldEvent(row) ==
  LET found == {o \in Owners : o.pid = row.pid /\ (row.name = None \/ o.name = row.name)}
  IN  [ type |-> "object", pid |-> row.pid, name |-> row.name, start |-> None,
        exit |-> None, parent |-> None, signal |-> None, time |-> None,
        instance |-> IF Cardinality(found) = 1 THEN OneOf(found).instance
                     ELSE <<"unresolved", row>>,
        rows |-> {row} \cup IF Cardinality(found) = 1 THEN OneOf(found).rows ELSE {} ]

\* A process may not end before it starts.
Usable(row) ==
  /\ row.good
  /\ row.pid # None
  /\ row.created # None /\ row.exit # None => row.created <= row.exit

Converted(row) == IF row.plugin = "psscan" THEN ScanEvent(row) ELSE HeldEvent(row)

-----------------------------------------------------------------------------
(* load_exports *)

Rows(indices) == UNION {exports[i].rows : i \in indices}
IsMerged(i) == exports[i].plugin \in Merged
Loaded == {i \in DOMAIN exports : runs[i] = "SUCCESS"}
Joint == {i \in Loaded : IsMerged(i) /\ exports[i].rows # {}}

Init ==
  /\ \E input \in Inputs : exports = input
  /\ phase = "load"
  /\ at = 1
  /\ runs = [i \in DOMAIN exports |-> "FAILED"]
  /\ skipped = {}
  /\ events = {}

\* An export is read, and one that is to be merged must merge by itself.
LoadExport ==
  /\ phase = "load"
  /\ at <= Len(exports)
  /\ runs' = [runs EXCEPT ![at] =
       IF exports[at].readable /\ ~(IsMerged(at) /\ Refused(exports[at].rows))
       THEN "SUCCESS" ELSE "FAILED"]
  /\ at' = at + 1
  /\ UNCHANGED <<exports, phase, skipped, events>>

\* Mutant: an inconsistent merge leaves the runs as they were.
MergeQuietly ==
  /\ phase = "load"
  /\ at > Len(exports)
  /\ events' = IF Refused(Rows(Joint)) THEN {} ELSE MergedEvents(Rows(Joint))
  /\ runs' = runs
  /\ phase' = "convert"
  /\ at' = 1
  /\ UNCHANGED <<exports, skipped>>

\* The joint merge: inconsistent exports fail together.
MergeExports ==
  /\ phase = "load"
  /\ at > Len(exports)
  /\ \/ /\ ~Refused(Rows(Joint))
        /\ events' = MergedEvents(Rows(Joint))
        /\ UNCHANGED runs
     \/ /\ Refused(Rows(Joint))
        /\ runs' = [i \in DOMAIN exports |->
                      IF i \in Loaded /\ IsMerged(i) THEN "FAILED" ELSE runs[i]]
        /\ UNCHANGED events
  /\ phase' = "convert"
  /\ at' = 1
  /\ UNCHANGED <<exports, skipped>>

\* Mutant: the failure of a plugin ends the conversion.
ConvertUntilFailure ==
  /\ phase = "convert"
  /\ at <= Len(exports)
  /\ \/ /\ runs[at] = "SUCCESS"
        /\ events' = events \cup (IF IsMerged(at) THEN {}
                                  ELSE {Converted(r) : r \in exports[at].rows})
        /\ at' = at + 1
     \/ /\ runs[at] # "SUCCESS"
        /\ at' = Len(exports) + 1
        /\ UNCHANGED events
  /\ UNCHANGED <<exports, phase, runs, skipped>>

\* A loaded export of another plugin: all of its rows, or none and a failure.
ConvertExport ==
  /\ phase = "convert"
  /\ at <= Len(exports)
  /\ at' = at + 1
  /\ \/ /\ at \notin Loaded \/ IsMerged(at)
        /\ UNCHANGED <<runs, events>>
     \/ /\ at \in Loaded /\ ~IsMerged(at)
        /\ \A r \in exports[at].rows : Usable(r)
        /\ events' = events \cup {Converted(r) : r \in exports[at].rows}
        /\ UNCHANGED runs
     \/ /\ at \in Loaded /\ ~IsMerged(at)
        /\ \E r \in exports[at].rows : ~Usable(r)
        /\ runs' = [runs EXCEPT ![at] = "FAILED"]
        /\ UNCHANGED events
  /\ UNCHANGED <<exports, phase, skipped>>

PluginLoaded(plugin) == \E i \in Loaded : exports[i].plugin = plugin

\* Mutant: a list that failed counts as one without the process.
SignalWithoutList(e) ==
  IF e.type # "scan" THEN None
  ELSE IF \A o \in Owners : o.instance # e.instance
       THEN "psscan_only" ELSE "scan_observation"

Signal(e) ==
  IF e.type # "scan" THEN None
  ELSE IF PluginLoaded("pslist") /\ \A o \in Owners : o.instance # e.instance
       THEN "psscan_only" ELSE "scan_observation"

\* Expected plugins without an export are skipped, scans are compared with the
\* listed processes.
CompareScans ==
  /\ phase = "convert"
  /\ at > Len(exports)
  /\ skipped' = Expected \ {exports[i].plugin : i \in DOMAIN exports}
  /\ events' = {[e EXCEPT !.signal = Signal(e)] : e \in events}
  /\ phase' = "done"
  /\ UNCHANGED <<exports, at, runs>>

Next == LoadExport \/ MergeExports \/ ConvertExport \/ CompareScans

Spec == Init /\ [][Next]_vars

-----------------------------------------------------------------------------
(* Properties *)

ProcessEvents == {e \in events : e.type = "process"}

\* The variables are of the expected shape, and different processes have
\* different identities (load_exports, _processes).
TypeOK ==
  /\ phase \in {"load", "convert", "done"}
  /\ at \in 1..Len(exports) + 1
  /\ \A i \in DOMAIN runs : runs[i] \in {"SUCCESS", "FAILED"}
  /\ \A d, e \in ProcessEvents : d.instance = e.instance => d = e

\* PID reuse is not merged: the rows behind a process never state two creation
\* times, and none of them is behind another process (_processes).
LifetimesStayApart ==
  \A e \in ProcessEvents :
    /\ \A r, s \in e.rows :
         r.created # None /\ s.created # None => r.created = s.created
    /\ \A d \in ProcessEvents : d # e => d.rows \cap e.rows = {}

\* Whoever is recorded as parent or owner existed then: it started no later and
\* had not ended when the child was created or the object was observed
\* (_parent, _owner).
RelationsFitLifetimes ==
  \A e \in events, p \in ProcessEvents :
    LET time == IF e.type = "process" THEN e.start ELSE e.time
        related == {e.parent} \cup IF e.type = "object" THEN {e.instance} ELSE {}
    IN  p.instance \in related \ {None} /\ time # None => Alive(p, time)

\* A process is called psscan_only only when the list was given and did not fail; and
\* if the scan knows its creation time, no listed process has its PID, name and
\* creation time.  A scan without one has an identity of its own, and is called
\* psscan_only whatever is listed (_comparisons).
ScanOnlyIsNotListed ==
  \A e \in events :
    e.signal = "psscan_only" =>
      /\ \E i \in DOMAIN exports : exports[i].plugin = "pslist" /\ runs[i] = "SUCCESS"
      /\ e.start # None =>
           \A p \in ProcessEvents : ~(p.pid = e.pid /\ p.start = e.start /\ p.name = e.name)

\* A scanned process shares the identity of a listed process only if they agree
\* on creation time and name: PIDs are reused (convert).
SharedIdentitiesAgree ==
  \A e \in events, p \in ProcessEvents :
    e.type = "scan" /\ e.instance = p.instance => e.start = p.start /\ e.name = p.name

\* Every row of an export that is reported as successful is behind an event, and
\* no row of a failed export is (load_exports).
RunsAgreeWithEvents ==
  phase = "done" =>
    \A i \in DOMAIN exports :
      LET behind == UNION {e.rows : e \in events}
      IN  IF runs[i] = "SUCCESS" THEN exports[i].rows \subseteq behind
          ELSE exports[i].rows \cap behind = {}

\* Process numbers are used again: processes, their relations and the processes
\* that only a scan found are told apart by what the rows say of them
\* (_processes, _parent, convert, _comparisons).
ProcessesAreToldApart ==
  LifetimesStayApart /\ RelationsFitLifetimes /\ ScanOnlyIsNotListed /\ SharedIdentitiesAgree
=============================================================================
