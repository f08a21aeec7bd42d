------------------------------ MODULE CaseStore ------------------------------
(***************************************************************************)
(* One case in the SQLite repository and the API requests that work on it. *)
(*                                                                         *)
(* FastAPI serves every request on a thread of its own and every           *)
(* repository call opens its own connection, so a request is a sequence of *)
(* separate transactions and the requests interleave between them.  Every  *)
(* write transaction begins IMMEDIATE, so it is one action; the process    *)
(* may die between any two of them, and what was committed stays.          *)
(*                                                                         *)
(* The case row is (revision, analysisRevision).  The tables events,       *)
(* correlations (and correlation_reasons), graph_nodes (and graph_edges    *)
(* and entities), imports (and parser_runs) are evidence, correlations,    *)
(* storedGraph and imports.                                                *)
(***************************************************************************)
EXTENDS CaseValues, FiniteSetsExt

CONSTANTS
  Client,      \* request threads of the API process
  ImportId,    \* import_id values; finitely many, they bound the imports
  Batch        \* batches a collector can return: [events, states of its runs]

\* ImportReport: what imports and parser_runs store of one import.
Report == [id : ImportId, status : Status, imported : Nat, states : SUBSET RunStatus]

ASSUME StoreAssumption ==
  /\ Batch \subseteq [events : SUBSET Event, states : SUBSET RunStatus]
  /\ \A batch \in Batch : IsFiniteSet(batch.events)

\* The report of a batch.
BatchReport(i, batch) ==
  [id       |-> i,
   status   |-> ImportStatus(batch),
   imported |-> Cardinality(batch.events),
   states   |-> batch.states]

\* Mutant: the refused report keeps the number of events it was to import.
RefusedReportKeepsCount(i, batch) ==
  [id       |-> i,
   status   |-> "FAILED",
   imported |-> Cardinality(batch.events),
   states   |-> {Refused(s) : s \in batch.states}]

\* Mutant: the refused report takes its status from a run that timed out.
RefusedReportTakesRunState(i, batch) ==
  [id       |-> i,
   status   |-> IF "TIMEOUT" \in batch.states THEN "TIMEOUT" ELSE "FAILED",
   imported |-> 0,
   states   |-> {Refused(s) : s \in batch.states}]

\* The report of the same batch after the storage refused it.
RefusedReport(i, batch) ==
  [id       |-> i,
   status   |-> "FAILED",
   imported |-> 0,
   states   |-> {Refused(s) : s \in batch.states}]

(***************************************************************************)
(* Where a request stands: the transaction it runs next.                   *)
(***************************************************************************)
Stage == {"idle", "recordFailure", "analyzeRead", "analyzeSave", "viewBegin",
          "viewEvents", "viewCorrelations", "viewConfirm", "graphSave"}

RequestRecord ==
  [at       : Stage,
   kind     : {"none", "import", "analysis", "view", "graph"},
   root     : Root \cup {None},       \* root_event_id
   minScore : MinScore \cup {None},  \* AnalysisRequest.min_score
   pinned   : Nat,                   \* AnalysisService.graph: revision
   before   : Nat,                   \* analyze: case.revision; view: before.revision
   events   : SUBSET Event,          \* events read so far
   edges    : SUBSET Edge,           \* correlations read so far
   reports  : SUBSET Report]         \* report of a refused import, to be recorded

\* Only view and graph requests go through the steps of view().
Request ==
  {r \in RequestRecord :
     r.at \in {"viewBegin", "viewEvents", "viewCorrelations", "viewConfirm"} =>
       r.kind \in {"view", "graph"}}

Idle == [at |-> "idle", kind |-> "none", root |-> None, minScore |-> None,
         pinned |-> 0, before |-> 0, events |-> {}, edges |-> {},
         reports |-> {}]

Response ==
  {NoAnswer} \cup [kind : {"analysis", "view", "graph"}, view : View]
             \cup [kind : {"import"}, row : Report]

VARIABLES
  evidence,          \* event ids stored for the case
  revision,          \* cases.revision
  analysisRevision,  \* cases.analysis_revision
  correlations,      \* rows of the correlations table
  storedGraph,       \* the persisted graph projection: at most one view
  imports,           \* rows of imports with their parser_runs
  req,               \* per client: the request it is in
  answer             \* per client: the response to its latest request

database == <<evidence, revision, analysisRevision, correlations, storedGraph, imports>>
vars == <<evidence, revision, analysisRevision, correlations, storedGraph,
          imports, req, answer>>

\* create_case: an empty case at revision 0 that was never analyzed.
Init ==
  /\ evidence = {}
  /\ revision = 0
  /\ analysisRevision = None
  /\ correlations = {}
  /\ storedGraph = {}
  /\ imports = {}
  /\ req = [c \in Client |-> Idle]
  /\ answer = [c \in Client |-> NoAnswer]

-----------------------------------------------------------------------------
(***************************************************************************)
(* Requests begin and end.                                                 *)
(***************************************************************************)

Begin(c, request) ==
  /\ req[c].at = "idle"
  /\ req' = [req EXCEPT ![c] = request]
  /\ answer' = [answer EXCEPT ![c] = NoAnswer]

Continue(c, request) ==
  /\ req' = [req EXCEPT ![c] = request]
  /\ UNCHANGED answer

Respond(c, response) ==
  /\ req' = [req EXCEPT ![c] = Idle]
  /\ answer' = [answer EXCEPT ![c] = response]

\* The handler raises: ConflictError, AnalysisRequiredError, NotFoundError,
\* ValueError or sqlite3.Error; the client gets a 4xx or 5xx response.
Fail(c) ==
  /\ req' = [req EXCEPT ![c] = Idle]
  /\ UNCHANGED answer

-----------------------------------------------------------------------------
(***************************************************************************)
(* add_events: one write transaction.  A batch with events drops every     *)
(* derived table and moves the case to a new, unanalyzed revision.         *)
(***************************************************************************)

\* Mutant: the events are inserted and the derived tables emptied, but the
\* revision stays.
StoreWithoutRevision(events) ==
  IF events = {}
  THEN UNCHANGED <<evidence, revision, analysisRevision, correlations, storedGraph>>
  ELSE /\ evidence' = evidence \cup events
       /\ analysisRevision' = None
       /\ correlations' = {}
       /\ storedGraph' = {}
       /\ UNCHANGED revision

Store(events) ==
  IF events = {}
  THEN UNCHANGED <<evidence, revision, analysisRevision, correlations, storedGraph>>
  ELSE /\ evidence' = evidence \cup events
       /\ revision' = revision + 1
       /\ analysisRevision' = None
       /\ correlations' = {}
       /\ storedGraph' = {}

\* POST /cases/{id}/events and /samples/load: no report is recorded.  A
\* duplicate id or a busy database refuses the batch as a whole.
PostEvents(c, events) ==
  /\ events # {}
  /\ req[c].at = "idle"
  /\ answer' = [answer EXCEPT ![c] = NoAnswer]
  /\ events \cap evidence = {}
  /\ Store(events)
  /\ UNCHANGED <<imports, req>>

\* import_batch takes a fresh UUID for the import.
FreshId(i) ==
  \A report \in imports \cup UNION {req[c].reports : c \in Client} : report.id # i

\* Mutant: INSERT OR IGNORE skips duplicate events without a word.
ImportIgnoresDuplicates(c, batch, i) ==
  /\ req[c].at = "idle"
  /\ FreshId(i)
  /\ Store(batch.events \ evidence)
  /\ imports' = imports \cup {BatchReport(i, batch)}
  /\ answer' = [answer EXCEPT ![c] = Receipt(BatchReport(i, batch))]
  /\ UNCHANGED req

\* import_batch, first transaction: the events and the report together.
ImportCommits(c, batch, i) ==
  /\ req[c].at = "idle"
  /\ FreshId(i)
  /\ batch.events \cap evidence = {}
  /\ Store(batch.events)
  /\ imports' = imports \cup {BatchReport(i, batch)}
  /\ answer' = [answer EXCEPT ![c] = Receipt(BatchReport(i, batch))]
  /\ UNCHANGED req

\* The first transaction is rolled back: a duplicate event id
\* (ConflictError) or any sqlite3.Error, such as a lock held for 10 seconds.
ImportRollsBack(c, batch, i) ==
  /\ FreshId(i)
  /\ Begin(c, [Idle EXCEPT !.at = "recordFailure", !.kind = "import",
                           !.reports = {RefusedReport(i, batch)}])
  /\ UNCHANGED database

\* Mutant: the failed report is returned without being recorded.
FailureNotRecorded(c) ==
  /\ req[c].at = "recordFailure"
  /\ \E report \in req[c].reports : Respond(c, Receipt(report))
  /\ UNCHANGED database

\* import_batch, second transaction: only the failed report.
RecordFailure(c) ==
  /\ req[c].at = "recordFailure"
  /\ \E report \in req[c].reports :
       /\ imports' = imports \cup {report}
       /\ Respond(c, Receipt(report))
  /\ UNCHANGED <<evidence, revision, analysisRevision, correlations, storedGraph>>

-----------------------------------------------------------------------------
(***************************************************************************)
(* AnalysisService.analyze: get_case, events, correlate, save_correlations *)
(***************************************************************************)

AnalyzeStart(c, minScore, root) ==
  /\ Begin(c, [Idle EXCEPT !.at = "analyzeRead", !.kind = "analysis",
                           !.minScore = minScore, !.root = root,
                           !.before = revision])
  /\ UNCHANGED database

\* check_root and correlate reject a missing root and an empty case.
AnalyzeRead(c) ==
  /\ req[c].at = "analyzeRead"
  /\ IF evidence # {} /\ req[c].root \in evidence \cup {None}
     THEN Continue(c, [req[c] EXCEPT !.at = "analyzeSave", !.events = evidence])
     ELSE Fail(c)
  /\ UNCHANGED database

\* Mutant: save_correlations trusts the revision it is given.
AnalyzeSaveUnchecked(c) ==
  LET edges == Correlate(req[c].events, req[c].minScore)
  IN  /\ req[c].at = "analyzeSave"
      /\ correlations' = edges
      /\ analysisRevision' = revision
      /\ Respond(c, Shown("analysis", Focus(req[c].events, edges, req[c].root)))
      /\ UNCHANGED <<evidence, revision, storedGraph, imports>>

\* save_correlations compares the revision inside its transaction.  The
\* stored graph is left as it is.  result_limit only shortens the response.
AnalyzeSave(c) ==
  /\ req[c].at = "analyzeSave"
  /\ IF req[c].before = revision
     THEN LET edges == Correlate(req[c].events, req[c].minScore)
          IN  /\ correlations' = edges
              /\ analysisRevision' = req[c].before
              /\ Respond(c, Shown("analysis", Focus(req[c].events, edges, req[c].root)))
     ELSE Fail(c) /\ UNCHANGED <<correlations, analysisRevision>>
  /\ UNCHANGED <<evidence, revision, storedGraph, imports>>

-----------------------------------------------------------------------------
(***************************************************************************)
(* AnalysisService.view (correlations, rooted timeline) and graph: four,   *)
(* respectively five reads, each on a connection of its own.               *)
(***************************************************************************)

ViewStart(c, root) ==
  /\ Begin(c, [Idle EXCEPT !.at = "viewEvents", !.kind = "view",
                           !.root = root, !.before = revision])
  /\ UNCHANGED database

\* graph pins the revision it will save under before it calls view.
GraphStart(c, root) ==
  /\ Begin(c, [Idle EXCEPT !.at = "viewBegin", !.kind = "graph",
                           !.root = root, !.pinned = revision])
  /\ UNCHANGED database

ViewBegin(c) ==
  /\ req[c].at = "viewBegin"
  /\ Continue(c, [req[c] EXCEPT !.at = "viewEvents", !.before = revision])
  /\ UNCHANGED database

ViewEvents(c) ==
  /\ req[c].at = "viewEvents"
  /\ IF req[c].root \in evidence \cup {None}
     THEN Continue(c, [req[c] EXCEPT !.at = "viewCorrelations", !.events = evidence])
     ELSE Fail(c)
  /\ UNCHANGED database

\* correlations: the revision check and the rows come from one snapshot.
ViewCorrelations(c) ==
  /\ req[c].at = "viewCorrelations"
  /\ IF analysisRevision = revision
     THEN Continue(c, [req[c] EXCEPT !.at = "viewConfirm", !.edges = correlations])
     ELSE Fail(c)
  /\ UNCHANGED database

ViewOf(r) == Focus(r.events, r.edges, r.root)

\* Mutant: view answers without reading the revision a second time.
ViewUnconfirmed(c) ==
  /\ req[c].at = "viewConfirm"
  /\ IF req[c].kind = "graph" /\ req[c].root = None
     THEN Continue(c, [req[c] EXCEPT !.at = "graphSave"])
     ELSE Respond(c, Shown(req[c].kind, ViewOf(req[c])))
  /\ UNCHANGED database

\* The last read of view: the revision must not have moved.  A full-case
\* graph goes on to be saved; everything else is answered.
ViewConfirm(c) ==
  /\ req[c].at = "viewConfirm"
  /\ \/ /\ req[c].before # revision
        /\ Fail(c)
     \/ /\ req[c].before = revision
        /\ IF req[c].kind = "graph" /\ req[c].root = None
           THEN Continue(c, [req[c] EXCEPT !.at = "graphSave"])
           ELSE Respond(c, Shown(req[c].kind, ViewOf(req[c])))
  /\ UNCHANGED database

\* Mutant: save_graph trusts the revision it is given.
GraphSaveUnchecked(c) ==
  /\ req[c].at = "graphSave"
  /\ storedGraph' = {ViewOf(req[c])}
  /\ Respond(c, Shown("graph", ViewOf(req[c])))
  /\ UNCHANGED <<evidence, revision, analysisRevision, correlations, imports>>

\* save_graph compares the pinned revision inside its transaction; it does
\* not look at the analysis the graph was built from.
GraphSave(c) ==
  /\ req[c].at = "graphSave"
  /\ IF req[c].pinned = revision
     THEN /\ storedGraph' = {ViewOf(req[c])}
          /\ Respond(c, Shown("graph", ViewOf(req[c])))
     ELSE Fail(c) /\ UNCHANGED storedGraph
  /\ UNCHANGED <<evidence, revision, analysisRevision, correlations, imports>>

-----------------------------------------------------------------------------
\* A write transaction that cannot commit (database locked, disk full) is
\* rolled back and its exception ends the request.
StorageFault(c) ==
  /\ req[c].at \in {"recordFailure", "analyzeSave", "graphSave"}
  /\ Fail(c)
  /\ UNCHANGED database

\* The API process dies with every request in flight and is started again.
Crash ==
  /\ req' = [c \in Client |-> Idle]
  /\ UNCHANGED <<evidence, revision, analysisRevision, correlations,
                 storedGraph, imports, answer>>

Step(c) ==
  \/ RecordFailure(c)
  \/ AnalyzeRead(c)
  \/ AnalyzeSave(c)
  \/ ViewBegin(c)
  \/ ViewEvents(c)
  \/ ViewCorrelations(c)
  \/ ViewConfirm(c)
  \/ GraphSave(c)
  \/ StorageFault(c)

Start(c) ==
  \/ \E batch \in Batch : PostEvents(c, batch.events)
  \/ \E batch \in Batch, i \in ImportId :
       ImportCommits(c, batch, i) \/ ImportRollsBack(c, batch, i)
  \/ \E minScore \in MinScore, root \in Root : AnalyzeStart(c, minScore, root)
  \/ \E root \in Root : ViewStart(c, root) \/ GraphStart(c, root)

Next ==
  \/ Crash
  \/ \E c \in Client : Start(c) \/ Step(c)

Spec == Init /\ [][Next]_vars

-----------------------------------------------------------------------------
(***************************************************************************)
(* Properties                                                              *)
(***************************************************************************)

\* Every variable has its type (one type invariant for the whole store).
TypeOK ==
  /\ evidence \in SUBSET Event
  /\ revision \in Nat
  /\ analysisRevision \in Nat \cup {None}
  /\ correlations \in SUBSET Edge
  /\ storedGraph \subseteq View
  /\ imports \subseteq Report
  /\ req \in [Client -> Request]
  /\ answer \in [Client -> Response]

\* A request whose revision is still the present one has read exactly the
\* present evidence and, once past correlations(), an analysis of it that
\* is still current; a request the evidence overtook can tell, because no
\* revision it pinned is ahead of the case.  This is why comparing revision
\* numbers is enough (AnalysisService.analyze, view, graph).
RequestTracksEvidence(r) ==
  /\ r.pinned <= revision
  /\ r.before <= revision
  /\ r.at \in {"analyzeRead", "analyzeSave"} => r.minScore \in MinScore
  /\ r.at = "graphSave" => r.root = None
  /\ r.at \in {"viewEvents", "viewCorrelations", "viewConfirm", "graphSave"} =>
       r.pinned <= r.before
  /\ r.before = revision =>
       /\ r.at \in {"analyzeSave", "viewCorrelations", "viewConfirm", "graphSave"} =>
            r.events = evidence
       /\ r.at \in {"viewConfirm", "graphSave"} =>
            /\ analysisRevision = revision
            /\ \E s \in MinScore : r.edges = Correlate(evidence, s)

RequestsTrackEvidence == \A c \in Client : RequestTracksEvidence(req[c])

\* What correlations() would return is the analysis, under some threshold a
\* client asked for, of exactly the stored evidence: an analysis computed
\* from an older reading of the events is never published, and evidence
\* never grows under a published one (save_correlations, add_events).
AnalysisMatchesEvidence ==
  /\ analysisRevision \in {None, revision}
  /\ analysisRevision = revision =>
       \E s \in MinScore : correlations = Correlate(evidence, s)

\* The persisted graph is a graph of the present evidence under some
\* threshold, and there is one only while the case has a current analysis.
\* It need not be the present threshold: see GraphSave (save_graph).
StoredGraphMatchesEvidence ==
  \A view \in storedGraph :
    /\ analysisRevision = revision
    /\ \E s \in MinScore :
         view = Focus(evidence, Correlate(evidence, s), None)

\* The report a client was handed is the report in the audit trail, also
\* when the first transaction was refused and another import came between
\* the two (import_batch).
ReceiptsMatchAudit ==
  \A c \in Client :
    answer[c].kind = "import" => answer[c].row \in imports

\* An import is recorded as SUCCESS exactly when all of its parser runs
\* are, and it never claims events it did not store (import_batch).
ReportsAgreeWithRuns ==
  \A report \in imports :
    /\ report.status = "SUCCESS" <=> report.states = {"SUCCESS"}
    /\ report.imported > 0 => report.status \in {"SUCCESS", "PARTIAL"}

\* The audit trail never counts an event twice: the imports together claim
\* no more events than the case holds, whatever was refused, retried or cut
\* off by a crash (import_batch, add_events).
ImportsAccountForEvidence ==
  LET claimed(report) == report.imported
  IN  MapThenSumSet(claimed, imports) <= Cardinality(evidence)

\* The audit trail tells what became of every import: its statuses and its counts
\* are those of what was stored (import_batch).
AuditAccountsForEvidence == ReportsAgreeWithRuns /\ ImportsAccountForEvidence

\* A view, graph or analysis handed to a client relates the complete
\* evidence of the moment it is handed over to an analysis of that very
\* evidence, although it was put together by up to five separate reads
\* (AnalysisService.view, graph, analyze).
AnswersAreCurrent ==
  [][\A c \in Client :
       answer'[c] # answer[c] /\ answer'[c].kind \in {"view", "graph", "analysis"}
       => \E s \in MinScore, root \in Root \cup {None} :
            answer'[c].view = Focus(evidence', Correlate(evidence', s), root)]_vars

\* The store keeps the promises of CaseContract: an import is atomic, also
\* when it takes two transactions, and a client that has read the analysis
\* either answers from it or is told that the evidence moved.
Outcome(report) ==
  [id |-> report.id, status |-> report.status, imported |-> report.imported]

Promised == INSTANCE CaseContract WITH
  analysis <- IF analysisRevision = revision THEN {correlations} ELSE {},
  graph    <- storedGraph,
  imports  <- {Outcome(report) : report \in imports},
  glimpse  <- [c \in Client |->
                 IF /\ req[c].at \in {"viewConfirm", "graphSave"}
                    /\ req[c].before = revision
                 THEN {req[c].edges}
                 ELSE {}],
  answer   <- [c \in Client |->
                 IF answer[c].kind = "import"
                 THEN Receipt(Outcome(answer[c].row))
                 ELSE answer[c]]

KeepsContract == Promised!Spec
=============================================================================
