--------------------------- MODULE CaseStoreProofs ---------------------------
(***************************************************************************)
(* Proofs about CaseStore for every number of clients, events, imports and *)
(* thresholds.                                                             *)
(***************************************************************************)
EXTENDS CaseStore, FiniteSetTheorems, TLAPS

-----------------------------------------------------------------------------
(***************************************************************************)
(* What the value operators return.                                        *)
(***************************************************************************)

\* The engine only ever returns edges between events.
LEMMA CorrelateType ==
  ASSUME NEW events, NEW s
  PROVE  Correlate(events, s) \in SUBSET Edge
BY DEF Correlate

\* A view of events and edges of the case is made of events and edges.
LEMMA FocusType ==
  ASSUME NEW events \in SUBSET Event, NEW edges \in SUBSET Edge, NEW root
  PROVE  Focus(events, edges, root) \in View
BY DEF Focus, View

\* Both reports import_batch can produce are well-formed reports.
LEMMA ReportType ==
  ASSUME NEW batch \in Batch, NEW i \in ImportId
  PROVE  /\ BatchReport(i, batch) \in Report
         /\ RefusedReport(i, batch) \in Report
<1>1. /\ batch.events \in SUBSET Event
      /\ batch.states \in SUBSET RunStatus
      /\ IsFiniteSet(batch.events)
  BY StoreAssumption
<1>2. Cardinality(batch.events) \in Nat
  BY <1>1, FS_CardinalityType
<1>3. ImportStatus(batch) \in Status
  BY DEF ImportStatus, Status
<1>4. BatchReport(i, batch) \in Report
  BY <1>1, <1>2, <1>3 DEF BatchReport, Report
<1>5. {Refused(s) : s \in batch.states} \in SUBSET RunStatus
  BY <1>1 DEF Refused, RunStatus
<1>6. RefusedReport(i, batch) \in Report
  BY <1>5 DEF RefusedReport, Report, Status
<1> QED
  BY <1>4, <1>6

LEMMA IdleType == Idle \in Request
BY DEF Idle, Request, RequestRecord, Stage

-----------------------------------------------------------------------------
(***************************************************************************)
(* Type correctness.                                                       *)
(***************************************************************************)

\* A request record replaced by another one keeps req a function.
LEMMA RequestReplaced ==
  ASSUME TypeOK, NEW c \in Client, NEW r \in Request,
         req' = [req EXCEPT ![c] = r]
  PROVE  /\ req' \in [Client -> Request]
         /\ req'[c] = r
         /\ \A d \in Client \ {c} : req'[d] = req[d]
BY DEF TypeOK

LEMMA AnswerReplaced ==
  ASSUME TypeOK, NEW c \in Client, NEW a \in Response,
         answer' = [answer EXCEPT ![c] = a]
  PROVE  /\ answer' \in [Client -> Response]
         /\ answer'[c] = a
         /\ \A d \in Client \ {c} : answer'[d] = answer[d]
BY DEF TypeOK

LEMMA ResponseType ==
  /\ NoAnswer \in Response
  /\ \A report \in Report : Receipt(report) \in Response
  /\ \A kind \in {"analysis", "view", "graph"}, view \in View :
       Shown(kind, view) \in Response
BY DEF Response, NoAnswer, Receipt, Shown


\* The view a request would answer with is well typed.
LEMMA ViewOfType ==
  ASSUME NEW r \in Request
  PROVE  ViewOf(r) \in View
BY FocusType DEF ViewOf, Request, RequestRecord

\* A request that moves on to the next read of view() stays well typed.
LEMMA ViewAdvances ==
  ASSUME NEW r \in Request,
         r.at \in {"viewBegin", "viewEvents", "viewCorrelations", "viewConfirm"}
  PROVE  /\ \A n \in Nat :
              [r EXCEPT !.at = "viewEvents", !.before = n] \in Request
         /\ \A events \in SUBSET Event :
              [r EXCEPT !.at = "viewCorrelations", !.events = events] \in Request
         /\ \A edges \in SUBSET Edge :
              [r EXCEPT !.at = "viewConfirm", !.edges = edges] \in Request
         /\ [r EXCEPT !.at = "graphSave"] \in Request
<1>1. r \in RequestRecord /\ r.kind \in {"view", "graph"}
  BY DEF Request
<1> QED
  BY <1>1 DEF Request, RequestRecord, Stage

LEMMA InitTypeOK == Init => TypeOK
<1> SUFFICES ASSUME Init PROVE TypeOK
  OBVIOUS
<1>1. req \in [Client -> Request]
  BY IdleType DEF Init
<1>2. answer \in [Client -> Response]
  BY ResponseType DEF Init
<1> QED
  BY <1>1, <1>2 DEF Init, TypeOK

LEMMA NextTypeOK == TypeOK /\ [Next]_vars => TypeOK'
<1> SUFFICES ASSUME TypeOK, [Next]_vars PROVE TypeOK'
  OBVIOUS
<1> USE DEF TypeOK
<1>1. ASSUME NEW c \in Client, NEW batch \in Batch, PostEvents(c, batch.events)
      PROVE  TypeOK'
  <2>1. batch.events \in SUBSET Event
    BY StoreAssumption
  <2>2. answer' \in [Client -> Response]
    BY <1>1, AnswerReplaced, ResponseType DEF PostEvents
  <2> QED
    BY <1>1, <2>1, <2>2 DEF PostEvents, Store
<1>2. ASSUME NEW c \in Client, NEW batch \in Batch, NEW i \in ImportId,
             ImportCommits(c, batch, i)
      PROVE  TypeOK'
  <2>1. batch.events \in SUBSET Event
    BY StoreAssumption
  <2>2. BatchReport(i, batch) \in Report
    BY ReportType
  <2>3. answer' \in [Client -> Response]
    BY <1>2, <2>2, AnswerReplaced, ResponseType DEF ImportCommits
  <2> QED
    BY <1>2, <2>1, <2>2, <2>3 DEF ImportCommits, Store
<1>3. ASSUME NEW c \in Client, NEW batch \in Batch, NEW i \in ImportId,
             ImportRollsBack(c, batch, i)
      PROVE  TypeOK'
  <2>1. [Idle EXCEPT !.at = "recordFailure", !.kind = "import",
                     !.reports = {RefusedReport(i, batch)}] \in Request
    BY ReportType DEF Idle, Request, RequestRecord, Stage
  <2>2. req' \in [Client -> Request]
    BY <1>3, <2>1, RequestReplaced DEF ImportRollsBack, Begin
  <2>3. answer' \in [Client -> Response]
    BY <1>3, AnswerReplaced, ResponseType DEF ImportRollsBack, Begin
  <2> QED
    BY <1>3, <2>2, <2>3 DEF ImportRollsBack, database
<1>4. ASSUME NEW c \in Client, NEW s \in MinScore, NEW root \in Root,
             AnalyzeStart(c, s, root)
      PROVE  TypeOK'
  <2>1. [Idle EXCEPT !.at = "analyzeRead", !.kind = "analysis",
                     !.minScore = s, !.root = root, !.before = revision] \in Request
    BY DEF Idle, Request, RequestRecord, Stage
  <2>2. req' \in [Client -> Request]
    BY <1>4, <2>1, RequestReplaced DEF AnalyzeStart, Begin
  <2>3. answer' \in [Client -> Response]
    BY <1>4, AnswerReplaced, ResponseType DEF AnalyzeStart, Begin
  <2> QED
    BY <1>4, <2>2, <2>3 DEF AnalyzeStart, database
<1>5. ASSUME NEW c \in Client, NEW root \in Root,
             ViewStart(c, root) \/ GraphStart(c, root)
      PROVE  TypeOK'
  <2>1. /\ [Idle EXCEPT !.at = "viewEvents", !.kind = "view",
                        !.root = root, !.before = revision] \in Request
        /\ [Idle EXCEPT !.at = "viewBegin", !.kind = "graph",
                        !.root = root, !.pinned = revision] \in Request
    BY DEF Idle, Request, RequestRecord, Stage
  <2>2. req' \in [Client -> Request]
    BY <1>5, <2>1, RequestReplaced DEF ViewStart, GraphStart, Begin
  <2>3. answer' \in [Client -> Response]
    BY <1>5, AnswerReplaced, ResponseType DEF ViewStart, GraphStart, Begin
  <2> QED
    BY <1>5, <2>2, <2>3 DEF ViewStart, GraphStart, database
<1>6. ASSUME NEW c \in Client, RecordFailure(c)
      PROVE  TypeOK'
  <2>1. PICK report \in req[c].reports :
          /\ imports' = imports \cup {report}
          /\ Respond(c, Receipt(report))
    BY <1>6 DEF RecordFailure
  <2>2. report \in Report
    BY DEF Request, RequestRecord
  <2>3. req' \in [Client -> Request]
    BY <2>1, IdleType, RequestReplaced DEF Respond
  <2>4. answer' \in [Client -> Response]
    BY <2>1, <2>2, AnswerReplaced, ResponseType DEF Respond
  <2> QED
    BY <1>6, <2>1, <2>2, <2>3, <2>4 DEF RecordFailure
<1>7. ASSUME NEW c \in Client, AnalyzeRead(c)
      PROVE  TypeOK'
  <2>1. [req[c] EXCEPT !.at = "analyzeSave", !.events = evidence] \in Request
    BY ZenonT(60) DEF Request, RequestRecord, Stage
  <2>2. req' \in [Client -> Request] /\ answer' = answer
    BY <1>7, <2>1, IdleType, RequestReplaced DEF AnalyzeRead, Continue, Fail
  <2> QED
    BY <1>7, <2>2 DEF AnalyzeRead, database
<1>8. ASSUME NEW c \in Client, AnalyzeSave(c)
      PROVE  TypeOK'
  <2> DEFINE edges == Correlate(req[c].events, req[c].minScore)
  <2>1. edges \in SUBSET Edge
    BY CorrelateType
  <2>2. Focus(req[c].events, edges, req[c].root) \in View
    BY <2>1, FocusType DEF Request, RequestRecord
  <2>3. req' \in [Client -> Request]
    BY <1>8, IdleType, RequestReplaced DEF AnalyzeSave, Respond, Fail
  <2>4. answer' \in [Client -> Response]
    <3>1. CASE req[c].before = revision
      <4>1. answer' = [answer EXCEPT ![c] =
                         Shown("analysis", Focus(req[c].events, edges, req[c].root))]
        BY <1>8, <3>1 DEF AnalyzeSave, Respond
      <4>2. Shown("analysis", Focus(req[c].events, edges, req[c].root)) \in Response
        BY <2>2, ResponseType
      <4> QED
        BY <4>1, <4>2, AnswerReplaced
    <3>2. CASE req[c].before # revision
      BY <1>8, <3>2 DEF AnalyzeSave, Fail
    <3> QED
      BY <3>1, <3>2
  <2>5. req[c].before \in Nat
    BY DEF Request, RequestRecord
  <2>6. correlations' \in SUBSET Edge /\ analysisRevision' \in Nat \cup {None}
    BY <1>8, <2>1, <2>5 DEF AnalyzeSave, Respond, Fail
  <2> QED
    BY <1>8, <2>3, <2>4, <2>6 DEF AnalyzeSave
<1>9. ASSUME NEW c \in Client, ViewBegin(c)
      PROVE  TypeOK'
  <2>1. [req[c] EXCEPT !.at = "viewEvents", !.before = revision] \in Request
    BY <1>9, ViewAdvances DEF ViewBegin
  <2>2. req' \in [Client -> Request] /\ answer' = answer
    BY <1>9, <2>1, RequestReplaced DEF ViewBegin, Continue
  <2> QED
    BY <1>9, <2>2 DEF ViewBegin, database
<1>10. ASSUME NEW c \in Client, ViewEvents(c)
       PROVE  TypeOK'
  <2>1. [req[c] EXCEPT !.at = "viewCorrelations", !.events = evidence] \in Request
    BY <1>10, ViewAdvances DEF ViewEvents
  <2>2. req' \in [Client -> Request] /\ answer' = answer
    BY <1>10, <2>1, IdleType, RequestReplaced DEF ViewEvents, Continue, Fail
  <2> QED
    BY <1>10, <2>2 DEF ViewEvents, database
<1>11. ASSUME NEW c \in Client, ViewCorrelations(c)
       PROVE  TypeOK'
  <2>1. [req[c] EXCEPT !.at = "viewConfirm", !.edges = correlations] \in Request
    BY <1>11, ViewAdvances DEF ViewCorrelations
  <2>2. req' \in [Client -> Request] /\ answer' = answer
    BY <1>11, <2>1, IdleType, RequestReplaced DEF ViewCorrelations, Continue, Fail
  <2> QED
    BY <1>11, <2>2 DEF ViewCorrelations, database
<1>12. ASSUME NEW c \in Client, ViewConfirm(c)
       PROVE  TypeOK'
  <2>1. UNCHANGED database
    BY <1>12 DEF ViewConfirm
  <2>2. [req[c] EXCEPT !.at = "graphSave"] \in Request
    BY DEF Request, RequestRecord, Stage
  <2>3. CASE Fail(c) \/ Continue(c, [req[c] EXCEPT !.at = "graphSave"])
    BY <2>1, <2>2, <2>3, IdleType, RequestReplaced DEF Fail, Continue, database
  <2>4. CASE Respond(c, Shown(req[c].kind, ViewOf(req[c]))) /\ req[c].kind \in {"view", "graph", "analysis"}
    <3>1. Shown(req[c].kind, ViewOf(req[c])) \in Response
      BY <2>4, ViewOfType, ResponseType
    <3>2. answer' \in [Client -> Response]
      BY <2>4, <3>1, AnswerReplaced DEF Respond
    <3>3. req' \in [Client -> Request]
      BY <2>4, IdleType, RequestReplaced DEF Respond
    <3> QED
      BY <2>1, <3>2, <3>3 DEF database
  <2>5. req[c].at = "viewConfirm" /\ req[c] \in Request
    BY <1>12 DEF ViewConfirm
  <2>6. req[c].kind \in {"view", "graph"}
    BY <2>5 DEF Request
  <2> QED
    BY <1>12, <2>3, <2>4, <2>6 DEF ViewConfirm
<1>13. ASSUME NEW c \in Client, GraphSave(c)
       PROVE  TypeOK'
  <2>1. ViewOf(req[c]) \in View
    BY ViewOfType
  <2>2. req' \in [Client -> Request]
    BY <1>13, IdleType, RequestReplaced DEF GraphSave, Respond, Fail
  <2>3. Shown("graph", ViewOf(req[c])) \in Response
    BY <2>1, ResponseType
  <2>4. answer' \in [Client -> Response]
    BY <1>13, <2>3, AnswerReplaced DEF GraphSave, Respond, Fail
  <2>5. storedGraph' \subseteq View
    BY <1>13, <2>1 DEF GraphSave
  <2> QED
    BY <1>13, <2>2, <2>4, <2>5 DEF GraphSave
<1>14. ASSUME NEW c \in Client, StorageFault(c)
       PROVE  TypeOK'
  BY <1>14, IdleType, RequestReplaced DEF StorageFault, Fail, database
<1>15. ASSUME Crash
       PROVE  TypeOK'
  BY <1>15, IdleType DEF Crash
<1>16. CASE UNCHANGED vars
  BY <1>16 DEF vars
<1> QED
  BY <1>1, <1>2, <1>3, <1>4, <1>5, <1>6, <1>7, <1>8, <1>9, <1>10, <1>11,
     <1>12, <1>13, <1>14, <1>15, <1>16 DEF Next, Start, Step

\* Every reachable state of the store is well typed.
THEOREM TypeCorrect == Spec => []TypeOK
<1> QED
  BY InitTypeOK, NextTypeOK, PTL DEF Spec

-----------------------------------------------------------------------------
(***************************************************************************)
(* The revision check is enough.  AnalysisMatchesEvidence is not inductive *)
(* by itself: AnalyzeSave publishes what a request read several steps ago. *)
(* RequestsTrackEvidence says what such a request may still rely on.       *)
(***************************************************************************)

IInv ==
  /\ TypeOK
  /\ RequestsTrackEvidence
  /\ AnalysisMatchesEvidence
  /\ StoredGraphMatchesEvidence

\* Only the parts that are not about types.
Consistent ==
  /\ RequestsTrackEvidence
  /\ AnalysisMatchesEvidence
  /\ StoredGraphMatchesEvidence

LEMMA IdleTracks == ASSUME TypeOK PROVE RequestTracksEvidence(Idle)
BY DEF TypeOK, RequestTracksEvidence, Idle

\* A step that leaves the database alone and gives one request a state that
\* tracks the evidence keeps the invariant.
LEMMA OneRequestMoves ==
  ASSUME IInv, UNCHANGED database, NEW c \in Client, NEW r \in Request,
         req' = [req EXCEPT ![c] = r], RequestTracksEvidence(r)
  PROVE  Consistent'
<1>1. /\ evidence' = evidence /\ revision' = revision
      /\ analysisRevision' = analysisRevision
      /\ correlations' = correlations /\ storedGraph' = storedGraph
  BY DEF database
<1>2. ASSUME NEW d \in Client
      PROVE  RequestTracksEvidence(req'[d])
  BY RequestReplaced DEF IInv, RequestsTrackEvidence
<1>3. RequestsTrackEvidence'
  BY <1>1, <1>2 DEF RequestsTrackEvidence, RequestTracksEvidence
<1> QED
  BY <1>1, <1>3 DEF IInv, Consistent, AnalysisMatchesEvidence, StoredGraphMatchesEvidence

\* Storing events keeps the invariant: no request is at the new revision.
LEMMA StoreKeeps ==
  ASSUME IInv, NEW events \in SUBSET Event, Store(events), UNCHANGED req
  PROVE  Consistent'
<1>1. CASE events = {}
  BY <1>1 DEF Store, IInv, Consistent, RequestsTrackEvidence, RequestTracksEvidence,
              AnalysisMatchesEvidence, StoredGraphMatchesEvidence
<1>2. CASE events # {}
  <2>1. /\ revision' = revision + 1 /\ analysisRevision' = None
        /\ storedGraph' = {} /\ revision \in Nat /\ req' = req
    BY <1>2 DEF Store, IInv, TypeOK
  <2>2. ASSUME NEW d \in Client
        PROVE  RequestTracksEvidence(req[d])'
    <3>1. /\ RequestTracksEvidence(req[d])
          /\ req[d].before \in Nat /\ req[d].pinned \in Nat
      BY DEF IInv, RequestsTrackEvidence, TypeOK, Request, RequestRecord
    <3>2. req[d].before # revision'
      BY <2>1, <3>1 DEF RequestTracksEvidence
    <3> QED
      BY <2>1, <3>1, <3>2 DEF RequestTracksEvidence
  <2>3. analysisRevision' # revision'
    BY <2>1, ValuesAssumption
  <2> QED
    BY <2>1, <2>2, <2>3 DEF Consistent, RequestsTrackEvidence,
                            AnalysisMatchesEvidence, StoredGraphMatchesEvidence
<1> QED
  BY <1>1, <1>2

LEMMA InitIInv == Init => IInv
<1> SUFFICES ASSUME Init PROVE IInv
  OBVIOUS
<1>1. TypeOK
  BY InitTypeOK
<1>2. RequestsTrackEvidence
  BY <1>1, IdleTracks DEF Init, RequestsTrackEvidence
<1>3. AnalysisMatchesEvidence /\ StoredGraphMatchesEvidence
  BY ValuesAssumption DEF Init, AnalysisMatchesEvidence, StoredGraphMatchesEvidence
<1> QED
  BY <1>1, <1>2, <1>3 DEF IInv

LEMMA NextIInv == IInv /\ [Next]_vars => IInv'
<1> SUFFICES ASSUME IInv, [Next]_vars PROVE Consistent'
  BY NextTypeOK DEF IInv, Consistent
<1>0. TypeOK /\ RequestTracksEvidence(Idle) /\ Idle \in Request
  BY IdleTracks, IdleType DEF IInv
<1>1. ASSUME NEW c \in Client, NEW batch \in Batch, PostEvents(c, batch.events)
      PROVE  Consistent'
  BY <1>1, StoreAssumption, StoreKeeps DEF PostEvents
<1>2. ASSUME NEW c \in Client, NEW batch \in Batch, NEW i \in ImportId,
             ImportCommits(c, batch, i)
      PROVE  Consistent'
  BY <1>2, StoreAssumption, StoreKeeps DEF ImportCommits
<1>3. ASSUME NEW c \in Client, NEW batch \in Batch, NEW i \in ImportId,
             ImportRollsBack(c, batch, i)
      PROVE  Consistent'
  <2> DEFINE r == [Idle EXCEPT !.at = "recordFailure", !.kind = "import",
                               !.reports = {RefusedReport(i, batch)}]
  <2>1. r \in Request
    BY ReportType DEF Idle, Request, RequestRecord, Stage
  <2>2. RequestTracksEvidence(r)
    BY <1>0 DEF Idle, TypeOK, RequestTracksEvidence
  <2>3. req' = [req EXCEPT ![c] = r] /\ UNCHANGED database
    BY <1>3 DEF ImportRollsBack, Begin
  <2> QED
    BY <2>1, <2>2, <2>3, OneRequestMoves
<1>4. ASSUME NEW c \in Client, NEW s \in MinScore, NEW root \in Root,
             AnalyzeStart(c, s, root)
      PROVE  Consistent'
  <2> DEFINE r == [Idle EXCEPT !.at = "analyzeRead", !.kind = "analysis",
                               !.minScore = s, !.root = root, !.before = revision]
  <2>1. r \in Request
    BY <1>0 DEF TypeOK, Idle, Request, RequestRecord, Stage
  <2>2. RequestTracksEvidence(r)
    BY <1>0 DEF Idle, TypeOK, RequestTracksEvidence
  <2>3. req' = [req EXCEPT ![c] = r] /\ UNCHANGED database
    BY <1>4 DEF AnalyzeStart, Begin
  <2> QED
    BY <2>1, <2>2, <2>3, OneRequestMoves
<1>5. ASSUME NEW c \in Client, NEW root \in Root, ViewStart(c, root)
      PROVE  Consistent'
  <2> DEFINE r == [Idle EXCEPT !.at = "viewEvents", !.kind = "view",
                               !.root = root, !.before = revision]
  <2>1. r \in Request
    BY <1>0 DEF TypeOK, Idle, Request, RequestRecord, Stage
  <2>2. RequestTracksEvidence(r)
    BY <1>0 DEF Idle, TypeOK, RequestTracksEvidence
  <2>3. req' = [req EXCEPT ![c] = r] /\ UNCHANGED database
    BY <1>5 DEF ViewStart, Begin
  <2> QED
    BY <2>1, <2>2, <2>3, OneRequestMoves
<1>6. ASSUME NEW c \in Client, NEW root \in Root, GraphStart(c, root)
      PROVE  Consistent'
  <2> DEFINE r == [Idle EXCEPT !.at = "viewBegin", !.kind = "graph",
                               !.root = root, !.pinned = revision]
  <2>1. r \in Request
    BY <1>0 DEF TypeOK, Idle, Request, RequestRecord, Stage
  <2>2. RequestTracksEvidence(r)
    BY <1>0 DEF Idle, TypeOK, RequestTracksEvidence
  <2>3. req' = [req EXCEPT ![c] = r] /\ UNCHANGED database
    BY <1>6 DEF GraphStart, Begin
  <2> QED
    BY <2>1, <2>2, <2>3, OneRequestMoves
<1>7. ASSUME NEW c \in Client, RecordFailure(c)
      PROVE  Consistent'
  <2>1. req' = [req EXCEPT ![c] = Idle]
    BY <1>7 DEF RecordFailure, Respond
  <2>2. ASSUME NEW d \in Client
        PROVE  RequestTracksEvidence(req'[d])
    BY <1>0, <2>1, RequestReplaced DEF IInv, RequestsTrackEvidence
  <2> QED
    BY <1>7, <2>2 DEF RecordFailure, IInv, Consistent, RequestsTrackEvidence,
                      RequestTracksEvidence, AnalysisMatchesEvidence,
                      StoredGraphMatchesEvidence
<1>8. ASSUME NEW c \in Client, AnalyzeRead(c)
      PROVE  Consistent'
  <2> DEFINE r == [req[c] EXCEPT !.at = "analyzeSave", !.events = evidence]
  <2>1. req[c] \in Request /\ RequestTracksEvidence(req[c]) /\ req[c].at = "analyzeRead"
    BY <1>0, <1>8 DEF IInv, TypeOK, RequestsTrackEvidence, AnalyzeRead
  <2>2. r \in Request
    BY <1>0, <2>1 DEF TypeOK, Request, RequestRecord, Stage
  <2>3. RequestTracksEvidence(r)
    BY <2>1 DEF Request, RequestRecord, RequestTracksEvidence
  <2>4. /\ req' = [req EXCEPT ![c] = r] \/ req' = [req EXCEPT ![c] = Idle]
        /\ UNCHANGED database
    BY <1>8 DEF AnalyzeRead, Continue, Fail
  <2> QED
    BY <1>0, <2>2, <2>3, <2>4, OneRequestMoves
<1>9. ASSUME NEW c \in Client, AnalyzeSave(c)
      PROVE  Consistent'
  <2>1. req' = [req EXCEPT ![c] = Idle]
    BY <1>9 DEF AnalyzeSave, Respond, Fail
  <2>2. RequestTracksEvidence(req[c]) /\ req[c].at = "analyzeSave"
    BY <1>9 DEF IInv, RequestsTrackEvidence, AnalyzeSave
  <2>3. /\ evidence' = evidence /\ revision' = revision /\ storedGraph' = storedGraph
        /\ analysisRevision' = analysisRevision \/ analysisRevision' = revision
        /\ analysisRevision = revision => analysisRevision' = revision
    BY <1>9 DEF AnalyzeSave
  <2>4. ASSUME NEW d \in Client
        PROVE  RequestTracksEvidence(req[d])'
    <3>1. RequestTracksEvidence(req'[d])
      BY <1>0, <2>1, RequestReplaced DEF IInv, RequestsTrackEvidence
    <3> QED
      BY <2>3, <3>1 DEF RequestTracksEvidence
  <2>5. AnalysisMatchesEvidence'
    <3>1. CASE req[c].before = revision
      <4>1. /\ analysisRevision' = revision
            /\ correlations' = Correlate(req[c].events, req[c].minScore)
        BY <1>9, <3>1 DEF AnalyzeSave
      <4>2. req[c].events = evidence /\ req[c].minScore \in MinScore
        BY <2>2, <3>1 DEF RequestTracksEvidence
      <4> QED
        BY <2>3, <4>1, <4>2 DEF AnalysisMatchesEvidence
    <3>2. CASE req[c].before # revision
      BY <1>9, <2>3, <3>2 DEF AnalyzeSave, IInv, AnalysisMatchesEvidence
    <3> QED
      BY <3>1, <3>2
  <2>6. StoredGraphMatchesEvidence'
    BY <2>3 DEF IInv, StoredGraphMatchesEvidence
  <2> QED
    BY <2>4, <2>5, <2>6 DEF Consistent, RequestsTrackEvidence
<1>10. ASSUME NEW c \in Client, ViewBegin(c)
       PROVE  Consistent'
  <2> DEFINE r == [req[c] EXCEPT !.at = "viewEvents", !.before = revision]
  <2>1. req[c] \in Request /\ RequestTracksEvidence(req[c]) /\ req[c].at = "viewBegin"
    BY <1>0, <1>10 DEF IInv, TypeOK, RequestsTrackEvidence, ViewBegin
  <2>2. r \in Request
    BY <1>0, <2>1, ViewAdvances DEF TypeOK
  <2>3. RequestTracksEvidence(r)
    BY <1>0, <2>1 DEF TypeOK, Request, RequestRecord, RequestTracksEvidence
  <2> QED
    BY <1>10, <2>2, <2>3, OneRequestMoves DEF ViewBegin, Continue
<1>11. ASSUME NEW c \in Client, ViewEvents(c)
       PROVE  Consistent'
  <2> DEFINE r == [req[c] EXCEPT !.at = "viewCorrelations", !.events = evidence]
  <2>1. req[c] \in Request /\ RequestTracksEvidence(req[c]) /\ req[c].at = "viewEvents"
    BY <1>0, <1>11 DEF IInv, TypeOK, RequestsTrackEvidence, ViewEvents
  <2>2. r \in Request
    BY <1>0, <2>1, ViewAdvances DEF TypeOK
  <2>3. RequestTracksEvidence(r)
    BY <1>0, <2>1 DEF TypeOK, Request, RequestRecord, RequestTracksEvidence
  <2>4. /\ req' = [req EXCEPT ![c] = r] \/ req' = [req EXCEPT ![c] = Idle]
        /\ UNCHANGED database
    BY <1>11 DEF ViewEvents, Continue, Fail
  <2> QED
    BY <1>0, <2>2, <2>3, <2>4, OneRequestMoves
<1>12. ASSUME NEW c \in Client, ViewCorrelations(c)
       PROVE  Consistent'
  <2> DEFINE r == [req[c] EXCEPT !.at = "viewConfirm", !.edges = correlations]
  <2>1. /\ req[c] \in Request /\ RequestTracksEvidence(req[c])
        /\ req[c].at = "viewCorrelations"
    BY <1>0, <1>12 DEF IInv, TypeOK, RequestsTrackEvidence, ViewCorrelations
  <2>2. r \in Request
    BY <1>0, <2>1, ViewAdvances DEF TypeOK
  <2>3. CASE analysisRevision = revision
    <3>1. \E s \in MinScore : correlations = Correlate(evidence, s)
      BY <2>3 DEF IInv, AnalysisMatchesEvidence
    <3>2. RequestTracksEvidence(r)
      BY <2>1, <2>3, <3>1 DEF Request, RequestRecord, RequestTracksEvidence
    <3> QED
      BY <1>12, <2>2, <2>3, <3>2, OneRequestMoves DEF ViewCorrelations, Continue
  <2>4. CASE analysisRevision # revision
    BY <1>0, <1>12, <2>4, OneRequestMoves DEF ViewCorrelations, Fail
  <2> QED
    BY <2>3, <2>4
<1>13. ASSUME NEW c \in Client, ViewConfirm(c)
       PROVE  Consistent'
  <2> DEFINE r == [req[c] EXCEPT !.at = "graphSave"]
  <2>1. req[c] \in Request /\ RequestTracksEvidence(req[c]) /\ req[c].at = "viewConfirm"
    BY <1>0, <1>13 DEF IInv, TypeOK, RequestsTrackEvidence, ViewConfirm
  <2>2. r \in Request
    BY <2>1, ViewAdvances
  <2>3. CASE req[c].root = None
    <3>1. RequestTracksEvidence(r)
      BY <2>1, <2>3 DEF Request, RequestRecord, RequestTracksEvidence
    <3>2. /\ req' = [req EXCEPT ![c] = r] \/ req' = [req EXCEPT ![c] = Idle]
          /\ UNCHANGED database
      BY <1>13 DEF ViewConfirm, Continue, Respond, Fail
    <3> QED
      BY <1>0, <2>2, <3>1, <3>2, OneRequestMoves
  <2>4. CASE req[c].root # None
    <3>1. req' = [req EXCEPT ![c] = Idle] /\ UNCHANGED database
      BY <1>13, <2>4 DEF ViewConfirm, Respond, Fail
    <3> QED
      BY <1>0, <3>1, OneRequestMoves
  <2> QED
    BY <2>3, <2>4
<1>14. ASSUME NEW c \in Client, GraphSave(c)
       PROVE  Consistent'
  <2>1. req' = [req EXCEPT ![c] = Idle]
    BY <1>14 DEF GraphSave, Respond, Fail
  <2>2. RequestTracksEvidence(req[c]) /\ req[c].at = "graphSave" /\ req[c] \in Request
    BY <1>14 DEF IInv, TypeOK, RequestsTrackEvidence, GraphSave
  <2>3. /\ evidence' = evidence /\ revision' = revision
        /\ analysisRevision' = analysisRevision /\ correlations' = correlations
    BY <1>14 DEF GraphSave
  <2>4. ASSUME NEW d \in Client
        PROVE  RequestTracksEvidence(req[d])'
    <3>1. RequestTracksEvidence(req'[d])
      BY <1>0, <2>1, RequestReplaced DEF IInv, RequestsTrackEvidence
    <3> QED
      BY <2>3, <3>1 DEF RequestTracksEvidence
  <2>5. AnalysisMatchesEvidence'
    BY <2>3 DEF IInv, AnalysisMatchesEvidence
  <2>6. StoredGraphMatchesEvidence'
    <3>1. CASE req[c].pinned = revision
      <4>1. req[c].before = revision
        BY <1>0, <2>2, <3>1 DEF TypeOK, Request, RequestRecord, RequestTracksEvidence
      <4>2. /\ analysisRevision = revision /\ req[c].events = evidence
            /\ req[c].root = None
            /\ \E s \in MinScore : req[c].edges = Correlate(evidence, s)
        BY <2>2, <4>1 DEF RequestTracksEvidence
      <4>3. storedGraph' = {Focus(req[c].events, req[c].edges, req[c].root)}
        BY <1>14, <3>1 DEF GraphSave, ViewOf
      <4> QED
        BY <2>3, <4>2, <4>3 DEF StoredGraphMatchesEvidence
    <3>2. CASE req[c].pinned # revision
      BY <1>14, <2>3, <3>2 DEF GraphSave, IInv, StoredGraphMatchesEvidence
    <3> QED
      BY <3>1, <3>2
  <2> QED
    BY <2>4, <2>5, <2>6 DEF Consistent, RequestsTrackEvidence
<1>15. ASSUME NEW c \in Client, StorageFault(c)
       PROVE  Consistent'
  BY <1>0, <1>15, OneRequestMoves DEF StorageFault, Fail
<1>16. ASSUME Crash
       PROVE  Consistent'
  <2>1. \A d \in Client : req'[d] = Idle
    BY <1>16 DEF Crash
  <2> QED
    BY <1>0, <1>16, <2>1
    DEF Crash, IInv, Consistent, RequestsTrackEvidence, RequestTracksEvidence,
        AnalysisMatchesEvidence, StoredGraphMatchesEvidence
<1>17. CASE UNCHANGED vars
  BY <1>17 DEF vars, IInv, Consistent, RequestsTrackEvidence, RequestTracksEvidence,
               AnalysisMatchesEvidence, StoredGraphMatchesEvidence
<1> QED
  BY <1>1, <1>2, <1>3, <1>4, <1>5, <1>6, <1>7, <1>8, <1>9, <1>10, <1>11,
     <1>12, <1>13, <1>14, <1>15, <1>16, <1>17 DEF Next, Start, Step

LEMMA IInvHolds == Spec => []IInv
<1> QED
  BY InitIInv, NextIInv, PTL DEF Spec

\* A request whose revision is current relies only on what is still true.
THEOREM RequestsStaySound == Spec => []RequestsTrackEvidence
<1>1. IInv => RequestsTrackEvidence
  BY DEF IInv
<1> QED
  BY <1>1, IInvHolds, PTL

\* The published analysis is always the analysis of exactly the stored
\* evidence, whatever imports and analyses interleave and wherever the
\* process dies.
THEOREM PublishedAnalysisIsCurrent == Spec => []AnalysisMatchesEvidence
<1>1. IInv => AnalysisMatchesEvidence
  BY DEF IInv
<1> QED
  BY <1>1, IInvHolds, PTL

\* The persisted graph is always a graph of the stored evidence.
THEOREM StoredGraphIsCurrent == Spec => []StoredGraphMatchesEvidence
<1>1. IInv => StoredGraphMatchesEvidence
  BY DEF IInv
<1> QED
  BY <1>1, IInvHolds, PTL

-----------------------------------------------------------------------------
(***************************************************************************)
(* Answers.                                                                *)
(***************************************************************************)

Described(c) ==
  answer'[c] # answer[c] /\ answer'[c].kind \in {"view", "graph", "analysis"}
  => \E s \in MinScore, root \in Root \cup {None} :
       answer'[c].view = Focus(evidence', Correlate(evidence', s), root)

\* Responses that show no view describe nothing.
LEMMA OtherResponse ==
  ASSUME TypeOK, NEW c \in Client, NEW a,
         a = NoAnswer \/ \E report \in Report : a = Receipt(report),
         answer' = [answer EXCEPT ![c] = a]
  PROVE  \A d \in Client : Described(d)
<1>1. a.kind \notin {"view", "graph", "analysis"}
  BY DEF NoAnswer, Receipt
<1>2. \A d \in Client : answer'[d] = answer[d] \/ answer'[d] = a
  BY DEF TypeOK
<1> QED
  BY <1>1, <1>2 DEF Described

\* A shown view describes the evidence if it is made of it.
LEMMA ShownResponse ==
  ASSUME TypeOK, NEW c \in Client, NEW kind, NEW view, NEW s \in MinScore,
         NEW root \in Root \cup {None},
         view = Focus(evidence', Correlate(evidence', s), root),
         answer' = [answer EXCEPT ![c] = Shown(kind, view)]
  PROVE  \A d \in Client : Described(d)
<1>1. \A d \in Client : answer'[d] = answer[d] \/ answer'[d] = Shown(kind, view)
  BY DEF TypeOK
<1>2. Shown(kind, view).view = view
  BY DEF Shown
<1> QED
  BY <1>1, <1>2 DEF Described

LEMMA NextDescribes == IInv /\ [Next]_vars => \A c \in Client : Described(c)
<1> SUFFICES ASSUME IInv, [Next]_vars PROVE \A c \in Client : Described(c)
  OBVIOUS
<1>0. TypeOK
  BY DEF IInv
<1>1. CASE answer' = answer
  BY <1>1 DEF Described
<1>2. ASSUME NEW c \in Client, answer' = [answer EXCEPT ![c] = NoAnswer]
      PROVE  \A d \in Client : Described(d)
  BY <1>0, <1>2, OtherResponse
<1>3. ASSUME NEW c \in Client, NEW batch \in Batch, NEW i \in ImportId,
             ImportCommits(c, batch, i)
      PROVE  \A d \in Client : Described(d)
  BY <1>0, <1>3, ReportType, OtherResponse DEF ImportCommits
<1>4. ASSUME NEW c \in Client, RecordFailure(c)
      PROVE  \A d \in Client : Described(d)
  <2>1. PICK report \in req[c].reports : Respond(c, Receipt(report))
    BY <1>4 DEF RecordFailure
  <2>2. report \in Report
    BY <1>0 DEF TypeOK, Request, RequestRecord
  <2> QED
    BY <1>0, <2>1, <2>2, OtherResponse DEF Respond
<1>5. ASSUME NEW c \in Client, AnalyzeSave(c), answer' # answer
      PROVE  \A d \in Client : Described(d)
  <2>1. req[c].before = revision
    BY <1>5 DEF AnalyzeSave, Fail
  <2>2. /\ req[c].at = "analyzeSave" /\ RequestTracksEvidence(req[c])
        /\ req[c].root \in Root \cup {None}
    BY <1>0, <1>5 DEF AnalyzeSave, IInv, RequestsTrackEvidence, TypeOK,
                      Request, RequestRecord
  <2>3. req[c].events = evidence /\ req[c].minScore \in MinScore /\ evidence' = evidence
    BY <1>5, <2>1, <2>2 DEF RequestTracksEvidence, AnalyzeSave
  <2> DEFINE view == Focus(evidence', Correlate(evidence', req[c].minScore), req[c].root)
  <2>4. answer' = [answer EXCEPT ![c] = Shown("analysis", view)]
    BY <1>5, <2>1, <2>3 DEF AnalyzeSave, Respond
  <2> QED
    BY <1>0, <2>2, <2>3, <2>4, ShownResponse
<1>6. ASSUME NEW c \in Client, ViewConfirm(c) \/ GraphSave(c), answer' # answer
      PROVE  \A d \in Client : Described(d)
  <2>1. /\ req[c].at \in {"viewConfirm", "graphSave"}
        /\ RequestTracksEvidence(req[c]) /\ req[c] \in RequestRecord
    BY <1>0, <1>6 DEF ViewConfirm, GraphSave, IInv, RequestsTrackEvidence, TypeOK, Request
  <2>2. req[c].before = revision
    <3>1. CASE ViewConfirm(c)
      BY <1>6, <3>1 DEF ViewConfirm, Fail
    <3>2. CASE GraphSave(c)
      <4>1. req[c].pinned = revision /\ req[c].at = "graphSave"
        BY <1>6, <3>2 DEF GraphSave, Fail
      <4> QED
        BY <1>0, <2>1, <4>1 DEF TypeOK, RequestRecord, RequestTracksEvidence
    <3> QED
      BY <1>6, <3>1, <3>2
  <2>3. PICK kind : answer' = [answer EXCEPT ![c] = Shown(kind, ViewOf(req[c]))]
    BY <1>6 DEF ViewConfirm, GraphSave, Respond, Continue, Fail
  <2>4. PICK s \in MinScore : req[c].edges = Correlate(evidence, s)
    BY <2>1, <2>2 DEF RequestTracksEvidence
  <2>5. req[c].events = evidence /\ evidence' = evidence
    BY <1>6, <2>1, <2>2 DEF RequestTracksEvidence, ViewConfirm, GraphSave, database
  <2>6. ViewOf(req[c]) = Focus(evidence', Correlate(evidence', s), req[c].root)
    BY <2>4, <2>5 DEF ViewOf
  <2>7. req[c].root \in Root \cup {None}
    BY <2>1 DEF RequestRecord
  <2> QED
    BY <1>0, <2>3, <2>6, <2>7, ShownResponse
<1>7. CASE UNCHANGED vars
  BY <1>1, <1>7 DEF vars
<1>8. ASSUME NEW c \in Client, Start(c)
      PROVE  \A d \in Client : Described(d)
  BY <1>2, <1>3, <1>8 DEF Start, PostEvents, ImportRollsBack, AnalyzeStart, ViewStart,
                          GraphStart, Begin
<1>9. ASSUME NEW c \in Client, Step(c)
      PROVE  \A d \in Client : Described(d)
  BY <1>1, <1>4, <1>5, <1>6, <1>9 DEF Step, AnalyzeRead, ViewBegin, ViewEvents,
     ViewCorrelations, StorageFault, Continue, Fail
<1>10. CASE Crash
  BY <1>1, <1>10 DEF Crash
<1> QED
  BY <1>7, <1>8, <1>9, <1>10 DEF Next

\* Whatever a client is shown relates all the evidence of that moment to an
\* analysis of exactly that evidence.
THEOREM AnswersDescribeTheEvidence == Spec => AnswersAreCurrent
<1>1. IInv /\ [Next]_vars =>
        [\A c \in Client :
           answer'[c] # answer[c] /\ answer'[c].kind \in {"view", "graph", "analysis"}
           => \E s \in MinScore, root \in Root \cup {None} :
                answer'[c].view = Focus(evidence', Correlate(evidence', s), root)]_vars
  BY NextDescribes DEF Described
<1> QED
  BY <1>1, IInvHolds, PTL DEF Spec, AnswersAreCurrent

\* A receipt handed to a client is in the audit trail and stays there.
THEOREM ReceiptsAreRecorded == Spec => []ReceiptsMatchAudit
<1>1. Init => ReceiptsMatchAudit
  BY DEF Init, ReceiptsMatchAudit, NoAnswer
<1>2. TypeOK /\ ReceiptsMatchAudit /\ [Next]_vars => ReceiptsMatchAudit'
  <2> SUFFICES ASSUME TypeOK, ReceiptsMatchAudit, [Next]_vars
               PROVE  ReceiptsMatchAudit'
    OBVIOUS
  <2>1. imports \subseteq imports'
    BY DEF Next, Start, Step, PostEvents, ImportCommits, ImportRollsBack, RecordFailure,
       AnalyzeStart, AnalyzeRead, AnalyzeSave, ViewStart, GraphStart, ViewBegin,
       ViewEvents, ViewCorrelations, ViewConfirm, GraphSave, StorageFault, Crash,
       database, vars
  <2>2. ASSUME NEW c \in Client, NEW a, answer' = [answer EXCEPT ![c] = a],
               a.kind = "import" => a.row \in imports'
        PROVE  ReceiptsMatchAudit'
    <3>1. \A d \in Client : answer'[d] = answer[d] \/ answer'[d] = a
      BY <2>2 DEF TypeOK
    <3> QED
      BY <2>1, <2>2, <3>1 DEF ReceiptsMatchAudit
  <2>3. CASE answer' = answer
    BY <2>1, <2>3 DEF ReceiptsMatchAudit
  <2>4. ASSUME NEW c \in Client, NEW a, answer' = [answer EXCEPT ![c] = a],
               a = NoAnswer \/ \E kind, view : kind # "import" /\ a = Shown(kind, view)
        PROVE  ReceiptsMatchAudit'
    <3>1. a.kind # "import"
      BY <2>4 DEF NoAnswer, Shown
    <3> QED
      BY <2>2, <2>4, <3>1
  <2>5. ASSUME NEW c \in Client, NEW batch \in Batch, NEW i \in ImportId,
               ImportCommits(c, batch, i)
        PROVE  ReceiptsMatchAudit'
    <3>1. Receipt(BatchReport(i, batch)).row \in imports'
      BY <2>5 DEF ImportCommits, Receipt
    <3> QED
      BY <2>2, <2>5, <3>1 DEF ImportCommits
  <2>6. ASSUME NEW c \in Client, RecordFailure(c)
        PROVE  ReceiptsMatchAudit'
    <3>1. PICK report \in req[c].reports :
            imports' = imports \cup {report} /\ Respond(c, Receipt(report))
      BY <2>6 DEF RecordFailure
    <3>2. Receipt(report).row \in imports'
      BY <3>1 DEF Receipt
    <3> QED
      BY <2>2, <3>1, <3>2 DEF Respond
  <2>7. ASSUME NEW c \in Client, Start(c)
        PROVE  ReceiptsMatchAudit'
    BY <2>4, <2>5, <2>7 DEF Start, PostEvents, ImportRollsBack, AnalyzeStart,
                            ViewStart, GraphStart, Begin
  <2>8. ASSUME NEW c \in Client, Step(c)
        PROVE  ReceiptsMatchAudit'
    <3>1. CASE ViewConfirm(c)
      <4>1. req[c].kind # "import"
        BY <3>1 DEF ViewConfirm, TypeOK, Request
      <4> QED
        BY <2>3, <2>4, <3>1, <4>1 DEF ViewConfirm, Continue, Respond, Fail
    <3>2. CASE AnalyzeSave(c) \/ GraphSave(c)
      BY <2>3, <2>4, <3>2 DEF AnalyzeSave, GraphSave, Respond, Fail
    <3> QED
      BY <2>3, <2>6, <2>8, <3>1, <3>2 DEF Step, AnalyzeRead, ViewBegin, ViewEvents,
         ViewCorrelations, StorageFault, Continue, Fail
  <2>9. CASE Crash
    BY <2>3, <2>9 DEF Crash
  <2>10. CASE UNCHANGED vars
    BY <2>3, <2>10 DEF vars
  <2> QED
    BY <2>7, <2>8, <2>9, <2>10 DEF Next
<1> QED
  BY <1>1, <1>2, TypeCorrect, PTL DEF Spec

-----------------------------------------------------------------------------
(***************************************************************************)
(* The store implements CaseContract.  Besides IInv, the proof needs what  *)
(* a request has checked before its last step, and that a refused report   *)
(* waits for its second transaction under an id of its own.                *)
(***************************************************************************)

\* A report that is still to be recorded is one of failure, and its id is in no
\* other report.
UnrecordedReport(c, report) ==
  /\ report.status = "FAILED" /\ report.imported = 0 /\ "SUCCESS" \notin report.states
  /\ \A old \in imports : old.id # report.id
  /\ \A d \in Client \ {c} : \A other \in req[d].reports : other.id # report.id

ReportsAreFresh == \A c \in Client : \A report \in req[c].reports : UnrecordedReport(c, report)

\* A request answers for a root it was asked about and has found in the events.
RootChecked(r) ==
  /\ r.at \notin {"idle", "recordFailure"} => r.root \in Root
  /\ r.at \in {"analyzeSave", "viewCorrelations", "viewConfirm", "graphSave"} =>
       r.root \in r.events \cup {None}
  /\ r.at = "analyzeSave" => r.events # {}

RootsAreChecked == \A c \in Client : RootChecked(req[c])

RefinementInv == IInv /\ ReportsAreFresh /\ RootsAreChecked

\* A request that takes on no report and a checked root prepares nothing that
\* another step could spoil, as long as no report is recorded.
LEMMA OneRequestPrepares ==
  ASSUME TypeOK, ReportsAreFresh, RootsAreChecked, UNCHANGED imports,
         NEW c \in Client, NEW r \in Request, req' = [req EXCEPT ![c] = r],
         RootChecked(r), r.reports \subseteq req[c].reports
  PROVE  ReportsAreFresh' /\ RootsAreChecked'
<1>1. /\ req'[c] = r
      /\ \A d \in Client \ {c} : req'[d] = req[d]
  BY RequestReplaced
<1>2. RootsAreChecked'
  BY <1>1 DEF RootsAreChecked, RootChecked
<1>3. \A d \in Client : req'[d].reports \subseteq req[d].reports
  BY <1>1
<1>4. ASSUME NEW d \in Client, NEW report \in req'[d].reports
      PROVE  UnrecordedReport(d, report)'
  <2>1. UnrecordedReport(d, report)
    BY <1>3, <1>4 DEF ReportsAreFresh
  <2> QED
    BY <1>3, <2>1 DEF UnrecordedReport
<1> QED
  BY <1>2, <1>4 DEF ReportsAreFresh

LEMMA InitRefinementInv == Init => RefinementInv
<1> SUFFICES ASSUME Init PROVE RefinementInv
  OBVIOUS
<1>1. \A c \in Client : req[c] = Idle
  BY DEF Init
<1>2. ReportsAreFresh /\ RootsAreChecked
  BY <1>1 DEF Idle, ReportsAreFresh, RootsAreChecked, RootChecked
<1> QED
  BY <1>2, InitIInv DEF RefinementInv

LEMMA NextPrepared ==
  ASSUME IInv, ReportsAreFresh, RootsAreChecked, [Next]_vars
  PROVE  ReportsAreFresh' /\ RootsAreChecked'
<1>0. /\ TypeOK /\ Idle \in Request
      /\ RootChecked(Idle) /\ Idle.reports = {}
  BY IdleType DEF IInv, Idle, RootChecked
<1>1. CASE UNCHANGED <<req, imports>>
  BY <1>1 DEF ReportsAreFresh, UnrecordedReport, RootsAreChecked, RootChecked
<1>2. ASSUME NEW c \in Client, NEW batch \in Batch, NEW i \in ImportId,
             ImportCommits(c, batch, i)
      PROVE  ReportsAreFresh' /\ RootsAreChecked'
  <2>1. req' = req /\ imports' = imports \cup {BatchReport(i, batch)} /\ FreshId(i)
    BY <1>2 DEF ImportCommits
  <2>2. BatchReport(i, batch).id = i
    BY DEF BatchReport
  <2>3. \A d \in Client : \A report \in req[d].reports : report.id # i
    BY <2>1 DEF FreshId
  <2> QED
    BY <2>1, <2>2, <2>3 DEF ReportsAreFresh, UnrecordedReport, RootsAreChecked, RootChecked
<1>3. ASSUME NEW c \in Client, NEW batch \in Batch, NEW i \in ImportId,
             ImportRollsBack(c, batch, i)
      PROVE  ReportsAreFresh' /\ RootsAreChecked'
  <2> DEFINE r == [Idle EXCEPT !.at = "recordFailure", !.kind = "import",
                               !.reports = {RefusedReport(i, batch)}]
  <2>1. /\ r \in Request
        /\ r.reports = {RefusedReport(i, batch)}
        /\ RootChecked(r)
    BY ReportType DEF Idle, Request, RequestRecord, Stage, RootChecked
  <2>2. req' = [req EXCEPT ![c] = r] /\ imports' = imports
    BY <1>3 DEF ImportRollsBack, Begin, database
  <2>3. /\ RefusedReport(i, batch).id = i
        /\ RefusedReport(i, batch).status = "FAILED"
        /\ RefusedReport(i, batch).imported = 0
        /\ "SUCCESS" \notin RefusedReport(i, batch).states
    BY DEF RefusedReport, Refused
  <2>4. /\ \A report \in imports : report.id # i
        /\ \A d \in Client : \A report \in req[d].reports : report.id # i
    BY <1>3 DEF ImportRollsBack, FreshId
  <2> HIDE DEF r
  <2>5. req'[c] = r /\ \A d \in Client \ {c} : req'[d] = req[d]
    BY <1>0, <2>1, <2>2, RequestReplaced
  <2>6. RootsAreChecked'
    BY <2>1, <2>5 DEF RootsAreChecked, RootChecked
  <2>7. ASSUME NEW d \in Client, NEW report \in req'[d].reports
        PROVE  UnrecordedReport(d, report)'
    <3>1. CASE d = c
      BY <2>1, <2>2, <2>3, <2>4, <2>5, <2>7, <3>1 DEF UnrecordedReport
    <3>2. CASE d # c
      <4>1. UnrecordedReport(d, report) /\ report \in req[d].reports
        BY <2>5, <2>7, <3>2 DEF ReportsAreFresh
      <4>2. \A e \in Client \ {d} : \A other \in req'[e].reports : other.id # report.id
        BY <2>1, <2>3, <2>4, <2>5, <4>1 DEF UnrecordedReport
      <4> QED
        BY <2>2, <4>1, <4>2 DEF UnrecordedReport
    <3> QED
      BY <3>1, <3>2
  <2> QED
    BY <2>6, <2>7 DEF ReportsAreFresh
<1>4. ASSUME NEW c \in Client, RecordFailure(c)
      PROVE  ReportsAreFresh' /\ RootsAreChecked'
  <2>1. PICK report \in req[c].reports :
          imports' = imports \cup {report} /\ Respond(c, Receipt(report))
    BY <1>4 DEF RecordFailure
  <2>2. req'[c] = Idle /\ \A d \in Client \ {c} : req'[d] = req[d]
    BY <1>0, <2>1, RequestReplaced DEF Respond
  <2>3. RootsAreChecked'
    BY <1>0, <2>2 DEF RootsAreChecked, RootChecked
  <2>4. ASSUME NEW d \in Client, NEW other \in req'[d].reports
        PROVE  UnrecordedReport(d, other)'
    <3>1. d # c /\ req'[d] = req[d]
      BY <1>0, <2>2, <2>4
    <3>2. UnrecordedReport(d, other)
      BY <2>4, <3>1 DEF ReportsAreFresh
    <3>3. report.id # other.id
      BY <2>1, <3>1, <3>2 DEF UnrecordedReport
    <3> QED
      BY <1>0, <2>1, <2>2, <3>1, <3>2, <3>3 DEF UnrecordedReport
  <2> QED
    BY <2>3, <2>4 DEF ReportsAreFresh
<1>5. ASSUME NEW c \in Client, NEW s \in MinScore \cup {None}, NEW root \in Root,
             AnalyzeStart(c, s, root) \/ ViewStart(c, root) \/ GraphStart(c, root)
      PROVE  ReportsAreFresh' /\ RootsAreChecked'
  <2> DEFINE a == [Idle EXCEPT !.at = "analyzeRead", !.kind = "analysis",
                               !.minScore = s, !.root = root, !.before = revision]
             v == [Idle EXCEPT !.at = "viewEvents", !.kind = "view",
                               !.root = root, !.before = revision]
             g == [Idle EXCEPT !.at = "viewBegin", !.kind = "graph",
                               !.root = root, !.pinned = revision]
  <2>1. \A r \in {a, v, g} : r \in Request /\ r.reports = {} /\ RootChecked(r)
    <3>1. a \in Request /\ a.reports = {} /\ RootChecked(a)
      BY <1>0 DEF TypeOK, Idle, Request, RequestRecord, Stage, RootChecked
    <3>2. v \in Request /\ v.reports = {} /\ RootChecked(v)
      BY <1>0 DEF TypeOK, Idle, Request, RequestRecord, Stage, RootChecked
    <3>3. g \in Request /\ g.reports = {} /\ RootChecked(g)
      BY <1>0 DEF TypeOK, Idle, Request, RequestRecord, Stage, RootChecked
    <3> HIDE DEF a, v, g
    <3> QED
      BY <3>1, <3>2, <3>3
  <2>2. \E r \in {a, v, g} : req' = [req EXCEPT ![c] = r]
    BY <1>5 DEF AnalyzeStart, ViewStart, GraphStart, Begin
  <2>3. imports' = imports
    BY <1>5 DEF AnalyzeStart, ViewStart, GraphStart, database
  <2> QED
    BY <1>0, <2>1, <2>2, <2>3, OneRequestPrepares
<1>6. ASSUME NEW c \in Client, req' = [req EXCEPT ![c] = Idle], UNCHANGED imports
      PROVE  ReportsAreFresh' /\ RootsAreChecked'
  BY <1>0, <1>6, OneRequestPrepares
<1>7. ASSUME NEW c \in Client,
             AnalyzeRead(c) \/ ViewBegin(c) \/ ViewEvents(c) \/ ViewCorrelations(c)
               \/ ViewConfirm(c),
             req' # [req EXCEPT ![c] = Idle]
      PROVE  ReportsAreFresh' /\ RootsAreChecked'
  <2>1. req[c] \in Request /\ RootChecked(req[c]) /\ imports' = imports
    BY <1>0, <1>7 DEF TypeOK, RootsAreChecked, AnalyzeRead, ViewBegin, ViewEvents,
                      ViewCorrelations, ViewConfirm, database
  <2>2. PICK r \in Request : /\ req' = [req EXCEPT ![c] = r]
                             /\ RootChecked(r) /\ r.reports = req[c].reports
    <3> DEFINE Moved(r) == /\ r \in Request /\ req' = [req EXCEPT ![c] = r]
                           /\ RootChecked(r) /\ r.reports = req[c].reports
    <3>1. CASE AnalyzeRead(c)
      <4> DEFINE r == [req[c] EXCEPT !.at = "analyzeSave", !.events = evidence]
      <4>1. /\ req[c].at = "analyzeRead" /\ req' = [req EXCEPT ![c] = r]
            /\ evidence # {} /\ req[c].root \in evidence \cup {None}
        BY <1>7, <3>1 DEF AnalyzeRead, Continue, Fail
      <4>2. r \in Request
        BY <1>0, <2>1, <4>1 DEF TypeOK, Request, RequestRecord, Stage
      <4>3. Moved(r)
        BY <2>1, <4>1, <4>2 DEF Request, RequestRecord, RootChecked
      <4> QED
        BY <4>3
    <3>2. CASE ViewBegin(c)
      <4> DEFINE r == [req[c] EXCEPT !.at = "viewEvents", !.before = revision]
      <4>1. req[c].at = "viewBegin" /\ req' = [req EXCEPT ![c] = r]
        BY <3>2 DEF ViewBegin, Continue
      <4>2. r \in Request
        BY <1>0, <2>1, <4>1, ViewAdvances DEF TypeOK
      <4>3. Moved(r)
        BY <2>1, <4>1, <4>2 DEF Request, RequestRecord, RootChecked
      <4> QED
        BY <4>3
    <3>3. CASE ViewEvents(c)
      <4> DEFINE r == [req[c] EXCEPT !.at = "viewCorrelations", !.events = evidence]
      <4>1. /\ req[c].at = "viewEvents" /\ req' = [req EXCEPT ![c] = r]
            /\ req[c].root \in evidence \cup {None}
        BY <1>7, <3>3 DEF ViewEvents, Continue, Fail
      <4>2. r \in Request
        BY <1>0, <2>1, <4>1, ViewAdvances DEF TypeOK
      <4>3. Moved(r)
        BY <2>1, <4>1, <4>2 DEF Request, RequestRecord, RootChecked
      <4> QED
        BY <4>3
    <3>4. CASE ViewCorrelations(c)
      <4> DEFINE r == [req[c] EXCEPT !.at = "viewConfirm", !.edges = correlations]
      <4>1. req[c].at = "viewCorrelations" /\ req' = [req EXCEPT ![c] = r]
        BY <1>7, <3>4 DEF ViewCorrelations, Continue, Fail
      <4>2. r \in Request
        BY <1>0, <2>1, <4>1, ViewAdvances DEF TypeOK
      <4>3. Moved(r)
        BY <2>1, <4>1, <4>2 DEF Request, RequestRecord, RootChecked
      <4> QED
        BY <4>3
    <3>5. CASE ViewConfirm(c)
      <4> DEFINE r == [req[c] EXCEPT !.at = "graphSave"]
      <4>1. req[c].at = "viewConfirm" /\ req' = [req EXCEPT ![c] = r]
        BY <1>7, <3>5 DEF ViewConfirm, Continue, Respond, Fail
      <4>2. r \in Request
        BY <2>1, <4>1, ViewAdvances
      <4>3. Moved(r)
        BY <2>1, <4>1, <4>2 DEF Request, RequestRecord, RootChecked
      <4> QED
        BY <4>3
    <3> QED
      BY <1>7, <3>1, <3>2, <3>3, <3>4, <3>5
  <2> QED
    BY <1>0, <2>1, <2>2, OneRequestPrepares
<1>8. ASSUME NEW c \in Client, AnalyzeSave(c) \/ GraphSave(c) \/ StorageFault(c)
      PROVE  ReportsAreFresh' /\ RootsAreChecked'
  BY <1>6, <1>8 DEF AnalyzeSave, GraphSave, StorageFault, Respond, Fail, database
<1>9. CASE Crash
  <2>1. imports' = imports /\ \A d \in Client : req'[d] = Idle
    BY <1>9 DEF Crash
  <2> QED
    BY <1>0, <2>1 DEF ReportsAreFresh, RootsAreChecked, RootChecked
<1>10. ASSUME NEW c \in Client, Start(c)
       PROVE  ReportsAreFresh' /\ RootsAreChecked'
  <2>1. ASSUME NEW batch \in Batch, PostEvents(c, batch.events)
        PROVE  ReportsAreFresh' /\ RootsAreChecked'
    BY <1>1, <2>1 DEF PostEvents
  <2>2. ASSUME NEW root \in Root, ViewStart(c, root) \/ GraphStart(c, root)
        PROVE  ReportsAreFresh' /\ RootsAreChecked'
    BY <1>5, <2>2
  <2> QED
    BY <1>2, <1>3, <1>5, <1>10, <2>1, <2>2 DEF Start
<1>11. ASSUME NEW c \in Client, Step(c)
       PROVE  ReportsAreFresh' /\ RootsAreChecked'
  <2>1. CASE req' = [req EXCEPT ![c] = Idle] /\ ~RecordFailure(c)
    <3>1. imports' = imports
      BY <1>11, <2>1 DEF Step, AnalyzeRead, ViewBegin, ViewEvents, ViewCorrelations,
                         ViewConfirm, AnalyzeSave, GraphSave, StorageFault, database
    <3> QED
      BY <1>6, <2>1, <3>1
  <2> QED
    BY <1>4, <1>7, <1>8, <1>11, <2>1 DEF Step
<1> QED
  BY <1>1, <1>9, <1>10, <1>11 DEF Next, vars

LEMMA RefinementInvHolds == Spec => []RefinementInv
<1>1. RefinementInv /\ [Next]_vars => RefinementInv'
  BY NextPrepared, NextIInv DEF RefinementInv
<1> QED
  BY <1>1, InitRefinementInv, PTL DEF Spec

(***************************************************************************)
(* The contract as the database and the requests show it.                  *)
(***************************************************************************)

CurrentAnalysis == IF analysisRevision = revision THEN {correlations} ELSE {}

Trail == {Outcome(report) : report \in imports}

GlimpseOf(r) ==
  IF /\ r.at \in {"viewConfirm", "graphSave"}
     /\ r.before = revision
  THEN {r.edges}
  ELSE {}

Glimpses == [c \in Client |-> GlimpseOf(req[c])]

Told(a) == IF a.kind = "import" THEN Receipt(Outcome(a.row)) ELSE a

Answers == [c \in Client |-> Told(answer[c])]

\* CaseContract reads the same values as CaseStore.
LEMMA SameValues ==
  /\ Promised!NoAnswer = NoAnswer
  /\ \A kind, view : Promised!Shown(kind, view) = Shown(kind, view)
  /\ \A row : Promised!Receipt(row) = Receipt(row)
  /\ \A events, s : Promised!Correlate(events, s) = Correlate(events, s)
  /\ \A events, edges, root :
       Promised!Focus(events, edges, root) = Focus(events, edges, root)
<1>1. /\ Promised!NoAnswer = NoAnswer
      /\ \A kind, view : Promised!Shown(kind, view) = Shown(kind, view)
      /\ \A row : Promised!Receipt(row) = Receipt(row)
  BY DEF Promised!NoAnswer, NoAnswer, Promised!Shown, Shown, Promised!Receipt, Receipt
<1>2. \A events, s : Promised!Correlate(events, s) = Correlate(events, s)
  BY DEF Promised!Correlate, Correlate, Promised!Edge, Edge
<1>3. \A edges, root : Promised!RelatedIds(edges, root) = RelatedIds(edges, root)
  BY DEF Promised!RelatedIds, RelatedIds, Promised!Closed, Closed
<1>4. \A events, edges, root :
        Promised!Focus(events, edges, root) = Focus(events, edges, root)
  BY <1>3 DEF Promised!Focus, Focus
<1> QED
  BY <1>1, <1>2, <1>4

LEMMA SameCardinality == \A S : Promised!Cardinality(S) = Cardinality(S)
BY DEF Promised!Cardinality, Cardinality

LEMMA ToldValues ==
  /\ Told(NoAnswer) = NoAnswer
  /\ \A view, kind : kind # "import" => Told(Shown(kind, view)) = Shown(kind, view)
  /\ \A report : Told(Receipt(report)) = Receipt(Outcome(report))
BY DEF Told, NoAnswer, Shown, Receipt

\* A response to one client changes what the contract tells that client.
LEMMA OneAnswerChanges ==
  ASSUME TypeOK, NEW c \in Client, NEW a, answer' = [answer EXCEPT ![c] = a]
  PROVE  Answers' = [Answers EXCEPT ![c] = Told(a)]
<1>1. answer'[c] = a /\ \A d \in Client \ {c} : answer'[d] = answer[d]
  BY DEF TypeOK
<1>2. \A d \in Client : Answers'[d] = [Answers EXCEPT ![c] = Told(a)][d]
  BY <1>1 DEF Answers, Told
<1> QED
  BY <1>2 DEF Answers

\* While the revision stays, only the client whose request moves sees a change.
LEMMA OneGlimpseChanges ==
  ASSUME TypeOK, UNCHANGED revision, NEW c \in Client, NEW r,
         req' = [req EXCEPT ![c] = r]
  PROVE  Glimpses' = [Glimpses EXCEPT ![c] = GlimpseOf(r)]
<1>1. req'[c] = r /\ \A d \in Client \ {c} : req'[d] = req[d]
  BY DEF TypeOK
<1>2. \A d \in Client : Glimpses'[d] = [Glimpses EXCEPT ![c] = GlimpseOf(r)][d]
  BY <1>1 DEF Glimpses, GlimpseOf
<1> QED
  BY <1>2 DEF Glimpses

LEMMA GlimpseKept ==
  ASSUME TypeOK, UNCHANGED revision, NEW c \in Client, NEW r,
         req' = [req EXCEPT ![c] = r], GlimpseOf(r) = GlimpseOf(req[c])
  PROVE  Glimpses' = Glimpses
<1>1. Glimpses' = [Glimpses EXCEPT ![c] = GlimpseOf(r)]
  BY OneGlimpseChanges
<1>2. Glimpses[c] = GlimpseOf(r)
  BY DEF Glimpses
<1> QED
  BY <1>1, <1>2 DEF Glimpses

LEMMA DatabaseKept ==
  ASSUME UNCHANGED database
  PROVE  /\ UNCHANGED <<evidence, storedGraph, CurrentAnalysis, Trail>>
         /\ UNCHANGED <<imports, revision, analysisRevision, correlations>>
BY DEF database, CurrentAnalysis, Trail

\* What a step of the contract does, in terms of the definitions above.
Kept == UNCHANGED <<evidence, CurrentAnalysis, storedGraph, Trail>>

LEMMA Stutter ==
  ASSUME Kept, UNCHANGED <<Glimpses, Answers>>
  PROVE  UNCHANGED Promised!contractVars
BY DEF Kept, Promised!contractVars, CurrentAnalysis, Trail, Glimpses, GlimpseOf,
       Answers, Told

LEMMA IsAsk ==
  ASSUME NEW c \in Client, Kept, UNCHANGED Glimpses,
         Answers' = [Answers EXCEPT ![c] = NoAnswer]
  PROVE  Promised!Ask(c)
BY SameValues
   DEF Promised!Ask, Kept, CurrentAnalysis, Trail, Glimpses, GlimpseOf, Answers, Told

LEMMA IsAbandon ==
  ASSUME NEW gone \in SUBSET Client, Kept, UNCHANGED Answers,
         Glimpses' = [c \in Client |-> IF c \in gone THEN {} ELSE Glimpses[c]]
  PROVE  Promised!Abandon
BY DEF Promised!Abandon, Kept, CurrentAnalysis, Trail, Glimpses, GlimpseOf, Answers, Told

\* A stored batch withdraws whatever was concluded: no request read anything
\* under the new revision.
LEMMA IsGrow ==
  ASSUME IInv, NEW batch \in SUBSET Event, batch # {}, batch \cap evidence = {},
         Store(batch), UNCHANGED req
  PROVE  Promised!Grow(batch)
<1>1. /\ evidence' = evidence \cup batch /\ storedGraph' = {}
      /\ revision' = revision + 1 /\ analysisRevision' = None
      /\ revision \in Nat /\ req' = req
  BY DEF Store, IInv, TypeOK
<1>2. CurrentAnalysis' = {}
  BY <1>1, ValuesAssumption DEF CurrentAnalysis
<1>3. ASSUME NEW c \in Client
      PROVE  GlimpseOf(req[c])' = {}
  <2>1. req[c].before \in Nat /\ req[c].before <= revision
    BY DEF IInv, RequestsTrackEvidence, RequestTracksEvidence, TypeOK, Request, RequestRecord
  <2>2. req[c].before # revision'
    BY <1>1, <2>1
  <2> QED
    BY <1>1, <2>2 DEF GlimpseOf
<1>4. Glimpses' = [c \in Client |-> {}]
  BY <1>3 DEF Glimpses
<1> QED
  BY <1>1, <1>2, <1>4
  DEF Promised!Grow, CurrentAnalysis, Glimpses, GlimpseOf

\* Recording a report under a new id adds a row and hands out a copy of it.
LEMMA IsRecord ==
  ASSUME TypeOK, NEW c \in Client, NEW report,
         \A old \in imports : old.id # report.id,
         imports' = imports \cup {report},
         answer' = [answer EXCEPT ![c] = Receipt(report)]
  PROVE  Promised!Record(c, Promised!Row(report.id, report.status, report.imported))
<1> DEFINE row == Outcome(report)
<1>1. row = Promised!Row(report.id, report.status, report.imported)
  BY DEF Outcome, Promised!Row
<1>2. \A old \in Trail : old.id # row.id
  BY DEF Trail, Outcome
<1>3. Trail' = Trail \cup {row}
  BY DEF Trail
<1>4. Answers' = [Answers EXCEPT ![c] = Receipt(row)]
  BY OneAnswerChanges, ToldValues
<1> HIDE DEF row
<1>5. Promised!Record(c, row)
  BY <1>2, <1>3, <1>4, SameValues DEF Promised!Record, Trail, Answers, Told
<1> QED
  BY <1>1, <1>5

LEMMA PostEventsRefines ==
  ASSUME IInv, NEW c \in Client, NEW batch \in Batch, PostEvents(c, batch.events)
  PROVE  Promised!PostEvents(c, batch.events)
<1>1. batch.events \in SUBSET Event /\ TypeOK
  BY StoreAssumption DEF IInv
<1>2. Promised!Grow(batch.events)
  BY <1>1, IsGrow DEF PostEvents
<1>3. Answers' = [Answers EXCEPT ![c] = NoAnswer] /\ Trail' = Trail
  BY <1>1, OneAnswerChanges, ToldValues DEF PostEvents, Trail
<1> QED
  BY <1>2, <1>3, SameValues DEF Promised!PostEvents, Trail, Answers, Told

\* The import of a batch that is stored at once.
LEMMA ImportCommitsRefines ==
  ASSUME IInv, NEW c \in Client, NEW batch \in Batch, NEW i \in ImportId,
         ImportCommits(c, batch, i)
  PROVE  \/ Promised!ImportNothing(c, i, ImportStatus(batch))
         \/ Promised!ImportEvidence(c, i, ImportStatus(batch), batch.events)
<1> DEFINE report == BatchReport(i, batch)
<1>1. /\ TypeOK /\ batch.events \in SUBSET Event
      /\ report.id = i /\ report.status = ImportStatus(batch)
      /\ report.imported = Cardinality(batch.events)
  BY StoreAssumption DEF IInv, BatchReport
<1>2. \A old \in imports : old.id # report.id
  BY <1>1 DEF ImportCommits, FreshId
<1>3. /\ imports' = imports \cup {report}
      /\ answer' = [answer EXCEPT ![c] = Receipt(report)]
      /\ Store(batch.events) /\ req' = req /\ batch.events \cap evidence = {}
  BY DEF ImportCommits
<1> HIDE DEF report
<1>4. Promised!Record(c, Promised!Row(i, ImportStatus(batch), Cardinality(batch.events)))
  BY <1>1, <1>2, <1>3, IsRecord
<1>5. CASE batch.events = {}
  <2>1. Cardinality(batch.events) = 0
    BY <1>5, FS_EmptySet
  <2>2. UNCHANGED <<evidence, CurrentAnalysis, storedGraph, Glimpses>>
    BY <1>3, <1>5 DEF Store, CurrentAnalysis, Glimpses, GlimpseOf
  <2> QED
    BY <1>4, <2>1, <2>2
    DEF Promised!ImportNothing, CurrentAnalysis, Glimpses, GlimpseOf
<1>6. CASE batch.events # {}
  <2>1. Promised!Grow(batch.events)
    BY <1>1, <1>3, <1>6, IsGrow
  <2>2. ImportStatus(batch) \in {"SUCCESS", "PARTIAL"}
    BY <1>6 DEF ImportStatus
  <2>3. Promised!Cardinality(batch.events) = Cardinality(batch.events)
    BY SameCardinality
  <2> QED
    BY <1>4, <2>1, <2>2, <2>3 DEF Promised!ImportEvidence
<1> QED
  BY <1>5, <1>6

\* The second transaction of a refused import.
LEMMA RecordFailureRefines ==
  ASSUME IInv, ReportsAreFresh, NEW c \in Client, RecordFailure(c)
  PROVE  \E i \in ImportId : Promised!ImportNothing(c, i, "FAILED")
<1>1. PICK report \in req[c].reports :
        imports' = imports \cup {report} /\ Respond(c, Receipt(report))
  BY DEF RecordFailure
<1>2. /\ TypeOK /\ req[c].at = "recordFailure"
      /\ UNCHANGED <<evidence, revision, analysisRevision, correlations, storedGraph>>
  BY DEF IInv, RecordFailure
<1>3. report.id \in ImportId
  BY <1>2 DEF TypeOK, Request, RequestRecord, Report
<1>4. /\ report.status = "FAILED" /\ report.imported = 0
      /\ \A old \in imports : old.id # report.id
  BY DEF ReportsAreFresh, UnrecordedReport
<1>5. Promised!Record(c, Promised!Row(report.id, "FAILED", 0))
  BY <1>1, <1>2, <1>4, IsRecord DEF Respond
<1>6. Glimpses' = Glimpses
  <2>1. req' = [req EXCEPT ![c] = Idle]
    BY <1>1 DEF Respond
  <2>2. GlimpseOf(Idle) = GlimpseOf(req[c])
    BY <1>2 DEF GlimpseOf, Idle
  <2> QED
    BY <1>2, <2>1, <2>2, GlimpseKept
<1>7. CurrentAnalysis' = CurrentAnalysis
  BY <1>2 DEF CurrentAnalysis
<1>8. Promised!ImportNothing(c, report.id, "FAILED")
  BY <1>2, <1>5, <1>6, <1>7
  DEF Promised!ImportNothing, CurrentAnalysis, Glimpses, GlimpseOf
<1> QED
  BY <1>3, <1>8

\* A request that begins withdraws the previous answer and has seen nothing.
LEMMA BeginRefines ==
  ASSUME IInv, NEW c \in Client, NEW r, Begin(c, r), UNCHANGED database,
         r.at \notin {"viewConfirm", "graphSave"}
  PROVE  Promised!Ask(c)
<1>1. TypeOK /\ UNCHANGED revision /\ Kept
  BY DatabaseKept DEF IInv, Kept
<1>2. Glimpses' = Glimpses
  <2>1. GlimpseOf(r) = GlimpseOf(req[c])
    BY DEF Begin, GlimpseOf
  <2> QED
    BY <1>1, <2>1, GlimpseKept DEF Begin
<1>3. Answers' = [Answers EXCEPT ![c] = NoAnswer]
  BY <1>1, OneAnswerChanges, ToldValues DEF Begin
<1> QED
  BY <1>1, <1>2, <1>3, IsAsk

\* A request that goes on, or ends, before it has read an analysis shows nothing.
LEMMA QuietStep ==
  ASSUME IInv, NEW c \in Client, NEW r, UNCHANGED <<database, answer>>,
         req' = [req EXCEPT ![c] = r], GlimpseOf(r) = GlimpseOf(req[c])
  PROVE  UNCHANGED Promised!contractVars
<1>1. TypeOK /\ UNCHANGED revision /\ Kept
  BY DatabaseKept DEF IInv, Kept
<1>2. Glimpses' = Glimpses /\ Answers' = Answers
  BY <1>1, GlimpseKept DEF Answers
<1> QED
  BY <1>1, <1>2, Stutter

\* A request that fails is abandoned, whatever it had read.
LEMMA FailRefines ==
  ASSUME IInv, NEW c \in Client, Fail(c), UNCHANGED database
  PROVE  Promised!Abandon
<1>1. TypeOK /\ UNCHANGED revision /\ Kept /\ Answers' = Answers
  BY DatabaseKept DEF IInv, Kept, Fail, Answers
<1>2. GlimpseOf(Idle) = {}
  BY DEF GlimpseOf, Idle
<1>3. Glimpses' = [Glimpses EXCEPT ![c] = {}]
  BY <1>1, <1>2, OneGlimpseChanges DEF Fail
<1>4. Glimpses' = [d \in Client |-> IF d \in {c} THEN {} ELSE Glimpses[d]]
  BY <1>3 DEF Glimpses
<1> QED
  BY <1>1, <1>4, IsAbandon

LEMMA CrashRefines ==
  ASSUME IInv, Crash
  PROVE  Promised!Abandon
<1>1. Kept /\ Answers' = Answers
  BY DEF Crash, Kept, CurrentAnalysis, Trail, Answers
<1>2. \A d \in Client : GlimpseOf(req[d])' = {}
  BY DEF Crash, GlimpseOf, Idle
<1>3. Glimpses' = [d \in Client |-> IF d \in Client THEN {} ELSE Glimpses[d]]
  BY <1>2 DEF Glimpses
<1> QED
  BY <1>1, <1>3, IsAbandon

\* save_correlations publishes the analysis of the present evidence, or the
\* client is told that the evidence moved.
LEMMA AnalyzeSaveRefines ==
  ASSUME IInv, RootsAreChecked, NEW c \in Client, AnalyzeSave(c)
  PROVE  \/ \E s \in MinScore, root \in Root : Promised!Publish(c, s, root)
         \/ Promised!Abandon
<1>1. /\ TypeOK /\ req[c].at = "analyzeSave" /\ RequestTracksEvidence(req[c])
      /\ req[c] \in RequestRecord /\ RootChecked(req[c])
  BY DEF IInv, TypeOK, Request, RequestsTrackEvidence, RootsAreChecked, AnalyzeSave
<1>2. CASE req[c].before = revision
  <2>1. PICK s \in MinScore, root \in Root : s = req[c].minScore /\ root = req[c].root
    BY <1>1, <1>2 DEF RequestTracksEvidence, RootChecked
  <2> DEFINE edges == Correlate(evidence, s)
             shown == Shown("analysis", Focus(evidence, edges, root))
  <2>2. /\ req[c].events = evidence
        /\ evidence # {} /\ root \in evidence \cup {None}
    BY <1>1, <1>2, <2>1 DEF RequestTracksEvidence, RootChecked
  <2>3. /\ correlations' = edges /\ analysisRevision' = revision
        /\ answer' = [answer EXCEPT ![c] = shown]
        /\ req' = [req EXCEPT ![c] = Idle]
        /\ UNCHANGED <<evidence, revision, storedGraph, imports>>
    BY <1>2, <2>1, <2>2 DEF AnalyzeSave, Respond
  <2>4. CurrentAnalysis' = {edges}
    BY <2>3 DEF CurrentAnalysis
  <2>5. Told(shown) = shown
    BY ToldValues
  <2>6. GlimpseOf(Idle) = GlimpseOf(req[c])
    BY <1>1 DEF GlimpseOf, Idle
  <2> HIDE DEF shown
  <2>7. Answers' = [Answers EXCEPT ![c] = shown]
    BY <1>1, <2>3, <2>5, OneAnswerChanges
  <2>8. UNCHANGED <<Glimpses, Trail>>
    BY <1>1, <2>3, <2>6, GlimpseKept DEF Trail
  <2>9. shown = Promised!Shown("analysis",
                   Promised!Focus(evidence, Promised!Correlate(evidence, s), root))
    BY SameValues DEF shown
  <2>10. Promised!Publish(c, s, root)
    BY <2>2, <2>3, <2>4, <2>7, <2>8, <2>9, SameValues
    DEF Promised!Publish, CurrentAnalysis, Trail, Glimpses, GlimpseOf, Answers, Told
  <2> QED
    BY <2>10
<1>3. CASE req[c].before # revision
  BY <1>3, FailRefines DEF AnalyzeSave, database
<1> QED
  BY <1>2, <1>3

\* correlations(): the request reads the current analysis.  If the case has
\* moved since the request began, it learns that in its last read.
LEMMA ViewCorrelationsRefines ==
  ASSUME IInv, NEW c \in Client, ViewCorrelations(c)
  PROVE  \/ Promised!Glance(c)
         \/ Promised!Abandon
         \/ UNCHANGED Promised!contractVars
<1> DEFINE r == [req[c] EXCEPT !.at = "viewConfirm", !.edges = correlations]
<1>1. /\ TypeOK /\ req[c].at = "viewCorrelations" /\ req[c] \in RequestRecord
      /\ UNCHANGED database
  BY DEF IInv, TypeOK, Request, ViewCorrelations
<1>2. r.at = "viewConfirm" /\ r.before = req[c].before /\ r.edges = correlations
  BY <1>1 DEF RequestRecord
<1> HIDE DEF r
<1>3. CASE analysisRevision = revision
  <2>1. req' = [req EXCEPT ![c] = r] /\ answer' = answer
    BY <1>3 DEF ViewCorrelations, Continue, r
  <2>2. CASE req[c].before = revision
    <3>1. GlimpseOf(r) = {correlations} /\ CurrentAnalysis = {correlations}
      BY <1>2, <1>3, <2>2 DEF GlimpseOf, CurrentAnalysis
    <3>2. Glimpses' = [Glimpses EXCEPT ![c] = CurrentAnalysis]
      BY <1>1, <2>1, <3>1, DatabaseKept, OneGlimpseChanges
    <3>3. Kept /\ Answers' = Answers /\ CurrentAnalysis # {}
      BY <1>1, <2>1, <3>1, DatabaseKept DEF Kept, Answers
    <3>4. Promised!Glance(c)
      BY <3>2, <3>3
      DEF Promised!Glance, Kept, CurrentAnalysis, Trail, Glimpses, GlimpseOf, Answers, Told
    <3> QED
      BY <3>4
  <2>3. CASE req[c].before # revision
    <3>1. GlimpseOf(r) = GlimpseOf(req[c])
      BY <1>1, <1>2, <2>3 DEF GlimpseOf
    <3> QED
      BY <1>1, <2>1, <3>1, QuietStep
  <2> QED
    BY <2>2, <2>3
<1>4. CASE analysisRevision # revision
  BY <1>1, <1>4, FailRefines DEF ViewCorrelations
<1> QED
  BY <1>3, <1>4

\* What a request has read once it is past correlations(), if its revision is
\* still current.
LEMMA ViewIsReady ==
  ASSUME IInv, RootsAreChecked, NEW c \in Client,
         req[c].at \in {"viewConfirm", "graphSave"}, req[c].before = revision
  PROVE  /\ Glimpses[c] = {req[c].edges}
         /\ req[c].root \in evidence \cup {None} /\ req[c].root \in Root
         /\ ViewOf(req[c]) = Focus(evidence, req[c].edges, req[c].root)
<1>1. RequestTracksEvidence(req[c]) /\ RootChecked(req[c])
  BY DEF IInv, RequestsTrackEvidence, RootsAreChecked
<1>2. req[c].events = evidence
  BY <1>1 DEF RequestTracksEvidence
<1> QED
  BY <1>1, <1>2 DEF RootChecked, Glimpses, GlimpseOf, ViewOf

\* The answer to a view, graph or saved graph uses the glimpse up.
LEMMA IsAnswer ==
  ASSUME TypeOK, NEW c \in Client, NEW kind \in {"view", "graph"}, NEW view,
         UNCHANGED <<evidence, revision, analysisRevision, correlations, imports>>,
         Respond(c, Shown(kind, view))
  PROVE  Promised!Answer(c, kind, view)
<1>1. GlimpseOf(Idle) = {}
  BY DEF GlimpseOf, Idle
<1>2. Glimpses' = [Glimpses EXCEPT ![c] = {}]
  BY <1>1, OneGlimpseChanges DEF Respond
<1>3. Told(Shown(kind, view)) = Shown(kind, view)
  BY ToldValues
<1>4. Answers' = [Answers EXCEPT ![c] = Shown(kind, view)]
  BY <1>3, OneAnswerChanges DEF Respond
<1>5. UNCHANGED <<evidence, CurrentAnalysis, Trail>>
  BY DEF CurrentAnalysis, Trail
<1> QED
  BY <1>2, <1>4, <1>5, SameValues
  DEF Promised!Answer, CurrentAnalysis, Trail, Glimpses, GlimpseOf, Answers, Told

LEMMA ViewConfirmRefines ==
  ASSUME IInv, RootsAreChecked, NEW c \in Client, ViewConfirm(c)
  PROVE  \/ \E kind \in {"view", "graph"}, root \in Root : Promised!ShowView(c, kind, root)
         \/ Promised!Abandon
         \/ UNCHANGED Promised!contractVars
<1>1. /\ TypeOK /\ req[c].at = "viewConfirm" /\ req[c] \in RequestRecord
      /\ req[c].kind \in {"view", "graph"} /\ UNCHANGED database
  BY DEF IInv, TypeOK, Request, ViewConfirm
<1>2. CASE Fail(c)
  BY <1>1, <1>2, FailRefines
<1>3. CASE Continue(c, [req[c] EXCEPT !.at = "graphSave"])
  <2> DEFINE r == [req[c] EXCEPT !.at = "graphSave"]
  <2>1. GlimpseOf(r) = GlimpseOf(req[c])
    BY <1>1 DEF GlimpseOf, RequestRecord
  <2>2. req' = [req EXCEPT ![c] = r] /\ answer' = answer
    BY <1>3 DEF Continue
  <2> HIDE DEF r
  <2> QED
    BY <1>1, <2>1, <2>2, QuietStep
<1>4. CASE req[c].before = revision /\ Respond(c, Shown(req[c].kind, ViewOf(req[c])))
  <2>1. /\ Glimpses[c] = {req[c].edges} /\ req[c].root \in Root
        /\ req[c].root \in evidence \cup {None}
        /\ ViewOf(req[c]) = Focus(evidence, req[c].edges, req[c].root)
    BY <1>1, <1>4, ViewIsReady
  <2>2. PICK kind \in {"view", "graph"}, root \in Root :
          kind = req[c].kind /\ root = req[c].root
    BY <1>1, <2>1
  <2>3. PICK edges, view : edges = req[c].edges /\ view = Focus(evidence, edges, root)
    OBVIOUS
  <2>4. Respond(c, Shown(kind, view))
    BY <1>4, <2>1, <2>2, <2>3
  <2>5. UNCHANGED <<evidence, revision, analysisRevision, correlations, imports, storedGraph>>
    BY <1>1 DEF database
  <2>6. Promised!Answer(c, kind, view)
    BY <1>1, <2>4, <2>5, IsAnswer
  <2>7. Promised!Answer(c, kind, Promised!Focus(evidence, edges, root))
    BY <2>6, <2>3, SameValues DEF Promised!Answer
  <2>8. edges \in Glimpses[c] /\ root \in evidence \cup {None}
    BY <2>1, <2>2, <2>3
  <2>9. Promised!ShowView(c, kind, root)
    BY <2>5, <2>7, <2>8 DEF Promised!ShowView, Glimpses, GlimpseOf
  <2> QED
    BY <2>9
<1> QED
  BY <1>2, <1>3, <1>4 DEF ViewConfirm

LEMMA GraphSaveRefines ==
  ASSUME IInv, RootsAreChecked, NEW c \in Client, GraphSave(c)
  PROVE  Promised!SaveGraph(c) \/ Promised!Abandon
<1>1. /\ TypeOK /\ req[c].at = "graphSave" /\ req[c] \in RequestRecord
      /\ RequestTracksEvidence(req[c])
      /\ UNCHANGED <<evidence, revision, analysisRevision, correlations, imports>>
  BY DEF IInv, TypeOK, Request, RequestsTrackEvidence, GraphSave
<1>2. CASE req[c].pinned = revision
  <2>1. req[c].before = revision /\ req[c].root = None
    BY <1>1, <1>2 DEF TypeOK, RequestRecord, RequestTracksEvidence
  <2>2. PICK edges, view : edges = req[c].edges /\ view = Focus(evidence, edges, None)
    OBVIOUS
  <2>3. edges \in Glimpses[c] /\ ViewOf(req[c]) = view
    BY <1>1, <2>1, <2>2, ViewIsReady
  <2>4. Respond(c, Shown("graph", view)) /\ storedGraph' = {view}
    BY <1>2, <2>3 DEF GraphSave
  <2>5. Promised!Answer(c, "graph", view)
    BY <1>1, <2>4, IsAnswer
  <2>6. view = Promised!Focus(evidence, edges, None)
    BY <2>2, SameValues
  <2>7. /\ Promised!Answer(c, "graph", Promised!Focus(evidence, edges, None))
        /\ storedGraph' = {Promised!Focus(evidence, edges, None)}
    BY <2>4, <2>5, <2>6 DEF Promised!Answer
  <2>8. Promised!SaveGraph(c)
    BY <2>3, <2>7 DEF Promised!SaveGraph, Glimpses, GlimpseOf
  <2> QED
    BY <2>8
<1>3. CASE req[c].pinned # revision
  BY <1>3, FailRefines DEF GraphSave, database
<1> QED
  BY <1>2, <1>3

\* The reads before correlations() show nothing yet; a missing root or an empty
\* case ends the request.
LEMMA EarlyReadRefines ==
  ASSUME IInv, NEW c \in Client, AnalyzeRead(c) \/ ViewBegin(c) \/ ViewEvents(c)
  PROVE  UNCHANGED Promised!contractVars
<1>1. /\ TypeOK /\ req[c] \in RequestRecord /\ UNCHANGED <<database, answer>>
      /\ req[c].at \in {"analyzeRead", "viewBegin", "viewEvents"}
  BY DEF IInv, TypeOK, Request, AnalyzeRead, ViewBegin, ViewEvents, Continue, Fail
<1>2. PICK r : /\ req' = [req EXCEPT ![c] = r]
               /\ r.at \notin {"viewConfirm", "graphSave"}
  <2> DEFINE a == [req[c] EXCEPT !.at = "analyzeSave", !.events = evidence]
             b == [req[c] EXCEPT !.at = "viewEvents", !.before = revision]
             e == [req[c] EXCEPT !.at = "viewCorrelations", !.events = evidence]
  <2>1. /\ a.at \notin {"viewConfirm", "graphSave"} /\ b.at \notin {"viewConfirm", "graphSave"}
        /\ e.at \notin {"viewConfirm", "graphSave"}
        /\ Idle.at \notin {"viewConfirm", "graphSave"}
    BY <1>1 DEF RequestRecord, Idle
  <2>2. \E r \in {a, b, e, Idle} : req' = [req EXCEPT ![c] = r]
    BY DEF AnalyzeRead, ViewBegin, ViewEvents, Continue, Fail
  <2> HIDE DEF a, b, e
  <2> QED
    BY <2>1, <2>2
<1>3. GlimpseOf(r) = GlimpseOf(req[c])
  BY <1>1, <1>2 DEF GlimpseOf
<1> QED
  BY <1>1, <1>2, <1>3, QuietStep

LEMMA InitRefines == Init => Promised!Init
<1> SUFFICES ASSUME Init PROVE Promised!Init
  OBVIOUS
<1>1. CurrentAnalysis = {} /\ Trail = {}
  BY ValuesAssumption DEF Init, CurrentAnalysis, Trail
<1>2. Glimpses = [c \in Client |-> {}]
  BY DEF Init, Idle, Glimpses, GlimpseOf
<1>3. Answers = [c \in Client |-> NoAnswer]
  BY ToldValues DEF Init, Answers
<1> QED
  BY <1>1, <1>2, <1>3, SameValues
  DEF Init, Promised!Init, CurrentAnalysis, Trail, Glimpses, GlimpseOf, Answers, Told

LEMMA NextRefines ==
  ASSUME RefinementInv, [Next]_vars
  PROVE  Promised!Next \/ UNCHANGED Promised!contractVars
<1>0. IInv /\ ReportsAreFresh /\ RootsAreChecked
  BY DEF RefinementInv
<1>1. CASE Crash
  BY <1>0, <1>1, CrashRefines DEF Promised!Next
<1>2. ASSUME NEW c \in Client, Start(c)
      PROVE  Promised!Next
  <2>1. ASSUME NEW batch \in Batch, PostEvents(c, batch.events)
        PROVE  Promised!Next
    <3>1. batch.events \in SUBSET Event
      BY StoreAssumption
    <3>2. Promised!PostEvents(c, batch.events)
      BY <1>0, <2>1, PostEventsRefines
    <3> QED
      BY <3>1, <3>2 DEF Promised!Next
  <2>2. ASSUME NEW batch \in Batch, NEW i \in ImportId, ImportCommits(c, batch, i)
        PROVE  Promised!Next
    <3>1. batch.events \in SUBSET Event
      BY StoreAssumption
    <3>2. ImportStatus(batch) \in Promised!Status
      BY DEF ImportStatus, Promised!Status
    <3>3. \/ Promised!ImportNothing(c, i, ImportStatus(batch))
          \/ Promised!ImportEvidence(c, i, ImportStatus(batch), batch.events)
      BY <1>0, <2>2, ImportCommitsRefines
    <3> QED
      BY <3>1, <3>2, <3>3 DEF Promised!Next
  <2>3. ASSUME NEW r, Begin(c, r), UNCHANGED database,
               r.at \notin {"viewConfirm", "graphSave"}
        PROVE  Promised!Next
    <3>1. Promised!Ask(c)
      BY <1>0, <2>3, BeginRefines
    <3> QED
      BY <3>1 DEF Promised!Next
  <2>4. ASSUME NEW batch \in Batch, NEW i \in ImportId, ImportRollsBack(c, batch, i)
        PROVE  Promised!Next
    <3> DEFINE r == [Idle EXCEPT !.at = "recordFailure", !.kind = "import",
                                 !.reports = {RefusedReport(i, batch)}]
    <3>1. Begin(c, r) /\ UNCHANGED database /\ r.at = "recordFailure"
      BY <2>4 DEF ImportRollsBack, Idle
    <3> HIDE DEF r
    <3> QED
      BY <2>3, <3>1
  <2>5. ASSUME NEW s \in MinScore, NEW root \in Root, AnalyzeStart(c, s, root)
        PROVE  Promised!Next
    <3> DEFINE r == [Idle EXCEPT !.at = "analyzeRead", !.kind = "analysis",
                                 !.minScore = s, !.root = root, !.before = revision]
    <3>1. Begin(c, r) /\ UNCHANGED database /\ r.at = "analyzeRead"
      BY <2>5 DEF AnalyzeStart, Idle
    <3> HIDE DEF r
    <3> QED
      BY <2>3, <3>1
  <2>6. ASSUME NEW root \in Root, ViewStart(c, root)
        PROVE  Promised!Next
    <3> DEFINE r == [Idle EXCEPT !.at = "viewEvents", !.kind = "view",
                                 !.root = root, !.before = revision]
    <3>1. Begin(c, r) /\ UNCHANGED database /\ r.at = "viewEvents"
      BY <2>6 DEF ViewStart, Idle
    <3> HIDE DEF r
    <3> QED
      BY <2>3, <3>1
  <2>7. ASSUME NEW root \in Root, GraphStart(c, root)
        PROVE  Promised!Next
    <3> DEFINE r == [Idle EXCEPT !.at = "viewBegin", !.kind = "graph",
                                 !.root = root, !.pinned = revision]
    <3>1. Begin(c, r) /\ UNCHANGED database /\ r.at = "viewBegin"
      BY <2>7 DEF GraphStart, Idle
    <3> HIDE DEF r
    <3> QED
      BY <2>3, <3>1
  <2> QED
    BY <1>2, <2>1, <2>2, <2>4, <2>5, <2>6, <2>7 DEF Start
<1>3. ASSUME NEW c \in Client, Step(c)
      PROVE  Promised!Next \/ UNCHANGED Promised!contractVars
  <2>1. CASE RecordFailure(c)
    <3>1. "FAILED" \in Promised!Status
      BY DEF Promised!Status
    <3>2. \E i \in ImportId : Promised!ImportNothing(c, i, "FAILED")
      BY <1>0, <2>1, RecordFailureRefines
    <3> QED
      BY <3>1, <3>2 DEF Promised!Next
  <2>2. CASE AnalyzeSave(c)
    <3>1. \/ \E s \in MinScore, root \in Root : Promised!Publish(c, s, root)
          \/ Promised!Abandon
      BY <1>0, <2>2, AnalyzeSaveRefines
    <3> QED
      BY <3>1 DEF Promised!Next
  <2>3. CASE ViewCorrelations(c)
    <3>1. \/ Promised!Glance(c)
          \/ Promised!Abandon
          \/ UNCHANGED Promised!contractVars
      BY <1>0, <2>3, ViewCorrelationsRefines
    <3> QED
      BY <3>1 DEF Promised!Next
  <2>4. CASE ViewConfirm(c)
    <3>1. \/ \E kind \in {"view", "graph"}, root \in Root : Promised!ShowView(c, kind, root)
          \/ Promised!Abandon
          \/ UNCHANGED Promised!contractVars
      BY <1>0, <2>4, ViewConfirmRefines
    <3> QED
      BY <3>1 DEF Promised!Next
  <2>5. CASE GraphSave(c)
    <3>1. Promised!SaveGraph(c) \/ Promised!Abandon
      BY <1>0, <2>5, GraphSaveRefines
    <3> QED
      BY <3>1 DEF Promised!Next
  <2>6. CASE StorageFault(c)
    <3>1. Promised!Abandon
      BY <1>0, <2>6, FailRefines DEF StorageFault
    <3> QED
      BY <3>1 DEF Promised!Next
  <2>7. CASE AnalyzeRead(c) \/ ViewBegin(c) \/ ViewEvents(c)
    BY <1>0, <2>7, EarlyReadRefines
  <2> QED
    BY <1>3, <2>1, <2>2, <2>3, <2>4, <2>5, <2>6, <2>7 DEF Step
<1>4. CASE UNCHANGED vars
  BY <1>4 DEF vars, Promised!contractVars
<1> QED
  BY <1>1, <1>2, <1>3, <1>4 DEF Next

\* The requests of AnalysisService and import_batch, each a series of separate
\* transactions, keep the promises of CaseContract, where importing, analyzing,
\* reading the analysis and saving the graph are single steps: an import that
\* takes two transactions is one import, a client is answered from the evidence
\* as it is at that moment, and every conclusion goes when evidence comes.
THEOREM ContractIsKept == Spec => KeepsContract
<1>1. RefinementInv /\ [Next]_vars => [Promised!Next]_(Promised!contractVars)
  BY NextRefines
<1> QED
  BY <1>1, InitRefines, RefinementInvHolds, PTL DEF Spec, KeepsContract, Promised!Spec

-----------------------------------------------------------------------------
(***************************************************************************)
(* The audit trail.  The sum over the reports is a recursive function over *)
(* finite sets, so the lemmas first show that it adds up in any order.     *)
(***************************************************************************)

\* A nonempty family of subsets of a finite set has a smallest member: the form of
\* induction over finite sets that needs no operator to stand for the property.
LEMMA MinimalSet ==
  ASSUME NEW S, IsFiniteSet(S), NEW family \in SUBSET SUBSET S, family # {}
  PROVE  \E T \in family : \A U \in family : U \subseteq T => U = T
<1>1. IsWellFoundedOn(StrictSubsetOrdering(S), SUBSET S)
  BY FS_FiniteSubsetsOfFinite, FS_StrictSubsetOrderingWellFounded
<1>2. \E T \in family : \A U \in family : ~(<<U, T>> \in StrictSubsetOrdering(S))
  BY <1>1, WFMin
<1> QED
  BY <1>2 DEF StrictSubsetOrdering

\* The events a set of reports claims, as ImportsAccountForEvidence adds them up.
Claimed(S) ==
  LET claimed(report) == report.imported
  IN  MapThenSumSet(claimed, S)

FirstOf(S) == CHOOSE x \in S : TRUE

LEMMA FirstIsIn == ASSUME NEW S, S # {} PROVE FirstOf(S) \in S
BY DEF FirstOf

\* The recursive function the sum is defined by.
SumsUp(f, S) ==
  f = [s \in SUBSET S |->
         IF s = {} THEN 0 ELSE FirstOf(s).imported + f[s \ {FirstOf(s)}]]

Sums(S) == CHOOSE f : SumsUp(f, S)

LEMMA ClaimedIsASum == ASSUME NEW S PROVE Claimed(S) = Sums(S)[S]
BY DEF Claimed, MapThenSumSet, MapThenFoldSet, Sums, SumsUp, FirstOf

\* Two such functions agree where both are defined.
LEMMA SumsAgree ==
  ASSUME NEW S, IsFiniteSet(S), NEW T \in SUBSET S, NEW f, NEW g,
         SumsUp(f, S), SumsUp(g, T)
  PROVE  \A s \in SUBSET T : f[s] = g[s]
<1> DEFINE family == {s \in SUBSET T : f[s] # g[s]}
<1>1. SUFFICES ASSUME family # {} PROVE FALSE
  OBVIOUS
<1>2. PICK s \in family : \A u \in family : u \subseteq s => u = s
  <2>1. family \in SUBSET SUBSET S
    OBVIOUS
  <2> HIDE DEF family
  <2> QED
    BY <1>1, <2>1, MinimalSet
<1>3. \A u \in SUBSET T : /\ f[u] = IF u = {} THEN 0 ELSE FirstOf(u).imported + f[u \ {FirstOf(u)}]
                          /\ g[u] = IF u = {} THEN 0 ELSE FirstOf(u).imported + g[u \ {FirstOf(u)}]
  BY DEF SumsUp
<1>4. s # {} /\ FirstOf(s) \in s
  BY <1>2, <1>3, FirstIsIn
<1>5. f[s \ {FirstOf(s)}] = g[s \ {FirstOf(s)}]
  BY <1>2, <1>4
<1> QED
  BY <1>2, <1>3, <1>4, <1>5

\* Every finite set has such a function.
LEMMA SumsExist ==
  ASSUME NEW S, IsFiniteSet(S)
  PROVE  SumsUp(Sums(S), S)
<1> DEFINE family == {T \in SUBSET S : ~SumsUp(Sums(T), T)}
<1>1. SUFFICES ASSUME family # {} PROVE FALSE
  OBVIOUS
<1>2. PICK T \in family : \A U \in family : U \subseteq T => U = T
  <2>1. family \in SUBSET SUBSET S
    OBVIOUS
  <2> HIDE DEF family
  <2> QED
    BY <1>1, <2>1, MinimalSet
<1> DEFINE f == [s \in SUBSET T |->
                   IF s = {} THEN 0
                   ELSE FirstOf(s).imported + Sums(s \ {FirstOf(s)})[s \ {FirstOf(s)}]]
<1>3. ASSUME NEW s \in SUBSET T, s # {}
      PROVE  f[s \ {FirstOf(s)}] = Sums(s \ {FirstOf(s)})[s \ {FirstOf(s)}]
  <2> DEFINE u == s \ {FirstOf(s)}
             v == u \ {FirstOf(u)}
  <2>1. u \in SUBSET T /\ u # T
    BY <1>3, FirstIsIn
  <2>2. SumsUp(Sums(u), u) /\ SumsUp(Sums(v), v) /\ IsFiniteSet(u)
    BY <1>2, <2>1, FS_Subset
  <2>3. Sums(u)[v] = Sums(v)[v]
    BY <2>2, SumsAgree
  <2>4. Sums(u)[u] = IF u = {} THEN 0 ELSE FirstOf(u).imported + Sums(u)[v]
    BY <2>2 DEF SumsUp
  <2>5. f[u] = IF u = {} THEN 0 ELSE FirstOf(u).imported + Sums(v)[v]
    BY <2>1
  <2> QED
    BY <2>3, <2>4, <2>5
<1>4. SumsUp(f, T)
  BY <1>3 DEF SumsUp
<1>5. SumsUp(Sums(T), T)
  BY <1>4 DEF Sums
<1> QED
  BY <1>2, <1>5

LEMMA ClaimedStep ==
  ASSUME NEW S, IsFiniteSet(S)
  PROVE  Claimed(S) = IF S = {} THEN 0
                      ELSE FirstOf(S).imported + Claimed(S \ {FirstOf(S)})
<1> DEFINE T == S \ {FirstOf(S)}
<1>1. IsFiniteSet(T) /\ T \in SUBSET S
  BY FS_Subset
<1>2. SumsUp(Sums(S), S) /\ SumsUp(Sums(T), T)
  BY <1>1, SumsExist
<1>3. Sums(S)[T] = Sums(T)[T]
  BY <1>1, <1>2, SumsAgree
<1>4. Sums(S)[S] = IF S = {} THEN 0 ELSE FirstOf(S).imported + Sums(S)[T]
  BY <1>2 DEF SumsUp
<1> QED
  BY <1>3, <1>4, ClaimedIsASum

\* The order in which the reports are added up does not matter.
LEMMA ClaimedOfReports ==
  ASSUME NEW S, IsFiniteSet(S), \A x \in S : x.imported \in Nat
  PROVE  /\ Claimed(S) \in Nat
         /\ \A x \in S : Claimed(S) = x.imported + Claimed(S \ {x})
<1> DEFINE family ==
             {T \in SUBSET S :
                ~ /\ Claimed(T) \in Nat
                  /\ \A x \in T : Claimed(T) = x.imported + Claimed(T \ {x})}
<1>1. SUFFICES ASSUME family # {} PROVE FALSE
  OBVIOUS
<1>2. PICK T \in family : \A U \in family : U \subseteq T => U = T
  <2>1. family \in SUBSET SUBSET S
    OBVIOUS
  <2> HIDE DEF family
  <2> QED
    BY <1>1, <2>1, MinimalSet
<1>3. IsFiniteSet(T) /\ T \in SUBSET S
  BY <1>2, FS_Subset
<1>4. ASSUME NEW U \in SUBSET T, U # T
      PROVE  /\ Claimed(U) \in Nat
             /\ \A x \in U : Claimed(U) = x.imported + Claimed(U \ {x})
  BY <1>2, <1>4
<1> HIDE DEF family
<1> DEFINE p == FirstOf(T)
<1>5. Claimed({}) = 0
  BY ClaimedStep, FS_EmptySet
<1>6. T # {}
  <2>1. {} \notin family
    BY <1>5 DEF family
  <2> QED
    BY <1>2, <2>1
<1>7. p \in T /\ p.imported \in Nat /\ Claimed(T) = p.imported + Claimed(T \ {p})
  BY <1>3, <1>6, ClaimedStep, FirstIsIn
<1>8. Claimed(T) \in Nat
  BY <1>4, <1>7
<1>9. ASSUME NEW x \in T, x # p
      PROVE  Claimed(T) = x.imported + Claimed(T \ {x})
  <2> DEFINE rest == (T \ {p}) \ {x}
  <2>1. rest = (T \ {x}) \ {p}
    OBVIOUS
  <2>2. Claimed(T \ {p}) = x.imported + Claimed(rest)
    BY <1>4, <1>7, <1>9
  <2>3. Claimed(T \ {x}) = p.imported + Claimed(rest)
    BY <1>4, <1>7, <1>9, <2>1
  <2>4. Claimed(rest) \in Nat /\ x.imported \in Nat
    BY <1>3, <1>4, <1>7
  <2> QED
    BY <1>7, <2>2, <2>3, <2>4
<1> QED
  BY <1>2, <1>7, <1>8, <1>9 DEF family

\* What the trail says of a report that is recorded.
Agrees(report) ==
  /\ report.status = "SUCCESS" <=> report.states = {"SUCCESS"}
  /\ report.imported > 0 => report.status \in {"SUCCESS", "PARTIAL"}

AuditInv ==
  /\ IsFiniteSet(imports) /\ IsFiniteSet(evidence)
  /\ \A report \in imports : Agrees(report)
  /\ Claimed(imports) <= Cardinality(evidence)

LEMMA BatchReportAgrees ==
  ASSUME NEW batch \in Batch, NEW i \in ImportId
  PROVE  Agrees(BatchReport(i, batch))
<1>1. BatchReport(i, batch).status = "SUCCESS" <=> batch.states = {"SUCCESS"}
  BY DEF BatchReport, ImportStatus
<1>2. CASE batch.events = {}
  <2>1. BatchReport(i, batch).imported = 0
    BY <1>2, FS_EmptySet DEF BatchReport
  <2> QED
    BY <1>1, <2>1 DEF Agrees, BatchReport
<1>3. CASE batch.events # {}
  <2>1. BatchReport(i, batch).status \in {"SUCCESS", "PARTIAL"}
    BY <1>3 DEF BatchReport, ImportStatus
  <2> QED
    BY <1>1, <2>1 DEF Agrees, BatchReport
<1> QED
  BY <1>2, <1>3

\* Adding a report of events that were not there yet keeps the account.
LEMMA AccountKept ==
  ASSUME TypeOK, AuditInv, NEW report \in Report, Agrees(report),
         \A old \in imports : old.id # report.id,
         NEW events, IsFiniteSet(events), events \cap evidence = {},
         report.imported = Cardinality(events),
         imports' = imports \cup {report}, evidence' = evidence \cup events
  PROVE  AuditInv'
<1>1. report \notin imports
  OBVIOUS
<1>2. IsFiniteSet(imports') /\ \A r \in imports' : r.imported \in Nat /\ Agrees(r)
  BY FS_AddElement DEF TypeOK, AuditInv, Report
<1>3. Claimed(imports') = report.imported + Claimed(imports)
  <2>1. imports' \ {report} = imports /\ report \in imports'
    BY <1>1
  <2> QED
    BY <1>2, <2>1, ClaimedOfReports
<1>4. /\ IsFiniteSet(evidence')
      /\ Cardinality(evidence') = Cardinality(evidence) + Cardinality(events)
  <2>1. Cardinality(evidence \cap events) = 0
    <3>1. evidence \cap events = {}
      OBVIOUS
    <3> QED
      BY <3>1, FS_EmptySet
  <2>2. Cardinality(evidence) \in Nat /\ Cardinality(events) \in Nat
    BY FS_CardinalityType DEF AuditInv
  <2>3. /\ IsFiniteSet(evidence \cup events)
        /\ Cardinality(evidence \cup events) =
             Cardinality(evidence) + Cardinality(events) - Cardinality(evidence \cap events)
    BY FS_Union DEF AuditInv
  <2> QED
    BY <2>1, <2>2, <2>3
<1>5. Claimed(imports) \in Nat /\ Cardinality(evidence) \in Nat /\ Cardinality(events) \in Nat
  BY FS_CardinalityType, ClaimedOfReports DEF AuditInv, TypeOK, Report
<1> QED
  BY <1>2, <1>3, <1>4, <1>5 DEF AuditInv

LEMMA NextAuditInv ==
  ASSUME IInv, ReportsAreFresh, AuditInv, [Next]_vars
  PROVE  AuditInv'
<1>0. TypeOK
  BY DEF IInv
<1>1. CASE UNCHANGED <<imports, evidence>>
  BY <1>1 DEF AuditInv
<1>2. ASSUME NEW c \in Client, NEW batch \in Batch, PostEvents(c, batch.events)
      PROVE  AuditInv'
  <2>1. /\ IsFiniteSet(batch.events) /\ imports' = imports
        /\ evidence' = evidence \cup batch.events
    BY <1>2, StoreAssumption DEF PostEvents, Store
  <2>2. IsFiniteSet(evidence') /\ Cardinality(evidence) <= Cardinality(evidence')
    BY <2>1, FS_Union, FS_Subset DEF AuditInv
  <2>3. /\ Claimed(imports) \in Nat /\ Cardinality(evidence) \in Nat
        /\ Cardinality(evidence') \in Nat
    BY <1>0, <2>2, FS_CardinalityType, ClaimedOfReports DEF AuditInv, TypeOK, Report
  <2> QED
    BY <2>1, <2>2, <2>3 DEF AuditInv
<1>3. ASSUME NEW c \in Client, NEW batch \in Batch, NEW i \in ImportId,
             ImportCommits(c, batch, i)
      PROVE  AuditInv'
  <2> DEFINE report == BatchReport(i, batch)
  <2>1. report \in Report /\ Agrees(report)
    BY ReportType, BatchReportAgrees
  <2>2. report.id = i /\ report.imported = Cardinality(batch.events)
    BY DEF BatchReport
  <2>3. /\ batch.events \cap evidence = {} /\ imports' = imports \cup {report}
        /\ evidence' = evidence \cup batch.events
    BY <1>3 DEF ImportCommits, Store
  <2>4. \A old \in imports : old.id # report.id
    BY <1>3, <2>2 DEF ImportCommits, FreshId
  <2>5. IsFiniteSet(batch.events)
    BY StoreAssumption
  <2> HIDE DEF report
  <2> QED
    BY <1>0, <2>1, <2>2, <2>3, <2>4, <2>5, AccountKept
<1>4. ASSUME NEW c \in Client, RecordFailure(c)
      PROVE  AuditInv'
  <2>1. PICK report \in req[c].reports : imports' = imports \cup {report}
    BY <1>4 DEF RecordFailure
  <2>2. report \in Report
    BY <1>0 DEF TypeOK, Request, RequestRecord
  <2>3. /\ Agrees(report) /\ report.imported = 0
        /\ \A old \in imports : old.id # report.id
    BY DEF ReportsAreFresh, UnrecordedReport, Agrees
  <2>4. IsFiniteSet({}) /\ Cardinality({}) = 0
    BY FS_EmptySet
  <2>5. evidence' = evidence \cup {}
    BY <1>4 DEF RecordFailure
  <2> QED
    BY <1>0, <2>1, <2>2, <2>3, <2>4, <2>5, AccountKept
<1>5. ASSUME NEW c \in Client, Start(c)
      PROVE  AuditInv'
  BY <1>1, <1>2, <1>3, <1>5 DEF Start, ImportRollsBack, AnalyzeStart, ViewStart,
                                GraphStart, database
<1>6. ASSUME NEW c \in Client, Step(c)
      PROVE  AuditInv'
  BY <1>1, <1>4, <1>6 DEF Step, AnalyzeRead, AnalyzeSave, ViewBegin, ViewEvents,
     ViewCorrelations, ViewConfirm, GraphSave, StorageFault, database
<1> QED
  BY <1>1, <1>5, <1>6 DEF Next, Crash, vars

\* However imports are refused, retried, interleaved or cut off by a crash, the
\* audit trail of import_batch tells what became of each of them, and its counts
\* add up to no more events than the case holds.
THEOREM AuditIsTrue == Spec => []AuditAccountsForEvidence
<1>1. Init => AuditInv
  <2>1. IsFiniteSet({}) /\ Cardinality({}) = 0 /\ Claimed({}) = 0
    BY FS_EmptySet, ClaimedStep
  <2> QED
    BY <2>1 DEF Init, AuditInv
<1>2. RefinementInv /\ AuditInv /\ [Next]_vars => AuditInv'
  BY NextAuditInv DEF RefinementInv
<1>3. AuditInv => AuditAccountsForEvidence
  BY DEF AuditInv, Agrees, Claimed, AuditAccountsForEvidence, ReportsAgreeWithRuns,
         ImportsAccountForEvidence
<1> QED
  BY <1>1, <1>2, <1>3, RefinementInvHolds, PTL DEF Spec
=============================================================================
