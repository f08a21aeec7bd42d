SPECIFICATION Spec
CONSTANTS
  Client = {c1, c2}
  e1 = e1
  e2 = e2
  e3 = e3
  Event = {e1, e2, e3}
  ImportId = {i1, i2}
  Batch <- Batches
  MinScore = {50, 80}
  Score <- MCScore
  Root <- MCRoot
  None = None
SYMMETRY Symmetry
INVARIANTS
  TypeOK
  RequestsTrackEvidence
  AnalysisMatchesEvidence
  StoredGraphMatchesEvidence
  ReceiptsMatchAudit
  AuditAccountsForEvidence
PROPERTIES
  AnswersAreCurrent
  KeepsContract
