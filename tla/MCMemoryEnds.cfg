SPECIFICATION EndSpec
CONSTANTS
  p1 = p1
  p2 = p2
  A = A
  B = B
  Job = {j1, j2}
  Plugin = {p1, p2}
  JobRequest <- EndRequests
  Fingerprint = {v1}
  None = None
  Content = {A, B}
  Original = A
  Edit <- Forward
  MaxEdits = 0
  MaxFaults = 2
INVARIANTS
  ReportsMatchPlugins
  OutcomesMatchEvidence
PROPERTIES
  JobsAndShutdownsEnd
