SPECIFICATION Spec
CONSTANTS
  p1 = p1
  p2 = p2
  A = A
  B = B
  Job = {j1}
  Plugin = {p1}
  JobRequest <- SingleRequests
  Fingerprint = {v1}
  None = None
  Content = {A, B}
  Original = A
  Edit <- Forward
  MaxEdits = 0
  MaxFaults = 0
INVARIANTS
  CancelledJobHasNoPendingPlugin
