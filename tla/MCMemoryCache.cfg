SPECIFICATION Spec
CONSTANTS
  p1 = p1
  p2 = p2
  A = A
  B = B
  Job = {j1, j2}
  Plugin = {p1}
  JobRequest <- CacheRequests
  Fingerprint = {v1}
  None = None
  Content = {A, B}
  Original = A
  Edit <- Forward
  MaxEdits = 1
  MaxFaults = 1
SYMMETRY Symmetry
INVARIANTS
  TypeOK
  EventsMatchImage
PROPERTIES
  RecordedOutcomeIsFinal
