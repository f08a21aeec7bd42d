SPECIFICATION Spec
CONSTANTS
    Cases = {a, b}
    None = None
    JobCases = {a}
    MayFail = TRUE
    Strands = {1, 2}
CHECK_DEADLOCK FALSE
INVARIANTS
  WindowIsConsistent
