SPECIFICATION Spec
CONSTANTS
  None = None
  Disks <- MCDisks
  Requests <- MCRequests
  MaxWrites = 2
  MaxImports = 2
  Mount <- MCMount
  Depth = 2
  MftFiles <- MCFiles
  Journal <- MCJournal
  Inputs <- MCInputs
  Expected <- MCExpected
  Imports <- MCImports
  i1 = i1
  i2 = i2
INVARIANTS
  EventsMatchTheImage
CHECK_DEADLOCK FALSE
