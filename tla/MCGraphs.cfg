SPECIFICATION Spec
CONSTANTS
  None = None
  program = program
  document = document
  Event <- MCEvent
  Entity = {program, document}
  Correlations <- MCCorrelations
  Mentions <- MCMentions
  Relations <- MCRelations
  Request <- MCRequest
  QueryEvents = 2
  RowsPerNode = 1
  Families <- MCFamilies
  Thresholds = {1}
  Cases <- MCCases
  MinScore = 50
  AnyAddress = 0
CHECK_DEADLOCK FALSE
INVARIANTS
  MissedPairsAreKnown
  EdgesAreSound
  RecordedParentsAreLinked
  GraphIgnoresOrder
  DirectionsAreRecorded
  ResultIsNear
  CutsAreAnnounced
