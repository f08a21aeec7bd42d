SPECIFICATION Spec
CONSTANTS
  None = None
  c1 = c1
  c2 = c2
  Client <- Clients
  Commands <- AllCommands
  MaxRuns = 3
CHECK_DEADLOCK FALSE
INVARIANTS
  JournalsUseEarlierMfts
  EntriesAreAccountedFor
PROPERTIES
  NothingIsReplaced
  EveryCommandEnds
