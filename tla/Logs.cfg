SPECIFICATION FairSpec
CONSTANTS
  Keep = 2
  Full = 1
  Batch = 2
  MaxWrites = 3
  MaxStarts = 1
  MaxCrashes = 1
  MaxErrors = 1
INVARIANTS TypeOK NothingSkipped DrainedFirst SequenceContinues
PROPERTIES DrainEnds FollowerReturns
CHECK_DEADLOCK FALSE
