SPECIFICATION Spec
CONSTANTS
  Keep = 2
  Full = 1
  Batch = 2
  MaxWrites = 5
  MaxStarts = 1
  MaxCrashes = 0
  MaxErrors = 0
INVARIANT GapsExposed
CHECK_DEADLOCK FALSE
