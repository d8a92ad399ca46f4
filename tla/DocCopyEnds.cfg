SPECIFICATION FairSpec
CONSTANTS
  Kinds = {"cpin", "load"}
  Output = 2
  Input = 1
  Cap = 1
  Keep = 1
  Faults = {"source"}
CHECK_DEADLOCK FALSE
PROPERTIES CopyEnds
