SPECIFICATION Spec
CONSTANTS
  Kinds = {"cpout"}
  Output = 2
  Input = 1
  Cap = 1
  Keep = 1
  Faults = {"vm"}
CHECK_DEADLOCK FALSE
INVARIANTS CopyComplete
