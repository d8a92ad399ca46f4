SPECIFICATION FairSpec
CONSTANTS
  Kinds = {"run", "exec", "exectty", "cpin", "cpout", "load"}
  Output = 2
  Input = 1
  Cap = 1
  Keep = 1
  Faults = {"vm", "daemon", "client", "source"}
INVARIANTS CopyAcked
PROPERTIES Transfers SessionEnds DetachReturns
CHECK_DEADLOCK FALSE
