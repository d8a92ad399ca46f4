SPECIFICATION FairSpec
CONSTANTS
  Sandbox = {a}
  process = process
  MaxStarts = 1
  Job = {j1, j2}
  MaxTime = 4
  LocalRate = 1
  LocalBurst = 1
  LocalLimit = 2
  GlobalRate = 1
  GlobalBurst = 2
  GlobalLimit = 1

CHECK_DEADLOCK FALSE
INVARIANTS SlotsHeld RateBound FairShare
PROPERTIES Drains
