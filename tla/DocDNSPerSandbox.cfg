SPECIFICATION Spec
CONSTANTS
  Sandbox = {a}
  process = process
  MaxStarts = 2
  Job = {j1, j2}
  MaxTime = 1
  LocalRate = 1
  LocalBurst = 1
  LocalLimit = 1
  GlobalRate = 1
  GlobalBurst = 2
  GlobalLimit = 2

CHECK_DEADLOCK FALSE
INVARIANTS PerSandbox
