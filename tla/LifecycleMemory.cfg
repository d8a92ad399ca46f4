SPECIFICATION Spec
CONSTANTS
  s1 = s1 s2 = s2 v1 = v1 n1 = n1
  boot = boot Free = Free NoSandbox = NoSandbox
  Sandbox = {s1, s2}
  Worker = {w1, w2}
  Volume = {v1}
  VolumesOf <- NoVolumes
  Claim = {n1}
  ClaimsOf <- NoClaims
  AutoRemove = {}
  Budget = 1
  MaxSlot = 2
  MaxGen = 1
  MaxFailures = 1
  Requests = {"create", "start", "remove"}
  Faults = {"crash"}
SYMMETRY Symmetry
INVARIANTS MemoryBudget
\* Every ID has been used up in the end.
CHECK_DEADLOCK FALSE
