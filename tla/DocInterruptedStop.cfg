SPECIFICATION FairSpec
CONSTANTS
  s1 = s1 s2 = s2 v1 = v1 n1 = n1
  boot = boot Free = Free NoSandbox = NoSandbox
  Sandbox = {s1}
  Worker = {w1}
  Volume = {v1}
  VolumesOf <- SharedVolume
  Claim = {n1}
  ClaimsOf <- NoClaims
  AutoRemove = {}
  Budget = 1
  MaxSlot = 2
  MaxGen = 1
  MaxFailures = 1
  Requests = {"create", "start", "stop"}
  Faults = {"crash"}
PROPERTIES StopCompletes
