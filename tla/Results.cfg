SPECIFICATION Spec
CONSTANTS
  s1 = s1 s2 = s2 name = name prefix = prefix
  keeper = keeper Free = Free
  Sandbox = {s1, s2}
  Client = {c1}
  Key = {s1, prefix}
  Exact <- ByID
  Prefixed <- ByPrefix
  Sizes <- LogSizes
  Retention = 2
  MaxResults = 1
  MaxBytes = 1
  MaxNow = 3
  Ops = {"wait", "attach", "logs"}
  Faults = {"crash", "save", "unlink"}
INVARIANTS ResultsBounded
PROPERTIES ResultDelivered OutputDelivered
