SPECIFICATION Spec
CONSTANTS
  s1 = s1 s2 = s2 name = name prefix = prefix
  keeper = keeper Free = Free
  Sandbox = {s1, s2}
  Client = {c1}
  Key = {name}
  Exact <- ByID
  Prefixed <- ByPrefix
  Sizes <- LogSizes
  Retention = 2
  MaxResults = 2
  MaxBytes = 3
  MaxNow = 3
  Ops = {"wait"}
  Faults = {}
PROPERTIES LatestOfName
