SPECIFICATION FairSpec
CONSTANTS
  Worker = {w1, w2}
  Sandbox = {s1}
  Image = {i1}
  Base = {b1, b2}
  Tag = {t1}
  Blob = {b1, b2, shared}
  Volume = {v1}
  layers <- OnlyBases
  Requests = {"pull", "create", "start", "rm", "volume"}
  MaxCrashes = 0
  none = none
  shared = shared
INVARIANTS BaseKept MountsBacked
CHECK_DEADLOCK FALSE
PROPERTIES RequestsEnd
