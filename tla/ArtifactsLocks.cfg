SPECIFICATION FairSpec
CONSTANTS
  Worker = {w1, w2, w3}
  Sandbox = {s1}
  Image = {i1}
  Base = {b1}
  Tag = {t1}
  Blob = {b1, shared}
  Volume = {}
  layers <- OnlyBases
  Requests = {"pull", "create", "start", "rm"}
  MaxCrashes = 0
  none = none
  shared = shared
CHECK_DEADLOCK FALSE
PROPERTIES RequestsEnd
