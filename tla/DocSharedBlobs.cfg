SPECIFICATION Spec
CONSTANTS
  Worker = {w1, w2}
  Sandbox = {s}
  Image = {i1}
  Base = {b1, b2}
  Tag = {t}
  Blob = {i1, b1, b2, shared}
  Volume = {}
  layers <- OwnAndShared
  Requests = {"pull", "base-pull", "create", "rm"}
  MaxCrashes = 0
  none = none
  shared = shared
CHECK_DEADLOCK FALSE
SYMMETRY Symmetry
INVARIANTS BasesIntact
