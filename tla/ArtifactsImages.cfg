SPECIFICATION Spec
CONSTANTS
  Worker = {w1, w2}
  Sandbox = {s}
  Image = {i1, i2}
  Base = {b1}
  Tag = {t}
  Blob = {i1, i2, b1, shared}
  Volume = {}
  layers <- OwnAndShared
  Requests = {"pull", "base-pull", "create", "rm"}
  MaxCrashes = 1
  none = none
  shared = shared
SYMMETRY Symmetry
INVARIANTS ImagesIntact CarrierLinks AliasesGone
