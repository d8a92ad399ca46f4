SPECIFICATION Spec
CONSTANTS
  Caller = {c1}
  Op = {o1}
  ExecID = {x1}
  MaxOutput = 1
  none = none
INVARIANT EarlyIsEarly
CHECK_DEADLOCK FALSE
