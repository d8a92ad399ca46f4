SPECIFICATION FairSpec
CONSTANTS
  Caller = {c1, c2, c3}
  Op = {o1, o2}
  ExecID = {x1}
  MaxOutput = 1
  none = none
INVARIANTS TypeOK ExitFrameLast ExecOnce
PROPERTIES OutputFinal CallsEnd
CHECK_DEADLOCK FALSE
