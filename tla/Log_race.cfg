SPECIFICATION Spec
CONSTANTS
  Thread = {t1, t2}
  None = None
  MaxOpens = 3
  MaxRotations = 2
  MaxLines = 1
INVARIANT NoClosedLog
CHECK_DEADLOCK FALSE
