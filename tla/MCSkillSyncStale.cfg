CONSTANTS
  r1 = r1
  r2 = r2
  Requests <- MCRequests
  None = None
  Times = {2, 4}
  OwnStamps = {3}
  MaxCleans = 0
  MaxFaults = 0
SYMMETRY Symmetry
SPECIFICATION Spec
INVARIANT CurrentStampCurrentContent
CHECK_DEADLOCK FALSE
