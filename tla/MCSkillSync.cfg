CONSTANTS
  r1 = r1
  r2 = r2
  Requests <- MCRequests
  None = None
  Times = {2, 4}
  OwnStamps = {1, 3, 5}
  MaxCleans = 1
  MaxFaults = 1
SYMMETRY Symmetry
SPECIFICATION Spec
INVARIANTS TypeOK WholeUnlessDisturbed StampBetween
PROPERTY AnswersNeverGoBack
CHECK_DEADLOCK FALSE
