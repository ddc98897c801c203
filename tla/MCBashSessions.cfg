CONSTANTS
  e1 = e1
  e2 = e2
  c1 = c1
  Execs <- MCExecs
  Creates <- MCCreates
  None = None
SPECIFICATION FairSpec
INVARIANTS BashTypeOK StrayWasOverwritten EarlyMarkIsAnothers
PROPERTIES EveryExecEnds NoneRunsForEver
CHECK_DEADLOCK FALSE
