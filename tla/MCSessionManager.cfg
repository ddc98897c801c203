CONSTANTS
  r1 = r1
  r2 = r2
  s1 = s1
  Requests <- MCRequests
  Sessions <- MCSessions
  None = None
  Faults = {"restart", "mkdir", "remove"}
SPECIFICATION FairSpec
INVARIANTS SessionTypeOK TrackedHasDir NothingLeftBehind SteadyIsListed FlagMeansWorkspace
PROPERTIES FreshSurvivesCleanup ExpiredIsRemoved
