SPECIFICATION Spec
CONSTANTS
  s1 = s1
  s2 = s2
  None = None
  Unknown = Unknown
  Slots <- MCSlots
  FileRequests <- MCFileRequests
  DirRequests <- MCDirRequests
  WorkingDirs <- MCWorkingDirs
  Mounts <- MCMounts
  Places <- MCPlaces
  ReadAs <- MCReadAs
  Held <- MCHeld
  Limits <- MCLimits
  MaxRequests = 3
  MaxFaults = 1
SYMMETRY Symmetry
INVARIANTS FileTypeOK UndisturbedIsSerial AppendsAreKept SteadyIsReported MappedIsMounted DisplayedReaches PagesJoinUp
CHECK_DEADLOCK FALSE
