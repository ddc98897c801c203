CONSTANTS
  w1 = w1
  w2 = w2
  s1 = s1
  s2 = s2
  h1 = h1
  h2 = h2
  h3 = h3
  h4 = h4
  Writers <- MCWriters
  Sessions <- MCSessions
  Handles <- MCHandles
  None = None
  MaxDeletes = 2
SYMMETRY Symmetry
SPECIFICATION AuditSpec
PROPERTY EntriesReachTheFile
