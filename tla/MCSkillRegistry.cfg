CONSTANTS
  a = a
  b = b
  v1 = v1
  v2 = v2
  empty = empty
  text = text
  Absent = Absent
  Names <- MCNames
  VersionIds <- MCVersionIds
  Contents <- MCContents
  Empty = empty
  Clients = {p}
  MaxFaults = 1
SYMMETRY Symmetry
SPECIFICATION Spec
INVARIANTS TypeOK ServedIsActive ActiveIsListed NamesAgree
PROPERTY ActiveVersionKept RegistryIsStore
CHECK_DEADLOCK FALSE
