CONSTANTS
  Clients = {c1, c2}
  Paths = {p, q}
  MaxU64 = 3
SPECIFICATION Spec
INVARIANT OpenNeverReportsCorruption
