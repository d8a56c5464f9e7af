CONSTANTS
  Clients = {c1, c2}
  Paths = {p, q}
  MaxU64 = 3
SPECIFICATION Spec
INVARIANTS TypeOK PathsResolve OneNamePerFile IdsAreNeverReused OrphansHadWriters
PROPERTY ImplementsNamespace
