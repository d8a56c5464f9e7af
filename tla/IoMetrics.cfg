\* Requests of every kind, while the statistics are queried.
CONSTANTS
  Requests = {r1, r2, r3}
  Sizes = {1}
  MaxBytes = 1
  Latencies = {1, 4}
SPECIFICATION Spec
SYMMETRY AnyOrder
INVARIANTS TypeOK CountedOnce RowsAreWhole
