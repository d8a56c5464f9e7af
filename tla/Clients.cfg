\* Threads of two processes on one database, without coordination.
CONSTANTS
  p1 = p1
  p2 = p2
  t1 = t1
  t2 = t2
  t3 = t3
  Processes = {p1, p2}
  Threads = {t1, t2, t3}
  Home <- TwoProcesses
  Groups = {g}
  Coordinated = FALSE
  NoThread = NoThread
  MaxEpoch = 2
  MaxVersion = 1
SPECIFICATION FairSpec
INVARIANTS TypeOK OpenWritersAreCached NeverFencesItself ReadsSeeOwnWrites
PROPERTIES OnlyCreateCreates CallsReturn
