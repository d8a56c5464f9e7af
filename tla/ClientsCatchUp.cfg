\* Two processes that take turns at writing one database.
CONSTANTS
  p1 = p1
  p2 = p2
  t1 = t1
  t2 = t2
  t3 = t3
  Processes = {p1, p2}
  Threads = {t1, t3}
  Home <- OneEach
  Groups = {g}
  Coordinated = TRUE
  NoThread = NoThread
  MaxEpoch = 3
  MaxVersion = 1
SPECIFICATION FairSpec
PROPERTY ReadersCatchUp
