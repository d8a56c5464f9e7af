\* Three threads on one handle: two readers and a writer can meet, and wait for each other.
CONSTANTS
  Threads = {t1, t2, t3}
  NoThread = NoThread
  Called = {"pread", "pwrite", "sync", "close"}
  MaxVersion = 4
SPECIFICATION FairSpec
INVARIANTS TypeOK ReadersSeeOneVersion BrokenFilesAreRefused ClosedMeansSynced
PROPERTY CallsReturn
