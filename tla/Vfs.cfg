\* Names of one database and names that look alike, two writers per database.
CONSTANTS
  Tokens <- SomeTokens
  Urls <- SomeUrls
  Modes <- SomeModes
  FileOf <- Meaning
  Database <- MainFile
  None = None
  MaxStores = 2
  MaxEpoch = 2
SPECIFICATION Spec
INVARIANTS TypeOK NeverNests
PROPERTY ImplementsVirtualFiles
