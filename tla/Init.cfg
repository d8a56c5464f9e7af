\* Two connections that set options and open files at the same time.
CONSTANTS
  c1 = c1
  c2 = c2
  Connections = {c1, c2}
  Raw <- Spellings
  LowerCase <- Cases
  Openers = {"client", "none"}
  Settable <- SomeSettable
  NumberOf <- Numbers
  SecretOf <- Secrets
  None = None
  Unset = Unset
SPECIFICATION FairSpec
INVARIANTS TypeOK CallbackAgrees CreatedAsConfigured
PROPERTIES TemporaryFilesStayLocal OperationsReturn
