\* A SET that comes after the initialization of the file system.
CONSTANTS
  c1 = c1
  c2 = c2
  Connections = {c1, c2}
  Raw <- Spellings
  LowerCase <- Cases
  Openers = {"client", "none"}
  Settable <- FewSettable
  NumberOf <- Numbers
  SecretOf <- Secrets
  None = None
  Unset = Unset
SPECIFICATION Spec
PROPERTY LateChangesFail
