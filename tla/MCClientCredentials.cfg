CONSTANTS
  Clients = {c1, c2, c3}
  MaxIdentities = 2
  None = None
SPECIFICATION Spec
PROPERTIES
  TrustKept
  SavesEnd
