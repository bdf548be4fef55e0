SPECIFICATION Spec
CONSTANTS
  Ids = {i1, i2}
  Names = {n1, n2}
  Uris = {u1}
  Passws = {p1}
  Dash = Dash
  None = None
SYMMETRY AddrBookSymmetry
INVARIANTS
  TypeOK
  NamesUnique
PROPERTIES
  DashNeverStored
  ContactsAreDirectory
  IdentitiesAreDirectory
