SPECIFICATION Spec
CONSTANTS
  Ids = {i1}
  Names = {n1}
  Uris = {u1}
  Passws = {p1}
  Dash = Dash
  None = None
SYMMETRY AddrBookSymmetry
INVARIANTS
  DropNeverRefused
