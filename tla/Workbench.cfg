SPECIFICATION Spec
CONSTANTS
  Clients = {c1, c2}
  Services = {A, B}
  Versions = {v1, v2}
  None = None
  Slots = {r1, r2}
  MaxBound = 2
  MaxCases = 2
SYMMETRY Alike
INVARIANTS
  TypeOK
  PageCoherent
  KeysMeanOffers
  ClientsUsed
  HandlerOpen
  CaseIdsDiffer
