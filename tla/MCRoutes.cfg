SPECIFICATION Spec
CONSTANTS
  Requests = {r1}
  Spaces = {s1, s2}
  RouteGUIDs = {g1, g2}
  DomainGUIDs = {d1}
  Names = {n1, n2}
  AppGUIDs = {a1}
  None = None
  Absent = Absent
  Deleted = Deleted
SYMMETRY Symmetry
INVARIANTS
  TypeOK
  OneNamePerDomain
  AnswerIsTimely
  AppRoutesInOneSpace
  DomainWasThere
