SPECIFICATION Spec
CONSTANTS
  Requests = {r1, r2}
  GUIDs = {g1, g2}
  Root = Root
  Names = {n1}
  Users <- Namesakes
  AccountSpaces = {s1, s2}
  AuthEnabled = TRUE
  None = None
  Absent = Absent
  Deleted = Deleted
SYMMETRY Symmetry
INVARIANTS
  TypeOK
  CreatedWasOk
  RefusedLeavesNothing
  ListIsTimely
