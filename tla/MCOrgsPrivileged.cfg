SPECIFICATION Spec
CONSTANTS
  Requests = {r1, r2}
  GUIDs = {g1}
  Root = Root
  Names = {n1, n2}
  Users <- Namesakes
  AccountSpaces = {s1}
  AuthEnabled = FALSE
  None = None
  Absent = Absent
  Deleted = Deleted
PROPERTY
  EveryRequestAnswered
