SPECIFICATION Spec
CONSTANTS
  Requests = {r1, r2}
  Spaces = {s1, s2}
  AppGUIDs = {a1, a2}
  ProcessGUIDs = {p1}
  CFApp = CFApp
  None = None
  Absent = Absent
  Deleted = Deleted
SYMMETRY Symmetry
INVARIANTS
  TypeOK
  ListIsTimely
  ProcessesOfOneApp
  ShownIsFound
