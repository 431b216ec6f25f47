SPECIFICATION Spec
CONSTANTS
  Requests = {r1, r2}
  Spaces = {s1, s2}
  AppGUIDs = {a1, a2}
  PackageGUIDs = {p1}
  BuildGUIDs = {b1}
  None = None
  Absent = Absent
  Deleted = Deleted
SYMMETRY Symmetry
INVARIANTS
  TypeOK
  ReferencesResolve
  NotFoundIsDeleted
  OutcomeStays
