SPECIFICATION Spec
CONSTANTS
  AppGUIDs = {a1, a2}
  PackageGUIDs = {p1}
  BuildGUIDs = {b1}
  ProcessGUIDs = {c1}
  RouteGUIDs = {t1}
  OrgGUIDs = {o1}
  SpaceGUIDs = {s1}
  DomainGUIDs = {d1}
  Absent = Absent
  Deleted = Deleted
  None = None
SYMMETRY Symmetry
INVARIANTS
  LinksLeadThere
  LinksHold
  WalkStaysWithApp
