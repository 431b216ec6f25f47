SPECIFICATION Spec
CONSTANTS
  Requests = {r1, r2}
  Spaces = {s1, s2}
  AppGUIDs = {a1, a2}
  Names = {n1}
  BuildGUIDs = {b1}
  EnvSecret = EnvSecret
  None = None
  Absent = Absent
  Deleted = Deleted
SYMMETRY Symmetry
INVARIANTS
  TypeOK
  StartedHasDroplet
  CurrentDropletIsOwn
  ChangesStick
  EnvIsThere
  OrphanIsKnown
