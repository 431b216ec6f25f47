SPECIFICATION Spec
CONSTANTS
  Uploads = {u1, u2}
  Stagings = {q1}
  Changes = {c1}
  Spaces = {s1, s2}
  AppGUIDs = {a1}
  PackageGUIDs = {p1}
  BuildGUIDs = {b1}
  Digests = {d1, d2}
  Names = {n1}
  EnvSecret = EnvSecret
  NoImage = NoImage
  None = None
  Absent = Absent
  Deleted = Deleted
CONSTRAINT FewMoves
SYMMETRY Symmetry
INVARIANTS
  DropletIsHere
  RunsOwnBits
  StagesUploadedBits
