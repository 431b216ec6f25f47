SPECIFICATION Spec
CONSTANTS
  Requests = {r1, r2}
  Spaces = {s1}
  AppGUIDs = {a1}
  PackageGUIDs = {p1}
  Digests = {d1, d2}
  NoImage = NoImage
  None = None
  Awaiting = Awaiting
  NoBits = NoBits
  Absent = Absent
  Deleted = Deleted
PROPERTY
  BitsUploadedOnce
