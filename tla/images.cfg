SPECIFICATION Spec
CONSTANTS
  Rooms = {r1, r2}
  Images = {i1, i2, i3}
  Handlers = {h1, h2}
  MaxFiles = 2
  Orders = {0, 1}
  NoRow = NoRow
  NoImage = NoImage
  NoCall = NoCall
SYMMETRY Interchangeable
INVARIANTS
  TypeOK
  NoBrokenImage
  NoOrphanFile
  OnePrimary
  FilesInvariant
  PrimaryInvariant
