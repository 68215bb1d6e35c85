\* Two uploads at a time, with two slices between them, overwriting each other,
\* renamed and deleted, in two directories.
SPECIFICATION Spec
CONSTANTS
  Conn = {c1, c2}
  File = {f1, f2}
  Dir = {d1, d2}
  DirOf <- ADirectoryEach
  Inode = {i1, i2, i3, i4}
  None = None
  NumThreads = 1
  Overwrites = TRUE
  MayFail = FALSE
  MaxSlices = 2
SYMMETRY Symmetry
INVARIANTS TypeOK UploadIntact
PROPERTY ClosedUploadIsStored
