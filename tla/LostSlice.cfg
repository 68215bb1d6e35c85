\* The stream does not open, or a write of it fails.
SPECIFICATION Spec
CONSTANTS
  Conn = {c1}
  File = {f1}
  Dir = {d1}
  DirOf <- OneDirectory
  Inode = {i1, i2}
  None = None
  NumThreads = 1
  Overwrites = TRUE
  MayFail = TRUE
  MaxSlices = 1
PROPERTY AckedSliceAdded
