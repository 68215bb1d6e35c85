\* Handlers of two connections in parallel, and the two locks under fairness,
\* over a file system that may fail and is full with two files; the slices
\* are left out.
SPECIFICATION FairSpec
CONSTANTS
  Conn = {c1, c2}
  File = {f1, f2}
  Dir = {d1}
  DirOf <- OneDirectory
  Inode = {i1, i2}
  None = None
  NumThreads = 2
  Overwrites = TRUE
  MayFail = TRUE
  MaxSlices = 0
INVARIANT EntryBelongs
PROPERTIES HandlersReturn OnlyEmptyRemoved
