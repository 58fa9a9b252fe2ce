SPECIFICATION IpcSpec
CONSTANTS
  Procs = {p1, p2, p3}
  Objects = {o1, o2, o3, o4}
  NoObject = NoObject
  InitVals = {1}
  Modes = {"open", "create"}
  Takers = {p1, p2, p3}
  Crashers = {p1, p2, p3}
  Segments = {g1, g2, g3, g4}
  NoSegment = NoSegment
  Sizes = {1}
  ConcurrentNew = FALSE
  CrashAnywhere = FALSE
  SysvProcs = {s1, s2, s3}
  Overlapping = {s1, s2}
  Inodes = {1, 2}
  Ids = {1, 2, 3, 4, 5, 6, 7}
  MaxVal = 2
  Usages = {"disciplined", "free"}
SYMMETRY Symmetry
INVARIANTS UnitsConserved OwnerBound LockExcludes SysvExcludes UnitNeverLost NoKernelObjectLeft
