SPECIFICATION Spec
CONSTANTS
  Procs = {p1, p2, p3}
  Objects = {o1, o2, o3, o4}
  NoObject = NoObject
  InitVals = {1}
  Modes = {"open", "create"}
  Takers = {}
  Crashers = {}
  Segments = {g1, g2, g3, g4}
  NoSegment = NoSegment
  Sizes = {1}
  ConcurrentNew = TRUE
  CrashAnywhere = FALSE
SYMMETRY Symmetry
INVARIANTS LockExcludes
