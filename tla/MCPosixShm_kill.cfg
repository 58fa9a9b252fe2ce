SPECIFICATION Spec
CONSTANTS
  Procs = {p1, p2}
  Objects = {o1, o2, o3}
  NoObject = NoObject
  InitVals = {1}
  Modes = {"open", "create"}
  Takers = {p1, p2}
  Crashers = {p1, p2}
  Segments = {g1, g2, g3}
  NoSegment = NoSegment
  Sizes = {1}
  ConcurrentNew = FALSE
  CrashAnywhere = TRUE
SYMMETRY Symmetry
INVARIANTS NameRecoverable
