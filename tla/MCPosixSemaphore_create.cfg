SPECIFICATION SemSpec
CONSTANTS
  Procs = {p1}
  Objects = {o1, o2}
  NoObject = NoObject
  InitVals = {1}
  Modes = {"create"}
  Takers = {}
  Crashers = {p1}
PROPERTIES CreateNeverFails
