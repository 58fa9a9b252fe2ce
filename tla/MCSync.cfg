SPECIFICATION SyncSpec
CONSTANTS
  Threads = {p1, p2, p3, t4}
  NoThread = NoThread
  CounterLimit = 8
  Faults = {"mutex_lock", "cond_wait", "cond_signal"}
  LockThreads = {l1, l2, l3}
  LockSystems = {"posix", "solaris", "vista", "xp"}
  CondThreads = {c1, c2, c3}
  NoOwner = NoOwner
  CondSystems = {"posix", "solaris", "vista", "xp", "beos", "atheos", "amiga", "os2"}
  Processors = 1
  UnlockedOn = {"posix", "solaris", "vista", "beos", "atheos", "amiga", "os2"}
  MaxDepth = 2
  AtomicThreads = {a1, a2}
  WordBits = 1
  NoHolder = NoHolder
  Arguments = {0, 1}
  Builds = {"c11", "sync", "win", "win_old", "decc", "sim"}
  SpinThreads = {s1, s2, s3}
  SpinBuilds = {"c11", "sync", "win", "decc", "sim"}
  MaxCount = 4
  Procs = {p1, p2, p3}
  Objects = {o1, o2, o3, o4}
  NoObject = NoObject
  InitVals = {1}
  Modes = {"open", "create"}
  Takers = {}
  Crashers = {}
  Segments = {g1, g2, g3, g4}
  NoSegment = NoSegment
  Sizes = {0, 1}
  ConcurrentNew = TRUE
  CrashAnywhere = FALSE
SYMMETRY Symmetry
INVARIANTS CountersExact WordExact WakeupsKept BroadcastReleases HolderSeesStores NothingLeft MappingBacked
PROPERTIES ImplementsRWLock ImplementsAbstractLock ImplementsAtomicWord
