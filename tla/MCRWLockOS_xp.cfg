SPECIFICATION LockSpec
CONSTANTS
  LockThreads = {t1, t2}
  LockSystems = {"xp"}
INVARIANT SleepsUntilAvailable
CHECK_DEADLOCK FALSE
