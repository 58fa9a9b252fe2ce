SPECIFICATION ProgressSpec
CONSTANTS
  Threads = {t1, t2, t3}
  NoThread = NoThread
  CounterLimit = 4
  Faults = {}
  Callers <- TwoThreads
  Fds = {0, 1, 2}
  None = None
  Builds = {"unix", "win", "os2"}
  Duties <- TwoDuties
  Tuned = {"client"}
  MaxNew = 2
  MaxBytes = 3
  Room = 1
  CloseFails = FALSE
INVARIANTS NoLostWakeup FdOwned StreamIntact
PROPERTIES NoSleeperStranded EndReturns
