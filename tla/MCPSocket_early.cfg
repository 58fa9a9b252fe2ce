SPECIFICATION SocketSpec
CONSTANTS
  Callers <- OneThread
  Fds = {0, 1, 2}
  None = None
  Builds = {"unix"}
  Duties <- ClientDuties
  Tuned = {"client"}
  MaxNew = 2
  MaxBytes = 3
  Room = 2
  CloseFails = FALSE
CHECK_DEADLOCK FALSE
PROPERTIES PendingReported
