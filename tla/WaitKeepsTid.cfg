SPECIFICATION Spec
CONSTANTS
  MaxThreads = 3
  Locks = {}
  Cvs = {}
  Policy = "fcfs"
  MayKill = FALSE
  MallocMayFail = FALSE
INVARIANTS
  WaitedIsReleased
