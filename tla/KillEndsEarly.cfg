SPECIFICATION Spec
CONSTANTS
  MaxThreads = 3
  Locks = {}
  Cvs = {}
  Policy = "fcfs"
  MayKill = TRUE
  MallocMayFail = FALSE
INVARIANTS
  EndsWhenNobodyCanRun
