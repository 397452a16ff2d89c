SPECIFICATION SyncSpec
CONSTANTS
  MaxThreads = 3
  Locks = {l1, l2}
  Cvs = {c1}
  l1 = l1
  l2 = l2
  c1 = c1
  LockOf <- LockOfMC
  Policy = "fcfs"
  MayKill = FALSE
  MallocMayFail = FALSE
INVARIANTS
  SyncTypeOK
  NothingReadyIsLost
  StackInUse
  NoStackLeak
  NoWaitCycle
  LockHandedOn
  HolderIsActive
  OnlyRealDeadlocks
PROPERTIES
  WokenInOrder
  ReadyRuns
  JoinReturns
