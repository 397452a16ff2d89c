SPECIFICATION LibrarySpec
CONSTANTS
  MaxThreads = 3
  Locks = {}
  Cvs = {}
  Policy = "rand"
  MayKill = TRUE
  MallocMayFail = TRUE
INVARIANTS
  TypeOK
  QueueDiscipline
  KilledNeverRuns
  JoinersWoken
  JoinerFindsZombie
  KillsLoseNobody
PROPERTIES
  ExitCodeKept
