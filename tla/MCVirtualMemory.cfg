SPECIFICATION Spec
CONSTANTS
  NTasks = 2
  NPages = 2
  Val = {0, 1}
  Touched <- TouchedMC
  TlbSize = 2
  Configs <- ConfigsMC
INVARIANTS
  TypeOK
  TlbAgrees
  RefsAgree
  WritersAlone
  SlotsOwned
  NoDoubleFault
PROPERTIES
  ImplementsMemory
