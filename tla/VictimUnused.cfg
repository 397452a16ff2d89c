SPECIFICATION Spec
CONSTANTS
  NTasks = 2
  NPages = 2
  Val = {1}
  Touched <- TouchedMC
  TlbSize = 2
  Configs <- ConfigsTight
INVARIANTS
  VictimHoldsPage
