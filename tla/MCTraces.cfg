SPECIFICATION Spec
CONSTANTS
  Pages = {1}
  Offsets = {0, 3}
  Types = {"L", "S"}
  MarkerPage = 0
  SimPageSize = 2
  BufSize = 3
  Val = {v1, v2}
  Unknown = Unknown
  Runs <- RunsMC
  MaxProcs = 4
  MaxLines = 3
  Quantum = 1
  Nobody = Nobody
SYMMETRY Symmetry
INVARIANTS
  TypeOK
  LastUsesKept
PROPERTIES
  ImplementsMemory
