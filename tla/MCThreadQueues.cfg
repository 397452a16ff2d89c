SPECIFICATION Spec
CONSTANTS
  Thread = {t0, t1, t2, t3}
  WaitQueue = {q1, q2}
  Capacity = 4
  Null = Null
INVARIANTS
  TypeOK
  PushNeverAsserts
  ListsWellLinked
PROPERTIES
  ImplementsQueues
SYMMETRY Symmetry
