CONSTANTS
  a = a
  b = b
  c = c
  ghost = ghost
  Source <- ThreeTables
  Absent = {ghost}
SPECIFICATION FairSpec
INVARIANTS
  TypeOK
  EveryTableOnce
  ParentsFirst
  CyclesLast
  DropsChildrenFirst
PROPERTIES
  Termination
  ImplementsTableOrder
