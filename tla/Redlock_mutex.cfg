CONSTANTS
  c1 = c1  c2 = c2  o1 = o1
  NumInstances = 3
  Clients <- Two
  Objects <- OneObject
  ObjectOf <- SameObject
  MaxLocks = 3
  MaxFaults = 0
  MayExpire = {}
SPECIFICATION Spec
INVARIANTS MutualExclusion
CHECK_DEADLOCK FALSE
