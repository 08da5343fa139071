CONSTANTS
  Clients = {c1, c2}
  NumInstances = 3
  MaxLocks = 1
  MaxFaults = 1
  MayExpire = {1, 2}
SPECIFICATION Spec
SYMMETRY ClientSymmetry
INVARIANTS ExclusionLostOnlyByDeletion WriterIsNotOvertaken KeysHaveLiveOwners
CHECK_DEADLOCK FALSE
