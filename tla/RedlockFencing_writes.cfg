CONSTANTS
  c1 = c1  c2 = c2  o1 = o1  o2 = o2
  NumInstances = 3
  Clients = {c1, c2}
  Objects = {o1, o2}
  ObjectOf <- OwnObjects
  MaxLocks = 3
  MaxFaults = 1
  MayExpire = {1}
  MaxToken = 3
  MaxWrites = 1
SPECIFICATION SpecBoth
SYMMETRY Swap
INVARIANTS ExclusionLostOnlyByDeletion TokenReuseNeedsReset KeysHaveLiveOwners LateWriteRejected FenceCoversData TokenWritesOnce
PROPERTIES UnlockSparesOthers RaceNeedsLostLock RefusalHasCause DataNeverGoesBack
CHECK_DEADLOCK FALSE
