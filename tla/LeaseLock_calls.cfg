CONSTANTS
  Goroutines = {g1, g2, g3}
  Objects = {l1, l2}
  Nobody = Nobody
SYMMETRY LeaseLockSymmetry
SPECIFICATION Spec
INVARIANTS OneLiveGrant WaitersAreWaiting ManagerStuckBehindTakenLock
CHECK_DEADLOCK FALSE
