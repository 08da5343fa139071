CONSTANTS
  n1 = n1  n2 = n2  n3 = n3
  Nodes = {n1, n2, n3}
  NoNode = NoNode
  MayStop = {}
  MaxBeats = 1
  MayFail = TRUE
  MaxTerm <- ElectionTerms
SPECIFICATION Spec
INVARIANTS TypeOK OneVotePerTerm LeaderHadMajority DualLeaderHasLateVotes
PROPERTIES TermNeverGoesBack
CHECK_DEADLOCK FALSE
