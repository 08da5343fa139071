CONSTANTS
  n1 = n1  n2 = n2  n3 = n3
  Nodes = {n1, n2, n3}
  NoNode = NoNode
  MayStop = {n1}
  MaxBeats = 1
  MayFail = TRUE
  MaxTerm <- LiveTerms
SPECIFICATION FairSpec
PROPERTIES CandidateMovesOn StopReturns
CHECK_DEADLOCK FALSE
