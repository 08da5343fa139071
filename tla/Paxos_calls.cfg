CONSTANTS
  a1 = a1  a2 = a2  a3 = a3  c1 = c1  c2 = c2  c3 = c3  v1 = v1  v2 = v2
  Acceptors = {a1, a2, a3}
  Proposers = {1, 2}
  Values = {v1, v2}
  Nil = Nil
  Calls = {c1, c2, c3}
  ProposerOf <- SharedProposerOf
  CallValue <- SharedValues
  AcceptorsOf <- EveryAcceptor
  MaxRound <- SharedRounds
  MayExpire = {}
  MayShutdown = {}
SPECIFICATION Spec
SYMMETRY AcceptorSymmetry
INVARIANTS TypeOK Agreement ReturnedIsChosen ReportsStayTrue ProposalsDistinct IInv
PROPERTIES AcceptorNeverGoesBack ImplementsConsensus
CHECK_DEADLOCK FALSE
