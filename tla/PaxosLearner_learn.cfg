CONSTANTS
  a1 = a1  a2 = a2  a3 = a3  c1 = c1  c2 = c2  v1 = v1  v2 = v2
  Acceptors = {a1, a2}
  Proposers = {1, 2}
  Values = {v1, v2}
  Nil = Nil
  Calls = {c1, c2}
  ProposerOf <- DuelProposerOf
  CallValue <- DuelValues
  AcceptorsOf <- EveryAcceptor
  MaxRound <- TwoRoundsFirst
  MayExpire = {}
  MayShutdown = {}
  LearnerAcceptors <- PairOrder
  LearnCalls = {"k1", "k2"}
  Subscribers = {"s1"}
  MayStopLearning = TRUE
SPECIFICATION LearnerFairSpec
INVARIANTS LearnedFromMajority NoListenerMissed
CHECK_DEADLOCK FALSE
PROPERTIES ChosenIsLearned
