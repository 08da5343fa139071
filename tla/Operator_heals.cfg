CONSTANTS
  Variants <- InRepository
  Specs <- SmallAndLarge
  MaxClusters = 2
  MaxLag = 2
  MaxDisturbances = 2
SPECIFICATION Spec
PROPERTIES RunningMatchesSpec ObjectsFollowSpec BecomesReady ComesToRest CleanUp
CHECK_DEADLOCK FALSE
