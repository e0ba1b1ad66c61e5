CONSTANTS
  Ids <- SixIds
  ByoRunner = ByoRunner
  None = None
  MaxLives = 3
  MaxAttempts = 2
  MaxFaults = 1
  Events = {"staleCache", "midPassDelete", "crash", "kubeError"}
SPECIFICATION FairSpec
INVARIANTS TypeOK LeaksPerLife ByoUntouched RestsOwned
PROPERTY Settles
CHECK_DEADLOCK FALSE
