CONSTANTS
  N = 2
  Forever = Forever
  Lifetimes <- SomeExpire
  Threshold = 6
  Lead = 3
  MinResync = 1
  MaxResync = 2
SPECIFICATION FairSpec
INVARIANTS TypeOK InTime
PROPERTY NeverBusy
CHECK_DEADLOCK FALSE
