CONSTANTS
  N = 1
  Forever = Forever
  Lifetimes <- ShortLived
  Threshold = 6
  Lead = 3
  MinResync = 1
  MaxResync = 2
SPECIFICATION FairSpec
PROPERTY NeverBusy
CHECK_DEADLOCK FALSE
