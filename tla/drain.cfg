CONSTANTS
  Objects <- ThreeObjects
  Self <- Deleted
  Pods <- FivePods
  ManagerOf <- Managed
  Label <- Labels
  Owners <- Owned
  None = None
  Grace = 2
  Margin = 1
SPECIFICATION FairSpec
INVARIANTS TypeOK JobsFinish OthersUntouched
PROPERTY DrainEnds
CHECK_DEADLOCK FALSE
