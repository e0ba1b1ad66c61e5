CONSTANTS
  Entries = {e1}
  Opts = {o1, o2}
  Ids = {i1, i2, i3}
  ByoRunner = ByoRunner
  BringYourOwn = BringYourOwn
  Absent = Absent
  None = None
  ApiScope = FALSE
  MaxAttempts = 3
  MaxFaults = 2
  Events = {"editOptions", "uiDelete", "delete", "gitlabError", "gitlabLost", "kubeError", "crash", "staleCache", "midPassEdit", "revoke", "secretDeleted"}
SPECIFICATION FairSpec
INVARIANTS LeaksAreBounded FinalizerGuards ByoUntouched GiveUpIsEarned
PROPERTY DeletionTerminates
CHECK_DEADLOCK FALSE
