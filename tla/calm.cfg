CONSTANTS
  Entries = {e1, e2}
  Opts = {o1, o2}
  Ids = {i1, i2, i3}
  ByoRunner = ByoRunner
  BringYourOwn = BringYourOwn
  Absent = Absent
  None = None
  ApiScope = TRUE
  MaxAttempts = 2
  MaxFaults = 1
  Events = {"editOptions", "expiry", "uiDelete", "delete", "gitlabError", "gitlabLost", "kubeError", "crash", "staleCache", "midPassEdit", "revoke", "secretDeleted", "entryRemoved", "modeSwitch"}
SPECIFICATION Spec
SYMMETRY Symmetry
CONSTRAINT WithinBound
INVARIANTS TypeOK OneRunnerPerUnit TokenMatchesStatus LeaksAreBounded
PROPERTY ImplementsRegistry
CHECK_DEADLOCK FALSE
