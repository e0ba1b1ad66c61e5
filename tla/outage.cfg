CONSTANTS
  Entries = {e1}
  Opts = {o1, o2}
  Ids = {i1, i2, i3}
  ByoRunner = ByoRunner
  BringYourOwn = BringYourOwn
  Absent = Absent
  None = None
  ApiScope = FALSE
  MaxAttempts = 2
  MaxFaults = 3
  Events = {"editOptions", "expiry", "uiDelete", "delete", "gitlabError"}
SPECIFICATION Spec
SYMMETRY Symmetry
CONSTRAINT WithinBound
INVARIANTS AtMostOneRunner DeregisteredUnlessGivenUp
PROPERTY OldRunnerRemovedFirst
CHECK_DEADLOCK FALSE
