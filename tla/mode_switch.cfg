CONSTANTS
  Entries = {e1}
  Opts = {o1, o2}
  Ids = {i1, i2}
  ByoRunner = ByoRunner
  BringYourOwn = BringYourOwn
  Absent = Absent
  None = None
  ApiScope = FALSE
  MaxAttempts = 2
  MaxFaults = 2
  Events = {"modeSwitch"}
SPECIFICATION Spec
INVARIANT ByoUntouched
CHECK_DEADLOCK FALSE
