CONSTANTS
  Specs <- OneSpec
  Bundles = {"c1"}
  Stored <- AsStored
  Events = {"tamper", "staleStatus"}
  MaxEvents = 1
  None = None
  Missing = Missing
SPECIFICATION Spec
INVARIANT RestsReady
CHECK_DEADLOCK FALSE
