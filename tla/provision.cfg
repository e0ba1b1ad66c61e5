CONSTANTS
  Specs <- FewSpecs
  Bundles = {"c1", "c2"}
  Stored <- AsStored
  Events = {"edit", "source", "tamper", "restart", "fail", "resync"}
  MaxEvents = 3
  None = None
  Missing = Missing
SPECIFICATION FairSpec
INVARIANTS TypeOK RestsProvisioned RestsReady
PROPERTY Settles
CHECK_DEADLOCK FALSE
