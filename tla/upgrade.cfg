CONSTANTS
  Objects <- TwoObjects
  Kind <- TwoKinds
  Home <- TwoHomes
  Name <- TwoNames
  Namespaces = {"a", "b"}
  Requests <- AtHome
  AllowLists <- Closed
  Events = {"upgrade", "fail"}
  None = None
SPECIFICATION Spec
INVARIANT GrantsComplete
PROPERTY GrantsBeforeItRevokes
CHECK_DEADLOCK FALSE
