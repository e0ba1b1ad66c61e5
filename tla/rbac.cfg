CONSTANTS
  Objects <- OneObject
  Kind <- OneKind
  Home <- OneHome
  Name <- OneName
  Namespaces = {"a", "b"}
  Requests <- Elsewhere
  AllowLists <- OpenLists
  Events = {"edit", "delete", "upgrade", "tamper", "restart", "fail", "stale"}
  None = None
SPECIFICATION FairSpec
INVARIANTS TypeOK NoLeakedGrant NoExtraGrant GrantsComplete
PROPERTIES GrantsAsAsked Settles
CHECK_DEADLOCK FALSE
