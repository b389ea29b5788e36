SPECIFICATION Spec
CONSTANTS
  Scopes = {"same-host-inventory"}
  MaxMembers = 1
  MaxHandles = 1
  MaxMutations = 1
INVARIANTS NoStaleAcceptanceInCall
CHECK_DEADLOCK FALSE
