SPECIFICATION FairSpec
CONSTANTS
  Scopes = {"same-host-inventory", "governance-bundle", "host-overlay-individual"}
  MaxMembers = 2
  MaxHandles = 2
  MaxMutations = 2
INVARIANTS DirectIsComplete NoStaleAcceptance PassIsCompleted
PROPERTIES CallEnds
CHECK_DEADLOCK FALSE
