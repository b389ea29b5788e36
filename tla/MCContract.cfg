SPECIFICATION FairSpec
CONSTANTS
  Scopes = {"task-contract"}
  MaxMembers = 1
  MaxHandles = 1
  MaxMutations = 1
INVARIANTS TypeOK AcceptanceIsComplete
PROPERTIES Adjudicates
CHECK_DEADLOCK FALSE
