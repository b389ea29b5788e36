SPECIFICATION Spec
CONSTANTS
  GTypes <- TwoGates
  Submissions <- ProofSubmissions
  Unreliable = {"input", "completed", "contract digest", "source digest", "evidence digest", "receipt digest", "remotes", "complete", "validator", "paths", "continuity"}
INVARIANTS AcceptanceIsProven HonestHistoryIsNotRefuted
PROPERTIES ProofsInOrder
CHECK_DEADLOCK FALSE
