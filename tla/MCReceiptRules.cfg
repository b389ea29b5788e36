SPECIFICATION Spec
CONSTANTS
  GTypes <- TwoGates
  Submissions <- EditedSubmissions
  Unreliable = {}
INVARIANTS AcceptedChain AuthorityWindow NoLeaseLeftBehind DenialStopsTheLifecycle SucceededMeansDone DerivedIsSound
CHECK_DEADLOCK FALSE
