SPECIFICATION Spec
CONSTANTS
  Plans <- SilentPlans
  Unreliable = {"baseline", "paths", "comparison"}
  Paths <- TwoPaths
  Contents <- ModelContents
INVARIANTS
  FinalIsSimultaneous
  AcceptedPlanIsWellFormed
  ConditionsAreCanonical
  AuthorityCoversThePlan
  PromisesAreKept
  RightPlanIsNotRefuted
CHECK_DEADLOCK FALSE
