SPECIFICATION Spec
CONSTANTS
  Plans <- SilentPlans
  Unreliable = {"validator"}
  Paths <- TwoPaths
  Contents <- ModelContents
INVARIANTS
  MissingValidatorIsNoFinding
CHECK_DEADLOCK FALSE
