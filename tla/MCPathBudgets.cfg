SPECIFICATION Spec
CONSTANTS
  MaxLength = 4
  Questions <- BudgetQuestions
  Sample <- ModelSample
PROPERTY
  ProofEnds
CHECK_DEADLOCK FALSE
