SPECIFICATION Spec
CONSTANTS
  MaxLength = 4
  Questions <- ModelQuestions
  Sample <- ModelSample
INVARIANTS
  TypeOK
  ProvenIsIncluded
  RefutedHasWitness
  MembershipIsExact
  FailsClosed
  RoundsRemoveNewWords
CHECK_DEADLOCK FALSE
