SPECIFICATION Spec
CONSTANT
  Submissions <- ModelSubmissions
INVARIANTS
  TypeOK
  BundleIsClosed
  AuthorityOnlyNarrows
  HostIsInjective
  RightGovernanceIsAccepted
CHECK_DEADLOCK FALSE
