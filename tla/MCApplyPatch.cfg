SPECIFICATION Spec
CONSTANTS
  N = 3
  MaxMishaps = 1
INVARIANTS
  Recoverable
PROPERTIES
  TargetStays
  Completes
