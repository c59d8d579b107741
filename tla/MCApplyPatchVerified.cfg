SPECIFICATION Spec
CONSTANTS
  N = 1
  MaxMishaps = 0
INVARIANTS
  VerifiedIsSuccess
