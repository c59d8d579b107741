SPECIFICATION Spec
CONSTANTS
  Args <- MCArgs
  Scripts <- MCScripts
  Cli <- MCCli
  Kind <- MCKind
  MaxMishaps = 1
  MaxVisits = 0
INVARIANTS
  RestartsUnfinished
CHECK_DEADLOCK FALSE
