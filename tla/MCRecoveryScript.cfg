SPECIFICATION Spec
CONSTANTS
  Args <- MCArgs
  Scripts <- MCScripts
  Cli <- MCCli
  Kind <- MCKind
  MaxMishaps = 2
  MaxVisits = 2
INVARIANTS
  TypeOK
  AtMostOnce
  OrderKept
PROPERTIES
  NoBootLoop
CHECK_DEADLOCK FALSE
