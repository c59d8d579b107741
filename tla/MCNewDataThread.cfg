SPECIFICATION Spec
CONSTANTS
  NewCmds = 2
  End <- MCEnd
  MaxStream = 4
  MaxBlank = 1
  OutBuf = 1
INVARIANTS
  InOrder
  SuccessMeansWritten
  WriterOwned
  NoFalseMissing
PROPERTIES
  Terminates
  CopiesSequentially
