SPECIFICATION Spec
CONSTANTS
  BlockSize = 2
  FileSize = 3
  Word = 8
  Versions = {1, 2}
  MaxOffset = 4
  Callers = {"gui", "cancel", "kernel"}
  MaxPolls = 2
  Requests <- MCRequests
  MaxReads = 3
  MaxSessions = 2
INVARIANTS
  TypeOK
  SameUnlessStale
  NoFalseError
  
PROPERTIES
  SideloadEnds
CHECK_DEADLOCK FALSE
