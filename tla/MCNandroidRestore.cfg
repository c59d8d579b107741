SPECIFICATION Spec
CONSTANTS
  Part <- MCPart
  Lists <- MCLists
  RestoreLists <- MCRestoreLists
  Names = {"auto", "date"}
  Safestrap = FALSE
  ImageBlocks = 2
  MaxSessions = 2
  MaxMishaps = 1
INVARIANT RestoreFailsForCause
CHECK_DEADLOCK FALSE
