SPECIFICATION Spec
CONSTANTS
  Part <- MCPart
  Lists <- MCLists
  RestoreLists <- MCRestoreLists
  Names = {"auto", "date"}
  Safestrap = FALSE
  ImageBlocks = 2
  MaxSessions = 2
  MaxMishaps = 1
INVARIANTS
  TypeOK
  BackupIsWhole
  NoWriterInRemoval
  CheckedIsSound
PROPERTIES
  SessionEnds
  CancelEnds
CHECK_DEADLOCK FALSE
