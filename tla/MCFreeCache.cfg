SPECIFICATION Spec
CONSTANTS
  Files = {1, 2, 3}
  TempSource = 3
  Processes = {"a", "b"}
  MaxSize = 1
  MaxFree = 1
  SizeMax = 99
INVARIANTS
  TypeOK
  HeldFilesKept
  TempSourceKept
