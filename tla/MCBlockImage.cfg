SPECIFICATION Spec
CONSTANTS
  Blocks <- MCBlocks
  Ids <- MCIds
  NoId = NoId
  Values <- MCValues
  Garbage = "g"
  Source <- MCSource
  Target <- MCTarget
  Lists <- MCLists
  FullLists <- Never
  PowerLoss = FALSE
  Abandoned <- Never
  OtherIndices = {1, 2, 3}
  MaxRestarts = 3
  MaxRots = 0
INVARIANTS
  TypeOK
  NeverUnresumable
  Recoverable
PROPERTIES
  Completes
