SPECIFICATION Spec
CONSTANTS
  Blocks <- MCBlocks
  Ids <- MCIds
  NoId = NoId
  Values <- MCValues
  Garbage = "g"
  Source <- MCSource
  Target <- MCTarget
  Lists <- MCLists
  FullLists <- MCFullLists
  MaxLen = 3
  PowerLoss = TRUE
  Abandoned <- AfterFailure
  OtherIndices = {2, 4}
  MaxRestarts = 2
  MaxRots = 1
INVARIANTS
  UpdatedCorrectly
  SkipIsSafe
PROPERTIES
  VerifiedIsResumable
