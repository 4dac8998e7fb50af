CONSTANTS
  MaxLaunches <- MCMaxLaunches
  MaxExec <- MCMaxExec
  Points <- MCPoints
SPECIFICATION Spec
INVARIANTS
  NoStuckTransient
  ErroredBlocksSettled
  BlocksAnswerTheirRequest
  NoOverlappingBlocks
