CONSTANTS
  MaxLaunches <- MCMaxLaunches
  MaxExec <- MCMaxExec
  Points <- MCPoints
SPECIFICATION Spec
INVARIANT
  WaitingBlocksAwaited
