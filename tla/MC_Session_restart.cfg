CONSTANTS
  MaxLaunches = 4
  MaxExec <- MCMaxExec
  Points <- MCPoints
SPECIFICATION Spec
INVARIANT
  SingleRestartSequence
