CONSTANTS
  MaxLaunches <- MCMaxLaunches
  MaxExec <- MCMaxExec
  Points <- MCPoints
SPECIFICATION Spec
PROPERTY
  LifecycleSpec
