CONSTANTS
  MaxLaunches <- MCMaxLaunches
  MaxExec = 1
  Points = {1}
SPECIFICATION FairSpec
PROPERTY
  KernelSettles
