CONSTANTS
  t1 = t1
  t2 = t2
  t3 = t3
  Threads <- MCThreads
  MaxIds <- MCMaxIds
SYMMETRY MCSymmetry
SPECIFICATION Spec
INVARIANTS
  HandlesBacked
CHECK_DEADLOCK FALSE
