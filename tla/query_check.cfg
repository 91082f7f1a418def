SPECIFICATION Spec
CONSTANTS
  Node = {1, 2, 3, 4, 5, 6}
  K = 2
  A = 4
  FindValue = FALSE
INVARIANT NoAbort
