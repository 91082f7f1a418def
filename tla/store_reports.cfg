SPECIFICATION StoreFairSpec
CONSTANTS
  Node = {1, 2, 3, 4, 5}
  K = 2
  A = 2
  FindValue = FALSE
  Self = 3
PROPERTY Reports
CHECK_DEADLOCK FALSE
