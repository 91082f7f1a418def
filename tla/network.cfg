SPECIFICATION StoresSpec
CONSTANTS
  Node <- Members
  Weight <- Weights
  Bits = 4
  Margin = 0
  K = 2
  A = 2
  FindValue = FALSE
  Self = 6
INVARIANT ReportsReplicated
INVARIANT KeepsIfClose
INVARIANT FindsNearest
INVARIANT StoredIsFound
PROPERTY ReportsIfAnyNode
CHECK_DEADLOCK FALSE
