SPECIFICATION LookupSpec
CONSTANTS
  Node <- Nodes6
  K = 3
  A = 2
  FindValue = TRUE
  Answers <- Lists3
INVARIANT ListIsClosest
INVARIANT AskedOnce
INVARIANT ActiveIsInFlight
INVARIANT EndsExhausted
INVARIANT KeepsClosest
INVARIANT PendingAreNew
PROPERTY ClosestFirst
PROPERTY Terminates
PROPERTY ImplementsLookup
