SPECIFICATION TableSpec
CONSTANTS
  n1 = n1
  n2 = n2
  n3 = n3
  Node <- Two
  K = 1
  MaxMissed = 2
  Interval = 2
  Bits = 3
  Self <- Key010
  Slots = 2
  MaxArg = 4
  Peer <- Three
  Room = 2
  MaxWriting = 2
INVARIANT ActiveAreReady
INVARIANT NoReadyNodeWaits
INVARIANT EmptyWasNeverSaved
INVARIANT NearestFound
INVARIANT DistanceCounts
PROPERTY FailsOnlyIfSilent
PROPERTY DropsOnlyIfMissed
PROPERTY ImplementsSlots
PROPERTY ActiveComeBack
PROPERTY GoneLeaves
PROPERTY RoomReturns
