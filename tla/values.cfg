SPECIFICATION PublishedSpec
CONSTANTS
  Key <- Keys3
  Rule <- EachRule
  Ttl <- Ttls
  MaxTime = 1
  OwnTtl = {2, 4}
  LastMinute = 1
  OverlayNode = {1, 2, 3}
  Version = {1, 2}
  Fit = 2
INVARIANT NeverOlder
INVARIANT TurnsAreFair
INVARIANT LatestNodesKept
PROPERTY SweepIsFair
PROPERTY ExpiredLeaves
PROPERTY NearestRepublished
PROPERTY FirstRepublished
