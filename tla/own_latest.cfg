SPECIFICATION LatestSpec
CONSTANTS
  Key <- Keys2
  OwnTtl <- Ttls
  LastMinute = 2
PROPERTY LatestRepublished
