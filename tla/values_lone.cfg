SPECIFICATION FairSpec
CONSTANTS
  Key <- Keys2
  Rule <- AllSigned
  Ttl <- Ttls
  MaxTime = 1
PROPERTY SignedRepublished
