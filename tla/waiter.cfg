SPECIFICATION WaitersSpec
CONSTANTS
  w1 = w1
  w2 = w2
  w3 = w3
  p1 = p1
  Worker <- Workers
  Producer <- Producers
  End = 2
  RoundsTillSleepy = 1
  RoundsTillAsleep = 2
INVARIANT ChecksHold
INVARIANT AtomicWorkIsNoticed
PROPERTY NoLostWakeUp
CHECK_DEADLOCK FALSE
