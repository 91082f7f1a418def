SPECIFICATION ContainersSpec
CONSTANTS
  Threads = 2
  Skips = 1
  MaxEpoch = 4
  Objects = 2
  Bytes = 4
  Capacity = 2
  Worker = {t1, t2}
  Pusher = {t1}
  N = 4
  Values = 5
  Plans <- SmallPlans
  Caller = {t1, t2, t3}
  Key <- Keys2
  Chunk = 1
  Window = 4
  Arrays = 3
  Length <- OneTwoFour
  User = {t1, t2, t3}
  Owner = {t1}
  Raws = 3
  Allocs = 5
INVARIANT ValuesAreKept
INVARIANT EachOnceInOrder
INVARIANT EachInOnePlace
INVARIANT NothingHeldIsDeleted
PROPERTY ReadsWhatWasWritten
