SPECIFICATION FairSpec
CONSTANTS
  t1 = t1
  t2 = t2
  v1 = v1
  zero = zero
  Threads = {t1, t2}
  NSect = 2
  Width = 3
  MaxLen = 2
  Values = {v1}
  Zero = zero
  Readers = {t1}
  RingSize = 3
  Chars = {"x", "cr"}
  Line <- OneLine
  NSlots = 3
  Buses <- TheBuses
  MaxDuds = 1
  MaxNap = 1
INVARIANT BusMatches
INVARIANT DiskAnswers
INVARIANT InputIsQueue
INVARIANT OutputIsOrderly
PROPERTY DiskIsReleased
CHECK_DEADLOCK FALSE
