\* Three workers of two requests each, one spurious wakeup, fair scheduling.
SPECIFICATION FairPoolSpec
CONSTANTS
  Threads = {t1, t2, t3}
  NumRequests = 2
  MaxSpurious = 1
INVARIANTS
  NoLostWakeup
  FifoQueue
  JoinNeverStuck
PROPERTIES
  DispatchInOrder
  ClientEnds
