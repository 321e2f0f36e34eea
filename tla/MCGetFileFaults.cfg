\* Two calls for one path and every fault: a connection breaks, a client quits, a request is fragmented, a file shrinks, descriptors run out. The call whose file shrinks may hang, hence no deadlock check.
SPECIFICATION FairSpec
CONSTANTS
  c1 = c1
  c2 = c2
  p1 = p1
  Calls <- TwoCalls
  Paths <- OnePath
  PathOf <- SamePath
  MaxBreaks = 1
  MaxQuits = 1
  MaxSize = 2
  MaxFds = 2
  MayFragment = TRUE
  MaxShrinks = 1
INVARIANTS
  ResponseShape
  NothingLost
PROPERTIES
  CallsEndButForAborts
CHECK_DEADLOCK FALSE
