\* One client that asks twice and one that asks once, with every fault. The call whose file shrinks may hang, and the processes end, hence no deadlock check.
SPECIFICATION FetchSpec
CONSTANTS
  c1 = c1
  c2 = c2
  c3 = c3
  p1 = p1
  m1 = m1
  m2 = m2
  Calls <- MCCalls
  Paths <- OnePath
  PathOf <- SamePath
  Mains <- MCMains
  RequestsOf <- MCRequestsOf
  MaxBreaks = 1
  MaxQuits = 1
  MaxSize = 2
  MaxFds = 2
  MayFragment = TRUE
  MaxShrinks = 1
  MaxExits = 1
  MaxSignals = 1
INVARIANTS
  KeptFiles
  NotFoundMeansMissing
CHECK_DEADLOCK FALSE
