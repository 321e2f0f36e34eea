\* Two workers of two requests, each request with a path of its own.
SPECIFICATION FairDownloadSpec
CONSTANTS
  Threads = {t1, t2}
  NumRequests = 2
  MaxSpurious = 0
  NumPaths = 4
INVARIANTS
  ResultsKept
  NothingLeftOver
PROPERTIES
  RefinesFairPool
