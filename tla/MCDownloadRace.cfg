\* Two workers of one request each for the same path.
SPECIFICATION DownloadSpec
CONSTANTS
  Threads = {t1, t2}
  NumRequests = 1
  MaxSpurious = 0
  NumPaths = 1
INVARIANTS
  ResultsKept
