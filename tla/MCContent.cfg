\* Up to three chunks in an array of one element at first.
SPECIFICATION FairSpec
CONSTANTS
  Keys <- MCKeys
  Files <- MCFiles
  Cut <- MCCut
  InitialCapacity = 1
  MaxChunks = 3
INVARIANTS
  RoomForNext
  InRange
  FindsTheFile
PROPERTIES
  CallsEnd
