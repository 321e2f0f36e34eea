\* Memory for a queue of two elements, with reuse; the alarm at any moment.
SPECIFICATION Spec
CONSTANTS
  Blocks = {b1, b2, b3, b4, b5}
  Null = Null
  Junk = Junk
  MaxReps = 2
  MaxRaised = 1
  fail_limit = 2
INVARIANTS
  HeadSound
  FreesAllocated
  Consistent
  FreeIsHonest
  FailuresSurface
SYMMETRY Symmetry
