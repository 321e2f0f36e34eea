CONSTANTS
  K = 3
  E = 4
  TestRange = 2
  Root <- Roots
  RandomWords <- Randoms
  Texts <- SomeTexts
  Ratings <- SomeRatings
  Limits <- SomeLimits
  MaxOptions = 2
  MaxAlarms = 1
  Sample <- Corners
SPECIFICATION Spec
INVARIANTS ScoreIsRight WrongOnlyWhereKnown FailuresExplained
