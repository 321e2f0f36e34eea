\* Eight inputs, each with four files to source; buffers of five units, lines
\* of two, three files open, three errors.
SPECIFICATION FairSpec
CONSTANTS
  Stdin = Stdin
  Inner = Inner
  Missing = Missing
  Newline = Newline
  Bad = Bad
  Infile = Stdin
  Texts <- MCTexts
  BufSize = 5
  LineMax = 2
  MaxOpen = 3
  ErrLimit = 3
INVARIANTS
  HonestExit
  QuitsOnce
PROPERTIES
  RefinesScript
  EveryLineAnswered
