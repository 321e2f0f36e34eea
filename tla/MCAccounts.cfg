CONSTANTS
  SizeMod = 256
  Levels <- Verbosities
  Limits = {0, 70}
  CmdSize = 8
  ParamSize = 9
  RioSize = 20
  PtrSize = 3
  Commands = 2
  Parameters = 1
  Lines <- SomeLines
  ErrorLimit = 2
  BlockSizes = {5, 30}
  MaxLines = 2
  MaxFiles = 2
  MaxCalls = 2
SPECIFICATION Spec
INVARIANTS Balanced NothingLeft
PROPERTY LimitKept
