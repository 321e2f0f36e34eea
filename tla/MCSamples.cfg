\* Three clients, a file of five bytes in buffers of two, messages of no byte,
\* of one, and of more than a buffer, a byte of the stack after the server's
\* buffer; two calls of the system fail.
CONSTANTS
  c1 = c1
  c2 = c2
  c3 = c3
  Clients <- Three
  NoClient = NoClient
  BUFSIZE = 2
  MaxFaults = 2
  Size = 5
  Zero = Zero
  Stack = Stack
  LengthOf <- ThreeLengths
  Reach = 3
  Width = 3
SPECIFICATION Spec
INVARIANTS
  CopyIsWhole
  CopyIsPrefix
  CopyInOrder
  OwnBytesFirst
PROPERTY PeersEnd
\* The processes end, or wait for ever.
CHECK_DEADLOCK FALSE
