\* A buffer of five bytes; messages of two and three bytes, and one that cannot fit.
SPECIFICATION FairSpec
CONSTANTS
  MaxBytes = 5
  HeaderLen = 2
  MsgLens = {2, 3, 6}
  MaxMsgs = 4
INVARIANTS
  TypeOK
  Framed
PROPERTIES
  InOrder
  NeverWedged
