SPECIFICATION RigSpec
CONSTANTS
  NonceBits = 6
  DigitBits = 2
  DefaultWidth = 3
  LowWidth = 2
  HighWidth = 4
  AboveHigh = 3
  BlockSize = 2
  N = 3
  Seeds = {0, 37}
  Extras = {0, 1, 2}
  MaxBlocks = 2
INVARIANTS ChangesAreAllowed NoNonceTwice PrefixIsKept
CHECK_DEADLOCK FALSE
