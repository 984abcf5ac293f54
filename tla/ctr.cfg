SPECIFICATION Spec
CONSTANTS
  BLOCKLEN = 2
  Base = 4
  XorByte <- MCXorByte
  Cipher <- MCCipher
  N = 5
  Message <- MCMessage
INVARIANTS
  TypeOK
  SameCutsRecover
  KeystreamUsedOnce
  IvCountsBlocks
  IsCounterMode
