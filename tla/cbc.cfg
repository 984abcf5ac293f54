SPECIFICATION Spec
CONSTANTS
  Block <- MCBlock
  XorWithIv <- MCXor
  Cipher <- MCCipher
  InvCipher <- MCInvCipher
  N = 3
  Message <- MCMessage
INVARIANTS
  TypeOK
  OneChain
  Recovered
