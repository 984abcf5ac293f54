SPECIFICATION Spec
CONSTANTS
  Key = {1, 2}
  RoundKey = {1, 2, 3}
  Iv <- MCIv
  Byte <- MCByte
  KeyExpansion <- MCKeyExpansion
  CryptBuf <- MCCryptBuf
  CryptIv <- MCCryptIv
  Payload <- LongPayload
  MaxLen = 3
  BLOCKLEN = 1
  Junk = 0
  SegMax = 2
  Capacity = 3
  WriteMax = 9
  IntMax = 9
INVARIANTS
  PayloadIntact
