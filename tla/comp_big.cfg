SPECIFICATION FairSpec
CONSTANTS
  Key = {1}
  RoundKey = {2}
  Iv <- MCOneIv
  Byte <- MCByte
  KeyExpansion <- MCKeyExpansion
  CryptBuf <- MCCryptBuf
  CryptIv <- MCNoIv
  Payload <- HugePayload
  MaxLen = 5
  BLOCKLEN = 1
  Junk = 0
  SegMax = 1
  Capacity = 2
  WriteMax = 3
  IntMax = 4
INVARIANTS
  QuietCallNotStuck
PROPERTIES
  QuietCallShortens
  QuietCallEnds
  OrphanStopsOrSpins
