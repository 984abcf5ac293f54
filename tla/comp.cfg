SPECIFICATION FairSpec
CONSTANTS
  Key = {1, 2}
  RoundKey = {1, 2, 3}
  Iv <- MCIv
  Byte <- MCByte
  KeyExpansion <- MCKeyExpansion
  CryptBuf <- MCCryptBuf
  CryptIv <- MCCryptIv
  Payload <- ShortPayload
  MaxLen = 2
  BLOCKLEN = 1
  Junk = 0
  SegMax = 2
  Capacity = 3
  WriteMax = 2
  IntMax = 2
INVARIANTS
  TypeOK
  RequestFraming
  ReplyCorrect
  QuietBetweenCalls
PROPERTIES
  ImplementsApi
  ImplementsSession
  CallEnds
  ExitStopsServer
