SPECIFICATION FairBenchSpec
CONSTANTS
  Key = {1}
  RoundKey = {1, 2}
  Iv <- MCIv
  Byte <- MCByte
  KeyExpansion <- MCKeyExpansion
  CryptBuf <- MCCryptBuf
  CryptIv <- MCCryptIv
  Payload <- MCPayload
  MaxLen = 2
  BLOCKLEN = 1
  Junk = 0
  SegMax = 2
  Capacity = 3
  WriteMax = 9
  IntMax = 9
  BENCH_ITERATIONS = 2
  BenchKey = 1
  CbcIv = 0
  CtrIv = 1
  EcbIn <- Text
  EcbOut <- EcbText
  CbcIn <- LongText
  CbcOut <- CbcText
  CtrIn <- LongText
  CtrOut <- CtrText
INVARIANTS
  ErrorMeansDeath
PROPERTIES
  DeathNoticed
  BenchmarkEnds
