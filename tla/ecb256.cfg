SPECIFICATION EcbSpec
CONSTANTS
  sbox <- MCsbox
  rsbox <- MCrsbox
  Rcon <- MCRcon
  Nk = 8
  Nr = 14
  keyExpSize = 240
  RoundKeys <- MCRoundKeys
  Keys <- MCKeys
  Plain <- MCPlain
  Vectors <- Vectors256
INVARIANTS
  EncryptsAsStandard
  KnownAnswer
