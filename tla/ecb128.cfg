SPECIFICATION EcbSpec
CONSTANTS
  sbox <- MCsbox
  rsbox <- MCrsbox
  Rcon <- MCRcon
  Nk = 4
  Nr = 10
  keyExpSize = 176
  RoundKeys <- MCRoundKeys
  Keys <- MCKeys
  Plain <- MCPlain
  Vectors <- Vectors128
INVARIANTS
  EcbTypeOK
  RconUse
  KnownAnswer
  RoundTrip
