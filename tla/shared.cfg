SPECIFICATION FairSpec
CONSTANTS
  User = {t1, t2, t3}
  Locked = TRUE
CHECK_DEADLOCK FALSE
INVARIANTS
  OwnReply
PROPERTIES
  SharedCallEnds
