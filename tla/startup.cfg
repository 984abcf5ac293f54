SPECIFICATION FairSpec

CONSTANTS
  Runs = 3
  Tries = 2
  Backlog = 0
  FileBefore = TRUE

CHECK_DEADLOCK FALSE

INVARIANTS
  TypeOK
  OwnFirst

PROPERTIES
  
  CallAnswered
  ExitStopsOwn
  OrphanFate
