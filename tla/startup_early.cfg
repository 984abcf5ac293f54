SPECIFICATION Spec

CONSTANTS
  Runs = 2
  Tries = 2
  Backlog = 1
  FileBefore = FALSE

CHECK_DEADLOCK FALSE

INVARIANT SocketAwaited
