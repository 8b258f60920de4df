CONSTANTS
  Handlers = {g1, g2}
  MaxAssets = 3
  MaxWrites = 2
  Bodies <- MCBodies
  Users = {"ann", "bob"}
  Types = {"file", "flow"}
  Log <- MCLog
  CacheSize = 1
  MaxStarts = 1

SPECIFICATION BackendSpec

\* The worker may end, and nobody start it again.
CHECK_DEADLOCK FALSE

INVARIANTS
  TypeOK
  DuplicatesAreBounded
  EditsAreKept
  ReportingHostIsOnline
  NotesAreKept
  BaselineIsComplete
  AlertedOnce

SYMMETRY Requests
