\* Restarts, a failing disk, a clock tick shared by two files, failed reports.
CONSTANTS
  p1 = p1
  f1 = f1
  w1 = w1
  NoEvent = NoEvent
  Events <- OneOfEach
  ProcEvents <- OneProcess
  FlowEvents <- OneFlow
  WatchEvents <- OneWatch
  BufferCap = 1
  MaxReports = 1
  MaxRestarts = 1
  MaxDiskFaults = 1
  MaxCollisions = 1

SPECIFICATION Spec

INVARIANTS
  TypeOK
  SingleCustody
  NothingAcceptedIsLost
  NoUnreportedDuplicate

PROPERTIES
  RelayRefined
  AcceptedIsDelivered
