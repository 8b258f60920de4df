\* One restart over a queue that is not empty.
CONSTANTS
  p1 = p1
  f1 = f1
  w1 = w1
  NoEvent = NoEvent
  Events <- QueuedKinds
  ProcEvents <- OneProcess
  FlowEvents <- OneFlow
  WatchEvents <- NoWatch
  BufferCap = 1
  MaxReports = 0
  MaxRestarts = 1
  MaxDiskFaults = 0
  MaxCollisions = 0

SPECIFICATION Spec

PROPERTY QueueDrains
