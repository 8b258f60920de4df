\* One connection, which may stall, be lost or be dropped, and two workers.
CONSTANTS
  c1 = c1
  c2 = c2
  w1 = w1
  w2 = w2
  Conns <- OneConn
  Workers <- TwoWorkers
  SendCap = 2
  MaxBroadcasts = 5

SPECIFICATION Spec

\* Every broadcast may have been taken and every connection gone.
CHECK_DEADLOCK FALSE

PROPERTIES
  BroadcastIsTaken
  GoneIsCleanedUp
