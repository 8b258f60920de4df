\* One connection, two broadcasts.
CONSTANTS
  c1 = c1
  c2 = c2
  w1 = w1
  Conns <- OneConn
  Workers <- OneWorker
  SendCap = 2
  MaxBroadcasts = 2
  FeedCap = 2

SPECIFICATION FeedSpec

CHECK_DEADLOCK FALSE

INVARIANT EverySentEventIsListed
