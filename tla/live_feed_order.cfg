\* One dashboard with room for two events, two connections, two broadcasts.
CONSTANTS
  c1 = c1
  c2 = c2
  w1 = w1
  Conns <- TwoConns
  Workers <- OneWorker
  SendCap = 1
  MaxBroadcasts = 2
  FeedCap = 2

SPECIFICATION FeedSpec

SYMMETRY ConnSymmetry

CHECK_DEADLOCK FALSE

INVARIANTS
  NewestFirst
  OneForEachVisit
