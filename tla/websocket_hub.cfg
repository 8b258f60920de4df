\* A slow client and a lost one: the fan-out fills a channel of one message,
\* drops the client, and finds the other one.
CONSTANTS
  c1 = c1
  c2 = c2
  w1 = w1
  w2 = w2
  Conns <- TwoConns
  Workers <- TwoWorkers
  SendCap = 1
  MaxBroadcasts = 3

SPECIFICATION Spec

\* Every broadcast may have been taken and every connection gone.
CHECK_DEADLOCK FALSE

INVARIANTS
  TypeOK
  NoPanic
  BatchIsQueued
  NoGap
