\* Two pods, no restart.
CONSTANTS
  p = p
  g = g
  f = f
  n1 = n1
  n2 = n2
  w1 = w1
  w2 = w2
  NoEvent = NoEvent
  NoKey = NoKey
  Events <- PodEvents
  KafkaLog <- PodLog
  Internal <- NoInternal
  Kind <- PodKind
  Key <- MCKey
  Suspicious <- NoneSuspicious
  Workers <- OneWorker
  QueueCap = 1
  ChanCap = 1
  MaxCrashes = 0

SPECIFICATION Spec

CHECK_DEADLOCK FALSE

INVARIANT EachAssetHasItsRow
