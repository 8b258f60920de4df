\* One restart, a queue and a channel of one event, failing services.
CONSTANTS
  p = p
  g = g
  f = f
  n1 = n1
  n2 = n2
  w1 = w1
  w2 = w2
  NoEvent = NoEvent
  NoKey = NoKey
  Events <- MCEvents
  KafkaLog <- MCLog
  Internal <- MCInternal
  Kind <- MCKind
  Key <- MCKey
  Suspicious <- MCSuspicious
  Workers <- MCWorkers
  QueueCap = 1
  ChanCap = 1
  MaxCrashes = 1

SPECIFICATION Spec

\* The topic ends and the collectors fall silent.
CHECK_DEADLOCK FALSE

INVARIANTS
  TypeOK
  EveryCopyIsAccounted
  IncidentSurvives
  NothingIsSkipped
