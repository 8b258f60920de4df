\* As ingestor.cfg, with one event of a collector.
CONSTANTS
  p = p
  g = g
  f = f
  n1 = n1
  n2 = n2
  w1 = w1
  w2 = w2
  NoEvent = NoEvent
  NoKey = NoKey
  Events <- FewEvents
  KafkaLog <- MCLog
  Internal <- OneInternal
  Kind <- FewKind
  Key <- MCKey
  Suspicious <- MCSuspicious
  Workers <- MCWorkers
  QueueCap = 1
  ChanCap = 1
  MaxCrashes = 1

SPECIFICATION Spec

\* The topic ends and the collectors fall silent.
CHECK_DEADLOCK FALSE

PROPERTY PipelineRunsEmpty
