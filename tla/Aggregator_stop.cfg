\* Two channels race for two places; the pipeline is stopped at any point.
SPECIFICATION FairSpec
CONSTANTS
  Channels = {c1, c2}
  QueueCapacity = 2
  BatchSize = 2
  MaxRecords = 3
INVARIANTS
  AggregatorTypeOK
  CapacityKept
  ChannelOrderKept
  StopDrains
PROPERTIES
  PartialOnlyOnStop
  BatchIsPublished
  StopReturns
CHECK_DEADLOCK FALSE
