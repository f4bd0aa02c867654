CONSTANTS
  Requests = {r1, r2}
  Submissions <- MCPublishing
  MaxBatchEvents = 2
  CoreThreads = 1
  Instants = {7}
  Partitions = {1, 2}
  PartitionOf <- MCPartitionOf
  QueueCapacity = 2
  Texts <- MCTexts
  EmptyText = ""
  Version10 = "1.0"
  AbsoluteUris = {"x"}
  MediaTypes = {"x"}
  Rfc3339 <- MCRfc3339
  MaxInstant = 9
  TicksPerSecond = 2
  Null = Null
  NonString = NonString
  NotObject = NotObject
SPECIFICATION FairSpec
PROPERTIES
  EveryRequestEnds
  EveryDeliveryIsObserved
