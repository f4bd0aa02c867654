CONSTANTS
  Requests = {r1, r2}
  Submissions <- MCSubmissions
  MaxBatchEvents = 2
  CoreThreads = 2
  Instants <- MCInstants
  Partitions = {1, 2}
  PartitionOf <- MCPartitionOf
  QueueCapacity = 2
  Texts <- MCTexts
  EmptyText = ""
  Version10 = "1.0"
  AbsoluteUris = {"x"}
  MediaTypes = {"x"}
  Rfc3339 <- MCRfc3339
  MaxInstant = 9
  TicksPerSecond = 2
  Null = Null
  NonString = NonString
  NotObject = NotObject
SPECIFICATION Spec
SYMMETRY MCSymmetry
INVARIANTS
  TypeOK
  AcceptedIsComplete
  RefusedPublishesNothing
  FailurePublishesStrictPrefix
  ProgressIsPublished
  TopicKeepsBatchOrder
  OneReceiptStamp
  ValidationNamesTheFaultyEvents
  ServerFaultsReportedOnce
  NoSilentLoss
PROPERTIES
  ResponseIsFinal
  ImplementsContract
