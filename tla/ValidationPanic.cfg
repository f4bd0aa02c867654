CONSTANTS
  RawEvents <- MCRawEvents
  Instants <- MCInstants
  Texts <- MCTexts
  EmptyText = ""
  Version10 = "1.0"
  AbsoluteUris = {"urn:x"}
  MediaTypes = {"text/plain"}
  Rfc3339 <- MCRfc3339
  MaxInstant = 40
  TicksPerSecond = 2
  Null = Null
  NonString = NonString
  NotObject = NotObject
SPECIFICATION Spec
\* The validator is a function: it stops after its one step.
CHECK_DEADLOCK FALSE
INVARIANTS
  AnOffsetTimeIsNormalizedOrRejected
