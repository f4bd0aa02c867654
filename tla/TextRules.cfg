CONSTANTS
  Chars <- MCChars
  Alpha = {"a"}
  SchemeTail = {"a", "1"}
  Graphic = {"a", "1", "!", ":", "#", "/", ";"}
  Tspecials = {":", "/", ";"}
  Space = {" ", "tab", "nbsp"}
  Control = {"tab", "nul"}
  Printable = {"a", "1", "!", ":", "#", "/", ";", " ", "tab"}
  Colon = ":"
  Hash = "#"
  Slash = "/"
  Semicolon = ";"
  SingleNames <- MCSingleNames
  BatchNames <- MCBatchNames
  MaxLength = 5
SPECIFICATION Spec
INVARIANTS
  UrisAreRecognized
  MediaTypesAreRecognized
  TheGateIsExact
\* Strings at the length bound are not extended.
CHECK_DEADLOCK FALSE
