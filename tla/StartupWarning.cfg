CONSTANTS
  Strings <- MCStrings
  Blank = {" "}
  PortOf <- MCPortOf
  CapOf <- MCCapOf
  Truthy = {"true"}
  Falsey = {"false"}
  SaslProtocols = {"sasl_ssl"}
  Shows <- MCShows
  Unset = Unset
  NotUnicode = NotUnicode
  Environments <- MCEnvironments
SPECIFICATION Spec
\* Startup is over when the server is ready or has failed.
CHECK_DEADLOCK FALSE
INVARIANTS
  EveryWarningIsSeen
