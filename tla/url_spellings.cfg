\* The inputs of scoring.cfg.
SPECIFICATION InputSpec
CONSTANTS
  Clean <- MCClean
  Schema <- MCSchema
  Object <- MCObject
  Url <- MCUrl
  MaxSchemaKeys = 2
  MaxJsonItems = 2
  ClaimLimit = 2
INVARIANT
  UrlCanonical
CHECK_DEADLOCK FALSE
