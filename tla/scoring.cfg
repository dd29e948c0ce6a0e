\* All answers about three claims and two sources, all pairs of roll-ups of up to
\* twelve claims; all small inputs.
SPECIFICATION CheckSpec
CONSTANTS
  c1 = c1
  c2 = c2
  s1 = s1
  s2 = s2
  k1 = k1
  k2 = k2
  junk = junk
  None = None
  Candidate = {c1, c2}
  Interpretation <- MCInterpretation
  Source = {s1, s2}
  Winner = {c1, c2, junk}
  Ranking <- MCRanking
  MaxClaims = 12
  ConfidenceThreshold = 62000
  CorroborationMinSources = 2
  Clean <- MCClean
  Schema <- MCSchema
  Object <- MCObject
  Url <- MCUrl
  MaxSchemaKeys = 2
  MaxJsonItems = 2
  ClaimLimit = 2
INVARIANTS
  DecidedOnMerit
  RollupOrderExact
  ClaimsAsSubmitted
  UrlNamed
CHECK_DEADLOCK FALSE
