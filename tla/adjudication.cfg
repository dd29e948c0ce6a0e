\* Three nodes, one of them faulty, and one rotation of the leader.
SPECIFICATION Spec
CONSTANTS
  n1 = n1
  n2 = n2
  n3 = n3
  c1 = c1
  c2 = c2
  s1 = s1
  s2 = s2
  p1 = p1
  p2 = p2
  k1 = k1
  k2 = k2
  junk = junk
  None = None
  Malformed = Malformed
  Node = {n1, n2, n3}
  Faulty = {n3}
  Candidate = {c1, c2}
  Interpretation <- MCInterpretation
  Source = {s1, s2}
  Page = {p1, p2}
  Answer <- MCAnswer
  FaultyProposal <- MCFaultyProposal
  Prior <- MCPrior
  Original = c1
  Alternative = c2
  ConfidenceThreshold = 62000
  CorroborationMinSources = 2
  ConfidenceTolerance = 15000
  ScoreTolerance = 12000
  MaxRotations = 1
INVARIANTS
  OutcomeAsSeen
  WinnerCorroborated
  UnchangedSeen
  GarbageUnreachable
  RefusedForCause
CHECK_DEADLOCK FALSE
