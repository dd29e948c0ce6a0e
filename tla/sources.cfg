\* Rounds decided or not over sources that may all fail, two of them bonded:
\* misses, forfeits, the carry and the pot it joins, and the close.
SPECIFICATION Spec
CONSTANTS
  a1 = a1
  c1 = c1
  s1 = s1
  s2 = s2
  s3 = s3
  s4 = s4
  p1 = p1
  None = None
  Account = {a1}
  Creator = a1
  Claimants = {}
  Content = {c1}
  Source = {s1, s2, s3, s4}
  InitialSources = {s1, s2}
  Page = {p1}
  Unreliable = {s1, s2, s3, s4}
  Amounts = {1}
  MinInterpretationBond = 1
  MinSourceBond = 1
  MinChallengeBond = 1
  MinSources = 2
  MaxSources = 8
  MaxInterpretations = 12
  ChallengeWindow = 1
  RoundTimeout = 9
  ChallengeTimeout = 9
  CloseTimelock = 1
  RewardBps = 1000
  MaxMisses = 2
  MaxRound = 4
  MaxTime = 2
  MaxPool = 1
SYMMETRY SourceSymmetry
INVARIANTS
  SourceBondsCovered
  ForfeitsReachWinners
  ClosedIsQuiescent
PROPERTIES
  ForfeitJustified
CHECK_DEADLOCK FALSE
