\* docs/AUDIT.md B10 against challenge(), which looks at the round only.
SPECIFICATION Spec
CONSTANTS
  a1 = a1
  c1 = c1
  c2 = c2
  s1 = s1
  s2 = s2
  p1 = p1
  None = None
  Account = {a1}
  Creator = a1
  Claimants = {}
  Content = {c1, c2}
  Source = {s1, s2}
  InitialSources = {s1, s2}
  Page = {p1}
  Unreliable = {}
  Amounts = {1}
  MinInterpretationBond = 1
  MinSourceBond = 1
  MinChallengeBond = 1
  MinSources = 2
  MaxSources = 8
  MaxInterpretations = 12
  ChallengeWindow = 1
  RoundTimeout = 1
  ChallengeTimeout = 1
  CloseTimelock = 1
  RewardBps = 1000
  MaxMisses = 3
  MaxRound = 2
  MaxTime = 4
  MaxPool = 2
PROPERTIES
  NoCapitalWhileClosing
CHECK_DEADLOCK FALSE
