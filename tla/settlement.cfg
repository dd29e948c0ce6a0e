\* One staked round, three accounts, amounts that do not divide evenly,
\* every order of claims, with and without a challenge.
SPECIFICATION Spec
CONSTANTS
  a1 = a1
  a2 = a2
  a3 = a3
  c1 = c1
  c2 = c2
  s1 = s1
  s2 = s2
  s3 = s3
  p1 = p1
  None = None
  Account = {a1, a2, a3}
  Creator = a1
  Claimants = {a1, a2, a3}
  Content = {c1, c2}
  Source = {s1, s2, s3}
  InitialSources = {s1, s2}
  Page = {p1}
  Unreliable = {s3}
  Amounts = {4, 9}
  MinInterpretationBond = 4
  MinSourceBond = 9
  MinChallengeBond = 4
  MinSources = 2
  MaxSources = 8
  MaxInterpretations = 12
  ChallengeWindow = 1
  RoundTimeout = 1
  ChallengeTimeout = 1
  CloseTimelock = 9
  RewardBps = 1000
  MaxMisses = 1
  MaxRound = 2
  MaxTime = 2
  MaxPool = 13
SYMMETRY FullSymmetry
INVARIANTS
  TypeOK
  BooksAgree
  RoundLedger
  EveryClaimPayable
  NothingStrands
PROPERTIES
  WinnersMadeWhole
CHECK_DEADLOCK FALSE
