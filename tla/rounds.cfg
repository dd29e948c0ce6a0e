\* Two rounds with stakes, unit amounts, every interleaving of calls and time, and
\* every outcome recorded at any moment, under two spellings of the address.
\* No close (its timelock lies beyond the horizon) and no claims: see the others.
SPECIFICATION RepSpec
CONSTANTS
  a1 = a1
  a2 = a2
  c1 = c1
  c2 = c2
  s1 = s1
  s2 = s2
  p1 = p1
  None = None
  Account = {a1, a2}
  Creator = a1
  Claimants = {}
  Content = {c1, c2}
  Source = {s1, s2}
  InitialSources = {s1, s2}
  Page = {p1}
  Unreliable = {s2}
  Amounts = {1}
  MinInterpretationBond = 1
  MinSourceBond = 1
  MinChallengeBond = 1
  MinSources = 2
  MaxSources = 8
  MaxInterpretations = 12
  ChallengeWindow = 1
  RoundTimeout = 1
  ChallengeTimeout = 1
  CloseTimelock = 9
  RewardBps = 1000
  MaxMisses = 3
  MaxRound = 3
  MaxTime = 2
  MaxPool = 2
  mixed_case = mixed_case
  lower_case = lower_case
  unknown = unknown
  Spelling = {mixed_case, lower_case, unknown}
  Normalized <- MCNormalized
  Engine = lower_case
SYMMETRY Symmetry
INVARIANTS
  RecordedOutcomeStands
  LedgersAgree
  LiveOutputIsFinal
  WinnerJustified
  UnchangedIsStale
  ReputationMatchesOutcomes
PROPERTIES
  DecidedRoundsFrozen
CHECK_DEADLOCK FALSE
