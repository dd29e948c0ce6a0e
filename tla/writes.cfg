\* The operator and one other account, three transactions at a time, two faults.
SPECIFICATION FairSpec
CONSTANTS
  op = op
  u1 = u1
  Operator = op
  Account = {op, u1}
  Starting <- MCStarting
  FailedTerminal = {"UNDETERMINED"}
  Places <- MCPlaces
  MaxFaults = 2
  MaxAttempts = 2
  Modes <- MCModes
INVARIANTS
  ReturnedStands
  ThrownLeftNothing
  RecordTrue
PROPERTIES
  EveryRunEnds
  PaidOrLeftChallenged
CHECK_DEADLOCK FALSE
