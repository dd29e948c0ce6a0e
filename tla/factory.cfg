\* Two creators, one creation each, a change of stake between any two steps and
\* one gift.
SPECIFICATION Spec
CONSTANTS
  u1 = u1
  u2 = u2
  own = own
  Creator = {u1, u2}
  Owner = own
  CreationStakes = {1, 2}
  Payments = {2}
  ReputationCode = TRUE
  Wealth = 3
  MaxMonocles = 2
  MaxGifts = 1
SYMMETRY Symmetry
CHECK_DEADLOCK FALSE
INVARIANTS
  FeesBacked
  CreatorPaysExactly
  DeployedAsRegistered
  OutcomeReported
