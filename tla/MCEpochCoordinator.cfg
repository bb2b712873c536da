CONSTANTS
  Node = {1, 2}
  Score = {1, 2}
  Reach <- MCTieThenLead
  MaxEpoch = 2
  MaxRestarts = 1
SPECIFICATION Spec
INVARIANTS
  CommitsSound
  UnanimousAgreement
PROPERTIES
  EpochsAdvance
CHECK_DEADLOCK FALSE
