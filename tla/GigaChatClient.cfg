SPECIFICATION ClientSpec
CONSTANTS
  Lanes = {primary, freemium}
  NoLane = NoLane
  RetryAttempts = 3
  MaxDelay = 30
  RetryAfters = {0, 600}
INVARIANTS
  RevokedTokenIsSurvived
  CallWorkBounded
PROPERTIES
  CallEnds
