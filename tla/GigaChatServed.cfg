SPECIFICATION ClientSpec
CONSTANTS
  Lanes = {primary, freemium}
  NoLane = NoLane
  RetryAttempts = 2
  MaxDelay = 30
  RetryAfters = {0, 600}
INVARIANTS
  ServedOnce
