SPECIFICATION Spec
CONSTANTS
  Bases <- SmallBases
  Caps <- SmallCaps
  Multipliers <- DyadicMultipliers
  MaxRetries = 7
  FloatMax = 512
  Horizon = 40
CHECK_DEADLOCK FALSE
INVARIANT OverflowIsForeseeable
PROPERTY DelaysFollowThePolicy
