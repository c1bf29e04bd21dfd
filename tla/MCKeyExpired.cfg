SPECIFICATION KeySpec
CONSTANTS
  soft_limit = 3
  MODULUS = 24
  Limits = {3, 4, 7, 9}
  MaxUses = 20
PROPERTY ExpiredKeyIsNotUsed
CHECK_DEADLOCK FALSE
