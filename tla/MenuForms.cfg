SPECIFICATION MenuSpec
CONSTANTS
  Numbers = {0, 1, nan}
  Blank = blank
  Junk = junk
  NoOrder = none
CHECK_DEADLOCK FALSE
INVARIANTS
  MenuInv
  SentWellFormed
  SentAsShown
