SPECIFICATION LogSpec
CONSTANTS
  Pulls = {l1, l2}
  MaxSession = 2
PROPERTIES
  LateSharesDiscarded
CHECK_DEADLOCK FALSE
