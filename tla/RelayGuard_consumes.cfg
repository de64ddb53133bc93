SPECIFICATION GuardSpec
CONSTANTS
  Takers = {"edge"}
  Releasers = {"network"}
  Captures = {c1, c2}
  Faulty = {c2}
  HideCap = 2
INVARIANTS
  ActiveConsumes
CHECK_DEADLOCK FALSE
