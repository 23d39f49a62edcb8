SPECIFICATION Spec
CONSTANTS
  Processes = {p1}
  Hashes = {h1, h2, h3}
  Cuts = {"newline", "part", "split"}
  MaxAppends = 5
  MaxOpens = 4
  MaxCuts = 3
CHECK_DEADLOCK FALSE
INVARIANTS
  TypeOK
  NoneDoubled
  DamageBounded
PROPERTIES
  RefinesVerdictLog
