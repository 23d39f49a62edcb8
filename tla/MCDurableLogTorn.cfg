SPECIFICATION Spec
CONSTANTS
  Processes = {p1}
  Hashes = {h1, h2}
  Cuts = {"newline"}
  MaxAppends = 3
  MaxOpens = 2
  MaxCuts = 1
SYMMETRY HashSymmetry
CHECK_DEADLOCK FALSE
INVARIANTS
  AppendedSurvives
