SPECIFICATION WindowSpec
CONSTANTS
  p1 = p1
  v1 = v1
  v2 = v2
  v3 = v3
  v4 = v4
  v5 = v5
  shape = shape
  other = other
  Principals = {p1}
  Variants = {v1, v2, v3, v4}
  Structure <- MCStructure
  MaximumVariants = 1
  Window = 4
  MaxStale = 1
  MaxClock = 7
SYMMETRY Symmetry
CHECK_DEADLOCK FALSE
INVARIANTS
  HistoryBounded
  TwiceTheLimitPerWindow
  ForgottenOnlyAfterWindow
