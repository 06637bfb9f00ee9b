SPECIFICATION Spec
CONSTANTS
  r1 = r1
  r2 = r2
  r3 = r3
  p1 = p1
  p2 = p2
  v1 = v1
  v2 = v2
  shape = shape
  None = None
  Requests = {r1, r2, r3}
  Principals = {p1}
  Variants = {v1, v2}
  Structure <- MCStructure
  MaximumVariants = 1
  Window = 1
  MaxStale = 1
  MaxClock = 2
  Epsilons = {2}
  DefaultEpsilon = 2
  MaxEpsilon = 3
  Total <- MCTotal
  Limit = 2
  Tolerance = 1
PROPERTIES
  GuardSpec
  EveryQueryEnds
