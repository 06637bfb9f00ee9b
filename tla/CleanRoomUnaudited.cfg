SPECIFICATION Spec
CONSTANTS
  r1 = r1
  r2 = r2
  r3 = r3
  p1 = p1
  p2 = p2
  v1 = v1
  v2 = v2
  shape = shape
  None = None
  Requests = {r1, r2}
  Principals = {p1}
  Variants = {v1, v2}
  Structure <- MCStructure
  MaximumVariants = 2
  Window = 2
  MaxStale = 1
  MaxClock = 0
  Epsilons = {2, 3, 5}
  DefaultEpsilon = 2
  MaxEpsilon = 3
  Total <- MCTotal
  Limit = 4
  Tolerance = 1
SYMMETRY Symmetry
INVARIANT
  FailureAudited
