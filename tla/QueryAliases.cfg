SPECIFICATION Spec
CONSTANTS
  Plans <- MCPlans
  Tables <- MCTables
  Epsilons = {1, 2, 3}
  SignificantDigits <- MCSignificantDigits
  Table = "employees"
  Dimensions = {"region", "active"}
  FilterColumns = {"region", "active"}
  ForbiddenColumns = {"subject_token"}
  Metrics <- MCMetrics
  LowerCase <- MCLowerCase
  ReservedAliases = {"__group_size"}
  Unquotable = {}
  MaxInteger = 100
  MaxFilters = 4
  MinGroupSize = 2
  MaxResultRows = 2
  MaxVersion = 2
  MaxReleased = 2
INVARIANT
  AliasesPresentationOnly
