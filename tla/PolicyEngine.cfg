SPECIFICATION EngineSpec
CONSTANTS
  Statements <- MCStatements
  Trees <- MCTrees
  Size <- MCSize
  Plans <- MCPlans
  Tables <- MCTables
  Roles = {"analyst", "auditor"}
  Table = "employees"
  NoAlias = NoAlias
  Epsilons = {1}
  SignificantDigits <- MCSignificantDigits
  Dimensions = {"region", "active", "job title"}
  FilterColumns = {"region", "active", "tenure", "subject_token", "job title"}
  ForbiddenColumns = {"subject_token"}
  Metrics <- MCMetrics
  LowerCase <- MCLowerCase
  TextColumns = {"region", "job title"}
  FloatLimit = 8
  Spacings = {1, 2}
  MaxInteger = 15
  ReservedAliases = {"__group_size", "avg_long", "job title", "net pay", "avg_net pay"}
  Unquotable = {"job title", "net pay", "avg_net pay"}
  MaxFilters = 2
  MinGroupSize = 2
  MaxResultRows = 2
  MaxVersion = 1
  MaxReleased = 2
  MaxSubmitted = 2
INVARIANTS
  EngineTypeOK
  RejectedOnlyByPolicy
  AnswersTheStatement
  RewordedStatementsShareRelease
CHECK_DEADLOCK FALSE
