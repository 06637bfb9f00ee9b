---------------------------- MODULE PolicyEngine ----------------------------
(***************************************************************************)
(* PolicyEngine.plan, which reduces a parsed SELECT to a structured plan   *)
(* or refuses it with a reason code, and the path of a statement from      *)
(* there through the executor, which validates the plan once more and      *)
(* whose connection has an authorizer of its own.                          *)
(*                                                                         *)
(* A statement is the tree that the SQL parser (a library) returns: a      *)
(* record with form "select" and what the engine looks at, or just a form  *)
(* "unparsable" or "other".  Every node has a kind.  Columns are [kind,    *)
(* name, qualified], aggregates [kind, this], conditions [kind, left,      *)
(* right], [kind, this] or [kind, this, expressions, query], literals      *)
(* [kind, type, value, text, finite]: value is the number that SQL reads,  *)
(* text what it is compared with in a column of text, where 1.0 is not the *)
(* '1' that 1 is.  Fractions are left out (SQL reads them as float() does).*)
(* The dataset is fixed here; QueryRelease has what changes it.  The file  *)
(* is there, and no execution meets the limits of steps and time.          *)
(***************************************************************************)
EXTENDS QueryRelease

CONSTANTS
  Statements,    \* the statements that are submitted
  Trees,         \* their conditions, and the parts of these
  Size,          \* the height of every tree
  Roles,
  TextColumns,   \* the columns of type TEXT; the others hold numbers
  FloatLimit,    \* 2^53: below, float() is exact
  Spacings,      \* the distances of neighbouring floats: 1, 2, 4, ...
  NoAlias,
  MaxSubmitted   \* bound: statements kept in the history

\* What s is made of comes in an order.
Ordered(s) == s \in Seq({s[i] : i \in DOMAIN s})

\* float(): the nearest number that has a float, of two the even one.
Double(n) ==
  LET spacing == CHOOSE u \in Spacings :
                   /\ n < u * FloatLimit
                   /\ \A v \in Spacings : n < v * FloatLimit => u <= v
      below == n \div spacing
      rest == 2 * (n % spacing) IN
  spacing * (IF rest > spacing \/ (rest = spacing /\ below % 2 = 1) THEN below + 1 ELSE below)

\* A number is read by float(); an integral one is turned into an int.
Scalar(e) ==
  [type |-> e.type, value |-> IF e.type = "number" THEN Double(e.value) ELSE e.value]

\* A literal is read as a scalar.
Literal(e) == e.kind = "literal" /\ e.finite => Scalar(e) \in Literals

\* The parser returns finite trees.
Parsed(w) ==
  /\ w.kind = "paren" => w.this \in Trees /\ Size[w.this] < Size[w]
  /\ w.kind \in {"and", "or"} =>
       /\ w.left \in Trees /\ Size[w.left] < Size[w]
       /\ w.right \in Trees /\ Size[w.right] < Size[w]
  /\ w.kind \in {"eq", "neq"} => Literal(w.right)
  /\ w.kind = "in" =>
       Ordered(w.expressions) /\ \A i \in DOMAIN w.expressions : Literal(w.expressions[i])

ASSUME StatementAssumption ==
  /\ Size \in [Trees -> Nat]
  /\ \A w \in Trees : Parsed(w)
  /\ \A s \in Statements :
       /\ s.form \in {"unparsable", "other", "select"}
       /\ s.form = "select" =>
            s.where \in Trees /\ Ordered(s.projections) /\ Ordered(s.group) /\ Ordered(s.tables)

\* No aggregate has "star", which is for None, as its column, and a default
\* alias is an alias.
ASSUME NameAssumption ==
  /\ "star" \notin DOMAIN Metrics
  /\ NoAlias # "row_count"
  /\ \A name \in DOMAIN Metrics : NoAlias # "avg_" \o name

VARIABLE submitted  \* history: [statement, role, plan, outcome]

engineVars == <<dataset_version, table, released, submitted>>

Ok == "OK"

\* The first check that fails raises its code.
First(codes) ==
  LET failed == {i \in DOMAIN codes : codes[i] # Ok} IN
  IF failed = {} THEN Ok ELSE codes[CHOOSE i \in failed : \A j \in failed : i <= j]

Unless(holds, code) == IF holds THEN Ok ELSE code

-----------------------------------------------------------------------------
(* Columns and literals.                                                   *)

\* The name of a column as _plain_column returns it.
Name(e) == IF e.kind = "column" THEN LowerCase[e.name] ELSE ""

ColumnObjection(e) ==
  First(<<Unless(e.kind = "column", "COLUMN_REQUIRED"),
          Unless(e.kind = "column" => ~e.qualified, "COLUMN_QUALIFIER")>>)

LiteralObjection(e) ==
  First(<<Unless(e.kind = "literal", "LITERAL_REQUIRED"),
          Unless(e.kind = "literal" => e.finite, "INVALID_LITERAL")>>)

-----------------------------------------------------------------------------
(* _reject_unsupported_shape and _validate_table.                          *)

ShapeObjection(s) ==
  First(<<Unless(s.clauses = {} /\ s.nodes = {}, "UNSUPPORTED_QUERY_SHAPE"),
          Unless(\A i \in DOMAIN s.projections : s.projections[i].expression.kind # "star",
                 "WILDCARD_FORBIDDEN"),
          Unless(~s.group_modified, "UNSUPPORTED_QUERY_SHAPE")>>)

TableObjection(s) ==
  LET Only(Test(_)) == Len(s.tables) = 1 => Test(s.tables[1]) IN
  First(<<Unless(Len(s.tables) = 1, "DATASET_NOT_ALLOWED"),
          Unless(Only(LAMBDA t : LowerCase[t.name] = LowerCase[Table]), "DATASET_NOT_ALLOWED"),
          Unless(Only(LAMBDA t : ~t.qualified), "QUALIFIED_TABLE_FORBIDDEN"),
          Unless(Only(LAMBDA t : ~t.aliased), "TABLE_ALIAS_FORBIDDEN"),
          Unless(Only(LAMBDA t : ~t.modified), "UNSUPPORTED_QUERY_SHAPE")>>)

-----------------------------------------------------------------------------
(* The select list.                                                        *)

IsMetric(p) == p.expression.kind \in {"avg", "count"}

DimensionObjection(p) ==
  First(<<Unless(p.alias = NoAlias, "DIMENSION_ALIAS_FORBIDDEN"), ColumnObjection(p.expression),
          Unless(Name(p.expression) \notin ForbiddenColumns, "DIRECT_IDENTIFIER"),
          Unless(Name(p.expression) \in Dimensions, "RAW_SENSITIVE_COLUMN")>>)

AverageObjection(e) ==
  First(<<ColumnObjection(e.this), Unless(Granted("avg", Name(e.this)), "METRIC_NOT_ALLOWED")>>)

CountObjection(e) ==
  First(<<Unless(e.this.kind = "star", "COUNT_ONLY_ROWS"),
          Unless(Granted("count", "rows"), "METRIC_NOT_ALLOWED")>>)

\* _projection
ProjectionObjection(p) ==
  First(<<Unless(p.alias \notin ReservedAliases, "INVALID_ALIAS"),
          CASE p.expression.kind = "column" -> DimensionObjection(p)
            [] p.expression.kind = "avg" -> AverageObjection(p.expression)
            [] p.expression.kind = "count" -> CountObjection(p.expression)
            [] OTHER -> "EXPRESSION_NOT_ALLOWED">>)

MetricOf(p) ==
  LET column == IF p.expression.kind = "avg" THEN Name(p.expression.this) ELSE "star"
      default == IF p.expression.kind = "avg" THEN "avg_" \o column ELSE "row_count" IN
  [function |-> p.expression.kind, column |-> column,
   alias |-> IF p.alias = NoAlias THEN default ELSE p.alias]

OutputName(p) == IF IsMetric(p) THEN MetricOf(p).alias ELSE Name(p.expression)

\* The n-th smallest number of S.
Nth(S, n) == CHOOSE i \in S : Cardinality({j \in S : j < i}) = n - 1

\* The columns and the aggregates are kept in the order of the select list.
DimensionsOf(s) ==
  LET columns == {i \in DOMAIN s.projections : ~IsMetric(s.projections[i])} IN
  [n \in 1..Cardinality(columns) |-> Name(s.projections[Nth(columns, n)].expression)]

MetricsOf(s) ==
  LET aggregates == {i \in DOMAIN s.projections : IsMetric(s.projections[i])} IN
  [n \in 1..Cardinality(aggregates) |-> MetricOf(s.projections[Nth(aggregates, n)])]

\* Every projection is checked and then compared with those before it.
SelectListObjection(s) ==
  First([i \in DOMAIN s.projections |->
    First(<<ProjectionObjection(s.projections[i]),
            Unless(\A j \in 1..(i - 1) :
                     OutputName(s.projections[j]) # OutputName(s.projections[i]),
                   "DUPLICATE_OUTPUT")>>)])

\* Mutant: an aggregate may be selected again under another alias.
OutputObjectionAliased(s) == Unless(MetricsOf(s) # <<>>, "AGGREGATE_REQUIRED")

OutputObjection(s) ==
  First(<<Unless(MetricsOf(s) # <<>>, "AGGREGATE_REQUIRED"),
          Unless(\A i, j \in DOMAIN MetricsOf(s) :
                   i # j => MetricIdentity(MetricsOf(s)[i]) # MetricIdentity(MetricsOf(s)[j]),
                 "DUPLICATE_METRIC")>>)

GroupObjection(s) ==
  First(<<First([i \in DOMAIN s.group |-> ColumnObjection(s.group[i])]),
          Unless(/\ {Name(s.group[i]) : i \in DOMAIN s.group} =
                      {DimensionsOf(s)[i] : i \in DOMAIN DimensionsOf(s)}
                 /\ Len(s.group) = Len(DimensionsOf(s)), "INVALID_GROUPING")>>)

-----------------------------------------------------------------------------
(* _filters: the WHERE tree becomes a list of conditions.                  *)

FilterColumnObjection(e) ==
  First(<<ColumnObjection(e),
          Unless(Name(e) \notin ForbiddenColumns, "DIRECT_IDENTIFIER"),
          Unless(Name(e) \in FilterColumns, "FILTER_COLUMN_NOT_ALLOWED")>>)

\* The conditions that a tree combines by AND, from left to right.
Conjuncts[w \in Trees] ==
  IF w.kind = "none" THEN <<>>
  ELSE IF w.kind = "paren" THEN Conjuncts[w.this]
  ELSE IF w.kind = "and" THEN Conjuncts[w.left] \o Conjuncts[w.right]
  ELSE <<w>>

ConditionObjection(w) ==
  CASE w.kind \in {"eq", "neq"} ->
         First(<<FilterColumnObjection(w.left), LiteralObjection(w.right)>>)
    [] w.kind = "in" ->
         First(<<FilterColumnObjection(w.this), Unless(~w.query, "SUBQUERY_FORBIDDEN"),
                 First([i \in DOMAIN w.expressions |-> LiteralObjection(w.expressions[i])]),
                 Unless(Len(w.expressions) \in 1..20, "INVALID_IN_LIST")>>)
    [] OTHER -> "FILTER_NOT_ALLOWED"

WhereObjection(w) ==
  First([i \in DOMAIN Conjuncts[w] |-> ConditionObjection(Conjuncts[w][i])])

InFilter(w) ==
  [column |-> Name(w.this), operator |-> "in",
   values |-> [i \in DOMAIN w.expressions |-> Scalar(w.expressions[i])]]

\* Mutant: IN with one literal stays an IN.
ListFilterOf(w) == InFilter(w)

\* IN with one literal is an equality.
FilterOfIn(w) ==
  IF Len(w.expressions) = 1 THEN [InFilter(w) EXCEPT !.operator = "eq"] ELSE InFilter(w)

FilterOf(w) ==
  IF w.kind = "in" THEN FilterOfIn(w)
  ELSE [column |-> Name(w.left), operator |-> w.kind, values |-> <<Scalar(w.right)>>]

\* Mutant: of a conjunction in parentheses only the first condition is kept.
FirstFilters(w) ==
  [i \in IF w.kind = "paren" THEN {1} ELSE DOMAIN Conjuncts[w] |-> FilterOf(Conjuncts[w][i])]

Filters(w) == [i \in DOMAIN Conjuncts[w] |-> FilterOf(Conjuncts[w][i])]

-----------------------------------------------------------------------------
(* plan                                                                    *)

PlanFor(version, s) ==
  [dataset_version |-> version, dimensions |-> DimensionsOf(s),
   metrics |-> MetricsOf(s), filters |-> Filters(s.where)]

PlanOf(s) == PlanFor(dataset_version, s)

SelectObjection(s) ==
  LET clauses == First(<<ShapeObjection(s), TableObjection(s), SelectListObjection(s),
                         OutputObjection(s), GroupObjection(s), WhereObjection(s.where)>>) IN
  IF clauses # Ok THEN clauses
  ELSE Unless(Len(Filters(s.where)) <= MaxFilters, "TOO_MANY_FILTERS")

\* Mutant: the role is not looked at.
ObjectionToStatement(role, s) ==
  CASE s.form = "unparsable" -> "SQL_PARSE_ERROR"
    [] s.form = "other" -> "SELECT_ONLY"
    [] OTHER -> SelectObjection(s)

\* The reason code that plan raises, if any.
Objection(role, s) ==
  CASE role # "analyst" -> "ROLE_CANNOT_QUERY_DATA"
    [] OTHER ->
         CASE s.form = "unparsable" -> "SQL_PARSE_ERROR"
           [] s.form = "other" -> "SELECT_ONLY"
           [] OTHER -> SelectObjection(s)

\* Plans are what the engine returns.
ASSUME PlanAssumption ==
  \A s \in Statements : Objection("analyst", s) = Ok => PlanFor(1, s) \in Plans

EngineInit == Init /\ submitted = {}

Record(role, s, plan, outcome) ==
  submitted' = submitted \cup
    {[statement |-> s, role |-> role, plan |-> plan, outcome |-> outcome]}

\* The history has room for one more statement.
Room == Cardinality(submitted) < MaxSubmitted

RefuseStatement(role, s) ==
  /\ Room
  /\ Objection(role, s) # Ok
  /\ Record(role, s, {}, Objection(role, s))
  /\ UNCHANGED vars

ReleaseStatement(role, s, epsilon) ==
  /\ Room
  /\ Objection(role, s) = Ok
  /\ Release(PlanOf(s), epsilon)
  /\ Record(role, s, {PlanOf(s)}, "RELEASED")

\* The executor raises DatasetExecutionError; by then the query is charged.
RejectStatement(role, s) ==
  /\ Room
  /\ Objection(role, s) = Ok
  /\ ~Accepted(PlanOf(s))
  /\ Record(role, s, {PlanOf(s)}, "DATASET_EXECUTION_FAILED")
  /\ UNCHANGED vars

\* Binding the literals raises OverflowError: charged, neither answered nor
\* rejected.
RaiseStatement(role, s) ==
  /\ Room
  /\ Objection(role, s) = Ok
  /\ Accepted(PlanOf(s)) /\ ~Bindable(PlanOf(s))
  /\ Record(role, s, {PlanOf(s)}, "RAISED")
  /\ UNCHANGED vars

EngineNext ==
  \E role \in Roles, s \in Statements :
    \/ RefuseStatement(role, s)
    \/ \E epsilon \in Epsilons : ReleaseStatement(role, s, epsilon)
    \/ RejectStatement(role, s)
    \/ RaiseStatement(role, s)

EngineSpec == EngineInit /\ [][EngineNext]_engineVars

-----------------------------------------------------------------------------
(* Properties.                                                             *)

ReleasedStatements == {q \in submitted : q.outcome = "RELEASED"}

\* What becomes of a statement that the engine planned and the ledger charged.
PlannedOutcomes == {"RELEASED", "DATASET_EXECUTION_FAILED", "RAISED"}

ThePlan(q) == CHOOSE plan \in q.plan : TRUE

(* Type invariant.  Only statements of analysts have a plan, and nothing   *)
(* is released that was not planned from a statement.                      *)
EngineTypeOK ==
  /\ \A q \in submitted :
       /\ q.statement \in Statements /\ q.role \in Roles
       /\ Cardinality(q.plan) =
            (IF q.role = "analyst" /\ q.outcome \in PlannedOutcomes THEN 1 ELSE 0)
       /\ \A plan \in q.plan : \A i \in DOMAIN plan.metrics : plan.metrics[i].alias # NoAlias
  /\ \A a \in released : \E q \in ReleasedStatements : a.plan \in q.plan

\* The executor can name the column and may read it.
Known(column) == column \in Readable \ Unquotable

\* What a policy may say that the executor does not support: a table that is
\* not spelled as in the file, names that are no identifiers, conditions on a
\* column, or averages of one, that the authorizer does not know, and a column
\* whose default alias is no alias.
Unsupported(plan) ==
  \/ Table # "employees"
  \/ \E i \in DOMAIN plan.dimensions : plan.dimensions[i] \in Dimensions \cap Unquotable
  \/ \E i \in DOMAIN plan.filters :
       plan.filters[i].column \in FilterColumns /\ ~Known(plan.filters[i].column)
  \/ \E i \in DOMAIN plan.metrics :
       /\ plan.metrics[i].function = "avg"
       /\ plan.metrics[i].column \in DOMAIN Metrics /\ ~Known(plan.metrics[i].column)
  \/ \E i \in DOMAIN plan.metrics :
       plan.metrics[i].alias \in ReservedAliases \cap
         ({"row_count"} \cup {"avg_" \o name : name \in DOMAIN Metrics})

(* A query that the engine planned, and that is charged therefore, is      *)
(* rejected by the executor exactly if the policy grants what the executor *)
(* does not support, the file and the limits of an execution (steps, time) *)
(* aside: otherwise the three validations, of the statement, of the plan   *)
(* and of what SQLite reads, agree.  Under the shipped policy no query is  *)
(* charged and then rejected by them.                                      *)
RejectedOnlyByPolicy ==
  \A q \in submitted :
    \A plan \in q.plan : q.outcome = "DATASET_EXECUTION_FAILED" <=> Unsupported(plan)

\* What a literal is in a comparison with a column: SQLite compares a column
\* of text with the text of the literal, any other with the number.
Means(column, e) == IF column \in TextColumns THEN e.text ELSE e.value

\* What SQL means by a comparison.
Compares(row, w) ==
  \/ w.kind = "eq" /\ row[Name(w.left)] = Means(Name(w.left), w.right)
  \/ w.kind = "neq" /\ row[Name(w.left)] # Means(Name(w.left), w.right)
  \/ /\ w.kind = "in"
     /\ \E i \in DOMAIN w.expressions :
          row[Name(w.this)] = Means(Name(w.this), w.expressions[i])

\* float() and int() keep what a literal means: they do not for an integer
\* that has no float (2^53 + 1), and for 1.0 in a column of text.
Kept(column, e) == Scalar(e).value = Means(column, e)

KeptIn(w) ==
  IF w.kind = "in"
  THEN \A i \in DOMAIN w.expressions : Kept(Name(w.this), w.expressions[i])
  ELSE Kept(Name(w.left), w.right)

Faithful(w) == \A i \in DOMAIN Conjuncts[w] : KeptIn(Conjuncts[w][i])

\* The rows of which SQL says that a condition holds.
RowsWhere[w \in Trees] ==
  IF w.kind = "none" THEN UNION Tables
  ELSE IF w.kind = "paren" THEN RowsWhere[w.this]
  ELSE IF w.kind = "and" THEN RowsWhere[w.left] \cap RowsWhere[w.right]
  ELSE IF w.kind = "or" THEN RowsWhere[w.left] \cup RowsWhere[w.right]
  ELSE {row \in UNION Tables : Compares(row, w)}

(* The query that is rebuilt from the plan is the one that was asked: it   *)
(* selects the rows for which the WHERE of the statement holds, groups     *)
(* them as its GROUP BY does, and names every aggregate as it was named.   *)
(* (_filters, _projection and compile.)  The exception are literals that   *)
(* float() changes: the rebuilt WHERE then compares with another number,   *)
(* or another text, and may select other rows.                             *)
AnswersTheStatement ==
  \A q \in ReleasedStatements :
    LET plan == ThePlan(q) s == q.statement IN
    /\ Faithful(s.where) => Selected(table, plan) = table \cap RowsWhere[s.where]
    /\ DimensionSet(plan) = {LowerCase[s.group[i].name] : i \in DOMAIN s.group}
    /\ \A i \in DOMAIN s.projections :
         s.projections[i].alias # NoAlias =>
           \E j \in DOMAIN plan.metrics :
             /\ plan.metrics[j].alias = s.projections[i].alias
             /\ plan.metrics[j].function = s.projections[i].expression.kind

\* What a condition compares: TRUE is 1, and lists have no order.
Condition(w) ==
  LET Value(column, e) == <<e.type = "string", Means(column, e)>> IN
  IF w.kind = "in"
  THEN [column |-> Name(w.this), negated |-> FALSE,
        values |-> {Value(Name(w.this), w.expressions[i]) : i \in DOMAIN w.expressions}]
  ELSE [column |-> Name(w.left), negated |-> w.kind = "neq",
        values |-> {Value(Name(w.left), w.right)}]

Conditions(w) == {Condition(Conjuncts[w][i]) : i \in DOMAIN Conjuncts[w]}

\* There is an IN whose literals are all the same.
RepeatsLiteral(w) ==
  \E i \in DOMAIN Conjuncts[w] :
    /\ Conjuncts[w][i].kind = "in" /\ Len(Conjuncts[w][i].expressions) > 1
    /\ Cardinality(Condition(Conjuncts[w][i]).values) = 1

Aggregates(s) ==
  {<<s.projections[i].expression.kind, MetricOf(s.projections[i]).column>> :
     i \in {j \in DOMAIN s.projections : IsMetric(s.projections[j])}}

SameQuestion(s, t) ==
  /\ Aggregates(s) = Aggregates(t)
  /\ {LowerCase[s.group[i].name] : i \in DOMAIN s.group} =
       {LowerCase[t.group[i].name] : i \in DOMAIN t.group}
  /\ Conditions(s.where) = Conditions(t.where)

(* Two statements are charged as one release only if they ask the same,    *)
(* and, however they are worded (case, order, aliases, parentheses, TRUE   *)
(* for 1, IN for =), if they do; a string is taken for another literal     *)
(* than a number.  There are two exceptions.  Of literals that float()     *)
(* changes nothing is said: two questions about numbers that it merges are *)
(* one release.  And an IN that repeats one literal is not reduced to an   *)
(* equality, so that the statement may be charged on its own.              *)
RewordedStatementsShareRelease ==
  \A q, r \in {q \in ReleasedStatements : Faithful(q.statement.where)} :
    LET same == Fingerprint(ThePlan(q)) = Fingerprint(ThePlan(r)) IN
    /\ same => SameQuestion(q.statement, r.statement)
    /\ SameQuestion(q.statement, r.statement) =>
         \/ same
         \/ RepeatsLiteral(q.statement.where) \/ RepeatsLiteral(r.statement.where)

=============================================================================
