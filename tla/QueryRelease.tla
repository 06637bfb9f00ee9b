---------------------------- MODULE QueryRelease ----------------------------
(***************************************************************************)
(* From a structured plan to the released numbers: ReadOnlyDataset.execute *)
(* (which validates and compiles the plan again and runs it on the dataset *)
(* file) and PrivacyMechanism.protect.  The history variable `released`    *)
(* keeps the answers, so that the properties can relate two of them: what  *)
(* shares noise must be the same statistic, and what is the same release   *)
(* must be the same answer.                                                *)
(*                                                                         *)
(* A released number is abstracted to what it is computed from: the rows   *)
(* it aggregates, the scale of its noise and the token its noise is        *)
(* derived from.  Laplace quantile, clamping and rounding are functions of *)
(* these.  SQLite compares a bound literal with a column by the column's   *)
(* affinity, hence by value and not by type.  The names of the policy are  *)
(* columns of the table (SQLite would read another name as a string).  A   *)
(* plan with an alias that spells one of its dimensions in another case is *)
(* left out (the alias would shadow the dimension in ORDER BY).            *)
(***************************************************************************)
EXTENDS QueryPlan

CONSTANTS
  Plans,          \* the structured plans that reach execute
  Epsilons,
  SignificantDigits, \* an epsilon, rounded as the release key spells it
  Tables,         \* the contents the dataset file may be given
  Table,          \* of the policy, like the following ones
  Dimensions,
  FilterColumns,
  ForbiddenColumns,
  Metrics,        \* a metric policy [functions, column] for every metric name
  LowerCase,      \* the lower-case spelling of every name
  ReservedAliases, \* the names that no output may have
  Unquotable,     \* those of them that are no identifiers (_ALIAS)
  MaxInteger,     \* the greatest integer that SQLite can bind, 2^63 - 1
  MaxFilters,
  MinGroupSize,
  MaxResultRows,
  MaxVersion,     \* bound: the last dataset version
  MaxReleased     \* bound: answers kept in the history

\* A row of employees: a subject token and a value in every column.
Columns ==
  Dimensions \cup FilterColumns
    \cup {Metrics[name].column : name \in DOMAIN Metrics \ {"rows"}}
    \cup (DOMAIN Metrics \ {"rows"})

ASSUME ReleaseAssumption ==
  /\ Plans \subseteq QueryPlans
  /\ MaxVersion \in Nat \ {0}
  /\ \A t \in Tables : IsFiniteSet(t)
  /\ \A t \in Tables : \A row \in t : \A column \in Columns :
       column \in DOMAIN row /\ row[column] \in Nat
  /\ MinGroupSize \in Nat \ {0}
  /\ MaxResultRows \in Nat \ {0}
  /\ MaxFilters \in Nat
  /\ MaxInteger \in Nat
  /\ Unquotable \subseteq ReservedAliases \ {"employees"}
  /\ SignificantDigits \in [Epsilons -> Epsilons]
  /\ \A plan \in Plans : \A i \in DOMAIN plan.metrics :
       LowerCase[plan.metrics[i].alias] \notin DimensionSet(plan)

VARIABLES
  dataset_version,  \* policy.dataset_version
  table,            \* the rows of employees
  released          \* history: the answers given

vars == <<dataset_version, table, released>>

Init ==
  /\ dataset_version = 1
  /\ table \in Tables
  /\ released = {}

-----------------------------------------------------------------------------
(* PolicyEngine._validate_plan, which the executor runs again.             *)

Unrepeated(metrics) ==
  \A i, j \in DOMAIN metrics :
    i # j => /\ metrics[i].alias # metrics[j].alias
             /\ MetricIdentity(metrics[i]) # MetricIdentity(metrics[j])

\* The policy grants the function to the metric's name; COUNT(*) is "rows".
Granted(function, name) ==
  name \in DOMAIN Metrics /\ function \in Metrics[name].functions

Allowed(m) ==
  \/ m.function = "count" /\ m.column = "star" /\ Granted("count", "rows")
  \/ m.function = "avg" /\ m.column # "star" /\ Granted("avg", m.column)

WellFormed(f) ==
  /\ f.column \in FilterColumns \ ForbiddenColumns
  /\ f.operator \in {"eq", "neq", "in"}
  /\ f.operator = "in" => Len(f.values) \in 1..20
  /\ f.operator # "in" => Len(f.values) = 1

\* Mutant: the version of the plan is not compared with the policy's.
ValidForAnyVersion(plan) ==
  /\ plan.metrics # <<>>
  /\ Cardinality(DimensionSet(plan)) = Len(plan.dimensions)
  /\ DimensionSet(plan) \subseteq Dimensions
  /\ Unrepeated(plan.metrics)
  /\ Len(plan.filters) <= MaxFilters

Valid(plan) ==
  /\ plan.dataset_version = dataset_version
  /\ plan.metrics # <<>>
  /\ Cardinality(DimensionSet(plan)) = Len(plan.dimensions)
  /\ DimensionSet(plan) \subseteq Dimensions \ ForbiddenColumns
  /\ Unrepeated(plan.metrics)
  /\ \A i \in DOMAIN plan.metrics :
       /\ Allowed(plan.metrics[i])
       /\ plan.metrics[i].alias \notin DimensionSet(plan) \cup ReservedAliases
  /\ Len(plan.filters) <= MaxFilters
  /\ \A i \in DOMAIN plan.filters : WellFormed(plan.filters[i])

\* The columns that a plan names: they are quoted in the SELECT.
Averaged(plan) ==
  {plan.metrics[i].column : i \in {j \in DOMAIN plan.metrics : plan.metrics[j].function = "avg"}}

Filtered(plan) == {plan.filters[i].column : i \in DOMAIN plan.filters}

\* compile: _quote refuses a name that is no identifier.  The aliases are
\* identifiers, by Valid.
Quotable(plan) ==
  (DimensionSet(plan) \cup Averaged(plan) \cup Filtered(plan) \cup {Table}) \cap Unquotable = {}

\* The columns that the connection's authorizer lets a SELECT read.
Readable ==
  Dimensions \cup {Metrics[name].column : name \in DOMAIN Metrics}

\* Every SELECT reads the table, which init-demo calls employees; SQLite
\* finds it in any case, the authorizer compares the case as well.
Authorized(plan) ==
  /\ Table = "employees"
  /\ DimensionSet(plan) \subseteq Readable
  /\ Averaged(plan) \cup Filtered(plan) \subseteq Readable

\* What execute does not turn into a DatasetExecutionError.
Accepted(plan) == Valid(plan) /\ Quotable(plan) /\ Authorized(plan)

\* Binding a greater integer raises OverflowError, which nobody catches.
Bindable(plan) ==
  \A i \in DOMAIN plan.filters : \A j \in DOMAIN plan.filters[i].values :
    LET v == plan.filters[i].values[j] IN v.type = "number" => v.value <= MaxInteger

-----------------------------------------------------------------------------
(* The compiled SELECT, evaluated over the rows of a table.                *)

Satisfies(row, f) ==
  CASE f.operator = "eq"  -> row[f.column] = f.values[1].value
    [] f.operator = "neq" -> row[f.column] # f.values[1].value
    [] f.operator = "in"  -> \E i \in DOMAIN f.values : row[f.column] = f.values[i].value

\* WHERE: the conjunction of the filters.
Selected(rows, plan) ==
  {row \in rows : \A i \in DOMAIN plan.filters : Satisfies(row, plan.filters[i])}

GroupKey(row, plan) == [d \in DimensionSet(plan) |-> row[d]]

Members(rows, plan, g) == {row \in Selected(rows, plan) : GroupKey(row, plan) = g}

\* GROUP BY the dimensions HAVING COUNT(*) >= min_group_size.
Groups(rows, plan) ==
  {g \in {GroupKey(row, plan) : row \in Selected(rows, plan)} :
     Cardinality(Members(rows, plan, g)) >= MinGroupSize}

\* ORDER BY the dimensions, in the order of the plan.
Precedes(g, h, dimensions) ==
  \E i \in DOMAIN dimensions :
    /\ g[dimensions[i]] < h[dimensions[i]]
    /\ \A j \in 1..(i - 1) : g[dimensions[j]] = h[dimensions[j]]

\* LIMIT max_result_rows.
Fetched(rows, plan) ==
  LET groups == Groups(rows, plan) IN
  {g \in groups :
     Cardinality({h \in groups : Precedes(h, g, plan.dimensions)}) < MaxResultRows}

-----------------------------------------------------------------------------
(* PrivacyMechanism.protect: one number per fetched group and metric.      *)

\* Mutant: the token names the column of the answer.
TokenOfAlias(plan, epsilon, g, m) ==
  [dataset_version |-> dataset_version,
   release |-> <<Fingerprint(plan), SignificantDigits[epsilon]>>, group |-> g,
   metric |-> m.alias]

\* Mutant: the token does not name the metric.
TokenOfGroup(plan, epsilon, g, m) ==
  [dataset_version |-> dataset_version,
   release |-> <<Fingerprint(plan), SignificantDigits[epsilon]>>, group |-> g]

Token(plan, epsilon, g, m) ==
  [dataset_version |-> dataset_version,
   release |-> <<Fingerprint(plan), SignificantDigits[epsilon]>>, group |-> g,
   metric |-> MetricIdentity(m)]

\* The epsilon is divided by the number of metrics, an average's sensitivity
\* by the size of the group.
Scale(plan, epsilon, size, m) ==
  [metric |-> MetricIdentity(m), epsilon |-> epsilon,
   share |-> Len(plan.metrics),
   size |-> IF m.function = "count" THEN 1 ELSE size]

\* A sqlite3.Row finds the first column that has the name in any case.
Statistic(plan, m) ==
  LET named == {i \in DOMAIN plan.metrics :
                  LowerCase[plan.metrics[i].alias] = LowerCase[m.alias]} IN
  MetricIdentity(plan.metrics[CHOOSE i \in named : \A j \in named : i <= j])

Cell(plan, epsilon, g, m) ==
  LET members == Members(table, plan, g) IN
  [group |-> g, metric |-> MetricIdentity(m),
   statistic |-> <<Statistic(plan, m), members>>,
   scale |-> Scale(plan, epsilon, Cardinality(members), m),
   token |-> Token(plan, epsilon, g, m)]

\* The threshold is checked again on what was fetched.
Protect(plan, epsilon) ==
  {Cell(plan, epsilon, g, plan.metrics[i]) :
     g \in {h \in Fetched(table, plan) :
              Cardinality(Members(table, plan, h)) >= MinGroupSize},
     i \in DOMAIN plan.metrics}

-----------------------------------------------------------------------------
\* execute and protect, of a plan that execute accepts and that can be bound.
Release(plan, epsilon) ==
  /\ Cardinality(released) < MaxReleased
  /\ Accepted(plan)
  /\ Bindable(plan)
  /\ released' = released \cup
       {[plan |-> plan, epsilon |-> epsilon, dataset_version |-> dataset_version,
         table |-> table, cells |-> Protect(plan, epsilon)]}
  /\ UNCHANGED <<dataset_version, table>>

\* initialize_demo_dataset: the rows are new, the policy's version is not.
InitializeDemo ==
  /\ table' \in Tables \ {table}
  /\ UNCHANGED <<dataset_version, released>>

\* The operator loads new data and a policy that names their version.
PublishVersion ==
  /\ dataset_version < MaxVersion
  /\ dataset_version' = dataset_version + 1
  /\ table' \in Tables
  /\ UNCHANGED released

Next ==
  \/ \E plan \in Plans, epsilon \in Epsilons : Release(plan, epsilon)
  \/ InitializeDemo
  \/ PublishVersion

Spec == Init /\ [][Next]_vars

-----------------------------------------------------------------------------
(* Properties.                                                             *)

Versions == 1..MaxVersion

TypeOK ==
  /\ dataset_version \in Versions
  /\ table \in Tables
  /\ \A a \in released :
       /\ a.plan \in Plans /\ a.epsilon \in Epsilons
       /\ a.dataset_version \in Versions /\ a.table \in Tables
       /\ a.dataset_version = a.plan.dataset_version

\* The release that reserve_budget charges and protect binds the noise to.
ReleaseOf(a) == <<Fingerprint(a.plan), SignificantDigits[a.epsilon]>>

\* An answer up to what the release key does not tell of the epsilon.
Rounded(c) == [c EXCEPT !.scale.epsilon = SignificantDigits[@]]

\* No two aliases of a plan differ by case only.
DistinctAliases(plan) ==
  \A i, j \in DOMAIN plan.metrics :
    i # j => LowerCase[plan.metrics[i].alias] # LowerCase[plan.metrics[j].alias]

\* Two cells are one statistic, of the same rows whatever the data are.
SameStatistic(a, c, b, d) ==
  /\ c.group = d.group
  /\ c.statistic[1] = d.statistic[1]
  /\ \A t \in Tables : Members(t, a.plan, c.group) = Members(t, b.plan, d.group)

\* The scale but for the size of the group, which is up to the data.
ScaleAsked(c) == <<c.scale.metric, SignificantDigits[c.scale.epsilon], c.scale.share>>

(* Noise that was derived from one token is only ever added to answers to  *)
(* one question: the same statistic over the rows that the same condition  *)
(* selects, whatever the data are, and at one scale up to the rounding of  *)
(* the epsilon.  Over the same data it is therefore added to one number    *)
(* only, and the difference of two answers tells nothing.  (protect; it    *)
(* needs the fingerprint to tell apart what selects different rows, and    *)
(* the plan to repeat no aggregate.)  Over other data it is not so: if     *)
(* init-demo replaces the rows under an unchanged dataset_version, one and *)
(* the same noise is added to the old number and to the new one.  Plans    *)
(* with aliases that differ by case only are another exception, see        *)
(* AliasesPresentationOnly.                                                *)
NoiseNeverReused ==
  \A a, b \in released :
    DistinctAliases(a.plan) /\ DistinctAliases(b.plan) =>
      \A c \in a.cells, d \in b.cells :
        c.token = d.token =>
          /\ SameStatistic(a, c, b, d)
          /\ ScaleAsked(c) = ScaleAsked(d)
          /\ a.table = b.table => Rounded(c) = Rounded(d)

\* The values of an answer, without the names that the query gave them.
Values(a) == {Rounded(c) : c \in a.cells}

(* The same release over the same data is the same answer, however it was  *)
(* worded, so that charging it once is enough.  The one exception: LIMIT   *)
(* keeps the first groups in the order of the plan's dimensions, which is  *)
(* no part of the release, if there are more groups than it lets through   *)
(* (and aliases that differ by case only, as above).                       *)
SameReleaseSameAnswer ==
  \A a, b \in released :
    /\ ReleaseOf(a) = ReleaseOf(b) /\ a.table = b.table
    /\ DistinctAliases(a.plan) /\ DistinctAliases(b.plan)
    => \/ Values(a) = Values(b)
       \/ /\ a.plan.dimensions # b.plan.dimensions
          /\ Cardinality(Groups(a.table, a.plan)) > MaxResultRows

(* The query-variant guard and the ledger agree on when two queries are    *)
(* the same one: no two releases share a variant unless they share the     *)
(* fingerprint, and rewording a query never makes it a new variant.        *)
VariantsAreFingerprints ==
  \A a, b \in released :
    Variant(a.plan) = Variant(b.plan) <=> Fingerprint(a.plan) = Fingerprint(b.plan)

\* Same values, as the policy engine reads literals: TRUE for 1, any order.
SameValues(f, g) ==
  LET Value(v) == <<v.type = "string", v.value>> IN
  {Value(f.values[i]) : i \in DOMAIN f.values} =
  {Value(g.values[i]) : i \in DOMAIN g.values}

SameFilter(f, g) ==
  f.column = g.column /\ f.operator = g.operator /\ SameValues(f, g)

Rewordings(p, q) ==
  /\ p.dataset_version = q.dataset_version
  /\ DimensionSet(p) = DimensionSet(q)
  /\ MetricIdentities(p) = MetricIdentities(q)
  /\ \A i \in DOMAIN p.filters : \E j \in DOMAIN q.filters :
       SameFilter(p.filters[i], q.filters[j])
  /\ \A j \in DOMAIN q.filters : \E i \in DOMAIN p.filters :
       SameFilter(p.filters[i], q.filters[j])

(* README: "presentation-only alias and order changes reuse the same       *)
(* sticky noise", and the guard "canonicalizes aliases, ordering and       *)
(* scalar encodings": two queries are one release exactly when they differ *)
(* in nothing else.                                                        *)
RewordingsShareRelease ==
  \A a, b \in released :
    Rewordings(a.plan, b.plan) <=> Fingerprint(a.plan) = Fingerprint(b.plan)

(* README: "presentation-only alias and order changes reuse the same       *)
(* sticky noise"; METHODOLOGY.md: "the same statistic with presentation-   *)
(* only alias/order changes returns the same" value.  Not so if two        *)
(* aliases differ by case only: both get the statistic of the first.       *)
AliasesPresentationOnly ==
  \A a, b \in released :
    /\ MetricIdentities(a.plan) = MetricIdentities(b.plan)
    /\ a.plan.dimensions = b.plan.dimensions /\ a.plan.filters = b.plan.filters
    /\ a.dataset_version = b.dataset_version /\ a.table = b.table
    /\ a.epsilon = b.epsilon
    => Values(a) = Values(b)

=============================================================================
