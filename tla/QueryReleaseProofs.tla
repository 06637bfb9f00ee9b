------------------------- MODULE QueryReleaseProofs -------------------------
(***************************************************************************)
(* What the identity of a query promises, for plans with any number of     *)
(* dimensions, metrics, filters and literals.                              *)
(***************************************************************************)
EXTENDS QueryRelease, FiniteSetTheorems, TLAPS

\* What variant_structure_payload keeps of a filter.
FilterShape(f) == [column |-> f.column, operator |-> f.operator]

FilterShapes(plan) == {FilterShape(plan.filters[i]) : i \in DOMAIN plan.filters}

(* Equal semantic filters have equal shapes: the payload of a filter keeps *)
(* its column and its operator.                                            *)
LEMMA ShapesOfFilters ==
  ASSUME NEW p, NEW q, SemanticFilters(p) = SemanticFilters(q)
  PROVE  FilterShapes(p) = FilterShapes(q)
<1>1. ASSUME NEW a, NEW b, SemanticFilters(a) = SemanticFilters(b), NEW s \in FilterShapes(a)
      PROVE  s \in FilterShapes(b)
  <2>1. PICK i \in DOMAIN a.filters : s = FilterShape(a.filters[i])
    BY DEF FilterShapes
  <2>2. SemanticPayload(a.filters[i]) \in SemanticFilters(b)
    BY <1>1 DEF SemanticFilters
  <2>3. PICK j \in DOMAIN b.filters :
          SemanticPayload(a.filters[i]) = SemanticPayload(b.filters[j])
    BY <2>2 DEF SemanticFilters
  <2>4. /\ a.filters[i].column = b.filters[j].column
        /\ a.filters[i].operator = b.filters[j].operator
    BY <2>3 DEF SemanticPayload
  <2> QED
    BY <2>1, <2>4 DEF FilterShapes, FilterShape
<1> QED
  BY <1>1

(* Two plans have the same variant, the key of query_history, exactly when *)
(* they have the same fingerprint, which the release key is made of.       *)
THEOREM VariantIsFingerprint ==
  ASSUME NEW p, NEW q
  PROVE  Variant(p) = Variant(q) <=> Fingerprint(p) = Fingerprint(q)
<1>1. /\ VariantStructure(p) = VariantStructure(q) <=>
           /\ p.dataset_version = q.dataset_version
           /\ DimensionSet(p) = DimensionSet(q)
           /\ MetricIdentities(p) = MetricIdentities(q)
           /\ FilterShapes(p) = FilterShapes(q)
  BY DEF VariantStructure, FilterShapes, FilterShape
<1>2. Fingerprint(p) = Fingerprint(q) <=>
           /\ p.dataset_version = q.dataset_version
           /\ DimensionSet(p) = DimensionSet(q)
           /\ MetricIdentities(p) = MetricIdentities(q)
           /\ SemanticFilters(p) = SemanticFilters(q)
  BY DEF Fingerprint
<1>3. Variant(p) = Variant(q) <=>
           /\ VariantStructure(p) = VariantStructure(q)
           /\ SemanticFilters(p) = SemanticFilters(q)
  BY DEF Variant
<1> QED
  BY <1>1, <1>2, <1>3, ShapesOfFilters

(* The query-variant guard and the ledger agree, for every two answers, on *)
(* whether they are answers to the same query.                             *)
THEOREM GuardAgreesWithLedger == Spec => []VariantsAreFingerprints
<1>1. VariantsAreFingerprints
  BY VariantIsFingerprint DEF VariantsAreFingerprints
<1> QED
  BY <1>1, PTL

-----------------------------------------------------------------------------
(* Type correctness, and what an answer consists of.                       *)

(* An answer is to a plan and data of the version it was planned for.      *)
THEOREM ReleaseTypeCorrect == Spec => []TypeOK
<1>1. Init => TypeOK
  BY ReleaseAssumption DEF Init, TypeOK, Versions
<1>2. TypeOK /\ [Next]_vars => TypeOK'
  <2> SUFFICES ASSUME TypeOK, [Next]_vars PROVE TypeOK'
    OBVIOUS
  <2>1. ASSUME NEW plan \in Plans, NEW epsilon \in Epsilons, Release(plan, epsilon)
        PROVE  TypeOK'
    BY <2>1 DEF Release, Accepted, Valid, TypeOK
  <2>2. CASE InitializeDemo
    BY <2>2 DEF InitializeDemo, TypeOK
  <2>3. CASE PublishVersion
    BY <2>3, ReleaseAssumption DEF PublishVersion, TypeOK, Versions
  <2>4. CASE UNCHANGED vars
    BY <2>4 DEF vars, TypeOK
  <2> QED
    BY <2>1, <2>2, <2>3, <2>4 DEF Next
<1> QED
  BY <1>1, <1>2, PTL DEF Spec

\* The cell of answer a for a group and a metric.
CellOf(a, g, m) ==
  [group |-> g, metric |-> MetricIdentity(m),
   statistic |-> <<Statistic(a.plan, m), Members(a.table, a.plan, g)>>,
   scale |-> Scale(a.plan, a.epsilon, Cardinality(Members(a.table, a.plan, g)), m),
   token |-> [dataset_version |-> a.dataset_version, release |-> ReleaseOf(a),
              group |-> g, metric |-> MetricIdentity(m)]]

\* What _validate_plan left of the plans that were answered.
Validated(plan) ==
  /\ DimensionSet(plan) \subseteq Dimensions
  /\ Unrepeated(plan.metrics)
  /\ \A i \in DOMAIN plan.filters : WellFormed(plan.filters[i])

\* The groups of answer a: fetched, and above the threshold.
Answered(a) ==
  {g \in Fetched(a.table, a.plan) :
     Cardinality(Members(a.table, a.plan, g)) >= MinGroupSize}

\* Every answer is to a validated plan, and its cells are computed from the
\* data and the version that the answer was given for.
Computed ==
  \A a \in released :
    /\ Validated(a.plan)
    /\ a.cells = {CellOf(a, g, a.plan.metrics[i]) :
                    g \in Answered(a), i \in DOMAIN a.plan.metrics}

(* execute and protect compute every cell from what the answer records.    *)
LEMMA AnswersComputed == Spec => []Computed
<1>1. Init => Computed
  BY DEF Init, Computed
<1>2. Computed /\ [Next]_vars => Computed'
  <2> SUFFICES ASSUME Computed, [Next]_vars PROVE Computed'
    OBVIOUS
  <2>1. ASSUME NEW plan \in Plans, NEW epsilon \in Epsilons, Release(plan, epsilon)
        PROVE  Computed'
    <3> DEFINE a == [plan |-> plan, epsilon |-> epsilon, dataset_version |-> dataset_version,
                     table |-> table, cells |-> Protect(plan, epsilon)]
    <3>1. released' = released \cup {a}
      BY <2>1 DEF Release
    <3>2. Validated(plan)
      BY <2>1 DEF Release, Accepted, Valid, Validated
    <3>3. \A g, m : Cell(plan, epsilon, g, m) = CellOf(a, g, m)
      BY DEF Cell, CellOf, Token, ReleaseOf
    <3>4. Protect(plan, epsilon) = {CellOf(a, g, a.plan.metrics[i]) :
                                      g \in Answered(a), i \in DOMAIN a.plan.metrics}
      <4>1. a.table = table /\ a.plan = plan
        OBVIOUS
      <4>2. Answered(a) = {h \in Fetched(table, plan) :
                             Cardinality(Members(table, plan, h)) >= MinGroupSize}
        BY <4>1, Zenon DEF Answered
      <4> HIDE DEF a
      <4> QED
        BY <3>3, <4>1, <4>2 DEF Protect
    <3>5. /\ Validated(a.plan)
          /\ a.cells = {CellOf(a, g, a.plan.metrics[i]) :
                          g \in Answered(a), i \in DOMAIN a.plan.metrics}
      BY <3>2, <3>4
    <3> HIDE DEF a
    <3> QED
      BY <3>1, <3>5 DEF Computed
  <2>2. CASE UNCHANGED released
    BY <2>2 DEF Computed
  <2> QED
    BY <2>1, <2>2 DEF Next, InitializeDemo, PublishVersion, vars
<1> QED
  BY <1>1, <1>2, PTL DEF Spec

-----------------------------------------------------------------------------
(* What the fingerprint determines.                                        *)

\* The filters of validated plans.
Predicates ==
  {f \in [column : STRING, operator : STRING, values : Seq(Literals)] : WellFormed(f)}

\* The values that a filter compares with.
Operands(f) == {f.values[i].value : i \in DOMAIN f.values}

(* The canonical scalar keeps the value (_canonical_scalar).               *)
LEMMA OperandsBySemantics ==
  ASSUME NEW f \in Predicates, NEW h \in Predicates, SemanticPayload(f) = SemanticPayload(h)
  PROVE  Operands(f) \subseteq Operands(h)
<1> SUFFICES ASSUME NEW i \in DOMAIN f.values PROVE f.values[i].value \in Operands(h)
  BY DEF Operands
<1>1. CanonicalScalar(f.values[i]) \in {CanonicalScalar(h.values[j]) : j \in DOMAIN h.values}
  BY DEF SemanticPayload
<1>2. PICK j \in DOMAIN h.values : CanonicalScalar(f.values[i]) = CanonicalScalar(h.values[j])
  BY <1>1
<1>3. f.values[i] \in Literals /\ h.values[j] \in Literals
  BY DEF Predicates
<1>4. f.values[i].value = h.values[j].value
  BY <1>2, <1>3 DEF CanonicalScalar, Literals
<1> QED
  BY <1>4 DEF Operands

(* A filter is satisfied by the rows whose value is among its operands, or *)
(* is not, by its operator.                                                *)
LEMMA SatisfiesOperands ==
  ASSUME NEW f \in Predicates, NEW row
  PROVE  Satisfies(row, f) <=>
           IF f.operator = "neq" THEN row[f.column] \notin Operands(f)
                                 ELSE row[f.column] \in Operands(f)
<1>1. CASE f.operator = "in"
  BY <1>1 DEF Satisfies, Operands
<1>2. CASE f.operator # "in"
  <2>1. DOMAIN f.values = {1}
    BY <1>2 DEF Predicates, WellFormed
  <2>2. Operands(f) = {f.values[1].value}
    BY <2>1 DEF Operands
  <2>3. f.operator \in {"eq", "neq"}
    BY <1>2 DEF Predicates, WellFormed
  <2> QED
    BY <2>2, <2>3 DEF Satisfies
<1> QED
  BY <1>1, <1>2

LEMMA FiltersArePredicates ==
  ASSUME NEW p \in QueryPlans, Validated(p), NEW i \in DOMAIN p.filters
  PROVE  p.filters[i] \in Predicates
<1> DEFINE F == [column : STRING, operator : STRING, values : Seq(Literals)]
<1>1. WellFormed(p.filters[i])
  BY DEF Validated
<1>2. p.filters \in Seq(F)
  BY DEF QueryPlans
<1>3. Predicates = {f \in F : WellFormed(f)}
  BY DEF Predicates
<1> HIDE DEF F
<1>4. p.filters[i] \in F
  BY <1>2
<1> QED
  BY <1>1, <1>3, <1>4

(* Plans with the same semantic filters select the same rows.              *)
LEMMA SelectedBySemantics ==
  ASSUME NEW p \in QueryPlans, NEW q \in QueryPlans, Validated(p), Validated(q),
         SemanticFilters(p) = SemanticFilters(q), NEW rows
  PROVE  Selected(rows, p) = Selected(rows, q)
<1>1. ASSUME NEW a \in QueryPlans, NEW b \in QueryPlans, Validated(a), Validated(b),
             SemanticFilters(a) = SemanticFilters(b), NEW row \in Selected(rows, a)
      PROVE  row \in Selected(rows, b)
  <2> SUFFICES ASSUME NEW j \in DOMAIN b.filters PROVE Satisfies(row, b.filters[j])
    BY DEF Selected
  <2>1. SemanticPayload(b.filters[j]) \in SemanticFilters(a)
    BY <1>1 DEF SemanticFilters
  <2>2. PICK i \in DOMAIN a.filters :
          SemanticPayload(b.filters[j]) = SemanticPayload(a.filters[i])
    BY <2>1 DEF SemanticFilters
  <2>3. a.filters[i] \in Predicates /\ b.filters[j] \in Predicates
    BY <1>1, FiltersArePredicates
  <2>4. Operands(a.filters[i]) = Operands(b.filters[j])
    BY <2>2, <2>3, OperandsBySemantics
  <2>5. /\ a.filters[i].column = b.filters[j].column
        /\ a.filters[i].operator = b.filters[j].operator
    BY <2>2 DEF SemanticPayload
  <2>6. Satisfies(row, a.filters[i])
    BY <1>1 DEF Selected
  <2> QED
    BY <2>3, <2>4, <2>5, <2>6, SatisfiesOperands
<1>2. Selected(rows, p) \subseteq Selected(rows, q)
  BY <1>1
<1>3. Selected(rows, q) \subseteq Selected(rows, p)
  BY <1>1
<1> QED
  BY <1>2, <1>3

(* Plans with the same fingerprint put the same rows into a group.         *)
LEMMA MembersByFingerprint ==
  ASSUME NEW p \in QueryPlans, NEW q \in QueryPlans, Validated(p), Validated(q),
         Fingerprint(p) = Fingerprint(q), NEW rows, NEW g
  PROVE  Members(rows, p, g) = Members(rows, q, g)
<1>1. SemanticFilters(p) = SemanticFilters(q) /\ DimensionSet(p) = DimensionSet(q)
  BY DEF Fingerprint
<1>2. Selected(rows, p) = Selected(rows, q)
  BY <1>1, SelectedBySemantics
<1>3. \A row : GroupKey(row, p) = GroupKey(row, q)
  BY <1>1 DEF GroupKey
<1> QED
  BY <1>2, <1>3 DEF Members

(* A plan that repeats no metric has as many as it has different ones.     *)
LEMMA MetricsCounted ==
  ASSUME NEW p \in QueryPlans, Validated(p)
  PROVE  Cardinality(MetricIdentities(p)) = Len(p.metrics)
<1> DEFINE n == Len(p.metrics)
           identity == [i \in 1..n |-> MetricIdentity(p.metrics[i])]
<1>1. n \in Nat /\ DOMAIN p.metrics = 1..n
  BY DEF QueryPlans
<1>2. identity \in Injection(1..n, MetricIdentities(p))
  <2>1. identity \in [1..n -> MetricIdentities(p)]
    BY <1>1 DEF MetricIdentities
  <2>2. IsInjective(identity)
    BY <1>1 DEF Validated, Unrepeated, IsInjective
  <2> QED
    BY <2>1, <2>2 DEF Injection
<1>3. identity \in Surjection(1..n, MetricIdentities(p))
  BY <1>1 DEF MetricIdentities, Surjection
<1>4. ExistsBijection(1..n, MetricIdentities(p))
  BY <1>2, <1>3 DEF ExistsBijection, Bijection
<1> QED
  BY <1>1, <1>4, FS_CountingElements

(* If no two aliases differ by case only, a column that is looked up by    *)
(* its name is the one that was asked for.                                 *)
LEMMA StatisticAsked ==
  ASSUME NEW p \in QueryPlans, DistinctAliases(p), NEW k \in DOMAIN p.metrics
  PROVE  Statistic(p, p.metrics[k]) = MetricIdentity(p.metrics[k])
<1> DEFINE named == {i \in DOMAIN p.metrics :
                       LowerCase[p.metrics[i].alias] = LowerCase[p.metrics[k].alias]}
<1>1. named = {k}
  BY DEF DistinctAliases
<1>2. k \in Nat
  BY DEF QueryPlans
<1>3. (CHOOSE i \in named : \A j \in named : i <= j) = k
  BY <1>1, <1>2
<1> QED
  BY <1>3 DEF Statistic

-----------------------------------------------------------------------------
(* Which plans share a fingerprint.                                        *)

\* A literal as SameValues reads it.
ValueOf(v) == <<v.type = "string", v.value>>

LEMMA ScalarsByValue ==
  ASSUME NEW v \in Literals, NEW w \in Literals
  PROVE  CanonicalScalar(v) = CanonicalScalar(w) <=> ValueOf(v) = ValueOf(w)
<1>1. ASSUME NEW x \in Literals
      PROVE  CanonicalScalar(x) =
               [type |-> IF x.type = "string" THEN "string" ELSE "number", value |-> x.value]
  BY <1>1 DEF CanonicalScalar, Literals
<1> DEFINE kind(x) == IF x.type = "string" THEN "string" ELSE "number"
           canonical(x) == [type |-> kind(x), value |-> x.value]
<1>2. canonical(v) = canonical(w) <=> kind(v) = kind(w) /\ v.value = w.value
  BY DEF Literals
<1>3. kind(v) = kind(w) <=> ((v.type = "string") = (w.type = "string"))
  OBVIOUS
<1>4. ValueOf(v) = ValueOf(w) <=>
        ((v.type = "string") = (w.type = "string")) /\ v.value = w.value
  BY DEF ValueOf
<1> QED
  BY <1>1, <1>2, <1>3, <1>4

(* Two filters have one payload exactly when they compare the same column  *)
(* in the same way with the same values.                                   *)
LEMMA PayloadsBySameFilter ==
  ASSUME NEW f \in Predicates, NEW h \in Predicates
  PROVE  SemanticPayload(f) = SemanticPayload(h) <=> SameFilter(f, h)
<1> DEFINE canonicals(x) == {CanonicalScalar(x.values[i]) : i \in DOMAIN x.values}
           values(x) == {ValueOf(x.values[i]) : i \in DOMAIN x.values}
<1>1. ASSUME NEW x \in Predicates, NEW y \in Predicates
      PROVE  canonicals(x) \subseteq canonicals(y) <=> values(x) \subseteq values(y)
  <2>1. ASSUME NEW i \in DOMAIN x.values, NEW j \in DOMAIN y.values
        PROVE  CanonicalScalar(x.values[i]) = CanonicalScalar(y.values[j]) <=>
               ValueOf(x.values[i]) = ValueOf(y.values[j])
    <3>1. x.values[i] \in Literals /\ y.values[j] \in Literals
      BY DEF Predicates
    <3> QED
      BY ONLY <3>1, ScalarsByValue
  <2>2. ASSUME canonicals(x) \subseteq canonicals(y), NEW i \in DOMAIN x.values
        PROVE  ValueOf(x.values[i]) \in values(y)
    <3>1. PICK j \in DOMAIN y.values : CanonicalScalar(x.values[i]) = CanonicalScalar(y.values[j])
      BY <2>2
    <3> QED
      BY <2>1, <3>1
  <2>3. ASSUME values(x) \subseteq values(y), NEW i \in DOMAIN x.values
        PROVE  CanonicalScalar(x.values[i]) \in canonicals(y)
    <3>1. PICK j \in DOMAIN y.values : ValueOf(x.values[i]) = ValueOf(y.values[j])
      BY <2>3
    <3> QED
      BY <2>1, <3>1
  <2> QED
    BY <2>2, <2>3
<1>2. SameValues(f, h) <=> values(f) = values(h)
  BY DEF SameValues, ValueOf
<1>3. SemanticPayload(f) = SemanticPayload(h) <=>
        f.column = h.column /\ f.operator = h.operator /\ canonicals(f) = canonicals(h)
  BY DEF SemanticPayload
<1> HIDE DEF canonicals, values
<1>4. canonicals(f) = canonicals(h) <=> values(f) = values(h)
  <2>1. /\ canonicals(f) \subseteq canonicals(h) <=> values(f) \subseteq values(h)
        /\ canonicals(h) \subseteq canonicals(f) <=> values(h) \subseteq values(f)
    BY <1>1
  <2> QED
    BY <2>1
<1> QED
  BY <1>2, <1>3, <1>4 DEF SameFilter

(* Two queries are one release exactly when one is a rewording of the      *)
(* other.                                                                  *)
LEMMA RewordingsByFingerprint ==
  ASSUME NEW p \in QueryPlans, NEW q \in QueryPlans, Validated(p), Validated(q)
  PROVE  Rewordings(p, q) <=> Fingerprint(p) = Fingerprint(q)
<1>1. ASSUME NEW a \in QueryPlans, NEW b \in QueryPlans, Validated(a), Validated(b)
      PROVE  SemanticFilters(a) \subseteq SemanticFilters(b) <=>
               \A i \in DOMAIN a.filters : \E j \in DOMAIN b.filters :
                 SameFilter(a.filters[i], b.filters[j])
  <2>1. ASSUME NEW i \in DOMAIN a.filters, NEW j \in DOMAIN b.filters
        PROVE  SemanticPayload(a.filters[i]) = SemanticPayload(b.filters[j]) <=>
               SameFilter(a.filters[i], b.filters[j])
    <3>1. a.filters[i] \in Predicates /\ b.filters[j] \in Predicates
      BY <1>1, FiltersArePredicates
    <3> QED
      BY ONLY <3>1, PayloadsBySameFilter
  <2>2. ASSUME SemanticFilters(a) \subseteq SemanticFilters(b), NEW i \in DOMAIN a.filters
        PROVE  \E j \in DOMAIN b.filters : SameFilter(a.filters[i], b.filters[j])
    <3>1. PICK j \in DOMAIN b.filters :
            SemanticPayload(a.filters[i]) = SemanticPayload(b.filters[j])
      BY <2>2 DEF SemanticFilters
    <3> QED
      BY <2>1, <3>1
  <2>3. ASSUME NEW i \in DOMAIN a.filters,
               \E j \in DOMAIN b.filters : SameFilter(a.filters[i], b.filters[j])
        PROVE  SemanticPayload(a.filters[i]) \in SemanticFilters(b)
    BY <2>1, <2>3 DEF SemanticFilters
  <2> QED
    BY <2>2, <2>3 DEF SemanticFilters
<1>2. SemanticFilters(p) = SemanticFilters(q) <=>
        /\ \A i \in DOMAIN p.filters : \E j \in DOMAIN q.filters :
             SameFilter(p.filters[i], q.filters[j])
        /\ \A j \in DOMAIN q.filters : \E i \in DOMAIN p.filters :
             SameFilter(q.filters[j], p.filters[i])
  <2>1. SemanticFilters(p) \subseteq SemanticFilters(q) <=>
          \A i \in DOMAIN p.filters : \E j \in DOMAIN q.filters :
            SameFilter(p.filters[i], q.filters[j])
    BY ONLY <1>1, p \in QueryPlans, q \in QueryPlans, Validated(p), Validated(q)
  <2>2. SemanticFilters(q) \subseteq SemanticFilters(p) <=>
          \A j \in DOMAIN q.filters : \E i \in DOMAIN p.filters :
            SameFilter(q.filters[j], p.filters[i])
    BY ONLY <1>1, p \in QueryPlans, q \in QueryPlans, Validated(p), Validated(q)
  <2> QED
    BY ONLY <2>1, <2>2
<1>3. Fingerprint(p) = Fingerprint(q) <=>
        /\ p.dataset_version = q.dataset_version
        /\ DimensionSet(p) = DimensionSet(q)
        /\ MetricIdentities(p) = MetricIdentities(q)
        /\ SemanticFilters(p) = SemanticFilters(q)
  BY DEF Fingerprint
<1>4. \A f, h : SameFilter(f, h) <=> SameFilter(h, f)
  BY DEF SameFilter, SameValues
<1> QED
  BY <1>2, <1>3, <1>4 DEF Rewordings

(* Rewording a query never makes it another release, and two releases      *)
(* differ in more than their wording, for queries of any length.           *)
THEOREM RewordingsAreOneRelease == Spec => []RewordingsShareRelease
<1>1. TypeOK /\ Computed => RewordingsShareRelease
  BY RewordingsByFingerprint, ReleaseAssumption DEF TypeOK, Computed, RewordingsShareRelease
<1> QED
  BY <1>1, ReleaseTypeCorrect, AnswersComputed, PTL

-----------------------------------------------------------------------------
(* What two answers to one release have in common.                         *)

\* a and b are answers to the same release.
SamePlans(a, b) ==
  /\ a.plan \in QueryPlans /\ Validated(a.plan) /\ DistinctAliases(a.plan)
  /\ b.plan \in QueryPlans /\ Validated(b.plan) /\ DistinctAliases(b.plan)
  /\ ReleaseOf(a) = ReleaseOf(b)

\* ... and over the same data.
SameAnswers(a, b) ==
  /\ a.plan \in QueryPlans /\ Validated(a.plan) /\ DistinctAliases(a.plan)
  /\ b.plan \in QueryPlans /\ Validated(b.plan) /\ DistinctAliases(b.plan)
  /\ ReleaseOf(a) = ReleaseOf(b)
  /\ a.table = b.table /\ a.dataset_version = b.dataset_version

(* They agree, up to the rounding of the epsilon, on every group and every *)
(* aggregate.                                                              *)
LEMMA CellsByRelease ==
  ASSUME NEW a, NEW b, SameAnswers(a, b), NEW g,
         NEW i \in DOMAIN a.plan.metrics, NEW j \in DOMAIN b.plan.metrics,
         MetricIdentity(a.plan.metrics[i]) = MetricIdentity(b.plan.metrics[j])
  PROVE  Rounded(CellOf(a, g, a.plan.metrics[i])) = Rounded(CellOf(b, g, b.plan.metrics[j]))
<1> DEFINE m == a.plan.metrics[i]
           l == b.plan.metrics[j]
           members == Members(a.table, a.plan, g)
<1>1. /\ Fingerprint(a.plan) = Fingerprint(b.plan)
      /\ SignificantDigits[a.epsilon] = SignificantDigits[b.epsilon]
  BY DEF SameAnswers, ReleaseOf
<1>2. Members(a.table, a.plan, g) = Members(b.table, b.plan, g)
  BY <1>1, MembersByFingerprint DEF SameAnswers
<1>3. Statistic(a.plan, m) = Statistic(b.plan, l)
  BY StatisticAsked DEF SameAnswers
<1>4. Len(a.plan.metrics) = Len(b.plan.metrics)
  BY <1>1, MetricsCounted DEF Fingerprint, SameAnswers
<1>5. m.function = l.function
  BY DEF MetricIdentity
<1> DEFINE cellOf(x) ==
      [group |-> g, metric |-> MetricIdentity(m),
       statistic |-> <<Statistic(a.plan, m), members>>,
       scale |-> [metric |-> MetricIdentity(m), epsilon |-> x,
                  share |-> Len(a.plan.metrics),
                  size |-> IF m.function = "count" THEN 1 ELSE Cardinality(members)],
       token |-> [dataset_version |-> a.dataset_version, release |-> ReleaseOf(a),
                  group |-> g, metric |-> MetricIdentity(m)]]
<1>6. CellOf(a, g, m) = cellOf(a.epsilon)
  BY DEF CellOf, Scale
<1>7. CellOf(b, g, l) = cellOf(b.epsilon)
  BY <1>2, <1>3, <1>4, <1>5 DEF CellOf, Scale, SameAnswers
<1>8. \A x : Rounded(cellOf(x)) = cellOf(SignificantDigits[x])
  BY DEF Rounded
<1> HIDE DEF cellOf
<1> QED
  BY <1>1, <1>6, <1>7, <1>8

(* The groups of a finite table are finitely many, and none precedes       *)
(* itself: if no more than LIMIT are there, all of them are fetched.       *)
LEMMA AllGroupsFetched ==
  ASSUME NEW p \in QueryPlans, Validated(p), NEW rows \in Tables,
         ~ (Cardinality(Groups(rows, p)) > MaxResultRows)
  PROVE  Fetched(rows, p) = Groups(rows, p)
<1> DEFINE S == Selected(rows, p)
           keys == [row \in S |-> GroupKey(row, p)]
<1>1. IsFiniteSet(S)
  BY ReleaseAssumption, FS_Subset DEF Selected
<1>2. IsFiniteSet({GroupKey(row, p) : row \in S})
  <2>1. keys \in Surjection(S, {GroupKey(row, p) : row \in S})
    BY DEF Surjection
  <2> QED
    BY <1>1, <2>1, FS_Surjection DEF ExistsSurjection
<1>3. IsFiniteSet(Groups(rows, p))
  BY <1>2, FS_Subset DEF Groups
<1>4. ASSUME NEW g \in Groups(rows, p)
      PROVE  Cardinality({h \in Groups(rows, p) : Precedes(h, g, p.dimensions)}) < MaxResultRows
  <2> DEFINE before == {h \in Groups(rows, p) : Precedes(h, g, p.dimensions)}
  <2>1. ~ Precedes(g, g, p.dimensions)
    <3>1. PICK row \in S : g = GroupKey(row, p)
      BY DEF Groups
    <3>2. \A i \in DOMAIN p.dimensions : g[p.dimensions[i]] \in Nat
      <4> SUFFICES ASSUME NEW i \in DOMAIN p.dimensions PROVE g[p.dimensions[i]] \in Nat
        OBVIOUS
      <4>1. p.dimensions[i] \in DimensionSet(p) /\ DimensionSet(p) \subseteq Columns
        BY DEF DimensionSet, Validated, Columns
      <4>2. g[p.dimensions[i]] = row[p.dimensions[i]]
        BY <3>1, <4>1 DEF GroupKey
      <4> QED
        BY <4>1, <4>2, ReleaseAssumption DEF Selected
    <3> QED
      BY <3>2 DEF Precedes
  <2>2. before \subseteq Groups(rows, p) \ {g}
    BY <2>1
  <2>3. /\ IsFiniteSet(Groups(rows, p) \ {g})
        /\ Cardinality(Groups(rows, p) \ {g}) = Cardinality(Groups(rows, p)) - 1
    BY <1>3, FS_RemoveElement
  <2>4. Cardinality(before) <= Cardinality(Groups(rows, p) \ {g})
    BY <2>2, <2>3, FS_Subset
  <2>5. Cardinality(Groups(rows, p)) \in Nat /\ Cardinality(before) \in Nat
    BY <1>3, <2>2, <2>3, FS_CardinalityType, FS_Subset
  <2> HIDE DEF before
  <2>6. Cardinality(before) < MaxResultRows
    BY <2>3, <2>4, <2>5, ReleaseAssumption
  <2> QED
    BY <2>6 DEF before
<1> QED
  BY <1>4 DEF Fetched

(* They have the same groups, unless LIMIT cuts and the orders differ.     *)
LEMMA GroupsByRelease ==
  ASSUME NEW a, NEW b, SameAnswers(a, b), a.table \in Tables,
         ~ /\ a.plan.dimensions # b.plan.dimensions
           /\ Cardinality(Groups(a.table, a.plan)) > MaxResultRows
  PROVE  Answered(a) = Answered(b)
<1>1. Fingerprint(a.plan) = Fingerprint(b.plan)
  BY DEF SameAnswers, ReleaseOf
<1>2. \A g : Members(a.table, a.plan, g) = Members(b.table, b.plan, g)
  BY <1>1, MembersByFingerprint DEF SameAnswers
<1>3. Groups(a.table, a.plan) = Groups(b.table, b.plan)
  <2>1. Selected(a.table, a.plan) = Selected(b.table, b.plan)
    BY <1>1, SelectedBySemantics DEF Fingerprint, SameAnswers
  <2>2. \A row : GroupKey(row, a.plan) = GroupKey(row, b.plan)
    BY <1>1 DEF Fingerprint, GroupKey
  <2> QED
    BY <1>2, <2>1, <2>2 DEF Groups
<1>4. Fetched(a.table, a.plan) = Fetched(b.table, b.plan)
  <2>1. CASE a.plan.dimensions = b.plan.dimensions
    BY <1>3, <2>1 DEF Fetched
  <2>2. CASE ~ (Cardinality(Groups(a.table, a.plan)) > MaxResultRows)
    BY <1>3, <2>2, AllGroupsFetched DEF SameAnswers
  <2> QED
    BY <2>1, <2>2
<1> QED
  BY <1>2, <1>4 DEF Answered

-----------------------------------------------------------------------------
(* One token is one question at one scale, whichever two plans are asked,  *)
(* however they are worded and whatever the data are; and over the same    *)
(* data it is one number (protect).  Nothing is said of the numbers if the *)
(* rows were replaced under an unchanged version.                          *)
THEOREM NoiseIsNeverReused == Spec => []NoiseNeverReused
<1>1. TypeOK /\ Computed => NoiseNeverReused
  <2> SUFFICES ASSUME TypeOK, Computed, NEW a \in released, NEW b \in released,
                      DistinctAliases(a.plan), DistinctAliases(b.plan),
                      NEW c \in a.cells, NEW d \in b.cells, c.token = d.token
               PROVE  /\ SameStatistic(a, c, b, d)
                      /\ ScaleAsked(c) = ScaleAsked(d)
                      /\ a.table = b.table => Rounded(c) = Rounded(d)
    BY DEF NoiseNeverReused
  <2>1. PICK g \in Answered(a), i \in DOMAIN a.plan.metrics : c = CellOf(a, g, a.plan.metrics[i])
    BY DEF Computed
  <2>2. PICK h \in Answered(b), j \in DOMAIN b.plan.metrics : d = CellOf(b, h, b.plan.metrics[j])
    BY DEF Computed
  <2> DEFINE m == MetricIdentity(a.plan.metrics[i])
             l == MetricIdentity(b.plan.metrics[j])
             mine == [dataset_version |-> a.dataset_version, release |-> ReleaseOf(a),
                      group |-> g, metric |-> m]
             yours == [dataset_version |-> b.dataset_version, release |-> ReleaseOf(b),
                       group |-> h, metric |-> l]
  <2>3. c.token = mine /\ d.token = yours
    BY <2>1, <2>2 DEF CellOf
  <2>4. /\ mine.group = g /\ mine.metric = m
        /\ mine.dataset_version = a.dataset_version /\ mine.release = ReleaseOf(a)
    OBVIOUS
  <2>5. /\ yours.group = h /\ yours.metric = l
        /\ yours.dataset_version = b.dataset_version /\ yours.release = ReleaseOf(b)
    OBVIOUS
  <2> HIDE DEF mine, yours, m, l
  <2>6. /\ g = h /\ m = l
        /\ a.dataset_version = b.dataset_version /\ ReleaseOf(a) = ReleaseOf(b)
    BY <2>3, <2>4, <2>5, Zenon
  <2>7. SamePlans(a, b)
    BY <2>6, ReleaseAssumption DEF TypeOK, Computed, SamePlans
  <2>8. MetricIdentity(a.plan.metrics[i]) = MetricIdentity(b.plan.metrics[j])
    BY <2>6 DEF m, l
  <2>9. i \in DOMAIN a.plan.metrics /\ j \in DOMAIN b.plan.metrics
    BY <2>1, <2>2
  <2>10. d = CellOf(b, g, b.plan.metrics[j])
    BY <2>2, <2>6
  <2>11. SameStatistic(a, c, b, d)
    <3>1. c.group = g /\ d.group = g
      BY <2>1, <2>10 DEF CellOf
    <3>2. /\ c.statistic[1] = Statistic(a.plan, a.plan.metrics[i])
          /\ d.statistic[1] = Statistic(b.plan, b.plan.metrics[j])
      BY <2>1, <2>10 DEF CellOf
    <3>3. c.statistic[1] = d.statistic[1]
      BY <2>7, <2>8, <2>9, <3>2, StatisticAsked DEF SamePlans
    <3>4. \A t \in Tables : Members(t, a.plan, g) = Members(t, b.plan, g)
      BY <2>7, MembersByFingerprint DEF SamePlans, ReleaseOf
    <3> QED
      BY <3>1, <3>3, <3>4 DEF SameStatistic
  <2>12. ScaleAsked(c) = ScaleAsked(d)
    <3>1. Len(a.plan.metrics) = Len(b.plan.metrics)
      BY <2>7, MetricsCounted DEF SamePlans, ReleaseOf, Fingerprint
    <3>2. SignificantDigits[a.epsilon] = SignificantDigits[b.epsilon]
      BY <2>6 DEF ReleaseOf
    <3>3. /\ ScaleAsked(c) = <<MetricIdentity(a.plan.metrics[i]),
                               SignificantDigits[a.epsilon], Len(a.plan.metrics)>>
          /\ ScaleAsked(d) = <<MetricIdentity(b.plan.metrics[j]),
                               SignificantDigits[b.epsilon], Len(b.plan.metrics)>>
      BY <2>1, <2>10 DEF CellOf, Scale, ScaleAsked
    <3> QED
      BY <2>8, <3>1, <3>2, <3>3
  <2>13. ASSUME a.table = b.table PROVE Rounded(c) = Rounded(d)
    <3>1. SameAnswers(a, b)
      BY <2>6, <2>7, <2>13 DEF SamePlans, SameAnswers
    <3>2. Rounded(CellOf(a, g, a.plan.metrics[i])) = Rounded(CellOf(b, g, b.plan.metrics[j]))
      BY ONLY <2>8, <2>9, <3>1, CellsByRelease
    <3> QED
      BY <2>1, <2>10, <3>2
  <2> QED
    BY <2>11, <2>12, <2>13
<1> QED
  BY <1>1, ReleaseTypeCorrect, AnswersComputed, PTL

(* Charging a release once is enough: over the same data it is the same    *)
(* answer, unless LIMIT cuts the groups and the dimensions are asked for   *)
(* in another order.                                                       *)
THEOREM SameReleaseIsSameAnswer == Spec => []SameReleaseSameAnswer
<1>1. TypeOK /\ Computed => SameReleaseSameAnswer
  <2> SUFFICES ASSUME TypeOK, Computed, NEW a0 \in released, NEW b0 \in released,
                      ReleaseOf(a0) = ReleaseOf(b0), a0.table = b0.table,
                      DistinctAliases(a0.plan), DistinctAliases(b0.plan),
                      ~ /\ a0.plan.dimensions # b0.plan.dimensions
                        /\ Cardinality(Groups(a0.table, a0.plan)) > MaxResultRows
               PROVE  Values(a0) = Values(b0)
    BY DEF SameReleaseSameAnswer
  <2>1. Fingerprint(a0.plan) = Fingerprint(b0.plan)
    BY DEF ReleaseOf
  <2>2. a0.dataset_version = b0.dataset_version
    BY <2>1 DEF TypeOK, Fingerprint
  <2>3. SameAnswers(a0, b0) /\ SameAnswers(b0, a0)
    BY <2>2, ReleaseAssumption DEF TypeOK, Computed, SameAnswers
  <2>4. Answered(a0) = Answered(b0)
    BY <2>3, GroupsByRelease DEF TypeOK
  <2>5. ASSUME NEW a \in released, NEW b \in released, SameAnswers(a, b),
               Answered(a) = Answered(b), NEW v \in Values(a)
        PROVE  v \in Values(b)
    <3>1. PICK g \in Answered(a), i \in DOMAIN a.plan.metrics :
            v = Rounded(CellOf(a, g, a.plan.metrics[i]))
      BY DEF Values, Computed
    <3>2. MetricIdentities(a.plan) = MetricIdentities(b.plan)
      BY <2>5 DEF SameAnswers, ReleaseOf, Fingerprint
    <3>3. PICK j \in DOMAIN b.plan.metrics :
            MetricIdentity(a.plan.metrics[i]) = MetricIdentity(b.plan.metrics[j])
      BY <3>2 DEF MetricIdentities
    <3>4. v = Rounded(CellOf(b, g, b.plan.metrics[j]))
      BY <2>5, <3>1, <3>3, CellsByRelease
    <3>5. CellOf(b, g, b.plan.metrics[j]) \in b.cells
      BY <2>5, <3>1 DEF Computed
    <3> QED
      BY <3>4, <3>5 DEF Values
  <2> QED
    BY <2>3, <2>4, <2>5
<1> QED
  BY <1>1, ReleaseTypeCorrect, AnswersComputed, PTL

=============================================================================
