------------------------------ MODULE QueryPlan ------------------------------
(***************************************************************************)
(* What identifies a query: the payloads that models.py derives from a     *)
(* QueryPlan.  The release fingerprint is a hash of Fingerprint and the    *)
(* epsilon; the query-variant guard keys its table by hashes of            *)
(* VariantStructure and SemanticFilters.  A sorted list without            *)
(* repetitions, encoded and hashed, is modelled by the set of its members. *)
(*                                                                         *)
(* A plan is a record [dataset_version, dimensions, metrics, filters]; its *)
(* components are sequences, in the order of the query.  A metric is       *)
(* [function, column, alias], where the column of COUNT is "star"; a       *)
(* filter is [column, operator, values].  A literal is [type, value] with  *)
(* a type "string", "number" or "boolean"; its value is a natural number,  *)
(* which a string spells in digits and a boolean has as 0 or 1.            *)
(***************************************************************************)
EXTENDS Integers, FiniteSets, Sequences

Literals == [type : {"string", "number", "boolean"}, value : Nat]

QueryPlans ==
  [dataset_version : Nat,
   dimensions : Seq(STRING),
   metrics : Seq([function : STRING, column : STRING, alias : STRING]),
   filters : Seq([column : STRING, operator : STRING, values : Seq(Literals)])]

\* Mutant: booleans are not folded into numbers.
UnfoldedScalar(v) == v

\* TRUE is the number 1, and a number has one spelling.
CanonicalScalar(v) ==
  IF v.type = "boolean" THEN [v EXCEPT !.type = "number"] ELSE v

\* eq and neq have a single value; the values of in are sorted and unique.
SemanticPayload(f) ==
  [column |-> f.column, operator |-> f.operator,
   values |-> {CanonicalScalar(f.values[i]) : i \in DOMAIN f.values}]

SemanticFilters(plan) ==
  {SemanticPayload(plan.filters[i]) : i \in DOMAIN plan.filters}

\* The alias is presentation.
MetricIdentity(m) == <<m.function, m.column>>

MetricIdentities(plan) ==
  {MetricIdentity(plan.metrics[i]) : i \in DOMAIN plan.metrics}

DimensionSet(plan) == {plan.dimensions[i] : i \in DOMAIN plan.dimensions}

\* QueryPlan.fingerprint
Fingerprint(plan) ==
  [dataset_version |-> plan.dataset_version,
   dimensions |-> DimensionSet(plan),
   metrics |-> MetricIdentities(plan),
   filters |-> SemanticFilters(plan)]

\* Mutant: the dimensions are no part of the shape.
UngroupedStructure(plan) ==
  [dataset_version |-> plan.dataset_version,
   metrics |-> MetricIdentities(plan),
   filters |-> {[column |-> plan.filters[i].column,
                 operator |-> plan.filters[i].operator]
                : i \in DOMAIN plan.filters}]

\* QueryPlan.variant_structure_payload
VariantStructure(plan) ==
  [dataset_version |-> plan.dataset_version,
   dimensions |-> DimensionSet(plan),
   metrics |-> MetricIdentities(plan),
   filters |-> {[column |-> plan.filters[i].column,
                 operator |-> plan.filters[i].operator]
                : i \in DOMAIN plan.filters}]

\* The key of a row of query_history.
Variant(plan) == <<VariantStructure(plan), SemanticFilters(plan)>>

=============================================================================
