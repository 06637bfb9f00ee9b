----------------------------- MODULE Benchmark -----------------------------
(***************************************************************************)
(* The queries of a benchmark run: the cases of the corpus, each repeated, *)
(* and then the four control checks that query the service, all on one     *)
(* fresh state database, and what the run concludes from the answers.      *)
(* One process asks one query after the other, so service.query is one     *)
(* step here; a run is short, so the clock of the variant guard stands.    *)
(*                                                                         *)
(* Epsilons are in quarters.  A plan is [dimension, metric, slice]; the    *)
(* policy lets through the statements of the controls, and what it rejects *)
(* in the corpus is Rejected.  The fifth control, on the truncation of a   *)
(* log of its own, is what AuditChain is about.                            *)
(***************************************************************************)
EXTENDS Integers, Sequences, FiniteSets

CONSTANTS
  Policies,    \* policies [default, maximum, budget]
  Corpora,     \* validated corpora: sequences of cases [plan, epsilon]
  Iterations,  \* iterations per case
  Rejected     \* the plan of a statement that PolicyEngine rejects

ASSUME BenchmarkAssumption ==
  /\ Policies \subseteq [{"default", "maximum", "budget"} -> Nat \ {0}]
  /\ Iterations \in 1..1000
  /\ \A c \in Corpora :
       /\ c \in Seq({c[i] : i \in DOMAIN c}) /\ c # <<>>
       /\ \A i \in DOMAIN c : c[i].epsilon \in Nat

VARIABLES
  policy,         \* settings.policy_path
  corpus,         \* corpus_path
  query_history,  \* as in VariantGuard
  privacy_spend,  \* rows [principal, release]; a release is <<plan, epsilon>>
  responses       \* to the calls so far

vars == <<policy, corpus, query_history, privacy_spend, responses>>

-----------------------------------------------------------------------------
(* The calls of the run.  The epsilon 0 is none.                           *)

Ask(subject, role, plan, epsilon) ==
  [subject |-> subject, role |-> role, plan |-> plan, epsilon |-> epsilon]

\* Principal(subject="control.sticky") and the like
Control(name) == <<"control", name>>

Plan(dimension, metric, slice) ==
  [dimension |-> dimension, metric |-> metric, slice |-> slice]

StickyCalls ==
  [i \in 1..2 |-> Ask(Control("sticky"), "analyst", Plan("department", "avg", "all"), 0)]

Groupings == <<"none", "department", "region", "job_family", "age_band", "active">>

BudgetCalls ==
  [i \in 1..6 |-> Ask(Control("budget"), "analyst", Plan(Groupings[i], "count", "all"), 4)]

RoleCalls ==
  LET roles == <<"auditor", "privacy_officer">> IN
  [i \in 1..2 |-> Ask(Control(roles[i]), roles[i], Plan("none", "count", "all"), 0)]

Slices == <<"France", "Germany", "Spain", "Italy", "Belgium">>

SliceCalls ==
  [i \in 1..5 |-> Ask(Control("slicing"), "analyst", Plan("department", "avg", Slices[i]), 0)]

ControlCalls == StickyCalls \o BudgetCalls \o RoleCalls \o SliceCalls

ASSUME ControlsAreAccepted == \A i \in DOMAIN ControlCalls : ControlCalls[i].plan # Rejected

\* Mutant: all the cases are asked by one principal.
OneSubject(i) == <<"benchmark", 1>>

\* Principal(subject=f"benchmark.{index:03d}")
Subject(i) == <<"benchmark", i>>

CaseCalls == Len(corpus) * Iterations

\* The case that the n-th call belongs to.
CaseOf(n) == (n - 1) \div Iterations + 1

Call(n) ==
  IF n <= CaseCalls
  THEN Ask(Subject(CaseOf(n)), "analyst", corpus[CaseOf(n)].plan, corpus[CaseOf(n)].epsilon)
  ELSE ControlCalls[n - CaseCalls]

-----------------------------------------------------------------------------
(* service.query on the databases as they are.                             *)

Plans ==
  {ControlCalls[i].plan : i \in DOMAIN ControlCalls}
    \cup UNION {{c[i].plan : i \in DOMAIN c} : c \in Corpora}

Shape == [v \in Plans |-> IF v = Rejected THEN v ELSE [v EXCEPT !.slice = v.slice = "all"]]

Guard == INSTANCE VariantGuard WITH
  Principals <- {"benchmark", "control"} \X (Nat \cup STRING), Variants <- Plans, Structure <- Shape, MaximumVariants <- 4,
  Window <- 1, MaxStale <- 0, MaxClock <- 0, clock <- 0

\* Mutant: the lookup forgets the principal.
ChargedToAnyone(p) == {row.release : row \in privacy_spend}

Charged(p) == {row.release : row \in {row \in privacy_spend : row.principal = p}}

\* The quarters of the releases, one by one.
Quarters(releases) == UNION {{release} \X (1..release[2]) : release \in releases}

Spent(p) == Cardinality(Quarters(Charged(p)))

Epsilon(call) == IF call.epsilon # 0 THEN call.epsilon ELSE policy.default

Refusal(call) ==
  CASE call.role # "analyst" -> "ROLE_CANNOT_QUERY_DATA"
    [] call.role = "analyst" /\ call.plan = Rejected -> "REJECTED"
    [] call.role = "analyst" /\ call.plan # Rejected
         /\ Epsilon(call) > policy.maximum -> "EPSILON_TOO_LARGE"
    [] OTHER -> "none"

Deny(reason) == responses' = Append(responses, [decision |-> "DENY", reason |-> reason])

\* The request is not let through by the engine or asks for too much.
Refuse(call) ==
  /\ Refusal(call) # "none"
  /\ Deny(Refusal(call))
  /\ UNCHANGED <<policy, corpus, query_history, privacy_spend>>

Known(call) == Guard!Observed(query_history, call.subject, call.plan)

Count(call) == Guard!CountVariants(query_history, call.subject, call.plan)

RefuseVariant(call) ==
  /\ Refusal(call) = "none" /\ Guard!TooMany(Known(call), Count(call))
  /\ Deny("DIFFERENCING_RISK")
  /\ UNCHANGED <<policy, corpus, query_history, privacy_spend>>

\* The variant stays observed if the budget refuses the release.
Release(call) ==
  LET p == call.subject
      release == <<call.plan, Epsilon(call)>>
      new == release \notin Charged(p)
      spent == Spent(p) + IF new THEN Epsilon(call) ELSE 0
  IN
  /\ Refusal(call) = "none" /\ ~Guard!TooMany(Known(call), Count(call))
  /\ query_history' = Guard!Observe(query_history, p, call.plan, 0)
  /\ UNCHANGED <<policy, corpus>>
  /\ \/ /\ new /\ spent > policy.budget
        /\ Deny("PRIVACY_BUDGET_EXHAUSTED")
        /\ UNCHANGED privacy_spend
     \/ /\ ~(new /\ spent > policy.budget)
        /\ privacy_spend' = privacy_spend
             \cup IF new THEN {[principal |-> p, release |-> release]} ELSE {}
        /\ responses' = Append(responses,
             [decision |-> "ALLOW", reason |-> IF new THEN "none" ELSE "STICKY_RELEASE_REUSED",
              values |-> release, spent |-> spent])

Query ==
  /\ Len(responses) < CaseCalls + Len(ControlCalls)
  /\ LET call == Call(Len(responses) + 1) IN
     Refuse(call) \/ RefuseVariant(call) \/ Release(call)

-----------------------------------------------------------------------------
Init ==
  /\ policy \in Policies /\ corpus \in Corpora
  /\ query_history = {} /\ privacy_spend = {} /\ responses = <<>>

Next == Query

Spec == Init /\ [][Next]_vars

-----------------------------------------------------------------------------
(* What the run concludes.                                                 *)

Over == Len(responses) = CaseCalls + Len(ControlCalls)

\* Every decision on case i is the expected one (ALLOW, DENY).
Allowed(i) ==
  \A n \in 1..CaseCalls : CaseOf(n) = i => responses[n].decision = "ALLOW"

Denied(i) ==
  \A n \in 1..CaseCalls : CaseOf(n) = i => responses[n].decision = "DENY"

\* The answer to the n-th call of the control checks.
Answer(n) == responses[CaseCalls + n]

StickyPassed ==
  /\ \A n \in 1..2 : Answer(n).decision = "ALLOW"
  /\ Answer(1).values = Answer(2).values
  /\ Answer(2).spent = 2
  /\ Answer(2).reason = "STICKY_RELEASE_REUSED"

BudgetPassed ==
  /\ \A n \in 3..7 : Answer(n).decision = "ALLOW"
  /\ Answer(8).reason = "PRIVACY_BUDGET_EXHAUSTED"

RolesPassed == \A n \in 9..10 : Answer(n).reason = "ROLE_CANNOT_QUERY_DATA"

DifferencingPassed ==
  /\ \A n \in 11..14 : Answer(n).decision = "ALLOW"
  /\ Answer(15).reason = "DIFFERENCING_RISK"

-----------------------------------------------------------------------------
(* Properties                                                              *)

\* Type invariant; there is an answer per call, and the ledger has charged
\* every release it has let out.
TypeOK ==
  /\ policy \in Policies /\ corpus \in Corpora
  /\ Len(responses) <= CaseCalls + Len(ControlCalls)
  /\ \A n \in DOMAIN responses :
       /\ responses[n].decision \in {"ALLOW", "DENY"}
       /\ responses[n].decision = "ALLOW" =>
            [principal |-> Call(n).subject, release |-> responses[n].values] \in privacy_spend

\* A case on its own: its statement is accepted and its epsilon is within the
\* maximum and the budget.
Admissible(case) ==
  /\ case.plan # Rejected
  /\ Epsilon(case) <= policy.maximum /\ Epsilon(case) <= policy.budget

\* The verdict on a case is about that case: all its iterations are decided as
\* it would be alone on a fresh database, whatever the other cases of the
\* corpus ask before it and however often it is repeated (neither the budget
\* nor the variants of one principal fill up: a principal per case, releases
\* that are charged once).
CasesIndependent ==
  Over => \A i \in DOMAIN corpus :
            IF Admissible(corpus[i]) THEN Allowed(i) ELSE Denied(i)

\* What a benchmark with all controls passed says of the policy, and no more:
\* the default epsilon is 0.5, which the maximum allows; five releases at epsilon 1
\* are within the budget and six are not.  The answers to the corpus before
\* and the controls among each other make no difference.
ControlsTellThePolicy ==
  Over =>
    /\ RolesPassed
    /\ StickyPassed <=> policy.default = 2 /\ 2 <= policy.maximum /\ 2 <= policy.budget
    /\ BudgetPassed <=> 4 <= policy.maximum /\ policy.budget \in 20..23
    /\ DifferencingPassed <=>
         policy.default <= policy.maximum /\ 4 * policy.default <= policy.budget

=============================================================================
