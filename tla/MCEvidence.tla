----------------------------- MODULE MCEvidence -----------------------------
(* A small instance of Evidence and Benchmark: policies around the limits  *)
(* that the controls tell apart, and a corpus of four cases, one of them   *)
(* rejected, and one of five slices of one statistic.                      *)
EXTENDS Evidence

Standard == [default |-> 2, maximum |-> 4, budget |-> 20]

\* The standard policy but for one of its numbers, and one that fits no control.
MCPolicies ==
  {[Standard EXCEPT !.default = d] : d \in {1, 2, 4}}
    \cup {[Standard EXCEPT !.maximum = m] : m \in {1, 2}}
    \cup {[Standard EXCEPT !.budget = b] : b \in {1, 7, 8, 19, 23, 24}}
    \cup {[default |-> 4, maximum |-> 2, budget |-> 1]}

Case(plan, epsilon) == [plan |-> plan, epsilon |-> epsilon]

Averages(slice) == Plan("department", "avg", slice)

Average(epsilon) == Case(Averages("all"), epsilon)

Headcount(epsilon) == Case(Plan("region", "count", "all"), epsilon)

MCCorpora ==
  {<<Average(1), Case(Rejected, 0), Average(0), Headcount(4)>>,
   [i \in 1..5 |-> Case(Averages(Slices[i]), 1)]}

MCDraft ==
  [corpus |-> [i \in 1..5 |-> Case(Averages(Slices[i]), 1)], source |-> "edited",
   policy |-> Standard]
=============================================================================
