--------------------------- MODULE PrivacyLedger ---------------------------
(***************************************************************************)
(* The privacy ledger of state.py as its callers may think of it: the      *)
(* table privacy_spend, and reserve_budget as ONE indivisible step.  The   *)
(* code runs reserve_budget as a SQLite transaction of several statements; *)
(* CleanRoomService models those statements one by one and is shown to     *)
(* implement this specification.                                           *)
(*                                                                         *)
(* A release is what release_fingerprint identifies: a canonical plan and  *)
(* an epsilon.  The primary key of privacy_spend is (principal,            *)
(* query_fingerprint), so the table is a set of releases per principal.    *)
(* Money is counted in indivisible units of epsilon.                       *)
(***************************************************************************)
EXTENDS Integers, FiniteSets

CONSTANTS
  Principals,   \* the subjects that may spend budget
  Releases,     \* the release fingerprints
  Epsilon,      \* Epsilon[f]: the epsilon bound into fingerprint f
  Total,        \* Total[S]: SQLite's SUM(epsilon) over the rows S, 0 if empty
  Limit,        \* policy.principal_budget
  Tolerance     \* the 1e-12 by which the comparison is relaxed

(***************************************************************************)
(* What the constants must satisfy; CleanRoomService assumes it of its own *)
(* instance.  SUM is SQLite's: all the ledger relies on is that the empty  *)
(* sum is 0 and that one more row adds its epsilon.                        *)
(***************************************************************************)
LedgerAssumption ==
  /\ IsFiniteSet(Releases)
  /\ Epsilon \in [Releases -> Nat \ {0}]
  /\ Limit \in Nat
  /\ Tolerance \in Nat
  /\ Total \in [SUBSET Releases -> Nat]
  /\ Total[{}] = 0
  /\ \A S \in SUBSET Releases : \A f \in Releases \ S :
       Total[S \cup {f}] = Total[S] + Epsilon[f]

VARIABLE privacy_spend   \* privacy_spend[p]: the releases charged to p

LedgerTypeOK == privacy_spend \in [Principals -> SUBSET Releases]

Init == privacy_spend = [p \in Principals |-> {}]

-----------------------------------------------------------------------------
(* What the SELECTs of reserve_budget and budget compute.                  *)

\* Mutant: the lookup forgets the principal.
ChargedToAnyone(p, f) == \E q \in Principals : f \in privacy_spend[q]

Charged(p, f) == f \in privacy_spend[p]

Spent(p) == Total[privacy_spend[p]]

\* reserve_budget rolls back and raises BudgetExceeded when this is false.
Affordable(spent, f) == spent + Epsilon[f] <= Limit + Tolerance

\* The INSERT.
Insert(p, f) ==
  privacy_spend' = [privacy_spend EXCEPT ![p] = @ \cup {f}]

-----------------------------------------------------------------------------
(* reserve_budget as one step: it inserts the row unless the release was   *)
(* charged before, and refuses what the budget does not cover.  Reuse and  *)
(* refusal change nothing.                                                 *)

ReserveBudget(p, f) ==
  /\ ~Charged(p, f)
  /\ Affordable(Spent(p), f)
  /\ Insert(p, f)

Next == \E p \in Principals, f \in Releases : ReserveBudget(p, f)

Spec == Init /\ [][Next]_privacy_spend

-----------------------------------------------------------------------------
(* No principal ever spends more than the budget, whatever the order and   *)
(* the interleaving of the requests that reserve.                          *)
BudgetRespected == \A p \in Principals : Spent(p) <= Limit + Tolerance

=============================================================================
