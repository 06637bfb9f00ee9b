---------------------------- MODULE VariantWindow ----------------------------
(***************************************************************************)
(* What the query-variant guard promises over time.  VariantGuard extended *)
(* with a history variable: every admission, that is every return of       *)
(* guard_query_variants that lets a query go on to its release, with the   *)
(* time the query was made.                                                *)
(***************************************************************************)
EXTENDS VariantGuard

VARIABLE admitted   \* admissions [principal, variant, at]

Admit(p, v, now) ==
  /\ GuardQueryVariants(p, v, now)
  /\ admitted' = admitted \cup {[principal |-> p, variant |-> v, at |-> now]}

WindowInit == Init /\ admitted = {}

WindowNext ==
  \/ Tick /\ UNCHANGED admitted
  \/ \E p \in Principals, v \in Variants, now \in (clock - MaxStale)..clock :
       now >= 0 /\ Admit(p, v, now)

WindowSpec == WindowInit /\ [][WindowNext]_<<vars, admitted>>

-----------------------------------------------------------------------------
\* The variants of v's shape that p was let through with during [t, t + length].
AdmittedDuring(t, length, p, v) ==
  {a.variant : a \in {b \in admitted :
     /\ b.principal = p
     /\ Structure[b.variant] = Structure[v]
     /\ b.at \in t..(t + length)}}

AtMost(n, length) ==
  \A t \in 0..clock, p \in Principals, v \in Variants :
    Cardinality(AdmittedDuring(t, length, p, v)) <= n

(* THREAT_MODEL.md: "four-variant limit per aggregate/filter shape per 24  *)
(* hours".  Not so: a variant that is asked again keeps its observed_at    *)
(* (INSERT OR IGNORE), is forgotten a window after its FIRST observation,  *)
(* and another one takes its place.                                        *)
VariantLimitPerWindow == AtMost(MaximumVariants, Window)

(* What the code does guarantee: from the first to the last admission of a *)
(* window no row is deleted that was inserted in between, so what was let  *)
(* through is in the table before or after, and the variants of two full   *)
(* tables can meet in a window, but never more.  Because `now` is read     *)
(* before the lock is waited for, a row may be inserted, or deleted, by a  *)
(* reading that is stale, and the window is shorter by both.               *)
TwiceTheLimitPerWindow == AtMost(2 * MaximumVariants, Window - 2 * MaxStale)

(* A variant that was admitted is known to the guard until a window after  *)
(* it was first observed: an admission within the last window that has no  *)
(* row any more was let through by an older row.                           *)
ForgottenOnlyAfterWindow ==
  \A a \in admitted :
    \/ Observed(query_history, a.principal, a.variant)
    \/ \E b \in admitted :
         /\ b.principal = a.principal /\ b.variant = a.variant
         /\ b.at < clock - Window
=============================================================================
