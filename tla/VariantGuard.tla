---------------------------- MODULE VariantGuard ----------------------------
(***************************************************************************)
(* The query-variant guard of state.py: the table query_history and        *)
(* guard_query_variants as ONE indivisible step, taken at a time that was  *)
(* read from the clock beforehand.  CleanRoomService models the statements *)
(* of the transaction one by one and implements this specification.        *)
(*                                                                         *)
(* A variant is the pair (structure_hash, filter_hash) that the guard      *)
(* computes from a plan; two plans have the same variant exactly when they *)
(* have the same plan fingerprint.  Structure[v] is its structure_hash.    *)
(* Time is counted in ticks of a coarse clock.                             *)
(***************************************************************************)
EXTENDS Integers, FiniteSets

CONSTANTS
  Principals,
  Variants,
  Structure,        \* Structure[v]: the structure_hash of variant v
  MaximumVariants,  \* maximum_variants (4)
  Window,           \* window (24 hours), in ticks
  MaxStale,         \* bound: ticks that may pass between `now` and the commit
  MaxClock          \* bound: the last tick of the clock

ASSUME GuardAssumption ==
  /\ DOMAIN Structure = Variants
  /\ MaximumVariants \in Nat \ {0}
  /\ Window \in Nat \ {0}
  /\ MaxStale \in Nat
  /\ MaxClock \in Nat

VARIABLES
  query_history,  \* the table: rows [principal, variant, observed_at]
  clock           \* datetime.now(UTC)

Row == [principal : Principals, variant : Variants, observed_at : Nat]

GuardTypeOK ==
  /\ query_history \in SUBSET Row
  /\ clock \in Nat

Init ==
  /\ query_history = {}
  /\ clock = 0

-----------------------------------------------------------------------------
(* The statements of guard_query_variants, as functions of the table.      *)

\* Mutant: off by one, a row exactly a window old is deleted.
ExpireEarly(rows, now) == {h \in rows : h.observed_at > now - Window}

\* DELETE ... WHERE observed_at < cutoff: of every principal's rows.
Expire(rows, now) == {h \in rows : h.observed_at >= now - Window}

\* The primary key is (principal, structure_hash, filter_hash).
Observed(rows, p, v) == \E h \in rows : h.principal = p /\ h.variant = v

SameShape(rows, p, v) ==
  {h \in rows : h.principal = p /\ Structure[h.variant] = Structure[v]}

\* SELECT COUNT(*) over the rows of one principal and one structure.
CountVariants(rows, p, v) == Cardinality(SameShape(rows, p, v))

\* INSERT OR IGNORE: a row that is there keeps its observed_at.
Observe(rows, p, v, now) ==
  IF Observed(rows, p, v)
  THEN rows
  ELSE rows \cup {[principal |-> p, variant |-> v, observed_at |-> now]}

\* Mutant: off by one, one variant too many.
TooManyLate(existing, variants) == ~existing /\ variants > MaximumVariants

TooMany(existing, variants) == ~existing /\ variants >= MaximumVariants

-----------------------------------------------------------------------------
GuardQueryVariants(p, v, now) ==
  LET rows == Expire(query_history, now) IN
  /\ ~TooMany(Observed(rows, p, v), CountVariants(rows, p, v))
  /\ query_history' = Observe(rows, p, v, now)
  /\ UNCHANGED clock

Tick ==
  /\ clock < MaxClock
  /\ clock' = clock + 1
  /\ UNCHANGED query_history

Next ==
  \/ Tick
  \/ \E p \in Principals, v \in Variants, now \in (clock - MaxStale)..clock :
       now >= 0 /\ GuardQueryVariants(p, v, now)

vars == <<query_history, clock>>

Spec == Init /\ [][Next]_vars

-----------------------------------------------------------------------------
(* The table never holds more than MaximumVariants variants of one shape   *)
(* for one principal.                                                      *)
HistoryBounded ==
  \A p \in Principals, v \in Variants :
    CountVariants(query_history, p, v) <= MaximumVariants

=============================================================================
