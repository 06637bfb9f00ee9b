------------------------- MODULE VariantGuardProofs -------------------------
(***************************************************************************)
(* The table of the query-variant guard is bounded, for any limit and any  *)
(* window, and however stale the clock readings are; a variant is          *)
(* remembered for a whole window; and what is let through in a window is   *)
(* bounded by two full tables.                                             *)
(***************************************************************************)
EXTENDS VariantWindow, FiniteSetTheorems, TLAPS

(* guard_query_variants keeps query_history a table of rows.               *)
LEMMA GuardTypeInvariant == Spec => []GuardTypeOK
<1>1. Init => GuardTypeOK
  BY DEF Init, GuardTypeOK
<1>2. GuardTypeOK /\ [Next]_vars => GuardTypeOK'
  <2> SUFFICES ASSUME GuardTypeOK, [Next]_vars PROVE GuardTypeOK'
    OBVIOUS
  <2>1. CASE Tick
    BY <2>1 DEF Tick, GuardTypeOK
  <2>2. ASSUME NEW p \in Principals, NEW v \in Variants, NEW now \in (clock - MaxStale)..clock,
               now >= 0, GuardQueryVariants(p, v, now)
        PROVE  GuardTypeOK'
    <3>1. now \in Nat
      BY <2>2, GuardAssumption DEF GuardTypeOK
    <3> QED
      BY <2>2, <3>1 DEF GuardQueryVariants, Observe, Expire, GuardTypeOK, Row
  <2>3. CASE UNCHANGED vars
    BY <2>3 DEF vars, GuardTypeOK
  <2> QED
    BY <2>1, <2>2, <2>3 DEF Next
<1> QED
  BY <1>1, <1>2, PTL DEF Spec

(* What guard_query_variants leaves of one principal and shape: the rows   *)
(* that did not expire and, of the shape that was asked for, one more.     *)
LEMMA ShapeAfterObserve ==
  ASSUME NEW rows, NEW p, NEW v, NEW now, NEW q, NEW w,
         IsFiniteSet(SameShape(rows, q, w)),
         CountVariants(rows, q, w) <= MaximumVariants,
         ~TooMany(Observed(rows, p, v), CountVariants(rows, p, v))
  PROVE  /\ IsFiniteSet(SameShape(Observe(rows, p, v, now), q, w))
         /\ CountVariants(Observe(rows, p, v, now), q, w) <= MaximumVariants
<1> DEFINE row == [principal |-> p, variant |-> v, observed_at |-> now]
           S == SameShape(rows, q, w)
<1>1. CASE Observed(rows, p, v)
  BY <1>1 DEF Observe
<1>2. CASE ~Observed(rows, p, v) /\ ~(p = q /\ Structure[v] = Structure[w])
  <2>1. SameShape(Observe(rows, p, v, now), q, w) = S
    BY <1>2 DEF Observe, SameShape
  <2> QED
    BY <2>1 DEF CountVariants
<1>3. CASE ~Observed(rows, p, v) /\ p = q /\ Structure[v] = Structure[w]
  <2>1. SameShape(Observe(rows, p, v, now), q, w) = S \cup {row}
    BY <1>3 DEF Observe, SameShape
  <2>2. row \notin S
    BY <1>3 DEF Observed, SameShape
  <2>3. /\ IsFiniteSet(S \cup {row})
        /\ Cardinality(S \cup {row}) = Cardinality(S) + 1
    BY <2>2, FS_AddElement
  <2>4. SameShape(rows, p, v) = S
    BY <1>3 DEF SameShape
  <2>5. Cardinality(S) < MaximumVariants
    BY <1>3, <2>4, FS_CardinalityType, GuardAssumption DEF TooMany, CountVariants
  <2> QED
    BY <2>1, <2>3, <2>5, FS_CardinalityType, GuardAssumption DEF CountVariants
<1> QED
  BY <1>1, <1>2, <1>3

(* The guard's bound, with the finiteness that makes it inductive.         *)
HistoryFinite ==
  \A p \in Principals, v \in Variants : IsFiniteSet(SameShape(query_history, p, v))

Bounded == HistoryFinite /\ HistoryBounded

(* Both hold of the empty table.                                           *)
LEMMA InitBounded == Init => Bounded
<1> SUFFICES ASSUME Init, NEW p \in Principals, NEW v \in Variants
             PROVE  /\ IsFiniteSet(SameShape(query_history, p, v))
                    /\ CountVariants(query_history, p, v) <= MaximumVariants
  BY DEF Bounded, HistoryFinite, HistoryBounded
<1>1. SameShape(query_history, p, v) = {}
  BY DEF Init, SameShape
<1> QED
  BY <1>1, FS_EmptySet, GuardAssumption DEF CountVariants

(* An observation, and what expires before it, keep both.                  *)
LEMMA BoundedStep == Bounded /\ [Next]_vars => Bounded'
<1> USE DEF Bounded
<1> SUFFICES ASSUME Bounded, [Next]_vars PROVE Bounded'
  OBVIOUS
<1>1. ASSUME NEW p \in Principals, NEW v \in Variants, NEW now,
             GuardQueryVariants(p, v, now)
      PROVE  Bounded'
  <2> DEFINE rows == Expire(query_history, now)
  <2> SUFFICES ASSUME NEW q \in Principals, NEW w \in Variants
               PROVE  /\ IsFiniteSet(SameShape(query_history', q, w))
                      /\ CountVariants(query_history', q, w) <= MaximumVariants
    BY DEF HistoryFinite, HistoryBounded, CountVariants, SameShape
  <2>1. SameShape(rows, q, w) \subseteq SameShape(query_history, q, w)
    BY DEF Expire, SameShape
  <2>2. IsFiniteSet(SameShape(rows, q, w))
    BY <2>1, FS_Subset DEF HistoryFinite
  <2>3. CountVariants(rows, q, w) <= MaximumVariants
    <3>1. Cardinality(SameShape(rows, q, w)) <= Cardinality(SameShape(query_history, q, w))
      BY <2>1, FS_Subset DEF HistoryFinite
    <3>2. Cardinality(SameShape(query_history, q, w)) <= MaximumVariants
      BY DEF HistoryBounded, CountVariants
    <3> QED
      BY <2>2, <3>1, <3>2, FS_CardinalityType, GuardAssumption
         DEF CountVariants, HistoryFinite
  <2>4. /\ ~TooMany(Observed(rows, p, v), CountVariants(rows, p, v))
        /\ query_history' = Observe(rows, p, v, now)
    BY <1>1 DEF GuardQueryVariants
  <2> HIDE DEF rows
  <2> QED
    BY <2>2, <2>3, <2>4, ShapeAfterObserve
<1>2. CASE UNCHANGED query_history
  BY <1>2 DEF HistoryFinite, HistoryBounded, CountVariants, SameShape
<1> QED
  BY <1>1, <1>2 DEF Next, Tick, vars

(* The table never holds more than maximum_variants variants of one shape  *)
(* for one principal (guard_query_variants).                               *)
THEOREM GuardHistoryBounded == Spec => []HistoryBounded
<1>1. Bounded => HistoryBounded
  BY DEF Bounded
<1> QED
  BY <1>1, InitBounded, BoundedStep, PTL DEF Spec

-----------------------------------------------------------------------------
(* What is remembered, over time.                                          *)

\* p was let through with v at time t.
AdmittedAt(p, v, t) ==
  \E b \in admitted : b.principal = p /\ b.variant = v /\ b.at = t

\* Every row is as old as an admission of its variant.
Remembered ==
  /\ clock \in Int
  /\ \A h \in query_history :
       h.observed_at \in Int /\ AdmittedAt(h.principal, h.variant, h.observed_at)
  /\ \A b \in admitted : b.at \in Int

(* A row is inserted by the admission it is as old as, and INSERT OR       *)
(* IGNORE leaves its age alone.                                            *)
LEMMA RowsRemember == WindowSpec => []Remembered
<1>1. WindowInit => Remembered
  BY DEF WindowInit, Init, Remembered
<1>2. Remembered /\ [WindowNext]_<<vars, admitted>> => Remembered'
  <2> SUFFICES ASSUME Remembered, [WindowNext]_<<vars, admitted>> PROVE Remembered'
    OBVIOUS
  <2>1. CASE Tick /\ UNCHANGED admitted
    BY <2>1 DEF Tick, Remembered, AdmittedAt
  <2>2. ASSUME NEW p \in Principals, NEW v \in Variants, NEW now \in (clock - MaxStale)..clock,
               Admit(p, v, now)
        PROVE  Remembered'
    <3>1. now \in Int /\ clock' = clock
      BY <2>2 DEF Admit, GuardQueryVariants
    <3>2. admitted' = admitted \cup {[principal |-> p, variant |-> v, at |-> now]}
      BY <2>2 DEF Admit
    <3>3. ASSUME NEW h \in query_history', h \notin query_history
          PROVE  h = [principal |-> p, variant |-> v, observed_at |-> now]
      BY <2>2, <3>3 DEF Admit, GuardQueryVariants, Observe, Expire
    <3>4. ASSUME NEW h \in query_history'
          PROVE  h.observed_at \in Int /\ AdmittedAt(h.principal, h.variant, h.observed_at)'
      <4>1. CASE h \in query_history
        BY <3>2, <4>1 DEF Remembered, AdmittedAt
      <4>2. CASE h \notin query_history
        <5> DEFINE new == [principal |-> p, variant |-> v, at |-> now]
        <5>1. /\ h.principal = p /\ h.variant = v /\ h.observed_at = now
              /\ new.principal = p /\ new.variant = v /\ new.at = now /\ new \in admitted'
          BY <3>2, <3>3, <4>2
        <5> HIDE DEF new
        <5> QED
          BY <3>1, <5>1 DEF AdmittedAt
      <4> QED
        BY <4>1, <4>2
    <3> QED
      BY <3>1, <3>2, <3>4 DEF Remembered
  <2>3. CASE UNCHANGED <<vars, admitted>>
    BY <2>3 DEF vars, Remembered, AdmittedAt
  <2> QED
    BY <2>1, <2>2, <2>3 DEF WindowNext
<1> QED
  BY <1>1, <1>2, PTL DEF WindowSpec

(* The guard forgets a variant only a window after it was admitted, for    *)
(* any limit, any window and any staleness (guard_query_variants).         *)
THEOREM WindowIsRemembered == WindowSpec => []ForgottenOnlyAfterWindow
<1>1. WindowInit => ForgottenOnlyAfterWindow
  BY DEF WindowInit, ForgottenOnlyAfterWindow
<1>2. Remembered /\ ForgottenOnlyAfterWindow /\ [WindowNext]_<<vars, admitted>>
        => ForgottenOnlyAfterWindow'
  <2> SUFFICES ASSUME Remembered, ForgottenOnlyAfterWindow, [WindowNext]_<<vars, admitted>>
               PROVE  ForgottenOnlyAfterWindow'
    OBVIOUS
  <2>1. CASE Tick /\ UNCHANGED admitted
    BY <2>1, GuardAssumption DEF Tick, Remembered, ForgottenOnlyAfterWindow
  <2>2. ASSUME NEW p \in Principals, NEW v \in Variants, NEW now \in (clock - MaxStale)..clock,
               Admit(p, v, now)
        PROVE  ForgottenOnlyAfterWindow'
    <3> DEFINE new == [principal |-> p, variant |-> v, at |-> now]
    <3>1. /\ admitted' = admitted \cup {new} /\ clock' = clock
          /\ query_history' = Observe(Expire(query_history, now), p, v, now)
      BY <2>2 DEF Admit, GuardQueryVariants
    <3>2. now \in Int /\ now <= clock /\ clock \in Int
      BY <2>2 DEF Remembered
    <3>3. Observed(query_history', p, v)
      <4> DEFINE row == [principal |-> p, variant |-> v, observed_at |-> now]
      <4>1. CASE Observed(Expire(query_history, now), p, v)
        BY <3>1, <4>1 DEF Observe
      <4>2. CASE ~Observed(Expire(query_history, now), p, v)
        <5>1. row \in query_history' /\ row.principal = p /\ row.variant = v
          BY <3>1, <4>2 DEF Observe
        <5> QED
          BY ONLY <5>1 DEF Observed
      <4> QED
        BY <4>1, <4>2
    <3>4. Expire(query_history, now) \subseteq query_history'
      BY <3>1 DEF Observe
    <3>5. ASSUME NEW a \in admitted
          PROVE  \/ Observed(query_history', a.principal, a.variant)
                 \/ \E b \in admitted' :
                      /\ b.principal = a.principal /\ b.variant = a.variant
                      /\ b.at < clock' - Window
      <4>1. CASE ~Observed(query_history, a.principal, a.variant)
        BY <3>1, <4>1 DEF ForgottenOnlyAfterWindow
      <4>2. CASE Observed(query_history, a.principal, a.variant)
        <5>1. PICK h \in query_history : h.principal = a.principal /\ h.variant = a.variant
          BY <4>2 DEF Observed
        <5>2. CASE h.observed_at >= now - Window
          BY <3>4, <5>1, <5>2 DEF Expire, Observed
        <5>3. CASE ~(h.observed_at >= now - Window)
          <6>1. PICK b \in admitted : /\ b.principal = a.principal /\ b.variant = a.variant
                                      /\ b.at = h.observed_at
            BY <5>1 DEF Remembered, AdmittedAt
          <6>2. b.at < clock - Window
            BY <3>2, <5>3, <6>1, GuardAssumption DEF Remembered
          <6> QED
            BY <3>1, <6>1, <6>2
        <5> QED
          BY <5>2, <5>3
      <4> QED
        BY <4>1, <4>2
    <3>6. new.principal = p /\ new.variant = v
      OBVIOUS
    <3> HIDE DEF new
    <3> QED
      BY <3>1, <3>3, <3>5, <3>6 DEF ForgottenOnlyAfterWindow, Observed
  <2>3. CASE UNCHANGED <<vars, admitted>>
    BY <2>3 DEF vars, ForgottenOnlyAfterWindow
  <2> QED
    BY <2>1, <2>2, <2>3 DEF WindowNext
<1> QED
  BY <1>1, <1>2, RowsRemember, PTL DEF WindowSpec

-----------------------------------------------------------------------------
(* How much is let through in a window.                                    *)

(* The window of TwiceTheLimitPerWindow.                                   *)
Span == Window - 2 * MaxStale

\* p has a row of variant x that no reading before t + Window - MaxStale deletes.
Kept(t, p, x) ==
  \E h \in query_history :
    h.principal = p /\ h.variant = x /\ h.observed_at >= t - MaxStale

\* Of the shape of v, what is in p's table, and what p was let through with
\* since t, was in the table at t (one table: old), or is kept.
Splits(old, t, p, v) ==
  /\ IsFiniteSet(old) /\ Cardinality(old) <= MaximumVariants
  /\ \A h \in SameShape(query_history, p, v) : h.variant \in old \/ Kept(t, p, h.variant)
  /\ \A x \in AdmittedDuring(t, Span, p, v) : x \in old \/ Kept(t, p, x)

\* No reading is of the future; and every window has a split for as long as
\* a reading of it may still be used.
Splittable ==
  /\ \A a \in admitted : a.at <= clock
  /\ \A t \in 0..clock, p \in Principals, v \in Variants :
       clock <= t + Span + MaxStale => \E old : Splits(old, t, p, v)

\* The property, with the finiteness of what it counts.
AdmissionsBounded ==
  \A t \in 0..clock, p \in Principals, v \in Variants :
    /\ IsFiniteSet(AdmittedDuring(t, Span, p, v))
    /\ Cardinality(AdmittedDuring(t, Span, p, v)) <= 2 * MaximumVariants

\* The same of the windows that are open.
OpenBounded ==
  \A t \in 0..clock, p \in Principals, v \in Variants :
    clock <= t + Span + MaxStale =>
      /\ IsFiniteSet(AdmittedDuring(t, Span, p, v))
      /\ Cardinality(AdmittedDuring(t, Span, p, v)) <= 2 * MaximumVariants

Counted == clock \in Nat /\ Remembered /\ Bounded /\ Splittable /\ AdmissionsBounded

(* The variants of a table are no more than its rows.                      *)
LEMMA VariantsCounted ==
  ASSUME NEW S, IsFiniteSet(S)
  PROVE  /\ IsFiniteSet({h.variant : h \in S})
         /\ Cardinality({h.variant : h \in S}) <= Cardinality(S)
<1> DEFINE T == {h.variant : h \in S}
           f == [h \in S |-> h.variant]
<1>1. f \in Surjection(S, T)
  BY DEF Surjection
<1> QED
  BY <1>1, FS_Surjection

(* What is split is in two tables: the old one and the present one.        *)
LEMMA SplitCounts == Bounded /\ Splittable => OpenBounded
<1> SUFFICES ASSUME Bounded, NEW p \in Principals, NEW v \in Variants,
                    NEW t \in 0..clock, NEW old, Splits(old, t, p, v)
             PROVE  /\ IsFiniteSet(AdmittedDuring(t, Span, p, v))
                    /\ Cardinality(AdmittedDuring(t, Span, p, v)) <= 2 * MaximumVariants
  BY DEF Splittable, OpenBounded
<1> DEFINE S == SameShape(query_history, p, v)
           now == {h.variant : h \in S}
           D == AdmittedDuring(t, Span, p, v)
<1>1. /\ IsFiniteSet(S) /\ Cardinality(S) <= MaximumVariants
      /\ IsFiniteSet(old) /\ Cardinality(old) <= MaximumVariants
  BY DEF Bounded, HistoryFinite, HistoryBounded, CountVariants, Splits
<1>2. D \subseteq old \cup now
  <2> SUFFICES ASSUME NEW x \in D, x \notin old PROVE x \in now
    OBVIOUS
  <2>1. PICK h \in query_history : h.principal = p /\ h.variant = x
    BY DEF Splits, Kept
  <2>2. Structure[x] = Structure[v]
    BY DEF AdmittedDuring
  <2>3. h \in S
    BY <2>1, <2>2 DEF SameShape
  <2> QED
    BY <2>1, <2>3
<1>3. IsFiniteSet(now) /\ Cardinality(now) <= Cardinality(S)
  BY <1>1, VariantsCounted
<1> HIDE DEF S, now, D
<1>4. /\ IsFiniteSet(old \cup now)
      /\ Cardinality(old \cup now) = Cardinality(old) + Cardinality(now) - Cardinality(old \cap now)
  BY <1>1, <1>3, FS_Union
<1>5. IsFiniteSet(D) /\ Cardinality(D) <= Cardinality(old \cup now)
  BY <1>2, <1>4, FS_Subset
<1>6. IsFiniteSet(old \cap now)
  BY <1>1, FS_Subset
<1>7. /\ Cardinality(old) \in Nat /\ Cardinality(now) \in Nat /\ Cardinality(S) \in Nat
      /\ Cardinality(old \cap now) \in Nat /\ Cardinality(D) \in Nat
      /\ Cardinality(old \cup now) \in Nat /\ MaximumVariants \in Nat
  BY <1>1, <1>3, <1>4, <1>5, <1>6, FS_CardinalityType, GuardAssumption
<1> QED
  BY <1>1, <1>3, <1>4, <1>5, <1>7 DEF D

(* A tick moves no row; the window that begins with it has the table of    *)
(* that moment as its old one.                                             *)
LEMMA TickCounts == Counted /\ Tick /\ UNCHANGED admitted => Splittable' /\ AdmissionsBounded'
<1> SUFFICES ASSUME Counted, Tick, UNCHANGED admitted
             PROVE  Splittable' /\ AdmissionsBounded'
  OBVIOUS
<1>1. /\ clock \in Nat /\ clock' = clock + 1 /\ query_history' = query_history
      /\ admitted' = admitted
  BY DEF Counted, Tick
<1>2. \A t, p, v : /\ AdmittedDuring(t, Span, p, v)' = AdmittedDuring(t, Span, p, v)
                   /\ \A old : Splits(old, t, p, v)' <=> Splits(old, t, p, v)
  BY <1>1 DEF AdmittedDuring, Splits, Kept, Span
<1>3. \A a \in admitted' : a.at <= clock'
  BY <1>1 DEF Counted, Splittable, Remembered
<1>4. ASSUME NEW p \in Principals, NEW v \in Variants
      PROVE  /\ AdmittedDuring(clock + 1, Span, p, v) = {}
             /\ \E old : Splits(old, clock + 1, p, v)
  <2>1. AdmittedDuring(clock + 1, Span, p, v) = {}
    <3>1. \A a \in admitted : a.at \in Int /\ a.at <= clock
      BY DEF Counted, Splittable, Remembered
    <3> QED
      BY <1>1, <3>1 DEF AdmittedDuring
  <2> DEFINE S == SameShape(query_history, p, v)
  <2>2. IsFiniteSet(S) /\ Cardinality(S) <= MaximumVariants
    BY DEF Counted, Bounded, HistoryFinite, HistoryBounded, CountVariants
  <2>3. /\ IsFiniteSet({h.variant : h \in S})
        /\ Cardinality({h.variant : h \in S}) <= Cardinality(S)
    BY <2>2, VariantsCounted
  <2>4. /\ Cardinality({h.variant : h \in S}) \in Nat
        /\ Cardinality(S) \in Nat /\ MaximumVariants \in Nat
    BY <2>2, <2>3, FS_CardinalityType, GuardAssumption
  <2>5. Cardinality({h.variant : h \in S}) <= MaximumVariants
    BY <2>2, <2>3, <2>4
  <2>6. Splits({h.variant : h \in S}, clock + 1, p, v)
    BY <2>1, <2>3, <2>5 DEF Splits
  <2> QED
    BY <2>1, <2>6
<1>5. Window \in Nat /\ MaxStale \in Nat /\ Span \in Int
  BY GuardAssumption DEF Span
<1>6. ASSUME NEW t \in 0..clock', NEW p \in Principals, NEW v \in Variants
      PROVE  /\ clock' <= t + Span + MaxStale => \E old : Splits(old, t, p, v)'
             /\ IsFiniteSet(AdmittedDuring(t, Span, p, v)')
             /\ Cardinality(AdmittedDuring(t, Span, p, v)') <= 2 * MaximumVariants
  <2>1. CASE t \in 0..clock
    <3>1. clock' <= t + Span + MaxStale => clock <= t + Span + MaxStale
      BY <1>1, <1>5
    <3> QED
      BY <1>2, <2>1, <3>1 DEF Counted, Splittable, AdmissionsBounded
  <2>2. CASE t = clock + 1
    BY <1>2, <1>4, <2>2, FS_EmptySet, GuardAssumption
  <2> QED
    BY <1>1, <2>1, <2>2
<1>7. Splittable'
  BY <1>3, <1>6 DEF Splittable, Span
<1>8. AdmissionsBounded'
  BY <1>6 DEF AdmissionsBounded, Span
<1> QED
  BY <1>7, <1>8

(* While a reading of the window may be used, an admission deletes no row  *)
(* that is kept, and leaves a kept row of what it lets through, or finds   *)
(* one of the old table.                                                   *)
LEMMA AdmissionKeepsSplit ==
  ASSUME Counted, NEW q \in Principals, NEW x \in Variants,
         NEW now \in (clock - MaxStale)..clock, Admit(q, x, now),
         NEW t \in 0..clock, clock <= t + Span + MaxStale,
         NEW p \in Principals, NEW v \in Variants, NEW old, Splits(old, t, p, v)
  PROVE  Splits(old, t, p, v)'
<1> DEFINE rows == Expire(query_history, now)
           row == [principal |-> q, variant |-> x, observed_at |-> now]
           new == [principal |-> q, variant |-> x, at |-> now]
<1>0. /\ clock \in Nat /\ Window \in Nat /\ MaxStale \in Nat /\ now \in Int
      /\ \A h \in query_history : h.observed_at \in Int
  BY GuardAssumption DEF Counted, Remembered
<1>1. /\ query_history' = Observe(rows, q, x, now)
      /\ admitted' = admitted \cup {new}
  BY DEF Admit, GuardQueryVariants
<1>2. /\ row.principal = q /\ row.variant = x /\ row.observed_at = now
      /\ new.principal = q /\ new.variant = x /\ new.at = now
  OBVIOUS
<1>3. rows \subseteq query_history' /\ query_history' \subseteq rows \cup {row}
  BY <1>1 DEF Observe
<1>4. rows \subseteq query_history
  BY DEF Expire
<1>5. ASSUME NEW h \in query_history, h.observed_at >= t - MaxStale
      PROVE  h \in rows
  BY <1>0, <1>5 DEF Expire, Span
<1>6. now >= t - MaxStale
  BY <1>0
<1>7. \E h \in query_history' : h.principal = q /\ h.variant = x
  <2>1. CASE Observed(rows, q, x)
    BY <1>3, <2>1 DEF Observed
  <2>2. CASE ~Observed(rows, q, x)
    <3>1. row \in query_history'
      BY <1>1, <2>2 DEF Observe
    <3> QED
      BY ONLY <1>2, <3>1
  <2> QED
    BY <2>1, <2>2
<1> HIDE DEF rows, row, new
<1>8. ASSUME NEW y, Kept(t, p, y) PROVE Kept(t, p, y)'
  BY <1>3, <1>5, <1>8 DEF Kept
<1>9. ASSUME NEW h \in query_history', h.principal = p, Structure[h.variant] = Structure[v]
      PROVE  h.variant \in old \/ Kept(t, p, h.variant)'
  <2>1. CASE h \in rows
    <3>1. h \in SameShape(query_history, p, v)
      BY <1>4, <1>9, <2>1 DEF SameShape
    <3>2. h.variant \in old \/ Kept(t, p, h.variant)
      BY <3>1 DEF Splits
    <3> QED
      BY <1>8, <3>2
  <2>2. CASE h = row
    BY <1>2, <1>6, <1>9, <2>2 DEF Kept
  <2> QED
    BY <1>3, <2>1, <2>2
<1>10. ASSUME NEW y \in AdmittedDuring(t, Span, p, v)'
       PROVE  y \in old \/ Kept(t, p, y)'
  <2>1. PICK a \in admitted' :
          /\ a.principal = p /\ a.variant = y /\ Structure[a.variant] = Structure[v]
          /\ a.at \in t..(t + Span)
    BY DEF AdmittedDuring, Span
  <2>2. CASE a \in admitted
    <3>1. y \in AdmittedDuring(t, Span, p, v)
      BY <2>1, <2>2 DEF AdmittedDuring
    <3>2. y \in old \/ Kept(t, p, y)
      BY <3>1 DEF Splits
    <3> QED
      BY <1>8, <3>2
  <2>3. CASE a = new
    BY <1>2, <1>7, <1>9, <2>1, <2>3
  <2> QED
    BY <1>1, <2>1, <2>2, <2>3
<1>11. \A h \in SameShape(query_history', p, v) : h.variant \in old \/ Kept(t, p, h.variant)'
  BY <1>9 DEF SameShape
<1> QED
  BY <1>10, <1>11 DEF Splits, SameShape

(* So every window stays split while it is open, and once it is closed, no *)
(* admission belongs to it any more.                                       *)
LEMMA AdmissionCounts ==
  ASSUME Counted, Bounded', NEW q \in Principals, NEW x \in Variants,
         NEW now \in (clock - MaxStale)..clock, Admit(q, x, now)
  PROVE  Splittable' /\ AdmissionsBounded'
<1> DEFINE new == [principal |-> q, variant |-> x, at |-> now]
<1>1. /\ clock' = clock /\ clock \in Nat /\ now \in Int /\ now <= clock
      /\ Window \in Nat /\ MaxStale \in Nat /\ Span \in Int
      /\ admitted' = admitted \cup {new} /\ new.at = now
  BY GuardAssumption DEF Counted, Admit, GuardQueryVariants, Span
<1> HIDE DEF new
<1>2. \A a \in admitted' : a.at <= clock'
  BY <1>1 DEF Counted, Splittable
<1>3. ASSUME NEW t \in 0..clock, NEW p \in Principals, NEW v \in Variants,
             clock <= t + Span + MaxStale
      PROVE  \E old : Splits(old, t, p, v)'
  <2>1. PICK old : Splits(old, t, p, v)
    BY <1>3 DEF Counted, Splittable
  <2> QED
    BY <1>3, <2>1, AdmissionKeepsSplit
<1>4. Splittable'
  BY <1>1, <1>2, <1>3 DEF Splittable, Span
<1>5. OpenBounded'
  <2>1. (Bounded /\ Splittable => OpenBounded)'
    BY SplitCounts, PTL
  <2> QED
    BY <1>4, <2>1
<1>6. ASSUME NEW t \in 0..clock, NEW p \in Principals, NEW v \in Variants
      PROVE  /\ IsFiniteSet(AdmittedDuring(t, Span, p, v)')
             /\ Cardinality(AdmittedDuring(t, Span, p, v)') <= 2 * MaximumVariants
  <2>1. CASE clock <= t + Span + MaxStale
    BY <1>1, <1>5, <2>1 DEF OpenBounded, Span
  <2>2. CASE ~(clock <= t + Span + MaxStale)
    <3>1. ~(now \in t..(t + Span))
      BY <1>1, <2>2
    <3>2. AdmittedDuring(t, Span, p, v)' = AdmittedDuring(t, Span, p, v)
      BY <1>1, <3>1 DEF AdmittedDuring, Span
    <3> QED
      BY <3>2 DEF Counted, AdmissionsBounded
  <2> QED
    BY <2>1, <2>2
<1>7. AdmissionsBounded'
  BY <1>1, <1>6 DEF AdmissionsBounded, Span
<1> QED
  BY <1>4, <1>7

(* In a window, less what readings may be stale at its two ends, the       *)
(* guard lets a principal through with at most twice maximum_variants      *)
(* variants of one shape, for any limit, window and staleness              *)
(* (guard_query_variants).                                                 *)
THEOREM TwiceTheLimit == WindowSpec => []TwiceTheLimitPerWindow
<1> DEFINE Inv == clock \in Nat /\ Bounded /\ Splittable /\ AdmissionsBounded
<1>1. WindowInit => Inv
  <2> SUFFICES ASSUME WindowInit PROVE Inv
    OBVIOUS
  <2>1. Bounded
    BY InitBounded DEF WindowInit
  <2>2. clock = 0 /\ query_history = {} /\ admitted = {}
    BY DEF WindowInit, Init
  <2>3. \A t, p, v : Splits({}, t, p, v) /\ AdmittedDuring(t, Span, p, v) = {}
    BY <2>2, FS_EmptySet, GuardAssumption DEF Splits, SameShape, AdmittedDuring
  <2>4. Splittable
    BY <2>2, <2>3 DEF Splittable
  <2>5. AdmissionsBounded
    BY <2>3, FS_EmptySet, GuardAssumption DEF AdmissionsBounded
  <2> QED
    BY <2>1, <2>2, <2>4, <2>5
<1>2. Remembered /\ Inv /\ [WindowNext]_<<vars, admitted>> => Inv'
  <2> SUFFICES ASSUME Remembered, Inv, [WindowNext]_<<vars, admitted>> PROVE Inv'
    OBVIOUS
  <2>1. Counted
    BY DEF Counted
  <2>2. Bounded'
    BY BoundedStep DEF WindowNext, Admit, Next, vars
  <2>3. CASE Tick /\ UNCHANGED admitted
    BY <2>1, <2>2, <2>3, TickCounts DEF Tick
  <2>4. ASSUME NEW p \in Principals, NEW v \in Variants, NEW now \in (clock - MaxStale)..clock,
               now >= 0, Admit(p, v, now)
        PROVE  Inv'
    BY <2>1, <2>2, <2>4, AdmissionCounts DEF Admit, GuardQueryVariants
  <2>5. CASE UNCHANGED <<vars, admitted>>
    BY <2>2, <2>5
       DEF vars, Splittable, Splits, Kept, AdmissionsBounded, AdmittedDuring, SameShape, Span
  <2> QED
    BY <2>3, <2>4, <2>5 DEF WindowNext
<1>3. Inv => TwiceTheLimitPerWindow
  BY DEF AdmissionsBounded, TwiceTheLimitPerWindow, AtMost, Span
<1> QED
  BY <1>1, <1>2, <1>3, RowsRemember, PTL DEF WindowSpec

=============================================================================
