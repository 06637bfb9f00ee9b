----------------------- MODULE CleanRoomServiceProofs -----------------------
(***************************************************************************)
(* What holds of CleanRoomService for any number of requests, any policy   *)
(* and any clock.  The argument: a request is in a transaction exactly     *)
(* when it holds the write lock (Lock), so what it read at BEGIN is still  *)
(* true when it commits (Views), so its commit is a step of the            *)
(* indivisible operation.                                                  *)
(***************************************************************************)
EXTENDS CleanRoomService, FiniteSetTheorems, SequenceTheorems, TLAPS

Received == [principal : Principals, release : Releases \cup {None}]

\* Where the plan of a request is known, and where it has not, or still has,
\* its reservation.
Planned == {"clock", "guard", "guard_tx", "reserve", "reserve_tx",
            "execute", "allow", "allow_tx", "return_allow", "allowed"}
Unreserved == {"new", "clock", "guard", "guard_tx", "reserve", "reserve_tx"}
Reserved == {"execute", "allow", "allow_tx", "return_allow", "allowed"}

\* Mutual exclusion: SQLite admits one writing transaction.
Lock == \A r \in Requests : pc[r] \in InTransaction <=> writer = r

\* What the locals of a request hold, by where the request stands.
Shape(r) ==
  /\ pc[r] = "new" => code[r] = None
  /\ pc[r] # "new" => request[r] \in Received
  /\ pc[r] \in Planned => Release(r) \in Releases
  /\ pc[r] \in Unreserved => reservation[r] = None
  /\ pc[r] \in Reserved => reservation[r] \in Reservations
  /\ reservation[r] # None => Release(r) \in Releases
  /\ pc[r] \in {"deny", "deny_tx"} => code[r] \in Codes
  /\ code[r] = "PRIVACY_BUDGET_EXHAUSTED" => Release(r) \in Releases

Shapes == \A r \in Requests : Shape(r)

\* What a request read when its transaction began is what the tables hold.
View(r) ==
  /\ pc[r] = "guard_tx" =>
       LET rows == Guard!Expire(query_history, now[r]) IN
       tx[r] = [existing |-> Guard!Observed(rows, Principal(r), Variant(r)),
                read |-> Guard!CountVariants(rows, Principal(r), Variant(r))]
  /\ pc[r] = "reserve_tx" =>
       tx[r] = [existing |-> Ledger!Charged(Principal(r), Release(r)),
                read |-> Ledger!Spent(Principal(r))]
  /\ pc[r] \in {"allow_tx", "deny_tx"} =>
       tx[r] = [existing |-> FALSE, read |-> Len(audit_log)]

Views == \A r \in Requests : View(r)

FiniteHistory == IsFiniteSet(query_history)

Inv == TypeOK /\ Lock /\ Shapes /\ Views /\ FiniteHistory

-----------------------------------------------------------------------------
(* The invariant holds of an empty database and of requests that have not  *)
(* arrived.                                                                *)
LEMMA InitInv == Init => Inv
<1> SUFFICES ASSUME Init PROVE Inv
  OBVIOUS
<1>1. TypeOK
  <2>1. Ledger!LedgerTypeOK /\ Guard!GuardTypeOK
    BY DEF Init, Ledger!Init, Ledger!LedgerTypeOK, Guard!Init, Guard!GuardTypeOK
  <2>2. pc \in [Requests -> Steps]
    BY DEF Init, Steps
  <2>3. audit_log \in Seq(Entries)
    BY DEF Init
  <2>4. /\ request \in [Requests -> Received \cup {None}]
        /\ now \in [Requests -> Nat]
        /\ tx \in [Requests -> [existing : BOOLEAN, read : Nat] \cup {None}]
        /\ reservation \in [Requests -> Reservations \cup {None}]
        /\ code \in [Requests -> Codes \cup {None}]
        /\ audit_id \in [Requests -> Nat]
        /\ writer \in Requests \cup {None}
    BY DEF Init
  <2> QED
    BY <2>1, <2>2, <2>3, <2>4 DEF TypeOK, Received
<1>2. Lock
  BY ServiceAssumption DEF Init, Lock, InTransaction
<1>3. Shapes
  BY ServiceAssumption DEF Init, Shapes, Shape, Planned, Unreserved, Reserved, Codes
<1>4. Views
  BY DEF Init, Views, View
<1>5. FiniteHistory
  BY FS_EmptySet DEF Init, Guard!Init, FiniteHistory
<1> QED
  BY <1>1, <1>2, <1>3, <1>4, <1>5 DEF Inv


(* Mutual exclusion is kept: BEGIN IMMEDIATE waits for the lock, and every *)
(* way out of a transaction releases it.                                   *)
LEMMA LockStep == TypeOK /\ Lock /\ [Next]_vars => Lock'
<1> SUFFICES ASSUME TypeOK, Lock, [Next]_vars PROVE Lock'
  OBVIOUS
<1>0. /\ pc \in [Requests -> Steps]
      /\ None \notin Requests
  BY ServiceAssumption DEF TypeOK
<1>1. ASSUME NEW r \in Requests, Arrive(r) PROVE Lock'
  BY <1>0, <1>1 DEF Arrive, Plan, RefuseEpsilon, RefusePlan, PlanRaises, Goto, Refuse,
                    Lock, InTransaction
<1>2. ASSUME NEW r \in Requests, Advance(r) PROVE Lock'
  <2>1. CASE ReadClock(r) \/ Execute(r) \/ ExecuteFails(r) \/ ExecuteRaises(r)
             \/ Respond(r)
    BY <1>0, <2>1 DEF ReadClock, Execute, ExecuteFails, ExecuteRaises, Respond, Goto,
                      Refuse, Lock, InTransaction
  <2>2. CASE BeginGuard(r) \/ BeginReserve(r) \/ BeginAppend(r)
    BY <1>0, <2>2 DEF BeginGuard, BeginReserve, BeginAppend, Begin, Goto,
                      Lock, InTransaction
  <2>3. CASE GuardRefuses(r) \/ GuardCommits(r)
    BY <1>0, <2>3 DEF GuardRefuses, GuardCommits, EndTransaction, Goto, Refuse,
                      Lock, InTransaction
  <2>4. CASE ReserveRefuses(r) \/ ReserveReuses(r) \/ ReserveCharges(r)
    BY <1>0, <2>4 DEF ReserveRefuses, ReserveReuses, ReserveCharges, Reserve,
                      EndTransaction, Goto, Refuse, Lock, InTransaction
  <2>5. CASE AppendAllowed(r) \/ AppendDenied(r) \/ AppendRaises(r)
    BY <1>0, <2>5 DEF AppendAllowed, AppendDenied, AppendRaises, CommitAppend,
                      EndTransaction, Goto, Lock, InTransaction
  <2> QED
    BY <1>2, <2>1, <2>2, <2>3, <2>4, <2>5, Zenon DEF Advance
<1>3. ASSUME NEW r \in Requests, LockTimeout(r) PROVE Lock'
  BY <1>0, <1>3 DEF LockTimeout, Waiting, Lock, InTransaction
<1>4. ASSUME NEW r \in Requests, Crash(r) PROVE Lock'
  BY <1>0, <1>4 DEF Crash, InTransaction, Over, Answered, Lock
<1>5. CASE Tick \/ Finished \/ UNCHANGED vars
  BY <1>0, <1>5 DEF Tick, Finished, vars, control, Lock
<1> QED
  BY <1>1, <1>2, <1>3, <1>4, <1>5 DEF Next


-----------------------------------------------------------------------------
(* What the transactions read has the type of tx: the guard counts a       *)
(* finite set of rows, the ledger sums the rows of a principal.            *)
LEMMA GuardReadTyped ==
  ASSUME FiniteHistory, NEW n, NEW p, NEW v
  PROVE  Guard!CountVariants(Guard!Expire(query_history, n), p, v) \in Nat
<1> DEFINE S == Guard!SameShape(Guard!Expire(query_history, n), p, v)
<1>1. S \subseteq query_history
  BY DEF Guard!SameShape, Guard!Expire
<1>2. IsFiniteSet(S)
  BY <1>1, FS_Subset DEF FiniteHistory
<1>3. Cardinality(S) \in Nat
  BY <1>2, FS_CardinalityType
<1> QED
  BY <1>3 DEF Guard!CountVariants, Guard!Cardinality, Cardinality

LEMMA SpentTyped ==
  ASSUME Ledger!LedgerTypeOK, NEW p \in Principals
  PROVE  Ledger!Spent(p) \in Nat
BY ServiceAssumption DEF Ledger!LedgerTypeOK, Ledger!Spent, Ledger!LedgerAssumption

LEMMA EpsilonTyped ==
  ASSUME NEW f \in Releases
  PROVE  EpsilonOf[f] \in Nat \ {0}
BY ServiceAssumption DEF EpsilonOf, Releases, Ledger!LedgerAssumption

(* A granted reservation carries what the transaction read, so it is one   *)
(* that reserve_budget may return.                                         *)
LEMMA ReserveTyped ==
  ASSUME Inv, NEW r \in Requests, ReserveReuses(r) \/ ReserveCharges(r)
  PROVE  \E spent \in Nat, newly \in BOOLEAN : Reserve(r, spent, newly)
<1>1. /\ pc[r] = "reserve_tx"
      /\ Principal(r) \in Principals /\ Release(r) \in Releases
  BY DEF Inv, ReserveReuses, ReserveCharges, Reserve, Goto, Shapes, Shape, Planned,
     Received, Principal
<1>2. tx[r].read \in Nat
  BY <1>1, SpentTyped DEF Inv, Views, View, TypeOK
<1>3. tx[r].read + EpsilonOf[Release(r)] \in Nat
  BY <1>1, <1>2, EpsilonTyped
<1> QED
  BY <1>2, <1>3 DEF ReserveReuses, ReserveCharges

(* Every step keeps the variables of their types.                          *)
LEMMA TypeStep == Inv /\ [Next]_vars => TypeOK'
<1> SUFFICES ASSUME Inv, [Next]_vars PROVE TypeOK'
  OBVIOUS
<1>0. TypeOK /\ Shapes /\ FiniteHistory /\ Lock /\ Views
  BY DEF Inv
<1>1. ASSUME NEW r \in Requests, Arrive(r) PROVE TypeOK'
  <2>1. ASSUME NEW p \in Principals, NEW v \in Variants,
               NEW e \in Epsilons \cup {None}, Plan(r, p, v, e)
        PROVE  TypeOK'
    <3>1. <<v, EffectiveEpsilon(e)>> \in Releases
      BY ServiceAssumption DEF EffectiveEpsilon, Releases
    <3> QED
      BY <1>0, <2>1, <3>1 DEF Plan, Goto, Receive, database, TypeOK, Steps,
         Ledger!LedgerTypeOK, Guard!GuardTypeOK
  <2>2. ASSUME NEW p \in Principals, NEW e \in Epsilons \cup {None}, RefuseEpsilon(r, p, e)
        PROVE  TypeOK'
    BY <1>0, <2>2 DEF RefuseEpsilon, Refuse, Goto, Receive, database, TypeOK, Steps, Waiting,
       Codes, Ledger!LedgerTypeOK, Guard!GuardTypeOK
  <2>3. ASSUME NEW p \in Principals, RefusePlan(r, p) PROVE TypeOK'
    BY <1>0, <2>3 DEF RefusePlan, Refuse, Goto, Receive, database, TypeOK, Steps,
       Waiting, Codes, Ledger!LedgerTypeOK, Guard!GuardTypeOK
  <2>4. ASSUME NEW p \in Principals, PlanRaises(r, p) PROVE TypeOK'
    BY <1>0, <2>4 DEF PlanRaises, Goto, Receive, database, TypeOK, Steps,
       Over, Ledger!LedgerTypeOK, Guard!GuardTypeOK
  <2> QED
    BY <1>1, <2>1, <2>2, <2>3, <2>4 DEF Arrive
<1>2. ASSUME NEW r \in Requests,
             \/ ReadClock(r) \/ Execute(r) \/ ExecuteFails(r) \/ ExecuteRaises(r)
             \/ Respond(r)
      PROVE  TypeOK'
  BY <1>0, <1>2 DEF ReadClock, Execute, ExecuteFails, ExecuteRaises, Respond, Refuse, Goto,
     database, TypeOK, Steps, Waiting, Over, Answered, Codes, Ledger!LedgerTypeOK,
     Guard!GuardTypeOK
<1>3. ASSUME NEW r \in Requests, BeginGuard(r) PROVE TypeOK'
  <2> DEFINE rows == Guard!Expire(query_history, now[r])
  <2>1. /\ Guard!CountVariants(rows, Principal(r), Variant(r)) \in Nat
        /\ Guard!Observed(rows, Principal(r), Variant(r)) \in BOOLEAN
    BY <1>0, GuardReadTyped DEF Guard!Observed
  <2> HIDE DEF rows
  <2> QED
    BY <1>0, <1>3, <2>1 DEF rows, BeginGuard, Begin, Goto, database, TypeOK, Steps,
       InTransaction, Ledger!LedgerTypeOK, Guard!GuardTypeOK
<1>4. ASSUME NEW r \in Requests, BeginReserve(r) PROVE TypeOK'
  <2>1. Principal(r) \in Principals
    BY <1>0, <1>4 DEF BeginReserve, Begin, Goto, Shapes, Shape, Received, Principal
  <2>2. /\ Ledger!Spent(Principal(r)) \in Nat
        /\ Ledger!Charged(Principal(r), Release(r)) \in BOOLEAN
    BY <1>0, <2>1, SpentTyped DEF TypeOK, Ledger!Charged
  <2> QED
    BY <1>0, <1>4, <2>2 DEF BeginReserve, Begin, Goto, database, TypeOK, Steps,
       InTransaction, Ledger!LedgerTypeOK, Guard!GuardTypeOK
<1>5. ASSUME NEW r \in Requests, BeginAppend(r) PROVE TypeOK'
  <2>1. Len(audit_log) \in Nat
    BY <1>0, LenProperties DEF TypeOK
  <2>2. \E to \in InTransaction :
          /\ pc' = [pc EXCEPT ![r] = to]
          /\ writer' = r
          /\ tx' = [tx EXCEPT ![r] = [existing |-> FALSE, read |-> Len(audit_log)]]
          /\ UNCHANGED <<request, now, reservation, code, audit_id, database>>
    BY <1>5 DEF BeginAppend, Begin, Goto, InTransaction
  <2> QED
    BY <1>0, <2>1, <2>2 DEF database, TypeOK, Steps, Ledger!LedgerTypeOK, Guard!GuardTypeOK
<1>6. ASSUME NEW r \in Requests, GuardRefuses(r) \/ GuardCommits(r) PROVE TypeOK'
  <2>1. CASE GuardRefuses(r)
    BY <1>0, <2>1 DEF GuardRefuses, Refuse, Goto, EndTransaction, database, TypeOK, Steps,
       Waiting, Codes, Ledger!LedgerTypeOK, Guard!GuardTypeOK
  <2>2. CASE GuardCommits(r)
    <3>1. Principal(r) \in Principals /\ Variant(r) \in Variants
      BY <1>0, <2>2 DEF GuardCommits, Goto, Shapes, Shape, Planned, Received, Principal,
         Variant, Releases
    <3>2. query_history' \in SUBSET Guard!Row
      BY <1>0, <2>2, <3>1 DEF GuardCommits, TypeOK, Guard!GuardTypeOK, Guard!Observe,
         Guard!Expire, Guard!Row
    <3> QED
      BY <1>0, <2>2, <3>2 DEF GuardCommits, Goto, EndTransaction, TypeOK, Steps,
         Waiting, Ledger!LedgerTypeOK, Guard!GuardTypeOK
  <2> QED
    BY <1>6, <2>1, <2>2
<1>7. ASSUME NEW r \in Requests,
             ReserveRefuses(r) \/ ReserveReuses(r) \/ ReserveCharges(r)
      PROVE  TypeOK'
  <2>1. CASE ReserveRefuses(r)
    BY <1>0, <2>1 DEF ReserveRefuses, Refuse, Goto, EndTransaction, database, TypeOK, Steps,
       Waiting, Codes, Ledger!LedgerTypeOK, Guard!GuardTypeOK
  <2>2. CASE ReserveReuses(r) \/ ReserveCharges(r)
    <3>1. /\ pc[r] = "reserve_tx"
          /\ Principal(r) \in Principals /\ Release(r) \in Releases
      BY <1>0, <2>2 DEF ReserveReuses, ReserveCharges, Reserve, Goto, Shapes, Shape, Planned,
         Received, Principal
    <3>4. Ledger!LedgerTypeOK'
      BY <1>0, <2>2, <3>1 DEF ReserveReuses, ReserveCharges, Ledger!Insert, TypeOK,
         Ledger!LedgerTypeOK
    <3>5. ASSUME NEW spent \in Nat, NEW newly \in BOOLEAN, Reserve(r, spent, newly)
          PROVE  TypeOK'
      <4>1. reservation' \in [Requests -> Reservations \cup {None}]
        BY <1>0, <3>5 DEF Reserve, Reservations, TypeOK
      <4> QED
        BY <1>0, <3>4, <3>5, <4>1 DEF Reserve, Goto, EndTransaction, TypeOK, Steps,
           Guard!GuardTypeOK
    <3> QED
      BY <2>2, <3>5, ReserveTyped
  <2> QED
    BY <1>7, <2>1, <2>2
<1>8. ASSUME NEW r \in Requests,
             AppendAllowed(r) \/ AppendDenied(r) \/ AppendRaises(r)
      PROVE  TypeOK'
  <2>1. CASE AppendRaises(r)
    BY <1>0, <2>1 DEF AppendRaises, Goto, EndTransaction, database, TypeOK, Steps, Over,
       Ledger!LedgerTypeOK, Guard!GuardTypeOK
  <2>2. ASSUME NEW from, NEW to \in Returning, NEW outcome \in Answered, NEW reason,
               CommitAppend(r, from, to, outcome, reason), from \in {"allow_tx", "deny_tx"},
               reason \in Codes \cup {"RELEASED", "STICKY_RELEASE_REUSED"}
        PROVE  TypeOK'
    <3>1. pc[r] \in {"allow_tx", "deny_tx"} /\ Principal(r) \in Principals
      BY <1>0, <2>2 DEF CommitAppend, Goto, Shapes, Shape, Received, Principal
    <3>2. tx[r].read + 1 \in Nat
      BY <1>0, <3>1, LenProperties DEF Views, View, TypeOK
    <3>3. audit_log' \in Seq(Entries)
      BY <1>0, <2>2, <3>1, AppendProperties DEF CommitAppend, TypeOK, Entries
    <3> QED
      BY <1>0, <2>2, <3>2, <3>3 DEF CommitAppend, Goto, EndTransaction, TypeOK, Steps,
         Ledger!LedgerTypeOK, Guard!GuardTypeOK
  <2>3. CASE AppendAllowed(r)
    BY <2>2, <2>3 DEF AppendAllowed, Answered, Returning
  <2>4. CASE AppendDenied(r)
    <3>1. code[r] \in Codes
      BY <1>0, <2>4 DEF AppendDenied, CommitAppend, Goto, Shapes, Shape
    <3> QED
      BY <2>2, <2>4, <3>1 DEF AppendDenied, Answered, Returning
  <2> QED
    BY <1>8, <2>1, <2>3, <2>4
<1>9. ASSUME NEW r \in Requests, LockTimeout(r) \/ Crash(r) PROVE TypeOK'
  <2>1. CASE LockTimeout(r)
    BY <1>0, <2>1 DEF LockTimeout, database, TypeOK, Steps, Over,
       Ledger!LedgerTypeOK, Guard!GuardTypeOK
  <2>2. CASE Crash(r)
    BY <1>0, <2>2 DEF Crash, database, TypeOK, Steps, Over,
       Ledger!LedgerTypeOK, Guard!GuardTypeOK
  <2> QED
    BY <1>9, <2>1, <2>2
<1>10. CASE Tick
  BY <1>0, <1>10 DEF Tick, Guard!Tick, control, TypeOK, Ledger!LedgerTypeOK,
     Guard!GuardTypeOK
<1>11. CASE UNCHANGED vars
  BY <1>0, <1>11 DEF vars, control, TypeOK, Ledger!LedgerTypeOK, Guard!GuardTypeOK
<1> QED
  BY <1>1, <1>2, <1>3, <1>4, <1>5, <1>6, <1>7, <1>8, <1>9, <1>10, <1>11
     DEF Next, Advance, Finished

(* What a request holds fits where it stands, after every step.            *)
LEMMA ShapesStep == Inv /\ [Next]_vars => Shapes'
<1> SUFFICES ASSUME Inv, [Next]_vars PROVE Shapes'
  OBVIOUS
<1>0. TypeOK /\ Shapes /\ pc \in [Requests -> Steps]
  BY DEF Inv, TypeOK
<1>1. ASSUME NEW r \in Requests, Arrive(r) PROVE Shapes'
  <2>1. ASSUME NEW p \in Principals, NEW v \in Variants,
               NEW e \in Epsilons \cup {None}, Plan(r, p, v, e)
        PROVE  Shapes'
    <3>1. <<v, EffectiveEpsilon(e)>> \in Releases
      BY ServiceAssumption DEF EffectiveEpsilon, Releases
    <3> QED
      BY <1>0, <2>1, <3>1, ServiceAssumption DEF Plan, Goto, Receive, TypeOK, Shapes, Shape,
         Received, Planned, Unreserved, Reserved, Release, Codes
  <2>2. ASSUME NEW p \in Principals, NEW e \in Epsilons \cup {None}, RefuseEpsilon(r, p, e)
        PROVE  Shapes'
    BY <1>0, <2>2 DEF RefuseEpsilon, Refuse, Goto, Receive, TypeOK, Shapes, Shape,
       Received, Planned, Unreserved, Reserved, Release, Codes
  <2>3. ASSUME NEW p \in Principals, RefusePlan(r, p) PROVE Shapes'
    BY <1>0, <2>3 DEF RefusePlan, Refuse, Goto, Receive, TypeOK, Shapes, Shape,
       Received, Planned, Unreserved, Reserved, Release, Codes
  <2>4. ASSUME NEW p \in Principals, PlanRaises(r, p) PROVE Shapes'
    BY <1>0, <2>4, ServiceAssumption DEF PlanRaises, Goto, Receive, TypeOK, Shapes, Shape,
       Received, Planned, Unreserved, Reserved, Release, Codes
  <2> QED
    BY <1>1, <2>1, <2>2, <2>3, <2>4 DEF Arrive
<1>2. ASSUME NEW r \in Requests, Advance(r) PROVE Shapes'
  <2>1. CASE ReadClock(r) \/ BeginGuard(r) \/ BeginReserve(r) \/ BeginAppend(r)
    BY <1>0, <2>1 DEF ReadClock, BeginGuard, BeginReserve, BeginAppend, Begin, Goto, TypeOK,
       Shapes, Shape, Planned, Unreserved, Reserved, Release
  <2>2. CASE GuardRefuses(r) \/ ReserveRefuses(r) \/ ExecuteFails(r)
    BY <1>0, <2>2 DEF GuardRefuses, ReserveRefuses, ExecuteFails, Refuse, Goto, TypeOK,
       Shapes, Shape, Planned, Unreserved, Reserved, Release, Codes
  <2>3. CASE GuardCommits(r) \/ Execute(r) \/ ExecuteRaises(r)
    BY <1>0, <2>3 DEF GuardCommits, Execute, ExecuteRaises, Goto, TypeOK,
       Shapes, Shape, Planned, Unreserved, Reserved, Release
  <2>4. CASE ReserveReuses(r) \/ ReserveCharges(r)
    <3>1. /\ Goto(r, "reserve_tx", "execute")
          /\ \E granted \in Reservations :
               reservation' = [reservation EXCEPT ![r] = granted]
          /\ UNCHANGED <<request, code>>
      BY <2>4, ReserveTyped DEF Reserve, Reservations
    <3> QED
      BY <1>0, <3>1 DEF Goto, TypeOK, Shapes, Shape, Planned, Unreserved,
         Reserved, Release
  <2>5. CASE AppendAllowed(r) \/ AppendDenied(r) \/ AppendRaises(r) \/ Respond(r)
    BY <1>0, <2>5 DEF AppendAllowed, AppendDenied, AppendRaises, CommitAppend, Respond, Goto,
       TypeOK, Shapes, Shape, Planned, Unreserved, Reserved, Release
  <2> QED
    BY <1>2, <2>1, <2>2, <2>3, <2>4, <2>5, Zenon DEF Advance
<1>3. ASSUME NEW r \in Requests, LockTimeout(r) \/ Crash(r) PROVE Shapes'
  BY <1>0, <1>3 DEF LockTimeout, Crash, Waiting, Over, Answered, TypeOK, Shapes, Shape,
     Planned, Unreserved, Reserved, Release
<1>4. CASE Tick \/ Finished \/ UNCHANGED vars
  BY <1>0, <1>4 DEF Tick, Finished, vars, control, Shapes, Shape, Release
<1> QED
  BY <1>1, <1>2, <1>3, <1>4 DEF Next

(* The guard adds at most one row.                                         *)
LEMMA FiniteStep == Inv /\ [Next]_vars => FiniteHistory'
<1> SUFFICES ASSUME Inv, [Next]_vars PROVE FiniteHistory'
  OBVIOUS
<1>0. FiniteHistory
  BY DEF Inv
<1>1. ASSUME NEW r \in Requests, GuardCommits(r) PROVE FiniteHistory'
  <2> DEFINE rows == Guard!Expire(query_history, now[r])
             row == [principal |-> Principal(r), variant |-> Variant(r),
                     observed_at |-> now[r]]
  <2>1. IsFiniteSet(rows)
    BY <1>0, FS_Subset DEF FiniteHistory, Guard!Expire
  <2>2. IsFiniteSet(rows \cup {row})
    BY <2>1, FS_AddElement
  <2>3. query_history' \in {rows, rows \cup {row}}
    BY <1>1 DEF GuardCommits, Guard!Observe
  <2> QED
    BY <2>1, <2>2, <2>3 DEF FiniteHistory
<1>2. CASE UNCHANGED query_history
  BY <1>0, <1>2 DEF FiniteHistory
<1>3. (\E r \in Requests : GuardCommits(r)) \/ UNCHANGED query_history
  BY DEF Next, Arrive, Plan, RefuseEpsilon, RefusePlan, PlanRaises, Advance, ReadClock,
     BeginGuard, GuardRefuses, BeginReserve, ReserveRefuses, ReserveReuses, ReserveCharges,
     Reserve, Execute, ExecuteFails, ExecuteRaises, BeginAppend, AppendAllowed, AppendDenied,
     CommitAppend, AppendRaises, Respond, LockTimeout, Crash, Tick, Guard!Tick, Finished,
     vars, database
<1> QED
  BY <1>1, <1>2, <1>3

(* A view survives a step that touches neither the tables nor the locals   *)
(* of the request, and a request outside its transaction has none.         *)
LEMMA ViewKept ==
  ASSUME NEW s, View(s), pc'[s] = pc[s], request'[s] = request[s],
         now'[s] = now[s], tx'[s] = tx[s],
         privacy_spend' = privacy_spend, query_history' = query_history,
         audit_log' = audit_log
  PROVE  View(s)'
BY DEF View, Principal, Variant, Release, Guard!Expire, Guard!Observed, Guard!CountVariants,
       Guard!SameShape, Ledger!Charged, Ledger!Spent

LEMMA NoView ==
  ASSUME NEW s, pc'[s] \notin InTransaction
  PROVE  View(s)'
BY DEF View, InTransaction

(* Only the holder of the lock changes a table, so every other view stays  *)
(* true; BEGIN makes a view true, and a transaction that ends has none.    *)
LEMMA ViewsStep == Inv /\ [Next]_vars => Views'
<1> SUFFICES ASSUME Inv, [Next]_vars, NEW s \in Requests PROVE View(s)'
  BY DEF Views
<1>0. TypeOK /\ Lock /\ View(s) /\ None \notin Requests
  BY ServiceAssumption DEF Inv, Views
<1>1. ASSUME NEW r \in Requests, Arrive(r) PROVE View(s)'
  <2>1. /\ UNCHANGED <<now, tx, database>>
        /\ \E to \in {"clock", "deny", "failed"} : pc' = [pc EXCEPT ![r] = to]
        /\ \E q : request' = [request EXCEPT ![r] = q]
    BY <1>1 DEF Arrive, Plan, RefuseEpsilon, RefusePlan, PlanRaises, Goto, Refuse, Receive
  <2> QED
    BY <1>0, <2>1, ViewKept, NoView DEF database, TypeOK, InTransaction
<1>2. ASSUME NEW r \in Requests, Advance(r) PROVE View(s)'
  <2>1. CASE ReadClock(r) \/ Execute(r) \/ ExecuteFails(r) \/ ExecuteRaises(r)
             \/ Respond(r)
    BY <1>0, <2>1, ViewKept, NoView DEF ReadClock, Execute, ExecuteFails, ExecuteRaises,
       Respond, Goto, Refuse, database, TypeOK, InTransaction
  <2>2. CASE BeginGuard(r)
    <3>1. CASE s = r
      BY <1>0, <2>2, <3>1 DEF BeginGuard, Begin, Goto, database, TypeOK, View, Principal,
         Variant, Release
    <3>2. CASE s # r
      BY <1>0, <2>2, <3>2, ViewKept DEF BeginGuard, Begin, Goto, database, TypeOK
    <3> QED
      BY <3>1, <3>2
  <2>3. CASE BeginReserve(r)
    <3>1. CASE s = r
      BY <1>0, <2>3, <3>1 DEF BeginReserve, Begin, Goto, database, TypeOK, View, Principal,
         Release, Ledger!Charged, Ledger!Spent
    <3>2. CASE s # r
      BY <1>0, <2>3, <3>2, ViewKept DEF BeginReserve, Begin, Goto, database, TypeOK
    <3> QED
      BY <3>1, <3>2
  <2>4. CASE BeginAppend(r)
    <3>1. CASE s = r
      BY <1>0, <2>4, <3>1 DEF BeginAppend, Begin, Goto, database, TypeOK, View
    <3>2. CASE s # r
      BY <1>0, <2>4, <3>2, ViewKept DEF BeginAppend, Begin, Goto, database, TypeOK
    <3> QED
      BY <3>1, <3>2
  <2>5. ASSUME pc[r] \in InTransaction,
               \E to : pc' = [pc EXCEPT ![r] = to] /\ to \notin InTransaction
        PROVE  View(s)'
    <3>1. CASE s = r
      BY <1>0, <2>5, <3>1, NoView DEF TypeOK
    <3>2. CASE s # r
      <4>1. pc'[s] = pc[s] /\ pc[s] \notin InTransaction
        BY <1>0, <2>5, <3>2 DEF Lock, TypeOK
      <4> QED
        BY <4>1, NoView
    <3> QED
      BY <3>1, <3>2
  <2>6. CASE GuardRefuses(r) \/ GuardCommits(r)
    BY <2>5, <2>6 DEF GuardRefuses, GuardCommits, Goto, Refuse, InTransaction
  <2>7. CASE ReserveRefuses(r) \/ ReserveReuses(r) \/ ReserveCharges(r)
    BY <2>5, <2>7 DEF ReserveRefuses, ReserveReuses, ReserveCharges, Reserve, Goto, Refuse,
       InTransaction
  <2>8. CASE AppendAllowed(r) \/ AppendDenied(r)
    <3>1. \/ Goto(r, "allow_tx", "return_allow")
          \/ Goto(r, "deny_tx", "return_deny")
      BY <2>8 DEF AppendAllowed, AppendDenied, CommitAppend
    <3> QED
      BY <2>5, <3>1 DEF Goto, InTransaction
  <2>9. CASE AppendRaises(r)
    BY <2>5, <2>9 DEF AppendRaises, Goto, InTransaction
  <2> QED
    BY <1>2, <2>1, <2>2, <2>3, <2>4, <2>6, <2>7, <2>8, <2>9, Zenon DEF Advance
<1>3. ASSUME NEW r \in Requests, LockTimeout(r) \/ Crash(r) PROVE View(s)'
  <2>1. CASE s = r
    BY <1>0, <1>3, <2>1, NoView DEF LockTimeout, Crash, TypeOK, InTransaction
  <2>2. CASE s # r
    BY <1>0, <1>3, <2>2, ViewKept DEF LockTimeout, Crash, database, TypeOK
  <2> QED
    BY <2>1, <2>2
<1>4. CASE Tick \/ Finished \/ UNCHANGED vars
  BY <1>0, <1>4, ViewKept DEF Tick, Guard!Tick, Finished, vars, control
<1> QED
  BY <1>1, <1>2, <1>3, <1>4 DEF Next

(* The argument in one invariant: lock, views, and the types they need.    *)
THEOREM ServiceInvariant == Spec => []Inv
<1>1. Inv /\ [Next]_vars => Inv'
  BY TypeStep, LockStep, ShapesStep, ViewsStep, FiniteStep DEF Inv
<1> QED
  BY <1>1, InitInv, PTL DEF Spec

(* Every variable keeps its type, whatever the interleaving.               *)
THEOREM TypeCorrect == Spec => []TypeOK
<1>1. Inv => TypeOK
  BY DEF Inv
<1> QED
  BY <1>1, ServiceInvariant, PTL

-----------------------------------------------------------------------------
(* The ledger.  What holds of the budget for any number of concurrent      *)
(* requests, any policy and any releases: from the invariant, every step   *)
(* charges one release that is uncharged and affordable at that moment,    *)
(* reuses one that is charged, or leaves the ledger alone.                 *)

(* What reserve_budget does to the ledger, seen from one request: because  *)
(* the view of its transaction is still true, a charge is of a release     *)
(* that is uncharged and affordable NOW, and a reuse of one that is        *)
(* charged NOW.                                                            *)
Reserving(r) ==
  /\ pc[r] = "reserve_tx"
  /\ reservation[r] = None
  /\ Principal(r) \in Principals
  /\ Release(r) \in Releases

Charges(r) ==
  /\ Reserving(r)
  /\ Ledger!ReserveBudget(Principal(r), Release(r))
  /\ reservation' = [reservation EXCEPT ![r] =
       [spent |-> Ledger!Spent(Principal(r)) + EpsilonOf[Release(r)],
        newly_charged |-> TRUE]]
  /\ UNCHANGED <<request, code>>

Reuses(r) ==
  /\ Reserving(r)
  /\ Ledger!Charged(Principal(r), Release(r))
  /\ reservation' = [reservation EXCEPT ![r] =
       [spent |-> Ledger!Spent(Principal(r)), newly_charged |-> FALSE]]
  /\ UNCHANGED <<request, code, privacy_spend>>

\* Every other step leaves the ledger and all that it answered alone.
Ignores ==
  /\ UNCHANGED <<privacy_spend, reservation>>
  /\ \A r \in Requests : pc[r] # "new" => request'[r] = request[r]

(* A granted reservation charges its release or reuses it.                 *)
LEMMA GrantStep ==
  ASSUME Inv, NEW r \in Requests, ReserveReuses(r) \/ ReserveCharges(r)
  PROVE  Charges(r) \/ Reuses(r)
<1>1. pc[r] = "reserve_tx"
  BY DEF ReserveCharges, ReserveReuses, Reserve, Goto
<1>2. Reserving(r)
  BY <1>1 DEF Inv, Shapes, Shape, Planned, Unreserved, Received, Principal, Reserving
<1>3. tx[r] = [existing |-> Ledger!Charged(Principal(r), Release(r)),
               read |-> Ledger!Spent(Principal(r))]
  BY <1>1 DEF Inv, Views, View
<1>4. CASE ReserveCharges(r)
  BY <1>2, <1>3, <1>4 DEF ReserveCharges, Reserve, Charges, Ledger!ReserveBudget
<1>5. CASE ReserveReuses(r)
  BY <1>2, <1>3, <1>5 DEF ReserveReuses, Reserve, Reuses
<1> QED
  BY <1>4, <1>5

(* A step of the service charges one release, reuses one, or does neither. *)
LEMMA ReservationStep ==
  Inv /\ [Next]_vars => (\E r \in Requests : Charges(r) \/ Reuses(r)) \/ Ignores
<1> SUFFICES ASSUME Inv, [Next]_vars
             PROVE  (\E r \in Requests : Charges(r) \/ Reuses(r)) \/ Ignores
  OBVIOUS
<1>0. TypeOK
  BY DEF Inv
<1>1. ASSUME NEW r \in Requests, ReserveCharges(r) \/ ReserveReuses(r)
      PROVE  Charges(r) \/ Reuses(r)
  BY <1>1, GrantStep
<1>2. ASSUME NEW r \in Requests, Arrive(r) PROVE Ignores
  <2>1. /\ pc[r] = "new"
        /\ UNCHANGED <<privacy_spend, reservation>>
        /\ \E q : request' = [request EXCEPT ![r] = q]
    BY <1>2 DEF Arrive, Plan, RefuseEpsilon, RefusePlan, PlanRaises, Goto, Refuse, Receive,
       database
  <2> QED
    BY <1>0, <2>1 DEF Ignores, TypeOK
<1>3. ASSUME NEW r \in Requests, Advance(r), ~(ReserveCharges(r) \/ ReserveReuses(r))
      PROVE  Ignores
  <2>1. UNCHANGED <<privacy_spend, reservation, request>>
    BY <1>3 DEF Advance, ReadClock, BeginGuard, GuardRefuses, GuardCommits, BeginReserve,
       ReserveRefuses, Execute, ExecuteFails, ExecuteRaises, BeginAppend, AppendAllowed,
       AppendDenied, CommitAppend, AppendRaises, Respond, database
  <2> QED
    BY <2>1 DEF Ignores
<1>4. ASSUME \/ \E r \in Requests : LockTimeout(r) \/ Crash(r)
             \/ Tick \/ Finished \/ UNCHANGED vars
      PROVE  Ignores
  BY <1>4 DEF LockTimeout, Crash, Tick, Finished, vars, control, database, Ignores
<1> QED
  BY <1>1, <1>2, <1>3, <1>4 DEF Next

(* The transactions of concurrent requests implement the indivisible       *)
(* reserve_budget of PrivacyLedger.                                        *)
THEOREM ImplementsLedger == Spec => LedgerSpec
<1>1. Init => Ledger!Init
  BY DEF Init
<1>2. Inv /\ [Next]_vars => [Ledger!Next]_privacy_spend
  BY ReservationStep DEF Charges, Reserving, Reuses, Ignores, Ledger!Next
<1> QED
  BY <1>1, <1>2, ServiceInvariant, PTL DEF Spec, LedgerSpec, Ledger!Spec

(* One charge: the sum of its principal grows by its epsilon, to no more   *)
(* than the budget; nobody else's sum changes.                             *)
LEMMA ChargeAdds ==
  ASSUME Ledger!LedgerTypeOK, NEW p \in Principals, NEW f \in Releases,
         Ledger!ReserveBudget(p, f)
  PROVE  /\ privacy_spend' = [privacy_spend EXCEPT ![p] = @ \cup {f}]
         /\ Total[privacy_spend[p]] \in Nat
         /\ Total[privacy_spend'[p]] = Total[privacy_spend[p]] + EpsilonOf[f]
         /\ Total[privacy_spend'[p]] <= Limit + Tolerance
         /\ \A q \in Principals \ {p} : privacy_spend'[q] = privacy_spend[q]
<1>1. /\ privacy_spend' = [privacy_spend EXCEPT ![p] = @ \cup {f}]
      /\ f \notin privacy_spend[p]
      /\ Total[privacy_spend[p]] + EpsilonOf[f] <= Limit + Tolerance
  BY DEF Ledger!ReserveBudget, Ledger!Insert, Ledger!Charged, Ledger!Affordable, Ledger!Spent
<1>2. privacy_spend[p] \in SUBSET Releases
  BY DEF Ledger!LedgerTypeOK
<1>3. /\ Total[privacy_spend[p]] \in Nat
      /\ Total[privacy_spend[p] \cup {f}] = Total[privacy_spend[p]] + EpsilonOf[f]
  BY <1>1, <1>2, ServiceAssumption DEF Ledger!LedgerAssumption
<1>4. privacy_spend'[p] = privacy_spend[p] \cup {f}
  BY <1>1 DEF Ledger!LedgerTypeOK
<1>5. \A q \in Principals \ {p} : privacy_spend'[q] = privacy_spend[q]
  BY <1>1 DEF Ledger!LedgerTypeOK
<1> QED
  BY <1>1, <1>3, <1>4, <1>5

(* The abstract ledger respects the budget, whoever reserves what: a charge *)
(* that the comparison of reserve_budget lets through leaves its principal *)
(* within the budget, and the others where they are.                       *)
THEOREM LedgerBudgetRespected == LedgerSpec => []BudgetRespected
<1> DEFINE IInv == Ledger!LedgerTypeOK /\ BudgetRespected
<1>1. Ledger!Init => IInv
  BY ServiceAssumption
     DEF Ledger!Init, Ledger!LedgerTypeOK, BudgetRespected, Ledger!BudgetRespected,
         Ledger!Spent, Ledger!LedgerAssumption
<1>2. IInv /\ [Ledger!Next]_privacy_spend => IInv'
  <2> SUFFICES ASSUME IInv, [Ledger!Next]_privacy_spend PROVE IInv'
    OBVIOUS
  <2>1. ASSUME NEW p \in Principals, NEW f \in Releases, Ledger!ReserveBudget(p, f)
        PROVE  IInv'
    <3>1. Ledger!LedgerTypeOK'
      BY <2>1 DEF Ledger!LedgerTypeOK, Ledger!ReserveBudget, Ledger!Insert
    <3>2. ASSUME NEW q \in Principals PROVE Ledger!Spent(q)' <= Limit + Tolerance
      <4>1. Ledger!Spent(q) <= Limit + Tolerance
        BY DEF BudgetRespected, Ledger!BudgetRespected
      <4> QED
        BY <2>1, <4>1, ChargeAdds DEF Ledger!Spent
    <3> QED
      BY <3>1, <3>2 DEF BudgetRespected, Ledger!BudgetRespected
  <2>2. CASE UNCHANGED privacy_spend
    BY <2>2 DEF Ledger!LedgerTypeOK, BudgetRespected, Ledger!BudgetRespected, Ledger!Spent
  <2> QED
    BY <2>1, <2>2 DEF Ledger!Next
<1> QED
  BY <1>1, <1>2, PTL DEF LedgerSpec, Ledger!Spec

(* No principal is ever charged more than the budget, whatever the         *)
(* interleaving of the requests, the timeouts and the crashes: the service *)
(* inherits it from the ledger it implements.                              *)
THEOREM BudgetNeverExceeded == Spec => []BudgetRespected
BY ImplementsLedger, LedgerBudgetRespected

(* Every reservation is on the ledger; every row of the ledger was charged *)
(* by exactly one request, and was reported as charged to no other.        *)
THEOREM ChargedOnce == Spec => []ChargedExactlyOnce
<1>1. Init => ChargedExactlyOnce
  BY DEF Init, Ledger!Init, ChargedExactlyOnce, Newly, Ledger!Charged
<1>2. Inv /\ ChargedExactlyOnce /\ [Next]_vars => ChargedExactlyOnce'
  <2> SUFFICES ASSUME Inv, ChargedExactlyOnce, [Next]_vars PROVE ChargedExactlyOnce'
    OBVIOUS
  <2>0. /\ TypeOK /\ Ledger!LedgerTypeOK /\ None \notin Reservations
        /\ \A r \in Requests : reservation[r] # None =>
             /\ pc[r] # "new"
             /\ Principal(r) \in Principals /\ Release(r) \in Releases
    BY ServiceAssumption DEF Inv, TypeOK, Shapes, Shape, Unreserved, Received, Principal
  <2>1. ASSUME NEW r \in Requests, Charges(r) PROVE ChargedExactlyOnce'
    <3>1. /\ ~Ledger!Charged(Principal(r), Release(r))
          /\ reservation[r] = None
          /\ Principal(r) \in Principals /\ Release(r) \in Releases
          /\ UNCHANGED request
      BY <2>1 DEF Charges, Reserving, Ledger!ReserveBudget
    <3>2. \A p \in Principals, f \in Releases :
            Ledger!Charged(p, f)' <=>
              Ledger!Charged(p, f) \/ (p = Principal(r) /\ f = Release(r))
      BY <2>0, <2>1, <3>1 DEF Charges, Ledger!ReserveBudget, Ledger!Insert, Ledger!Charged,
         Ledger!LedgerTypeOK
    <3>3. /\ Newly(r)'
          /\ \A s \in Requests \ {r} : reservation'[s] = reservation[s]
      <4>1. /\ reservation'[r] =
                 [spent |-> Ledger!Spent(Principal(r)) + EpsilonOf[Release(r)],
                  newly_charged |-> TRUE]
            /\ \A s \in Requests \ {r} : reservation'[s] = reservation[s]
        BY <2>0, <2>1 DEF Charges, TypeOK
      <4>2. reservation'[r] \in Reservations
        BY <2>0, <3>1, <4>1, SpentTyped, EpsilonTyped DEF Reservations
      <4>3. reservation'[r] # None
        BY <2>0, <4>2
      <4>4. reservation'[r].newly_charged
        BY <4>1
      <4> QED
        BY <4>1, <4>3, <4>4 DEF Newly
    <3>4. \A s \in Requests :
            /\ Principal(s)' = Principal(s) /\ Release(s)' = Release(s)
            /\ s # r => (Newly(s)' <=> Newly(s))
      BY <3>1, <3>3 DEF Principal, Release, Newly
    <3>5. \A s \in Requests :
            reservation'[s] # None => Ledger!Charged(Principal(s), Release(s))'
      <4> SUFFICES ASSUME NEW s \in Requests, reservation'[s] # None
                   PROVE  Ledger!Charged(Principal(s), Release(s))'
        OBVIOUS
      <4>1. CASE s = r
        BY <3>1, <3>2, <3>4, <4>1 DEF Ledger!Charged
      <4>2. CASE s # r
        <5>1. Ledger!Charged(Principal(s), Release(s))
          BY <3>3, <4>2 DEF ChargedExactlyOnce
        <5>2. Principal(s) \in Principals /\ Release(s) \in Releases
          BY <2>0, <3>3, <4>2
        <5> QED
          BY <3>2, <3>4, <5>1, <5>2 DEF Ledger!Charged
      <4> QED
        BY <4>1, <4>2
    <3>6. ASSUME NEW p \in Principals, NEW f \in Releases, Ledger!Charged(p, f)'
          PROVE  \E s \in Requests : Newly(s)' /\ Principal(s)' = p /\ Release(s)' = f
      <4>1. CASE Ledger!Charged(p, f)
        <5>1. PICK s \in Requests : Newly(s) /\ Principal(s) = p /\ Release(s) = f
          BY <4>1 DEF ChargedExactlyOnce
        <5>2. s # r
          BY <3>1, <5>1 DEF Newly
        <5> QED
          BY <3>4, <5>1, <5>2
      <4>2. CASE p = Principal(r) /\ f = Release(r)
        BY <3>3, <3>4, <4>2
      <4> QED
        BY <3>2, <3>6, <4>1, <4>2
    <3>7. ASSUME NEW s \in Requests, NEW t \in Requests,
                 Newly(s)', Newly(t)', request'[s] = request'[t]
          PROVE  s = t
      <4>1. ASSUME NEW u \in Requests, u # r, Newly(u)', request[u] = request[r]
            PROVE  FALSE
        BY <3>1, <3>4, <4>1 DEF ChargedExactlyOnce, Newly, Principal, Release
      <4>2. request[s] = request[t]
        BY <3>1, <3>7
      <4>3. CASE s # r /\ t # r
        BY <3>4, <3>7, <4>2, <4>3 DEF ChargedExactlyOnce
      <4> QED
        BY <3>7, <4>1, <4>2, <4>3
    <3> QED
      BY <3>5, <3>6, <3>7 DEF ChargedExactlyOnce
  <2>2. ASSUME NEW r \in Requests, Reuses(r) PROVE ChargedExactlyOnce'
    <3>1. /\ Ledger!Charged(Principal(r), Release(r))
          /\ reservation[r] = None
          /\ UNCHANGED <<request, privacy_spend>>
      BY <2>2 DEF Reuses, Reserving
    <3>2. /\ ~reservation'[r].newly_charged
          /\ \A s \in Requests \ {r} : reservation'[s] = reservation[s]
      BY <2>0, <2>2 DEF Reuses, TypeOK
    <3>3. \A s \in Requests : Newly(s)' <=> Newly(s)
      BY <3>1, <3>2 DEF Newly
    <3>4. \A p, f : Ledger!Charged(p, f)' <=> Ledger!Charged(p, f)
      BY <3>1 DEF Ledger!Charged
    <3>5. \A s \in Requests :
            /\ Principal(s)' = Principal(s) /\ Release(s)' = Release(s)
            /\ s # r => reservation'[s] = reservation[s]
      BY <3>1, <3>2 DEF Principal, Release
    <3>6. ASSUME NEW s \in Requests, reservation'[s] # None
          PROVE  Ledger!Charged(Principal(s), Release(s))'
      <4>1. Ledger!Charged(Principal(s), Release(s))
        BY <3>1, <3>5, <3>6 DEF ChargedExactlyOnce
      <4> QED
        BY <3>1, <3>5, <4>1 DEF Ledger!Charged
    <3>7. ASSUME NEW p \in Principals, NEW f \in Releases, Ledger!Charged(p, f)'
          PROVE  \E s \in Requests : Newly(s)' /\ Principal(s)' = p /\ Release(s)' = f
      BY <3>3, <3>4, <3>5, <3>7 DEF ChargedExactlyOnce
    <3>8. ASSUME NEW s \in Requests, NEW t \in Requests,
                 Newly(s)', Newly(t)', request'[s] = request'[t]
          PROVE  s = t
      BY <3>1, <3>3, <3>8 DEF ChargedExactlyOnce
    <3> QED
      BY <3>6, <3>7, <3>8 DEF ChargedExactlyOnce
  <2>3. CASE Ignores
    <3>1. \A s \in Requests : reservation[s] # None =>
            /\ request'[s] = request[s]
            /\ Principal(s)' = Principal(s) /\ Release(s)' = Release(s)
      BY <2>0, <2>3 DEF Ignores, Principal, Release
    <3>2. \A s \in Requests : Newly(s)' <=> Newly(s)
      BY <2>3 DEF Ignores, Newly
    <3>3. ASSUME NEW s \in Requests, reservation'[s] # None
          PROVE  Ledger!Charged(Principal(s), Release(s))'
      <4>1. /\ reservation[s] # None
            /\ Ledger!Charged(Principal(s), Release(s))
        BY <2>3, <3>3 DEF Ignores, ChargedExactlyOnce
      <4> QED
        BY <2>3, <3>1, <4>1 DEF Ignores, Ledger!Charged
    <3>4. ASSUME NEW p \in Principals, NEW f \in Releases, Ledger!Charged(p, f)'
          PROVE  \E s \in Requests : Newly(s)' /\ Principal(s)' = p /\ Release(s)' = f
      <4>1. PICK s \in Requests : Newly(s) /\ Principal(s) = p /\ Release(s) = f
        BY <2>3, <3>4 DEF Ignores, ChargedExactlyOnce, Ledger!Charged
      <4> QED
        BY <3>1, <3>2, <4>1 DEF Newly
    <3>5. ASSUME NEW s \in Requests, NEW t \in Requests,
                 Newly(s)', Newly(t)', request'[s] = request'[t]
          PROVE  s = t
      BY <3>1, <3>2, <3>5 DEF Newly, ChargedExactlyOnce
    <3> QED
      BY <3>3, <3>4, <3>5 DEF ChargedExactlyOnce
  <2> QED
    BY <2>1, <2>2, <2>3, ReservationStep
<1> QED
  BY <1>1, <1>2, ServiceInvariant, PTL DEF Spec

(* What a request was told to have been spent is what was spent then, and  *)
(* the ledger only grows: no snapshot exceeds the present sum.             *)
SnapshotsPast ==
  \A r \in Requests : Newly(r) => reservation[r].spent <= Ledger!Spent(Principal(r))

(* Of two charges of one principal, the budget_spent of one request counts *)
(* that of the other and its own epsilon.                                  *)
THEOREM SnapshotsAreSerial == Spec => []SnapshotsSerial
<1> DEFINE SInv == SnapshotsPast /\ SnapshotsSerial
<1>1. Init => SInv
  BY DEF Init, SnapshotsPast, SnapshotsSerial, Newly
<1>2. Inv /\ SInv /\ [Next]_vars => SInv'
  <2> SUFFICES ASSUME Inv, SInv, [Next]_vars PROVE SInv'
    OBVIOUS
  <2>0. /\ TypeOK /\ Ledger!LedgerTypeOK /\ None \notin Reservations
        /\ \A r \in Requests : reservation[r] # None =>
             /\ pc[r] # "new"
             /\ reservation[r].spent \in Nat
             /\ Principal(r) \in Principals /\ Release(r) \in Releases
    BY ServiceAssumption DEF Inv, TypeOK, Shapes, Shape, Unreserved, Received, Principal,
       Reservations
  <2>1. ASSUME NEW r \in Requests, Charges(r) PROVE SInv'
    <3>1. /\ Principal(r) \in Principals /\ Release(r) \in Releases
          /\ UNCHANGED request
      BY <2>1 DEF Charges, Reserving
    <3>2. PICK p \in Principals : p = Principal(r)
      BY <3>1
    <3>3. PICK e \in Nat \ {0} : e = EpsilonOf[Release(r)]
      BY <3>1, EpsilonTyped
    <3>4. /\ Total[privacy_spend[p]] \in Nat
          /\ Total[privacy_spend'[p]] = Total[privacy_spend[p]] + e
          /\ \A q \in Principals \ {p} : privacy_spend'[q] = privacy_spend[q]
      BY <2>0, <2>1, <3>1, <3>2, <3>3, ChargeAdds DEF Charges
    <3>5. /\ reservation'[r].spent = Total[privacy_spend[p]] + e
          /\ \A s \in Requests \ {r} : reservation'[s] = reservation[s]
      BY <2>0, <2>1, <3>2, <3>3 DEF Charges, TypeOK, Ledger!Spent
    <3>6. \A s \in Requests :
            /\ Principal(s)' = Principal(s) /\ Release(s)' = Release(s)
            /\ s # r => (Newly(s)' <=> Newly(s))
      BY <3>1, <3>5 DEF Principal, Release, Newly
    <3>7. ASSUME NEW s \in Requests, s # r, Newly(s)'
          PROVE  /\ Principal(s) \in Principals
                 /\ reservation'[s].spent \in Nat
                 /\ reservation'[s].spent <= Total[privacy_spend[Principal(s)]]
                 /\ Total[privacy_spend[Principal(s)]] \in Nat
                 /\ EpsilonOf[Release(s)] \in Nat
      <4>1. Newly(s) /\ reservation'[s] = reservation[s]
        BY <3>5, <3>6, <3>7
      <4>2. Principal(s) \in Principals /\ Release(s) \in Releases /\ reservation[s].spent \in Nat
        BY <2>0, <4>1 DEF Newly
      <4> QED
        BY <2>0, <4>1, <4>2, SpentTyped, EpsilonTyped DEF SnapshotsPast, Ledger!Spent
    <3>8. ASSUME NEW s \in Requests, Newly(s)'
          PROVE  reservation'[s].spent <= Total[privacy_spend'[Principal(s)']]
      <4>1. CASE s = r
        BY <3>2, <3>4, <3>5, <3>6, <4>1
      <4>2. CASE s # r
        <5>1. \/ privacy_spend'[Principal(s)] = privacy_spend[Principal(s)]
              \/ Principal(s) = p
          BY <3>4, <3>7, <3>8, <4>2
        <5> QED
          BY <3>4, <3>6, <3>7, <3>8, <4>2, <5>1
      <4> QED
        BY <4>1, <4>2
    <3>9. ASSUME NEW s \in Requests, NEW t \in Requests, Newly(s)', Newly(t)', s # t,
                 Principal(s)' = Principal(t)',
                 reservation'[s].spent <= reservation'[t].spent
          PROVE  reservation'[s].spent + EpsilonOf[Release(t)'] <= reservation'[t].spent
      <4>1. CASE s # r /\ t # r
        BY <3>5, <3>6, <3>9, <4>1 DEF SnapshotsSerial
      <4>2. CASE t = r
        BY <3>2, <3>3, <3>4, <3>5, <3>6, <3>7, <3>9, <4>2
      <4>3. CASE s = r
        BY <3>2, <3>3, <3>4, <3>5, <3>6, <3>7, <3>9, <4>3
      <4> QED
        BY <4>1, <4>2, <4>3
    <3> QED
      BY <3>8, <3>9 DEF SnapshotsPast, SnapshotsSerial, Ledger!Spent, EpsilonOf, Releases
  <2>2. ASSUME \A s \in Requests :
                 /\ Newly(s)' <=> Newly(s)
                 /\ Newly(s) => /\ reservation'[s] = reservation[s]
                                /\ request'[s] = request[s],
               privacy_spend' = privacy_spend
        PROVE  SInv'
    <3>1. \A s \in Requests : Newly(s) =>
            /\ Principal(s)' = Principal(s) /\ Release(s)' = Release(s)
            /\ Ledger!Spent(Principal(s))' = Ledger!Spent(Principal(s))
      BY <2>2 DEF Principal, Release, Ledger!Spent
    <3> QED
      BY <2>2, <3>1 DEF SnapshotsPast, SnapshotsSerial
  <2>3. ASSUME NEW r \in Requests, Reuses(r) PROVE SInv'
    <3>1. /\ ~reservation'[r].newly_charged
          /\ reservation[r] = None
          /\ \A s \in Requests \ {r} : reservation'[s] = reservation[s]
          /\ UNCHANGED <<request, privacy_spend>>
      BY <2>0, <2>3 DEF Reuses, Reserving, TypeOK
    <3> QED
      BY <2>2, <3>1 DEF Newly
  <2>4. CASE Ignores
    BY <2>0, <2>2, <2>4 DEF Ignores, Newly
  <2> QED
    BY <2>1, <2>3, <2>4, ReservationStep
<1> QED
  BY <1>1, <1>2, ServiceInvariant, PTL DEF Spec

(* A request holds PRIVACY_BUDGET_EXHAUSTED only if it held it before and  *)
(* its query is still the same, or if reserve_budget refuses it now.       *)
LEMMA RefusalStep ==
  ASSUME Inv, [Next]_vars, NEW r \in Requests, code'[r] = "PRIVACY_BUDGET_EXHAUSTED"
  PROVE  \/ code[r] = "PRIVACY_BUDGET_EXHAUSTED" /\ request'[r] = request[r]
         \/ ReserveRefuses(r)
<1>0. /\ TypeOK
      /\ pc[r] = "new" => code[r] = None
      /\ None # "PRIVACY_BUDGET_EXHAUSTED"
  BY ServiceAssumption DEF Inv, Shapes, Shape, Codes
<1>1. ASSUME NEW s \in Requests, Arrive(s)
      PROVE  code[r] = "PRIVACY_BUDGET_EXHAUSTED" /\ request'[r] = request[r]
  <2>1. /\ pc[s] = "new"
        /\ \E q : request' = [request EXCEPT ![s] = q]
        /\ \/ code' = code
           \/ \E c \in {"EPSILON_TOO_LARGE", "POLICY_VIOLATION"} :
                code' = [code EXCEPT ![s] = c]
    BY <1>1 DEF Arrive, Plan, RefuseEpsilon, RefusePlan, PlanRaises, Goto, Refuse, Receive
  <2> QED
    BY <1>0, <2>1 DEF TypeOK
<1>2. ASSUME NEW s \in Requests, Advance(s), ~ReserveRefuses(s)
      PROVE  code[r] = "PRIVACY_BUDGET_EXHAUSTED" /\ request'[r] = request[r]
  <2>1. /\ request' = request
        /\ \/ code' = code
           \/ \E c \in {"DIFFERENCING_RISK", "DATASET_EXECUTION_FAILED"} :
                code' = [code EXCEPT ![s] = c]
    BY <1>2 DEF Advance, ReadClock, BeginGuard, GuardRefuses, GuardCommits, BeginReserve,
       ReserveReuses, ReserveCharges, Reserve, Execute, ExecuteFails, ExecuteRaises,
       BeginAppend, AppendAllowed, AppendDenied, CommitAppend, AppendRaises, Respond, Refuse
  <2> QED
    BY <1>0, <2>1 DEF TypeOK
<1>3. ASSUME NEW s \in Requests, ReserveRefuses(s), s # r
      PROVE  code[r] = "PRIVACY_BUDGET_EXHAUSTED" /\ request'[r] = request[r]
  BY <1>0, <1>3 DEF ReserveRefuses, Refuse, TypeOK
<1>4. ASSUME \/ \E s \in Requests : LockTimeout(s) \/ Crash(s)
             \/ Tick \/ Finished \/ UNCHANGED vars
      PROVE  code[r] = "PRIVACY_BUDGET_EXHAUSTED" /\ request'[r] = request[r]
  BY <1>4 DEF LockTimeout, Crash, Tick, Finished, vars, control
<1> QED
  BY <1>1, <1>2, <1>3, <1>4 DEF Next

(* A refusal for lack of budget is right and stays right: the release is   *)
(* never charged, and never fits, afterwards.                              *)
THEOREM RefusalsAreFinal == Spec => []RefusalFinal
<1>1. Init => RefusalFinal
  BY ServiceAssumption DEF Init, RefusalFinal, Codes
<1>2. Inv /\ RefusalFinal /\ [Next]_vars => RefusalFinal'
  <2> SUFFICES ASSUME Inv, RefusalFinal, [Next]_vars, NEW r \in Requests,
                      code'[r] = "PRIVACY_BUDGET_EXHAUSTED"
               PROVE  /\ ~Ledger!Charged(Principal(r), Release(r))'
                      /\ ~Ledger!Affordable(Ledger!Spent(Principal(r)), Release(r))'
    BY DEF RefusalFinal
  <2>0. TypeOK /\ Ledger!LedgerTypeOK
    BY DEF Inv, TypeOK
  <2> DEFINE p == Principal(r)
             f == Release(r)
  <2>1. CASE ReserveRefuses(r)
    <3>1. tx[r] = [existing |-> Ledger!Charged(p, f), read |-> Ledger!Spent(p)]
      BY <2>1 DEF ReserveRefuses, Refuse, Goto, Inv, Views, View
    <3>2. ~Ledger!Charged(p, f) /\ ~Ledger!Affordable(Ledger!Spent(p), f)
      BY <2>1, <3>1 DEF ReserveRefuses
    <3>3. UNCHANGED <<request, privacy_spend>>
      BY <2>1 DEF ReserveRefuses, database
    <3> QED
      BY <3>2, <3>3 DEF Principal, Release, Ledger!Charged, Ledger!Spent, Ledger!Affordable
  <2>2. CASE code[r] = "PRIVACY_BUDGET_EXHAUSTED" /\ request'[r] = request[r]
    <3>1. /\ p \in Principals /\ f \in Releases
          /\ p' = p /\ f' = f
          /\ ~Ledger!Charged(p, f)
          /\ ~(Ledger!Spent(p) + EpsilonOf[f] <= Limit + Tolerance)
      <4>1. pc[r] # "new"
        BY <2>2, ServiceAssumption DEF Inv, Shapes, Shape, Codes
      <4>2. p \in Principals /\ f \in Releases
        BY <2>2, <4>1 DEF Inv, Shapes, Shape, Received, Principal
      <4> QED
        BY <2>2, <4>2 DEF RefusalFinal, Principal, Release, Ledger!Affordable
    <3> HIDE DEF p, f
    <3>2. ASSUME NEW s \in Requests, Charges(s)
          PROVE  /\ ~(f \in privacy_spend'[p])
                 /\ ~(Total[privacy_spend'[p]] + EpsilonOf[f] <= Limit + Tolerance)
      <4>1. PICK q \in Principals, g \in Releases : Ledger!ReserveBudget(q, g)
        BY <3>2 DEF Charges, Reserving
      <4>2. /\ privacy_spend' = [privacy_spend EXCEPT ![q] = @ \cup {g}]
            /\ Total[privacy_spend[q]] \in Nat
            /\ Total[privacy_spend'[q]] = Total[privacy_spend[q]] + EpsilonOf[g]
            /\ Total[privacy_spend'[q]] <= Limit + Tolerance
        BY <2>0, <4>1, ChargeAdds
      <4>3. EpsilonOf[f] \in Nat /\ EpsilonOf[g] \in Nat /\ Limit \in Nat /\ Tolerance \in Nat
        BY <3>1, <4>1, EpsilonTyped, ServiceAssumption DEF Ledger!LedgerAssumption
      <4>4. /\ f \notin privacy_spend[p]
            /\ ~(Total[privacy_spend[p]] + EpsilonOf[f] <= Limit + Tolerance)
        BY <3>1 DEF Ledger!Charged, Ledger!Spent
      <4>5. CASE q = p
        <5>1. f # g
          BY <4>2, <4>4, <4>5
        <5>2. f \notin privacy_spend'[p]
          BY <2>0, <4>2, <4>4, <4>5, <5>1 DEF Ledger!LedgerTypeOK
        <5> QED
          BY <4>2, <4>3, <4>4, <4>5, <5>2
      <4>6. CASE q # p
        BY <2>0, <3>1, <4>2, <4>4, <4>6 DEF Ledger!LedgerTypeOK
      <4> QED
        BY <4>5, <4>6
    <3>3. CASE privacy_spend' = privacy_spend
      BY <3>1, <3>3 DEF p, f, Ledger!Charged, Ledger!Spent, Ledger!Affordable
    <3> QED
      BY <3>1, <3>2, <3>3, ReservationStep
         DEF p, f, Reuses, Ignores, Ledger!Charged, Ledger!Spent, Ledger!Affordable
  <2> QED
    BY <2>1, <2>2, RefusalStep
<1> QED
  BY <1>1, <1>2, ServiceInvariant, PTL DEF Spec

=============================================================================
