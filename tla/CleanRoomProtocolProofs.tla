---------------------- MODULE CleanRoomProtocolProofs ----------------------
(***************************************************************************)
(* What the transactions of concurrent requests do to the tables of the    *)
(* query-variant guard and of the audit log, and that the service as a     *)
(* whole implements ReleaseProtocol, for any number of requests.  For the  *)
(* latter the requests that hold a newly charged reservation are the       *)
(* payers, so the ledger's rows are the questions of the payers            *)
(* (ChargedExactlyOnce); a denial's reason fits because a reservation is   *)
(* held exactly when the execution failed (Reasons), and because a release *)
(* refused for lack of budget is not charged later (RefusalFinal); an      *)
(* answer is the decision in the log because the entry of a decided        *)
(* request is the one it holds the id of (Audited).                        *)
(***************************************************************************)
EXTENDS CleanRoomServiceProofs

-----------------------------------------------------------------------------
(* The `now` of a request in the guard is a reading of the clock that is   *)
(* at most MaxStale ticks old.                                             *)
Fresh == \A r \in Requests :
  pc[r] \in {"guard", "guard_tx"} => now[r] <= clock /\ clock - now[r] <= MaxStale

(* A reading stays within the bound: the clock does not tick further while *)
(* a request that took one is in the guard.                                *)
LEMMA FreshStep == Inv /\ Fresh /\ [Next]_vars => Fresh'
<1> SUFFICES ASSUME Inv, Fresh, [Next]_vars, NEW s \in Requests,
                    pc'[s] \in {"guard", "guard_tx"}
             PROVE  now'[s] <= clock' /\ clock' - now'[s] <= MaxStale
  BY DEF Fresh
<1>0. /\ TypeOK
      /\ now[s] \in Nat /\ clock \in Nat /\ MaxStale \in Nat
      /\ pc[s] \in {"guard", "guard_tx"} => now[s] <= clock /\ clock - now[s] <= MaxStale
  BY ServiceAssumption DEF Inv, TypeOK, Guard!GuardTypeOK, Guard!GuardAssumption, Fresh
<1>1. ASSUME NEW r \in Requests, ReadClock(r)
      PROVE  now'[s] <= clock' /\ clock' - now'[s] <= MaxStale
  BY <1>0, <1>1 DEF ReadClock, Goto, database, TypeOK
<1>2. ASSUME pc[s] \in {"guard", "guard_tx"}, now'[s] = now[s], clock' = clock
      PROVE  now'[s] <= clock' /\ clock' - now'[s] <= MaxStale
  BY <1>0, <1>2
<1>3. ASSUME NEW r \in Requests, Arrive(r)
      PROVE  pc[s] \in {"guard", "guard_tx"} /\ now'[s] = now[s] /\ clock' = clock
  BY <1>0, <1>3 DEF Arrive, Plan, RefuseEpsilon, RefusePlan, PlanRaises, Goto, Refuse,
     database, TypeOK
<1>4. ASSUME NEW r \in Requests, Advance(r), ~ReadClock(r)
      PROVE  pc[s] \in {"guard", "guard_tx"} /\ now'[s] = now[s] /\ clock' = clock
  <2>1. CASE BeginGuard(r) \/ BeginReserve(r)
    BY <1>0, <2>1 DEF BeginGuard, BeginReserve, Begin, Goto, database, TypeOK
  <2>2. CASE GuardRefuses(r) \/ GuardCommits(r)
    BY <1>0, <2>2 DEF GuardRefuses, GuardCommits, Goto, Refuse, database, TypeOK
  <2>3. CASE ReserveRefuses(r) \/ ReserveReuses(r) \/ ReserveCharges(r)
    BY <1>0, <2>3 DEF ReserveRefuses, ReserveReuses, ReserveCharges, Reserve, Goto, Refuse,
       database, TypeOK
  <2>4. CASE Execute(r) \/ ExecuteFails(r) \/ ExecuteRaises(r)
    BY <1>0, <2>4 DEF Execute, ExecuteFails, ExecuteRaises, Goto, Refuse, database, TypeOK
  <2>5. CASE BeginAppend(r)
    BY <1>0, <2>5 DEF BeginAppend, Begin, Goto, database, TypeOK
  <2>6. CASE AppendAllowed(r) \/ AppendDenied(r)
    BY <1>0, <2>6 DEF AppendAllowed, AppendDenied, CommitAppend, Goto, TypeOK
  <2>7. CASE AppendRaises(r) \/ Respond(r)
    BY <1>0, <2>7 DEF AppendRaises, Respond, Goto, database, TypeOK
  <2> QED
    BY <1>4, <2>1, <2>2, <2>3, <2>4, <2>5, <2>6, <2>7, Zenon DEF Advance
<1>5. ASSUME NEW r \in Requests, LockTimeout(r) \/ Crash(r)
      PROVE  pc[s] \in {"guard", "guard_tx"} /\ now'[s] = now[s] /\ clock' = clock
  BY <1>0, <1>5 DEF LockTimeout, Crash, database, TypeOK
<1>6. CASE Tick
  BY <1>0, <1>6 DEF Tick, Guard!Tick, control
<1>7. CASE UNCHANGED vars
  BY <1>0, <1>7 DEF vars, control
<1> QED
  BY <1>1, <1>2, <1>3, <1>4, <1>5, <1>6, <1>7 DEF Next, Finished

(* The transactions of concurrent requests implement the indivisible       *)
(* guard_query_variants, taken at a reading that is at most MaxStale old.  *)
THEOREM ImplementsGuard == Spec => GuardSpec
<1>1. Init => Guard!Init /\ Fresh
  BY DEF Init, Fresh
<1>2. Inv /\ Fresh /\ [Next]_vars => [Guard!Next]_Guard!vars
  <2> SUFFICES ASSUME Inv, Fresh, [Next]_vars PROVE [Guard!Next]_Guard!vars
    OBVIOUS
  <2>1. ASSUME NEW r \in Requests, GuardCommits(r) PROVE Guard!Next
    <3>1. /\ pc[r] = "guard_tx"
          /\ Principal(r) \in Principals /\ Variant(r) \in Variants
      BY <2>1 DEF GuardCommits, Goto, Inv, Shapes, Shape, Planned, Received, Principal,
         Variant, Releases
    <3>2. now[r] \in (clock - MaxStale)..clock /\ now[r] >= 0
      BY <3>1, ServiceAssumption
         DEF Inv, TypeOK, Guard!GuardTypeOK, Guard!GuardAssumption, Fresh
    <3> DEFINE rows == Guard!Expire(query_history, now[r])
    <3>3. tx[r] = [existing |-> Guard!Observed(rows, Principal(r), Variant(r)),
                   read |-> Guard!CountVariants(rows, Principal(r), Variant(r))]
      BY <3>1 DEF Inv, Views, View
    <3> HIDE DEF rows
    <3>4. Guard!GuardQueryVariants(Principal(r), Variant(r), now[r])
      BY <2>1, <3>3 DEF rows, GuardCommits, Guard!GuardQueryVariants
    <3> QED
      BY <3>1, <3>2, <3>4 DEF Guard!Next
  <2>2. CASE Tick
    BY <2>2 DEF Tick, Guard!Next
  <2>3. (\E r \in Requests : GuardCommits(r)) \/ Tick \/ UNCHANGED Guard!vars
    BY DEF Next, Arrive, Plan, RefuseEpsilon, RefusePlan, PlanRaises, Advance, ReadClock,
       BeginGuard, GuardRefuses, BeginReserve, ReserveRefuses, ReserveReuses, ReserveCharges,
       Reserve, Execute, ExecuteFails, ExecuteRaises, BeginAppend, AppendAllowed,
       AppendDenied, CommitAppend, AppendRaises, Respond, LockTimeout, Crash, Finished, vars,
       database, Guard!vars
  <2> QED
    BY <2>1, <2>2, <2>3
<1> QED
  BY <1>1, <1>2, FreshStep, ServiceInvariant, PTL DEF Spec, GuardSpec, Guard!Spec

-----------------------------------------------------------------------------
\* A request whose decision is in the log, and one that may be.
Decided == Returning \cup Answered
Closed == Decided \cup {"lost"}

Outcome(step) == IF step \in {"return_allow", "allowed"} THEN "allowed" ELSE "denied"

\* What a decided request knows of its entry, and what an entry says of its
\* request.
Replied(r) ==
  pc[r] \in Decided =>
    /\ audit_id[r] \in DOMAIN audit_log
    /\ audit_log[audit_id[r]].request = r
    /\ audit_log[audit_id[r]].outcome = Outcome(pc[r])

Exact(entry, i) ==
  /\ audit_id[entry.request] = i
  /\ pc[entry.request] \in Closed
  /\ entry.principal = Principal(entry.request)
  /\ entry.outcome = "allowed" =>
       /\ reservation[entry.request] # None
       /\ entry.reason = ReleaseReason(entry.request)

Audited ==
  /\ \A r \in Requests : Replied(r)
  /\ \A i \in DOMAIN audit_log : Exact(audit_log[i], i)

\* The entry of r's decision is appended; an allowed one rests on a reservation.
Records(r, step, reason) ==
  /\ pc[r] \in {"allow_tx", "deny_tx"}
  /\ pc' = [pc EXCEPT ![r] = step]
  /\ audit_log' = Append(audit_log,
       [request |-> r, principal |-> Principal(r),
        outcome |-> Outcome(step), reason |-> reason])
  /\ audit_id' = [audit_id EXCEPT ![r] = Len(audit_log) + 1]
  /\ UNCHANGED <<request, reservation>>
  /\ step = "return_allow" => reservation[r] # None /\ reason = ReleaseReason(r)

\* Every other step leaves the log, the decisions and what they rest on alone.
Keeps ==
  /\ UNCHANGED <<audit_log, audit_id>>
  /\ \A r \in Requests :
       /\ pc'[r] \in Decided => pc[r] \in Decided /\ Outcome(pc'[r]) = Outcome(pc[r])
       /\ pc[r] \in Closed =>
            /\ pc'[r] \in Closed
            /\ request'[r] = request[r] /\ reservation'[r] = reservation[r]

(* A step appends the entry of one request, or keeps what is recorded.     *)
LEMMA AuditStep ==
  Inv /\ [Next]_vars =>
    (\E r \in Requests, step \in Returning : \E reason : Records(r, step, reason)) \/ Keeps
<1> DEFINE Recording ==
      \E r \in Requests, step \in Returning : \E reason : Records(r, step, reason)
<1> SUFFICES ASSUME Inv, [Next]_vars PROVE Recording \/ Keeps
  OBVIOUS
<1>0. TypeOK /\ Shapes /\ None \notin Reservations
  BY ServiceAssumption DEF Inv
<1>1. ASSUME NEW r \in Requests, AppendAllowed(r) \/ AppendDenied(r) PROVE Recording
  <2>1. ASSUME NEW from \in {"allow_tx", "deny_tx"}, NEW step \in Returning, NEW reason,
               CommitAppend(r, from, step, Outcome(step), reason),
               step = "return_allow" => reservation[r] # None /\ reason = ReleaseReason(r)
        PROVE  Records(r, step, reason)
    <3>1. pc[r] \in {"allow_tx", "deny_tx"}
      BY <2>1 DEF CommitAppend, Goto
    <3>2. tx[r].read = Len(audit_log)
      <4>1. View(r)
        BY DEF Inv, Views
      <4>2. tx[r] = [existing |-> FALSE, read |-> Len(audit_log)]
        BY <3>1, <4>1, Zenon DEF View
      <4> QED
        BY <4>2
    <3> QED
      BY <2>1, <3>1, <3>2 DEF CommitAppend, Goto, Records
  <2>2. CASE AppendAllowed(r)
    <3>1. pc[r] = "allow_tx"
      BY <2>2 DEF AppendAllowed, CommitAppend, Goto
    <3>2. reservation[r] # None
      BY <1>0, <3>1 DEF Shapes, Shape, Reserved
    <3>3. CommitAppend(r, "allow_tx", "return_allow", Outcome("return_allow"), ReleaseReason(r))
      BY <2>2, <3>2 DEF AppendAllowed, Outcome, ReleaseReason, Newly
    <3>4. Records(r, "return_allow", ReleaseReason(r))
      BY <2>1, <3>2, <3>3 DEF Returning
    <3> QED
      BY <3>4 DEF Returning
  <2>3. CASE AppendDenied(r)
    <3>1. Records(r, "return_deny", code[r])
      BY <2>1, <2>3 DEF AppendDenied, Outcome, Returning
    <3> QED
      BY <3>1 DEF Returning
  <2> QED
    BY <1>1, <2>2, <2>3
<1>2. ASSUME NEW r \in Requests, Arrive(r) PROVE Keeps
  <2>1. /\ pc[r] = "new"
        /\ UNCHANGED <<audit_log, audit_id, reservation>>
        /\ \E to \in {"clock", "deny", "failed"} : pc' = [pc EXCEPT ![r] = to]
        /\ \E q : request' = [request EXCEPT ![r] = q]
    BY <1>2 DEF Arrive, Plan, RefuseEpsilon, RefusePlan, PlanRaises, Goto, Refuse, Receive,
       database
  <2> QED
    BY <1>0, <2>1 DEF Keeps, Closed, Decided, Returning, Answered, TypeOK
<1>3. ASSUME NEW r \in Requests, Advance(r), ~(AppendAllowed(r) \/ AppendDenied(r))
      PROVE  Keeps
  <2>1. ASSUME NEW from \in Steps \ Closed, NEW to \in Steps \ Closed, Goto(r, from, to),
               UNCHANGED <<audit_log, audit_id, request>>,
               \A s \in Requests \ {r} : reservation'[s] = reservation[s]
        PROVE  Keeps
    BY <1>0, <2>1 DEF Goto, Keeps, Closed, Decided, TypeOK
  <2>2. CASE ReadClock(r) \/ BeginGuard(r) \/ BeginReserve(r)
    BY <2>1, <2>2 DEF ReadClock, BeginGuard, BeginReserve, Begin, Steps, Waiting,
       InTransaction, Closed, Decided, Returning, Answered, database
  <2>3. CASE GuardRefuses(r) \/ GuardCommits(r)
    BY <2>1, <2>3 DEF GuardRefuses, GuardCommits, Refuse, Steps, Waiting, InTransaction,
       Closed, Decided, Returning, Answered, database
  <2>4. CASE ReserveRefuses(r) \/ ReserveReuses(r) \/ ReserveCharges(r)
    <3>1. \A s \in Requests \ {r} : reservation'[s] = reservation[s]
      BY <1>0, <2>4 DEF ReserveRefuses, ReserveReuses, ReserveCharges, Reserve, TypeOK
    <3> QED
      BY <2>1, <2>4, <3>1 DEF ReserveRefuses, ReserveReuses, ReserveCharges, Reserve, Refuse,
         Steps, Waiting, InTransaction, Closed, Decided, Returning, Answered, database
  <2>5. CASE Execute(r) \/ ExecuteFails(r) \/ ExecuteRaises(r)
    BY <2>1, <2>5 DEF Execute, ExecuteFails, ExecuteRaises, Refuse, Steps, Waiting, Over,
       Closed, Decided, Returning, Answered, database
  <2>6. CASE BeginAppend(r)
    BY <2>1, <2>6 DEF BeginAppend, Begin, Steps, Waiting, InTransaction, Closed, Decided,
       Returning, Answered, database
  <2>7. CASE AppendRaises(r)
    BY <2>1, <2>7 DEF AppendRaises, Steps, InTransaction, Over, Closed, Decided, Returning,
       Answered, database
  <2>8. CASE Respond(r)
    BY <1>0, <2>8 DEF Respond, Goto, Outcome, Keeps, Closed, Decided, Returning, Answered,
       database, TypeOK
  <2> QED
    BY <1>3, <2>2, <2>3, <2>4, <2>5, <2>6, <2>7, <2>8, Zenon DEF Advance
<1>4. ASSUME NEW r \in Requests, LockTimeout(r) \/ Crash(r) PROVE Keeps
  BY <1>0, <1>4 DEF LockTimeout, Crash, Waiting, Over, Closed, Decided, Returning, Answered,
     database, Keeps, TypeOK
<1>5. CASE Tick \/ Finished \/ UNCHANGED vars
  BY <1>5 DEF Tick, Finished, vars, control, Keeps
<1> QED
  BY <1>1, <1>2, <1>3, <1>4, <1>5 DEF Next

(* The log and the requests keep agreeing: an append adds the one entry of *)
(* a request that had none, and no step touches what an entry rests on.    *)
LEMMA AuditedStep == Inv /\ Audited /\ [Next]_vars => Audited'
<1> SUFFICES ASSUME Inv, Audited, [Next]_vars PROVE Audited'
  OBVIOUS
<1>0. TypeOK /\ audit_log \in Seq(Entries)
  BY DEF Inv, TypeOK
<1>r. \A i \in DOMAIN audit_log : audit_log[i].request \in Requests
  <2>1. \A i \in DOMAIN audit_log : audit_log[i] \in Entries
    BY <1>0, ElementOfSeq
  <2> QED
    BY <2>1 DEF Entries
<1>1. ASSUME NEW r \in Requests, NEW step \in Returning, NEW reason, Records(r, step, reason)
      PROVE  Audited'
  <2> DEFINE n == Len(audit_log)
             e == [request |-> r, principal |-> Principal(r),
                   outcome |-> Outcome(step), reason |-> reason]
  <2>1. /\ e.request = r /\ e.principal = Principal(r) /\ e.outcome = Outcome(step)
        /\ e.reason = reason
        /\ audit_log' = Append(audit_log, e)
        /\ e.outcome = "allowed" => reservation[r] # None /\ reason = ReleaseReason(r)
    BY <1>1 DEF Records, Outcome, Returning
  <2> HIDE DEF e
  <2>2. /\ n \in Nat /\ DOMAIN audit_log = 1..n
        /\ DOMAIN audit_log' = 1..(n + 1)
        /\ audit_log'[n + 1] = e
        /\ \A i \in 1..n : audit_log'[i] = audit_log[i]
    BY <1>0, <2>1, LenProperties, AppendProperties
  <2>3. /\ pc[r] \notin Closed
        /\ pc'[r] = step /\ audit_id'[r] = n + 1
        /\ \A s \in Requests \ {r} : pc'[s] = pc[s] /\ audit_id'[s] = audit_id[s]
        /\ UNCHANGED <<request, reservation>>
    BY <1>0, <1>1 DEF Records, TypeOK, Closed, Decided, Returning, Answered
  <2>4. ASSUME NEW s \in Requests PROVE Replied(s)'
    <3>1. CASE s = r
      BY <2>1, <2>2, <2>3, <3>1 DEF Replied
    <3>2. CASE s # r
      BY <2>2, <2>3, <3>2 DEF Audited, Replied
    <3> QED
      BY <3>1, <3>2
  <2>5. ASSUME NEW i \in DOMAIN audit_log' PROVE Exact(audit_log[i], i)'
    <3>1. CASE i = n + 1
      <4>1. step \in Closed
        BY DEF Closed, Decided
      <4> QED
        BY <2>1, <2>2, <2>3, <3>1, <4>1 DEF Exact, Principal, ReleaseReason, Newly
    <3>2. CASE i \in 1..n
      <4>1. Exact(audit_log[i], i) /\ audit_log[i].request \in Requests \ {r}
        BY <1>r, <2>2, <2>3, <3>2 DEF Audited, Exact
      <4> QED
        BY <2>2, <2>3, <3>2, <4>1 DEF Exact, Principal, ReleaseReason, Newly
    <3> QED
      BY <2>2, <3>1, <3>2
  <2> QED
    BY <2>4, <2>5 DEF Audited
<1>2. CASE Keeps
  <2>1. \A s \in Requests : Replied(s)'
    BY <1>2 DEF Keeps, Audited, Replied
  <2>2. ASSUME NEW i \in DOMAIN audit_log PROVE Exact(audit_log[i], i)'
    BY <1>2, <1>r DEF Keeps, Audited, Exact, Principal, ReleaseReason, Newly
  <2> QED
    BY <1>2, <2>1, <2>2 DEF Audited, Keeps
<1> QED
  BY <1>1, <1>2, AuditStep

(* The log and the requests agree in every state.                         *)
LEMMA AuditedInvariant == Spec => []Audited
<1>1. Init => Audited
  BY DEF Init, Audited, Replied, Decided, Returning, Answered
<1> QED
  BY <1>1, AuditedStep, ServiceInvariant, PTL DEF Spec

(* Every answer names the one entry of the log that records its request    *)
(* and its decision; no request has two; and an entry says the truth of    *)
(* what was charged, also when a crash left its request without an answer. *)
THEOREM RepliesAreAudited == Spec => []RepliesMatchAudit
<1>1. Inv /\ Audited /\ ChargedExactlyOnce => RepliesMatchAudit
  <2> SUFFICES ASSUME Inv, Audited, ChargedExactlyOnce PROVE RepliesMatchAudit
    OBVIOUS
  <2>1. \A i \in DOMAIN audit_log : audit_log[i].request \in Requests
    <3>1. \A i \in DOMAIN audit_log : audit_log[i] \in Entries
      BY ElementOfSeq DEF Inv, TypeOK
    <3> QED
      BY <3>1 DEF Entries
  <2>2. ASSUME NEW r \in Requests, pc[r] \in Answered
        PROVE  /\ audit_id[r] \in DOMAIN audit_log
               /\ audit_log[audit_id[r]].request = r
               /\ audit_log[audit_id[r]].outcome = pc[r]
    BY <2>2 DEF Audited, Replied, Decided, Answered, Outcome
  <2>3. ASSUME NEW i \in DOMAIN audit_log
        PROVE  LET entry == audit_log[i]
                   r == entry.request IN
               /\ audit_id[r] = i
               /\ pc[r] \in Returning \cup Answered \cup {"lost"}
               /\ entry.principal = Principal(r)
               /\ entry.outcome = "allowed" =>
                    /\ Ledger!Charged(entry.principal, Release(r))
                    /\ entry.reason = ReleaseReason(r)
    BY <2>1 DEF Audited, Exact, Closed, Decided, ChargedExactlyOnce
  <2> QED
    BY <2>2, <2>3 DEF RepliesMatchAudit
<1> QED
  BY <1>1, AuditedInvariant, ServiceInvariant, ChargedOnce, PTL

-----------------------------------------------------------------------------
\* A request that will be denied holds a reservation if and only if it was
\* the execution that failed.
Reasons ==
  \A r \in Requests :
    pc[r] \in {"deny", "deny_tx"} =>
      (reservation[r] # None <=> code[r] = "DATASET_EXECUTION_FAILED")

LEMMA InitReasons == Init => Reasons
BY DEF Init, Reasons

(* The errors before reserve_budget granted anything have other codes than *)
(* the one of execute.                                                     *)
LEMMA ReasonsStep == Inv /\ Reasons /\ [Next]_vars => Reasons'
<1> SUFFICES ASSUME Inv, Reasons, [Next]_vars PROVE Reasons'
  OBVIOUS
<1>0. TypeOK /\ Shapes /\ None \notin Reservations
  BY ServiceAssumption DEF Inv
<1>1. ASSUME NEW r \in Requests, Arrive(r) PROVE Reasons'
  BY <1>0, <1>1 DEF Arrive, Plan, RefuseEpsilon, RefusePlan, PlanRaises, Goto, Refuse,
     Reasons, TypeOK, Shapes, Shape, Unreserved
<1>2. ASSUME NEW r \in Requests, Advance(r) PROVE Reasons'
  <2>1. CASE ReadClock(r) \/ BeginGuard(r) \/ BeginReserve(r) \/ BeginAppend(r)
    BY <1>0, <2>1 DEF ReadClock, BeginGuard, BeginReserve, BeginAppend, Begin, Goto,
       Reasons, TypeOK
  <2>2. CASE GuardRefuses(r) \/ ReserveRefuses(r)
    BY <1>0, <2>2 DEF GuardRefuses, ReserveRefuses, Refuse, Goto, Reasons, TypeOK,
       Shapes, Shape, Unreserved
  <2>3. CASE GuardCommits(r) \/ Execute(r) \/ ExecuteRaises(r)
    BY <1>0, <2>3 DEF GuardCommits, Execute, ExecuteRaises, Goto, Reasons, TypeOK
  <2>4. CASE ReserveReuses(r) \/ ReserveCharges(r)
    BY <1>0, <2>4 DEF ReserveReuses, ReserveCharges, Reserve, Goto, Reasons, TypeOK
  <2>5. CASE ExecuteFails(r)
    BY <1>0, <2>5 DEF ExecuteFails, Refuse, Goto, Reasons, TypeOK, Shapes, Shape, Reserved
  <2>6. CASE AppendAllowed(r) \/ AppendDenied(r) \/ AppendRaises(r) \/ Respond(r)
    BY <1>0, <2>6 DEF AppendAllowed, AppendDenied, AppendRaises, CommitAppend, Respond, Goto,
       Reasons, TypeOK
  <2> QED
    BY <1>2, <2>1, <2>2, <2>3, <2>4, <2>5, <2>6, Zenon DEF Advance
<1>3. ASSUME NEW r \in Requests, LockTimeout(r) \/ Crash(r) PROVE Reasons'
  BY <1>0, <1>3 DEF LockTimeout, Crash, Reasons, TypeOK
<1>4. CASE Tick \/ Finished \/ UNCHANGED vars
  BY <1>4 DEF Tick, Finished, vars, control, Reasons
<1> QED
  BY <1>1, <1>2, <1>3, <1>4 DEF Next

-----------------------------------------------------------------------------
(* The rows of the ledger are the questions of the payers.                 *)
LEMMA ChargedByPayer ==
  ASSUME Inv, ChargedExactlyOnce, NEW r \in Requests,
         pc[r] # "new", Release(r) \in Releases
  PROVE  Protocol!Charged(request[r]) <=> Ledger!Charged(Principal(r), Release(r))
<1>1. request[r] \in Questions /\ Principal(r) \in Principals
  BY DEF Inv, Shapes, Shape, Received, Questions, Principal
<1>2. ASSUME Protocol!Charged(request[r])
      PROVE  Ledger!Charged(Principal(r), Release(r))
  BY <1>2 DEF Protocol!Charged, Payers, Newly, ChargedExactlyOnce, Principal, Release
<1>3. ASSUME Ledger!Charged(Principal(r), Release(r))
      PROVE  Protocol!Charged(request[r])
  <2>1. PICK s \in Requests :
          Newly(s) /\ Principal(s) = Principal(r) /\ Release(s) = Release(r)
    BY <1>1, <1>3 DEF ChargedExactlyOnce
  <2>2. request[s] \in Questions
    BY <2>1 DEF Newly, Inv, Shapes, Shape, Unreserved, Received, Questions
  <2>3. request[s] = request[r]
    BY <1>1, <2>1, <2>2 DEF Questions, Principal, Release
  <2> QED
    BY <2>1, <2>3 DEF Protocol!Charged, Payers
<1> QED
  BY <1>2, <1>3

(* A step of one request is seen as a step of that request.                *)
LEMMA MoveSeen ==
  ASSUME TypeOK, NEW r \in Requests, NEW to, pc' = [pc EXCEPT ![r] = to]
  PROVE  State' = [State EXCEPT ![r] = StateAt(to)]
BY DEF TypeOK, State

(* What a client sees of a request, by where the request stands.           *)
LEMMA Seen ==
  /\ StateAt("new") = "idle"
  /\ \A step \in Answered : StateAt(step) = step
  /\ \A step \in {"failed", "lost"} : StateAt(step) = "dropped"
  /\ \A step \in Steps \ (Over \cup {"new"}) : StateAt(step) = "pending"
<1>1. StateAt("new") = "idle"
  BY DEF StateAt, Answered
<1>2. \A step \in Answered : StateAt(step) = step
  BY DEF StateAt, Answered
<1>3. \A step \in {"failed", "lost"} : StateAt(step) = "dropped"
  BY DEF StateAt, Answered
<1>4. \A step \in Steps \ (Over \cup {"new"}) : StateAt(step) = "pending"
  BY DEF StateAt, Steps, Over, Answered
<1> QED
  BY <1>1, <1>2, <1>3, <1>4

(* The log records a request if and only if its decision was appended.     *)
LEMMA RecordedRequests ==
  ASSUME Audited, NEW r \in Requests
  PROVE  /\ pc[r] \notin Closed => ~Protocol!Recorded(r)
         /\ pc[r] \in Decided =>
              \E i \in DOMAIN audit_log :
                audit_log[i].request = r /\ audit_log[i].outcome = Outcome(pc[r])
BY DEF Audited, Exact, Replied, Protocol!Recorded

(* A step that the clients do not see.                                     *)
LEMMA Unseen ==
  ASSUME TypeOK, NEW r \in Requests, NEW to,
         pc' = [pc EXCEPT ![r] = to],
         pc[r] \notin Over \cup {"new"}, to \in Steps \ (Over \cup {"new"}),
         UNCHANGED <<request, reservation, audit_log>>
  PROVE  UNCHANGED Protocol!vars
<1>1. StateAt(pc[r]) = StateAt(to)
  BY Seen DEF TypeOK
<1>2. State' = State
  BY <1>1 DEF TypeOK, State
<1>3. Payers' = Payers
  BY DEF Payers, Newly
<1> QED
  BY <1>2, <1>3 DEF Protocol!vars

(* Every step of the service is a step of the protocol, or is not seen.    *)
LEMMA ProtocolStep ==
  Inv /\ ChargedExactlyOnce /\ RefusalFinal /\ Reasons /\ Audited /\ [Next]_vars
    => [Protocol!Next]_Protocol!vars
<1> SUFFICES ASSUME Inv, ChargedExactlyOnce, RefusalFinal, Reasons, Audited, [Next]_vars
             PROVE  [Protocol!Next]_Protocol!vars
  OBVIOUS
<1>0. /\ TypeOK /\ Shapes /\ None \notin Reservations
      /\ pc \in [Requests -> Steps]
  BY ServiceAssumption DEF Inv, TypeOK
<1>1. ASSUME NEW r \in Requests, Arrive(r) PROVE Protocol!Next
  <2>1. PICK q \in Questions : request' = [request EXCEPT ![r] = q]
    <3>1. ASSUME NEW p \in Principals, NEW v \in Variants, NEW e \in Epsilons \cup {None},
                 Plan(r, p, v, e)
          PROVE  \E q \in Questions : request' = [request EXCEPT ![r] = q]
      <4>1. <<v, EffectiveEpsilon(e)>> \in Releases
        BY ServiceAssumption DEF EffectiveEpsilon, Releases
      <4> QED
        BY <3>1, <4>1 DEF Plan, Receive, Questions
    <3> QED
      BY <1>1, <3>1 DEF Arrive, RefuseEpsilon, RefusePlan, PlanRaises, Receive, Questions
  <2>2. PICK to \in {"clock", "deny", "failed"} : pc[r] = "new" /\ pc' = [pc EXCEPT ![r] = to]
    BY <1>1 DEF Arrive, Plan, RefuseEpsilon, RefusePlan, PlanRaises, Goto, Refuse
  <2>3. UNCHANGED <<reservation, audit_log>>
    BY <1>1 DEF Arrive, Plan, RefuseEpsilon, RefusePlan, PlanRaises, database
  <2>4. State[r] = "idle" /\ State'[r] \in {"pending", "dropped"}
    BY <1>0, <2>2, Seen DEF State, Steps, Waiting, Over, Answered
  <2>5. State' = [State EXCEPT ![r] = State'[r]]
    BY <1>0, <2>2, MoveSeen DEF State
  <2>6. Payers' = Payers
    BY <2>3 DEF Payers, Newly
  <2>7. Protocol!Ask(r, q)
    BY <2>1, <2>3, <2>4, <2>5, <2>6 DEF Protocol!Ask
  <2> QED
    BY <2>7 DEF Protocol!Next
<1>2. ASSUME NEW r \in Requests, Charges(r), pc' = [pc EXCEPT ![r] = "execute"],
             audit_log' = audit_log
      PROVE  Protocol!Next
  <2>1. State[r] = "pending" /\ State' = State
    BY <1>0, <1>2, Seen DEF Charges, Reserving, State, Steps, Over, Answered
  <2>2. ~Protocol!Charged(request[r])
    BY <1>2, ChargedByPayer DEF Charges, Reserving, Ledger!ReserveBudget
  <2>3. Payers' = Payers \cup {r}
    <3>1. reservation'[r] \in Reservations /\ reservation'[r].newly_charged
      BY <1>0, <1>2, SpentTyped, EpsilonTyped DEF Charges, Reserving, Reservations, TypeOK
    <3>2. \A s \in Requests \ {r} : reservation'[s] = reservation[s]
      BY <1>0, <1>2 DEF Charges, TypeOK
    <3> QED
      BY <1>0, <3>1, <3>2 DEF Payers, Newly
  <2>4. ~Protocol!Recorded(r)
    BY <1>2, RecordedRequests DEF Charges, Reserving, Closed, Decided, Returning, Answered
  <2>5. Protocol!Charge(r)
    BY <1>2, <2>1, <2>2, <2>3, <2>4 DEF Protocol!Charge, Protocol!Undecided, Charges
  <2> QED
    BY <2>5 DEF Protocol!Next
<1>3. ASSUME NEW r \in Requests, Reuses(r), pc' = [pc EXCEPT ![r] = "execute"],
             audit_log' = audit_log
      PROVE  UNCHANGED Protocol!vars
  <2>1. State' = State
    BY <1>0, <1>3, Seen DEF Reuses, Reserving, State, Steps, Over, Answered
  <2>2. Payers' = Payers
    BY <1>0, <1>3 DEF Reuses, Reserving, Payers, Newly, TypeOK
  <2> QED
    BY <1>3, <2>1, <2>2 DEF Reuses, Protocol!vars
<1>4. ASSUME NEW r \in Requests, NEW from \in {"allow_tx", "deny_tx"}, NEW to \in Returning,
             NEW outcome, NEW reason, CommitAppend(r, from, to, outcome, reason)
      PROVE  Protocol!Record(r, outcome, reason)
  <2>1. State[r] = "pending" /\ State' = State
    BY <1>0, <1>4, Seen
       DEF CommitAppend, Goto, State, Steps, InTransaction, Returning, Over, Answered
  <2>2. Payers' = Payers
    BY <1>4 DEF CommitAppend, Payers, Newly
  <2>3. ~Protocol!Recorded(r)
    BY <1>4, RecordedRequests DEF CommitAppend, Goto, Closed, Decided, Returning, Answered
  <2> QED
    BY <1>4, <2>1, <2>2, <2>3
       DEF CommitAppend, Protocol!Record, Protocol!Undecided, Principal
<1>5. ASSUME NEW r \in Requests, AppendAllowed(r) PROVE Protocol!Next
  <2>1. pc[r] = "allow_tx"
    BY <1>5 DEF AppendAllowed, CommitAppend, Goto
  <2>2. /\ reservation[r] # None
        /\ Release(r) \in Releases
        /\ r \in Payers <=> reservation[r].newly_charged
    BY <1>0, <2>1 DEF Shapes, Shape, Planned, Reserved, Payers, Newly
  <2>3. Protocol!Charged(request[r])
    BY <2>1, <2>2, ChargedByPayer DEF ChargedExactlyOnce
  <2>4. Protocol!Record(r, "allowed",
          IF r \in Payers THEN "RELEASED" ELSE "STICKY_RELEASE_REUSED")
    BY <1>4, <1>5, <2>2 DEF AppendAllowed, Returning
  <2>5. Protocol!Allow(r)
    BY <2>3, <2>4 DEF Protocol!Allow
  <2> QED
    BY <2>5 DEF Protocol!Next
<1>6. ASSUME NEW r \in Requests, AppendDenied(r) PROVE Protocol!Next
  <2>1. pc[r] = "deny_tx"
    BY <1>6 DEF AppendDenied, CommitAppend, Goto
  <2>2. /\ code[r] \in Codes
        /\ reservation[r] # None <=> code[r] = "DATASET_EXECUTION_FAILED"
        /\ reservation[r] # None => Release(r) \in Releases
        /\ code[r] = "PRIVACY_BUDGET_EXHAUSTED" => Release(r) \in Releases
    BY <1>0, <2>1 DEF Shapes, Shape, Reasons
  <2>3. code[r] = "DATASET_EXECUTION_FAILED" => Protocol!Charged(request[r])
    BY <2>1, <2>2, ChargedByPayer DEF ChargedExactlyOnce
  <2>4. code[r] = "PRIVACY_BUDGET_EXHAUSTED" => ~Protocol!Charged(request[r])
    BY <2>1, <2>2, ChargedByPayer DEF RefusalFinal
  <2>5. r \in Payers => code[r] = "DATASET_EXECUTION_FAILED"
    BY <2>2 DEF Payers, Newly
  <2>6. Protocol!Record(r, "denied", code[r])
    BY <1>4, <1>6 DEF AppendDenied, Returning
  <2>7. Protocol!Deny(r, code[r])
    BY <2>3, <2>4, <2>5, <2>6 DEF Protocol!Deny
  <2> QED
    BY <2>2, <2>7 DEF Protocol!Next
<1>7. ASSUME NEW r \in Requests, NEW to \in {"failed", "lost"}, pc' = [pc EXCEPT ![r] = to],
             pc[r] \notin Over \cup {"new"}, UNCHANGED <<request, reservation, audit_log>>
      PROVE  Protocol!Next
  <2>1. /\ State[r] = "pending"
        /\ State' = [State EXCEPT ![r] = "dropped"]
    BY <1>0, <1>7, MoveSeen, Seen DEF State
  <2>2. Payers' = Payers
    BY <1>7 DEF Payers, Newly
  <2>3. Protocol!Drop(r)
    BY <1>7, <2>1, <2>2 DEF Protocol!Drop
  <2> QED
    BY <2>3 DEF Protocol!Next
<1>r. ASSUME NEW r \in Requests, Respond(r) PROVE Protocol!Next
  <2>1. PICK to \in Answered :
          /\ pc[r] \in Returning /\ Outcome(pc[r]) = to
          /\ pc' = [pc EXCEPT ![r] = to]
    BY <1>r DEF Respond, Goto, Outcome, Returning, Answered
  <2>2. /\ State[r] = "pending"
        /\ State' = [State EXCEPT ![r] = to]
    BY <1>0, <2>1, MoveSeen, Seen DEF State, Steps, Returning, Over, Answered
  <2>3. UNCHANGED <<request, reservation, audit_log>>
    BY <1>r DEF Respond, database
  <2>4. Payers' = Payers
    BY <2>3 DEF Payers, Newly
  <2>5. \E i \in DOMAIN audit_log :
          audit_log[i].request = r /\ audit_log[i].outcome = to
    BY <2>1, RecordedRequests DEF Decided
  <2>6. Protocol!Answer(r)
    BY <2>2, <2>3, <2>4, <2>5 DEF Protocol!Answer
  <2> QED
    BY <2>6 DEF Protocol!Next
<1>8. ASSUME NEW r \in Requests, Advance(r) PROVE [Protocol!Next]_Protocol!vars
  <2>1. CASE ReadClock(r) \/ BeginGuard(r) \/ BeginReserve(r)
    BY <1>0, <2>1, Unseen DEF ReadClock, BeginGuard, BeginReserve, Begin, Goto, database,
       Steps, Waiting, InTransaction, Over, Answered
  <2>2. CASE GuardRefuses(r) \/ GuardCommits(r) \/ ReserveRefuses(r)
    BY <1>0, <2>2, Unseen DEF GuardRefuses, GuardCommits, ReserveRefuses, Refuse, Goto,
       database, Steps, Waiting, InTransaction, Over, Answered
  <2>3. CASE Execute(r) \/ ExecuteFails(r) \/ BeginAppend(r)
    BY <1>0, <2>3, Unseen DEF Execute, ExecuteFails, BeginAppend, Begin, Refuse, Goto,
       database, Steps, Waiting, InTransaction, Over, Answered
  <2>4. CASE ExecuteRaises(r) \/ AppendRaises(r)
    BY <1>7, <2>4 DEF ExecuteRaises, AppendRaises, Goto, database, Over, Answered
  <2>5. CASE ReserveReuses(r) \/ ReserveCharges(r)
    <3>1. pc' = [pc EXCEPT ![r] = "execute"] /\ audit_log' = audit_log
      BY <2>5 DEF ReserveReuses, ReserveCharges, Reserve, Goto
    <3>2. Charges(r) \/ Reuses(r)
      BY <2>5, GrantStep
    <3> QED
      BY <1>2, <1>3, <3>1, <3>2
  <2>6. CASE AppendAllowed(r) \/ AppendDenied(r) \/ Respond(r)
    BY <1>5, <1>6, <1>r, <2>6
  <2> QED
    BY <1>8, <2>1, <2>2, <2>3, <2>4, <2>5, <2>6, Zenon DEF Advance
<1>9. ASSUME NEW r \in Requests, LockTimeout(r) \/ Crash(r) PROVE Protocol!Next
  BY <1>7, <1>9 DEF LockTimeout, Crash, Waiting, Over, Answered, database
<1>10. CASE Tick \/ Finished \/ UNCHANGED vars
  <2>1. UNCHANGED <<pc, request, reservation, audit_log>>
    BY <1>10 DEF Tick, Finished, vars, control
  <2>2. State' = State /\ Payers' = Payers
    BY <2>1 DEF State, Payers, Newly
  <2> QED
    BY <2>1, <2>2 DEF Protocol!vars
<1> QED
  BY <1>1, <1>8, <1>9, <1>10 DEF Next

(* Clients and auditors of the concurrent service see what the protocol    *)
(* allows.                                                                 *)
THEOREM ImplementsProtocol == Spec => ProtocolSpec
<1>1. Init => Protocol!Init
  BY Seen DEF Init, Protocol!Init, State, Payers, Newly
<1>2. Spec => []Reasons
  BY InitReasons, ReasonsStep, ServiceInvariant, PTL DEF Spec
<1> QED
  BY <1>1, <1>2, ProtocolStep, ServiceInvariant, ChargedOnce, RefusalsAreFinal,
     AuditedInvariant, PTL
     DEF Spec, ProtocolSpec, Protocol!Spec

=============================================================================
