-------------------------- MODULE CleanRoomService --------------------------
(***************************************************************************)
(* CleanRoomService.query of service.py, run by concurrent requests (the   *)
(* API's worker threads and CLI processes) over one state database.  Each  *)
(* request goes through                                                    *)
(*                                                                         *)
(*   plan -> guard_query_variants -> reserve_budget -> execute + protect   *)
(*        -> append_audit("allowed") -> QueryResponse                      *)
(*                                                                         *)
(* and any of the four caught exceptions turns into append_audit("denied") *)
(* and its response.  An exception that query does not catch ends the      *)
(* request unaudited.  A request is answered when query returns, which is  *)
(* after the commit of its audit entry: a crash in between leaves an entry *)
(* that nobody was answered for.                                           *)
(*                                                                         *)
(* Every transaction of state.py is a BEGIN IMMEDIATE step, which takes    *)
(* SQLite's write lock and performs the reads, and a step that writes and  *)
(* commits or rolls back.  Between the two, other requests run, the lock   *)
(* wait of another request may time out, and the process may crash, which  *)
(* rolls the transaction back and releases the lock.                       *)
(***************************************************************************)
EXTENDS Integers, FiniteSets, Sequences

CONSTANTS
  Requests,         \* the calls of CleanRoomService.query
  None,             \* no value
  Principals, Variants, Structure, MaximumVariants, Window, MaxStale, MaxClock,
  Epsilons,         \* the values a request may ask for
  DefaultEpsilon,   \* policy.default_epsilon
  MaxEpsilon,       \* policy.max_epsilon_per_query
  Total, Limit, Tolerance

VARIABLES
  pc,             \* pc[r]: where request r stands
  request,        \* request[r]: its principal and its release (plan, epsilon)
  now,            \* now[r]: the local `now` of guard_query_variants, 0 outside it
  tx,             \* tx[r]: what the reads of r's open transaction returned
  reservation,    \* reservation[r]: the Reservation returned to r
  code,           \* code[r]: the reason code of the exception r caught
  audit_id,       \* audit_id[r]: the entry id that append_audit returned
  writer,         \* the request that holds the write lock, or None
  privacy_spend,  \* the three tables of the state database
  query_history,
  audit_log,
  clock

control == <<pc, request, now, tx, reservation, code, audit_id, writer>>
vars == <<control, privacy_spend, query_history, audit_log, clock>>

\* release_fingerprint: the plan's fingerprint and the epsilon.
Releases == Variants \X Epsilons
EpsilonOf == [f \in Releases |-> f[2]]

Ledger == INSTANCE PrivacyLedger WITH Epsilon <- EpsilonOf
Guard == INSTANCE VariantGuard

Principal(r) == request[r].principal
Release(r) == request[r].release
Variant(r) == Release(r)[1]

-----------------------------------------------------------------------------
\* Waiting for BEGIN IMMEDIATE; inside a transaction; recorded in the audit
\* log and about to return the response; over.
Waiting == {"guard", "reserve", "allow", "deny"}
InTransaction == {"guard_tx", "reserve_tx", "allow_tx", "deny_tx"}
Returning == {"return_allow", "return_deny"}
Answered == {"allowed", "denied"}
Over == Answered \cup {"failed", "lost"}
Steps == {"new", "clock", "execute"} \cup Waiting \cup InTransaction
         \cup Returning \cup Over

Codes == {"POLICY_VIOLATION", "EPSILON_TOO_LARGE", "DIFFERENCING_RISK",
          "PRIVACY_BUDGET_EXHAUSTED", "DATASET_EXECUTION_FAILED"}

\* What reserve_budget returns.
Reservations == [spent : Nat, newly_charged : BOOLEAN]

ASSUME ServiceAssumption ==
  /\ Epsilons \in SUBSET (Nat \ {0})
  /\ DefaultEpsilon \in Epsilons
  /\ MaxEpsilon \in Nat
  /\ None \notin Requests \cup Codes \cup Reservations
  /\ Ledger!LedgerAssumption
  /\ Guard!GuardAssumption

Entries ==
  [request : Requests, principal : Principals, outcome : Answered,
   reason : Codes \cup {"RELEASED", "STICKY_RELEASE_REUSED"}]

TypeOK ==
  /\ pc \in [Requests -> Steps]
  /\ request \in [Requests -> [principal : Principals,
                                release : Releases \cup {None}] \cup {None}]
  /\ now \in [Requests -> Nat]
  /\ tx \in [Requests -> [existing : BOOLEAN, read : Nat] \cup {None}]
  /\ reservation \in [Requests -> Reservations \cup {None}]
  /\ code \in [Requests -> Codes \cup {None}]
  /\ audit_id \in [Requests -> Nat]
  /\ writer \in Requests \cup {None}
  /\ Ledger!LedgerTypeOK
  /\ Guard!GuardTypeOK
  /\ audit_log \in Seq(Entries)

Init ==
  /\ pc = [r \in Requests |-> "new"]
  /\ request = [r \in Requests |-> None]
  /\ now = [r \in Requests |-> 0]
  /\ tx = [r \in Requests |-> None]
  /\ reservation = [r \in Requests |-> None]
  /\ code = [r \in Requests |-> None]
  /\ audit_id = [r \in Requests |-> 0]
  /\ writer = None
  /\ Ledger!Init
  /\ Guard!Init
  /\ audit_log = <<>>

Goto(r, from, to) == pc[r] = from /\ pc' = [pc EXCEPT ![r] = to]

\* Mutant: the reason code is lost.
RefuseSilently(r, from, reason) == Goto(r, from, "deny") /\ UNCHANGED code

\* The except clause: the error's code will be appended as a denial.
Refuse(r, from, reason) ==
  /\ Goto(r, from, "deny")
  /\ code' = [code EXCEPT ![r] = reason]

-----------------------------------------------------------------------------
(* SQLite's write lock.  BEGIN IMMEDIATE waits until no other connection   *)
(* holds it; COMMIT, ROLLBACK and the loss of the connection release it.   *)

\* Mutant: a plain BEGIN, which reads without waiting for the write lock.
BeginDeferred(r, from, to, reads) ==
  /\ Goto(r, from, to)
  /\ writer' = r
  /\ tx' = [tx EXCEPT ![r] = reads]

Begin(r, from, to, reads) ==
  /\ Goto(r, from, to)
  /\ writer = None
  /\ writer' = r
  /\ tx' = [tx EXCEPT ![r] = reads]

EndTransaction(r) ==
  /\ writer' = None
  /\ tx' = [tx EXCEPT ![r] = None]

database == <<privacy_spend, query_history, audit_log, clock>>

-----------------------------------------------------------------------------
(* Planning.  The policy engine keeps no state: a query is planned as some *)
(* variant, refused, or stopped by an error of the parser that plan does   *)
(* not turn into a PolicyViolation.                                        *)

\* epsilon = request.epsilon or default_epsilon
EffectiveEpsilon(e) == IF e = None THEN DefaultEpsilon ELSE e

Receive(r, p, f) ==
  request' = [request EXCEPT ![r] = [principal |-> p, release |-> f]]

Plan(r, p, v, e) ==
  /\ EffectiveEpsilon(e) <= MaxEpsilon
  /\ Goto(r, "new", "clock")
  /\ Receive(r, p, <<v, EffectiveEpsilon(e)>>)
  /\ UNCHANGED <<now, tx, reservation, code, audit_id, writer, database>>

RefuseEpsilon(r, p, e) ==
  /\ EffectiveEpsilon(e) > MaxEpsilon
  /\ Refuse(r, "new", "EPSILON_TOO_LARGE")
  /\ Receive(r, p, None)
  /\ UNCHANGED <<now, tx, reservation, audit_id, writer, database>>

RefusePlan(r, p) ==
  /\ Refuse(r, "new", "POLICY_VIOLATION")
  /\ Receive(r, p, None)
  /\ UNCHANGED <<now, tx, reservation, audit_id, writer, database>>

PlanRaises(r, p) ==
  /\ Goto(r, "new", "failed")
  /\ Receive(r, p, None)
  /\ UNCHANGED <<now, tx, reservation, code, audit_id, writer, database>>

-----------------------------------------------------------------------------
(* guard_query_variants.  `now` is read before the lock is requested; the  *)
(* DELETE is rolled back together with a refusal.                          *)

ReadClock(r) ==
  /\ Goto(r, "clock", "guard")
  /\ now' = [now EXCEPT ![r] = clock]
  /\ UNCHANGED <<request, tx, reservation, code, audit_id, writer, database>>

BeginGuard(r) ==
  LET rows == Guard!Expire(query_history, now[r]) IN
  /\ Begin(r, "guard", "guard_tx",
           [existing |-> Guard!Observed(rows, Principal(r), Variant(r)),
            read |-> Guard!CountVariants(rows, Principal(r), Variant(r))])
  /\ UNCHANGED <<request, now, reservation, code, audit_id, database>>

GuardRefuses(r) ==
  /\ Refuse(r, "guard_tx", "DIFFERENCING_RISK")
  /\ Guard!TooMany(tx[r].existing, tx[r].read)
  /\ now' = [now EXCEPT ![r] = 0]
  /\ EndTransaction(r)
  /\ UNCHANGED <<request, reservation, audit_id, database>>

\* Mutant: old rows are left out of the count but stay in the table.
GuardCommitsUnexpired(r) ==
  /\ Goto(r, "guard_tx", "reserve")
  /\ ~Guard!TooMany(tx[r].existing, tx[r].read)
  /\ query_history' = Guard!Observe(query_history, Principal(r), Variant(r), now[r])
  /\ now' = [now EXCEPT ![r] = 0]
  /\ EndTransaction(r)
  /\ UNCHANGED <<request, reservation, code, audit_id,
                 privacy_spend, audit_log, clock>>

GuardCommits(r) ==
  /\ Goto(r, "guard_tx", "reserve")
  /\ ~Guard!TooMany(tx[r].existing, tx[r].read)
  /\ query_history' = Guard!Observe(Guard!Expire(query_history, now[r]),
                                    Principal(r), Variant(r), now[r])
  /\ now' = [now EXCEPT ![r] = 0]
  /\ EndTransaction(r)
  /\ UNCHANGED <<request, reservation, code, audit_id,
                 privacy_spend, audit_log, clock>>

-----------------------------------------------------------------------------
(* reserve_budget.  The snapshot in the Reservation is what the            *)
(* transaction read, plus the epsilon it charged.                          *)

BeginReserve(r) ==
  /\ Begin(r, "reserve", "reserve_tx",
           [existing |-> Ledger!Charged(Principal(r), Release(r)),
            read |-> Ledger!Spent(Principal(r))])
  /\ UNCHANGED <<request, now, reservation, code, audit_id, database>>

Reserve(r, spent, newly_charged) ==
  /\ Goto(r, "reserve_tx", "execute")
  /\ reservation' = [reservation EXCEPT ![r] =
                       [spent |-> spent, newly_charged |-> newly_charged]]
  /\ EndTransaction(r)
  /\ UNCHANGED <<request, now, code, audit_id, query_history, audit_log, clock>>

\* Mutant: no rollback, the connection keeps the write lock.
ReserveRefusesOpen(r) ==
  /\ Refuse(r, "reserve_tx", "PRIVACY_BUDGET_EXHAUSTED")
  /\ ~tx[r].existing
  /\ ~Ledger!Affordable(tx[r].read, Release(r))
  /\ UNCHANGED <<request, now, tx, writer, reservation, audit_id, database>>

\* Mutant: a release that was charged before is not looked up first.
ReserveRefusesCharged(r) ==
  /\ Refuse(r, "reserve_tx", "PRIVACY_BUDGET_EXHAUSTED")
  /\ ~Ledger!Affordable(tx[r].read, Release(r))
  /\ EndTransaction(r)
  /\ UNCHANGED <<request, now, reservation, audit_id, database>>

ReserveRefuses(r) ==
  /\ Refuse(r, "reserve_tx", "PRIVACY_BUDGET_EXHAUSTED")
  /\ ~tx[r].existing
  /\ ~Ledger!Affordable(tx[r].read, Release(r))
  /\ EndTransaction(r)
  /\ UNCHANGED <<request, now, reservation, audit_id, database>>

ReserveReuses(r) ==
  /\ Reserve(r, tx[r].read, FALSE)
  /\ tx[r].existing
  /\ UNCHANGED privacy_spend

\* Mutant: the snapshot leaves out the charge just made.
ReserveChargesUnseen(r) ==
  /\ Reserve(r, tx[r].read, TRUE)
  /\ ~tx[r].existing
  /\ Ledger!Affordable(tx[r].read, Release(r))
  /\ Ledger!Insert(Principal(r), Release(r))

ReserveCharges(r) ==
  /\ Reserve(r, tx[r].read + EpsilonOf[Release(r)], TRUE)
  /\ ~tx[r].existing
  /\ Ledger!Affordable(tx[r].read, Release(r))
  /\ Ledger!Insert(Principal(r), Release(r))

-----------------------------------------------------------------------------
(* dataset.execute and privacy.protect write nothing.  They succeed, raise *)
(* DatasetExecutionError, or raise something query does not catch (an      *)
(* OverflowError binding a literal, a ValueError for a metric without      *)
(* bounds).                                                                *)

Execute(r) ==
  /\ Goto(r, "execute", "allow")
  /\ UNCHANGED <<request, now, tx, reservation, code, audit_id, writer, database>>

\* Mutant: a failed execution is refunded.
ExecuteFailsAndRefunds(r) ==
  /\ Refuse(r, "execute", "DATASET_EXECUTION_FAILED")
  /\ privacy_spend' = [privacy_spend EXCEPT ![Principal(r)] = @ \ {Release(r)}]
  /\ UNCHANGED <<request, now, tx, reservation, audit_id, writer,
                 query_history, audit_log, clock>>

ExecuteFails(r) ==
  /\ Refuse(r, "execute", "DATASET_EXECUTION_FAILED")
  /\ UNCHANGED <<request, now, tx, reservation, audit_id, writer, database>>

ExecuteRaises(r) ==
  /\ Goto(r, "execute", "failed")
  /\ UNCHANGED <<request, now, tx, reservation, code, audit_id, writer, database>>

-----------------------------------------------------------------------------
(* append_audit, of an allowed release or of a denial, then the response.  *)
(* The checkpoint of the log is the subject of AuditChain; here it is only *)
(* the entry count that the transaction read.                              *)

BeginAppend(r) ==
  /\ \/ Begin(r, "allow", "allow_tx", [existing |-> FALSE, read |-> Len(audit_log)])
     \/ Begin(r, "deny", "deny_tx", [existing |-> FALSE, read |-> Len(audit_log)])
  /\ UNCHANGED <<request, now, reservation, code, audit_id, database>>

CommitAppend(r, from, to, outcome, reason) ==
  /\ Goto(r, from, to)
  /\ audit_log' = Append(audit_log,
       [request |-> r, principal |-> Principal(r),
        outcome |-> outcome, reason |-> reason])
  /\ audit_id' = [audit_id EXCEPT ![r] = tx[r].read + 1]
  /\ EndTransaction(r)
  /\ UNCHANGED <<request, now, reservation, code,
                 privacy_spend, query_history, clock>>

AppendAllowed(r) ==
  CommitAppend(r, "allow_tx", "return_allow", "allowed",
    IF reservation[r].newly_charged THEN "RELEASED" ELSE "STICKY_RELEASE_REUSED")

AppendDenied(r) == CommitAppend(r, "deny_tx", "return_deny", "denied", code[r])

\* The checkpoint does not fit the log (AuditChain says when): rolled back,
\* and AuditIntegrityError leaves query.
AppendRaises(r) ==
  /\ \/ Goto(r, "allow_tx", "failed")
     \/ Goto(r, "deny_tx", "failed")
  /\ EndTransaction(r)
  /\ UNCHANGED <<request, now, reservation, code, audit_id, database>>

\* The QueryResponse is built and returned.
Respond(r) ==
  /\ \/ Goto(r, "return_allow", "allowed")
     \/ Goto(r, "return_deny", "denied")
  /\ UNCHANGED <<request, now, tx, reservation, code, audit_id, writer, database>>

-----------------------------------------------------------------------------
(* What may go wrong at any time.                                          *)

\* busy_timeout expires while another connection holds the lock: BEGIN
\* raises sqlite3.OperationalError, which query does not catch.
LockTimeout(r) ==
  /\ pc[r] \in Waiting
  /\ writer # None
  /\ pc' = [pc EXCEPT ![r] = "failed"]
  /\ now' = [now EXCEPT ![r] = 0]
  /\ UNCHANGED <<request, tx, reservation, code, audit_id, writer, database>>

\* The process of r dies; SQLite rolls its open transaction back.  What was
\* committed stays, an audit entry that no response was returned for too.
Crash(r) ==
  /\ pc[r] \notin Over \cup {"new"}
  /\ pc' = [pc EXCEPT ![r] = "lost"]
  /\ now' = [now EXCEPT ![r] = 0]
  /\ tx' = [tx EXCEPT ![r] = None]
  /\ writer' = IF writer = r THEN None ELSE writer
  /\ UNCHANGED <<request, reservation, code, audit_id, database>>

\* Bound: no request commits more than MaxStale ticks after it read `now`.
Tick ==
  /\ \A r \in Requests :
       pc[r] \in {"guard", "guard_tx"} => clock - now[r] < MaxStale
  /\ Guard!Tick
  /\ UNCHANGED <<control, privacy_spend, audit_log>>

\* Every request is over and the clock has stopped.
Finished ==
  /\ \A r \in Requests : pc[r] \in Over
  /\ clock = MaxClock
  /\ UNCHANGED vars

-----------------------------------------------------------------------------
Arrive(r) ==
  \E p \in Principals :
    \/ \E v \in Variants, e \in Epsilons \cup {None} : Plan(r, p, v, e)
    \/ \E e \in Epsilons \cup {None} : RefuseEpsilon(r, p, e)
    \/ RefusePlan(r, p)
    \/ PlanRaises(r, p)

\* The steps that the thread of r takes once it has received the query.
Advance(r) ==
  \/ ReadClock(r) \/ BeginGuard(r) \/ GuardRefuses(r) \/ GuardCommits(r)
  \/ BeginReserve(r) \/ ReserveRefuses(r) \/ ReserveReuses(r) \/ ReserveCharges(r)
  \/ Execute(r) \/ ExecuteFails(r) \/ ExecuteRaises(r)
  \/ BeginAppend(r) \/ AppendAllowed(r) \/ AppendDenied(r) \/ AppendRaises(r)
  \/ Respond(r)

Next ==
  \/ \E r \in Requests : Arrive(r) \/ Advance(r) \/ LockTimeout(r) \/ Crash(r)
  \/ Tick
  \/ Finished

\* A thread that has work keeps running, and a lock that stays free is
\* eventually obtained.  Nothing forces a query to arrive, a timeout, a
\* crash or the clock.
Fairness == \A r \in Requests : WF_vars(Advance(r))

Spec == Init /\ [][Next]_vars /\ Fairness

-----------------------------------------------------------------------------
(* Properties.                                                             *)

(* Whatever the interleaving, timeouts and crashes, what a principal has   *)
(* been charged stays within the budget (reserve_budget, "Budget race" in  *)
(* the threat model).                                                      *)
BudgetRespected == Ledger!BudgetRespected

Newly(r) == reservation[r] # None /\ reservation[r].newly_charged

(* A request that got a reservation, hence every release, is on the ledger,*)
(* and each row of the ledger was charged by one request and reported as   *)
(* newly charged to that request only; all the others reuse it.            *)
ChargedExactlyOnce ==
  /\ \A r \in Requests :
       reservation[r] # None => Ledger!Charged(Principal(r), Release(r))
  /\ \A p \in Principals, f \in Releases :
       Ledger!Charged(p, f) =>
         \E r \in Requests : Newly(r) /\ Principal(r) = p /\ Release(r) = f
  /\ \A r, s \in Requests :
       Newly(r) /\ Newly(s) /\ request[r] = request[s] => r = s

(* The budget_spent figures that concurrent requests of one principal are  *)
(* given are those of a serial execution: of two charges, the later one    *)
(* counts the earlier one and itself.                                      *)
SnapshotsSerial ==
  \A r, s \in Requests :
    /\ Newly(r) /\ Newly(s) /\ r # s
    /\ Principal(r) = Principal(s)
    /\ reservation[r].spent <= reservation[s].spent
    => reservation[r].spent + EpsilonOf[Release(s)] <= reservation[s].spent

(* A request is refused for lack of budget only if its release was not     *)
(* charged and did not fit, and that stays true: no later request of the   *)
(* principal gets the release that this one was refused.                   *)
RefusalFinal ==
  \A r \in Requests :
    code[r] = "PRIVACY_BUDGET_EXHAUSTED" =>
      /\ ~Ledger!Charged(Principal(r), Release(r))
      /\ ~Ledger!Affordable(Ledger!Spent(Principal(r)), Release(r))

\* The reason of an allowed entry: only the request that was charged is told
\* that the release is new.
ReleaseReason(r) == IF Newly(r) THEN "RELEASED" ELSE "STICKY_RELEASE_REUSED"

(* The audit_entry_id of a response is the place in the log of the one     *)
(* entry that records this request, with the decision the client was       *)
(* given.  No request is in the log twice, and an entry that nobody was    *)
(* answered for (a crash between the commit and the return) is no less     *)
(* exact: what it says is allowed has been charged, as new or as reused as *)
(* it says.                                                                *)
RepliesMatchAudit ==
  /\ \A r \in Requests :
       pc[r] \in Answered =>
         /\ audit_id[r] \in DOMAIN audit_log
         /\ audit_log[audit_id[r]].request = r
         /\ audit_log[audit_id[r]].outcome = pc[r]
  /\ \A i \in DOMAIN audit_log :
       LET entry == audit_log[i]
           r == entry.request IN
       /\ audit_id[r] = i
       /\ pc[r] \in Returning \cup Answered \cup {"lost"}
       /\ entry.principal = Principal(r)
       /\ entry.outcome = "allowed" =>
            /\ Ledger!Charged(entry.principal, Release(r))
            /\ entry.reason = ReleaseReason(r)

(* What the transactions of concurrent requests do to the tables is what   *)
(* the indivisible operations of the ledger and of the guard allow.        *)
LedgerSpec == Ledger!Spec
GuardSpec == Guard!Spec

\* The requests as their clients see them, and those that were charged.
StateAt(step) ==
  CASE step = "new" -> "idle"
    [] step \in Answered -> step
    [] step \in {"failed", "lost"} -> "dropped"
    [] OTHER -> "pending"

State == [r \in Requests |-> StateAt(pc[r])]

Payers == {r \in Requests : Newly(r)}

Questions == [principal : Principals, release : Releases \cup {None}]

Protocol == INSTANCE ReleaseProtocol WITH
  state <- State, asked <- request, payers <- Payers, log <- audit_log

(* Whatever the interleaving, the timeouts and the crashes, clients and    *)
(* auditors see what ReleaseProtocol allows: charge before entry, entry    *)
(* before answer, at most one entry of a request, the answer its outcome,  *)
(* one charge per release, and fitting reasons.                            *)
ProtocolSpec == Protocol!Spec

(* Every query that was received is eventually over: no request waits for  *)
(* the write lock for ever (a request is one query, so that from some time *)
(* on none is under way).                                                  *)
EveryQueryEnds == <>[](\A r \in Requests : pc[r] \in {"new"} \cup Over)

(* ARCHITECTURE.md: "Any failed transition -> DENIED -> append reason code *)
(* to audit chain".  The code does not: a request that was charged and     *)
(* then met an exception that query does not catch leaves no entry.        *)
FailureAudited ==
  \A r \in Requests :
    pc[r] = "failed" /\ Newly(r) =>
      \E i \in DOMAIN audit_log : audit_log[i].request = r

=============================================================================
