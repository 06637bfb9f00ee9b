-------------------------- MODULE ReleaseProtocol --------------------------
(***************************************************************************)
(* What CleanRoomService.query promises, without the ways it is kept: no   *)
(* transactions, no lock, no tables.  A request is charged at most once,   *)
(* and nobody is charged twice for one release; a decision is recorded in  *)
(* the audit log once, after the charge it rests on, and only then is the  *)
(* request answered, with the decision that was recorded; a denial says    *)
(* why, and the reason fits what was charged.  A request may be dropped at *)
(* any time, by a crash or by an error: its charge stays, and so does its  *)
(* entry, which then records an answer that nobody got.                    *)
(* CleanRoomService implements this specification.                         *)
(***************************************************************************)
EXTENDS Sequences

CONSTANTS
  Requests,
  Questions,  \* what can be asked: [principal, release]
  Codes       \* the reasons of a denial

VARIABLES
  state,  \* state[r]: "idle", "pending", "allowed", "denied" or "dropped"
  asked,  \* asked[r]: the question of a request that is not idle
  payers, \* the requests that were charged
  log     \* the audit log

vars == <<state, asked, payers, log>>

Init ==
  /\ state = [r \in Requests |-> "idle"]
  /\ payers = {}
  /\ log = <<>>

Charged(q) == \E r \in payers : asked[r] = q

Ask(r, q) ==
  /\ state[r] = "idle"
  /\ \E to \in {"pending", "dropped"} : state' = [state EXCEPT ![r] = to]
  /\ asked' = [asked EXCEPT ![r] = q]
  /\ UNCHANGED <<payers, log>>

Recorded(r) == \E i \in DOMAIN log : log[i].request = r

\* A request that may still be decided.
Undecided(r) == state[r] = "pending" /\ ~Recorded(r)

Charge(r) ==
  /\ Undecided(r) /\ ~Charged(asked[r])
  /\ payers' = payers \cup {r}
  /\ UNCHANGED <<state, asked, log>>

Record(r, outcome, reason) ==
  /\ Undecided(r)
  /\ log' = Append(log, [request |-> r, principal |-> asked[r].principal,
                         outcome |-> outcome, reason |-> reason])
  /\ UNCHANGED <<state, asked, payers>>

\* Only the request that was charged is told that the release is a new one.
Allow(r) ==
  /\ Charged(asked[r])
  /\ Record(r, "allowed", IF r \in payers THEN "RELEASED" ELSE "STICKY_RELEASE_REUSED")

\* A charged release is denied only if its execution fails, and the budget
\* is never the reason to deny a release that anybody was charged for.
Deny(r, code) ==
  /\ code = "DATASET_EXECUTION_FAILED" => Charged(asked[r])
  /\ code = "PRIVACY_BUDGET_EXHAUSTED" => ~Charged(asked[r])
  /\ r \in payers => code = "DATASET_EXECUTION_FAILED"
  /\ Record(r, "denied", code)

\* The client gets the decision that the log holds.
Answer(r) ==
  /\ state[r] = "pending"
  /\ \E i \in DOMAIN log :
       log[i].request = r /\ state' = [state EXCEPT ![r] = log[i].outcome]
  /\ UNCHANGED <<asked, payers, log>>

Drop(r) ==
  /\ state[r] = "pending"
  /\ state' = [state EXCEPT ![r] = "dropped"]
  /\ UNCHANGED <<asked, payers, log>>

Next ==
  \E r \in Requests :
    \/ \E q \in Questions : Ask(r, q)
    \/ Charge(r) \/ Allow(r) \/ Answer(r) \/ Drop(r)
    \/ \E code \in Codes : Deny(r, code)

Spec == Init /\ [][Next]_vars

=============================================================================
