----------------------------- MODULE AuditChain -----------------------------
(***************************************************************************)
(* The HMAC-linked audit log of state.py and its authenticated checkpoint, *)
(* as several processes (API server, CLI runs) use one state database:     *)
(* StateStore._initialize statement by statement, append_audit, and        *)
(* verify_audit with its two separate reads; processes that crash and are  *)
(* started again; and damage to the stored rows as tests/test_state.py     *)
(* inflicts it.                                                            *)
(*                                                                         *)
(* An HMAC is modelled by the tuple it authenticates: equal exactly when   *)
(* key and contents are equal, and never produced by damage.               *)
(***************************************************************************)
EXTENDS Integers, Sequences, FiniteSets

CONSTANTS
  Processes,   \* the processes that open the state database
  Payloads,    \* the contents of an entry besides id and previous_hash
  None,        \* no value
  MaxEntries,  \* bound: entries ever appended
  MaxDamage    \* bound: damaged rows

ASSUME ChainAssumption ==
  /\ None \notin Payloads
  /\ MaxEntries \in Nat
  /\ MaxDamage \in Nat

VARIABLES
  user_version,  \* PRAGMA user_version
  tables,        \* the tables exist
  has_version,   \* privacy_spend has its dataset_version column
  audit_log,     \* the rows of audit_log in the order of their ids
  audit_checkpoint,  \* its rows: one, or none
  pc,            \* where each process stands
  prior,         \* prior[p]: the local prior_schema_version
  entries,       \* entries[p]: the rows that p fetched last
  verdict,       \* verdict[p]: the result of p's last verify_audit
  journal,       \* history: the payloads the checkpoint has vouched for
  since,         \* history: the length of journal when p began to verify
  established,   \* history: how often a first checkpoint was inserted
  damage         \* number of damaged rows

database == <<user_version, tables, has_version, audit_log, audit_checkpoint>>
history == <<journal, since, established, damage>>
vars == <<database, pc, prior, entries, verdict, history>>

SchemaVersion == 2
ZeroHash == <<>>

EntryHash(id, payload, previous) == <<id, payload, previous>>
CheckpointHmac(count, head) == <<count, head>>

Entry(id, payload, previous) ==
  [id |-> id, payload |-> payload, previous_hash |-> previous,
   entry_hash |-> EntryHash(id, payload, previous)]

Checkpoint(count, head) ==
  [entry_count |-> count, head_hash |-> head,
   checkpoint_hmac |-> CheckpointHmac(count, head)]

\* The hash that the entry after row i must link to.
HashAt(rows, i) == IF i = 0 THEN ZeroHash ELSE rows[i].entry_hash

HeadHash(rows) == HashAt(rows, Len(rows))

-----------------------------------------------------------------------------
(* _verify_entries: row i links to its predecessor and carries its HMAC.   *)

\* Mutant: the HMAC of a row is not recomputed.
SoundUnkeyed(rows, i) ==
  /\ rows[i].id = i
  /\ rows[i].previous_hash = HashAt(rows, i - 1)

Sound(rows, i) ==
  /\ rows[i].id = i
  /\ rows[i].previous_hash = HashAt(rows, i - 1)
  /\ rows[i].entry_hash =
       EntryHash(rows[i].id, rows[i].payload, rows[i].previous_hash)

AllSound(rows) == \A i \in DOMAIN rows : Sound(rows, i)

FirstUnsound(rows) ==
  CHOOSE i \in DOMAIN rows :
    ~Sound(rows, i) /\ \A j \in 1..(i - 1) : Sound(rows, j)

Result(valid, checked, first_invalid) ==
  [valid |-> valid, entries_checked |-> checked, first_invalid_entry |-> first_invalid]

Authentic(cp) == cp.checkpoint_hmac = CheckpointHmac(cp.entry_count, cp.head_hash)

\* The verdict of verify_audit on the rows of the two tables that it fetched.
Verify(rows, checkpoints) ==
  LET cp == CHOOSE c \in checkpoints : TRUE IN
  CASE checkpoints = {} \/ ~Authentic(cp) -> Result(FALSE, 0, None)
    [] OTHER ->
         IF ~AllSound(rows)
         THEN Result(FALSE, FirstUnsound(rows) - 1, rows[FirstUnsound(rows)].id)
         ELSE IF Len(rows) # cp.entry_count
         THEN Result(FALSE, Len(rows), Len(rows) + 1)
         ELSE IF HeadHash(rows) # cp.head_hash
         THEN Result(FALSE, Len(rows), IF cp.entry_count = 0 THEN None ELSE cp.entry_count)
         ELSE Result(TRUE, Len(rows), None)

PayloadsOf(rows) == [i \in DOMAIN rows |-> rows[i].payload]

TailId(rows) == IF rows = <<>> THEN 0 ELSE rows[Len(rows)].id

\* Mutant: the checkpoint is authenticated but not compared with the log.
AppendableUnanchored(rows, cp) == Authentic(cp)

\* append_audit goes on only if the checkpoint is authentic and names the last
\* row.
Appendable(rows, cp) ==
  /\ Authentic(cp)
  /\ TailId(rows) = cp.entry_count
  /\ HeadHash(rows) = cp.head_hash

-----------------------------------------------------------------------------
LegacyLog(n, payload) ==
  IF n = 0 THEN <<>> ELSE <<Entry(1, payload, ZeroHash)>>

\* A new file, or a database of an older schema: its log has no checkpoint
\* and its ledger may lack the dataset_version column.
Init ==
  /\ user_version = 0
  /\ tables \in BOOLEAN
  /\ has_version \in IF tables THEN BOOLEAN ELSE {FALSE}
  /\ \E n \in IF tables THEN {0, 1} ELSE {0}, x \in Payloads :
       audit_log = LegacyLog(n, x)
  /\ audit_checkpoint = {}
  /\ pc = [p \in Processes |-> "down"]
  /\ prior = [p \in Processes |-> 0]
  /\ entries = [p \in Processes |-> <<>>]
  /\ verdict = [p \in Processes |-> None]
  /\ journal = None
  /\ since = [p \in Processes |-> 0]
  /\ established = 0
  /\ damage = 0

Goto(p, from, to) == pc[p] = from /\ pc' = [pc EXCEPT ![p] = to]

-----------------------------------------------------------------------------
(* StateStore._initialize.  Every statement commits on its own.            *)

ReadUserVersion(p) ==
  /\ Goto(p, "down", "create")
  /\ prior' = [prior EXCEPT ![p] = user_version]
  /\ UNCHANGED <<database, entries, verdict, history>>

\* CREATE TABLE IF NOT EXISTS: only a new privacy_spend gets the column.
CreateTables(p) ==
  /\ Goto(p, "create", "columns")
  /\ tables' = TRUE
  /\ has_version' = (has_version \/ ~tables)
  /\ UNCHANGED <<user_version, audit_log, audit_checkpoint, prior, entries, verdict, history>>

\* Mutant: the column is added without looking whether it is there.
ReadColumnsNot(p) ==
  /\ Goto(p, "columns", "alter")
  /\ UNCHANGED <<database, prior, entries, verdict, history>>

ReadColumns(p) ==
  /\ Goto(p, "columns", IF has_version THEN "checkpoint" ELSE "alter")
  /\ UNCHANGED <<database, prior, entries, verdict, history>>

\* ALTER TABLE fails on a column that another process added meanwhile.
AlterTable(p) ==
  /\ Goto(p, "alter", IF has_version THEN "failed" ELSE "checkpoint")
  /\ has_version' = TRUE
  /\ UNCHANGED <<user_version, tables, audit_log, audit_checkpoint,
                 prior, entries, verdict, history>>

CheckpointFound(p) ==
  /\ Goto(p, "checkpoint", "stamp")
  /\ audit_checkpoint # {}
  /\ UNCHANGED <<database, prior, entries, verdict, history>>

\* A database of this schema must have a checkpoint: AuditIntegrityError.
CheckpointMissing(p) ==
  /\ audit_checkpoint = {}
  /\ Goto(p, "checkpoint", IF prior[p] >= SchemaVersion THEN "failed" ELSE "entries")
  /\ UNCHANGED <<database, prior, entries, verdict, history>>

ReadEntries(p) ==
  /\ Goto(p, "entries", IF AllSound(audit_log) THEN "insert" ELSE "failed")
  /\ entries' = [entries EXCEPT ![p] = audit_log]
  /\ UNCHANGED <<database, prior, verdict, history>>

\* Mutant: INSERT OR REPLACE.
ReplaceCheckpoint(p) ==
  /\ Goto(p, "insert", "stamp")
  /\ audit_checkpoint' = {Checkpoint(Len(entries[p]), HeadHash(entries[p]))}
  /\ journal' = IF journal # None THEN journal ELSE PayloadsOf(entries[p])
  /\ established' = established + 1
  /\ entries' = [entries EXCEPT ![p] = <<>>]
  /\ UNCHANGED <<user_version, tables, has_version, audit_log,
                 prior, verdict, since, damage>>

\* Mutant: the checkpoint of a new log, whatever the log holds.
InsertEmptyCheckpoint(p) ==
  /\ audit_checkpoint = {}
  /\ Goto(p, "insert", "stamp")
  /\ audit_checkpoint' = {Checkpoint(0, ZeroHash)}
  /\ journal' = IF journal # None THEN journal ELSE PayloadsOf(entries[p])
  /\ established' = established + 1
  /\ entries' = [entries EXCEPT ![p] = <<>>]
  /\ UNCHANGED <<user_version, tables, has_version, audit_log,
                 prior, verdict, since, damage>>

\* The first checkpoint is trusted: what it covers is the journal.
InsertCheckpoint(p) ==
  /\ audit_checkpoint = {}
  /\ Goto(p, "insert", "stamp")
  /\ audit_checkpoint' = {Checkpoint(Len(entries[p]), HeadHash(entries[p]))}
  /\ journal' = IF journal # None THEN journal ELSE PayloadsOf(entries[p])
  /\ established' = established + 1
  /\ entries' = [entries EXCEPT ![p] = <<>>]
  /\ UNCHANGED <<user_version, tables, has_version, audit_log,
                 prior, verdict, since, damage>>

\* The primary key rejects a second checkpoint: IntegrityError.
InsertConflicts(p) ==
  /\ audit_checkpoint # {}
  /\ Goto(p, "insert", "failed")
  /\ UNCHANGED <<database, prior, entries, verdict, history>>

\* Mutant: the version that was read is bumped by one.
StampNextVersion(p) ==
  /\ Goto(p, "stamp", "ready")
  /\ user_version' = prior[p] + 1
  /\ UNCHANGED <<tables, has_version, audit_log, audit_checkpoint,
                 prior, entries, verdict, history>>

StampVersion(p) ==
  /\ Goto(p, "stamp", "ready")
  /\ user_version' = SchemaVersion
  /\ UNCHANGED <<tables, has_version, audit_log, audit_checkpoint,
                 prior, entries, verdict, history>>

Initialize(p) ==
  \/ ReadUserVersion(p) \/ CreateTables(p) \/ ReadColumns(p) \/ AlterTable(p)
  \/ CheckpointFound(p) \/ CheckpointMissing(p) \/ ReadEntries(p)
  \/ InsertCheckpoint(p) \/ InsertConflicts(p) \/ StampVersion(p)

-----------------------------------------------------------------------------
(* append_audit: one transaction writes the row and moves the checkpoint,  *)
(* or it is rolled back with an AuditIntegrityError.                       *)

\* Mutant: the row is appended, the checkpoint stays.
AppendAuditOnly(p, payload) ==
  /\ pc[p] = "ready"
  /\ Len(journal) < MaxEntries
  /\ \E cp \in audit_checkpoint :
       /\ Appendable(audit_log, cp)
       /\ audit_log' = Append(audit_log, Entry(cp.entry_count + 1, payload, cp.head_hash))
  /\ journal' = Append(journal, payload)
  /\ verdict' = [verdict EXCEPT ![p] = None]
  /\ UNCHANGED <<user_version, tables, has_version, audit_checkpoint, pc, prior,
                 entries, since, established, damage>>

AppendAudit(p, payload) ==
  /\ pc[p] = "ready"
  /\ \E cp \in audit_checkpoint :
       LET id == cp.entry_count + 1
           row == Entry(id, payload, cp.head_hash)
       IN
       /\ Appendable(audit_log, cp)
       /\ Len(journal) < MaxEntries
       /\ audit_log' = Append(audit_log, row)
       /\ audit_checkpoint' = {Checkpoint(id, row.entry_hash)}
  /\ journal' = Append(journal, payload)
  /\ verdict' = [verdict EXCEPT ![p] = None]
  /\ UNCHANGED <<user_version, tables, has_version, pc, prior, entries,
                 since, established, damage>>

AppendRefused(p) ==
  /\ pc[p] = "ready"
  /\ \A cp \in audit_checkpoint : ~Appendable(audit_log, cp)
  /\ UNCHANGED vars

-----------------------------------------------------------------------------
(* verify_audit: two SELECTs, each with a snapshot of its own.             *)

FetchEntries(p) ==
  /\ Goto(p, "ready", "verifying")
  /\ entries' = [entries EXCEPT ![p] = audit_log]
  /\ since' = [since EXCEPT ![p] = Len(journal)]
  /\ verdict' = [verdict EXCEPT ![p] = None]
  /\ UNCHANGED <<database, prior, journal, established, damage>>

FetchCheckpoint(p) ==
  /\ Goto(p, "verifying", "ready")
  /\ verdict' = [verdict EXCEPT ![p] = Verify(entries[p], audit_checkpoint)]
  /\ UNCHANGED <<database, prior, entries, history>>

-----------------------------------------------------------------------------
(* A process loses its locals when it dies, and is started again           *)
(* (docker-compose.yml: "restart: unless-stopped"; the next CLI run).      *)

Stop(p) ==
  /\ pc' = [pc EXCEPT ![p] = "down"]
  /\ prior' = [prior EXCEPT ![p] = 0]
  /\ entries' = [entries EXCEPT ![p] = <<>>]
  /\ verdict' = [verdict EXCEPT ![p] = None]
  /\ since' = [since EXCEPT ![p] = 0]
  /\ UNCHANGED <<database, journal, established, damage>>

Crash(p) == pc[p] \notin {"down", "failed"} /\ Stop(p)

\* The exception of a failed construction ends the process.
Exit(p) == pc[p] = "failed" /\ Stop(p)

-----------------------------------------------------------------------------
(* Damage to the stored rows, none of it by the program: one statement of  *)
(* tests/test_state.py each.  None of them uses the audit key, except      *)
(* ReplaceHead, which stands for a checkpoint that does not fit the log.   *)

AlterEntry ==
  /\ \E i \in DOMAIN audit_log, x \in Payloads :
       /\ x # audit_log[i].payload
       /\ audit_log' = [audit_log EXCEPT ![i].payload = x]
  /\ UNCHANGED audit_checkpoint

DeleteEntry ==
  /\ \E i \in DOMAIN audit_log :
       audit_log' = SubSeq(audit_log, 1, i - 1) \o SubSeq(audit_log, i + 1, Len(audit_log))
  /\ UNCHANGED audit_checkpoint

DeleteLog ==
  /\ audit_log # <<>>
  /\ audit_log' = <<>>
  /\ UNCHANGED audit_checkpoint

AlterCheckpoint ==
  /\ \E cp \in audit_checkpoint :
       audit_checkpoint' = {[cp EXCEPT !.checkpoint_hmac = ZeroHash]}
  /\ UNCHANGED audit_log

ReplaceHead ==
  /\ \E cp \in audit_checkpoint :
       audit_checkpoint' = {Checkpoint(cp.entry_count, <<"replaced">>)}
  /\ UNCHANGED audit_log

DeleteCheckpoint ==
  /\ audit_checkpoint # {}
  /\ audit_checkpoint' = {}
  /\ UNCHANGED audit_log

Damage ==
  /\ damage < MaxDamage
  /\ damage' = damage + 1
  /\ \/ AlterEntry \/ DeleteEntry \/ DeleteLog
     \/ AlterCheckpoint \/ ReplaceHead \/ DeleteCheckpoint
  /\ UNCHANGED <<user_version, tables, has_version, pc, prior, entries,
                 verdict, journal, since, established>>

-----------------------------------------------------------------------------
Next ==
  \/ \E p \in Processes :
       \/ Initialize(p)
       \/ \E x \in Payloads : AppendAudit(p, x)
       \/ AppendRefused(p)
       \/ FetchEntries(p)
       \/ FetchCheckpoint(p)
       \/ Crash(p)
       \/ Exit(p)
  \/ Damage

\* A process that was started runs its initialisation to the end, and is
\* started again when that failed.
Fairness == \A p \in Processes : WF_vars(Initialize(p)) /\ WF_vars(Exit(p))

Spec == Init /\ [][Next]_vars /\ Fairness

-----------------------------------------------------------------------------
(* Properties.                                                             *)

Initialising == {"create", "columns", "alter", "checkpoint", "entries", "insert", "stamp"}
Running == {"ready", "verifying"}

TypeOK ==
  /\ user_version \in {0, SchemaVersion}
  /\ tables \in BOOLEAN
  /\ has_version \in BOOLEAN
  /\ pc \in [Processes -> {"down", "failed"} \cup Initialising \cup Running]
  /\ prior \in [Processes -> {0, SchemaVersion}]
  /\ journal = None \/ journal \in Seq(Payloads)
  /\ since \in [Processes -> Nat]
  /\ established \in Nat
  /\ damage \in Nat

(* As long as nothing was damaged, the checkpoint, once it exists, counts  *)
(* and names exactly the rows of a sound chain that records what was       *)
(* appended: no interleaving of initialisers, appenders and crashes leaves *)
(* the two apart, and no late initialiser resets the checkpoint.           *)
CheckpointMatchesLog ==
  damage = 0 /\ audit_checkpoint # {} =>
    /\ AllSound(audit_log)
    /\ audit_checkpoint = {Checkpoint(Len(audit_log), HeadHash(audit_log))}
    /\ journal = PayloadsOf(audit_log)

(* As long as nothing was damaged, a process that finished initialising    *)
(* never gets an AuditIntegrityError from append_audit.                    *)
AppendNeverRefused ==
  damage = 0 /\ (\E p \in Processes : pc[p] \in Running) =>
    \E cp \in audit_checkpoint : Appendable(audit_log, cp)

(* What verify_audit reports as checked is a prefix of what was appended,  *)
(* even when a row or the checkpoint is damaged; and a valid verdict       *)
(* covers at least everything appended before the verification began.  (A  *)
(* checkpoint that was deleted and established again, by an initialiser    *)
(* that had read the old user_version, is trusted like a first one.)       *)
VerdictTruthful ==
  \A p \in Processes :
    established <= 1 /\ verdict[p] # None =>
      /\ \A i \in 1..verdict[p].entries_checked :
           i \in DOMAIN journal /\ entries[p][i].payload = journal[i]
      /\ verdict[p].valid => verdict[p].entries_checked >= since[p]

(* As long as nothing was damaged, an invalid verdict means that an entry  *)
(* was appended between the two reads of verify_audit.                     *)
FalseAlarmOnlyByAppend ==
  \A p \in Processes :
    damage = 0 /\ verdict[p] # None /\ Len(journal) = since[p] => verdict[p].valid

(* Fails closed: nothing is ever appended to a log that lost its last      *)
(* entry, so no entry id is given out twice (with the same exception).     *)
NoAppendAfterTruncation ==
  [][ established <= 1 /\ journal # None /\ journal' # journal =>
        /\ TailId(audit_log) = Len(journal)
        /\ TailId(audit_log') = Len(journal') ]_vars

(* Initialisers that race for the column or the checkpoint make each other *)
(* fail, but not for ever: without damage, a process that does not crash   *)
(* again and again gets through its initialisation.                        *)
InitialisationSucceeds ==
  [](damage = 0) =>
    \A p \in Processes : <>[][~Crash(p)]_vars => []<>(pc[p] \in Running)

(* ARCHITECTURE.md has verification reject missing or corrupt checkpoints, *)
(* malformed payloads, gaps, modified rows and a shorter log; api.py       *)
(* publishes the verdict as "Whether the HMAC audit chain verifies".  With *)
(* none of these, verify_audit still reports an invalid chain when an      *)
(* append commits between its two reads.                                   *)
NoFalseAlarm ==
  \A p \in Processes : damage = 0 /\ verdict[p] # None => verdict[p].valid

=============================================================================
