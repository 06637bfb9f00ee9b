-------------------------- MODULE AuditChainProofs --------------------------
(***************************************************************************)
(* As long as no stored row is damaged, checkpoint and log agree; whatever *)
(* is damaged, a verification reports as checked what was appended only;   *)
(* for any number of processes that initialise, append, verify, crash and  *)
(* start again, and for logs of any length.                                *)
(***************************************************************************)
EXTENDS AuditChain, SequenceTheorems, WellFoundedInduction, TLAPS

\* A log is a sequence of rows.
IsLog(rows) == \E S : rows \in Seq(S)

(* Two intervals from 1 that are equal end at the same number.             *)
LEMMA SameLength ==
  ASSUME NEW m \in Nat, NEW n \in Nat, 1..m = 1..n
  PROVE  m = n
<1>1. ~(m < n)
  <2> SUFFICES ASSUME m < n PROVE FALSE
    OBVIOUS
  <2>1. n \in 1..n /\ n \notin 1..m
    OBVIOUS
  <2> QED
    BY <2>1
<1>2. ~(n < m)
  <2> SUFFICES ASSUME n < m PROVE FALSE
    OBVIOUS
  <2>1. m \in 1..m /\ m \notin 1..n
    OBVIOUS
  <2> QED
    BY <2>1
<1> QED
  BY <1>1, <1>2

(* Appending one row to a log.                                             *)
LEMMA AppendRow ==
  ASSUME NEW rows, NEW row, IsLog(rows)
  PROVE  /\ IsLog(Append(rows, row))
         /\ Len(rows) \in Nat /\ DOMAIN rows = 1..Len(rows)
         /\ Len(Append(rows, row)) = Len(rows) + 1
         /\ DOMAIN Append(rows, row) = 1..(Len(rows) + 1)
         /\ Append(rows, row)[Len(rows) + 1] = row
         /\ \A i \in 1..Len(rows) : Append(rows, row)[i] = rows[i]
<1>1. PICK S : rows \in Seq(S)
  BY DEF IsLog
<1>2. rows \in Seq(S \cup {row}) /\ row \in S \cup {row}
  BY <1>1
<1>3. Append(rows, row) \in Seq(S \cup {row})
  BY <1>2, AppendProperties
<1> QED
  BY <1>2, <1>3, AppendProperties, LenProperties DEF IsLog

(* The payloads of a log are as many as its rows.                          *)
LEMMA PayloadsLength ==
  ASSUME NEW rows, IsLog(rows)
  PROVE  IsLog(PayloadsOf(rows)) /\ Len(PayloadsOf(rows)) = Len(rows)
<1>1. Len(rows) \in Nat /\ DOMAIN rows = 1..Len(rows)
  BY AppendRow
<1>2. PayloadsOf(rows) \in Seq({rows[i].payload : i \in 1..Len(rows)})
  BY <1>1 DEF PayloadsOf
<1>3. Len(PayloadsOf(rows)) \in Nat /\ 1..Len(PayloadsOf(rows)) = 1..Len(rows)
  BY <1>1, <1>2, LenProperties DEF PayloadsOf
<1> QED
  BY <1>1, <1>2, <1>3, SameLength DEF IsLog

(* A checkpoint that counts and names the last row of a sound log lets     *)
(* append_audit go on, and the row that it appends keeps the log sound and *)
(* is named by the new checkpoint.                                         *)
LEMMA AppendKeepsChain ==
  ASSUME NEW rows, NEW payload, IsLog(rows), AllSound(rows)
  PROVE  LET row == Entry(Len(rows) + 1, payload, HeadHash(rows)) IN
         /\ AllSound(Append(rows, row))
         /\ HeadHash(Append(rows, row)) = row.entry_hash
         /\ PayloadsOf(Append(rows, row)) = Append(PayloadsOf(rows), payload)
<1> DEFINE row == Entry(Len(rows) + 1, payload, HeadHash(rows))
           longer == Append(rows, row)
<1>1. /\ Len(rows) \in Nat /\ DOMAIN rows = 1..Len(rows)
      /\ Len(longer) = Len(rows) + 1
      /\ DOMAIN longer = 1..(Len(rows) + 1)
      /\ longer[Len(rows) + 1] = row
      /\ \A i \in 1..Len(rows) : longer[i] = rows[i]
  BY AppendRow
<1>2. /\ row.id = Len(rows) + 1 /\ row.payload = payload
      /\ row.previous_hash = HeadHash(rows)
      /\ row.entry_hash = EntryHash(row.id, row.payload, row.previous_hash)
  BY DEF Entry
<1> HIDE DEF row, longer
<1>3. \A i \in 0..Len(rows) : HashAt(longer, i) = HashAt(rows, i)
  BY <1>1 DEF HashAt
<1>4. ASSUME NEW i \in DOMAIN longer PROVE Sound(longer, i)
  <2>1. CASE i \in 1..Len(rows)
    <3>1. Sound(rows, i) /\ longer[i] = rows[i] /\ HashAt(longer, i - 1) = HashAt(rows, i - 1)
      BY <1>1, <1>3, <2>1 DEF AllSound
    <3> QED
      BY <3>1 DEF Sound
  <2>2. CASE i = Len(rows) + 1
    <3>1. longer[i] = row /\ HashAt(longer, i - 1) = HeadHash(rows)
      BY <1>1, <1>3, <2>2 DEF HeadHash
    <3> QED
      BY <1>2, <2>2, <3>1 DEF Sound
  <2> QED
    BY <1>1, <2>1, <2>2
<1>5. HeadHash(longer) = row.entry_hash
  BY <1>1 DEF HeadHash, HashAt
<1>6. PayloadsOf(longer) = Append(PayloadsOf(rows), payload)
  <2>2. IsLog(PayloadsOf(rows)) /\ Len(PayloadsOf(rows)) = Len(rows)
    BY PayloadsLength
  <2>3. /\ DOMAIN Append(PayloadsOf(rows), payload) = 1..(Len(rows) + 1)
        /\ Append(PayloadsOf(rows), payload)[Len(rows) + 1] = payload
        /\ \A i \in 1..Len(rows) :
             Append(PayloadsOf(rows), payload)[i] = rows[i].payload
    BY <1>1, <2>2, AppendRow DEF PayloadsOf
  <2> QED
    BY <1>1, <1>2, <2>2, <2>3, AppendRow DEF PayloadsOf, IsLog
<1> QED
  BY <1>4, <1>5, <1>6 DEF AllSound, row, longer

-----------------------------------------------------------------------------
Steps == {"down", "failed"} \cup Initialising \cup Running

\* Past the checkpoint step of _initialize.
Past == {"stamp"} \cup Running

Typed ==
  /\ pc \in [Processes -> Steps]
  /\ entries = [p \in Processes |-> entries[p]]
  /\ damage \in Nat

\* The log is a sound chain, and the checkpoint, once there, is of its end.
Anchored ==
  /\ IsLog(audit_log)
  /\ AllSound(audit_log)
  /\ audit_checkpoint # {} =>
       /\ audit_checkpoint = {Checkpoint(Len(audit_log), HeadHash(audit_log))}
       /\ journal = PayloadsOf(audit_log)
  /\ audit_checkpoint = {} => journal = None

\* Nobody gets past the checkpoint step without one; and until there is one
\* nothing is appended, so the rows that a process fetched are the log.
Established ==
  \A p \in Processes :
    /\ pc[p] \in Past => audit_checkpoint # {}
    /\ pc[p] = "insert" /\ audit_checkpoint = {} => entries[p] = audit_log

IInv == Typed /\ (damage = 0 => Anchored /\ Established)

(* An empty log, and a legacy log of one entry, are sound chains.          *)
LEMMA InitChain == Init => IInv
<1> SUFFICES ASSUME Init PROVE IInv
  OBVIOUS
<1>1. Typed
  BY DEF Init, Typed, Steps
<1>2. IsLog(audit_log) /\ AllSound(audit_log)
  <2>1. PICK n \in {0, 1}, x \in Payloads : audit_log = LegacyLog(n, x)
    BY DEF Init
  <2>2. CASE audit_log = <<>>
    BY <2>2 DEF IsLog, AllSound
  <2>3. CASE audit_log = <<Entry(1, x, ZeroHash)>>
    <3>1. /\ audit_log \in Seq({Entry(1, x, ZeroHash)})
          /\ DOMAIN audit_log = {1} /\ audit_log[1] = Entry(1, x, ZeroHash)
      BY <2>3
    <3> QED
      BY <3>1 DEF IsLog, AllSound, Sound, Entry, HashAt
  <2> QED
    BY <2>1, <2>2, <2>3 DEF LegacyLog
<1>3. Established
  BY DEF Init, Established, Past, Running
<1> QED
  BY <1>1, <1>2, <1>3 DEF Init, IInv, Anchored

(* The types are kept by every step.                                       *)
LEMMA TypedStep == Typed /\ [Next]_vars => Typed'
<1> SUFFICES ASSUME Typed, [Next]_vars PROVE Typed'
  OBVIOUS
<1>1. ASSUME NEW p \in Processes, Initialize(p) PROVE Typed'
  <2>1. CASE ReadUserVersion(p) \/ CreateTables(p) \/ ReadColumns(p) \/ AlterTable(p)
    BY <2>1 DEF ReadUserVersion, CreateTables, ReadColumns, AlterTable, Goto, history, Typed,
       Steps, Initialising
  <2>2. CASE CheckpointFound(p) \/ CheckpointMissing(p) \/ InsertConflicts(p) \/ StampVersion(p)
    BY <2>2 DEF CheckpointFound, CheckpointMissing, InsertConflicts, StampVersion, Goto,
       history, Typed, Steps, Initialising, Running
  <2>3. CASE ReadEntries(p)
    BY <2>3 DEF ReadEntries, Goto, history, Typed, Steps, Initialising
  <2>4. CASE InsertCheckpoint(p)
    BY <2>4 DEF InsertCheckpoint, Goto, Typed, Steps, Initialising
  <2> QED
    BY <1>1, <2>1, <2>2, <2>3, <2>4 DEF Initialize
<1>2. ASSUME NEW p \in Processes, NEW x, AppendAudit(p, x) PROVE Typed'
  BY <1>2 DEF AppendAudit, Typed
<1>3. ASSUME NEW p \in Processes, AppendRefused(p) PROVE Typed'
  BY <1>3 DEF AppendRefused, vars, history, Typed
<1>4. ASSUME NEW p \in Processes, FetchEntries(p) \/ FetchCheckpoint(p) PROVE Typed'
  BY <1>4 DEF FetchEntries, FetchCheckpoint, Goto, history, Typed, Steps, Running
<1>5. ASSUME NEW p \in Processes, Crash(p) \/ Exit(p) PROVE Typed'
  BY <1>5 DEF Crash, Exit, Stop, Typed, Steps
<1>6. CASE Damage
  BY <1>6 DEF Damage, Typed
<1>7. CASE UNCHANGED vars
  BY <1>7 DEF vars, history, Typed
<1> QED
  BY <1>1, <1>2, <1>3, <1>4, <1>5, <1>6, <1>7 DEF Next

(* Without damage, every step keeps the log anchored.                      *)
LEMMA ChainStep ==
  ASSUME Typed, Anchored, Established, [Next]_vars, damage' = 0
  PROVE  Anchored' /\ Established'
<1>1. ASSUME UNCHANGED <<audit_log, audit_checkpoint, journal>>
      PROVE  Anchored'
  BY <1>1 DEF Anchored, IsLog, AllSound, Sound, HashAt, HeadHash, PayloadsOf
<1>2. ASSUME NEW p \in Processes, NEW to,
             UNCHANGED <<audit_log, audit_checkpoint, entries>>,
             pc' = [pc EXCEPT ![p] = to], to # "insert",
             to \in Past => audit_checkpoint # {}
      PROVE  Established'
  BY <1>2 DEF Established, Typed
<1>3. ASSUME NEW p \in Processes, Initialize(p) PROVE Anchored' /\ Established'
  <2>1. CASE ReadUserVersion(p) \/ CreateTables(p) \/ ReadColumns(p) \/ AlterTable(p)
    BY <1>1, <1>2, <2>1 DEF ReadUserVersion, CreateTables, ReadColumns, AlterTable, Goto,
       database, history, Past, Running
  <2>2. CASE CheckpointFound(p) \/ CheckpointMissing(p) \/ InsertConflicts(p)
    BY <1>1, <1>2, <2>2 DEF CheckpointFound, CheckpointMissing, InsertConflicts, Goto,
       database, history, Past, Running
  <2>3. CASE StampVersion(p)
    <3>1. audit_checkpoint # {}
      BY <2>3 DEF StampVersion, Goto, Established, Past
    <3> QED
      BY <1>1, <1>2, <2>3, <3>1 DEF StampVersion, Goto, history
  <2>4. CASE ReadEntries(p)
    <3>1. Anchored'
      BY <1>1, <2>4 DEF ReadEntries, database, history
    <3>2. Established'
      BY <2>4 DEF ReadEntries, Goto, database, Established, Typed, Past, Running
    <3> QED
      BY <3>1, <3>2
  <2>5. CASE InsertCheckpoint(p)
    <3>1. /\ entries[p] = audit_log /\ audit_log' = audit_log
          /\ audit_checkpoint' = {Checkpoint(Len(audit_log), HeadHash(audit_log))}
          /\ journal' = PayloadsOf(audit_log)
          /\ pc' = [pc EXCEPT ![p] = "stamp"]
      BY <2>5 DEF InsertCheckpoint, Goto, Established, Anchored
    <3>2. Anchored'
      BY <3>1 DEF Anchored, IsLog, AllSound, Sound, HashAt, HeadHash, PayloadsOf
    <3>3. Established'
      BY <3>1 DEF Established
    <3> QED
      BY <3>2, <3>3
  <2> QED
    BY <1>3, <2>1, <2>2, <2>3, <2>4, <2>5 DEF Initialize
<1>4. ASSUME NEW p \in Processes, NEW x \in Payloads, AppendAudit(p, x)
      PROVE  Anchored' /\ Established'
  <2>1. PICK cp \in audit_checkpoint :
          LET row == Entry(cp.entry_count + 1, x, cp.head_hash) IN
          /\ audit_log' = Append(audit_log, row)
          /\ audit_checkpoint' = {Checkpoint(cp.entry_count + 1, row.entry_hash)}
    BY <1>4 DEF AppendAudit
  <2>2. cp.entry_count = Len(audit_log) /\ cp.head_hash = HeadHash(audit_log)
    BY DEF Anchored, Checkpoint
  <2> DEFINE row == Entry(Len(audit_log) + 1, x, HeadHash(audit_log))
  <2>3. /\ audit_log' = Append(audit_log, row)
        /\ audit_checkpoint' = {Checkpoint(Len(audit_log) + 1, row.entry_hash)}
        /\ journal' = Append(PayloadsOf(audit_log), x)
        /\ UNCHANGED <<pc, entries>>
    BY <1>4, <2>1, <2>2 DEF AppendAudit, Anchored
  <2>4. /\ AllSound(Append(audit_log, row))
        /\ HeadHash(Append(audit_log, row)) = row.entry_hash
        /\ PayloadsOf(Append(audit_log, row)) = Append(PayloadsOf(audit_log), x)
    BY AppendKeepsChain DEF Anchored
  <2>5. /\ IsLog(Append(audit_log, row))
        /\ Len(Append(audit_log, row)) = Len(audit_log) + 1
    BY AppendRow DEF Anchored
  <2> HIDE DEF row
  <2>6. Anchored'
    BY <2>3, <2>4, <2>5 DEF Anchored, IsLog, AllSound, Sound, HashAt, HeadHash, PayloadsOf
  <2>7. Established'
    BY <2>3 DEF Established
  <2> QED
    BY <2>6, <2>7
<1>5. ASSUME NEW p \in Processes, FetchEntries(p) \/ FetchCheckpoint(p)
      PROVE  Anchored' /\ Established'
  <2>1. pc[p] \in Running
    BY <1>5 DEF FetchEntries, FetchCheckpoint, Goto, Running
  <2>2. audit_checkpoint # {}
    BY <2>1 DEF Established, Past
  <2>3. Anchored'
    BY <1>1, <1>5 DEF FetchEntries, FetchCheckpoint, database, history
  <2>4. Established'
    BY <1>5, <2>2 DEF FetchEntries, FetchCheckpoint, database, Established
  <2> QED
    BY <2>3, <2>4
<1>6. ASSUME NEW p \in Processes, Crash(p) \/ Exit(p) PROVE Anchored' /\ Established'
  <2>1. Anchored'
    BY <1>1, <1>6 DEF Crash, Exit, Stop, database
  <2>2. Established'
    BY <1>6 DEF Crash, Exit, Stop, database, Established, Typed, Past, Running
  <2> QED
    BY <2>1, <2>2
<1>7. CASE Damage
  BY <1>7 DEF Damage, Typed
<1>8. CASE UNCHANGED vars
  BY <1>1, <1>8 DEF vars, database, history, Established
<1> QED
  BY <1>3, <1>4, <1>5, <1>6, <1>7, <1>8 DEF Next, AppendRefused

(* Damage is never undone.                                                 *)
LEMMA DamageStays ==
  ASSUME Typed, [Next]_vars, damage' = 0
  PROVE  damage = 0
BY DEF Typed, Next, Initialize, ReadUserVersion, CreateTables, ReadColumns,
   AlterTable, CheckpointFound, CheckpointMissing, ReadEntries, InsertCheckpoint,
   InsertConflicts, StampVersion, AppendAudit, AppendRefused, FetchEntries,
   FetchCheckpoint, Crash, Exit, Stop, Damage, history, vars

(* The inductive invariant of the audit chain.                             *)
THEOREM ChainInvariant == Spec => []IInv
<1>1. IInv /\ [Next]_vars => IInv'
  <2> SUFFICES ASSUME IInv, [Next]_vars PROVE IInv'
    OBVIOUS
  <2> QED
    BY DamageStays, TypedStep, ChainStep DEF IInv
<1> QED
  BY <1>1, InitChain, PTL DEF Spec

(* As long as nothing is damaged, the checkpoint counts and names exactly  *)
(* the rows of a sound chain that records what was appended.               *)
THEOREM CheckpointIsOfLog == Spec => []CheckpointMatchesLog
<1>1. IInv => CheckpointMatchesLog
  BY DEF IInv, Anchored, CheckpointMatchesLog
<1> QED
  BY <1>1, ChainInvariant, PTL

(* As long as nothing is damaged, append_audit raises no error in a        *)
(* process that finished its initialisation.                               *)
THEOREM AppendGoesOn == Spec => []AppendNeverRefused
<1>1. IInv => AppendNeverRefused
  <2> SUFFICES ASSUME Anchored, audit_checkpoint # {}
               PROVE  \E cp \in audit_checkpoint : Appendable(audit_log, cp)
    BY DEF IInv, Established, Past, AppendNeverRefused
  <2> DEFINE cp == Checkpoint(Len(audit_log), HeadHash(audit_log))
  <2>1. cp \in audit_checkpoint
    BY DEF Anchored
  <2>2. Authentic(cp) /\ HeadHash(audit_log) = cp.head_hash
    BY DEF Authentic, Checkpoint
  <2>3. TailId(audit_log) = Len(audit_log)
    <3>1. Len(audit_log) \in Nat /\ DOMAIN audit_log = 1..Len(audit_log)
      BY AppendRow DEF Anchored
    <3>2. CASE Len(audit_log) = 0
      <4>1. audit_log = <<>>
        BY <3>2, EmptySeq DEF Anchored, IsLog
      <4> QED
        BY <3>2, <4>1 DEF TailId
    <3>3. CASE Len(audit_log) # 0
      <4>1. Sound(audit_log, Len(audit_log)) /\ audit_log # <<>>
        BY <3>1, <3>3 DEF Anchored, AllSound
      <4> QED
        BY <4>1 DEF Sound, TailId
    <3> QED
      BY <3>2, <3>3
  <2> QED
    BY <2>1, <2>2, <2>3 DEF Appendable, Checkpoint
<1> QED
  BY <1>1, ChainInvariant, PTL

-----------------------------------------------------------------------------
(* What a verification of an undamaged log says.                           *)

VerdictTyped ==
  /\ verdict = [p \in Processes |-> verdict[p]]
  /\ since = [p \in Processes |-> since[p]]

\* p verifies, or has a verdict that no append of its own has followed.
Reading(p) == pc[p] = "verifying" \/ verdict[p] # None

\* If nothing was appended since p fetched the rows, they are the log, and the
\* verdict on them is that it is valid.
Current ==
  \A p \in Processes : Reading(p) =>
    /\ pc[p] \in Running
    /\ since[p] \in Nat /\ since[p] <= Len(audit_log)
    /\ pc[p] = "verifying" /\ since[p] = Len(audit_log) => entries[p] = audit_log
    /\ verdict[p] # None /\ since[p] = Len(audit_log) => verdict[p].valid

(* The rows of an anchored log, with the checkpoint, are a valid log.      *)
LEMMA AnchoredIsValid ==
  ASSUME Anchored, audit_checkpoint # {}
  PROVE  Verify(audit_log, audit_checkpoint).valid
<1> DEFINE cp == Checkpoint(Len(audit_log), HeadHash(audit_log))
<1>1. audit_checkpoint = {cp} /\ AllSound(audit_log)
  BY DEF Anchored
<1>2. (CHOOSE c \in audit_checkpoint : TRUE) = cp
  BY <1>1
<1>3. Authentic(cp) /\ cp.entry_count = Len(audit_log) /\ cp.head_hash = HeadHash(audit_log)
  BY DEF Authentic, Checkpoint
<1> HIDE DEF cp
<1>4. Verify(audit_log, audit_checkpoint) = Result(TRUE, Len(audit_log), None)
  BY <1>1, <1>2, <1>3 DEF Verify
<1> QED
  BY <1>4 DEF Result

(* The journal is as long as the log.                                      *)
LEMMA JournalLength ==
  ASSUME Anchored, audit_checkpoint # {}
  PROVE  Len(journal) = Len(audit_log) /\ Len(audit_log) \in Nat
  BY AppendRow, PayloadsLength DEF Anchored

(* A process that verifies or has a verdict stays so, or starts anew.      *)
LEMMA CurrentStep ==
  ASSUME Typed, Anchored, Established, VerdictTyped, Current, [Next]_vars, damage' = 0
  PROVE  VerdictTyped' /\ Current'
<1>1. ASSUME NEW p \in Processes, NEW to, pc[p] \notin Running, to # "verifying",
             pc' = [pc EXCEPT ![p] = to],
             \A q \in Processes \ {p} : entries'[q] = entries[q],
             UNCHANGED <<audit_log, verdict, since>>
      PROVE  VerdictTyped' /\ Current'
  <2>1. ~Reading(p)
    BY <1>1 DEF Current
  <2>2. ~Reading(p)'
    BY <1>1, <2>1 DEF Reading, Typed
  <2> QED
    BY <1>1, <2>2 DEF VerdictTyped, Current, Reading, Typed
<1>2. ASSUME NEW p \in Processes, Initialize(p) PROVE VerdictTyped' /\ Current'
  <2>1. PICK from \in Initialising \cup {"down"}, to \in Steps \ {"verifying"} : Goto(p, from, to)
    BY <1>2 DEF Initialize, ReadUserVersion, CreateTables, ReadColumns, AlterTable,
       CheckpointFound, CheckpointMissing, ReadEntries, InsertCheckpoint, InsertConflicts,
       StampVersion, Goto, Steps, Initialising, Running
  <2>2. pc[p] \notin Running /\ pc' = [pc EXCEPT ![p] = to] /\ to # "verifying"
    BY <2>1 DEF Goto, Initialising, Running
  <2>3. /\ UNCHANGED <<audit_log, verdict, since>>
        /\ \A q \in Processes \ {p} : entries'[q] = entries[q]
    BY <1>2 DEF Initialize, ReadUserVersion, CreateTables, ReadColumns, AlterTable,
       CheckpointFound, CheckpointMissing, ReadEntries, InsertCheckpoint, InsertConflicts,
       StampVersion, database, history, Typed
  <2> QED
    BY <1>1, <2>2, <2>3
<1>3. ASSUME NEW p \in Processes, NEW x \in Payloads, AppendAudit(p, x)
      PROVE  VerdictTyped' /\ Current'
  <2>1. Len(audit_log') = Len(audit_log) + 1 /\ Len(audit_log) \in Nat
    <3>1. PICK row : audit_log' = Append(audit_log, row)
      BY <1>3 DEF AppendAudit
    <3> QED
      BY <3>1, AppendRow DEF Anchored
  <2>2. /\ pc[p] = "ready" /\ verdict' = [verdict EXCEPT ![p] = None]
        /\ UNCHANGED <<pc, entries, since>>
    BY <1>3 DEF AppendAudit
  <2>3. \A q \in Processes : Reading(q)' => q # p /\ Reading(q)
    BY <2>2 DEF Reading, VerdictTyped
  <2>4. ASSUME NEW q \in Processes, Reading(q)'
        PROVE  /\ pc'[q] \in Running /\ since'[q] \in Nat /\ since'[q] < Len(audit_log')
    BY <2>1, <2>2, <2>3, <2>4 DEF Current
  <2> QED
    BY <2>1, <2>2, <2>4 DEF VerdictTyped, Current
<1>4. ASSUME NEW p \in Processes, FetchEntries(p) PROVE VerdictTyped' /\ Current'
  <2>1. audit_checkpoint # {}
    BY <1>4 DEF FetchEntries, Goto, Established, Past, Running
  <2>2. since' = [since EXCEPT ![p] = Len(audit_log)] /\ Len(audit_log) \in Nat
    BY <1>4, <2>1, JournalLength DEF FetchEntries
  <2>3. /\ pc' = [pc EXCEPT ![p] = "verifying"] /\ entries' = [entries EXCEPT ![p] = audit_log]
        /\ verdict' = [verdict EXCEPT ![p] = None] /\ audit_log' = audit_log
    BY <1>4 DEF FetchEntries, Goto, database
  <2>4. VerdictTyped'
    BY <2>2, <2>3 DEF VerdictTyped
  <2>5. ASSUME NEW q \in Processes \ {p}, Reading(q)'
        PROVE  /\ Reading(q) /\ pc'[q] = pc[q] /\ entries'[q] = entries[q]
               /\ verdict'[q] = verdict[q] /\ since'[q] = since[q]
    BY <2>2, <2>3, <2>5 DEF VerdictTyped, Typed, Reading
  <2>6. /\ pc'[p] = "verifying" /\ entries'[p] = audit_log
        /\ verdict'[p] = None /\ since'[p] = Len(audit_log)
    BY <2>2, <2>3 DEF VerdictTyped, Typed
  <2> QED
    BY <2>2, <2>3, <2>4, <2>5, <2>6 DEF Current, Running
<1>5. ASSUME NEW p \in Processes, FetchCheckpoint(p) PROVE VerdictTyped' /\ Current'
  <2>1. pc[p] = "verifying" /\ audit_checkpoint # {}
    BY <1>5 DEF FetchCheckpoint, Goto, Established, Past, Running
  <2>2. since[p] = Len(audit_log) => Verify(entries[p], audit_checkpoint).valid
    BY <2>1, AnchoredIsValid DEF Current, Reading
  <2>3. /\ pc' = [pc EXCEPT ![p] = "ready"]
        /\ verdict' = [verdict EXCEPT ![p] = Verify(entries[p], audit_checkpoint)]
        /\ UNCHANGED <<audit_log, entries, since>>
    BY <1>5 DEF FetchCheckpoint, Goto, database, history
  <2>4. Reading(p)
    BY <2>1 DEF Reading
  <2> QED
    BY <2>2, <2>3, <2>4 DEF VerdictTyped, Current, Reading, Typed, Running
<1>6. ASSUME NEW p \in Processes, Crash(p) \/ Exit(p) PROVE VerdictTyped' /\ Current'
  BY <1>6 DEF Crash, Exit, Stop, database, VerdictTyped, Current, Reading, Typed
<1>7. CASE Damage
  BY <1>7 DEF Damage, Typed
<1>8. CASE UNCHANGED vars
  BY <1>8 DEF vars, database, history, VerdictTyped, Current, Reading
<1> QED
  BY <1>2, <1>3, <1>4, <1>5, <1>6, <1>7, <1>8 DEF Next, AppendRefused

(* Without damage, verify_audit says that the chain is invalid only if an  *)
(* entry was appended between its two reads.                               *)
THEOREM FalseAlarmNeedsAppend == Spec => []FalseAlarmOnlyByAppend
<1> DEFINE CInv == damage = 0 => VerdictTyped /\ Current
<1>1. Init => CInv
  BY DEF Init, VerdictTyped, Current, Reading
<1>2. IInv /\ CInv /\ [Next]_vars => CInv'
  BY DamageStays, CurrentStep DEF IInv
<1>3. IInv /\ CInv => FalseAlarmOnlyByAppend
  <2> SUFFICES ASSUME Anchored, Established, Current, NEW p \in Processes,
                      verdict[p] # None, Len(journal) = since[p]
               PROVE  verdict[p].valid
    BY DEF IInv, FalseAlarmOnlyByAppend
  <2>1. pc[p] \in Running /\ (since[p] = Len(audit_log) => verdict[p].valid)
    BY DEF Current, Reading
  <2>2. audit_checkpoint # {}
    BY <2>1 DEF Established, Past
  <2> QED
    BY <2>1, <2>2, JournalLength
<1> QED
  BY <1>1, <1>2, <1>3, ChainInvariant, PTL DEF Spec

-----------------------------------------------------------------------------
(* What is appended to a log that may be damaged.                          *)

\* Until a checkpoint is established a second time, the checkpoint counts what
\* was appended, whatever became of the log and of the rest of the checkpoint.
Counted ==
  /\ IsLog(audit_log)
  /\ \A p \in Processes : IsLog(entries[p])
  /\ established \in Nat
  /\ established = 0 => journal = None /\ audit_checkpoint = {}
  /\ established > 0 => IsLog(journal)
  /\ established = 1 => \A cp \in audit_checkpoint :
       "entry_count" \in DOMAIN cp /\ cp.entry_count = Len(journal)

(* What the statements that damage the log leave is a sequence.            *)
LEMMA DamagedLog ==
  ASSUME IsLog(audit_log), AlterEntry \/ DeleteEntry \/ DeleteLog
  PROVE  IsLog(audit_log')
<1>1. PICK S : audit_log \in Seq(S)
  BY DEF IsLog
<1>2. CASE AlterEntry
  <2>1. PICK i \in DOMAIN audit_log, x \in Payloads :
          audit_log' = [audit_log EXCEPT ![i].payload = x]
    BY <1>2 DEF AlterEntry
  <2>2. PICK row : audit_log' = [audit_log EXCEPT ![i] = row]
    BY <2>1
  <2>3. audit_log \in Seq(S \cup {row}) /\ row \in S \cup {row}
    BY <1>1
  <2>4. audit_log' \in Seq(S \cup {row})
    BY <2>2, <2>3, ExceptSeq
  <2> QED
    BY <2>4 DEF IsLog
<1>3. CASE DeleteEntry
  <2>1. PICK i \in DOMAIN audit_log :
          audit_log' = SubSeq(audit_log, 1, i - 1)
                         \o SubSeq(audit_log, i + 1, Len(audit_log))
    BY <1>3 DEF DeleteEntry
  <2>2. i \in 1..Len(audit_log) /\ Len(audit_log) \in Nat
    BY <1>1, LenProperties
  <2>3. /\ SubSeq(audit_log, 1, i - 1) \in Seq(S)
        /\ SubSeq(audit_log, i + 1, Len(audit_log)) \in Seq(S)
    BY <1>1, <2>2, SubSeqProperties
  <2>4. audit_log' \in Seq(S)
    BY <2>1, <2>3, ConcatProperties
  <2> QED
    BY <2>4 DEF IsLog
<1>4. CASE DeleteLog
  BY <1>4 DEF DeleteLog, IsLog
<1> QED
  BY <1>2, <1>3, <1>4

LEMMA CountedStep == Typed /\ Counted /\ [Next]_vars => Counted'
<1> SUFFICES ASSUME Typed, Counted, [Next]_vars PROVE Counted'
  OBVIOUS
<1>1. ASSUME UNCHANGED <<audit_log, audit_checkpoint, journal, established>>,
             \A p \in Processes : IsLog(entries'[p])
      PROVE  Counted'
  BY <1>1 DEF Counted, IsLog
<1>2. IsLog(<<>>)
  BY DEF IsLog
<1>3. ASSUME NEW p \in Processes, NEW rows, IsLog(rows), entries' = [entries EXCEPT ![p] = rows]
      PROVE  \A q \in Processes : IsLog(entries'[q])
  <2> SUFFICES ASSUME NEW q \in Processes PROVE IsLog(entries'[q])
    OBVIOUS
  <2>1. entries'[q] = IF q = p THEN rows ELSE entries[q]
    BY <1>3 DEF Typed
  <2> QED
    BY <1>3, <2>1 DEF Counted
<1>4. ASSUME NEW p \in Processes, Initialize(p) PROVE Counted'
  <2>1. CASE ReadEntries(p)
    BY <1>1, <1>3, <2>1 DEF ReadEntries, database, history, Counted
  <2>2. CASE InsertCheckpoint(p)
    <3>1. /\ audit_checkpoint' = {Checkpoint(Len(entries[p]), HeadHash(entries[p]))}
          /\ journal' = IF journal # None THEN journal ELSE PayloadsOf(entries[p])
          /\ established' = established + 1 /\ audit_log' = audit_log
          /\ entries' = [entries EXCEPT ![p] = <<>>]
      BY <2>2 DEF InsertCheckpoint
    <3>2. \A q \in Processes : IsLog(entries'[q])
      BY <1>2, <1>3, <3>1
    <3>3. /\ IsLog(PayloadsOf(entries[p]))
          /\ Len(PayloadsOf(entries[p])) = Len(entries[p])
      BY PayloadsLength DEF Counted
    <3>4. established' # 0 /\ established' \in Nat
      BY <3>1 DEF Counted
    <3>5. IsLog(journal')
      <4>1. CASE established = 0
        BY <3>1, <3>3, <4>1 DEF Counted
      <4>2. CASE established > 0
        BY <3>1, <3>3, <4>2 DEF Counted
      <4> QED
        BY <4>1, <4>2 DEF Counted
    <3>6. ASSUME established' = 1, NEW cp \in audit_checkpoint'
          PROVE  "entry_count" \in DOMAIN cp /\ cp.entry_count = Len(journal')
      <4>1. journal = None
        BY <3>1, <3>6 DEF Counted
      <4> QED
        BY <3>1, <3>3, <3>6, <4>1 DEF Checkpoint
    <3>7. IsLog(audit_log')
      BY <3>1 DEF Counted
    <3> QED
      BY <3>2, <3>4, <3>5, <3>6, <3>7 DEF Counted
  <2>3. CASE ~ReadEntries(p) /\ ~InsertCheckpoint(p)
    <3>1. UNCHANGED <<audit_log, audit_checkpoint, journal, established, entries>>
      BY <1>4, <2>3 DEF Initialize, ReadUserVersion, CreateTables, ReadColumns, AlterTable,
         CheckpointFound, CheckpointMissing, InsertConflicts, StampVersion, database, history
    <3> QED
      BY <1>1, <3>1 DEF Counted
  <2> QED
    BY <2>1, <2>2, <2>3
<1>5. ASSUME NEW p \in Processes, NEW x \in Payloads, AppendAudit(p, x) PROVE Counted'
  <2>1. PICK cp \in audit_checkpoint :
          LET row == Entry(cp.entry_count + 1, x, cp.head_hash) IN
          /\ audit_log' = Append(audit_log, row)
          /\ audit_checkpoint' = {Checkpoint(cp.entry_count + 1, row.entry_hash)}
    BY <1>5 DEF AppendAudit
  <2>2. journal' = Append(journal, x) /\ UNCHANGED <<entries, established>>
    BY <1>5 DEF AppendAudit
  <2>3. established > 0
    BY DEF Counted
  <2>4. IsLog(journal') /\ Len(journal') = Len(journal) + 1 /\ IsLog(audit_log')
    BY <2>1, <2>2, <2>3, AppendRow DEF Counted
  <2>5. ASSUME established' = 1, NEW new \in audit_checkpoint'
        PROVE  "entry_count" \in DOMAIN new /\ new.entry_count = Len(journal')
    BY <2>1, <2>2, <2>4, <2>5 DEF Counted, Checkpoint
  <2>6. /\ established' \in Nat /\ established' > 0
        /\ \A q \in Processes : IsLog(entries'[q])
    BY <2>2, <2>3 DEF Counted
  <2> QED
    BY <2>4, <2>5, <2>6 DEF Counted
<1>6. ASSUME NEW p \in Processes, FetchEntries(p) PROVE Counted'
  BY <1>1, <1>3, <1>6 DEF FetchEntries, database, Counted
<1>7. ASSUME NEW p \in Processes, FetchCheckpoint(p) PROVE Counted'
  BY <1>1, <1>7 DEF FetchCheckpoint, database, history, Counted
<1>8. ASSUME NEW p \in Processes, Crash(p) \/ Exit(p) PROVE Counted'
  BY <1>1, <1>2, <1>3, <1>8 DEF Crash, Exit, Stop, database
<1>9. CASE Damage
  <2>1. UNCHANGED <<entries, journal, established>>
    BY <1>9 DEF Damage
  <2>2. CASE AlterEntry \/ DeleteEntry \/ DeleteLog
    <3>1. audit_checkpoint' = audit_checkpoint
      BY <2>2 DEF AlterEntry, DeleteEntry, DeleteLog
    <3>2. IsLog(audit_log')
      BY <2>2, DamagedLog DEF Counted
    <3> QED
      BY <2>1, <3>1, <3>2 DEF Counted
  <2>3. CASE AlterCheckpoint
    BY <2>1, <2>3 DEF AlterCheckpoint, Counted
  <2>4. CASE ReplaceHead
    <3>1. PICK cp \in audit_checkpoint :
            audit_checkpoint' = {Checkpoint(cp.entry_count, <<"replaced">>)}
      BY <2>4 DEF ReplaceHead
    <3>2. \A new \in audit_checkpoint' :
            "entry_count" \in DOMAIN new /\ new.entry_count = cp.entry_count
      BY <3>1 DEF Checkpoint
    <3>3. audit_log' = audit_log
      BY <2>4 DEF ReplaceHead
    <3> QED
      BY <2>1, <3>2, <3>3 DEF Counted
  <2>5. CASE DeleteCheckpoint
    BY <2>1, <2>5 DEF DeleteCheckpoint, Counted
  <2> QED
    BY <1>9, <2>2, <2>3, <2>4, <2>5 DEF Damage
<1>10. CASE UNCHANGED vars
  BY <1>1, <1>10 DEF vars, database, history, Counted
<1> QED
  BY <1>4, <1>5, <1>6, <1>7, <1>8, <1>9, <1>10 DEF Next, AppendRefused

(* append_audit fails closed: it appends only behind as many rows as were  *)
(* appended before, whatever was damaged in between.                       *)
THEOREM AppendFailsClosed == Spec => NoAppendAfterTruncation
<1> DEFINE Closed ==
      established <= 1 /\ journal # None /\ journal' # journal =>
        TailId(audit_log) = Len(journal) /\ TailId(audit_log') = Len(journal')
<1>1. Init => Counted
  <2> SUFFICES ASSUME Init PROVE Counted
    OBVIOUS
  <2>1. IsLog(audit_log)
    BY InitChain DEF IInv, Anchored, Init
  <2> QED
    BY <2>1 DEF Init, Counted, IsLog
<1>2. Counted /\ [Next]_vars => [Closed]_vars
  <2> SUFFICES ASSUME Counted, Next, established <= 1, journal # None, journal' # journal
               PROVE  TailId(audit_log) = Len(journal) /\ TailId(audit_log') = Len(journal')
    BY DEF vars, history
  <2>1. PICK p \in Processes, x \in Payloads : AppendAudit(p, x)
    BY DEF Next, Initialize, ReadUserVersion, CreateTables, ReadColumns,
       AlterTable, CheckpointFound, CheckpointMissing, ReadEntries, InsertCheckpoint,
       InsertConflicts, StampVersion, AppendRefused, FetchEntries,
       FetchCheckpoint, Crash, Exit, Stop, Damage, history, vars
  <2>2. PICK cp \in audit_checkpoint :
          /\ Appendable(audit_log, cp)
          /\ audit_log' = Append(audit_log, Entry(cp.entry_count + 1, x, cp.head_hash))
    BY <2>1 DEF AppendAudit
  <2>3. journal' = Append(journal, x)
    BY <2>1 DEF AppendAudit
  <2>4. established = 1 /\ cp.entry_count = Len(journal) /\ IsLog(journal)
    BY <2>2 DEF Counted
  <2>5. TailId(audit_log) = Len(journal)
    BY <2>2, <2>4 DEF Appendable
  <2>6. Len(journal') = Len(journal) + 1
    BY <2>3, <2>4, AppendRow
  <2> DEFINE row == Entry(cp.entry_count + 1, x, cp.head_hash)
  <2>7. row.id = Len(journal) + 1
    BY <2>4 DEF Entry
  <2> HIDE DEF row
  <2>8. TailId(Append(audit_log, row)) = row.id
    <3>1. /\ Len(audit_log) \in Nat
          /\ Len(Append(audit_log, row)) = Len(audit_log) + 1
          /\ Append(audit_log, row)[Len(audit_log) + 1] = row
      BY AppendRow DEF Counted
    <3>2. ASSUME Append(audit_log, row) = <<>> PROVE FALSE
      <4>1. Len(Append(audit_log, row)) = 0
        BY <3>2
      <4> QED
        BY <3>1, <4>1
    <3> QED
      BY <3>1, <3>2 DEF TailId
  <2> QED
    BY <2>2, <2>5, <2>6, <2>7, <2>8 DEF row
<1>3. Spec => []Typed
  BY ChainInvariant, PTL DEF IInv
<1> QED
  BY <1>1, <1>2, <1>3, CountedStep, PTL DEF Spec, NoAppendAfterTruncation

-----------------------------------------------------------------------------
(* Types, and where the payloads come from, whatever was damaged.          *)

\* A row has the columns of the table; damage leaves it some payload.
IsRow(row) ==
  /\ DOMAIN row = {"id", "payload", "previous_hash", "entry_hash"}
  /\ row.payload \in Payloads

RowsTyped ==
  /\ \A i \in DOMAIN audit_log : IsRow(audit_log[i])
  /\ \A p \in Processes : \A i \in DOMAIN entries[p] : IsRow(entries[p][i])

\* The journal begins with the first checkpoint, and nobody is past the
\* checkpoint step before.
JournalTyped ==
  /\ established > 0 => journal \in Seq(Payloads)
  /\ \A p \in Processes : pc[p] \in Past => established > 0

Numbers ==
  /\ user_version \in {0, SchemaVersion}
  /\ tables \in BOOLEAN
  /\ has_version \in BOOLEAN
  /\ prior \in [Processes -> {0, SchemaVersion}]
  /\ since \in [Processes -> Nat]
  /\ verdict = [p \in Processes |-> verdict[p]]

(* Every row that damage leaves is a row of the log, or one with another   *)
(* payload; and there are not more of them.                                *)
LEMMA DamagedRows ==
  ASSUME IsLog(audit_log), AlterEntry \/ DeleteEntry \/ DeleteLog
  PROVE  /\ Len(audit_log') <= Len(audit_log)
         /\ \A j \in DOMAIN audit_log' : \E k \in DOMAIN audit_log :
              \/ audit_log'[j] = audit_log[k]
              \/ \E x \in Payloads : audit_log'[j] = [audit_log[k] EXCEPT !.payload = x]
<1>1. Len(audit_log) \in Nat /\ DOMAIN audit_log = 1..Len(audit_log)
  BY AppendRow
<1>2. CASE AlterEntry
  <2>1. PICK i \in DOMAIN audit_log, x \in Payloads :
          audit_log' = [audit_log EXCEPT ![i].payload = x]
    BY <1>2 DEF AlterEntry
  <2>2. IsLog(audit_log')
    BY <1>2, DamagedLog
  <2>3. DOMAIN audit_log' = DOMAIN audit_log
    BY <2>1
  <2>4. Len(audit_log') \in Nat /\ DOMAIN audit_log' = 1..Len(audit_log')
    BY <2>2, AppendRow DEF IsLog
  <2>5. Len(audit_log') = Len(audit_log)
    BY <1>1, <2>3, <2>4, SameLength
  <2>6. ASSUME NEW j \in DOMAIN audit_log'
        PROVE  \/ audit_log'[j] = audit_log[j]
               \/ audit_log'[j] = [audit_log[j] EXCEPT !.payload = x]
    BY <2>1, <2>3, <2>6
  <2> QED
    BY <1>1, <2>3, <2>5, <2>6
<1>3. CASE DeleteEntry
  <2>1. PICK i \in DOMAIN audit_log :
          audit_log' = SubSeq(audit_log, 1, i - 1)
                         \o SubSeq(audit_log, i + 1, Len(audit_log))
    BY <1>3 DEF DeleteEntry
  <2>2. PICK S : audit_log \in Seq(S)
    BY DEF IsLog
  <2> DEFINE before == SubSeq(audit_log, 1, i - 1)
             after == SubSeq(audit_log, i + 1, Len(audit_log))
             n == Len(audit_log)
  <2>3. i \in 1..n /\ n \in Nat
    BY <1>1
  <2>4. /\ before \in Seq(S) /\ Len(before) = i - 1
        /\ \A j \in 1..(i - 1) : before[j] = audit_log[j]
    BY <2>2, <2>3, SubSeqProperties
  <2>5. /\ after \in Seq(S) /\ Len(after) = n - i
        /\ \A j \in 1..(n - i) : after[j] = audit_log[i + j]
    BY <2>2, <2>3, SubSeqProperties
  <2> HIDE DEF before, after
  <2>6. /\ Len(audit_log') = Len(before) + Len(after)
        /\ DOMAIN audit_log' = 1..(Len(before) + Len(after))
        /\ \A j \in 1..(Len(before) + Len(after)) :
             audit_log'[j] = IF j <= Len(before) THEN before[j] ELSE after[j - Len(before)]
    BY <2>1, <2>4, <2>5, ConcatProperties, LenProperties DEF before, after
  <2>7. ASSUME NEW j \in DOMAIN audit_log'
        PROVE  \E k \in DOMAIN audit_log : audit_log'[j] = audit_log[k]
    <3>1. CASE j <= i - 1
      BY <1>1, <2>3, <2>4, <2>5, <2>6, <3>1
    <3>2. CASE j > i - 1
      <4>1. j \in 1..(n - 1) /\ j >= i
        BY <2>3, <2>4, <2>5, <2>6, <3>2
      <4>2. PICK d \in 1..(n - i) : d = j - (i - 1)
        BY <2>3, <4>1
      <4>3. audit_log'[j] = after[d]
        BY <2>3, <2>4, <2>5, <2>6, <3>2, <4>1, <4>2
      <4>4. after[d] = audit_log[i + d] /\ i + d \in 1..n
        BY <2>3, <2>5, <4>2
      <4> QED
        BY <1>1, <4>3, <4>4
    <3> QED
      BY <2>3, <2>4, <2>5, <2>6, <3>1, <3>2
  <2> QED
    BY <2>3, <2>4, <2>5, <2>6, <2>7
<1>4. CASE DeleteLog
  BY <1>1, <1>4 DEF DeleteLog
<1> QED
  BY <1>2, <1>3, <1>4

LEMMA NumbersStep ==
  ASSUME Typed, Counted, JournalTyped, Numbers, [Next]_vars
  PROVE  Numbers'
<1>1. ASSUME NEW p \in Processes, Initialize(p) PROVE Numbers'
  BY <1>1 DEF Initialize, ReadUserVersion, CreateTables, ReadColumns, AlterTable,
     CheckpointFound, CheckpointMissing, ReadEntries, InsertCheckpoint, InsertConflicts,
     StampVersion, database, history, Numbers
<1>2. ASSUME NEW p \in Processes, NEW x, AppendAudit(p, x) PROVE Numbers'
  BY <1>2 DEF AppendAudit, Numbers
<1>3. ASSUME NEW p \in Processes, FetchEntries(p) PROVE Numbers'
  <2>1. pc[p] \in Past
    BY <1>3 DEF FetchEntries, Goto, Past, Running
  <2>2. Len(journal) \in Nat
    BY <2>1, LenProperties DEF JournalTyped
  <2>3. since' = [since EXCEPT ![p] = Len(journal)] /\ verdict' = [verdict EXCEPT ![p] = None]
    BY <1>3 DEF FetchEntries
  <2> QED
    BY <1>3, <2>2, <2>3 DEF FetchEntries, database, Numbers
<1>4. ASSUME NEW p \in Processes, FetchCheckpoint(p) PROVE Numbers'
  BY <1>4 DEF FetchCheckpoint, database, history, Numbers
<1>5. ASSUME NEW p \in Processes, Crash(p) \/ Exit(p) PROVE Numbers'
  BY <1>5 DEF Crash, Exit, Stop, database, Numbers
<1>6. CASE Damage
  BY <1>6 DEF Damage, Numbers
<1>7. CASE UNCHANGED vars
  BY <1>7 DEF vars, database, history, Numbers
<1> QED
  BY <1>1, <1>2, <1>3, <1>4, <1>5, <1>6, <1>7 DEF Next, AppendRefused

LEMMA RowsTypedStep ==
  ASSUME Typed, Counted, RowsTyped, [Next]_vars
  PROVE  RowsTyped'
<1>1. ASSUME UNCHANGED audit_log, NEW p \in Processes, NEW rows,
             \A i \in DOMAIN rows : IsRow(rows[i]), entries' = [entries EXCEPT ![p] = rows]
      PROVE  RowsTyped'
  <2> SUFFICES ASSUME NEW q \in Processes, NEW i \in DOMAIN entries'[q]
               PROVE  IsRow(entries'[q][i])
    BY <1>1 DEF RowsTyped, IsRow
  <2>1. entries'[q] = IF q = p THEN rows ELSE entries[q]
    BY <1>1 DEF Typed
  <2> QED
    BY <1>1, <2>1 DEF RowsTyped
<1>2. ASSUME UNCHANGED <<audit_log, entries>> PROVE RowsTyped'
  BY <1>2 DEF RowsTyped, IsRow
<1>3. \A i \in DOMAIN audit_log : IsRow(audit_log[i])
  BY DEF RowsTyped
<1>4. \A i \in DOMAIN <<>> : IsRow(<<>>[i])
  OBVIOUS
<1>5. ASSUME NEW p \in Processes, Initialize(p) PROVE RowsTyped'
  <2>1. CASE ReadEntries(p)
    BY <1>1, <1>3, <2>1 DEF ReadEntries, database
  <2>2. CASE InsertCheckpoint(p)
    BY <1>1, <1>4, <2>2 DEF InsertCheckpoint
  <2>3. CASE ~ReadEntries(p) /\ ~InsertCheckpoint(p)
    BY <1>2, <1>5, <2>3 DEF Initialize, ReadUserVersion, CreateTables, ReadColumns,
       AlterTable, CheckpointFound, CheckpointMissing, InsertConflicts, StampVersion,
       database
  <2> QED
    BY <2>1, <2>2, <2>3
<1>6. ASSUME NEW p \in Processes, NEW x \in Payloads, AppendAudit(p, x) PROVE RowsTyped'
  <2>1. PICK cp \in audit_checkpoint :
          audit_log' = Append(audit_log, Entry(cp.entry_count + 1, x, cp.head_hash))
    BY <1>6 DEF AppendAudit
  <2> DEFINE row == Entry(cp.entry_count + 1, x, cp.head_hash)
  <2>2. IsRow(row)
    BY DEF Entry, IsRow
  <2> HIDE DEF row
  <2>3. /\ DOMAIN audit_log = 1..Len(audit_log) /\ Len(audit_log) \in Nat
        /\ DOMAIN audit_log' = 1..(Len(audit_log) + 1)
        /\ audit_log'[Len(audit_log) + 1] = row
        /\ \A i \in 1..Len(audit_log) : audit_log'[i] = audit_log[i]
    BY <2>1, AppendRow DEF Counted, row
  <2>4. entries' = entries
    BY <1>6 DEF AppendAudit
  <2>5. ASSUME NEW i \in DOMAIN audit_log' PROVE IsRow(audit_log'[i])
    BY <2>2, <2>3, <2>5 DEF RowsTyped
  <2> QED
    BY <2>4, <2>5 DEF RowsTyped
<1>7. ASSUME NEW p \in Processes, FetchEntries(p) PROVE RowsTyped'
  BY <1>1, <1>3, <1>7 DEF FetchEntries, database
<1>8. ASSUME NEW p \in Processes, FetchCheckpoint(p) PROVE RowsTyped'
  BY <1>2, <1>8 DEF FetchCheckpoint, database
<1>9. ASSUME NEW p \in Processes, Crash(p) \/ Exit(p) PROVE RowsTyped'
  BY <1>1, <1>4, <1>9 DEF Crash, Exit, Stop, database
<1>10. CASE Damage
  <2>1. CASE AlterEntry \/ DeleteEntry \/ DeleteLog
    <3>1. ASSUME NEW j \in DOMAIN audit_log' PROVE IsRow(audit_log'[j])
      <4>1. PICK k \in DOMAIN audit_log :
              \/ audit_log'[j] = audit_log[k]
              \/ \E x \in Payloads : audit_log'[j] = [audit_log[k] EXCEPT !.payload = x]
        BY <2>1, <3>1, DamagedRows DEF Counted
      <4>2. IsRow(audit_log[k])
        BY <1>3
      <4> QED
        BY <4>1, <4>2 DEF IsRow
    <3>2. entries' = entries
      BY <1>10 DEF Damage
    <3> QED
      BY <3>1, <3>2 DEF RowsTyped
  <2>2. CASE AlterCheckpoint \/ ReplaceHead \/ DeleteCheckpoint
    BY <1>2, <1>10, <2>2 DEF Damage, AlterCheckpoint, ReplaceHead, DeleteCheckpoint
  <2> QED
    BY <1>10, <2>1, <2>2 DEF Damage
<1>11. CASE UNCHANGED vars
  BY <1>2, <1>11 DEF vars, database
<1> QED
  BY <1>5, <1>6, <1>7, <1>8, <1>9, <1>10, <1>11 DEF Next, AppendRefused

(* The payloads of typed rows are a sequence of payloads.                  *)
LEMMA PayloadsTyped ==
  ASSUME NEW rows, IsLog(rows), \A i \in DOMAIN rows : IsRow(rows[i])
  PROVE  PayloadsOf(rows) \in Seq(Payloads)
<1>1. Len(rows) \in Nat /\ DOMAIN rows = 1..Len(rows)
  BY AppendRow
<1> QED
  BY <1>1 DEF PayloadsOf, IsRow

LEMMA JournalTypedStep ==
  ASSUME Typed, Counted, RowsTyped, JournalTyped, [Next]_vars
  PROVE  JournalTyped'
<1>1. ASSUME NEW p \in Processes, NEW to, pc' = [pc EXCEPT ![p] = to],
             to \in Past => established > 0, UNCHANGED <<journal, established>>
      PROVE  JournalTyped'
  BY <1>1 DEF JournalTyped, Typed
<1>2. audit_checkpoint # {} => established > 0
  BY DEF Counted
<1>3. ASSUME NEW p \in Processes, Initialize(p) PROVE JournalTyped'
  <2>1. CASE InsertCheckpoint(p)
    <3>1. /\ journal' = IF journal # None THEN journal ELSE PayloadsOf(entries[p])
          /\ established' = established + 1
      BY <2>1 DEF InsertCheckpoint
    <3>2. PayloadsOf(entries[p]) \in Seq(Payloads)
      BY PayloadsTyped DEF Counted, RowsTyped
    <3>3. established' > 0
      BY <3>1 DEF Counted
    <3>4. journal' \in Seq(Payloads)
      <4>1. CASE established = 0
        BY <3>1, <3>2, <4>1 DEF Counted
      <4>2. CASE established > 0
        BY <3>1, <3>2, <4>2 DEF JournalTyped
      <4> QED
        BY <4>1, <4>2 DEF Counted
    <3> QED
      BY <3>3, <3>4 DEF JournalTyped
  <2>2. CASE StampVersion(p)
    <3>1. established > 0 /\ pc' = [pc EXCEPT ![p] = "ready"]
      BY <2>2 DEF StampVersion, Goto, JournalTyped, Past
    <3> QED
      BY <1>1, <2>2, <3>1 DEF StampVersion, history
  <2>3. CASE CheckpointFound(p)
    BY <1>1, <1>2, <2>3 DEF CheckpointFound, Goto, history
  <2>4. CASE ReadUserVersion(p) \/ CreateTables(p) \/ ReadColumns(p) \/ AlterTable(p)
    BY <1>1, <2>4 DEF ReadUserVersion, CreateTables, ReadColumns, AlterTable, Goto, history,
       Past, Running
  <2>5. CASE CheckpointMissing(p) \/ ReadEntries(p) \/ InsertConflicts(p)
    BY <1>1, <2>5 DEF CheckpointMissing, ReadEntries, InsertConflicts, Goto, history,
       Past, Running
  <2> QED
    BY <1>3, <2>1, <2>2, <2>3, <2>4, <2>5 DEF Initialize
<1>4. ASSUME NEW p \in Processes, NEW x \in Payloads, AppendAudit(p, x) PROVE JournalTyped'
  <2>1. /\ journal' = Append(journal, x) /\ audit_checkpoint # {}
        /\ UNCHANGED <<pc, established>>
    BY <1>4 DEF AppendAudit
  <2> QED
    BY <1>2, <2>1, AppendProperties DEF JournalTyped
<1>5. ASSUME NEW p \in Processes, FetchEntries(p) \/ FetchCheckpoint(p) PROVE JournalTyped'
  <2>1. established > 0
    BY <1>5 DEF FetchEntries, FetchCheckpoint, Goto, JournalTyped, Past, Running
  <2> QED
    BY <1>1, <1>5, <2>1 DEF FetchEntries, FetchCheckpoint, Goto, history
<1>6. ASSUME NEW p \in Processes, Crash(p) \/ Exit(p) PROVE JournalTyped'
  BY <1>1, <1>6 DEF Crash, Exit, Stop, Past, Running
<1>7. CASE Damage
  BY <1>7 DEF Damage, JournalTyped
<1>8. CASE UNCHANGED vars
  BY <1>8 DEF vars, history, JournalTyped
<1> QED
  BY <1>3, <1>4, <1>5, <1>6, <1>7, <1>8 DEF Next, AppendRefused

WellTyped == Numbers /\ RowsTyped /\ JournalTyped

LEMMA InitWellTyped == Init => Counted /\ WellTyped
<1> SUFFICES ASSUME Init PROVE Counted /\ WellTyped
  OBVIOUS
<1>1. IsLog(audit_log)
  BY InitChain DEF IInv, Anchored, Init
<1>2. Counted
  BY <1>1 DEF Init, Counted, IsLog
<1>3. Numbers
  <2>1. /\ verdict = [p \in Processes |-> verdict[p]]
        /\ since \in [Processes -> Nat] /\ prior \in [Processes -> {0, SchemaVersion}]
    BY DEF Init
  <2>2. user_version = 0 /\ tables \in BOOLEAN /\ has_version \in BOOLEAN
    BY DEF Init
  <2> QED
    BY <2>1, <2>2 DEF Numbers
<1>5. JournalTyped
  BY DEF Init, JournalTyped, Past, Running
<1>4. RowsTyped
  <2>1. PICK n \in {0, 1}, x \in Payloads : audit_log = LegacyLog(n, x)
    BY DEF Init
  <2>2. CASE audit_log = <<>>
    BY <2>2 DEF Init, RowsTyped
  <2>3. CASE audit_log = <<Entry(1, x, ZeroHash)>>
    <3>1. DOMAIN audit_log = {1} /\ audit_log[1] = Entry(1, x, ZeroHash)
      BY <2>3
    <3>2. IsRow(Entry(1, x, ZeroHash))
      BY DEF IsRow, Entry
    <3> QED
      BY <3>1, <3>2 DEF Init, RowsTyped
  <2> QED
    BY <2>1, <2>2, <2>3 DEF LegacyLog
<1> QED
  BY <1>2, <1>3, <1>4, <1>5 DEF WellTyped

(* The inductive invariant for damaged and undamaged logs.                 *)
LEMMA TypesInvariant == Spec => [](Typed /\ Counted /\ WellTyped)
<1>1. Init => Typed /\ Counted /\ WellTyped
  BY InitChain, InitWellTyped DEF IInv
<1>2. Typed /\ Counted /\ WellTyped /\ [Next]_vars => (Typed /\ Counted /\ WellTyped)'
  BY TypedStep, CountedStep, NumbersStep, RowsTypedStep, JournalTypedStep DEF WellTyped
<1> QED
  BY <1>1, <1>2, PTL DEF Spec

(* The types: the versions that PRAGMA user_version can hold and, from the *)
(* first checkpoint on, a journal of payloads.                             *)
THEOREM AuditTypes == Spec => []TypeOK
<1>1. Typed /\ Counted /\ WellTyped => TypeOK
  <2> SUFFICES ASSUME Typed, Counted, WellTyped PROVE TypeOK
    OBVIOUS
  <2>1. journal = None \/ journal \in Seq(Payloads)
    BY DEF Counted, WellTyped, JournalTyped
  <2> QED
    BY <2>1 DEF TypeOK, Typed, Counted, WellTyped, Numbers, Steps
<1> QED
  BY <1>1, TypesInvariant, PTL

-----------------------------------------------------------------------------
(* What a verdict tells of a log that may be damaged.                      *)

\* The row's HMAC is over what was appended with its id.
Genuine(row, appended) ==
  /\ row.id \in DOMAIN appended
  /\ row.entry_hash = EntryHash(row.id, appended[row.id], row.previous_hash)

\* The row of an older schema, perhaps with another payload.
LegacyRow(row, x) == row.id = 1 /\ row.entry_hash = EntryHash(1, x, row.previous_hash)

\* Before the first checkpoint, log and fetched rows descend from one row, and
\* who inserts the checkpoint has fetched as many sound rows as there are.
BeforeFirst ==
  \E x \in Payloads :
    /\ \A i \in DOMAIN audit_log : LegacyRow(audit_log[i], x)
    /\ \A p \in Processes : pc[p] = "insert" =>
         /\ AllSound(entries[p])
         /\ Len(audit_log) <= Len(entries[p])
         /\ \A i \in DOMAIN entries[p] : LegacyRow(entries[p][i], x)

\* What a reader fetched is genuine, and is not older than it thinks.
ReaderTruthful(p) ==
  /\ pc[p] \in Running /\ since[p] <= Len(journal)
  /\ \A i \in DOMAIN entries[p] : Genuine(entries[p][i], journal)

VerdictTrue(p) ==
  /\ \A i \in 1..verdict[p].entries_checked :
       i \in DOMAIN journal /\ entries[p][i].payload = journal[i]
  /\ verdict[p].valid => verdict[p].entries_checked >= since[p]

\* After it, every row was appended, or was there when it was inserted.
AfterFirst ==
  /\ \A i \in DOMAIN audit_log : Genuine(audit_log[i], journal)
  /\ \A p \in Processes : Reading(p) => ReaderTruthful(p)
  /\ \A p \in Processes : verdict[p] # None => VerdictTrue(p)

Truthful ==
  /\ established = 0 => BeforeFirst
  /\ established = 1 => AfterFirst
  /\ \A p \in Processes : Reading(p) => pc[p] \in Running

(* A sound row is genuine only with the payload that was appended.         *)
LEMMA SoundIsGenuine ==
  ASSUME NEW rows, NEW i, NEW appended, Sound(rows, i), Genuine(rows[i], appended)
  PROVE  i \in DOMAIN appended /\ rows[i].payload = appended[i]
  BY DEF Sound, Genuine, EntryHash

(* A set of numbers has a least one.                                       *)
LEMMA LeastNatural ==
  ASSUME NEW T \in SUBSET Nat, T # {}
  PROVE  \E m \in T : \A k \in T : ~(k < m)
<1>1. IsWellFoundedOn(OpToRel(<, Nat), Nat)
  BY NatLessThanWellFounded, Zenon
<1>2. PICK m \in T : \A k \in T : ~(<<k, m>> \in OpToRel(<, Nat))
  BY <1>1, WFMin, Zenon
<1>3. \A k \in T : k < m => <<k, m>> \in OpToRel(<, Nat)
  BY Zenon DEF OpToRel
<1> QED
  BY <1>2, <1>3, Zenon

(* verify_audit finds the first row that is not sound.                     *)
LEMMA FirstUnsoundIsFirst ==
  ASSUME NEW rows, IsLog(rows), ~AllSound(rows)
  PROVE  /\ FirstUnsound(rows) \in DOMAIN rows
         /\ \A j \in 1..(FirstUnsound(rows) - 1) : Sound(rows, j)
<1>1. Len(rows) \in Nat /\ DOMAIN rows = 1..Len(rows)
  BY AppendRow
<1> DEFINE Bad == {i \in DOMAIN rows : ~Sound(rows, i)}
<1>2. Bad \in SUBSET Nat /\ Bad # {}
  BY <1>1 DEF AllSound
<1>3. PICK m \in Bad : \A k \in Bad : ~(k < m)
  BY <1>2, LeastNatural
<1>4. \A j \in 1..(m - 1) : Sound(rows, j)
  BY <1>1, <1>3
<1> QED
  BY <1>3, <1>4 DEF FirstUnsound

(* A verdict on genuine rows with a checkpoint that counts what was        *)
(* appended tells the truth.                                               *)
LEMMA VerifyTruthful ==
  ASSUME NEW rows, NEW checkpoints, NEW appended, IsLog(rows),
         \A i \in DOMAIN rows : Genuine(rows[i], appended),
         \A cp \in checkpoints : cp.entry_count = Len(appended)
  PROVE  LET result == Verify(rows, checkpoints) IN
         /\ \A i \in 1..result.entries_checked :
              i \in DOMAIN appended /\ rows[i].payload = appended[i]
         /\ result.valid => result.entries_checked = Len(appended)
<1> DEFINE result == Verify(rows, checkpoints)
           cp == CHOOSE c \in checkpoints : TRUE
<1> SUFFICES /\ \A i \in 1..result.entries_checked :
                  i \in DOMAIN appended /\ rows[i].payload = appended[i]
             /\ result.valid => result.entries_checked = Len(appended)
  OBVIOUS
<1>1. Len(rows) \in Nat /\ DOMAIN rows = 1..Len(rows)
  BY AppendRow
<1>2. ASSUME NEW n \in 0..Len(rows), \A j \in 1..n : Sound(rows, j)
      PROVE  \A i \in 1..n : i \in DOMAIN appended /\ rows[i].payload = appended[i]
  <2> SUFFICES ASSUME NEW i \in 1..n
               PROVE  i \in DOMAIN appended /\ rows[i].payload = appended[i]
    OBVIOUS
  <2>1. Sound(rows, i) /\ Genuine(rows[i], appended)
    BY <1>1, <1>2
  <2> QED
    BY ONLY <2>1, SoundIsGenuine
<1>3. CASE checkpoints = {} \/ ~Authentic(cp)
  <2>1. result = Result(FALSE, 0, None)
    BY <1>3 DEF Verify
  <2>2. result.entries_checked = 0 /\ result.valid = FALSE
    BY <2>1 DEF Result
  <2> QED
    BY <2>2
<1>4. CASE ~(checkpoints = {} \/ ~Authentic(cp)) /\ ~AllSound(rows)
  <2>1. result = Result(FALSE, FirstUnsound(rows) - 1, rows[FirstUnsound(rows)].id)
    BY <1>4 DEF Verify
  <2>2. result.entries_checked = FirstUnsound(rows) - 1 /\ result.valid = FALSE
    BY <2>1 DEF Result
  <2>3. PICK n \in 0..Len(rows) : /\ n = FirstUnsound(rows) - 1
                                  /\ \A j \in 1..n : Sound(rows, j)
    BY <1>1, <1>4, FirstUnsoundIsFirst
  <2> HIDE DEF result
  <2>4. \A i \in 1..n : i \in DOMAIN appended /\ rows[i].payload = appended[i]
    BY <1>2, <2>3
  <2> QED
    BY <2>2, <2>3, <2>4
<1>5. CASE ~(checkpoints = {} \/ ~Authentic(cp)) /\ AllSound(rows)
  <2>1. \A j \in 1..Len(rows) : Sound(rows, j)
    BY <1>1, <1>5 DEF AllSound
  <2>2. PICK first : \/ result = Result(FALSE, Len(rows), first)
                     \/ result = Result(TRUE, Len(rows), first) /\ Len(rows) = cp.entry_count
    BY <1>5 DEF Verify
  <2>3. /\ result.entries_checked = Len(rows)
        /\ result.valid => Len(rows) = cp.entry_count
    BY <2>2 DEF Result
  <2>4. cp.entry_count = Len(appended)
    BY <1>5
  <2>5. \A i \in 1..Len(rows) : i \in DOMAIN appended /\ rows[i].payload = appended[i]
    BY <1>1, <1>2, <2>1
  <2> HIDE DEF result, cp
  <2> QED
    BY <2>3, <2>4, <2>5
<1> QED
  BY <1>3, <1>4, <1>5

LEMMA ReadersRun ==
  ASSUME Typed, Numbers, \A p \in Processes : Reading(p) => pc[p] \in Running, [Next]_vars
  PROVE  \A p \in Processes : Reading(p)' => pc'[p] \in Running
<1>1. ASSUME NEW p \in Processes, NEW from, NEW to, Goto(p, from, to),
             from \in Running => to \in Running, to # "verifying" \/ from \in Running,
             UNCHANGED verdict
      PROVE  \A q \in Processes : Reading(q)' => pc'[q] \in Running
  BY <1>1 DEF Goto, Reading, Typed, Running
<1>2. ASSUME NEW p \in Processes, Initialize(p)
      PROVE  \A q \in Processes : Reading(q)' => pc'[q] \in Running
  <2>1. PICK from \in Initialising \cup {"down"}, to \in Steps \ {"verifying"} : Goto(p, from, to)
    BY <1>2 DEF Initialize, ReadUserVersion, CreateTables, ReadColumns, AlterTable,
       CheckpointFound, CheckpointMissing, ReadEntries, InsertCheckpoint, InsertConflicts,
       StampVersion, Goto, Steps, Initialising, Running
  <2>2. from \notin Running /\ to # "verifying"
    BY <2>1 DEF Initialising, Running
  <2>3. UNCHANGED verdict
    BY <1>2 DEF Initialize, ReadUserVersion, CreateTables, ReadColumns, AlterTable,
       CheckpointFound, CheckpointMissing, ReadEntries, InsertCheckpoint, InsertConflicts,
       StampVersion, history
  <2> QED
    BY <1>1, <2>1, <2>2, <2>3
<1>3. ASSUME NEW p \in Processes, NEW x, AppendAudit(p, x)
      PROVE  \A q \in Processes : Reading(q)' => pc'[q] \in Running
  BY <1>3 DEF AppendAudit, Reading, Numbers
<1>4. ASSUME NEW p \in Processes, FetchEntries(p) \/ FetchCheckpoint(p)
      PROVE  \A q \in Processes : Reading(q)' => pc'[q] \in Running
  BY <1>4 DEF FetchEntries, FetchCheckpoint, Goto, Reading, Numbers, Typed, Running
<1>5. ASSUME NEW p \in Processes, Crash(p) \/ Exit(p)
      PROVE  \A q \in Processes : Reading(q)' => pc'[q] \in Running
  BY <1>5 DEF Crash, Exit, Stop, Reading, Numbers, Typed
<1>6. CASE Damage
  BY <1>6 DEF Damage, Reading
<1>7. CASE UNCHANGED vars
  BY <1>7 DEF vars, Reading
<1> QED
  BY <1>2, <1>3, <1>4, <1>5, <1>6, <1>7 DEF Next, AppendRefused

(* Genuine rows stay genuine while the journal only grows, and whatever    *)
(* payloads are put into them.                                             *)
LEMMA GenuineStays ==
  ASSUME NEW row, NEW appended, NEW longer, IsRow(row), Genuine(row, appended),
         IsLog(appended), longer = appended \/ \E y : longer = Append(appended, y)
  PROVE  Genuine(row, longer) /\ \A x : Genuine([row EXCEPT !.payload = x], longer)
<1>1. row.id \in DOMAIN longer /\ longer[row.id] = appended[row.id]
  <2>1. CASE longer = appended
    BY <2>1 DEF Genuine
  <2>2. CASE \E y : longer = Append(appended, y)
    BY <2>2, AppendRow DEF Genuine
  <2> QED
    BY <2>1, <2>2
<1>2. ASSUME NEW x
      PROVE  /\ [row EXCEPT !.payload = x].id = row.id
             /\ [row EXCEPT !.payload = x].entry_hash = row.entry_hash
             /\ [row EXCEPT !.payload = x].previous_hash = row.previous_hash
  BY DEF IsRow
<1> QED
  BY <1>1, <1>2 DEF Genuine

LEMMA LegacyStays ==
  ASSUME NEW row, NEW x, NEW y, IsRow(row), LegacyRow(row, x)
  PROVE  LegacyRow([row EXCEPT !.payload = y], x)
<1>1. /\ [row EXCEPT !.payload = y].id = row.id
      /\ [row EXCEPT !.payload = y].entry_hash = row.entry_hash
      /\ [row EXCEPT !.payload = y].previous_hash = row.previous_hash
  BY DEF IsRow
<1> QED
  BY <1>1 DEF LegacyRow

(* Until the first checkpoint, the rows only get fewer.                    *)
LEMMA BeforeFirstStep ==
  ASSUME Typed, Counted, RowsTyped, JournalTyped, BeforeFirst, established = 0,
         [Next]_vars, established' = 0
  PROVE  BeforeFirst'
<1>1. PICK x \in Payloads :
        /\ \A i \in DOMAIN audit_log : LegacyRow(audit_log[i], x)
        /\ \A p \in Processes : pc[p] = "insert" =>
             /\ AllSound(entries[p])
             /\ Len(audit_log) <= Len(entries[p])
             /\ \A i \in DOMAIN entries[p] : LegacyRow(entries[p][i], x)
  BY DEF BeforeFirst
<1>2. audit_checkpoint = {} /\ \A p \in Processes : pc[p] \notin Past
  BY DEF Counted, JournalTyped
<1>3. Len(audit_log) \in Nat
  BY AppendRow DEF Counted
<1>4. ASSUME UNCHANGED audit_log, NEW p \in Processes, NEW to, pc' = [pc EXCEPT ![p] = to],
             \A q \in Processes \ {p} : entries'[q] = entries[q],
             to = "insert" => entries'[p] = audit_log /\ AllSound(audit_log)
      PROVE  BeforeFirst'
  <2> SUFFICES ASSUME NEW q \in Processes, pc'[q] = "insert"
               PROVE  /\ AllSound(entries'[q])
                      /\ Len(audit_log') <= Len(entries'[q])
                      /\ \A i \in DOMAIN entries'[q] : LegacyRow(entries'[q][i], x)
    BY <1>1, <1>4 DEF BeforeFirst, AllSound, Sound, HashAt, LegacyRow
  <2>1. CASE q = p
    <3>1. entries'[q] = audit_log
      BY <1>4, <2>1 DEF Typed
    <3>2. AllSound(audit_log)
      BY <1>4, <2>1 DEF Typed
    <3> QED
      BY <1>1, <1>3, <1>4, <3>1, <3>2
  <2>2. CASE q # p
    <3>1. entries'[q] = entries[q] /\ pc[q] = "insert"
      BY <1>4, <2>2 DEF Typed
    <3> QED
      BY <1>1, <1>4, <3>1
  <2> QED
    BY <2>1, <2>2
<1>5. ASSUME NEW p \in Processes, Initialize(p) PROVE BeforeFirst'
  <2>1. ~InsertCheckpoint(p) /\ ~StampVersion(p) /\ ~CheckpointFound(p) /\ ~InsertConflicts(p)
    BY <1>2 DEF InsertCheckpoint, StampVersion, CheckpointFound, InsertConflicts, Goto, Past
  <2>2. CASE ReadEntries(p)
    <3> DEFINE to == IF AllSound(audit_log) THEN "insert" ELSE "failed"
    <3>1. /\ pc' = [pc EXCEPT ![p] = to] /\ entries' = [entries EXCEPT ![p] = audit_log]
          /\ UNCHANGED audit_log
      BY <2>2 DEF ReadEntries, Goto, database
    <3>2. entries'[p] = audit_log /\ \A q \in Processes \ {p} : entries'[q] = entries[q]
      BY <3>1 DEF Typed
    <3>3. to = "insert" => AllSound(audit_log)
      OBVIOUS
    <3> HIDE DEF to
    <3> QED
      BY <1>4, <3>1, <3>2, <3>3
  <2>3. CASE ~ReadEntries(p)
    <3>1. PICK to \in Steps \ {"insert"} : pc' = [pc EXCEPT ![p] = to]
      BY <1>5, <2>1, <2>3 DEF Initialize, ReadUserVersion, CreateTables, ReadColumns,
         AlterTable, CheckpointMissing, Goto, Steps, Initialising
    <3>2. UNCHANGED <<audit_log, entries>>
      BY <1>5, <2>1, <2>3 DEF Initialize, ReadUserVersion, CreateTables, ReadColumns,
         AlterTable, CheckpointMissing, database
    <3> QED
      BY <1>4, <3>1, <3>2
  <2> QED
    BY <2>2, <2>3
<1>6. ASSUME NEW p \in Processes, NEW y, AppendAudit(p, y) PROVE FALSE
  BY <1>2, <1>6 DEF AppendAudit
<1>7. ASSUME NEW p \in Processes, FetchEntries(p) \/ FetchCheckpoint(p) PROVE FALSE
  BY <1>2, <1>7 DEF FetchEntries, FetchCheckpoint, Goto, Past, Running
<1>8. ASSUME NEW p \in Processes, Crash(p) \/ Exit(p) PROVE BeforeFirst'
  <2>1. /\ pc' = [pc EXCEPT ![p] = "down"] /\ UNCHANGED audit_log
        /\ \A q \in Processes \ {p} : entries'[q] = entries[q]
    BY <1>8 DEF Crash, Exit, Stop, database, Typed
  <2> QED
    BY <1>4, <2>1
<1>9. CASE Damage
  <2>1. UNCHANGED <<pc, entries>>
    BY <1>9 DEF Damage
  <2>2. Len(audit_log') <= Len(audit_log) /\ Len(audit_log') \in Nat
        /\ \A j \in DOMAIN audit_log' : LegacyRow(audit_log'[j], x)
    <3>1. CASE AlterEntry \/ DeleteEntry \/ DeleteLog
      <4>1. Len(audit_log') <= Len(audit_log)
        BY <3>1, DamagedRows DEF Counted
      <4>2. Len(audit_log') \in Nat
        BY <3>1, DamagedLog, AppendRow DEF Counted, IsLog
      <4>3. ASSUME NEW j \in DOMAIN audit_log' PROVE LegacyRow(audit_log'[j], x)
        <5>1. PICK k \in DOMAIN audit_log :
                \/ audit_log'[j] = audit_log[k]
                \/ \E y \in Payloads : audit_log'[j] = [audit_log[k] EXCEPT !.payload = y]
          BY <3>1, <4>3, DamagedRows DEF Counted
        <5>2. IsRow(audit_log[k]) /\ LegacyRow(audit_log[k], x)
          BY <1>1 DEF RowsTyped
        <5> QED
          BY <5>1, <5>2, LegacyStays
      <4> QED
        BY <4>1, <4>2, <4>3
    <3>2. CASE AlterCheckpoint \/ ReplaceHead \/ DeleteCheckpoint
      BY <1>1, <1>3, <3>2 DEF AlterCheckpoint, ReplaceHead, DeleteCheckpoint
    <3> QED
      BY <1>9, <3>1, <3>2 DEF Damage
  <2>3. ASSUME NEW p \in Processes, pc'[p] = "insert"
        PROVE  /\ AllSound(entries'[p])
               /\ Len(audit_log') <= Len(entries'[p])
               /\ \A i \in DOMAIN entries'[p] : LegacyRow(entries'[p][i], x)
    <3>1. Len(entries[p]) \in Nat
      BY AppendRow DEF Counted
    <3> QED
      BY <1>1, <1>3, <2>1, <2>2, <2>3, <3>1
  <2> QED
    BY <2>2, <2>3 DEF BeforeFirst, AllSound, Sound, HashAt, LegacyRow
<1>10. CASE UNCHANGED vars
  <2>1. UNCHANGED <<audit_log, entries, pc>>
    BY <1>10 DEF vars, database
  <2> QED
    BY <1>1, <2>1 DEF BeforeFirst, AllSound, Sound, HashAt, LegacyRow
<1> QED
  BY <1>5, <1>6, <1>7, <1>8, <1>9, <1>10 DEF Next, AppendRefused

(* The first checkpoint makes the journal of the rows that it covers.      *)
LEMMA FirstCheckpoint ==
  ASSUME Typed, Counted, JournalTyped, BeforeFirst, established = 0,
         NEW p \in Processes, InsertCheckpoint(p),
         \A q \in Processes : Reading(q) => pc[q] \in Running
  PROVE  AfterFirst'
<1>1. PICK x \in Payloads :
        /\ \A i \in DOMAIN audit_log : LegacyRow(audit_log[i], x)
        /\ \A q \in Processes : pc[q] = "insert" =>
             /\ AllSound(entries[q])
             /\ Len(audit_log) <= Len(entries[q])
             /\ \A i \in DOMAIN entries[q] : LegacyRow(entries[q][i], x)
  BY DEF BeforeFirst
<1>2. /\ pc[p] = "insert" /\ pc' = [pc EXCEPT ![p] = "stamp"]
      /\ journal' = PayloadsOf(entries[p])
      /\ UNCHANGED <<audit_log, verdict>>
  BY DEF InsertCheckpoint, Goto, Counted
<1>3. /\ Len(audit_log) \in Nat /\ DOMAIN audit_log = 1..Len(audit_log)
      /\ Len(entries[p]) \in Nat /\ DOMAIN entries[p] = 1..Len(entries[p])
  BY AppendRow DEF Counted
<1>4. ASSUME NEW i \in DOMAIN audit_log' PROVE Genuine(audit_log'[i], journal')
  <2>1. 1 \in DOMAIN entries[p]
    BY <1>1, <1>2, <1>3, <1>4
  <2>2. LegacyRow(entries[p][1], x) /\ Sound(entries[p], 1)
    BY <1>1, <1>2, <2>1 DEF AllSound
  <2>3. entries[p][1].payload = x
    BY <2>2 DEF LegacyRow, Sound, EntryHash
  <2>4. 1 \in DOMAIN journal' /\ journal'[1] = x
    BY <1>2, <2>1, <2>3 DEF PayloadsOf
  <2>5. LegacyRow(audit_log'[i], x)
    BY <1>1, <1>2
  <2> QED
    BY <2>4, <2>5 DEF LegacyRow, Genuine
<1>5. ASSUME NEW q \in Processes PROVE ~Reading(q)'
  <2>1. pc[q] \notin Running
    BY DEF JournalTyped, Past
  <2>2. pc'[q] # "verifying"
    BY <1>2, <2>1 DEF Typed, Running
  <2>3. verdict'[q] = None
    BY <1>2, <2>1 DEF Reading
  <2> QED
    BY <2>2, <2>3 DEF Reading
<1> QED
  BY <1>4, <1>5 DEF AfterFirst, Reading

(* From then on, what is read and what is concluded stays true.            *)
LEMMA AfterFirstStep ==
  ASSUME Typed, Counted, Numbers, RowsTyped, JournalTyped, AfterFirst, established = 1,
         [Next]_vars, established' = 1
  PROVE  AfterFirst'
<1> DEFINE Grows == journal' = journal \/ \E x : journal' = Append(journal, x)
<1>1. IsLog(journal) /\ Len(journal) \in Nat /\ DOMAIN journal = 1..Len(journal)
  BY AppendRow DEF Counted
<1>2. ASSUME NEW row, IsRow(row), Genuine(row, journal), Grows
      PROVE  Genuine(row, journal') /\ \A x : Genuine([row EXCEPT !.payload = x], journal')
  BY ONLY <1>1, <1>2, GenuineStays
<1>3. ASSUME Grows
      PROVE  /\ Len(journal) <= Len(journal')
             /\ \A i \in DOMAIN journal : i \in DOMAIN journal' /\ journal'[i] = journal[i]
  BY <1>1, <1>3, AppendRow
\* A process whose verification goes on, or that keeps its verdict.
<1>4. ASSUME Grows, NEW q \in Processes, Reading(q), pc'[q] = pc[q],
             entries'[q] = entries[q], since'[q] = since[q]
      PROVE  /\ pc'[q] \in Running /\ since'[q] <= Len(journal')
             /\ \A i \in DOMAIN entries'[q] : Genuine(entries'[q][i], journal')
  <2>1. ReaderTruthful(q)
    BY <1>4 DEF AfterFirst
  <2>2. since[q] <= Len(journal') /\ since[q] \in Nat
    <3>1. Len(journal') \in Nat
      BY <1>1, <1>4, AppendRow
    <3>2. since[q] \in Nat /\ since[q] <= Len(journal)
      BY <2>1 DEF Numbers, ReaderTruthful
    <3> QED
      BY <1>1, <1>3, <1>4, <3>1, <3>2
  <2>3. ASSUME NEW i \in DOMAIN entries[q] PROVE Genuine(entries[q][i], journal')
    <3>1. IsRow(entries[q][i]) /\ Genuine(entries[q][i], journal)
      BY <2>1 DEF RowsTyped, ReaderTruthful
    <3> QED
      BY <1>2, <1>4, <3>1
  <2> QED
    BY <1>4, <2>1, <2>2, <2>3 DEF ReaderTruthful
<1>5. ASSUME Grows, NEW q \in Processes, verdict[q] # None, verdict'[q] = verdict[q],
             entries'[q] = entries[q], since'[q] = since[q]
      PROVE  VerdictTrue(q)'
  BY <1>3, <1>5 DEF AfterFirst, VerdictTrue
<1>6. ASSUME Grows, \A i \in DOMAIN audit_log' : Genuine(audit_log'[i], journal'),
             NEW p \in Processes,
             \A q \in Processes \ {p} : /\ pc'[q] = pc[q] /\ entries'[q] = entries[q]
                                        /\ since'[q] = since[q] /\ verdict'[q] = verdict[q],
             Reading(p)' => ReaderTruthful(p)',
             verdict'[p] # None => VerdictTrue(p)'
      PROVE  AfterFirst'
  <2>1. ASSUME NEW q \in Processes \ {p}, Reading(q)' PROVE ReaderTruthful(q)'
    <3>1. Reading(q)
      BY <1>6, <2>1 DEF Reading
    <3> QED
      BY <1>4, <1>6, <3>1 DEF ReaderTruthful
  <2>2. ASSUME NEW q \in Processes \ {p}, verdict'[q] # None PROVE VerdictTrue(q)'
    BY <1>5, <1>6, <2>2
  <2> QED
    BY <1>6, <2>1, <2>2 DEF AfterFirst
<1>7. \A i \in DOMAIN audit_log : IsRow(audit_log[i]) /\ Genuine(audit_log[i], journal)
  BY DEF RowsTyped, AfterFirst
<1>8. ASSUME UNCHANGED <<journal, audit_log>>
      PROVE  Grows /\ \A i \in DOMAIN audit_log' : Genuine(audit_log'[i], journal')
  BY <1>7, <1>8
<1>9. ASSUME NEW p \in Processes, Initialize(p) PROVE AfterFirst'
  <2>1. ~InsertCheckpoint(p)
    BY DEF InsertCheckpoint
  <2>2. PICK from \in Initialising \cup {"down"}, to \in Steps \ {"verifying"} : Goto(p, from, to)
    BY <1>9 DEF Initialize, ReadUserVersion, CreateTables, ReadColumns, AlterTable,
       CheckpointFound, CheckpointMissing, ReadEntries, InsertCheckpoint, InsertConflicts,
       StampVersion, Goto, Steps, Initialising, Running
  <2>3. /\ UNCHANGED <<journal, audit_log, since, verdict>>
        /\ \A q \in Processes \ {p} : entries'[q] = entries[q]
    BY <1>9, <2>1 DEF Initialize, ReadUserVersion, CreateTables, ReadColumns, AlterTable,
       CheckpointFound, CheckpointMissing, ReadEntries, InsertConflicts,
       StampVersion, database, history, Typed
  <2>4. pc[p] \notin Running /\ pc'[p] # "verifying"
        /\ \A q \in Processes \ {p} : pc'[q] = pc[q]
    BY <2>2 DEF Goto, Initialising, Running, Typed
  <2>5. ~Reading(p)' /\ verdict'[p] = None
    <3>1. ~Reading(p)
      BY <2>4 DEF AfterFirst, ReaderTruthful
    <3> QED
      BY <2>3, <2>4, <3>1 DEF Reading
  <2> QED
    BY <1>6, <1>8, <2>3, <2>4, <2>5
<1>10. ASSUME NEW p \in Processes, NEW x \in Payloads, AppendAudit(p, x) PROVE AfterFirst'
  <2>1. PICK cp \in audit_checkpoint :
          audit_log' = Append(audit_log, Entry(cp.entry_count + 1, x, cp.head_hash))
    BY <1>10 DEF AppendAudit
  <2> DEFINE row == Entry(cp.entry_count + 1, x, cp.head_hash)
  <2>2. /\ journal' = Append(journal, x) /\ UNCHANGED <<pc, entries, since>>
        /\ verdict' = [verdict EXCEPT ![p] = None] /\ pc[p] = "ready"
    BY <1>10 DEF AppendAudit
  <2>3. /\ DOMAIN journal' = 1..(Len(journal) + 1) /\ journal'[Len(journal) + 1] = x
    BY <1>1, <2>2, AppendRow
  <2>4. cp.entry_count = Len(journal)
    BY DEF Counted
  <2>5. Genuine(row, journal')
    BY <1>1, <2>3, <2>4 DEF Genuine, Entry
  <2> HIDE DEF row
  <2>6. /\ Len(audit_log) \in Nat /\ DOMAIN audit_log = 1..Len(audit_log)
        /\ DOMAIN audit_log' = 1..(Len(audit_log) + 1)
        /\ audit_log'[Len(audit_log) + 1] = row
        /\ \A i \in 1..Len(audit_log) : audit_log'[i] = audit_log[i]
    BY <2>1, AppendRow DEF Counted, row
  <2>7. ASSUME NEW i \in DOMAIN audit_log' PROVE Genuine(audit_log'[i], journal')
    <3>1. CASE i \in 1..Len(audit_log)
      <4>1. audit_log'[i] = audit_log[i] /\ Genuine(audit_log[i], journal) /\ IsRow(audit_log[i])
        BY <1>7, <2>6, <3>1
      <4> QED
        BY <1>2, <2>2, <4>1
    <3>2. CASE i = Len(audit_log) + 1
      BY <2>5, <2>6, <3>2
    <3> QED
      BY <2>6, <2>7, <3>1, <3>2
  <2>8. verdict'[p] = None /\ \A q \in Processes \ {p} : verdict'[q] = verdict[q]
    BY <2>2 DEF Numbers
  <2>9. ~Reading(p)'
    BY <2>2, <2>8 DEF Reading
  <2> QED
    BY <1>6, <2>2, <2>7, <2>8, <2>9
<1>11. ASSUME NEW p \in Processes, FetchEntries(p) PROVE AfterFirst'
  <2>1. /\ pc' = [pc EXCEPT ![p] = "verifying"] /\ entries' = [entries EXCEPT ![p] = audit_log]
        /\ since' = [since EXCEPT ![p] = Len(journal)]
        /\ verdict' = [verdict EXCEPT ![p] = None]
        /\ UNCHANGED <<journal, audit_log>>
    BY <1>11 DEF FetchEntries, Goto, database
  <2>2. /\ pc'[p] = "verifying" /\ entries'[p] = audit_log
        /\ since'[p] = Len(journal) /\ verdict'[p] = None
        /\ \A q \in Processes \ {p} : /\ pc'[q] = pc[q] /\ entries'[q] = entries[q]
                                      /\ since'[q] = since[q] /\ verdict'[q] = verdict[q]
    BY <2>1 DEF Typed, Numbers
  <2>3. ReaderTruthful(p)'
    BY <1>1, <1>7, <2>1, <2>2 DEF ReaderTruthful, Running
  <2> QED
    BY <1>6, <1>8, <2>1, <2>2, <2>3
<1>12. ASSUME NEW p \in Processes, FetchCheckpoint(p) PROVE AfterFirst'
  <2>1. /\ pc[p] = "verifying" /\ pc' = [pc EXCEPT ![p] = "ready"]
        /\ verdict' = [verdict EXCEPT ![p] = Verify(entries[p], audit_checkpoint)]
        /\ UNCHANGED <<journal, audit_log, entries, since>>
    BY <1>12 DEF FetchCheckpoint, Goto, database, history
  <2>2. /\ verdict'[p] = Verify(entries[p], audit_checkpoint) /\ pc'[p] = "ready"
        /\ \A q \in Processes \ {p} : /\ pc'[q] = pc[q] /\ entries'[q] = entries[q]
                                      /\ since'[q] = since[q] /\ verdict'[q] = verdict[q]
    BY <2>1 DEF Typed, Numbers
  <2>3. ReaderTruthful(p)
    BY <2>1 DEF AfterFirst, Reading
  <2>4. ReaderTruthful(p)'
    BY <2>1, <2>2, <2>3 DEF ReaderTruthful, Running
  <2> DEFINE result == Verify(entries[p], audit_checkpoint)
  <2>5. /\ \A i \in 1..result.entries_checked :
             i \in DOMAIN journal /\ entries[p][i].payload = journal[i]
        /\ result.valid => result.entries_checked = Len(journal)
    <3>1. IsLog(entries[p]) /\ \A i \in DOMAIN entries[p] : Genuine(entries[p][i], journal)
      BY <2>3 DEF Counted, ReaderTruthful
    <3>2. \A cp \in audit_checkpoint : cp.entry_count = Len(journal)
      BY DEF Counted
    <3> QED
      BY ONLY <3>1, <3>2, VerifyTruthful
  <2> HIDE DEF result
  <2>6. VerdictTrue(p)'
    <3>1. since'[p] \in Nat /\ since'[p] <= Len(journal)
      BY <2>1, <2>3 DEF ReaderTruthful, Numbers
    <3>2. verdict'[p] = result
      BY <2>2 DEF result
    <3> QED
      BY <1>1, <2>1, <2>5, <3>1, <3>2 DEF VerdictTrue
  <2> QED
    BY <1>6, <1>8, <2>1, <2>2, <2>4, <2>6
<1>13. ASSUME NEW p \in Processes, Crash(p) \/ Exit(p) PROVE AfterFirst'
  <2>1. /\ pc' = [pc EXCEPT ![p] = "down"] /\ entries' = [entries EXCEPT ![p] = <<>>]
        /\ since' = [since EXCEPT ![p] = 0] /\ verdict' = [verdict EXCEPT ![p] = None]
        /\ UNCHANGED <<journal, audit_log>>
    BY <1>13 DEF Crash, Exit, Stop, database
  <2>2. /\ pc'[p] = "down" /\ verdict'[p] = None
        /\ \A q \in Processes \ {p} : /\ pc'[q] = pc[q] /\ entries'[q] = entries[q]
                                      /\ since'[q] = since[q] /\ verdict'[q] = verdict[q]
    BY <2>1 DEF Typed, Numbers
  <2> QED
    BY <1>6, <1>8, <2>1, <2>2 DEF Reading
<1>14. ASSUME UNCHANGED <<journal, pc, entries, since, verdict>>,
              \A i \in DOMAIN audit_log' : Genuine(audit_log'[i], journal')
       PROVE  AfterFirst'
  BY <1>14 DEF AfterFirst, Reading, ReaderTruthful, VerdictTrue
<1>15. CASE Damage
  <2>1. UNCHANGED <<journal, pc, entries, since, verdict>>
    BY <1>15 DEF Damage
  <2>2. CASE AlterEntry \/ DeleteEntry \/ DeleteLog
    <3>1. ASSUME NEW j \in DOMAIN audit_log' PROVE Genuine(audit_log'[j], journal')
      <4>1. PICK k \in DOMAIN audit_log :
              \/ audit_log'[j] = audit_log[k]
              \/ \E x \in Payloads : audit_log'[j] = [audit_log[k] EXCEPT !.payload = x]
        BY <2>2, <3>1, DamagedRows DEF Counted
      <4>2. IsRow(audit_log[k]) /\ Genuine(audit_log[k], journal)
        BY <1>7
      <4> QED
        BY <1>2, <2>1, <4>1, <4>2
    <3> QED
      BY <1>14, <2>1, <3>1
  <2>3. CASE AlterCheckpoint \/ ReplaceHead \/ DeleteCheckpoint
    BY <1>7, <1>14, <2>1, <2>3 DEF AlterCheckpoint, ReplaceHead, DeleteCheckpoint
  <2> QED
    BY <1>15, <2>2, <2>3 DEF Damage
<1>16. CASE UNCHANGED vars
  BY <1>7, <1>14, <1>16 DEF vars, database, history
<1> QED
  BY <1>9, <1>10, <1>11, <1>12, <1>13, <1>15, <1>16 DEF Next, AppendRefused

(* How often a first checkpoint is inserted only grows, one by one.        *)
LEMMA EstablishedGrows ==
  ASSUME [Next]_vars
  PROVE  \/ established' = established
         \/ established' = established + 1 /\ \E p \in Processes : InsertCheckpoint(p)
<1>1. ASSUME NEW p \in Processes, InsertCheckpoint(p) PROVE established' = established + 1
  BY <1>1 DEF InsertCheckpoint
<1>2. CASE \A p \in Processes : ~InsertCheckpoint(p)
  BY <1>2 DEF Next, Initialize, ReadUserVersion, CreateTables, ReadColumns, AlterTable,
     CheckpointFound, CheckpointMissing, ReadEntries, InsertConflicts, StampVersion,
     AppendAudit, AppendRefused, FetchEntries, FetchCheckpoint, Crash, Exit, Stop, Damage,
     history, vars
<1> QED
  BY <1>1, <1>2

LEMMA TruthfulStep ==
  ASSUME Typed, Counted, WellTyped, Truthful, [Next]_vars
  PROVE  Truthful'
<1>1. \A p \in Processes : Reading(p)' => pc'[p] \in Running
  BY ReadersRun DEF WellTyped, Truthful
<1>2. ASSUME established' = 0 PROVE BeforeFirst'
  BY <1>2, EstablishedGrows, BeforeFirstStep DEF Counted, WellTyped, Truthful
<1>3. ASSUME established' = 1 PROVE AfterFirst'
  <2>1. CASE established = 1
    BY <1>3, <2>1, AfterFirstStep DEF WellTyped, Truthful
  <2>2. CASE established # 1
    <3>1. PICK p \in Processes : InsertCheckpoint(p) /\ established = 0
      BY <1>3, <2>2, EstablishedGrows DEF Counted
    <3> QED
      BY <3>1, FirstCheckpoint DEF WellTyped, Truthful
  <2> QED
    BY <2>1, <2>2
<1> QED
  BY <1>1, <1>2, <1>3 DEF Truthful

LEMMA InitTruthful == Init => Truthful
<1> SUFFICES ASSUME Init PROVE Truthful
  OBVIOUS
<1>1. PICK n \in {0, 1}, x \in Payloads : audit_log = LegacyLog(n, x)
  BY DEF Init
<1>2. ASSUME NEW i \in DOMAIN audit_log PROVE LegacyRow(audit_log[i], x)
  <2>1. CASE audit_log = <<>>
    BY <1>2, <2>1
  <2>2. CASE audit_log = <<Entry(1, x, ZeroHash)>>
    <3>1. audit_log[i] = Entry(1, x, ZeroHash)
      BY <1>2, <2>2
    <3> QED
      BY <3>1 DEF Entry, LegacyRow
  <2> QED
    BY <1>1, <2>1, <2>2 DEF LegacyLog
<1>3. BeforeFirst
  BY <1>2 DEF Init, BeforeFirst
<1>4. \A p \in Processes : ~Reading(p)
  BY DEF Init, Reading
<1> QED
  BY <1>3, <1>4 DEF Init, Truthful

(* Whatever was damaged, what verify_audit reports as checked was appended *)
(* in this order with these contents, and a valid verdict covers all that  *)
(* was appended before it began, until a checkpoint is established again.  *)
THEOREM VerdictsAreTruthful == Spec => []VerdictTruthful
<1>1. Typed /\ Counted /\ WellTyped /\ Truthful => VerdictTruthful
  <2> SUFFICES ASSUME Counted, WellTyped, Truthful,
                      NEW p \in Processes, established <= 1, verdict[p] # None
               PROVE  /\ \A i \in 1..verdict[p].entries_checked :
                           i \in DOMAIN journal /\ entries[p][i].payload = journal[i]
                      /\ verdict[p].valid => verdict[p].entries_checked >= since[p]
    BY DEF VerdictTruthful
  <2>1. pc[p] \in Running
    BY DEF Truthful, Reading
  <2>2. established = 1
    BY <2>1 DEF Counted, WellTyped, JournalTyped, Past
  <2>3. VerdictTrue(p)
    BY <2>2 DEF Truthful, AfterFirst
  <2> QED
    BY <2>3 DEF VerdictTrue
<1> QED
  BY <1>1, InitTruthful, TruthfulStep, TypesInvariant, PTL DEF Spec

=============================================================================
