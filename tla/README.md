# TLA+ verification of secure-data-clean-room

The program answers aggregate SQL questions about a private table with
differentially private numbers. A query goes through a policy engine, a guard
against differencing, a privacy ledger, a read-only dataset, a noise mechanism
and an authenticated audit log. The last three sections of this document say
what is proved, what is only model-checked, and what is not modelled.

File names without a directory are those of
`src/src/secure_data_clean_room/`.

## 1. Inventory

### Components, their state and operations

| Component | State it keeps | Operations | Source |
|---|---|---|---|
| query pipeline | none between calls; the locals of every running call | `query`, `explain` | `service.py` |
| privacy ledger | table `privacy_spend` | `reserve_budget`, `budget` | `state.py:130-191` |
| query-variant guard | table `query_history` | `guard_query_variants` | `state.py:193-246` |
| audit chain | tables `audit_log`, `audit_checkpoint`, `PRAGMA user_version` | `_initialize`, `append_audit`, `verify_audit` | `state.py:53-128, 248-452` |
| plan identity | none (pure) | `fingerprint`, `variant_structure_payload`, `semantic_filters_payload`; the release key | `models.py:72-177`, `service.py:47-49` |
| policy engine and compiler | none; the policy | `plan`, `compile` | `policy.py` |
| dataset | the SQLite file with `employees` and `dataset_metadata` | `initialize_demo_dataset`, `execute` | `database.py` |
| privacy mechanism | the noise key | `protect` | `privacy.py` |
| API, CLI, settings | none | routes, commands | `api.py`, `cli.py`, `settings.py` |
| benchmark | a state database and a dataset of its own; the files in the output directory | `run_benchmark` | `benchmark.py` |
| dashboard, scripts | none | | `src/web`, `src/scripts` |

### How they interact

The pipeline calls the others in a fixed order. The API runs every request on a
worker thread, the CLI in a process of its own, and all of them share one state
database, so the components that meet in it run concurrently: three separate
`BEGIN IMMEDIATE` transactions per query (guard, ledger, audit), each with a
connection of its own and a lock wait that may time out, with other requests in
between. The dataset file is read by all queries, without locks, created by an
API process that finds none and replaced by `init-demo`. A benchmark run is a
client of a service of its own, and a reader of the worktree while it runs.
The release fingerprint couples the ledger (what is charged once), the guard
(what counts as one variant) and the noise (what gets the same number).

### What is hard

- interleavings of the transactions of concurrent requests, and of processes
  that initialise the same database, statement by statement;
- values that are read before a lock is waited for (the clock, the schema
  version) or in another snapshot (the two SELECTs of `verify_audit`);
- partial failure: lock timeouts, exceptions that `query` does not catch,
  crashes between and inside transactions, restarts into a half-migrated file;
- limits: the budget with its tolerance, the variant table, the row limit;
- the identity of a release: what must and what must not change a fingerprint,
  from the text of the statement to the number that is returned;
- two validations of one query, before and after the charge, and an authorizer
  with a list of its own;
- a file that is unlinked and rewritten under processes that have it open;
- a benchmark whose evidence is read and written in many steps.

`PROJECT.json` lists each of these hazards at its line, with the properties that
would catch it.

### What makes each component correct

- pipeline: every received query ends; every answer is audited as given, before it
  is given;
- ledger: never over budget; one charge per release; honest snapshots; final
  refusals; equal to one indivisible operation;
- guard: a bounded table; a variant is remembered for a window; equal to one
  indivisible operation;
- audit chain: checkpoint and log agree unless something was damaged; verdicts
  are truthful; a log that lost its end is never extended; initialisation
  finally succeeds;
- identity: what shares noise is the same statistic at the same scale, and over the
  same data the same number; the same release is the same answer; ledger and guard agree
  on when two queries are one;
- policy engine: the query that runs is the one that was asked; rewordings are one
  release; nothing is planned, charged and then rejected, unless the policy grants what the
  executor does not support;
- dataset: a finished file never changes and answers whole; whoever races to
  create it, it is finished in the end;
- noise: one number per release, group and aggregate, drawn at one scale;
- benchmark: a verdict is about its case alone; evidence that verifies is of one
  run, and says what that run used.

## 2. Modules

| Module | Models | State and actions |
|---|---|---|
| `PrivacyLedger` | the ledger as its callers may think of it | `privacy_spend[p]` = releases charged to `p`; one step `ReserveBudget` |
| `VariantGuard` | the guard as its callers may think of it | `query_history`, `clock`; one step `GuardQueryVariants` at a reading that may be stale |
| `VariantWindow` | `VariantGuard` with a history of admissions | `admitted`: who was let through with what, when |
| `CleanRoomService` | `CleanRoomService.query`, concurrently | `pc[r]` and the locals of each request, `writer` (SQLite's write lock), the three tables, `clock`; an action per step that another request can see |
| `AuditChain` | `_initialize`, `append_audit`, `verify_audit` by several processes | tables, locals of each process, histories of what was appended; an action per statement that commits |
| `QueryPlan` | the payloads that identify a plan | pure operators |
| `ReleaseProtocol` | the service as clients and auditors may think of it | `state[r]`, who was charged, the log; one step each to ask, charge, record a decision (`Allow`, `Deny`), answer and drop |
| `QueryRelease` | `execute`, with `_quote` and its authorizer, and `protect` | `table`, `dataset_version`, and the answers given |
| `PolicyEngine` | `plan`, and a statement's way through the executor | `submitted`: statements with plan and outcome; an action each for refused, released, rejected after the charge and raised after it |
| `DatasetFile` | `initialize_demo_dataset`, the start-up of `create_app`, opening and reading in `execute` | `path`, `files`, `journal`, where each process stands; an action per statement that commits |
| `Benchmark` | the queries of `run_benchmark` and its conclusions | `responses`, and the tables they leave; an action per query |
| `Evidence` | what `run_benchmark` reads of the worktree and writes, around the queries of `Benchmark` | `worktree`, `report`, `directory`, `manifest`; an action per read and per file opened or closed |
| `MC...` | small instances | values of the constants and the symmetry |
| `...Proofs` | theorems | see section 5 |

`CleanRoomService` instantiates `PrivacyLedger` and `VariantGuard` with its own
tables (`Ledger!`, `Guard!`): their operators are the SQL statements, and their
specifications are what it is shown to implement; `Protocol!` is `ReleaseProtocol`
over its requests, with the requests that were newly charged as the payers.
`VariantWindow` extends `VariantGuard`, `QueryRelease` extends `QueryPlan`,
`PolicyEngine` extends `QueryRelease`, `Benchmark` takes the statements of
`VariantGuard`, and `Evidence` extends `Benchmark`: the policy and the corpus of the
queries are what the run read in the worktree.

### CleanRoomService step by step

`Arrive` is the call of `query` up to the guard (`service.py:34-45`): the policy
engine plans it, refuses it, or lets an exception escape. `ReadClock` is
`datetime.now` at `state.py:212`, a step of its own because the lock is waited
for afterwards. A transaction is two steps. `Begin...` is `BEGIN IMMEDIATE` and
the SELECTs: it needs the write lock to be free and leaves what was read in
`tx[r]`. The second step writes and commits (`GuardCommits`, `ReserveReuses`,
`ReserveCharges`, `AppendAllowed`, `AppendDenied`) or rolls back
(`GuardRefuses`, `ReserveRefuses`, `AppendRaises`) from `tx[r]` alone, as the code
computes from its Python locals. Holding the lock does not by itself make a
stale value impossible in the model; that it is impossible is what the
properties check and the proofs show. The commit of the audit entry
(`state.py:339`) is not yet the answer: `Respond` is, the building and returning of the
`QueryResponse` (`service.py:77-95, 106-112`); in between the request is `Returning`, and a
crash leaves an entry that nobody was answered for. Building the response
raises nothing (its fields take what the pipeline hands them). `LockTimeout` is `busy_timeout` expiring,
`Crash` the death of the process at any point. The four exceptions that `query`
catches lead to `deny`; every other one leads to `failed`, with no entry.

### AuditChain step by step

Every statement of `_initialize` commits by itself (the connection is in
autocommit mode), so every one is an action: `ReadUserVersion`, `CreateTables`
(the `CREATE TABLE IF NOT EXISTS` script, one idempotent step), `ReadColumns`,
`AlterTable`, `CheckpointFound` or `CheckpointMissing`, `ReadEntries`,
`InsertCheckpoint` or `InsertConflicts`, `StampVersion`. `append_audit` is one
transaction of which other processes see the result only, and is one action.
`verify_audit` is two: `FetchEntries` and `FetchCheckpoint`. `Damage` is not the
program's: its disjuncts are the statements with which `tests/test_state.py`
damages a database. `Init` covers a new file and legacy databases with or
without the `dataset_version` column and with or without a first entry.

### PolicyEngine step by step

A statement is the tree that the parser returns. Each method of the engine is an
operator that returns the reason code of the first check that fails (`...Objection`),
in the order of the code, or what the method builds (`MetricOf`, `Filters`,
`PlanFor`). `_filters` recurses over the tree of a condition; here `Conjuncts` is a
recursive function on `Trees`, the conditions of the statements and their parts, which
have a height (`Size`). The meaning of a condition, `RowsWhere`, is another one, over
`OR` as well, that knows nothing of filters. `RefuseStatement` is a `PolicyViolation`; `ReleaseStatement` and
`RejectStatement` are the executor's `_validate_plan`, written anew over the plan
in `Valid`, and its `authorize`, which must both agree with it. `explain` ends
where `RefuseStatement` or the plan is known and is no action of its own.

After the charge the plan meets three more judges, `Accepted`: `_validate_plan` once
more (`Valid`), `_quote`, which wants every name to match `_ALIAS` (`Quotable`;
`Unquotable` are the names of a policy that do not), and the authorizer (`Authorized`), which
compares the table with its case where the engine does not (the file has
`employees`, so a policy that says `Employees` grants queries that always fail). Then the
literals are bound: `RaiseStatement` is the `OverflowError` of an integer that
SQLite has no room for (`MaxInteger`), which is neither an answer nor an audited denial.

`_literal` reads a number with `float()` and makes an `int` of it if it is
integral. `Double` is that rounding, for a significand of as many bits as `FloatLimit` says
(2^53 in the code, 3 bits in the instance), to the nearest and then to the even; so it
merges numbers, as the code does. What SQL itself means by a literal is `Means`: the
number, or in a column of text its text, where `1.0` is not the `'1'` that the code's `1`
becomes. `Kept` says that the two agree.

### DatasetFile step by step

A process holds the file it opened, whatever happens to the name. `Start` is the
check of `create_app` or the command `init-demo`; `Unlink` and `Connect` are two
steps; a write is `BeginWrite` and `Commit`, four times (the first table, the rest
of the script, the rows, `VACUUM`). `CannotWrite` are the two ways in which SQLite
refuses to write: the table exists, or the file lost its name. A process that meets a writer
waits (for five seconds at most, which is not modelled). `Commit` deletes the
journal by name, which may be another process's. A reader checks the path
(`CheckFile`), opens (`ConnectReader`), prepares and fetches; it takes no lock
and looks at no journal.

### Benchmark and Evidence

`Benchmark` is sequential: `Query` is one call of `service.query`, with the
statements of the guard taken from `VariantGuard`, and `...Passed` are the
expressions of `_run_control_checks`. Every execution succeeds there: the
`DatasetExecutionError` that may follow a charge (`service.py:57, 96`; a benchmark is
held to the 250 ms and the steps of any other query) is left out, so what the
verdicts say of the policy is said of runs in which none occurs. `Evidence` adds what
else happens meanwhile: every read of the worktree is a step, between which
somebody may edit, commit or restore; every file is opened and closed, between
which the run may die. The next run finds the directory as it was left. Changes of
the worktree are let happen only where a read follows; elsewhere they are as good
as later or earlier ones.

### Abstractions

- Hashes and HMACs are the tuples they are computed from: equal exactly when
  the contents are, and never forged.
- Where two epsilons may differ by less than 12 digits (`QueryRelease`), they are names
  and `SignificantDigits` says which share a spelling.
- Elsewhere epsilon is a natural number of units, `Total` is SQLite's `SUM` as a constant
  function that is 0 on no rows and grows by its epsilon with each row. Floating
  point is outside the model; the comparison and its tolerance are in it.
- `CleanRoomService` takes a variant to be a plan fingerprint. That this is so is
  `VariantsAreFingerprints` of `QueryRelease`.
- In `QueryRelease` a released number is the rows it aggregates, the scale of its
  noise and the token its noise is derived from. The quantile, clamping and rounding are
  functions of these. Metrics are `COUNT` and `AVG`, operators `eq`, `neq`, `in`.
- A SQL literal in `PolicyEngine` is a type, a value and a text. Fractions are left out: SQL
  reads them as `float()` does, so that `float()` changes no comparison with a column of
  numbers.
- The names of a policy are columns of the table (of another name in double quotes SQLite
  makes a string), and the dataset file is there: `RejectedOnlyByPolicy` is about what the
  policy says, not about a missing file or the limits of an execution.
- In `QueryRelease` no alias is equal to a dimension in another case (the rules about
  columns named alike are shown for aggregates only).
- In `Evidence` the environment variable `GITHUB_SHA`, which replaces the first call
  of git, is not set. Runs follow each other: two that write into one directory
  at the same time are not modelled.
- `Benchmark` takes the clock of the guard to stand still: a run is shorter than a day.
- Time is in ticks; only the order of readings and the window matter.

## 3. Runs

| Run | What it asks | Instance |
|---|---|---|
| `requests` | budget, single charge, serial snapshots, final refusals, audited replies, refinement of `PrivacyLedger` and of `ReleaseProtocol` | 3 requests, 2 principals, 2 variants, epsilons 2, 3 and 5 (5 is refused by policy), limit 4 with tolerance 1, clock at rest |
| `progress` | every query ends, while the clock runs; refinement of `VariantGuard` | 3 requests, 2 variants, table of 1 variant, window 1, 3 instants, readings up to 1 tick old; budget for one of them; no symmetry |
| `window` | table bound, twice the limit per window, memory | 4 variants of 2 shapes, table of 1, window 4, 8 instants, readings up to 1 tick old |
| `chain` | checkpoint, verdicts, appends; initialisation finally succeeds | 2 processes, 2 payloads, 3 entries, 2 damaged rows; no symmetry |
| `releases` | noise (also over other data), answers and identity of any two answers | plans of 2 versions with every combination of 3 groupings, 4 metric lists (two with aliases that differ by case only, one invalid) and 4 filter lists, 3 epsilons of which two share their 12 digits, 2 tables, 2 answers |
| `statements` | the rebuilt query, rewordings, rejection after the charge | every pair of allowed select lists and conditions, select lists and conditions that the policy grants and the executor does not support (among them names that `_quote` refuses), literals that `float()` changes or that cannot be bound (3 significant bits, integers up to 15), one statement or more for each refusal, 2 roles; pairs of statements |
| `dataset` | what is in the file, who may write it, what readers see | 2 API processes, 1 `init-demo`, 1 reader, 3 starts of initialisers |
| `benchmark` | independence of cases, meaning of the controls, evidence that verifies is of one run, what is recorded of the worktree | 12 policies around the limits, corpora of 4 and 5 cases, 2 iterations, 2 runs into one directory, 2 edits, commits or restorations, crashes at every step |
| `unaudited`, `window_limit`, `false_alarm`, `aliases` | the findings of section 6 | as `requests` with 2 requests of 1 principal, `window` with fresh readings, `chain`, `releases` |

Why the bounds are enough. The ledger's properties relate at most two requests
of one principal; a third gives the lock holder a competitor while another
request waits, and a second principal shows that charges do not mix. The epsilons
are chosen so that one release fits, two cheap ones fit, a cheap and a dear
one fit exactly at the tolerance, and two dear ones do not. The clock runs past the
window in `progress` so that one request's row expires under another; in `window` it
runs on for half as long again, so that a table can be refilled after it expired
and both refills meet in one window. Two processes suffice for every
race of initialisation, append and verification, and either may start again as often as
it crashes or fails. Two damaged rows give the
pairs (row and checkpoint) that could cancel each other. Identity is about pairs
of answers, so two answers suffice. Three starts of initialisers are the least with
which two race and a third comes after them or crashes in between. Whether the
manifest can mislead depends on what an older run left, so two runs; whether the
provenance is exact, on a worktree that is edited before and touched again during
the run, so two changes. A policy is told apart by its controls through one number at a
time, so the policies differ from the standard one in one.

`CHECK_DEADLOCK FALSE` appears where the system may stop. In `VariantWindow.cfg` and
`VariantLimit.cfg` the clock stops at its bound and every remaining query may be
one the guard refuses, which this specification does not show as a step. In
`PolicyEngine.cfg` the history is full, in `DatasetFile.cfg`
every process is done, in `Benchmark.cfg` the last run is over. In
`CleanRoomService` the disjunct `Finished` lets the system rest only when
every request is over, so deadlock checking there would find a request that
can never go on.

Bounds in guards: `MaxClock` and `MaxStale` (clock), `MaxEntries` and `MaxDamage`
(audit chain), `MaxVersion` and `MaxReleased` (releases),
`MaxSubmitted` (statements), `MaxRuns` (starts of initialisers in `DatasetFile`, of the
benchmark in `Evidence`), `MaxChanges` (edits).

## 4. Fairness

- `CleanRoomService`: weak fairness of `Advance(r)`, the steps of one request. A
  worker thread or process that has work keeps running (`service.py` has no
  waits of its own), and what it waits for is only the write lock. A request
  that waits while others take the lock is not continuously enabled, but each of
  the finitely many requests takes the lock at most three times. Nothing
  forces a query to arrive, a timeout, a crash or the clock, so
  `EveryQueryEnds` does not rest on `busy_timeout`.
- `AuditChain`: weak fairness of the initialisation of a process and of its
  restart (`Exit`): `docker-compose.yml` has `restart: unless-stopped`, and a CLI
  user runs the command again. `InitialisationSucceeds` is asked only of
  behaviours without damage and of processes that do not crash for ever.
- `DatasetFile` states none: two API processes that are restarted may unlink each
  other's files for ever, so that a dataset is finally there is not claimed, only what
  is there once the initialisers are through.

## 5. Proofs

All proofs are for arbitrary constants that satisfy the modules' assumptions:
any number of requests (infinitely many, too), principals, variants, any policy.

The service. `CleanRoomServiceProofs` shows one inductive invariant,

    Inv == TypeOK /\ Lock /\ Shapes /\ Views /\ FiniteHistory

- `Lock`: a request is in a transaction exactly when it holds the write lock.
- `Shapes`: what the locals of a request hold, by where it stands.
- `Views`: what a request read when its transaction began is what the tables
  hold now. This is the heart of the argument, and is why `Lock` is needed: only
  the holder of the lock writes, so a view can only be spoilt by its owner, whose
  transaction then is over.
- `FiniteHistory`: so that the guard's count is a number.

The safety properties checked by TLC are not inductive without it: the budget
could be overrun by a commit that works from an old sum. From `Inv`,

- `CleanRoomServiceProofs` derives `ReservationStep`: every step charges one
  release that is uncharged and affordable at that moment, reuses a charged one,
  or leaves the ledger alone. From it follow `ImplementsLedger`, `ChargedOnce`,
  `SnapshotsAreSerial` (strengthened by `SnapshotsPast`: no snapshot exceeds the
  present sum) and `RefusalsAreFinal`. That the budget is respected is shown of
  the abstract ledger (`LedgerBudgetRespected`); the service inherits it by the
  refinement (`BudgetNeverExceeded`).
- `CleanRoomProtocolProofs` shows `ImplementsGuard` (strengthened by `Fresh`: a
  reading in use is at most `MaxStale` old) and, from `AuditStep`,
  `RepliesAreAudited`. Because an entry is committed before the answer is returned, that
  needs the invariant `Audited`, which says of requests on their way back what
  the property says of those that were answered: their entry is there, it is theirs, and
  it has the outcome they are about to return. Then `ImplementsProtocol`: each step of the service is a step
  of `ReleaseProtocol` or changes nothing it speaks of. A charge is a step of its own
  there, so the argument needs `ChargedExactlyOnce` (the ledger's rows are the
  questions of the payers), `RefusalFinal` (a denial for lack of budget stays
  true) and `Reasons`: a request about to be denied holds a reservation exactly when
  it was the execution that failed.

The guard over time. `VariantGuardProofs` shows that the table stays within its
limit (`Bounded`: with the finiteness of the rows it counts), which the service
inherits, and two facts of `VariantWindow`:

- `WindowIsRemembered`: what makes it inductive is `Remembered`, that every row is
  exactly as old as some admission of its variant.
- `TwiceTheLimit`: the property counts admissions, the guard counts rows, and rows
  come and go meanwhile. `Splittable` relates them: for each window there is one
  table's worth of variants (`old`, the table at its beginning) such that whatever is
  in the table, or was let through since, is in `old` or is still kept. Rows that are
  kept were observed so late that no reading of this window deletes them, so they
  are rows of one table, too. A row may have been inserted at a reading that is
  `MaxStale` ticks old and deleted at a reading that is another `MaxStale` ticks
  ahead of the window's first, so the window of the property is shorter by twice
  `MaxStale`. By `MaxStale` alone is not enough: with a window of 3 and readings up to
  2 ticks old TLC finds three variants let through, with a table of one, within the
  tick that would be left.

Identity and release. `QueryReleaseProofs` is about any two answers, for plans with
any number of dimensions, metrics, filters and literals. Two invariants describe one
answer: `TypeOK`, and `Computed`, that its plan was validated and its cells are a function
of plan, epsilon, data and version. The rest relates two answers:

- `VariantIsFingerprint` and `RewordingsAreOneRelease` say which plans share a
  fingerprint; for the latter the payload of a filter must determine, and be
  determined by, the values it compares with (`PayloadsBySameFilter`).
- Equal fingerprints select the same rows, put them into the same groups and have
  as many metrics (`SelectedBySemantics`, `MembersByFingerprint`, `MetricsCounted`, which
  needs that no metric is repeated). So do two answers to one release agree on
  every cell (`CellsByRelease`).
- `NoiseIsNeverReused` follows, because a token names the release, the group and the
  aggregate: plans with one fingerprint select the same rows of any data (`SamePlans`),
  so two cells with one token are answers to one question, and over the same data one number.
  Nothing is assumed of the data; that the noise is then on different numbers if
  the data differ is part of what the property says. `SameReleaseIsSameAnswer` needs further that `LIMIT` lets the same groups
  through: in the same order it does, and if there are no more groups than it
  admits it lets all of them through (`AllGroupsFetched`).

The audit chain. `AuditChainProofs` shows, for any number of processes and logs of
any length, the inductive invariant

    IInv == Typed /\ (damage = 0 => Anchored /\ Established)

- `Anchored`: the log is a sound chain and the checkpoint, once there, counts and
  names its end.
- `Established`: nobody is past the checkpoint step of `_initialize` without a
  checkpoint, and while there is none, the rows that a process fetched to compute
  one are the log. Without it a slow starter could insert a checkpoint of an old
  log, and a first append could find none.

`CheckpointIsOfLog` and `AppendGoesOn` follow from it. That one row appended keeps
the chain sound is a lemma of its own (`AppendKeepsChain`). `FalseAlarmNeedsAppend`
adds `Current`: what a verification fetched is the log unless the log has grown
since. `AppendFailsClosed` holds under damage, so it cannot rest on `Anchored`; its
invariant is `Counted`: until a checkpoint is established a second time, the
checkpoint counts what was appended, whatever became of the rows. `AuditTypes`
needs it as well, for the entry ids.

`VerdictsAreTruthful` is about damaged logs, too. Its invariant has two halves, before
and after the first checkpoint. After it (`AfterFirst`), every row that is stored or was
fetched is `Genuine`: its HMAC is over what was appended with its id. No damage changes
that, as it changes a payload or removes a row but forges no HMAC; so the sound prefix
that a verification counts can only be of what was appended. Before it (`BeforeFirst`),
all copies of a legacy row descend from one, and whoever is about to insert the
checkpoint has fetched as many sound rows as there are, which makes them genuine when
the journal begins (`FirstCheckpoint`).

The dataset file. `DatasetFileProofs` shows, for any number of initialisers and readers,

    IInv == Typed /\ Exclusive

- `Exclusive`: an initialiser that writes is alone in its file, which it began and
  has not finished, and one that connects or is ready never meets work of its own
  from an earlier run. Without the latter a restarted process could take up an old
  file and write after the others.

From it every step either leaves a file alone, is the next stage of its one writer,
or rolls a torn file back to what its journal has (`FileStep`): `FinishedIsFinal` and
`RowsOfOneWriter`. `FinishedAnswersWhole` adds `ReadsFinished` (who saw a finished
file reads one that nobody writes). `RacesEndFinished` adds `OnTheWay`: as long as
nobody crashed or lost a journal, no file is torn, and until a finished file has the
name somebody is about to create one or is still writing the one that has it.

Benchmark and evidence. `EvidenceProofs` is for any policies, corpora and edits, and
any number of runs into one directory that may crash at any step:

    EvidenceInv == Worktrees /\ Progress /\ Files /\ Exact

- `Progress`: where a run stands, what it has recorded there, and in what order.
- `Files`: the files written so far are whole and of this run; a manifest that is
  whole, or that is just being written, has the hashes of files of one run. An old
  manifest over newer files is why the hashes are compared and not the directory.
- `Exact`: as long as nothing has changed since the first read, what was recorded
  is what is in the worktree; a run that writes tells the truth.

`ManifestTellsOneRun`, `ProvenanceIsExact` and `EvidenceTyped` follow from it.
The queries are shown of the same composition, with any policy that the run read:

    AnswersInv == EvidenceInv /\ Answers /\ Unasked /\ Fresh /\ Kept

- `Answers`: every answer that lets something out has its row in the ledger
  (`AnswersAreCharged`, the `TypeOK` of `Benchmark`).
- `Unasked` and `Fresh`: nothing is asked before the policy is loaded, and every run
  starts on empty databases, whatever the last one left.
- `Kept`: the ledger and the variant table, principal by principal. A case's principal
  has at most one variant and one charged release, that of the case, so that neither
  its budget nor its variants fill up: `CasesAreIndependent`. For the controls
  (`ControlsTell`), `Ladder` counts what a series of different releases at one epsilon
  has cost: either every one so far is charged, or there is no room for another. So
  the sixth of the budget control is refused exactly under the budgets stated, and
  refusals in between cannot make room again. In the slicing control all that are
  let through by the maximum are observed, even those the budget refuses, so
  that the fifth is the guard's to refuse.

The policy engine. `PolicyEngineProofs` is about every statement: conditions of any depth,
select lists of any length, any policy.

- `Recursion` shows that a definition by recursion over finite trees defines a function,
  and so what `Conjuncts` and `RowsWhere` are (`ConjunctsDefined`, `RowsWhereDefined`).
  `Leaves`, the conditions that a tree combines, are then those of its parts, and its
  rows are those in which all its leaves hold (`RowsWhereLeaves`).
- `Planned` is what a statement is like if the engine does not refuse it;
  `FilterMeans` is that a filter selects the rows of its condition, a list of one
  literal turned into an equality included, if `float()` keeps the literals (`KeptIn`).
- `PlanSupported`: the plan of such a statement passes `_validate_plan`, `_quote` and the
  authorizer except where the policy grants what they do not know (`Unsupported`). It is an
  equivalence: those queries always fail.

The inductive invariant is `EngineInv`: the dataset stays, every entry of the
history has an outcome that the policy allows it (rejected, or released or raised), and
every answer has an entry. `EngineTypeCorrect`, `RejectionsComeFromPolicy`, `PlansAnswerStatements` and
`WordingIsNoRelease` follow. The last rests on `QuestionsByFingerprint`, which goes
from statement to payload and back: a payload is the same exactly if the
condition is, unless an `IN` repeats a literal, for statements whose literals `float()`
keeps (`Faithful`). Of the others neither theorem says anything about their `WHERE`. `StatementsAreReleases` shows that the
engine with the executor behaves as `QueryRelease`, so `AnswersToStatements` takes over what is
proved there of noise, answers and variants.

Assumptions: `ServiceAssumption` (epsilons are positive, `None` is no request,
code or reservation, and the two below), `LedgerAssumption` (what `SUM` does, finitely
many releases), `GuardAssumption`, `ReleaseAssumption` (plans are `QueryPlans`, tables are
finite and have a number in every column; values of a text column are numbered; names
that `_quote` refuses are no aliases, and `employees` is none of them),
`FileAssumption` (`Nobody` is no initialiser), `StatementAssumption` (what the parser returns: finite trees,
whose height `Size` is; ordered lists; literals with a type and a value), `NameAssumption`
(no metric has the column name `star`, which stands for none; a default alias is an
alias), `PlanAssumption` (`Plans` contains what the engine returns), `BenchmarkAssumption` (positive limits,
1 to 1000 iterations as `run_benchmark` accepts, corpora that are sequences of cases),
`ControlsAreAccepted` (the engine accepts the statements of the controls), `EvidenceAssumption` (the draft that is edited in is a policy and a corpus; at least one
run). TLC evaluates them on every run of the modules that have them. The proofs about the
audit chain use none.

Only model-checked: liveness (`EveryQueryEnds`, `InitialisationSucceeds`). Fairness and
`ENABLED` are beyond the prover. Every invariant and every action property of the runs is
proved. The prover has no SMT backend in a module with `RECURSIVE`, which is
why recursion is written as functions here, and the recursion and induction over trees are
lemmas from the well-foundedness of the numbers.

## 6. Where code and documentation differ

- `false_alarm`: `verify_audit` reads log and checkpoint in two snapshots
  (`state.py:344-347`). An append between them makes it report an intact chain as
  invalid. `FalseAlarmOnlyByAppend` shows that nothing else does.
- `window_limit`: `INSERT OR IGNORE` (`state.py:240`) keeps the first observation
  of a variant, so more than four variants can be released within 24 hours,
  against `docs/THREAT_MODEL.md:29`. `TwiceTheLimitPerWindow` is what holds.
- `unaudited`: an exception that `query` does not catch, after the charge, leaves
  no audit entry (one of them is the `ValueError` of `log1p` at `privacy.py:90`), against `docs/ARCHITECTURE.md:44`.
- `aliases`: `dict(record)` reads a `sqlite3.Row` by column name, without regard to case
  (`database.py:180`), so with aliases `n` and `N` both aggregates report the first one's
  value, against `README.md:36` and `docs/METHODOLOGY.md:45`. `NoiseNeverReused` and
  `SameReleaseSameAnswer` hold for plans whose aliases differ by more than case, and
  up to the 12 digits in which an epsilon is written into the release key.

The window between the commit of an audit entry and the return of the response is no
divergence but worth knowing: after a crash there the log says `allowed` for a request that
got no answer (`RepliesMatchAudit` and `ReleaseProtocol` say what is true of such an entry).

Met while modelling, and stated as the premise of what holds instead of by a run of
their own:

- `init-demo` may change the rows under an unchanged dataset version
  (`database.py:38`), so an identical retry may get another number, against
  `docs/METHODOLOGY.md:108-110`, and the noise of the new number is that of the old one:
  the token names the version of the policy, not the data, and the difference of the two
  answers is free of noise where the scale is the same. `SameReleaseSameAnswer` asks for the
  same rows; `NoiseNeverReused` says that the noise is for the same question and, over the same
  rows only, on the same number.
- `float()` changes literals (`policy.py:319-324`): a filter on 9007199254740993 is
  rebuilt with 9007199254740992, one on `1.0` in a column of text with `1`. The rebuilt query
  may select other rows than the statement (which `README.md:12` calls a new parameterized statement), and two questions may be one release. `AnswersTheStatement` and
  `RewordedStatementsShareRelease` are about literals that `float()` keeps.
- The file is opened with `immutable=1` while it may still be written
  (`database.py:136`), against `README.md:40`. `FinishedFilesNeverChange` and
  `FinishedFilesAnswerWhole` are about finished files.
- The corpus is read before it is hashed and the policy after
  (`benchmark.py:30-48`), so `inputs.sha256` can name contents that were not used, against
  `benchmarks/reference/README.md:17`; and a git that fails is recorded as a clean worktree
  (`benchmark.py:482`), against `docs/METHODOLOGY.md:102-103`. `ProvenanceExact` is about a
  worktree at rest and a git that answers.

Two more things the runs and proofs say, though no document contradicts them.

- A repeated literal: `IN ('a', 'a')` is another release than `IN ('a')`, as only a list of
  length one becomes an equality. `RewordedStatementsShareRelease` excepts
  two statements if either has an `IN` that repeats one literal.
- A query may be charged and then rejected under policies that the loader accepts:
  if the table is not spelled as in the file (the engine compares it in lower case,
  `policy.py:201`, the authorizer as it is, `database.py:159`), if a dimension, an
  averaged column or a filter column does not match `_ALIAS` (`_quote`, `policy.py:396-399`),
  if a filter column is neither a dimension nor a metric, if an average is granted
  under a name that is not its column (the engine goes by the name, the authorizer by
  the column), or if a default
  alias (`avg_` and the name) is reserved or too long. `RejectedOnlyByPolicy` says that
  nothing else that a policy may say leads there; the run has every case but the first,
  the theorem all of them. The shipped policy has none of them.

## 7. Not modelled, and why

- The SQL parser is a third-party library.
- The number the noise is drawn from, the logarithm of the Laplace quantile, clamping,
  rounding of results: floating point. That `log1p` may raise is an outcome of
  `ExecuteRaises`.
- Floating-point `SUM`: the ledger counts whole units.
- The limits on SQLite's steps and on time: that an execution may fail is in
  `CleanRoomService`, when it does is not, and in `PolicyEngine` and `Benchmark` it does not.
- Authentication and roles (lookups in a table that never changes; the role test of the
  engine is in `PolicyEngine`), the read-only routes, settings, CLI arguments,
  dashboard, layout of reports, percentiles, packaging: no state of interest.
  `explain` and `budget` write nothing.
- The control on a truncated log in `benchmark.py:276-294`: `AuditChain` has
  it (`Damage`, `NoAppendAfterTruncation`).

## 8. Plan

Done, in this order: `PrivacyLedger`, `VariantGuard`, `CleanRoomService`,
`VariantWindow`, `AuditChain`, `QueryPlan`, `QueryRelease` and their proofs; then
`PolicyEngine`, `DatasetFile`, `ReleaseProtocol` with its proof, `Benchmark`,
`Evidence`.

Proved, in this order: `VariantGuard`, `CleanRoomService` and its refinements,
`QueryRelease`, `AuditChain`, `DatasetFile`, `VariantWindow`, `Evidence`, `PolicyEngine` and the
refinement of `QueryRelease` by it, the cases and controls of `Benchmark`.

What could come next is in reach of neither tool as used here: the liveness properties for
every number of requests, and the rounding of the ledger's `SUM`.
