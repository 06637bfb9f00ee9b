----------------------------- MODULE DatasetFile -----------------------------
(***************************************************************************)
(* The dataset file under initialize_demo_dataset and ReadOnlyDataset.     *)
(* Initialisers are processes: the API, which only initialises a dataset   *)
(* that does not exist (CLEAN_ROOM_AUTO_INIT), and the init-demo command,  *)
(* which always does.  An initialiser unlinks the file, connects, which    *)
(* creates a new one, and writes it in four transactions.  Readers open    *)
(* the file as immutable, that is without locks and without a look at the  *)
(* rollback journal.                                                       *)
(*                                                                         *)
(* A process keeps the file it opened when the name is unlinked or given   *)
(* to another file.  SQLite refuses to begin a write on a file that lost   *)
(* its name, but commits one that has begun.  A commit deletes the journal *)
(* by its name, which may by then be the journal of another process, on    *)
(* the new file: that one's commit has written its pages, but fails.  A    *)
(* process that dies in a commit leaves a torn file with its journal,      *)
(* which the next writer of the file rolls back, and no reader does.       *)
(***************************************************************************)
EXTENDS Integers, Sequences, FiniteSets

CONSTANTS
  Starters,  \* API processes that start with CLEAN_ROOM_AUTO_INIT=1
  Admins,    \* processes that run init-demo
  Readers,   \* threads that execute a query
  Nobody,
  MaxRuns    \* bound: how often initialisers are started

Initialisers == Starters \cup Admins

ASSUME FileAssumption == Nobody \notin Initialisers /\ MaxRuns \in Nat

VARIABLES
  path,     \* the file that has the name, or 0
  files,    \* what every file created so far holds: [stage, by], and
            \* before, to which the journal of a torn file leads back
  journal,  \* whose journal has the journal's name
  pc,       \* where an initialiser stands
  opened,   \* the file an initialiser has opened
  reading,  \* a reader: [at, file, seen, quiet, answer]
  runs,     \* initialisers started
  mishaps   \* history: initialisers that crashed or lost their journal

vars == <<path, files, journal, pc, opened, reading, runs, mishaps>>

\* What the four transactions leave in the file: employees, the rest of the
\* script, the rows, and the rows after VACUUM.
Stages == <<"employees", "tables", "rows", "vacuumed">>

StageAfter(stage) ==
  IF stage = "empty" THEN "employees"
  ELSE LET i == CHOOSE k \in 1..3 : Stages[k] = stage IN Stages[i + 1]

HasRows(content) == content.stage \in {"rows", "vacuumed"}

Running(p) == pc[p] \notin {"idle", "over"}

Idle == [at |-> "idle", file |-> 0, seen |-> "none", quiet |-> TRUE, answer |-> "none"]

Init ==
  /\ path = 0 /\ files = <<>> /\ journal = Nobody /\ runs = 0 /\ mishaps = {}
  /\ pc = [p \in Initialisers |-> "idle"]
  /\ opened = [p \in Initialisers |-> 0]
  /\ reading = [r \in Readers |-> Idle]

Goto(p, to) == pc' = [pc EXCEPT ![p] = to]

-----------------------------------------------------------------------------
(* initialize_demo_dataset, and what calls it.                             *)

\* create_app: not resolved.dataset_path.exists(), or the command init-demo.
Start(p) ==
  /\ pc[p] \in {"idle", "over"} /\ runs < MaxRuns
  /\ p \in Starters => path = 0
  /\ Goto(p, "unlink")
  /\ runs' = runs + 1
  /\ UNCHANGED <<path, files, journal, opened, reading, mishaps>>

\* Mutant: the old file is emptied in place.
Truncate(p) ==
  /\ pc[p] = "unlink"
  /\ files' = IF path = 0 THEN files
              ELSE [files EXCEPT ![path] = [stage |-> "empty", by |-> Nobody]]
  /\ Goto(p, "connect")
  /\ UNCHANGED <<path, journal, opened, reading, runs, mishaps>>

Unlink(p) ==
  /\ pc[p] = "unlink"
  /\ path' = 0
  /\ Goto(p, "connect")
  /\ UNCHANGED <<files, journal, opened, reading, runs, mishaps>>

\* Mutant: the file must exist.
ConnectExisting(p) ==
  /\ pc[p] = "connect"
  /\ opened' = [opened EXCEPT ![p] = path]
  /\ Goto(p, "ready")
  /\ UNCHANGED <<path, files, journal, reading, runs, mishaps>>

\* sqlite3.connect opens the file, or creates it.
Connect(p) ==
  /\ pc[p] = "connect"
  /\ IF path = 0 THEN /\ files' = Append(files, [stage |-> "empty", by |-> Nobody])
                      /\ path' = Len(files) + 1
                 ELSE UNCHANGED <<path, files>>
  /\ opened' = [opened EXCEPT ![p] = path']
  /\ Goto(p, "ready")
  /\ UNCHANGED <<journal, reading, runs, mishaps>>

\* Whoever writes rolls a journal back that a dead process left.
Recovered(f) ==
  IF files[f].stage = "torn" /\ journal # Nobody THEN files[f].before ELSE files[f]

\* CREATE TABLE finds the table that another process created.
TableExists(p) ==
  Recovered(opened[p]).stage # "empty" /\ Recovered(opened[p]).by # p

\* Mutant: CREATE TABLE IF NOT EXISTS.
BeginAnyWrite(p) ==
  /\ pc[p] = "ready"
  /\ path = opened[p] /\ files[opened[p]].stage # "vacuumed"
  /\ ~\E q \in Initialisers \ {p} : pc[q] = "writing" /\ opened[q] = opened[p]
  /\ files' = [files EXCEPT ![opened[p]] = Recovered(opened[p])]
  /\ journal' = p
  /\ Goto(p, "writing")
  /\ UNCHANGED <<path, opened, reading, runs, mishaps>>

\* The journal is created under its name; only one process writes a file.
BeginWrite(p) ==
  /\ pc[p] = "ready"
  /\ path = opened[p] /\ ~TableExists(p)
  /\ ~\E q \in Initialisers \ {p} : pc[q] = "writing" /\ opened[q] = opened[p]
  /\ files' = [files EXCEPT ![opened[p]] = Recovered(opened[p])]
  /\ journal' = p
  /\ Goto(p, "writing")
  /\ UNCHANGED <<path, opened, reading, runs, mishaps>>

\* Mutant: a process that fails removes the file.
CannotWriteAndRemove(p) ==
  /\ pc[p] = "ready"
  /\ path # opened[p] \/ TableExists(p)
  /\ path' = 0
  /\ Goto(p, "over")
  /\ UNCHANGED <<files, journal, opened, reading, runs, mishaps>>

\* The file lost its name, or the table is there: the process ends.
CannotWrite(p) ==
  /\ pc[p] = "ready"
  /\ \/ path # opened[p] /\ UNCHANGED <<files, journal>>
     \/ /\ path = opened[p] /\ TableExists(p)
        /\ ~\E q \in Initialisers \ {p} : pc[q] = "writing" /\ opened[q] = path
        /\ files' = [files EXCEPT ![path] = Recovered(path)]
        /\ journal' = IF files[path].stage = "torn" THEN Nobody ELSE journal
  /\ Goto(p, "over")
  /\ UNCHANGED <<path, opened, reading, runs, mishaps>>

\* The pages are written.  If the journal is gone already, the commit fails
\* nonetheless.
Commit(p) ==
  LET f == opened[p] stage == StageAfter(files[f].stage) IN
  /\ pc[p] = "writing"
  /\ files' = [files EXCEPT ![f] = [stage |-> stage, by |-> p]]
  /\ journal' = Nobody
  /\ Goto(p, IF journal = Nobody \/ stage = "vacuumed" THEN "over" ELSE "ready")
  /\ mishaps' = IF journal = Nobody THEN mishaps \cup {p} ELSE mishaps
  /\ UNCHANGED <<path, opened, reading, runs>>

\* A process that dies in a commit leaves some of the pages written.
Crash(p) ==
  /\ Running(p)
  /\ \/ UNCHANGED files
     \/ /\ pc[p] = "writing"
        /\ files' = [files EXCEPT ![opened[p]] = [stage |-> "torn", by |-> p, before |-> files[opened[p]]]]
  /\ Goto(p, "over")
  /\ mishaps' = mishaps \cup {p}
  /\ UNCHANGED <<path, journal, opened, reading, runs>>

-----------------------------------------------------------------------------
(* ReadOnlyDataset._execute_compiled                                       *)

\* Nobody is writing into the file.
Quiet(f) == ~\E p \in Initialisers : pc[p] = "writing" /\ opened[p] = f

\* The dataset exists, or the query is refused.
CheckFile(r) ==
  /\ reading[r].at \in {"idle", "over"}
  /\ reading' = [reading EXCEPT ![r] =
       IF path # 0 THEN [Idle EXCEPT !.at = "connect"]
       ELSE [Idle EXCEPT !.at = "over", !.answer = "refused"]]
  /\ UNCHANGED <<path, files, journal, pc, opened, runs, mishaps>>

\* The connection is opened outside of the try block: an error is raised.
ConnectReader(r) ==
  /\ reading[r].at = "connect"
  /\ reading' = [reading EXCEPT ![r] =
       IF path # 0 THEN [@ EXCEPT !.at = "prepare", !.file = path]
       ELSE [@ EXCEPT !.at = "over", !.answer = "raised"]]
  /\ UNCHANGED <<path, files, journal, pc, opened, runs, mishaps>>

\* The schema is read; an empty file has no table.
Prepare(r) ==
  LET content == files[reading[r].file] IN
  /\ reading[r].at = "prepare"
  /\ reading' = [reading EXCEPT ![r] =
       IF content.stage = "empty" /\ Quiet(reading[r].file)
       THEN [Idle EXCEPT !.at = "over", !.answer = "refused"]
       ELSE [@ EXCEPT !.at = "fetch", !.seen = content.stage,
                       !.quiet = Quiet(reading[r].file)]]
  /\ UNCHANGED <<path, files, journal, pc, opened, runs, mishaps>>

\* Mutant: the rows are read from the file that has the name now.
PathNow(r) == IF path = 0 THEN reading[r].file ELSE path

FileOf(r) == reading[r].file

\* The rows are read.  A file that changed, or was being written, since the
\* schema was read gives any answer.
Fetch(r) ==
  LET content == files[FileOf(r)] IN
  /\ reading[r].at = "fetch"
  /\ \E answer \in {"all", "none", "partial", "refused"} :
       /\ reading[r].quiet /\ Quiet(FileOf(r)) /\ content.stage = reading[r].seen
            /\ content.stage # "torn"
          => answer = (IF HasRows(content) THEN "all" ELSE "none")
       /\ reading' = [reading EXCEPT ![r] =
            [Idle EXCEPT !.at = "over", !.seen = reading[r].seen, !.answer = answer]]
  /\ UNCHANGED <<path, files, journal, pc, opened, runs, mishaps>>

-----------------------------------------------------------------------------
Initialise(p) ==
  \/ Start(p) \/ Unlink(p) \/ Connect(p)
  \/ BeginWrite(p) \/ CannotWrite(p) \/ Commit(p)
  \/ Crash(p)

Execute(r) == CheckFile(r) \/ ConnectReader(r) \/ Prepare(r) \/ Fetch(r)

Next ==
  \/ \E p \in Initialisers : Initialise(p)
  \/ \E r \in Readers : Execute(r)

Spec == Init /\ [][Next]_vars

-----------------------------------------------------------------------------
(* Properties.                                                             *)

TypeOK ==
  /\ path \in 0..Len(files)
  /\ \A f \in DOMAIN files :
       /\ files[f].stage \in {"empty", "employees", "tables", "rows", "vacuumed", "torn"}
       /\ files[f].by \in Initialisers \cup {Nobody}
  /\ journal \in Initialisers \cup {Nobody}
  /\ \A p \in Initialisers : pc[p] \in {"ready", "writing"} => opened[p] \in DOMAIN files
  /\ runs \in 0..MaxRuns /\ mishaps \subseteq Initialisers

(* A dataset that was finished is never written again, so that reading it  *)
(* without locks is sound: a new dataset is a new file under the old name. *)
FinishedFilesNeverChange ==
  [][\A f \in DOMAIN files : files[f].stage = "vacuumed" => files'[f] = files[f]]_vars

(* A query that opened a finished dataset is answered from all of its      *)
(* rows, even if init-demo unlinks it and writes another one meanwhile.    *)
FinishedFilesAnswerWhole ==
  \A r \in Readers :
    reading[r].at = "over" /\ reading[r].seen = "vacuumed" => reading[r].answer = "all"

(* The rows of one file are the rows of one initialiser, however many are  *)
(* started at the same time: the second CREATE TABLE in a file fails.      *)
OneWriterPerFile ==
  [][\A f \in DOMAIN files :
       HasRows(files[f]) => files'[f].by = files[f].by]_vars

(* When the initialisers are done, the dataset is finished, in whichever   *)
(* order they raced, unless one of them crashed or had its journal deleted *)
(* by the commit of another.  (After a crash the API takes any file that   *)
(* exists for a dataset.)                                                  *)
FinishedWhenQuiet ==
  /\ runs > 0
  /\ \A p \in Initialisers : ~Running(p)
  /\ mishaps = {}
  => path # 0 /\ files[path].stage = "vacuumed"

=============================================================================
