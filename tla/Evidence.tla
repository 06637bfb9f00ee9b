------------------------------ MODULE Evidence ------------------------------
(***************************************************************************)
(* The evidence of a benchmark run: what run_benchmark reads of the        *)
(* worktree and when, the queries of Benchmark in between, what it records *)
(* of the worktree, and the files it leaves in the output directory.  Runs *)
(* follow each other into one directory and may crash; meanwhile somebody  *)
(* edits and commits.                                                      *)
(*                                                                         *)
(* The worktree is read several times: the corpus is read, the inputs are  *)
(* hashed, the policy is loaded and, after the queries, the provenance is  *)
(* recorded by two calls of git and a hash of the sources.  A hash stands  *)
(* for the content.  Six files are written one after the other, each       *)
(* truncated first, then the manifest with the hashes of what they hold.   *)
(* The files of different runs differ (they tell latencies).               *)
(***************************************************************************)
EXTENDS Benchmark

CONSTANTS
  Draft,       \* what the parts of the worktree are edited to
  MaxRuns,     \* bound: calls of run_benchmark
  MaxChanges   \* bound: edits, commits and restorations

\* What matters of the worktree; the source includes benchmark.py and uv.lock.
Parts == {"corpus", "policy", "source"}

ASSUME EvidenceAssumption ==
  /\ DOMAIN Draft = Parts /\ Draft.corpus \in Corpora /\ Draft.policy \in Policies
  /\ MaxRuns \in Nat \ {0} /\ MaxChanges \in Nat

\* The files, in the order in which they are written.
Artifacts == <<"benchmark.json", "observations.jsonl", "summary.csv", "controls.csv",
               "REPORT.md", "inputs.sha256">>

Names == {Artifacts[i] : i \in DOMAIN Artifacts}

VARIABLES
  worktree,  \* worktree[p]: what p is in the worktree
  commits,   \* what was committed, by revision; the last one is HEAD
  changes,   \* edits, commits and restorations so far
  run,       \* the number of the run
  at,        \* where it stands
  report,    \* what it read and recorded, and the value of changes at its
             \* first and last reads and when it asked for the revision
  written,   \* how many files it has written
  directory, \* directory[n]: which run wrote the file n, and whether wholly
  manifest   \* [whole, hashes]

world == <<worktree, commits, changes>>
output == <<written, directory, manifest>>
evidenceVars == <<vars, world, run, at, report, output>>

HEAD == commits[Len(commits)]

Absent == [n \in Names |-> [by |-> 0, whole |-> FALSE]]

NoReport == [git |-> TRUE]

EvidenceInit ==
  /\ Init
  /\ worktree = [corpus |-> corpus, policy |-> policy, source |-> "committed"]
  /\ commits = <<worktree>>
  /\ changes = 0
  /\ run = 1 /\ at = "idle" /\ report = NoReport /\ written = 0
  /\ directory = Absent
  /\ manifest = [whole |-> FALSE, hashes |-> Absent]

-----------------------------------------------------------------------------
(* Whoever works in the repository.  Nothing of the worktree is read       *)
(* between two queries or while the files are written, so that a change    *)
(* there is as good as one before the first, or after the last.            *)

Change ==
  /\ changes < MaxChanges /\ changes' = changes + 1
  /\ at \in {"idle", "hash", "load", "queries", "status", "sources", "over"}
  /\ at = "queries" => responses = <<>> \/ Over
  /\ UNCHANGED <<vars, run, at, report, output>>

Edit(p) ==
  /\ Change
  /\ worktree[p] # Draft[p] /\ worktree' = [worktree EXCEPT ![p] = Draft[p]]
  /\ UNCHANGED commits

Commit ==
  /\ Change
  /\ worktree # HEAD /\ commits' = Append(commits, worktree)
  /\ UNCHANGED worktree

Restore ==
  /\ Change
  /\ worktree # HEAD /\ worktree' = HEAD
  /\ UNCHANGED commits

-----------------------------------------------------------------------------
(* What run_benchmark reads and asks.                                      *)

Goto(from, to) == at = from /\ at' = to

\* The report with the fields of the record added, or replaced.
With(fields) ==
  [f \in DOMAIN fields \cup DOMAIN report |->
     IF f \in DOMAIN fields THEN fields[f] ELSE report[f]]

\* The run records the fields of the record, keeping what it has.
Records(fields) ==
  /\ report' = With(fields)
  /\ UNCHANGED <<world, run, output>>

\* The corpus is parsed; the queries go to fresh databases.
ReadCorpus ==
  /\ Goto("idle", "hash")
  /\ corpus' = worktree.corpus
  /\ Records([began_at |-> changes])
  /\ UNCHANGED <<policy, query_history, privacy_spend, responses>>

\* inputs.sha256 and the report will show these hashes.
HashInputs ==
  /\ Goto("hash", "load")
  /\ Records([inputs |-> worktree])
  /\ UNCHANGED vars

\* CleanRoomService(isolated): the policy that is enforced.
LoadPolicy ==
  /\ Goto("load", "queries")
  /\ policy' = worktree.policy
  /\ UNCHANGED <<corpus, query_history, privacy_spend, responses, world, run, report, output>>

RunQuery ==
  /\ at = "queries"
  /\ Query
  /\ UNCHANGED <<world, run, at, report, output>>

\* git rev-parse HEAD; 0 stands for "unknown".
ReadRevision ==
  /\ Over
  /\ Goto("queries", "status")
  /\ \/ Records([revision |-> Len(commits), asked_at |-> changes])
     \/ Records([revision |-> 0, asked_at |-> changes, git |-> FALSE])
  /\ UNCHANGED vars

\* Mutant: git status of the fixtures only.
ReadStatusOfFixtures ==
  /\ Goto("status", "sources")
  /\ Records([dirty |-> \E p \in {"corpus", "policy"} : worktree[p] # HEAD[p]])
  /\ UNCHANGED vars

\* git status --porcelain; if git is missing or slow, bool(None).
ReadStatus ==
  /\ Goto("status", "sources")
  /\ \/ Records([dirty |-> worktree # HEAD])
     \/ Records([dirty |-> FALSE, git |-> FALSE])
  /\ UNCHANGED vars

HashSources ==
  /\ Goto("sources", "write")
  /\ Records([sources |-> worktree, traced_at |-> changes])
  /\ UNCHANGED vars

-----------------------------------------------------------------------------
(* _write_artifacts                                                        *)

\* The file that is written now is by this run, and whole or not.
Holds(whole) ==
  directory' = [directory EXCEPT ![Artifacts[written + 1]] = [by |-> run, whole |-> whole]]

\* The next file is truncated.
OpenFile ==
  /\ Goto("write", "close")
  /\ Holds(FALSE)
  /\ UNCHANGED <<vars, world, run, report, written, manifest>>

\* Mutant: the manifest is written before the last file.
CloseFileEarly ==
  /\ Goto("close", IF written + 2 = Len(Artifacts) THEN "manifest" ELSE "write")
  /\ Holds(TRUE) /\ written' = written + 1
  /\ UNCHANGED <<vars, world, run, report, manifest>>

CloseFile ==
  /\ Goto("close", IF written + 1 = Len(Artifacts) THEN "manifest" ELSE "write")
  /\ Holds(TRUE) /\ written' = written + 1
  /\ UNCHANGED <<vars, world, run, report, manifest>>

\* The files are read again for their hashes, then the manifest is truncated.
OpenManifest ==
  /\ Goto("manifest", "close_manifest")
  /\ manifest' = [whole |-> FALSE, hashes |-> directory]
  /\ UNCHANGED <<vars, world, run, report, written, directory>>

\* The run is over, and what it knew is gone with its temporary databases.
End ==
  /\ at' = "over"
  /\ query_history' = {} /\ privacy_spend' = {} /\ responses' = <<>>
  /\ report' = NoReport /\ written' = 0
  /\ UNCHANGED <<policy, corpus, world, run, directory>>

CloseManifest ==
  /\ at = "close_manifest"
  /\ manifest' = [manifest EXCEPT !.whole = TRUE]
  /\ End

\* The process dies or an exception ends the run.
Crash ==
  /\ at \notin {"idle", "over"}
  /\ End
  /\ UNCHANGED manifest

\* Another call.
NextRun ==
  /\ run < MaxRuns /\ run' = run + 1
  /\ Goto("over", "idle")
  /\ UNCHANGED <<vars, world, report, output>>

-----------------------------------------------------------------------------
RunBenchmark ==
  \/ ReadCorpus \/ HashInputs \/ LoadPolicy \/ RunQuery
  \/ ReadRevision \/ ReadStatus \/ HashSources
  \/ OpenFile \/ CloseFile \/ OpenManifest \/ CloseManifest
  \/ Crash \/ NextRun

EvidenceNext ==
  \/ Commit \/ Restore \/ \E p \in Parts : Edit(p)
  \/ RunBenchmark

EvidenceSpec == EvidenceInit /\ [][EvidenceNext]_evidenceVars

-----------------------------------------------------------------------------
(* Properties                                                              *)

\* Type invariant; the history of a run is in order, a run that writes has
\* recorded its provenance, and it is in the directory with its last file.
EvidenceTypeOK ==
  /\ worktree.corpus \in Corpora /\ worktree.policy \in Policies
  /\ changes \in 0..MaxChanges /\ run \in 1..MaxRuns
  /\ DOMAIN directory = Names /\ manifest.whole \in BOOLEAN
  /\ written \in 0..Len(Artifacts)
  /\ written > 0 => /\ report.began_at <= report.asked_at
                    /\ report.asked_at <= report.traced_at
  /\ at \in {"manifest", "close_manifest"} => written = Len(Artifacts)

\* The hashes of the manifest are those of the files in the directory.
Verifies == manifest.whole /\ manifest.hashes = directory

\* If the manifest verifies, all six files are whole and of one run: a run
\* that crashes, or is writing over an older one, never leaves evidence that
\* verifies although it is cut or mixed (the order of the writes of
\* _write_artifacts).
ManifestOfOneRun ==
  Verifies => \E r \in 1..MaxRuns : \A n \in Names : directory[n] = [by |-> r, whole |-> TRUE]

\* The provenance has been recorded, and git was there.
Traced == "sources" \in DOMAIN report /\ report.git

\* While nobody edits or commits from its first read to its last, the policy
\* and the corpus of which a run tells are those it hashed, before and after
\* the queries, and it is recorded as dirty exactly if they, or the sources,
\* are not what its revision holds (run_benchmark reads the files twice or
\* three times and asks git twice).
ProvenanceExact ==
  Traced /\ report.began_at = report.traced_at =>
    /\ report.inputs = report.sources
    /\ corpus = report.inputs.corpus /\ policy = report.inputs.policy
    /\ report.dirty = (report.sources # commits[report.revision])

=============================================================================
