--------------------------- MODULE EvidenceProofs ---------------------------
(***************************************************************************)
(* What a benchmark run leaves behind and what it records, for any         *)
(* policies and corpora, any number of runs into one directory, of crashes *)
(* and of edits meanwhile: first the invariant (the worktree, the report,  *)
(* the files, the provenance), then the theorems, then the answers.        *)
(***************************************************************************)
EXTENDS Evidence, FiniteSetTheorems, SequenceTheorems, TLAPS

Sequence(s) == \E S : s \in Seq(S)

(* What Append adds to a sequence, whatever its elements are.              *)
LEMMA Appended ==
  ASSUME NEW s, Sequence(s), NEW e
  PROVE  /\ Sequence(Append(s, e))
         /\ Len(s) \in Nat /\ DOMAIN s = 1..Len(s)
         /\ Len(Append(s, e)) = Len(s) + 1 /\ DOMAIN Append(s, e) = 1..(Len(s) + 1)
         /\ \A i \in 1..Len(s) : Append(s, e)[i] = s[i]
         /\ Append(s, e)[Len(s) + 1] = e
         /\ Append(s, e) # <<>>
<1>1. PICK S : s \in Seq(S)
  BY DEF Sequence
<1>2. s \in Seq(S \cup {e})
  BY <1>1, ElementOfSeq, LenProperties, SeqDef
<1>3. /\ Append(s, e) \in Seq(S \cup {e})
      /\ Len(Append(s, e)) = Len(s) + 1
      /\ \A i \in 1..Len(s) : Append(s, e)[i] = s[i]
      /\ Append(s, e)[Len(s) + 1] = e
  BY <1>2, AppendProperties
<1> QED
  BY <1>2, <1>3, LenProperties, EmptySeq DEF Sequence

-----------------------------------------------------------------------------
(* Where a run stands, and what it has recorded there.                     *)

AtRead == {"hash", "load", "queries", "status", "sources"}

AtWrite == {"write", "close", "manifest", "close_manifest"}

Fields(place) ==
  {"git"}
  \cup (IF place \in AtRead \cup AtWrite THEN {"began_at"} ELSE {})
  \cup (IF place \in (AtRead \ {"hash"}) \cup AtWrite THEN {"inputs"} ELSE {})
  \cup (IF place \in {"status", "sources"} \cup AtWrite THEN {"revision", "asked_at"} ELSE {})
  \cup (IF place \in {"sources"} \cup AtWrite THEN {"dirty"} ELSE {})
  \cup (IF place \in AtWrite THEN {"sources", "traced_at"} ELSE {})

(* The same, place by place.                                               *)
LEMMA FieldsAt ==
  /\ Fields("idle") = {"git"} /\ Fields("over") = {"git"}
  /\ Fields("hash") = {"git", "began_at"}
  /\ Fields("load") = {"git", "began_at", "inputs"}
  /\ Fields("queries") = {"git", "began_at", "inputs"}
  /\ Fields("status") = {"git", "began_at", "inputs", "revision", "asked_at"}
  /\ Fields("sources") = {"git", "began_at", "inputs", "revision", "asked_at", "dirty"}
  /\ \A place \in AtWrite :
       Fields(place) = {"git", "began_at", "inputs", "revision", "asked_at", "dirty",
                        "sources", "traced_at"}
<1>1. ASSUME NEW place \in AtWrite
      PROVE  Fields(place) = {"git", "began_at", "inputs", "revision", "asked_at", "dirty",
                              "sources", "traced_at"}
  <2>1. /\ place \in AtRead \cup AtWrite /\ place \in (AtRead \ {"hash"}) \cup AtWrite
        /\ place \in {"status", "sources"} \cup AtWrite /\ place \in {"sources"} \cup AtWrite
    OBVIOUS
  <2> QED
    BY <2>1 DEF Fields
<1>2. Fields("idle") = {"git"} /\ Fields("over") = {"git"} /\ Fields("hash") = {"git", "began_at"}
  BY DEF Fields, AtRead, AtWrite
<1>3. /\ Fields("load") = {"git", "began_at", "inputs"}
      /\ Fields("queries") = {"git", "began_at", "inputs"}
  BY DEF Fields, AtRead, AtWrite
<1>4. Fields("status") = {"git", "began_at", "inputs", "revision", "asked_at"}
  BY DEF Fields, AtRead, AtWrite
<1>5. Fields("sources") = {"git", "began_at", "inputs", "revision", "asked_at", "dirty"}
  BY DEF Fields, AtRead, AtWrite
<1> QED
  BY <1>1, <1>2, <1>3, <1>4, <1>5

Tree(w) ==
  /\ w = [p \in Parts |-> w[p]]
  /\ w.corpus \in Corpora /\ w.policy \in Policies

\* What is committed are worktrees.
Worktrees ==
  /\ Tree(worktree)
  /\ Sequence(commits) /\ commits # <<>>
  /\ \A i \in DOMAIN commits : Tree(commits[i])
  /\ changes \in 0..MaxChanges

\* The report has the fields of what was done, at their times.
Progress ==
  /\ at \in {"idle", "over"} \cup AtRead \cup AtWrite
  /\ run \in 1..MaxRuns
  /\ DOMAIN report = Fields(at) /\ report.git \in BOOLEAN
  /\ at \in AtRead \cup AtWrite => report.began_at \in Nat /\ report.began_at <= changes
  /\ at \in {"status", "sources"} \cup AtWrite =>
       /\ report.asked_at \in Nat
       /\ report.began_at <= report.asked_at /\ report.asked_at <= changes
  /\ at \in AtWrite => report.traced_at \in Nat /\ report.asked_at <= report.traced_at

LEMMA Recording ==
  ASSUME NEW fields, Records(fields)
  PROVE  /\ DOMAIN report' = DOMAIN fields \cup DOMAIN report
         /\ \A f \in DOMAIN fields : report'[f] = fields[f]
         /\ \A f \in DOMAIN report \ DOMAIN fields : report'[f] = report[f]
         /\ UNCHANGED <<world, run, output>>
BY DEF Records, With

(* An edit, a commit or a restoration leaves worktrees; and that is all    *)
(* that changes the worktree.                                              *)
LEMMA WorktreesStep == Worktrees /\ [EvidenceNext]_evidenceVars => Worktrees'
<1> SUFFICES ASSUME Worktrees, [EvidenceNext]_evidenceVars PROVE Worktrees'
  OBVIOUS
<1>1. /\ changes \in 0..MaxChanges /\ MaxChanges \in Nat
      /\ Tree(worktree) /\ Sequence(commits) /\ \A i \in DOMAIN commits : Tree(commits[i])
      /\ commits # <<>>
  BY EvidenceAssumption DEF Worktrees
<1>2. ASSUME Change PROVE changes' \in 0..MaxChanges
  BY <1>1, <1>2 DEF Change
<1>3. ASSUME NEW p \in Parts, Edit(p) PROVE Worktrees'
  <2>1. worktree' = [worktree EXCEPT ![p] = Draft[p]] /\ commits' = commits /\ Change
    BY <1>3 DEF Edit
  <2>2. Tree(worktree')
    BY <1>1, <2>1, EvidenceAssumption DEF Tree, Parts
  <2> QED
    BY <1>1, <1>2, <2>1, <2>2 DEF Worktrees
<1>4. CASE Commit
  <2>1. worktree' = worktree /\ commits' = Append(commits, worktree) /\ Change
    BY <1>4 DEF Commit
  <2> QED
    BY <1>1, <1>2, <2>1, Appended DEF Worktrees
<1>5. CASE Restore
  <2>1. worktree' = HEAD /\ commits' = commits /\ Change
    BY <1>5 DEF Restore
  <2>2. Tree(HEAD)
    <3>1. PICK S : commits \in Seq(S)
      BY <1>1 DEF Sequence
    <3>2. Len(commits) \in DOMAIN commits
      BY <1>1, <3>1, LenProperties, EmptySeq
    <3> QED
      BY <1>1, <3>2 DEF HEAD
  <2> QED
    BY <1>1, <1>2, <2>1, <2>2 DEF Worktrees
<1>6. CASE UNCHANGED world
  BY <1>1, <1>6 DEF world, Worktrees
<1>7. RunBenchmark \/ UNCHANGED evidenceVars => UNCHANGED world
  BY DEF RunBenchmark, ReadCorpus, HashInputs, LoadPolicy, RunQuery, ReadRevision, ReadStatus,
     HashSources, Records, OpenFile, CloseFile, OpenManifest, CloseManifest, Crash, End, NextRun,
     evidenceVars, world
<1> QED
  BY <1>3, <1>4, <1>5, <1>6, <1>7 DEF EvidenceNext

(* The steps by what they do to the run: somebody else's, a reading, a     *)
(* query, a file, an end or a new beginning.                               *)
LEMMA ProgressStep == Worktrees /\ Progress /\ [EvidenceNext]_evidenceVars => Progress'
<1> SUFFICES ASSUME Worktrees, Progress, [EvidenceNext]_evidenceVars PROVE Progress'
  OBVIOUS
<1>1. changes \in Nat /\ run \in 1..MaxRuns /\ MaxRuns \in Nat
  BY EvidenceAssumption DEF Worktrees, Progress
<1>2. ASSUME Change PROVE Progress'
  BY <1>1, <1>2 DEF Change, Progress, AtRead, AtWrite, Fields
<1>3. CASE ReadCorpus
  <2> DEFINE fields == [began_at |-> changes]
  <2>1. at = "idle" /\ at' = "hash" /\ Records(fields)
    BY <1>3 DEF ReadCorpus, Goto
  <2>2. DOMAIN fields = {"began_at"} /\ fields.began_at = changes
    OBVIOUS
  <2> HIDE DEF fields
  <2>3. DOMAIN report = {"git"} /\ report.git \in BOOLEAN
    BY <2>1, FieldsAt DEF Progress
  <2>4. /\ DOMAIN report' = Fields("hash")
        /\ report'.began_at = changes /\ report'.git \in BOOLEAN
        /\ changes' = changes /\ run' = run
    BY <2>1, <2>2, <2>3, Recording, FieldsAt DEF world
  <2> QED
    BY <1>1, <2>1, <2>4 DEF Progress, AtRead, AtWrite
<1>4. CASE HashInputs
  <2> DEFINE fields == [inputs |-> worktree]
  <2>1. at = "hash" /\ at' = "load" /\ Records(fields)
    BY <1>4 DEF HashInputs, Goto
  <2>2. DOMAIN fields = {"inputs"}
    OBVIOUS
  <2> HIDE DEF fields
  <2>3. DOMAIN report = {"git", "began_at"} /\ report.git \in BOOLEAN
    BY <2>1, FieldsAt DEF Progress
  <2>4. /\ DOMAIN report' = Fields("load")
        /\ report'.began_at = report.began_at /\ report'.git \in BOOLEAN
        /\ changes' = changes /\ run' = run
    BY <2>1, <2>2, <2>3, Recording, FieldsAt DEF world
  <2> QED
    BY <1>1, <2>1, <2>4 DEF Progress, AtRead, AtWrite
<1>5. CASE LoadPolicy
  BY <1>1, <1>5 DEF LoadPolicy, Goto, world, Progress, AtRead, AtWrite, Fields
<1>6. CASE RunQuery
  BY <1>1, <1>6 DEF RunQuery, world, Progress, AtRead, AtWrite, Fields
<1>7. CASE ReadRevision
  <2> DEFINE known == [revision |-> Len(commits), asked_at |-> changes]
             unknown == [revision |-> 0, asked_at |-> changes, git |-> FALSE]
  <2>1. at = "queries" /\ at' = "status" /\ (Records(known) \/ Records(unknown))
    BY <1>7 DEF ReadRevision, Goto
  <2>2. /\ DOMAIN known = {"revision", "asked_at"} /\ known.asked_at = changes
        /\ DOMAIN unknown = {"revision", "asked_at", "git"}
        /\ unknown.asked_at = changes /\ unknown.git = FALSE
    OBVIOUS
  <2> HIDE DEF known, unknown
  <2>3. DOMAIN report = {"git", "began_at", "inputs"} /\ report.git \in BOOLEAN
    BY <2>1, FieldsAt DEF Progress
  <2>4. /\ DOMAIN report' = Fields("status")
        /\ report'.began_at = report.began_at /\ report'.asked_at = changes
        /\ report'.git \in BOOLEAN
        /\ changes' = changes /\ run' = run
    <3>1. CASE Records(known)
      BY <2>2, <2>3, <3>1, Recording, FieldsAt DEF world
    <3>2. CASE Records(unknown)
      BY <2>2, <2>3, <3>2, Recording, FieldsAt DEF world
    <3> QED
      BY <2>1, <3>1, <3>2
  <2> QED
    BY <1>1, <2>1, <2>4 DEF Progress, AtRead, AtWrite
<1>8. CASE ReadStatus
  <2> DEFINE known == [dirty |-> worktree # HEAD]
             unknown == [dirty |-> FALSE, git |-> FALSE]
  <2>1. at = "status" /\ at' = "sources" /\ (Records(known) \/ Records(unknown))
    BY <1>8 DEF ReadStatus, Goto
  <2>2. /\ DOMAIN known = {"dirty"}
        /\ DOMAIN unknown = {"dirty", "git"} /\ unknown.git = FALSE
    OBVIOUS
  <2> HIDE DEF known, unknown
  <2>3. /\ DOMAIN report = {"git", "began_at", "inputs", "revision", "asked_at"}
        /\ report.git \in BOOLEAN
    BY <2>1, FieldsAt DEF Progress
  <2>4. /\ DOMAIN report' = Fields("sources")
        /\ report'.began_at = report.began_at /\ report'.asked_at = report.asked_at
        /\ report'.git \in BOOLEAN
        /\ changes' = changes /\ run' = run
    <3>1. CASE Records(known)
      BY <2>2, <2>3, <3>1, Recording, FieldsAt DEF world
    <3>2. CASE Records(unknown)
      BY <2>2, <2>3, <3>2, Recording, FieldsAt DEF world
    <3> QED
      BY <2>1, <3>1, <3>2
  <2> QED
    BY <1>1, <2>1, <2>4 DEF Progress, AtRead, AtWrite
<1>9. CASE HashSources
  <2> DEFINE fields == [sources |-> worktree, traced_at |-> changes]
  <2>1. at = "sources" /\ at' = "write" /\ Records(fields)
    BY <1>9 DEF HashSources, Goto
  <2>2. DOMAIN fields = {"sources", "traced_at"} /\ fields.traced_at = changes
    OBVIOUS
  <2> HIDE DEF fields
  <2>3. /\ DOMAIN report = {"git", "began_at", "inputs", "revision", "asked_at", "dirty"}
        /\ report.git \in BOOLEAN
    BY <2>1, FieldsAt DEF Progress
  <2>4. /\ DOMAIN report' = Fields("write")
        /\ report'.began_at = report.began_at /\ report'.asked_at = report.asked_at
        /\ report'.traced_at = changes /\ report'.git \in BOOLEAN
        /\ changes' = changes /\ run' = run
    BY <2>1, <2>2, <2>3, Recording, FieldsAt DEF world, AtWrite
  <2> QED
    BY <1>1, <2>1, <2>4 DEF Progress, AtRead, AtWrite
<1>10. CASE OpenFile \/ CloseFile \/ OpenManifest
  <2>1. /\ at \in AtWrite /\ at' \in AtWrite /\ UNCHANGED <<run, report, changes>>
    BY <1>10 DEF OpenFile, CloseFile, OpenManifest, Goto, AtWrite, world
  <2> QED
    BY <1>1, <2>1 DEF Progress, AtRead, AtWrite, Fields
<1>11. CASE CloseManifest \/ Crash
  <2>1. at' = "over" /\ report' = [git |-> TRUE] /\ run' = run
    BY <1>11 DEF CloseManifest, Crash, End, NoReport
  <2> QED
    BY <1>1, <2>1 DEF Progress, AtRead, AtWrite, Fields
<1>12. CASE NextRun
  <2>1. at = "over" /\ at' = "idle" /\ report' = report /\ run < MaxRuns /\ run' = run + 1
    BY <1>12 DEF NextRun, Goto
  <2> QED
    BY <1>1, <2>1 DEF Progress, AtRead, AtWrite, Fields
<1>13. CASE UNCHANGED evidenceVars
  BY <1>1, <1>13 DEF evidenceVars, world, Progress, AtRead, AtWrite, Fields
<1> QED
  BY <1>2, <1>3, <1>4, <1>5, <1>6, <1>7, <1>8, <1>9, <1>10, <1>11, <1>12, <1>13
     DEF EvidenceNext, RunBenchmark, Edit, Commit, Restore

-----------------------------------------------------------------------------
(* The files.                                                              *)

(* The files are written in the order of their numbers, each once.         *)
LEMMA SixArtifacts ==
  /\ Len(Artifacts) = 6 /\ DOMAIN Artifacts = 1..6
  /\ \A i \in 1..6 : Artifacts[i] \in Names
  /\ \A i, j \in 1..6 : Artifacts[i] = Artifacts[j] => i = j
  /\ \A n \in Names : \E i \in 1..6 : n = Artifacts[i]
<1>1. Len(Artifacts) = 6 /\ DOMAIN Artifacts = 1..6
  BY DEF Artifacts
<1>2. \A i, j \in 1..6 : Artifacts[i] = Artifacts[j] => i = j
  BY DEF Artifacts
<1> QED
  BY <1>1, <1>2 DEF Names

\* All files are whole and by one run.
Uniform(files) == \E r \in 1..MaxRuns : \A n \in Names : files[n] = [by |-> r, whole |-> TRUE]

\* The files that were written are whole and by this run; a manifest that is
\* whole, or just being written, has the hashes of files of one run.
Files ==
  /\ written \in 0..6
  /\ at \notin AtWrite => written = 0
  /\ at \in {"write", "close"} => written < 6
  /\ at \in {"manifest", "close_manifest"} => written = 6
  /\ directory = [n \in Names |-> directory[n]]
  /\ \A i \in 1..written : directory[Artifacts[i]] = [by |-> run, whole |-> TRUE]
  /\ manifest = [whole |-> manifest.whole, hashes |-> manifest.hashes]
  /\ manifest.whole \in BOOLEAN
  /\ manifest.whole \/ at = "close_manifest" => Uniform(manifest.hashes)

(* The n-th file is the only one that a write touches.                     *)
LEMMA WriteOne ==
  ASSUME Files, at \in {"write", "close"}, NEW whole \in BOOLEAN, Holds(whole)
  PROVE  /\ directory' = [n \in Names |-> directory'[n]]
         /\ directory'[Artifacts[written + 1]] = [by |-> run, whole |-> whole]
         /\ \A i \in 1..written : directory'[Artifacts[i]] = directory[Artifacts[i]]
<1>1. written \in 0..5
  BY DEF Files
<1>2. /\ directory = [n \in Names |-> directory[n]]
      /\ directory' = [directory EXCEPT ![Artifacts[written + 1]] = [by |-> run, whole |-> whole]]
      /\ Artifacts[written + 1] \in Names
      /\ \A i \in 1..written : /\ Artifacts[i] \in Names
                               /\ Artifacts[i] # Artifacts[written + 1]
  BY <1>1, SixArtifacts DEF Files, Holds
<1> QED
  BY <1>2

LEMMA FilesStep == Progress /\ Files /\ [EvidenceNext]_evidenceVars => Files'
<1> SUFFICES ASSUME Progress, Files, [EvidenceNext]_evidenceVars PROVE Files'
  OBVIOUS
<1>1. /\ written \in 0..6 /\ run \in 1..MaxRuns /\ Len(Artifacts) = 6
      /\ manifest.whole \in BOOLEAN
  BY SixArtifacts DEF Files, Progress
<1>2. CASE OpenFile
  <2>1. /\ at = "write" /\ at' = "close" /\ Holds(FALSE)
        /\ written' = written /\ run' = run /\ manifest' = manifest
    BY <1>2 DEF OpenFile, Goto
  <2>2. /\ directory' = [n \in Names |-> directory'[n]]
        /\ \A i \in 1..written : directory'[Artifacts[i]] = directory[Artifacts[i]]
    BY <2>1, WriteOne
  <2> QED
    BY <1>1, <2>1, <2>2 DEF Files, AtWrite, Uniform
<1>3. CASE CloseFile
  <2>1. /\ at = "close" /\ at' = IF written + 1 = 6 THEN "manifest" ELSE "write"
        /\ Holds(TRUE) /\ written' = written + 1 /\ run' = run /\ manifest' = manifest
    BY <1>1, <1>3 DEF CloseFile, Goto
  <2>2. /\ directory' = [n \in Names |-> directory'[n]]
        /\ directory'[Artifacts[written + 1]] = [by |-> run, whole |-> TRUE]
        /\ \A i \in 1..written : directory'[Artifacts[i]] = directory[Artifacts[i]]
    BY <2>1, WriteOne
  <2>3. written < 6 /\ \A i \in 1..written' : i \in 1..written \/ i = written + 1
    BY <1>1, <2>1 DEF Files
  <2>4. \A i \in 1..written' : directory'[Artifacts[i]] = [by |-> run', whole |-> TRUE]
    BY <2>1, <2>2, <2>3 DEF Files
  <2> QED
    BY <1>1, <2>1, <2>2, <2>3, <2>4 DEF Files, AtWrite, Uniform
<1>4. CASE OpenManifest
  <2>1. /\ at = "manifest" /\ at' = "close_manifest"
        /\ manifest' = [whole |-> FALSE, hashes |-> directory]
        /\ UNCHANGED <<written, directory, run>>
    BY <1>4 DEF OpenManifest, Goto
  <2>2. written = 6
    BY <2>1 DEF Files
  <2>3. \A n \in Names : directory[n] = [by |-> run, whole |-> TRUE]
    BY <2>2, SixArtifacts DEF Files
  <2>4. Uniform(directory)
    BY <1>1, <2>3 DEF Uniform
  <2>5. manifest'.whole = FALSE /\ manifest'.hashes = directory
    BY <2>1
  <2> QED
    BY <1>1, <2>1, <2>2, <2>4, <2>5 DEF Files, AtWrite, Uniform
<1>5. CASE CloseManifest
  <2>1. /\ at = "close_manifest" /\ at' = "over" /\ written' = 0
        /\ manifest' = [manifest EXCEPT !.whole = TRUE] /\ UNCHANGED <<directory, run>>
    BY <1>5 DEF CloseManifest, End
  <2>2. /\ manifest' = [whole |-> manifest'.whole, hashes |-> manifest'.hashes]
        /\ manifest'.whole = TRUE /\ manifest'.hashes = manifest.hashes
    <3>1. ASSUME NEW w, NEW h, manifest = [whole |-> w, hashes |-> h]
          PROVE  manifest' = [whole |-> TRUE, hashes |-> h] /\ manifest.hashes = h
      BY <2>1, <3>1
    <3>2. manifest' = [whole |-> TRUE, hashes |-> manifest.hashes]
      BY <3>1 DEF Files
    <3> QED
      BY <3>2
  <2> QED
    BY <1>1, <2>1, <2>2 DEF Files, AtWrite, Uniform
<1>6. CASE Crash
  <2>1. /\ at' = "over" /\ written' = 0 /\ UNCHANGED <<directory, run, manifest>>
    BY <1>6 DEF Crash, End
  <2> QED
    BY <1>1, <2>1 DEF Files, AtWrite, Uniform
<1>7. CASE NextRun
  <2>1. at = "over" /\ at' = "idle" /\ UNCHANGED output
    BY <1>7 DEF NextRun, Goto
  <2> QED
    BY <1>1, <2>1 DEF Files, AtWrite, Uniform, output
<1>8. ASSUME at \notin AtWrite, at' \notin AtWrite, UNCHANGED <<run, output>>
      PROVE  Files'
  BY <1>8 DEF Files, AtWrite, Uniform, output
<1>9. CASE HashSources
  <2>1. /\ at = "sources" /\ at' = "write"
        /\ UNCHANGED <<run, written, directory, manifest>>
    BY <1>9 DEF HashSources, Goto, Records, output
  <2>2. written = 0 /\ (manifest.whole => Uniform(manifest.hashes))
    BY <2>1 DEF Files, AtWrite
  <2>3. Uniform(manifest.hashes)' <=> Uniform(manifest.hashes)
    BY <2>1 DEF Uniform
  <2> QED
    BY <2>1, <2>2, <2>3 DEF Files, AtWrite
<1>10. CASE ReadCorpus \/ HashInputs \/ LoadPolicy \/ RunQuery \/ ReadRevision \/ ReadStatus
  BY <1>8, <1>10 DEF ReadCorpus, HashInputs, LoadPolicy, RunQuery, ReadRevision, ReadStatus,
     Goto, Records, AtWrite, output
<1>11. CASE Commit \/ Restore \/ \E p \in Parts : Edit(p)
  BY <1>8, <1>11 DEF Commit, Restore, Edit, Change, AtWrite
<1>12. CASE UNCHANGED evidenceVars
  BY <1>12 DEF evidenceVars, output, Files, Uniform
<1> QED
  BY <1>2, <1>3, <1>4, <1>5, <1>6, <1>7, <1>9, <1>10, <1>11, <1>12
     DEF EvidenceNext, RunBenchmark

-----------------------------------------------------------------------------
(* The provenance.                                                         *)

\* As long as nothing has changed since the first read, what was read and
\* recorded is what is in the worktree, and at HEAD.
Undisturbed ==
  at \in AtRead /\ report.began_at = changes =>
    /\ corpus = worktree.corpus
    /\ at # "hash" => report.inputs = worktree
    /\ at \notin {"hash", "load"} => policy = worktree.policy
    /\ at \in {"status", "sources"} /\ report.git => report.revision = Len(commits)
    /\ at = "sources" /\ report.git => report.dirty = (worktree # HEAD)

\* A run that writes tells the truth.
Told ==
  at \in AtWrite /\ report.git /\ report.began_at = report.traced_at =>
    /\ report.inputs = report.sources
    /\ corpus = report.inputs.corpus /\ policy = report.inputs.policy
    /\ report.dirty = (report.sources # commits[report.revision])

Exact == Undisturbed /\ Told

LEMMA QueryKeeps == Query => UNCHANGED <<policy, corpus>>
BY DEF Query, Refuse, RefuseVariant, Release

LEMMA ExactStep == Worktrees /\ Progress /\ Exact /\ [EvidenceNext]_evidenceVars => Exact'
<1> SUFFICES ASSUME Worktrees, Progress, Exact, [EvidenceNext]_evidenceVars PROVE Exact'
  OBVIOUS
<1>1. changes \in Nat
  BY EvidenceAssumption DEF Worktrees
<1>2. ASSUME Change PROVE Exact'
  <2>1. /\ at' = at /\ at \notin AtWrite /\ report' = report /\ changes' = changes + 1
    BY <1>2 DEF Change, AtWrite
  <2>2. at \in AtRead => report.began_at \in Nat /\ report.began_at <= changes
    BY DEF Progress
  <2> QED
    BY <1>1, <2>1, <2>2 DEF Exact, Undisturbed, Told
<1>3. CASE ReadCorpus
  <2>1. at' = "hash" /\ corpus' = worktree.corpus /\ UNCHANGED world
    BY <1>3 DEF ReadCorpus, Goto, Records
  <2> QED
    BY <2>1 DEF Exact, Undisturbed, Told, AtWrite, world
<1>4. CASE HashInputs
  <2> DEFINE fields == [inputs |-> worktree]
  <2>1. at = "hash" /\ at' = "load" /\ Records(fields) /\ UNCHANGED vars
    BY <1>4 DEF HashInputs, Goto
  <2>2. DOMAIN fields = {"inputs"} /\ fields.inputs = worktree
    OBVIOUS
  <2> HIDE DEF fields
  <2>3. DOMAIN report = {"git", "began_at"}
    BY <2>1, FieldsAt DEF Progress
  <2>4. /\ report'.inputs = worktree /\ report'.began_at = report.began_at
        /\ UNCHANGED <<world, corpus>>
    BY <2>1, <2>2, <2>3, Recording DEF vars
  <2> QED
    BY <2>1, <2>4 DEF Exact, Undisturbed, Told, AtRead, AtWrite, world
<1>5. CASE LoadPolicy
  <2>1. /\ at = "load" /\ at' = "queries" /\ policy' = worktree.policy
        /\ UNCHANGED <<corpus, worktree, changes, report>>
    BY <1>5 DEF LoadPolicy, Goto, world
  <2> QED
    BY <2>1 DEF Exact, Undisturbed, Told, AtRead, AtWrite
<1>6. CASE RunQuery
  <2>1. at = "queries" /\ UNCHANGED <<policy, corpus, worktree, changes, report, at>>
    BY <1>6, QueryKeeps DEF RunQuery, world
  <2> QED
    BY <2>1 DEF Exact, Undisturbed, Told, AtRead, AtWrite
<1>7. CASE ReadRevision
  <2> DEFINE known == [revision |-> Len(commits), asked_at |-> changes]
             unknown == [revision |-> 0, asked_at |-> changes, git |-> FALSE]
  <2>1. /\ at = "queries" /\ at' = "status" /\ UNCHANGED vars
        /\ Records(known) \/ Records(unknown)
    BY <1>7 DEF ReadRevision, Goto
  <2>2. /\ DOMAIN known = {"revision", "asked_at"} /\ known.revision = Len(commits)
        /\ DOMAIN unknown = {"revision", "asked_at", "git"} /\ unknown.git = FALSE
    OBVIOUS
  <2> HIDE DEF known, unknown
  <2>3. DOMAIN report = {"git", "began_at", "inputs"}
    BY <2>1, FieldsAt DEF Progress
  <2>4. /\ report'.inputs = report.inputs /\ report'.began_at = report.began_at
        /\ report'.git = FALSE \/ report'.revision = Len(commits)
        /\ UNCHANGED <<world, corpus, policy>>
    <3>1. CASE Records(known)
      BY <2>1, <2>2, <2>3, <3>1, Recording DEF vars
    <3>2. CASE Records(unknown)
      BY <2>1, <2>2, <2>3, <3>2, Recording DEF vars
    <3> QED
      BY <2>1, <3>1, <3>2
  <2> QED
    BY <2>1, <2>4 DEF Exact, Undisturbed, Told, AtRead, AtWrite, world
<1>8. CASE ReadStatus
  <2> DEFINE known == [dirty |-> worktree # HEAD]
             unknown == [dirty |-> FALSE, git |-> FALSE]
  <2>1. /\ at = "status" /\ at' = "sources" /\ UNCHANGED vars
        /\ Records(known) \/ Records(unknown)
    BY <1>8 DEF ReadStatus, Goto
  <2>2. /\ DOMAIN known = {"dirty"} /\ known.dirty = (worktree # HEAD)
        /\ DOMAIN unknown = {"dirty", "git"} /\ unknown.git = FALSE
    OBVIOUS
  <2> HIDE DEF known, unknown
  <2>3. DOMAIN report = {"git", "began_at", "inputs", "revision", "asked_at"}
    BY <2>1, FieldsAt DEF Progress
  <2>4. /\ report'.inputs = report.inputs /\ report'.began_at = report.began_at
        /\ report'.revision = report.revision
        /\ report'.git = FALSE \/ (report'.git = report.git /\ report'.dirty = (worktree # HEAD))
        /\ UNCHANGED <<world, corpus, policy>>
    <3>1. CASE Records(known)
      BY <2>1, <2>2, <2>3, <3>1, Recording DEF vars
    <3>2. CASE Records(unknown)
      BY <2>1, <2>2, <2>3, <3>2, Recording DEF vars
    <3> QED
      BY <2>1, <3>1, <3>2
  <2>5. HEAD' = HEAD /\ worktree' = worktree /\ commits' = commits /\ changes' = changes
    BY <2>4 DEF HEAD, world
  <2> QED
    BY <2>1, <2>4, <2>5 DEF Exact, Undisturbed, Told, AtRead, AtWrite
<1>9. CASE HashSources
  <2> DEFINE fields == [sources |-> worktree, traced_at |-> changes]
  <2>1. /\ at = "sources" /\ at' = "write" /\ Records(fields) /\ UNCHANGED vars
    BY <1>9 DEF HashSources, Goto
  <2>2. /\ DOMAIN fields = {"sources", "traced_at"}
        /\ fields.sources = worktree /\ fields.traced_at = changes
    OBVIOUS
  <2> HIDE DEF fields
  <2>3. DOMAIN report = {"git", "began_at", "inputs", "revision", "asked_at", "dirty"}
    BY <2>1, FieldsAt DEF Progress
  <2>4. /\ report'.inputs = report.inputs /\ report'.began_at = report.began_at
        /\ report'.revision = report.revision /\ report'.git = report.git
        /\ report'.dirty = report.dirty
        /\ report'.sources = worktree /\ report'.traced_at = changes
        /\ UNCHANGED <<commits, corpus, policy>>
    BY <2>1, <2>2, <2>3, Recording DEF vars, world
  <2> QED
    BY <2>1, <2>4 DEF Exact, Undisturbed, Told, AtRead, AtWrite, HEAD
<1>10. CASE OpenFile \/ CloseFile \/ OpenManifest
  <2>1. /\ at \in AtWrite /\ at' \in AtWrite /\ UNCHANGED <<report, corpus, policy, commits>>
    BY <1>10 DEF OpenFile, CloseFile, OpenManifest, Goto, AtWrite, world, vars
  <2>2. at' \notin AtRead
    BY <2>1 DEF AtRead, AtWrite
  <2> QED
    BY <2>1, <2>2 DEF Exact, Undisturbed, Told
<1>11. CASE CloseManifest \/ Crash \/ NextRun
  <2>1. at' \in {"over", "idle"}
    BY <1>11 DEF CloseManifest, Crash, End, NextRun, Goto
  <2> QED
    BY <2>1 DEF Exact, Undisturbed, Told, AtRead, AtWrite
<1>12. CASE UNCHANGED evidenceVars
  BY <1>12 DEF evidenceVars, vars, world, HEAD, Exact, Undisturbed, Told
<1> QED
  BY <1>2, <1>3, <1>4, <1>5, <1>6, <1>7, <1>8, <1>9, <1>10, <1>11, <1>12
     DEF EvidenceNext, RunBenchmark, Edit, Commit, Restore

-----------------------------------------------------------------------------
(* The theorems.                                                           *)

EvidenceInv == Worktrees /\ Progress /\ Files /\ Exact

LEMMA InitEvidence == EvidenceInit => EvidenceInv
<1> SUFFICES ASSUME EvidenceInit PROVE EvidenceInv
  OBVIOUS
<1>1. /\ policy \in Policies /\ corpus \in Corpora
      /\ worktree = [corpus |-> corpus, policy |-> policy, source |-> "committed"]
      /\ commits = <<worktree>> /\ changes = 0
      /\ run = 1 /\ at = "idle" /\ report = [git |-> TRUE] /\ written = 0
      /\ directory = [n \in Names |-> [by |-> 0, whole |-> FALSE]]
      /\ manifest = [whole |-> FALSE, hashes |-> directory]
  BY DEF EvidenceInit, Init, NoReport, Absent
<1>2. Tree(worktree)
  BY <1>1 DEF Tree, Parts
<1>3. /\ Sequence(commits) /\ commits # <<>>
      /\ \A i \in DOMAIN commits : Tree(commits[i])
  <2>1. commits = <<worktree>>
    BY <1>1
  <2>2. commits # <<>> /\ DOMAIN commits = {1}
    BY ONLY <2>1
  <2>3. commits \in Seq({worktree})
    BY ONLY <2>1
  <2>4. Sequence(commits)
    BY ONLY <2>3 DEF Sequence
  <2>5. commits[1] = worktree
    BY ONLY <2>1
  <2> QED
    BY ONLY <1>2, <2>2, <2>4, <2>5
<1>4. Worktrees
  BY <1>1, <1>2, <1>3, EvidenceAssumption DEF Worktrees
<1>5. Progress
  BY <1>1, FieldsAt, EvidenceAssumption DEF Progress, AtRead, AtWrite
<1>6. Files
  <2>1. /\ directory = [n \in Names |-> directory[n]]
        /\ manifest.whole = FALSE /\ manifest.hashes = directory
    BY <1>1
  <2>2. manifest = [whole |-> manifest.whole, hashes |-> manifest.hashes]
    BY ONLY <1>1, <2>1
  <2>3. at = "idle" /\ written = 0
    BY <1>1
  <2>4. \A i \in 1..written : FALSE
    BY ONLY <2>3
  <2>5. manifest.whole \in BOOLEAN /\ ~(manifest.whole \/ at = "close_manifest")
    BY ONLY <2>1, <2>3
  <2>6. /\ written \in 0..6
        /\ at \notin {"write", "close"} /\ at \notin {"manifest", "close_manifest"}
    BY ONLY <2>3
  <2> QED
    BY ONLY <2>1, <2>2, <2>3, <2>4, <2>5, <2>6 DEF Files
<1>7. Exact
  BY <1>1 DEF Exact, Undisturbed, Told, AtRead, AtWrite
<1> QED
  BY <1>4, <1>5, <1>6, <1>7 DEF EvidenceInv

(* Where a run stands, what it has recorded and what it has written, in    *)
(* every state.                                                            *)
THEOREM EvidenceInvariant == EvidenceSpec => []EvidenceInv
<1>1. EvidenceInv /\ [EvidenceNext]_evidenceVars => EvidenceInv'
  BY WorktreesStep, ProgressStep, FilesStep, ExactStep DEF EvidenceInv
<1> QED
  BY <1>1, InitEvidence, PTL DEF EvidenceSpec

(* A manifest that verifies is of six whole files of one run, however many *)
(* runs were cut or wrote over each other (_write_artifacts).              *)
THEOREM ManifestTellsOneRun == EvidenceSpec => []ManifestOfOneRun
<1>1. EvidenceInv => ManifestOfOneRun
  BY DEF EvidenceInv, Files, Uniform, ManifestOfOneRun, Verifies
<1> QED
  BY <1>1, EvidenceInvariant, PTL

(* While nobody edits or commits, a run tells of the policy and the corpus *)
(* it used, and whether they are those of its revision (run_benchmark).    *)
THEOREM ProvenanceIsExact == EvidenceSpec => []ProvenanceExact
<1>1. EvidenceInv => ProvenanceExact
  <2> SUFFICES ASSUME EvidenceInv, "sources" \in DOMAIN report PROVE at \in AtWrite
    BY DEF ProvenanceExact, Traced, EvidenceInv, Exact, Told
  <2>1. "sources" \in Fields(at) /\ at \in {"idle", "over"} \cup AtRead \cup AtWrite
    BY DEF EvidenceInv, Progress
  <2> QED
    BY <2>1, FieldsAt DEF AtRead
<1> QED
  BY <1>1, EvidenceInvariant, PTL

(* The variables keep their types; the times of a report are in order, and *)
(* a run whose files are all written has written six (run_benchmark).      *)
THEOREM EvidenceTyped == EvidenceSpec => []EvidenceTypeOK
<1>1. EvidenceInv => EvidenceTypeOK
  <2> SUFFICES ASSUME EvidenceInv PROVE EvidenceTypeOK
    OBVIOUS
  <2>1. /\ worktree.corpus \in Corpora /\ worktree.policy \in Policies
        /\ changes \in 0..MaxChanges /\ run \in 1..MaxRuns
    BY DEF EvidenceInv, Worktrees, Tree, Progress
  <2>2. /\ DOMAIN directory = Names /\ manifest.whole \in BOOLEAN
        /\ written \in 0..Len(Artifacts)
        /\ at \in {"manifest", "close_manifest"} => written = Len(Artifacts)
        /\ written > 0 => at \in AtWrite
    BY SixArtifacts DEF EvidenceInv, Files
  <2>3. written > 0 => report.began_at <= report.asked_at /\ report.asked_at <= report.traced_at
    BY <2>2 DEF EvidenceInv, Progress
  <2> QED
    BY <2>1, <2>2, <2>3 DEF EvidenceTypeOK
<1> QED
  BY <1>1, EvidenceInvariant, PTL

-----------------------------------------------------------------------------
(* The answers.                                                            *)

Rows == \A row \in privacy_spend : row = [principal |-> row.principal, release |-> row.release]

\* An answer that lets a release out has its row.
Answered(n, given, spend) ==
  /\ given[n].decision \in {"ALLOW", "DENY"}
  /\ given[n].decision = "ALLOW" =>
       [principal |-> Call(n).subject, release |-> given[n].values] \in spend

Answers ==
  /\ policy \in Policies /\ corpus \in Corpora
  /\ Sequence(responses) /\ Len(responses) <= CaseCalls + Len(ControlCalls)
  /\ Rows
  /\ \A n \in 1..Len(responses) : Answered(n, responses, privacy_spend)

\* The corpus is read before the first query, and the policy is loaded.
Unasked == at \in {"idle", "over", "hash", "load"} => responses = <<>>

LEMMA Joined ==
  \A s, t : Sequence(s) /\ Sequence(t) => Sequence(s \o t) /\ Len(s \o t) = Len(s) + Len(t)
<1> SUFFICES ASSUME NEW s, Sequence(s), NEW t, Sequence(t)
             PROVE  Sequence(s \o t) /\ Len(s \o t) = Len(s) + Len(t)
  OBVIOUS
<1>1. PICK S : s \in Seq(S)
  BY DEF Sequence
<1>2. PICK T : t \in Seq(T)
  BY DEF Sequence
<1>3. s \in Seq(S \cup T) /\ t \in Seq(S \cup T)
  BY <1>1, <1>2, ElementOfSeq, LenProperties, SeqDef
<1> QED
  BY <1>3, ConcatProperties DEF Sequence

\* u is s and then t, item by item.
Continues(s, t, u) ==
  /\ \A i \in 1..Len(s) : u[i] = s[i]
  /\ \A i \in 1..Len(t) : u[Len(s) + i] = t[i]

LEMMA JoinedItems == \A s, t : Sequence(s) /\ Sequence(t) => Continues(s, t, s \o t)
<1> SUFFICES ASSUME NEW s, Sequence(s), NEW t, Sequence(t)
             PROVE  Continues(s, t, s \o t)
  OBVIOUS
<1>1. PICK S : s \in Seq(S)
  BY DEF Sequence
<1>2. PICK T : t \in Seq(T)
  BY DEF Sequence
<1>3. s \in Seq(S \cup T) /\ t \in Seq(S \cup T)
  BY <1>1, <1>2, ElementOfSeq, LenProperties, SeqDef
<1>4. Len(s) \in Nat /\ Len(t) \in Nat
  BY <1>3, LenProperties
<1>5. \A i \in 1..(Len(s) + Len(t)) : (s \o t)[i] = IF i <= Len(s) THEN s[i] ELSE t[i - Len(s)]
  BY <1>3, ConcatProperties
<1> QED
  BY <1>4, <1>5 DEF Continues

LEMMA ControlItems ==
  /\ Sequence(ControlCalls) /\ Len(ControlCalls) = 15
  /\ \A j \in 1..2 : ControlCalls[j] = StickyCalls[j]
  /\ \A j \in 1..6 : ControlCalls[2 + j] = BudgetCalls[j]
  /\ \A j \in 1..2 : ControlCalls[8 + j] = RoleCalls[j]
  /\ \A j \in 1..5 : ControlCalls[10 + j] = SliceCalls[j]
<1>1. /\ StickyCalls \in Seq({StickyCalls[i] : i \in 1..2}) /\ Len(StickyCalls) = 2
      /\ BudgetCalls \in Seq({BudgetCalls[i] : i \in 1..6}) /\ Len(BudgetCalls) = 6
  BY DEF StickyCalls, BudgetCalls
<1>2. /\ RoleCalls \in Seq({RoleCalls[i] : i \in 1..2}) /\ Len(RoleCalls) = 2
      /\ SliceCalls \in Seq({SliceCalls[i] : i \in 1..5}) /\ Len(SliceCalls) = 5
  BY DEF RoleCalls, SliceCalls
<1>3. Sequence(StickyCalls) /\ Sequence(BudgetCalls) /\ Sequence(RoleCalls) /\ Sequence(SliceCalls)
  BY <1>1, <1>2 DEF Sequence
<1> DEFINE two == StickyCalls \o BudgetCalls
           three == two \o RoleCalls
<1>4. Sequence(two) /\ Len(two) = Len(StickyCalls) + Len(BudgetCalls)
  BY <1>3, Joined, Zenon
<1>5. Continues(StickyCalls, BudgetCalls, two)
  BY <1>3, JoinedItems, Zenon
<1> HIDE DEF two
<1>6. Sequence(three) /\ Len(three) = Len(two) + Len(RoleCalls)
  BY <1>3, <1>4, Joined, Zenon
<1>7. Continues(two, RoleCalls, three)
  BY <1>3, <1>4, JoinedItems, Zenon
<1> HIDE DEF three
<1>8. ControlCalls = three \o SliceCalls
  BY DEF ControlCalls, two, three
<1>9. Continues(three, SliceCalls, ControlCalls)
  BY <1>3, <1>6, <1>8, JoinedItems, Zenon
<1>10. Sequence(ControlCalls) /\ Len(ControlCalls) = Len(three) + Len(SliceCalls)
  BY <1>3, <1>6, <1>8, Joined, Zenon
<1>11. Len(two) = 8 /\ Len(three) = 10 /\ Len(ControlCalls) = 15
  BY <1>1, <1>2, <1>4, <1>6, <1>10
<1> QED
  BY <1>1, <1>2, <1>5, <1>7, <1>9, <1>10, <1>11 DEF Continues

LEMMA CallsCounted ==
  ASSUME corpus \in Corpora
  PROVE  CaseCalls \in Nat /\ CaseCalls + Len(ControlCalls) \in Nat
<1>1. Len(corpus) \in Nat
  BY BenchmarkAssumption, LenProperties
<1>2. Iterations \in Nat
  BY BenchmarkAssumption
<1>3. Len(corpus) * Iterations \in Nat
  BY <1>1, <1>2
<1> QED
  BY <1>3, ControlItems DEF CaseCalls

(* One answer more: a denial, or a release whose row was there or is       *)
(* inserted with it.                                                       *)
LEMMA OneMoreAnswer ==
  ASSUME Answers, Len(responses) < CaseCalls + Len(ControlCalls), UNCHANGED <<policy, corpus>>,
         NEW e, responses' = Append(responses, e), e.decision \in {"ALLOW", "DENY"},
         privacy_spend \subseteq privacy_spend', Rows',
         e.decision = "ALLOW" =>
           [principal |-> Call(Len(responses) + 1).subject, release |-> e.values] \in privacy_spend'
  PROVE  Answers'
<1> DEFINE n == Len(responses)
<1>1. /\ Sequence(responses') /\ n \in Nat
      /\ Len(responses') = n + 1
      /\ \A i \in 1..n : responses'[i] = responses[i]
      /\ responses'[n + 1] = e
  BY Appended DEF Answers
<1>2. CaseCalls + Len(ControlCalls) \in Nat
  BY CallsCounted DEF Answers
<1>3. (CaseCalls + Len(ControlCalls))' = CaseCalls + Len(ControlCalls)
  BY DEF CaseCalls, ControlCalls, StickyCalls, BudgetCalls, RoleCalls, SliceCalls, Groupings,
     Slices, Ask, Plan
<1>4. \A i : Call(i)' = Call(i)
  BY DEF Call, CaseCalls, CaseOf, ControlCalls, StickyCalls, BudgetCalls, RoleCalls,
     SliceCalls, Groupings, Slices, Ask, Plan
<1> HIDE DEF n
<1>5. ASSUME NEW i \in 1..(n + 1) PROVE Answered(i, responses, privacy_spend)'
  <2>1. CASE i = n + 1
    BY <1>1, <1>4, <2>1 DEF Answered, n
  <2>2. CASE i # n + 1
    <3>1. i \in 1..n
      BY <1>1, <2>2
    <3>2. Answered(i, responses, privacy_spend)
      BY <3>1 DEF Answers, n
    <3> QED
      BY <1>1, <1>4, <3>1, <3>2 DEF Answered
  <2> QED
    BY <2>1, <2>2
<1>6. Len(responses') <= (CaseCalls + Len(ControlCalls))'
  BY <1>1, <1>2, <1>3 DEF n
<1> QED
  BY <1>1, <1>5, <1>6 DEF Answers

LEMMA QueryAnswers == Answers /\ Query => Answers'
<1> SUFFICES ASSUME Answers, Query PROVE Answers'
  OBVIOUS
<1> DEFINE call == Call(Len(responses) + 1)
<1>1. /\ Len(responses) < CaseCalls + Len(ControlCalls)
      /\ Refuse(call) \/ RefuseVariant(call) \/ Release(call)
  BY DEF Query
<1> HIDE DEF call
<1>2. ASSUME NEW reason, Deny(reason), UNCHANGED <<policy, corpus, privacy_spend>>
      PROVE  Answers'
  <2> DEFINE e == [decision |-> "DENY", reason |-> reason]
  <2>1. e.decision = "DENY" /\ responses' = Append(responses, e)
    BY <1>2 DEF Deny
  <2> HIDE DEF e
  <2>2. Rows'
    BY <1>2 DEF Answers, Rows
  <2> QED
    BY <1>1, <1>2, <2>1, <2>2, OneMoreAnswer
<1>3. CASE Refuse(call) \/ RefuseVariant(call)
  BY <1>2, <1>3 DEF Refuse, RefuseVariant
<1>4. CASE Release(call)
  <2> DEFINE p == call.subject
             release == <<call.plan, Epsilon(call)>>
             new == release \notin Charged(p)
             row == [principal |-> p, release |-> release]
             spent == Spent(p) + IF new THEN Epsilon(call) ELSE 0
             e == [decision |-> "ALLOW",
                   reason |-> IF new THEN "none" ELSE "STICKY_RELEASE_REUSED",
                   values |-> release, spent |-> spent]
  <2>1. /\ UNCHANGED <<policy, corpus>>
        /\ \/ Deny("PRIVACY_BUDGET_EXHAUSTED") /\ UNCHANGED privacy_spend
           \/ /\ privacy_spend' = privacy_spend \cup IF new THEN {row} ELSE {}
              /\ responses' = Append(responses, e)
    BY <1>4 DEF Release
  <2>2. CASE Deny("PRIVACY_BUDGET_EXHAUSTED") /\ UNCHANGED privacy_spend
    BY <1>2, <2>1, <2>2
  <2>3. CASE /\ privacy_spend' = privacy_spend \cup IF new THEN {row} ELSE {}
             /\ responses' = Append(responses, e)
    <3>1. e.decision = "ALLOW" /\ e.values = release
      OBVIOUS
    <3>2. row.principal = p /\ row.release = release
      OBVIOUS
    <3> HIDE DEF e
    <3>3. row \in privacy_spend'
      <4>1. CASE new
        BY <2>3, <4>1
      <4>2. CASE ~new
        <5>1. PICK old \in privacy_spend : old.principal = p /\ old.release = release
          BY <4>2 DEF Charged
        <5>2. old = [principal |-> old.principal, release |-> old.release]
          BY DEF Answers, Rows
        <5>3. old = row
          BY <5>1, <5>2
        <5> QED
          BY <2>3, <5>3
      <4> QED
        BY <4>1, <4>2
    <3>4. privacy_spend \subseteq privacy_spend' /\ privacy_spend' \subseteq privacy_spend \cup {row}
      BY <2>3
    <3>5. row = [principal |-> row.principal, release |-> row.release]
      BY <3>2
    <3> HIDE DEF row
    <3>6. Rows'
      BY <3>4, <3>5 DEF Answers, Rows
    <3>7. [principal |-> Call(Len(responses) + 1).subject, release |-> e.values] \in privacy_spend'
      BY <3>1, <3>3 DEF row, call
    <3> HIDE DEF release, p
    <3> QED
      BY <1>1, <2>1, <2>3, <3>1, <3>4, <3>6, <3>7, OneMoreAnswer
  <2> QED
    BY <2>1, <2>2, <2>3
<1> QED
  BY <1>1, <1>3, <1>4

LEMMA AnswersStep ==
  Worktrees /\ Answers /\ Unasked /\ [EvidenceNext]_evidenceVars => Answers' /\ Unasked'
<1> SUFFICES ASSUME Worktrees, Answers, Unasked, [EvidenceNext]_evidenceVars
             PROVE  Answers' /\ Unasked'
  OBVIOUS
<1>0. worktree.corpus \in Corpora /\ worktree.policy \in Policies
  BY DEF Worktrees, Tree
<1>1. ASSUME responses' = <<>>, privacy_spend' = {} \/ UNCHANGED privacy_spend,
             policy' \in Policies, corpus' \in Corpora
      PROVE  Answers' /\ Unasked'
  <2>1. Sequence(responses') /\ Len(responses') = 0
    <3>1. <<>> \in Seq({}) /\ Len(<<>>) = 0
      OBVIOUS
    <3> QED
      BY <1>1, <3>1 DEF Sequence
  <2>2. (CaseCalls + Len(ControlCalls) \in Nat)'
    <3>1. (corpus \in Corpora => CaseCalls + Len(ControlCalls) \in Nat)'
      BY CallsCounted, PTL
    <3> QED
      BY <1>1, <3>1
  <2>3. Rows'
    BY <1>1 DEF Answers, Rows
  <2>4. Len(responses') <= (CaseCalls + Len(ControlCalls))'
    BY <2>1, <2>2
  <2>5. \A n \in 1..Len(responses') : FALSE
    BY ONLY <2>1
  <2> QED
    BY <1>1, <2>1, <2>3, <2>4, <2>5 DEF Answers, Unasked
<1>2. ASSUME UNCHANGED vars, at' \in {"idle", "over", "hash", "load"} =>
                                at \in {"idle", "over", "hash", "load"}
      PROVE  Answers' /\ Unasked'
  <2>1. Unasked'
    BY <1>2 DEF Unasked, vars
  <2>2. Answers'
    BY <1>2 DEF Answers, Rows, Answered, vars, Call, CaseCalls, CaseOf, ControlCalls,
       StickyCalls, BudgetCalls, RoleCalls, SliceCalls, Groupings, Slices, Ask, Plan
  <2> QED
    BY <2>1, <2>2
<1>3. CASE ReadCorpus \/ LoadPolicy
  <2>1. /\ responses' = <<>> /\ UNCHANGED privacy_spend
        /\ policy' \in {policy, worktree.policy} /\ corpus' \in {corpus, worktree.corpus}
    BY <1>3 DEF ReadCorpus, LoadPolicy, Goto, Unasked
  <2> QED
    BY <1>0, <1>1, <2>1 DEF Answers
<1>4. CASE RunQuery
  <2>1. at' = "queries" /\ Query
    BY <1>4 DEF RunQuery
  <2> QED
    BY <2>1, QueryAnswers DEF Unasked
<1>5. CASE CloseManifest \/ Crash
  <2>1. responses' = <<>> /\ privacy_spend' = {} /\ UNCHANGED <<policy, corpus>>
    BY <1>5 DEF CloseManifest, Crash, End
  <2> QED
    BY <1>1, <2>1 DEF Answers
<1>6. CASE HashInputs \/ ReadRevision \/ ReadStatus \/ HashSources \/ NextRun
  BY <1>2, <1>6 DEF HashInputs, ReadRevision, ReadStatus, HashSources, NextRun, Goto
<1>7. CASE OpenFile \/ CloseFile \/ OpenManifest
  BY <1>2, <1>7 DEF OpenFile, CloseFile, OpenManifest, Goto
<1>8. CASE Commit \/ Restore \/ \E p \in Parts : Edit(p)
  BY <1>2, <1>8 DEF Commit, Restore, Edit, Change
<1>9. CASE UNCHANGED evidenceVars
  BY <1>2, <1>9 DEF evidenceVars
<1> QED
  BY <1>3, <1>4, <1>5, <1>6, <1>7, <1>8, <1>9 DEF EvidenceNext, RunBenchmark

-----------------------------------------------------------------------------
(* The calls of the controls, one by one.                                  *)

(* Who asks what in the controls.                                          *)
LEMMA ControlCall ==
  /\ \A j \in 1..2 :
       ControlCalls[j] = Ask(Control("sticky"), "analyst", Plan("department", "avg", "all"), 0)
  /\ \A j \in 1..6 :
       ControlCalls[2 + j] = Ask(Control("budget"), "analyst", Plan(Groupings[j], "count", "all"), 4)
  /\ \A j \in 1..2 :
       /\ ControlCalls[8 + j].subject \in {Control("auditor"), Control("privacy_officer")}
       /\ ControlCalls[8 + j].role # "analyst"
  /\ \A j \in 1..5 :
       ControlCalls[10 + j]
         = Ask(Control("slicing"), "analyst", Plan("department", "avg", Slices[j]), 0)
<1>1. \A j \in 1..2 :
       /\ RoleCalls[j].subject \in {Control("auditor"), Control("privacy_officer")}
       /\ RoleCalls[j].role # "analyst"
  <2>1. /\ RoleCalls[1] = Ask(Control("auditor"), "auditor", Plan("none", "count", "all"), 0)
        /\ RoleCalls[2] = Ask(Control("privacy_officer"), "privacy_officer",
                              Plan("none", "count", "all"), 0)
    BY DEF RoleCalls
  <2>2. \A j \in 1..2 : j = 1 \/ j = 2
    OBVIOUS
  <2> QED
    BY <2>1, <2>2 DEF Ask
<1>2. /\ \A j \in 1..2 :
           StickyCalls[j] = Ask(Control("sticky"), "analyst", Plan("department", "avg", "all"), 0)
      /\ \A j \in 1..6 :
           BudgetCalls[j] = Ask(Control("budget"), "analyst", Plan(Groupings[j], "count", "all"), 4)
      /\ \A j \in 1..5 :
           SliceCalls[j] = Ask(Control("slicing"), "analyst", Plan("department", "avg", Slices[j]), 0)
  BY DEF StickyCalls, BudgetCalls, SliceCalls
<1> QED
  BY <1>1, <1>2, ControlItems

(* Their statements are accepted and of different shapes, or slices of one. *)
LEMMA ControlPlans ==
  /\ \A k \in 1..15 : ControlCalls[k].plan \in Plans /\ ControlCalls[k].plan # Rejected
  /\ \A i, j \in 1..6 :
       i # j => Shape[ControlCalls[2 + i].plan] # Shape[ControlCalls[2 + j].plan]
  /\ \A i, j \in 1..5 :
       /\ Shape[ControlCalls[10 + i].plan] = Shape[ControlCalls[10 + j].plan]
       /\ i # j => ControlCalls[10 + i].plan # ControlCalls[10 + j].plan
<1>1. DOMAIN ControlCalls = 1..15
  BY ControlItems, Appended
<1>2. \A k \in 1..15 : ControlCalls[k].plan \in Plans /\ ControlCalls[k].plan # Rejected
  BY <1>1, ControlsAreAccepted DEF Plans
<1>3. ASSUME NEW k \in 1..15
      PROVE  Shape[ControlCalls[k].plan]
               = [ControlCalls[k].plan EXCEPT !.slice = ControlCalls[k].plan.slice = "all"]
  BY <1>2 DEF Shape
<1>4. \A i \in 1..6 : ControlCalls[2 + i].plan = Plan(Groupings[i], "count", "all")
  BY ControlCall DEF Ask
<1>5. \A i \in 1..6 : Shape[ControlCalls[2 + i].plan].dimension = Groupings[i]
  <2> TAKE i \in 1..6
  <2>1. 2 + i \in 1..15
    OBVIOUS
  <2> QED
    BY <1>3, <1>4, <2>1 DEF Plan
<1>6. \A i, j \in 1..6 : i # j => Groupings[i] # Groupings[j]
  BY DEF Groupings
<1>7. \A i \in 1..5 : ControlCalls[10 + i].plan = Plan("department", "avg", Slices[i])
  BY ControlCall DEF Ask
<1>8. \A i, j \in 1..5 : i # j => Slices[i] # Slices[j]
  BY DEF Slices
<1>9. \A i \in 1..5 : Slices[i] # "all"
  BY DEF Slices
<1>10. \A i \in 1..5 : Shape[ControlCalls[10 + i].plan]
                         = [dimension |-> "department", metric |-> "avg", slice |-> FALSE]
  <2> TAKE i \in 1..5
  <2>1. 10 + i \in 1..15
    OBVIOUS
  <2>2. Plan("department", "avg", Slices[i]).slice = Slices[i]
    BY DEF Plan
  <2>3. Shape[ControlCalls[10 + i].plan]
          = [Plan("department", "avg", Slices[i]) EXCEPT !.slice = FALSE]
    BY <1>3, <1>7, <1>9, <2>1, <2>2
  <2> QED
    BY <2>3 DEF Plan
<1>11. \A i, j \in 1..5 : i # j => ControlCalls[10 + i].plan # ControlCalls[10 + j].plan
  BY <1>7, <1>8 DEF Plan
<1> QED
  BY <1>2, <1>5, <1>6, <1>10, <1>11

-----------------------------------------------------------------------------
(* What a set of releases costs.                                           *)

Cost(releases) == Cardinality(Quarters(releases))

LEMMA NoCost == IsFiniteSet(Quarters({})) /\ Cost({}) = 0
<1>1. Quarters({}) = {}
  BY DEF Quarters
<1> QED
  BY <1>1, FS_EmptySet DEF Cost

LEMMA OneMoreCost ==
  ASSUME NEW releases, IsFiniteSet(Quarters(releases)),
         NEW plan, NEW e \in Nat, <<plan, e>> \notin releases
  PROVE  /\ IsFiniteSet(Quarters(releases \cup {<<plan, e>>}))
         /\ Cost(releases \cup {<<plan, e>>}) = Cost(releases) + e
         /\ Cost(releases) \in Nat
<1> DEFINE r == <<plan, e>>
           more == {r} \X (1..e)
<1>1. r[2] = e
  OBVIOUS
<1> HIDE DEF r
<1>2. Quarters(releases \cup {r}) = Quarters(releases) \cup more
  BY <1>1 DEF Quarters
<1>3. IsFiniteSet(more) /\ Cardinality(more) = e
  <2>1. IsFiniteSet({r}) /\ Cardinality({r}) = 1
    BY FS_Singleton
  <2>2. IsFiniteSet(1..e) /\ Cardinality(1..e) = e
    BY FS_Interval
  <2>3. /\ IsFiniteSet({r} \X (1..e))
        /\ Cardinality({r} \X (1..e)) = Cardinality({r}) * Cardinality(1..e)
    BY <2>1, <2>2, FS_Product, Zenon
  <2>4. \A c : c = 1 * e => c = e
    OBVIOUS
  <2> HIDE DEF r
  <2>5. IsFiniteSet(more) /\ Cardinality(more) = 1 * e
    BY <2>1, <2>2, <2>3
  <2> HIDE DEF more
  <2> QED
    BY <2>4, <2>5
<1>4. Quarters(releases) \cap more = {}
  <2> SUFFICES ASSUME NEW q \in Quarters(releases), q \in more PROVE FALSE
    OBVIOUS
  <2>1. PICK other \in releases : q \in {other} \X (1..other[2])
    BY DEF Quarters
  <2> QED
    BY <2>1 DEF r
<1> HIDE DEF more
<1>5. /\ IsFiniteSet(Quarters(releases) \cup more)
      /\ Cardinality(Quarters(releases) \cup more) = Cardinality(Quarters(releases)) + e
      /\ Cardinality(Quarters(releases)) \in Nat
  <2> DEFINE Q == Quarters(releases)
  <2> HIDE DEF Q
  <2>1. IsFiniteSet(Q)
    BY DEF Q
  <2>2. /\ IsFiniteSet(Q \cup more)
        /\ Cardinality(Q \cup more) = Cardinality(Q) + Cardinality(more) - Cardinality(Q \cap more)
    BY <1>3, <2>1, FS_Union, Zenon
  <2>3. Cardinality(Q \cap more) = 0
    BY <1>4, FS_EmptySet DEF Q
  <2>4. Cardinality(Q) \in Nat
    BY <2>1, FS_CardinalityType
  <2> QED
    BY <1>3, <2>2, <2>3, <2>4 DEF Q
<1> QED
  BY <1>2, <1>5 DEF r, Cost

-----------------------------------------------------------------------------
(* What one query does to what is known of its principal.                  *)

\* The variants that were observed for a principal.
Seen(p) == {h.variant : h \in {h \in query_history : h.principal = p}}

HistoryRows ==
  \A h \in query_history :
    h = [principal |-> h.principal, variant |-> h.variant, observed_at |-> 0]

Says(answer) == responses' = Append(responses, answer)

Denial(reason) == [decision |-> "DENY", reason |-> reason]

Allowance(reason, release, spent) ==
  [decision |-> "ALLOW", reason |-> reason, values |-> release, spent |-> spent]

Refused(call, p) ==
  /\ Refusal(call) # "none" /\ Says(Denial(Refusal(call)))
  /\ Seen(p)' = Seen(p) /\ Charged(p)' = Charged(p)

Differs(call, p) ==
  /\ Refusal(call) = "none" /\ call.plan \notin Seen(p) /\ Count(call) >= 4
  /\ Says(Denial("DIFFERENCING_RISK"))
  /\ Seen(p)' = Seen(p) /\ Charged(p)' = Charged(p)

Observes(call, p) ==
  /\ Refusal(call) = "none" /\ (call.plan \in Seen(p) \/ ~(Count(call) >= 4))
  /\ Seen(p)' = Seen(p) \cup {call.plan}

Exhausts(call, p) ==
  /\ Observes(call, p)
  /\ <<call.plan, Epsilon(call)>> \notin Charged(p)
  /\ Cost(Charged(p)) + Epsilon(call) > policy.budget
  /\ Says(Denial("PRIVACY_BUDGET_EXHAUSTED")) /\ Charged(p)' = Charged(p)

Reuses(call, p) ==
  /\ Observes(call, p)
  /\ <<call.plan, Epsilon(call)>> \in Charged(p)
  /\ Says(Allowance("STICKY_RELEASE_REUSED", <<call.plan, Epsilon(call)>>, Cost(Charged(p)) + 0))
  /\ Charged(p)' = Charged(p)

Charges(call, p) ==
  /\ Observes(call, p)
  /\ <<call.plan, Epsilon(call)>> \notin Charged(p)
  /\ ~(Cost(Charged(p)) + Epsilon(call) > policy.budget)
  /\ Says(Allowance("none", <<call.plan, Epsilon(call)>>, Cost(Charged(p)) + Epsilon(call)))
  /\ Charged(p)' = Charged(p) \cup {<<call.plan, Epsilon(call)>>}

Outcome(call, p) ==
  \/ Refused(call, p) \/ Differs(call, p)
  \/ Exhausts(call, p) \/ Reuses(call, p) \/ Charges(call, p)

LEMMA Outcomes ==
  ASSUME Rows, HistoryRows, NEW call, NEW p, p = call.subject,
         Refuse(call) \/ RefuseVariant(call) \/ Release(call)
  PROVE  /\ UNCHANGED <<policy, corpus>> /\ HistoryRows'
         /\ \A q : q # p => Seen(q)' = Seen(q) /\ Charged(q)' = Charged(q)
         /\ Outcome(call, p)
<1>1. Known(call) <=> call.plan \in Seen(p)
  BY DEF Known, Guard!Observed, Seen
<1>2. ASSUME UNCHANGED query_history
      PROVE  HistoryRows' /\ \A q : Seen(q)' = Seen(q)
  BY <1>2 DEF HistoryRows, Seen
<1>3. ASSUME UNCHANGED privacy_spend
      PROVE  \A q : Charged(q)' = Charged(q)
  BY <1>3 DEF Charged
<1>4. CASE Refuse(call)
  BY <1>2, <1>3, <1>4 DEF Refuse, Outcome, Refused, Deny, Says, Denial
<1>5. CASE RefuseVariant(call)
  BY <1>1, <1>2, <1>3, <1>5
     DEF RefuseVariant, Guard!TooMany, Outcome, Differs, Deny, Says, Denial
<1>6. CASE Release(call)
  <2> DEFINE r == <<call.plan, Epsilon(call)>>
             row == [principal |-> p, release |-> r]
             h == [principal |-> p, variant |-> call.plan, observed_at |-> 0]
  <2>1. query_history' = IF call.plan \in Seen(p) THEN query_history ELSE query_history \cup {h}
    BY <1>1, <1>6 DEF Release, Known, Guard!Observe
  <2>2. h = [principal |-> h.principal, variant |-> h.variant, observed_at |-> 0]
        /\ h.principal = p /\ h.variant = call.plan
    OBVIOUS
  <2> HIDE DEF h
  <2>3. HistoryRows' /\ Seen(p)' = Seen(p) \cup {call.plan}
        /\ \A q : q # p => Seen(q)' = Seen(q)
    <3>1. CASE call.plan \in Seen(p)
      BY <1>2, <2>1, <3>1
    <3>2. CASE call.plan \notin Seen(p)
      BY <2>1, <2>2, <3>2 DEF HistoryRows, Seen
    <3> QED
      BY <3>1, <3>2
  <2>4. Observes(call, p)
    BY <1>1, <1>6, <2>3 DEF Release, Guard!TooMany, Observes
  <2>5. row.principal = p /\ row.release = r
    OBVIOUS
  <2>6. ASSUME privacy_spend' = privacy_spend \cup {row}
        PROVE  Charged(p)' = Charged(p) \cup {r} /\ \A q : q # p => Charged(q)' = Charged(q)
    <3> HIDE DEF row, r
    <3> QED
      BY <2>5, <2>6 DEF Charged
  <2>7. Spent(p) = Cost(Charged(p))
    BY DEF Spent, Cost
  <2>8. UNCHANGED <<policy, corpus>>
    BY <1>6 DEF Release
  <2>9. CASE /\ r \notin Charged(p) /\ Spent(p) + Epsilon(call) > policy.budget
             /\ Deny("PRIVACY_BUDGET_EXHAUSTED") /\ UNCHANGED privacy_spend
    BY <1>3, <2>3, <2>4, <2>7, <2>8, <2>9 DEF Outcome, Exhausts, Deny, Says, Denial
  <2>10. CASE /\ r \in Charged(p) /\ UNCHANGED privacy_spend
              /\ responses' = Append(responses, Allowance("STICKY_RELEASE_REUSED", r, Spent(p) + 0))
    BY <1>3, <2>3, <2>4, <2>7, <2>8, <2>10 DEF Outcome, Reuses, Says
  <2>11. CASE /\ r \notin Charged(p) /\ ~(Spent(p) + Epsilon(call) > policy.budget)
              /\ privacy_spend' = privacy_spend \cup {row}
              /\ responses' = Append(responses, Allowance("none", r, Spent(p) + Epsilon(call)))
    BY <2>3, <2>4, <2>6, <2>7, <2>8, <2>11 DEF Outcome, Charges, Says
  <2>12. CASE r \in Charged(p)
    <3>1. /\ UNCHANGED privacy_spend
          /\ responses' = Append(responses, Allowance("STICKY_RELEASE_REUSED", r, Spent(p) + 0))
      BY <1>6, <2>12 DEF Release, Allowance
    <3> QED
      BY <2>10, <2>12, <3>1
  <2>13. CASE r \notin Charged(p)
    <3>1. \/ /\ Spent(p) + Epsilon(call) > policy.budget
             /\ Deny("PRIVACY_BUDGET_EXHAUSTED") /\ UNCHANGED privacy_spend
          \/ /\ ~(Spent(p) + Epsilon(call) > policy.budget)
             /\ privacy_spend' = privacy_spend \cup {row}
             /\ responses' = Append(responses, Allowance("none", r, Spent(p) + Epsilon(call)))
      BY <1>6, <2>13 DEF Release, Allowance
    <3> QED
      BY <2>9, <2>11, <2>13, <3>1
  <2> QED
    BY <2>12, <2>13
<1> QED
  BY <1>4, <1>5, <1>6

(* No variant of the same shape was observed.                              *)
LEMMA Unalike ==
  ASSUME NEW call, \A w \in Seen(call.subject) : Shape[w] # Shape[call.plan]
  PROVE  Count(call) = 0
<1>1. Guard!SameShape(query_history, call.subject, call.plan) = {}
  BY DEF Guard!SameShape, Seen
<1> QED
  BY <1>1, FS_EmptySet DEF Count, Guard!CountVariants, Guard!Cardinality

LEMMA EpsilonType ==
  ASSUME Answers
  PROVE  /\ policy.default \in Nat \ {0} /\ policy.maximum \in Nat \ {0}
         /\ policy.budget \in Nat \ {0}
         /\ \A i \in DOMAIN corpus : Epsilon(corpus[i]) \in Nat
<1>1. policy \in [{"default", "maximum", "budget"} -> Nat \ {0}] /\ corpus \in Corpora
  BY BenchmarkAssumption DEF Answers
<1>2. \A i \in DOMAIN corpus : corpus[i].epsilon \in Nat
  BY <1>1, BenchmarkAssumption
<1> QED
  BY <1>1, <1>2 DEF Epsilon

-----------------------------------------------------------------------------
(* The cases.                                                              *)

CaseKept(i, seen, charged, given) ==
  LET release == <<corpus[i].plan, Epsilon(corpus[i])>> IN
  /\ seen \subseteq {corpus[i].plan}
  /\ charged \subseteq {release}
  /\ release \in charged => Admissible(corpus[i])
  /\ \A m \in 1..Len(given) :
       m <= CaseCalls /\ CaseOf(m) = i =>
         (given[m].decision = "ALLOW" <=> Admissible(corpus[i]))

\* One call of case i.
LEMMA CaseAsked ==
  ASSUME Answers, HistoryRows, NEW i \in DOMAIN corpus, NEW call, NEW p, p = call.subject,
         call = Ask(p, "analyst", corpus[i].plan, corpus[i].epsilon),
         CaseKept(i, Seen(p), Charged(p), responses), Outcome(call, p)
  PROVE  CaseKept(i, Seen(p)', Charged(p)', responses')
<1> DEFINE c == corpus[i]
           r == <<c.plan, Epsilon(c)>>
           n == Len(responses)
<1>1. call.plan = c.plan /\ Epsilon(call) = Epsilon(c) /\ call.role = "analyst"
  BY DEF Ask, Epsilon
<1>2. /\ Epsilon(c) \in Nat /\ policy.budget \in Nat /\ policy.maximum \in Nat
  BY EpsilonType
<1>3. Refusal(call) = "none" <=> c.plan # Rejected /\ ~(Epsilon(c) > policy.maximum)
  BY <1>1 DEF Refusal
<1>4. /\ Seen(p) \subseteq {c.plan} /\ Charged(p) \subseteq {r}
      /\ r \in Charged(p) => Admissible(c)
      /\ \A m \in 1..n : m <= CaseCalls /\ CaseOf(m) = i =>
           (responses[m].decision = "ALLOW" <=> Admissible(c))
  BY DEF CaseKept
<1>5. ASSUME NEW e, Says(e), e.decision = "ALLOW" <=> Admissible(c),
             Seen(p)' \subseteq {c.plan}, Charged(p)' \subseteq {r},
             r \in Charged(p)' => Admissible(c)
      PROVE  CaseKept(i, Seen(p)', Charged(p)', responses')
  <2>1. /\ n \in Nat /\ Len(responses') = n + 1
        /\ \A m \in 1..n : responses'[m] = responses[m]
        /\ responses'[n + 1] = e
    BY <1>5, Appended DEF Answers, Says
  <2>2. ASSUME NEW m \in 1..(n + 1), m <= CaseCalls, CaseOf(m) = i
        PROVE  responses'[m].decision = "ALLOW" <=> Admissible(c)
    <3>1. CASE m = n + 1
      BY <1>5, <2>1, <3>1
    <3>2. CASE m # n + 1
      <4>1. m \in 1..n
        BY <2>1, <3>2
      <4> QED
        BY <1>4, <2>1, <2>2, <4>1
    <3> QED
      BY <3>1, <3>2
  <2> QED
    BY <1>5, <2>1, <2>2 DEF CaseKept
<1> HIDE DEF c
<1>6. CASE Refused(call, p)
  <2>1. ~Admissible(c)
    BY <1>2, <1>3, <1>6 DEF Refused, Admissible
  <2>2. Denial(Refusal(call)).decision = "DENY"
    BY DEF Denial
  <2> QED
    BY <1>4, <1>5, <1>6, <2>1, <2>2 DEF Refused
<1>7. CASE Differs(call, p)
  <2>1. Seen(p) = {}
    BY <1>1, <1>4, <1>7 DEF Differs
  <2>2. Count(call) = 0
    BY <2>1, Unalike
  <2> QED
    BY <1>7, <2>2 DEF Differs
<1>8. Observes(call, p) => Seen(p)' \subseteq {c.plan}
  BY <1>1, <1>4 DEF Observes
<1>9. ASSUME r \notin Charged(p) PROVE Cost(Charged(p)) = 0 /\ Charged(p) = {}
  <2>1. Charged(p) = {}
    BY <1>4, <1>9
  <2> QED
    BY <2>1, NoCost
<1>10. CASE Exhausts(call, p)
  <2>1. Epsilon(c) > policy.budget
    BY <1>1, <1>2, <1>9, <1>10 DEF Exhausts
  <2>2. ~Admissible(c)
    BY <1>2, <2>1 DEF Admissible
  <2>3. Denial("PRIVACY_BUDGET_EXHAUSTED").decision = "DENY"
    BY DEF Denial
  <2> QED
    BY <1>4, <1>5, <1>8, <1>10, <2>2, <2>3 DEF Exhausts
<1>11. CASE Reuses(call, p)
  <2> DEFINE e == Allowance("STICKY_RELEASE_REUSED", r, Cost(Charged(p)) + 0)
  <2>1. e.decision = "ALLOW"
    BY DEF Allowance
  <2>2. Says(e) /\ Admissible(c)
    BY <1>1, <1>4, <1>11 DEF Reuses
  <2> HIDE DEF e
  <2> QED
    BY <1>4, <1>5, <1>8, <1>11, <2>1, <2>2 DEF Reuses
<1>12. CASE Charges(call, p)
  <2> DEFINE e == Allowance("none", r, Cost(Charged(p)) + Epsilon(c))
  <2>1. e.decision = "ALLOW"
    BY DEF Allowance
  <2>2. Says(e) /\ Charged(p)' = Charged(p) \cup {r}
    BY <1>1, <1>12 DEF Charges
  <2> HIDE DEF e
  <2>3. ~(Epsilon(c) > policy.budget)
    BY <1>1, <1>2, <1>9, <1>12 DEF Charges
  <2>4. Admissible(c)
    BY <1>2, <1>3, <1>12, <2>3 DEF Charges, Observes, Admissible
  <2> QED
    BY <1>4, <1>5, <1>8, <1>12, <2>1, <2>2, <2>4 DEF Charges
<1> QED
  BY <1>6, <1>7, <1>10, <1>11, <1>12 DEF Outcome

-----------------------------------------------------------------------------
(* The controls.                                                           *)

\* How many queries of the controls have been asked, and how many of the count
\* that follow the first ones.
Asked == Len(responses) - CaseCalls

Done(first, count, asked) ==
  IF asked <= first THEN 0 ELSE IF asked >= first + count THEN count ELSE asked - first

\* The j-th of several different releases that cost e each.
Rung(e, j, answer) ==
  IF e <= policy.maximum /\ e * j <= policy.budget
  THEN answer.decision = "ALLOW" /\ answer.reason = "none"
  ELSE /\ answer.decision = "DENY"
       /\ e <= policy.maximum => answer.reason = "PRIVACY_BUDGET_EXHAUSTED"

\* J of them were asked after the first calls of the controls: either all are
\* charged, or there is no room for one more.
Ladder(e, first, J, charged, given) ==
  /\ charged \subseteq {<<ControlCalls[first + j].plan, e>> : j \in 1..J}
  /\ IsFiniteSet(Quarters(charged))
  /\ Cost(charged) <= e * J
  /\ e <= policy.maximum => Cost(charged) = e * J \/ Cost(charged) + e > policy.budget
  /\ \A j \in 1..J : Rung(e, j, given[CaseCalls + first + j])

LEMMA LadderStays ==
  ASSUME Answers, NEW e, NEW first \in Nat, NEW J \in Nat, NEW charged, NEW answer,
         Ladder(e, first, J, charged, responses), J = 0 \/ first + J <= Asked, Says(answer)
  PROVE  Ladder(e, first, J, charged, responses')
<1>1. /\ Len(responses) \in Nat /\ CaseCalls \in Nat
      /\ \A m \in 1..Len(responses) : responses'[m] = responses[m]
  BY Appended, CallsCounted DEF Answers, Says
<1>2. ASSUME NEW j \in 1..J PROVE Rung(e, j, responses'[CaseCalls + first + j])
  <2>1. CaseCalls + first + j \in 1..Len(responses)
    BY <1>1 DEF Asked
  <2> QED
    BY <1>1, <2>1 DEF Ladder
<1> QED
  BY <1>2 DEF Ladder

LEMMA LadderClimbs ==
  ASSUME Answers, NEW e \in Nat \ {0}, NEW first \in Nat, NEW J \in Nat,
         NEW call, NEW p, p = call.subject,
         call = ControlCalls[first + J + 1], Asked = first + J,
         call.role = "analyst", call.plan # Rejected, Epsilon(call) = e,
         \A j \in 1..J : ControlCalls[first + j].plan # call.plan,
         Ladder(e, first, J, Charged(p), responses),
         Outcome(call, p), ~Differs(call, p)
  PROVE  Ladder(e, first, J + 1, Charged(p)', responses')
<1> DEFINE r == <<call.plan, e>>
           charged == Charged(p)
           rungs(n) == {<<ControlCalls[first + j].plan, e>> : j \in 1..n}
<1>1. policy.maximum \in Nat /\ policy.budget \in Nat
  BY EpsilonType
<1>2. Refusal(call) = "none" <=> e <= policy.maximum
  BY <1>1 DEF Refusal
<1>3. /\ charged \subseteq rungs(J) /\ IsFiniteSet(Quarters(charged))
      /\ Cost(charged) <= e * J
      /\ e <= policy.maximum => Cost(charged) = e * J \/ Cost(charged) + e > policy.budget
      /\ \A j \in 1..J : Rung(e, j, responses[CaseCalls + first + j])
  BY DEF Ladder
<1>4. r \notin charged
  BY <1>3
<1>5. rungs(J) \subseteq rungs(J + 1) /\ r \in rungs(J + 1)
  <2>1. first + (J + 1) = first + J + 1 /\ J + 1 \in 1..(J + 1) /\ 1..J \subseteq 1..(J + 1)
    OBVIOUS
  <2> QED
    BY <2>1
<1>6. /\ IsFiniteSet(Quarters(charged \cup {r})) /\ Cost(charged \cup {r}) = Cost(charged) + e
      /\ Cost(charged) \in Nat
  BY <1>3, <1>4, OneMoreCost
<1>7. e * J \in Nat /\ e * (J + 1) = e * J + e /\ e * (J + 1) \in Nat
  OBVIOUS
<1>8. ASSUME NEW answer, Says(answer), Rung(e, J + 1, answer),
             NEW next, next \in {charged, charged \cup {r}},
             Cost(next) <= e * (J + 1),
             e <= policy.maximum =>
               Cost(next) = e * (J + 1) \/ Cost(next) + e > policy.budget
      PROVE  Ladder(e, first, J + 1, next, responses')
  <2>1. /\ Len(responses) \in Nat /\ CaseCalls \in Nat
        /\ \A m \in 1..Len(responses) : responses'[m] = responses[m]
        /\ responses'[Len(responses) + 1] = answer
    BY <1>8, Appended, CallsCounted DEF Answers, Says
  <2>2. Len(responses) = CaseCalls + first + J
    BY <2>1 DEF Asked
  <2>3. ASSUME NEW j \in 1..(J + 1)
        PROVE  Rung(e, j, responses'[CaseCalls + first + j])
    <3>1. CASE j = J + 1
      <4>1. CaseCalls + first + j = Len(responses) + 1
        BY <2>1, <2>2, <3>1
      <4> QED
        BY <1>8, <2>1, <3>1, <4>1
    <3>2. CASE j # J + 1
      <4>1. j \in 1..J /\ CaseCalls + first + j \in 1..Len(responses)
        BY <2>1, <2>2, <3>2
      <4> QED
        BY <1>3, <2>1, <4>1
    <3> QED
      BY <3>1, <3>2
  <2>4. next \subseteq rungs(J + 1) /\ IsFiniteSet(Quarters(next))
    BY <1>3, <1>5, <1>6, <1>8
  <2> QED
    BY <1>8, <2>3, <2>4 DEF Ladder
<1> HIDE DEF rungs
<1>9. CASE Refused(call, p)
  <2>1. ~(e <= policy.maximum) /\ Charged(p)' = charged /\ Says(Denial(Refusal(call)))
    BY <1>2, <1>9 DEF Refused
  <2>2. Rung(e, J + 1, Denial(Refusal(call)))
    BY <2>1 DEF Rung, Denial
  <2>3. Cost(charged) <= e * (J + 1)
    BY <1>3, <1>6, <1>7
  <2> HIDE DEF charged
  <2> QED
    BY <1>8, <2>1, <2>2, <2>3
<1>10. CASE Exhausts(call, p)
  <2>1. /\ e <= policy.maximum /\ Charged(p)' = charged
        /\ Says(Denial("PRIVACY_BUDGET_EXHAUSTED"))
        /\ Cost(charged) + e > policy.budget
    BY <1>2, <1>10 DEF Exhausts, Observes
  <2>2. e * (J + 1) > policy.budget
    BY <1>1, <1>3, <1>6, <1>7, <2>1
  <2>3. Rung(e, J + 1, Denial("PRIVACY_BUDGET_EXHAUSTED"))
    BY <1>1, <1>7, <2>2 DEF Rung, Denial
  <2>4. Cost(charged) <= e * (J + 1)
    BY <1>3, <1>6, <1>7
  <2> HIDE DEF charged
  <2> QED
    BY <1>8, <2>1, <2>3, <2>4
<1>11. CASE Reuses(call, p)
  BY <1>4, <1>11 DEF Reuses
<1>12. CASE Charges(call, p)
  <2> DEFINE answer == Allowance("none", r, Cost(charged) + e)
  <2>1. /\ e <= policy.maximum /\ Charged(p)' = charged \cup {r} /\ Says(answer)
        /\ ~(Cost(charged) + e > policy.budget)
    BY <1>2, <1>12 DEF Charges, Observes
  <2>2. answer.decision = "ALLOW" /\ answer.reason = "none"
    BY DEF Allowance
  <2> HIDE DEF answer
  <2>3. Cost(charged) = e * J
    BY <1>3, <2>1
  <2>4. Cost(charged \cup {r}) = e * (J + 1) /\ e * (J + 1) <= policy.budget
    BY <1>1, <1>6, <1>7, <2>1, <2>3
  <2>5. Rung(e, J + 1, answer)
    BY <2>1, <2>2, <2>4 DEF Rung
  <2>6. Cost(charged \cup {r}) <= e * (J + 1)
    BY <1>7, <2>4
  <2> HIDE DEF charged, r
  <2> QED
    BY <1>8, <2>1, <2>4, <2>5, <2>6
<1> QED
  BY <1>9, <1>10, <1>11, <1>12 DEF Outcome

-----------------------------------------------------------------------------
\* One statistic, asked twice.
StickyPlan == Plan("department", "avg", "all")

Fits == policy.default <= policy.maximum /\ policy.default <= policy.budget

Sticky(j, answer) ==
  IF Fits
  THEN /\ answer.decision = "ALLOW"
       /\ answer.values = <<StickyPlan, policy.default>>
       /\ answer.spent = policy.default
       /\ answer.reason = IF j = 1 THEN "none" ELSE "STICKY_RELEASE_REUSED"
  ELSE answer.decision = "DENY"

StickyKept(J, seen, charged, given) ==
  /\ seen \subseteq {StickyPlan}
  /\ charged = IF J > 0 /\ Fits THEN {<<StickyPlan, policy.default>>} ELSE {}
  /\ \A j \in 1..J : Sticky(j, given[CaseCalls + j])

LEMMA StickyStays ==
  ASSUME Answers, NEW J \in Nat, NEW seen, NEW charged, NEW answer,
         StickyKept(J, seen, charged, responses), J = 0 \/ J <= Asked, Says(answer)
  PROVE  StickyKept(J, seen, charged, responses')
<1>1. /\ Len(responses) \in Nat /\ CaseCalls \in Nat
      /\ \A m \in 1..Len(responses) : responses'[m] = responses[m]
  BY Appended, CallsCounted DEF Answers, Says
<1>2. ASSUME NEW j \in 1..J PROVE Sticky(j, responses'[CaseCalls + j])
  <2>1. CaseCalls + j \in 1..Len(responses)
    BY <1>1 DEF Asked
  <2> QED
    BY <1>1, <2>1 DEF StickyKept
<1> QED
  BY <1>2 DEF StickyKept

LEMMA StickyAsked ==
  ASSUME Answers, NEW J \in {0, 1}, NEW call, NEW p, p = call.subject,
         call = Ask(p, "analyst", StickyPlan, 0), StickyPlan # Rejected, Asked = J,
         StickyKept(J, Seen(p), Charged(p), responses), Outcome(call, p)
  PROVE  StickyKept(J + 1, Seen(p)', Charged(p)', responses')
<1> DEFINE d == policy.default
           r == <<StickyPlan, d>>
<1>1. d \in Nat \ {0} /\ policy.maximum \in Nat /\ policy.budget \in Nat
  BY EpsilonType
<1>2. call.plan = StickyPlan /\ Epsilon(call) = d /\ call.role = "analyst"
  BY DEF Ask, Epsilon
<1>3. Refusal(call) = "none" <=> d <= policy.maximum
  BY <1>1, <1>2 DEF Refusal
<1>4. /\ Seen(p) \subseteq {StickyPlan}
      /\ Charged(p) = IF J > 0 /\ Fits THEN {r} ELSE {}
      /\ \A j \in 1..J : Sticky(j, responses[CaseCalls + j])
  BY DEF StickyKept
<1>5. ASSUME NEW answer, Says(answer), Sticky(J + 1, answer), Seen(p)' \subseteq {StickyPlan},
             Charged(p)' = IF Fits THEN {r} ELSE {}
      PROVE  StickyKept(J + 1, Seen(p)', Charged(p)', responses')
  <2>1. /\ Len(responses) \in Nat /\ CaseCalls \in Nat
        /\ \A m \in 1..Len(responses) : responses'[m] = responses[m]
        /\ responses'[Len(responses) + 1] = answer
    BY <1>5, Appended, CallsCounted DEF Answers, Says
  <2>2. Len(responses) = CaseCalls + J
    BY <2>1 DEF Asked
  <2>3. ASSUME NEW j \in 1..(J + 1) PROVE Sticky(j, responses'[CaseCalls + j])
    <3>1. CASE j = J + 1
      <4>1. CaseCalls + j = Len(responses) + 1
        BY <2>1, <2>2, <3>1
      <4> QED
        BY <1>5, <2>1, <3>1, <4>1
    <3>2. CASE j # J + 1
      <4>1. j \in 1..J /\ CaseCalls + j \in 1..Len(responses)
        BY <2>1, <2>2, <3>2
      <4> QED
        BY <1>4, <2>1, <4>1
    <3> QED
      BY <3>1, <3>2
  <2>4. J + 1 > 0
    OBVIOUS
  <2> QED
    BY <1>5, <2>3, <2>4 DEF StickyKept
<1>6. Observes(call, p) => Seen(p)' \subseteq {StickyPlan}
  BY <1>2, <1>4 DEF Observes
<1>7. \A reason : Denial(reason).decision = "DENY"
  BY DEF Denial
<1>8. ASSUME ~Fits, NEW reason, Says(Denial(reason)), Seen(p)' \subseteq {StickyPlan},
             Charged(p)' = Charged(p)
      PROVE  StickyKept(J + 1, Seen(p)', Charged(p)', responses')
  <2>1. Sticky(J + 1, Denial(reason))
    BY <1>7, <1>8 DEF Sticky
  <2> QED
    BY <1>4, <1>5, <1>8, <2>1
<1>9. Cost({}) = 0 /\ Cost({r}) = d
  <2>1. IsFiniteSet(Quarters({})) /\ r \notin {} /\ {} \cup {r} = {r}
    BY NoCost
  <2>2. Cost({} \cup {r}) = Cost({}) + d
    BY <1>1, <2>1, OneMoreCost
  <2> QED
    BY <1>1, <2>1, <2>2, NoCost
<1>10. CASE Refused(call, p)
  <2>1. ~Fits
    BY <1>3, <1>10 DEF Refused, Fits
  <2> QED
    BY <1>4, <1>8, <1>10, <2>1 DEF Refused
<1>11. CASE Differs(call, p)
  <2>1. Seen(p) = {}
    BY <1>2, <1>4, <1>11 DEF Differs
  <2>2. Count(call) = 0
    BY <2>1, Unalike
  <2> QED
    BY <1>11, <2>2 DEF Differs
<1>12. CASE Exhausts(call, p)
  <2>1. /\ r \notin Charged(p) /\ Cost(Charged(p)) + d > policy.budget
        /\ Says(Denial("PRIVACY_BUDGET_EXHAUSTED")) /\ Charged(p)' = Charged(p)
        /\ Observes(call, p)
    BY <1>2, <1>12 DEF Exhausts
  <2>2. Cost(Charged(p)) = 0
    BY <1>4, <1>9, <2>1
  <2>3. ~Fits
    BY <1>1, <2>1, <2>2 DEF Fits
  <2> QED
    BY <1>6, <1>8, <2>1, <2>3
<1>13. CASE Reuses(call, p)
  <2>1. /\ r \in Charged(p) /\ Charged(p)' = Charged(p) /\ Observes(call, p)
        /\ Says(Allowance("STICKY_RELEASE_REUSED", r, Cost(Charged(p)) + 0))
    BY <1>2, <1>13 DEF Reuses
  <2>2. J = 1 /\ Fits /\ Charged(p) = {r}
    BY <1>4, <2>1
  <2>3. Cost(Charged(p)) + 0 = d
    BY <1>1, <1>9, <2>2
  <2>4. Says(Allowance("STICKY_RELEASE_REUSED", r, d))
    BY <2>1, <2>3
  <2>5. Sticky(J + 1, Allowance("STICKY_RELEASE_REUSED", r, d))
    BY <2>2 DEF Sticky, Allowance
  <2> QED
    BY <1>5, <1>6, <2>1, <2>2, <2>4, <2>5
<1>14. CASE Charges(call, p)
  <2>1. /\ r \notin Charged(p) /\ Charged(p)' = Charged(p) \cup {r} /\ Observes(call, p)
        /\ ~(Cost(Charged(p)) + d > policy.budget)
        /\ Says(Allowance("none", r, Cost(Charged(p)) + d))
    BY <1>2, <1>14 DEF Charges
  <2>2. Charged(p) = {}
    BY <1>4, <2>1
  <2>3. Cost(Charged(p)) + d = d
    <3>1. Cost(Charged(p)) = 0
      BY <1>9, <2>2
    <3> QED
      BY <1>1, <3>1
  <2>4. Fits
    BY <1>1, <1>3, <2>1, <2>3 DEF Fits, Observes
  <2>5. J = 0
    <3>1. ~(J > 0 /\ Fits)
      BY <1>4, <2>2
    <3> QED
      BY <2>4, <3>1
  <2>6. Says(Allowance("none", r, d))
    BY <2>1, <2>3
  <2>7. Sticky(J + 1, Allowance("none", r, d))
    BY <2>4, <2>5 DEF Sticky, Allowance
  <2>8. Charged(p)' = IF Fits THEN {r} ELSE {}
    BY <2>1, <2>2, <2>4
  <2>9. Seen(p)' \subseteq {StickyPlan}
    BY <1>6, <2>1
  <2> HIDE DEF r, d
  <2> QED
    BY <1>5, <2>6, <2>7, <2>8, <2>9
<1> QED
  BY <1>10, <1>11, <1>12, <1>13, <1>14 DEF Outcome

-----------------------------------------------------------------------------
\* Six releases of different shapes.
BudgetKept(J, seen, charged, given) ==
  /\ Ladder(4, 2, J, charged, given)
  /\ seen \subseteq {ControlCalls[2 + j].plan : j \in 1..J}

\* Four slices of one statistic, and the fifth.
SlicesKept(J, seen, charged, given) ==
  /\ Ladder(policy.default, 10, J, charged, given)
  /\ seen = IF policy.default <= policy.maximum
            THEN {ControlCalls[10 + j].plan : j \in 1..J} ELSE {}

Fifth(asked, given) ==
  asked >= 15 /\ policy.default <= policy.maximum =>
    given[CaseCalls + 15].reason = "DIFFERENCING_RISK"

RolesKept(asked, given) ==
  \A n \in 9..10 : n <= asked => given[CaseCalls + n].reason = "ROLE_CANNOT_QUERY_DATA"

CasesKept ==
  \A i \in DOMAIN corpus : CaseKept(i, Seen(Subject(i)), Charged(Subject(i)), responses)

ControlsKept ==
  /\ StickyKept(Done(0, 2, Asked), Seen(Control("sticky")), Charged(Control("sticky")), responses)
  /\ BudgetKept(Done(2, 6, Asked), Seen(Control("budget")), Charged(Control("budget")), responses)
  /\ SlicesKept(Done(10, 4, Asked), Seen(Control("slicing")), Charged(Control("slicing")),
                responses)
  /\ Fifth(Asked, responses)
  /\ RolesKept(Asked, responses)

\* Whose turn it is, and what comes of it.
Turn(call, p) ==
  /\ p = call.subject /\ Outcome(call, p)
  /\ \A q : q # p => Seen(q)' = Seen(q) /\ Charged(q)' = Charged(q)
  /\ IF Asked < 0
     THEN LET i == CaseOf(Len(responses) + 1) IN
          call = Ask(Subject(i), "analyst", corpus[i].plan, corpus[i].epsilon)
     ELSE Asked + 1 \in 1..15 /\ call = ControlCalls[Asked + 1]

LEMMA Turns ==
  ASSUME Answers, HistoryRows, Query
  PROVE  /\ UNCHANGED <<policy, corpus>> /\ HistoryRows'
         /\ \E call, p : Turn(call, p)
<1>1. PICK call : /\ call = Call(Len(responses) + 1)
                  /\ Len(responses) < CaseCalls + Len(ControlCalls)
                  /\ Refuse(call) \/ RefuseVariant(call) \/ Release(call)
  BY DEF Query
<1>2. PICK p : p = call.subject
  OBVIOUS
<1>3. /\ UNCHANGED <<policy, corpus>> /\ HistoryRows'
      /\ \A q : q # p => Seen(q)' = Seen(q) /\ Charged(q)' = Charged(q)
      /\ Outcome(call, p)
  BY <1>1, <1>2, Outcomes DEF Answers
<1>4. Len(responses) \in Nat /\ CaseCalls \in Nat /\ Len(ControlCalls) = 15
  BY Appended, CallsCounted, ControlItems DEF Answers
<1>5. CASE Asked < 0
  BY <1>1, <1>2, <1>3, <1>4, <1>5 DEF Turn, Asked, Call
<1>6. CASE ~(Asked < 0)
  <2>1. /\ ~(Len(responses) + 1 <= CaseCalls) /\ Asked + 1 \in 1..15
        /\ Len(responses) + 1 - CaseCalls = Asked + 1
    BY <1>1, <1>4, <1>6 DEF Asked
  <2>2. call = ControlCalls[Asked + 1]
    <3>1. call = ControlCalls[Len(responses) + 1 - CaseCalls]
      BY <1>1, <1>4, <2>1 DEF Call
    <3> QED
      BY <2>1, <3>1
  <2> QED
    BY <1>2, <1>3, <1>6, <2>1, <2>2 DEF Turn
<1> QED
  BY <1>3, <1>5, <1>6

(* Every outcome is an answer.                                             *)
LEMMA Spoken ==
  ASSUME NEW call, NEW p, Outcome(call, p)
  PROVE  /\ \E answer : Says(answer)
         /\ Seen(p)' \subseteq Seen(p) \cup {call.plan}
BY DEF Outcome, Refused, Differs, Exhausts, Reuses, Charges, Observes

(* The principals of the cases and of the controls are all different.      *)
LEMMA ControlSubject ==
  ASSUME NEW k \in 1..15
  PROVE  /\ k \in 1..2 <=> ControlCalls[k].subject = Control("sticky")
         /\ k \in 3..8 <=> ControlCalls[k].subject = Control("budget")
         /\ k \in 11..15 <=> ControlCalls[k].subject = Control("slicing")
         /\ \A i : ControlCalls[k].subject # Subject(i)
<1>1. CASE k \in 1..2
  BY <1>1, ControlCall DEF Ask, Control, Subject
<1>2. CASE k \in 3..8
  <2>1. k - 2 \in 1..6 /\ 2 + (k - 2) = k
    BY <1>2
  <2>2. ControlCalls[k].subject = Control("budget")
    BY <2>1, ControlCall DEF Ask
  <2> QED
    BY <1>2, <2>2 DEF Control, Subject
<1>3. CASE k \in 9..10
  <2>1. k - 8 \in 1..2 /\ 8 + (k - 8) = k
    BY <1>3
  <2>2. ControlCalls[k].subject \in {Control("auditor"), Control("privacy_officer")}
    BY <2>1, ControlCall
  <2> QED
    BY <1>3, <2>2 DEF Control, Subject
<1>4. CASE k \in 11..15
  <2>1. k - 10 \in 1..5 /\ 10 + (k - 10) = k
    BY <1>4
  <2>2. ControlCalls[k].subject = Control("slicing")
    BY <2>1, ControlCall DEF Ask
  <2> QED
    BY <1>4, <2>2 DEF Control, Subject
<1> QED
  BY <1>1, <1>2, <1>3, <1>4

LEMMA CasesStep ==
  ASSUME Answers, HistoryRows, CasesKept, NEW call, NEW p, Turn(call, p),
         NEW i \in DOMAIN corpus
  PROVE  CaseKept(i, Seen(Subject(i))', Charged(Subject(i))', responses')
<1>1. PICK s : s = Subject(i)
  OBVIOUS
<1>2. CaseKept(i, Seen(s), Charged(s), responses)
  BY <1>1 DEF CasesKept
<1>3. PICK answer : Says(answer)
  BY Spoken DEF Turn
<1>4. /\ Len(responses) \in Nat /\ CaseCalls \in Nat
      /\ Len(responses') = Len(responses) + 1
      /\ \A m \in 1..Len(responses) : responses'[m] = responses[m]
  BY <1>3, Appended, CallsCounted DEF Answers, Says
<1>5. CASE Asked < 0 /\ CaseOf(Len(responses) + 1) = i
  <2>1. call = Ask(s, "analyst", corpus[i].plan, corpus[i].epsilon) /\ p = s
    BY <1>1, <1>5 DEF Turn, Ask
  <2>2. CaseKept(i, Seen(s)', Charged(s)', responses')
    BY <1>2, <2>1, CaseAsked DEF Turn
  <2> QED
    BY <1>1, <2>2
<1>6. CASE ~(Asked < 0 /\ CaseOf(Len(responses) + 1) = i)
  <2>1. s # p
    <3>1. CASE Asked < 0
      BY <1>1, <1>6, <3>1 DEF Turn, Ask, Subject
    <3>2. CASE ~(Asked < 0)
      BY <1>1, <3>2, ControlSubject DEF Turn
    <3> QED
      BY <3>1, <3>2
  <2>2. Seen(s)' = Seen(s) /\ Charged(s)' = Charged(s)
    BY <2>1 DEF Turn
  <2>3. ASSUME NEW m \in 1..Len(responses'), m <= CaseCalls, CaseOf(m) = i
        PROVE  m \in 1..Len(responses)
    <3>1. m # Len(responses) + 1
      BY <1>4, <1>6, <2>3 DEF Asked
    <3> QED
      BY <1>4, <3>1
  <2>4. CaseKept(i, Seen(s), Charged(s), responses')
    BY <1>2, <1>4, <2>3 DEF CaseKept
  <2> QED
    BY <1>1, <2>2, <2>4
<1> QED
  BY <1>5, <1>6

LEMMA StickyStep ==
  ASSUME Answers, ControlsKept, NEW call, NEW p, Turn(call, p)
  PROVE  StickyKept(Done(0, 2, Asked + 1), Seen(Control("sticky"))', Charged(Control("sticky"))',
                    responses')
<1>1. PICK q : q = Control("sticky")
  OBVIOUS
<1> DEFINE J == Done(0, 2, Asked)
<1>2. StickyKept(J, Seen(q), Charged(q), responses)
  BY <1>1 DEF ControlsKept
<1>3. PICK answer : Says(answer)
  BY Spoken DEF Turn
<1>4. Asked \in Int
  BY Appended, CallsCounted DEF Answers, Asked
<1>5. CASE Asked \in {0, 1}
  <2>1. J = Asked /\ Done(0, 2, Asked + 1) = J + 1
    BY <1>5 DEF Done
  <2>2. call = Ask(q, "analyst", StickyPlan, 0) /\ p = q
    BY <1>1, <1>5, ControlCall DEF Turn, Ask, StickyPlan
  <2>3. StickyPlan # Rejected
    BY <1>5, <2>2, ControlPlans DEF Turn, Ask
  <2>4. StickyKept(J + 1, Seen(q)', Charged(q)', responses')
    BY <1>2, <1>5, <2>1, <2>2, <2>3, StickyAsked DEF Turn, Ask
  <2> QED
    BY <1>1, <2>1, <2>4
<1>6. CASE Asked \notin {0, 1}
  <2>1. Done(0, 2, Asked + 1) = J /\ J \in Nat /\ (J = 0 \/ J <= Asked)
    BY <1>4, <1>6 DEF Done
  <2>2. q # p
    <3>1. CASE Asked < 0
      BY <1>1, <3>1 DEF Turn, Ask, Subject, Control
    <3>2. CASE ~(Asked < 0)
      BY <1>1, <1>4, <1>6, <3>2, ControlSubject DEF Turn
    <3> QED
      BY <3>1, <3>2
  <2>3. Seen(q)' = Seen(q) /\ Charged(q)' = Charged(q)
    BY <2>2 DEF Turn
  <2> HIDE DEF J
  <2>4. StickyKept(J, Seen(q), Charged(q), responses')
    BY <1>2, <1>3, <2>1, StickyStays
  <2> QED
    BY <1>1, <2>1, <2>3, <2>4
<1> QED
  BY <1>5, <1>6

LEMMA BudgetStep ==
  ASSUME Answers, ControlsKept, NEW call, NEW p, Turn(call, p)
  PROVE  BudgetKept(Done(2, 6, Asked + 1), Seen(Control("budget"))', Charged(Control("budget"))',
                    responses')
<1>1. PICK q : q = Control("budget")
  OBVIOUS
<1> DEFINE J == Done(2, 6, Asked)
           plans(n) == {ControlCalls[2 + j].plan : j \in 1..n}
<1>2. Ladder(4, 2, J, Charged(q), responses) /\ Seen(q) \subseteq plans(J)
  BY <1>1 DEF ControlsKept, BudgetKept
<1>3. PICK answer : Says(answer)
  BY Spoken DEF Turn
<1>4. Asked \in Int
  BY Appended, CallsCounted DEF Answers, Asked
<1>5. CASE Asked \in 2..7
  <2>1. /\ J \in 0..5 /\ Asked = 2 + J /\ Done(2, 6, Asked + 1) = J + 1
        /\ J + 1 \in 1..6 /\ 2 + J + 1 \in 1..15
    BY <1>5 DEF Done
  <2> HIDE DEF J
  <2>2. call = ControlCalls[2 + J + 1]
    BY <2>1 DEF Turn
  <2>3. 2 + J + 1 = 2 + (J + 1)
    BY <2>1
  <2>4. call = Ask(q, "analyst", Plan(Groupings[J + 1], "count", "all"), 4)
    BY <1>1, <2>1, <2>2, <2>3, ControlCall
  <2>5. p = q /\ call.role = "analyst" /\ Epsilon(call) = 4
    BY <2>4 DEF Turn, Ask, Epsilon
  <2>6. call.plan # Rejected
    BY <2>1, <2>2, ControlPlans
  <2>7. \A j \in 1..J : /\ Shape[ControlCalls[2 + j].plan] # Shape[call.plan]
                        /\ ControlCalls[2 + j].plan # call.plan
    BY <2>1, <2>2, <2>3, ControlPlans
  <2>8. ~Differs(call, p)
    <3>1. \A w \in Seen(call.subject) : Shape[w] # Shape[call.plan]
      BY <1>2, <2>5, <2>7 DEF Turn
    <3>2. Count(call) = 0
      BY <3>1, Unalike
    <3> QED
      BY <3>2 DEF Differs
  <2>9. Ladder(4, 2, J + 1, Charged(p)', responses')
    <3>1. 4 \in Nat \ {0} /\ 2 \in Nat /\ J \in Nat
      BY <2>1
    <3>2. Ladder(4, 2, J, Charged(p), responses) /\ p = call.subject /\ Outcome(call, p)
      BY <1>2, <2>5 DEF Turn
    <3> QED
      BY <2>1, <2>2, <2>5, <2>6, <2>7, <2>8, <3>1, <3>2, LadderClimbs
  <2>10. Seen(q)' \subseteq plans(J + 1)
    <3>1. Seen(q)' \subseteq Seen(q) \cup {call.plan}
      BY <2>5, Spoken DEF Turn
    <3>2. plans(J) \subseteq plans(J + 1) /\ call.plan \in plans(J + 1)
      BY <2>1, <2>2, <2>3
    <3> QED
      BY <1>2, <3>1, <3>2
  <2> QED
    BY <1>1, <2>1, <2>5, <2>9, <2>10 DEF BudgetKept
<1>6. CASE Asked \notin 2..7
  <2>1. Done(2, 6, Asked + 1) = J /\ J \in Nat /\ (J = 0 \/ 2 + J <= Asked)
    BY <1>4, <1>6 DEF Done
  <2>2. q # p
    <3>1. CASE Asked < 0
      BY <1>1, <3>1 DEF Turn, Ask, Subject, Control
    <3>2. CASE ~(Asked < 0)
      BY <1>1, <1>4, <1>6, <3>2, ControlSubject DEF Turn
    <3> QED
      BY <3>1, <3>2
  <2>3. Seen(q)' = Seen(q) /\ Charged(q)' = Charged(q)
    BY <2>2 DEF Turn
  <2> HIDE DEF J
  <2>4. Ladder(4, 2, J, Charged(q), responses')
    BY <1>2, <1>3, <2>1, LadderStays
  <2> QED
    BY <1>1, <1>2, <2>1, <2>3, <2>4 DEF BudgetKept
<1> QED
  BY <1>5, <1>6

(* The guard counts the slices that were asked.                            *)
LEMMA SlicesCounted ==
  ASSUME HistoryRows, NEW J \in 0..4, NEW call, NEW p, p = call.subject,
         call.plan = ControlCalls[10 + (J + 1)].plan,
         Seen(p) = {ControlCalls[10 + j].plan : j \in 1..J}
  PROVE  Count(call) = J
<1> DEFINE S == Guard!SameShape(query_history, p, call.plan)
           row(v) == [principal |-> p, variant |-> v, observed_at |-> 0]
           f == [j \in 1..J |-> row(ControlCalls[10 + j].plan)]
<1>1. S = {h \in query_history : h.principal = p /\ Shape[h.variant] = Shape[call.plan]}
  BY DEF Guard!SameShape
<1>2. \A j \in 1..(J + 1) : j \in 1..5
  OBVIOUS
<1>3. \A i, j \in 1..(J + 1) :
        /\ Shape[ControlCalls[10 + i].plan] = Shape[ControlCalls[10 + j].plan]
        /\ i # j => ControlCalls[10 + i].plan # ControlCalls[10 + j].plan
  BY <1>2, ControlPlans
<1>4. \A v : row(v).principal = p /\ row(v).variant = v
  OBVIOUS
<1>5. \A h \in query_history : h.principal = p => h = row(h.variant)
  BY DEF HistoryRows
<1> HIDE DEF S, row
<1>6. \A j \in 1..J : f[j] \in S
  <2> SUFFICES ASSUME NEW j \in 1..J PROVE row(ControlCalls[10 + j].plan) \in S
    OBVIOUS
  <2>1. PICK h \in query_history : h.principal = p /\ h.variant = ControlCalls[10 + j].plan
    BY DEF Seen
  <2>2. h = row(ControlCalls[10 + j].plan)
    BY <1>5, <2>1
  <2>3. j \in 1..(J + 1) /\ J + 1 \in 1..(J + 1)
    OBVIOUS
  <2>4. Shape[ControlCalls[10 + j].plan] = Shape[call.plan]
    BY <1>3, <2>3
  <2> QED
    BY <1>1, <2>1, <2>2, <2>4
<1>7. \A i, j \in 1..J : f[i] = f[j] => i = j
  <2> SUFFICES ASSUME NEW i \in 1..J, NEW j \in 1..J,
                      row(ControlCalls[10 + i].plan) = row(ControlCalls[10 + j].plan)
               PROVE  i = j
    OBVIOUS
  <2>1. ControlCalls[10 + i].plan = ControlCalls[10 + j].plan
    BY <1>4
  <2>2. i \in 1..(J + 1) /\ j \in 1..(J + 1)
    OBVIOUS
  <2> QED
    BY <1>3, <2>1, <2>2
<1>8. \A h \in S : \E j \in 1..J : f[j] = h
  <2> SUFFICES ASSUME NEW h \in S PROVE \E j \in 1..J : row(ControlCalls[10 + j].plan) = h
    OBVIOUS
  <2>1. h \in query_history /\ h.principal = p
    BY <1>1
  <2>2. h.variant \in Seen(p)
    BY <2>1 DEF Seen
  <2>3. PICK j \in 1..J : h.variant = ControlCalls[10 + j].plan
    BY <2>2
  <2> QED
    BY <1>5, <2>1, <2>3
<1>9. ExistsBijection(1..J, S)
  <2> DEFINE T == 1..J
  <2> HIDE DEF T
  <2>1. f = [j \in T |-> row(ControlCalls[10 + j].plan)]
    BY DEF T
  <2> HIDE DEF f
  <2>2. f \in [T -> S] /\ (\A i, j \in T : f[i] = f[j] => i = j) /\ (\A h \in S : \E j \in T : f[j] = h)
    BY <1>6, <1>7, <1>8, <2>1 DEF T
  <2>3. f \in Bijection(T, S)
    BY <2>2 DEF Bijection, Injection, Surjection, IsInjective
  <2> QED
    BY <2>3 DEF ExistsBijection, T
<1>10. Cardinality(S) = J
  BY <1>9, FS_CountingElements
<1> QED
  BY <1>10 DEF S, Count, Guard!CountVariants, Guard!Cardinality, Cardinality

LEMMA SlicesStep ==
  ASSUME Answers, HistoryRows, ControlsKept, NEW call, NEW p, Turn(call, p)
  PROVE  /\ SlicesKept(Done(10, 4, Asked + 1), Seen(Control("slicing"))',
                       Charged(Control("slicing"))', responses')
         /\ Fifth(Asked + 1, responses')
<1>1. PICK q : q = Control("slicing")
  OBVIOUS
<1>2. PICK d : d = policy.default
  OBVIOUS
<1> DEFINE J == Done(10, 4, Asked)
           plans(n) == {ControlCalls[10 + j].plan : j \in 1..n}
           seen(n) == IF d <= policy.maximum THEN plans(n) ELSE {}
<1>3. /\ Ladder(d, 10, J, Charged(q), responses) /\ Seen(q) = seen(J)
      /\ Fifth(Asked, responses)
  BY <1>1, <1>2 DEF ControlsKept, SlicesKept
<1>4. PICK answer : Says(answer)
  BY Spoken DEF Turn
<1>5. Asked \in Int /\ d \in Nat \ {0} /\ policy.maximum \in Nat
  BY <1>2, EpsilonType, Appended, CallsCounted DEF Answers, Asked
<1>6. ASSUME Asked \in 10..14
      PROVE  /\ p = q /\ call.role = "analyst" /\ Epsilon(call) = d /\ call.plan # Rejected
             /\ call = ControlCalls[10 + (Asked - 10 + 1)]
             /\ Refusal(call) = "none" <=> d <= policy.maximum
  <2>1. Asked - 10 + 1 \in 1..5 /\ Asked + 1 = 10 + (Asked - 10 + 1) /\ Asked + 1 \in 1..15
    BY <1>6
  <2>2. call = ControlCalls[10 + (Asked - 10 + 1)]
    BY <1>6, <2>1 DEF Turn
  <2>3. call = Ask(q, "analyst", Plan("department", "avg", Slices[Asked - 10 + 1]), 0)
    BY <1>1, <2>1, <2>2, ControlCall
  <2>4. p = q /\ call.role = "analyst" /\ Epsilon(call) = d
    BY <1>2, <2>3 DEF Turn, Ask, Epsilon
  <2>5. call.plan # Rejected
    BY <2>1, <2>2, ControlPlans
  <2> QED
    BY <1>5, <2>2, <2>4, <2>5 DEF Refusal
<1>7. ASSUME Asked < 14 PROVE Fifth(Asked + 1, responses')
  BY <1>5, <1>7 DEF Fifth
<1>8. CASE Asked \in 10..13
  <2>1. /\ J \in 0..3 /\ Asked = 10 + J /\ Done(10, 4, Asked + 1) = J + 1 /\ Asked - 10 = J
        /\ 10 + J + 1 = 10 + (J + 1) /\ Asked \in 10..14
    BY <1>8 DEF Done
  <2> HIDE DEF J
  <2>2. /\ p = q /\ call.role = "analyst" /\ Epsilon(call) = d /\ call.plan # Rejected
        /\ call = ControlCalls[10 + (J + 1)]
        /\ Refusal(call) = "none" <=> d <= policy.maximum
    BY <1>6, <2>1
  <2>3. ~Differs(call, p)
    <3> SUFFICES ASSUME Differs(call, p) PROVE FALSE
      OBVIOUS
    <3>1. d <= policy.maximum
      BY <2>2 DEF Differs
    <3>2. Seen(p) = {ControlCalls[10 + j].plan : j \in 1..J}
      BY <1>3, <2>2, <3>1
    <3>3. J \in 0..4
      BY <2>1
    <3>4. Count(call) = J
      BY <2>2, <3>2, <3>3, SlicesCounted DEF Turn
    <3> QED
      BY <2>1, <3>4 DEF Differs
  <2>4. \A j \in 1..J : ControlCalls[10 + j].plan # call.plan
    <3> TAKE j \in 1..J
    <3>1. j \in 1..5 /\ J + 1 \in 1..5 /\ j # J + 1
      BY <2>1
    <3> QED
      BY <2>2, <3>1, ControlPlans
  <2>5. Ladder(d, 10, J + 1, Charged(p)', responses')
    <3>1. 10 \in Nat /\ J \in Nat /\ call = ControlCalls[10 + J + 1]
      BY <2>1, <2>2
    <3>2. Ladder(d, 10, J, Charged(p), responses) /\ p = call.subject /\ Outcome(call, p)
      BY <1>3, <2>2 DEF Turn
    <3> QED
      BY <1>5, <2>1, <2>2, <2>3, <2>4, <3>1, <3>2, LadderClimbs
  <2>6. Seen(q)' = seen(J + 1)
    <3>1. CASE d <= policy.maximum
      <4>1. Seen(q)' = Seen(q) \cup {call.plan}
        BY <2>2, <2>3, <3>1 DEF Turn, Outcome, Refused, Exhausts, Reuses, Charges, Observes
      <4>2. plans(J + 1) = plans(J) \cup {call.plan}
        <5>1. \A j : j \in 1..(J + 1) <=> j \in 1..J \/ j = J + 1
          BY <2>1
        <5> QED
          BY <2>2, <5>1
      <4> QED
        BY <1>3, <3>1, <4>1, <4>2
    <3>2. CASE ~(d <= policy.maximum)
      <4>1. Seen(q)' = Seen(q)
        BY <2>2, <2>3, <3>2 DEF Turn, Outcome, Refused, Exhausts, Reuses, Charges, Observes
      <4> QED
        BY <1>3, <3>2, <4>1
    <3> QED
      BY <3>1, <3>2
  <2>7. Fifth(Asked + 1, responses')
    BY <1>7, <1>8
  <2> QED
    BY <1>1, <1>2, <2>1, <2>2, <2>5, <2>6, <2>7 DEF SlicesKept
<1>9. CASE Asked = 14
  <2>1. /\ J = 4 /\ Done(10, 4, Asked + 1) = 4 /\ Asked - 10 = 4 /\ Asked \in 10..14
        /\ 10 + 4 <= Asked
    BY <1>9 DEF Done
  <2> HIDE DEF J
  <2>2. /\ p = q /\ call = ControlCalls[10 + (J + 1)]
        /\ Refusal(call) = "none" <=> d <= policy.maximum
    BY <1>6, <2>1
  <2>3. /\ d <= policy.maximum => Differs(call, p)
        /\ ~(d <= policy.maximum) => Refused(call, p)
    <3>1. CASE d <= policy.maximum
      <4>1. Seen(p) = {ControlCalls[10 + j].plan : j \in 1..J}
        BY <1>3, <2>2, <3>1
      <4>2. Count(call) = J
        <5>1. J \in 0..4
          BY <2>1
        <5> QED
          BY <2>2, <4>1, <5>1, SlicesCounted DEF Turn
      <4>3. call.plan \notin Seen(p)
        <5>1. \A j \in 1..J : ControlCalls[10 + j].plan # ControlCalls[10 + (J + 1)].plan
          <6> TAKE j \in 1..J
          <6>1. j \in 1..5 /\ J + 1 \in 1..5 /\ j # J + 1
            BY <2>1
          <6> QED
            BY <6>1, ControlPlans
        <5> QED
          BY <2>2, <4>1, <5>1
      <4>4. ~Observes(call, p)
        BY <2>1, <4>2, <4>3 DEF Observes
      <4> QED
        BY <2>2, <3>1, <4>4 DEF Turn, Outcome, Refused, Exhausts, Reuses, Charges
    <3>2. CASE ~(d <= policy.maximum)
      BY <2>2, <3>2 DEF Turn, Outcome, Differs, Exhausts, Reuses, Charges, Observes
    <3> QED
      BY <3>1, <3>2
  <2>4. Seen(q)' = Seen(q) /\ Charged(q)' = Charged(q)
    BY <2>2, <2>3 DEF Differs, Refused
  <2>5. Ladder(d, 10, 4, Charged(q), responses')
    BY <1>3, <1>4, <2>1, LadderStays
  <2>6. Fifth(Asked + 1, responses')
    <3> SUFFICES ASSUME d <= policy.maximum
                 PROVE  responses'[CaseCalls + 15].reason = "DIFFERENCING_RISK"
      BY <1>2 DEF Fifth
    <3>1. Says(Denial("DIFFERENCING_RISK"))
      BY <2>3 DEF Differs
    <3>2. responses'[Len(responses) + 1] = Denial("DIFFERENCING_RISK")
      BY <3>1, Appended DEF Answers, Says
    <3>3. CaseCalls + 15 = Len(responses) + 1
      BY <1>9, Appended, CallsCounted DEF Answers, Asked
    <3> QED
      BY <3>2, <3>3 DEF Denial
  <2> QED
    BY <1>1, <1>2, <1>3, <2>1, <2>4, <2>5, <2>6 DEF SlicesKept
<1>10. CASE Asked \notin 10..14
  <2>1. Done(10, 4, Asked + 1) = J /\ J \in Nat /\ (J = 0 \/ 10 + J <= Asked)
    BY <1>5, <1>10 DEF Done
  <2>2. q # p /\ Asked < 14
    <3>1. CASE Asked < 0
      BY <1>1, <1>5, <3>1 DEF Turn, Ask, Subject, Control
    <3>2. CASE ~(Asked < 0)
      <4>1. Asked + 1 \in 1..15 /\ Asked + 1 \notin 11..15
        BY <1>5, <1>10, <3>2 DEF Turn
      <4> QED
        BY <1>1, <1>5, <3>2, <4>1, ControlSubject DEF Turn
    <3> QED
      BY <3>1, <3>2
  <2>3. Seen(q)' = Seen(q) /\ Charged(q)' = Charged(q)
    BY <2>2 DEF Turn
  <2> HIDE DEF J
  <2>4. Ladder(d, 10, J, Charged(q), responses')
    BY <1>3, <1>4, <2>1, LadderStays
  <2> QED
    BY <1>1, <1>2, <1>3, <1>7, <2>1, <2>2, <2>3, <2>4 DEF SlicesKept
<1> QED
  BY <1>5, <1>8, <1>9, <1>10

LEMMA RolesStep ==
  ASSUME Answers, ControlsKept, NEW call, NEW p, Turn(call, p)
  PROVE  RolesKept(Asked + 1, responses')
<1>1. PICK answer : Says(answer)
  BY Spoken DEF Turn
<1>2. /\ Len(responses) \in Nat /\ CaseCalls \in Nat
      /\ \A m \in 1..Len(responses) : responses'[m] = responses[m]
      /\ responses'[Len(responses) + 1] = answer
  BY <1>1, Appended, CallsCounted DEF Answers, Says
<1> SUFFICES ASSUME NEW n \in 9..10, n <= Asked + 1
             PROVE  responses'[CaseCalls + n].reason = "ROLE_CANNOT_QUERY_DATA"
  BY DEF RolesKept
<1>3. CASE n <= Asked
  <2>1. CaseCalls + n \in 1..Len(responses)
    BY <1>2, <1>3 DEF Asked
  <2> QED
    BY <1>2, <1>3, <2>1 DEF ControlsKept, RolesKept
<1>4. CASE ~(n <= Asked)
  <2>1. n = Asked + 1 /\ CaseCalls + n = Len(responses) + 1 /\ ~(Asked < 0)
    BY <1>2, <1>4 DEF Asked
  <2>2. n - 8 \in 1..2 /\ 8 + (n - 8) = n
    OBVIOUS
  <2>3. call.role # "analyst"
    BY <2>1, <2>2, ControlCall DEF Turn
  <2>4. Refusal(call) = "ROLE_CANNOT_QUERY_DATA"
    BY <2>3 DEF Refusal
  <2>5. Says(Denial("ROLE_CANNOT_QUERY_DATA"))
    BY <2>4 DEF Turn, Outcome, Refused, Differs, Exhausts, Reuses, Charges, Observes
  <2>6. responses'[Len(responses) + 1] = Denial("ROLE_CANNOT_QUERY_DATA")
    BY <2>5, Appended DEF Answers, Says
  <2> QED
    BY <2>1, <2>6 DEF Denial
<1> QED
  BY <1>3, <1>4

Kept == HistoryRows /\ CasesKept /\ ControlsKept

\* Every run starts on empty databases.
Fresh ==
  at \in {"idle", "over", "hash", "load"} =>
    responses = <<>> /\ query_history = {} /\ privacy_spend = {}

LEMMA KeptOfNothing ==
  corpus \in Corpora /\ policy \in Policies /\ responses = <<>> /\ query_history = {}
    /\ privacy_spend = {} => Kept
<1> SUFFICES ASSUME corpus \in Corpora, policy \in Policies,
                    responses = <<>>, query_history = {}, privacy_spend = {}
             PROVE  Kept
  OBVIOUS
<1>1. \A p : Seen(p) = {} /\ Charged(p) = {}
  BY DEF Seen, Charged
<1>2. Len(responses) = 0 /\ CaseCalls \in Nat
  BY CallsCounted
<1>3. Asked \in Int /\ Asked <= 0
  BY <1>2 DEF Asked
<1>4. Done(0, 2, Asked) = 0 /\ Done(2, 6, Asked) = 0 /\ Done(10, 4, Asked) = 0
  BY <1>3 DEF Done
<1>5. \A j \in 1..0 : FALSE
  OBVIOUS
<1>6. policy.default \in Nat
  BY BenchmarkAssumption
<1>7. ASSUME NEW e \in Nat, NEW first PROVE Ladder(e, first, 0, {}, responses)
  <2>1. e * 0 = 0
    OBVIOUS
  <2> QED
    BY <1>5, <2>1, NoCost DEF Ladder
<1>8. CasesKept
  <2>1. \A m \in 1..Len(responses) : FALSE
    BY <1>2
  <2> QED
    BY <1>1, <2>1 DEF CasesKept, CaseKept
<1>9. StickyKept(0, {}, {}, responses)
  BY <1>5 DEF StickyKept
<1>10. BudgetKept(0, {}, {}, responses)
  BY <1>7 DEF BudgetKept
<1>11. SlicesKept(0, {}, {}, responses)
  <2>1. {ControlCalls[10 + j].plan : j \in 1..0} = {}
    BY <1>5
  <2> QED
    BY <1>6, <1>7, <2>1 DEF SlicesKept
<1>12. Fifth(Asked, responses) /\ RolesKept(Asked, responses)
  BY <1>3 DEF Fifth, RolesKept
<1>13. ControlsKept
  BY <1>1, <1>4, <1>9, <1>10, <1>11, <1>12 DEF ControlsKept
<1> QED
  BY <1>8, <1>13 DEF Kept, HistoryRows

(* What was read is still there when the definitions are primed.           *)
LEMMA CallsFixed ==
  ASSUME UNCHANGED <<policy, corpus>>
  PROVE  /\ CaseCalls' = CaseCalls /\ ControlCalls' = ControlCalls
         /\ \A i : CaseOf(i)' = CaseOf(i) /\ Subject(i)' = Subject(i)
         /\ \A i : Admissible(corpus[i])' <=> Admissible(corpus[i])
BY DEF CaseCalls, CaseOf, ControlCalls, StickyCalls, BudgetCalls, RoleCalls, SliceCalls,
   Groupings, Slices, Ask, Plan, Control, Subject, Admissible, Epsilon

LEMMA KeptStep == Answers /\ Kept /\ Query => Kept'
<1> SUFFICES ASSUME Answers, Kept, Query PROVE Kept'
  OBVIOUS
<1>1. UNCHANGED <<policy, corpus>> /\ HistoryRows'
  BY Turns DEF Kept
<1>2. PICK call, p : Turn(call, p)
  BY Turns DEF Kept
<1>3. PICK answer : Says(answer)
  BY <1>2, Spoken DEF Turn
<1>4. Asked' = Asked + 1
  <2>1. Len(responses) \in Nat /\ Len(responses') = Len(responses) + 1 /\ CaseCalls \in Nat
    BY <1>3, Appended, CallsCounted DEF Answers, Says
  <2>2. CaseCalls' = CaseCalls
    BY <1>1, CallsFixed
  <2> QED
    BY <2>1, <2>2 DEF Asked
<1>5. CasesKept'
  <2>1. \A i \in DOMAIN corpus :
          CaseKept(i, Seen(Subject(i))', Charged(Subject(i))', responses')
    BY <1>2, CasesStep DEF Kept
  <2> QED
    BY <1>1, <2>1, CallsFixed DEF CasesKept, CaseKept, Subject, Epsilon
<1>6. /\ StickyKept(Done(0, 2, Asked + 1), Seen(Control("sticky"))',
                    Charged(Control("sticky"))', responses')
      /\ BudgetKept(Done(2, 6, Asked + 1), Seen(Control("budget"))',
                    Charged(Control("budget"))', responses')
      /\ SlicesKept(Done(10, 4, Asked + 1), Seen(Control("slicing"))',
                    Charged(Control("slicing"))', responses')
      /\ Fifth(Asked + 1, responses') /\ RolesKept(Asked + 1, responses')
  BY <1>2, StickyStep, BudgetStep, SlicesStep, RolesStep DEF Kept
<1>7. ControlsKept'
  BY <1>1, <1>4, <1>6, CallsFixed
     DEF ControlsKept, StickyKept, BudgetKept, SlicesKept, Fifth, RolesKept, Ladder, Rung,
         Sticky, Fits, StickyPlan, Plan, Control, Done, Cost, Quarters
<1> QED
  BY <1>1, <1>5, <1>7 DEF Kept

LEMMA KeptEverywhere ==
  Worktrees /\ Answers /\ Fresh /\ Kept /\ [EvidenceNext]_evidenceVars => Kept' /\ Fresh'
<1> SUFFICES ASSUME Worktrees, Answers, Fresh, Kept, [EvidenceNext]_evidenceVars
             PROVE  Kept' /\ Fresh'
  OBVIOUS
<1>1. ASSUME responses' = <<>>, query_history' = {}, privacy_spend' = {},
             policy' \in Policies, corpus' \in Corpora
      PROVE  Kept' /\ Fresh'
  <2>1. Kept'
    <3>1. (corpus \in Corpora /\ policy \in Policies /\ responses = <<>> /\ query_history = {}
             /\ privacy_spend = {} => Kept)'
      BY KeptOfNothing, PTL
    <3> QED
      BY <1>1, <3>1
  <2> QED
    BY <1>1, <2>1 DEF Fresh
<1>2. ASSUME UNCHANGED vars, at' \in {"idle", "over", "hash", "load"} =>
                                at \in {"idle", "over", "hash", "load"}
      PROVE  Kept' /\ Fresh'
  <2>1. Fresh'
    BY <1>2 DEF Fresh, vars
  <2>2. /\ UNCHANGED <<policy, corpus, responses>>
        /\ \A p : Seen(p)' = Seen(p) /\ Charged(p)' = Charged(p)
    BY <1>2 DEF vars, Seen, Charged
  <2>3. HistoryRows'
    BY <1>2 DEF Kept, HistoryRows, vars
  <2>4. CaseCalls' = CaseCalls /\ ControlCalls' = ControlCalls
    BY <2>2, CallsFixed
  <2>5. Asked' = Asked
    BY <2>2, <2>4 DEF Asked
  <2>6. CasesKept'
    BY <2>2, CallsFixed DEF Kept, CasesKept, CaseKept, Subject, Epsilon
  <2>7. ControlsKept'
    <3>1. \A e, first, J, charged, given :
            Ladder(e, first, J, charged, given)' <=> Ladder(e, first, J, charged, given)
      BY <2>2, <2>4 DEF Ladder, Rung, Cost, Quarters
    <3>2. \A J, seen, charged, given :
            /\ StickyKept(J, seen, charged, given)' <=> StickyKept(J, seen, charged, given)
            /\ BudgetKept(J, seen, charged, given)' <=> BudgetKept(J, seen, charged, given)
            /\ SlicesKept(J, seen, charged, given)' <=> SlicesKept(J, seen, charged, given)
      <4>1. \A J, seen, charged, given :
              StickyKept(J, seen, charged, given)' <=> StickyKept(J, seen, charged, given)
        BY <2>2, <2>4 DEF StickyKept, Sticky, Fits, StickyPlan, Plan
      <4>2. \A J, seen, charged, given :
              BudgetKept(J, seen, charged, given)' <=> BudgetKept(J, seen, charged, given)
        BY <2>4, <3>1 DEF BudgetKept
      <4>3. \A J, seen, charged, given :
              SlicesKept(J, seen, charged, given)' <=> SlicesKept(J, seen, charged, given)
        BY <2>2, <2>4, <3>1 DEF SlicesKept
      <4> QED
        BY <4>1, <4>2, <4>3
    <3>3. Fifth(Asked, responses)' /\ RolesKept(Asked, responses)'
      BY <2>2, <2>4, <2>5 DEF Kept, ControlsKept, Fifth, RolesKept
    <3> QED
      BY <2>2, <2>5, <3>2, <3>3 DEF Kept, ControlsKept, Control, Done
  <2> QED
    BY <2>1, <2>3, <2>6, <2>7 DEF Kept
<1>3. CASE ReadCorpus \/ LoadPolicy
  <2>1. /\ responses' = <<>> /\ query_history' = {} /\ privacy_spend' = {}
        /\ policy' \in {policy, worktree.policy} /\ corpus' \in {corpus, worktree.corpus}
    BY <1>3 DEF ReadCorpus, LoadPolicy, Goto, Fresh, Records
  <2> QED
    BY <1>1, <2>1 DEF Answers, Worktrees, Tree
<1>4. CASE RunQuery
  BY <1>4, KeptStep DEF RunQuery, Fresh
<1>5. CASE CloseManifest \/ Crash
  <2>1. /\ responses' = <<>> /\ query_history' = {} /\ privacy_spend' = {}
        /\ UNCHANGED <<policy, corpus>>
    BY <1>5 DEF CloseManifest, Crash, End
  <2> QED
    BY <1>1, <2>1 DEF Answers
<1>6. CASE HashInputs \/ ReadRevision \/ ReadStatus \/ HashSources \/ NextRun
  BY <1>2, <1>6 DEF HashInputs, ReadRevision, ReadStatus, HashSources, NextRun, Goto
<1>7. CASE OpenFile \/ CloseFile \/ OpenManifest
  BY <1>2, <1>7 DEF OpenFile, CloseFile, OpenManifest, Goto
<1>8. CASE Commit \/ Restore \/ \E p \in Parts : Edit(p)
  BY <1>2, <1>8 DEF Commit, Restore, Edit, Change
<1>9. CASE UNCHANGED evidenceVars
  BY <1>2, <1>9 DEF evidenceVars
<1> QED
  BY <1>3, <1>4, <1>5, <1>6, <1>7, <1>8, <1>9 DEF EvidenceNext, RunBenchmark

\* What is known of the answers in every state.
AnswersInv == EvidenceInv /\ Answers /\ Unasked /\ Fresh /\ Kept

(* What each principal of a run has asked, been charged and been answered, *)
(* in every state.                                                         *)
THEOREM AnswersInvariant == EvidenceSpec => []AnswersInv
<1>1. EvidenceInit => AnswersInv
  <2> SUFFICES ASSUME EvidenceInit PROVE Answers /\ Unasked /\ Fresh /\ Kept
    BY InitEvidence DEF AnswersInv
  <2>1. /\ responses = <<>> /\ privacy_spend = {} /\ query_history = {}
        /\ policy \in Policies /\ corpus \in Corpora
    BY DEF EvidenceInit, Init
  <2>2. <<>> \in Seq({}) /\ Len(<<>>) = 0 /\ \A n \in 1..0 : FALSE
    OBVIOUS
  <2>3. CaseCalls + Len(ControlCalls) \in Nat
    BY <2>1, CallsCounted
  <2> QED
    BY <2>1, <2>2, <2>3, KeptOfNothing DEF Answers, Unasked, Sequence, Rows, Fresh
<1>2. AnswersInv /\ [EvidenceNext]_evidenceVars => AnswersInv'
  BY WorktreesStep, ProgressStep, FilesStep, ExactStep, AnswersStep, KeptEverywhere
     DEF EvidenceInv, AnswersInv
<1> QED
  BY <1>1, <1>2, PTL DEF EvidenceSpec

(* There is at most one answer per call, and whatever a benchmark query    *)
(* lets out has been charged to the principal that asked (service.query).  *)
THEOREM AnswersAreCharged == EvidenceSpec => []TypeOK
<1>1. AnswersInv => TypeOK
  <2> SUFFICES ASSUME Answers PROVE TypeOK
    BY DEF AnswersInv
  <2>1. DOMAIN responses = 1..Len(responses)
    BY Appended DEF Answers
  <2> QED
    BY <2>1 DEF Answers, Answered, TypeOK
<1> QED
  BY <1>1, AnswersInvariant, PTL

(* The verdict on a case is about that case (run_benchmark).               *)
THEOREM CasesAreIndependent == EvidenceSpec => []CasesIndependent
<1>1. AnswersInv => CasesIndependent
  <2> SUFFICES ASSUME AnswersInv, Over, NEW i \in DOMAIN corpus
               PROVE  IF Admissible(corpus[i]) THEN Allowed(i) ELSE Denied(i)
    BY DEF CasesIndependent
  <2>1. CaseCalls \in Nat /\ Len(responses) = CaseCalls + 15
    BY CallsCounted, ControlItems DEF AnswersInv, Answers, Over
  <2>2. ASSUME NEW n \in 1..CaseCalls, CaseOf(n) = i
        PROVE  responses[n].decision = IF Admissible(corpus[i]) THEN "ALLOW" ELSE "DENY"
    <3>1. n \in 1..Len(responses) /\ n <= CaseCalls
      BY <2>1
    <3>2. responses[n].decision = "ALLOW" <=> Admissible(corpus[i])
      BY <2>2, <3>1 DEF AnswersInv, Kept, CasesKept, CaseKept
    <3>3. responses[n].decision \in {"ALLOW", "DENY"}
      BY <3>1 DEF AnswersInv, Answers, Answered
    <3> QED
      BY <3>2, <3>3
  <2> QED
    BY <2>2 DEF Allowed, Denied
<1> QED
  BY <1>1, AnswersInvariant, PTL

(* What a benchmark with all controls passed says of its policy            *)
(* (_run_control_checks).                                                  *)
THEOREM ControlsTell == EvidenceSpec => []ControlsTellThePolicy
<1>1. AnswersInv => ControlsTellThePolicy
  <2> SUFFICES ASSUME AnswersInv, Over PROVE ControlsTellThePolicy
    BY DEF ControlsTellThePolicy
  <2> DEFINE d == policy.default
             most == policy.maximum
  <2>1. /\ CaseCalls \in Nat /\ Asked = 15
        /\ d \in Nat \ {0} /\ most \in Nat /\ policy.budget \in Nat
    BY CallsCounted, ControlItems, EpsilonType DEF AnswersInv, Answers, Over, Asked
  <2>2. Done(0, 2, Asked) = 2 /\ Done(2, 6, Asked) = 6 /\ Done(10, 4, Asked) = 4
    BY <2>1 DEF Done
  <2>3. RolesPassed
    BY <2>1 DEF AnswersInv, Kept, ControlsKept, RolesKept, RolesPassed, Answer
  <2>4. StickyPassed <=> d = 2 /\ 2 <= most /\ 2 <= policy.budget
    <3>1. Sticky(1, Answer(1)) /\ Sticky(2, Answer(2))
      BY <2>2 DEF AnswersInv, Kept, ControlsKept, StickyKept, Answer
    <3>2. \A n : n \in 1..2 <=> n = 1 \/ n = 2
      OBVIOUS
    <3> QED
      BY <2>1, <3>1, <3>2 DEF Sticky, Fits, StickyPassed
  <2>5. BudgetPassed <=> 4 <= most /\ policy.budget \in 20..23
    <3>1. ASSUME NEW j \in 1..6 PROVE Rung(4, j, Answer(2 + j))
      <4>1. CaseCalls + 2 + j = CaseCalls + (2 + j)
        BY <2>1
      <4> QED
        BY <2>2, <4>1 DEF AnswersInv, Kept, ControlsKept, BudgetKept, Ladder, Answer
    <3>2. CASE ~(4 <= most)
      BY <3>1, <3>2 DEF Rung, BudgetPassed
    <3>3. CASE 4 <= most
      <4>1. /\ \A j \in 1..5 : Answer(2 + j).decision = "ALLOW" <=> 4 * j <= policy.budget
            /\ Answer(8).reason = "PRIVACY_BUDGET_EXHAUSTED" <=> ~(24 <= policy.budget)
        BY <3>1, <3>3 DEF Rung
      <4>2. (\A n \in 3..7 : Answer(n).decision = "ALLOW")
              <=> (\A j \in 1..5 : Answer(2 + j).decision = "ALLOW")
        <5>1. \A n \in 3..7 : n - 2 \in 1..5 /\ 2 + (n - 2) = n
          OBVIOUS
        <5>2. \A j \in 1..5 : 2 + j \in 3..7
          OBVIOUS
        <5> QED
          BY <5>1, <5>2
      <4>3. (\A j \in 1..5 : 4 * j <= policy.budget) <=> 20 <= policy.budget
        BY <2>1
      <4> QED
        BY <2>1, <3>3, <4>1, <4>2, <4>3 DEF BudgetPassed
    <3> QED
      BY <3>2, <3>3
  <2>6. DifferencingPassed <=> d <= most /\ 4 * d <= policy.budget
    <3>1. ASSUME NEW j \in 1..4 PROVE Rung(d, j, Answer(10 + j))
      <4>1. CaseCalls + 10 + j = CaseCalls + (10 + j)
        BY <2>1
      <4> QED
        BY <2>2, <4>1 DEF AnswersInv, Kept, ControlsKept, SlicesKept, Ladder, Answer
    <3>2. d <= most => Answer(15).reason = "DIFFERENCING_RISK"
      BY <2>1 DEF AnswersInv, Kept, ControlsKept, Fifth, Answer
    <3>3. CASE ~(d <= most)
      BY <3>1, <3>3 DEF Rung, DifferencingPassed
    <3>4. CASE d <= most
      <4>1. \A j \in 1..4 : Answer(10 + j).decision = "ALLOW" <=> d * j <= policy.budget
        BY <3>1, <3>4 DEF Rung
      <4>2. (\A n \in 11..14 : Answer(n).decision = "ALLOW")
              <=> (\A j \in 1..4 : Answer(10 + j).decision = "ALLOW")
        <5>1. \A n \in 11..14 : n - 10 \in 1..4 /\ 10 + (n - 10) = n
          OBVIOUS
        <5>2. \A j \in 1..4 : 10 + j \in 11..14
          OBVIOUS
        <5> QED
          BY <5>1, <5>2
      <4>3. (\A j \in 1..4 : d * j <= policy.budget) <=> 4 * d <= policy.budget
        <5>1. /\ d * 1 = d /\ d * 2 = 2 * d /\ d * 3 = 3 * d /\ d * 4 = 4 * d
              /\ \A j \in 1..4 : j = 1 \/ j = 2 \/ j = 3 \/ j = 4
          BY <2>1
        <5> QED
          BY <2>1, <5>1
      <4> QED
        BY <3>2, <3>4, <4>1, <4>2, <4>3 DEF DifferencingPassed
    <3> QED
      BY <3>3, <3>4
  <2> QED
    BY <2>3, <2>4, <2>5, <2>6 DEF ControlsTellThePolicy
<1> QED
  BY <1>1, AnswersInvariant, PTL

=============================================================================
