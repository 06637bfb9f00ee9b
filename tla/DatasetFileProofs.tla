-------------------------- MODULE DatasetFileProofs --------------------------
(***************************************************************************)
(* A dataset file that is finished is never written again and answers      *)
(* every query that opened it whole; the rows of a file are the rows of    *)
(* one initialiser; and initialisers that race leave a finished file, for  *)
(* any number of processes and readers.                                    *)
(***************************************************************************)
EXTENDS DatasetFile, SequenceTheorems, TLAPS

Owners == Initialisers \cup {Nobody}
Begun == {"employees", "tables", "rows"}

\* What a file holds: a part of the dataset, all of it, or a torn part, with
\* the part before that its journal leads back to.
Partial == [stage : {"empty"} \cup Begun, by : Owners]
Finished == [stage : {"vacuumed"}, by : Owners]
Torn == [stage : {"torn"}, by : Initialisers, before : Partial]
Content == Partial \cup Finished \cup Torn

Steps == {"idle", "unlink", "connect", "ready", "writing", "over"}

Readings ==
  [at : {"idle", "connect", "prepare", "fetch", "over"}, file : Nat,
   seen : {"none", "empty", "vacuumed", "torn"} \cup Begun, quiet : BOOLEAN,
   answer : {"none", "refused", "raised", "all", "partial"}]

Typed ==
  /\ files \in Seq(Content) /\ path \in 0..Len(files) /\ journal \in Owners
  /\ pc \in [Initialisers -> Steps] /\ opened \in [Initialisers -> 0..Len(files)]
  /\ \A p \in Initialisers : pc[p] \in {"ready", "writing"} => opened[p] \in DOMAIN files
  /\ reading \in [Readers -> Readings]
  /\ \A r \in Readers : reading[r].at \in {"prepare", "fetch"} => reading[r].file \in DOMAIN files
  /\ runs \in 0..MaxRuns /\ mishaps \subseteq Initialisers

\* What p wrote into the file is begun and not finished.
OwnIsBegun(p, content) == content.by # p \/ content.stage \in Begun

\* p has not written into the file.
NotOwn(p, content) ==
  content.by # p /\ (content.stage = "torn" => content.before.by # p)

\* p may go on in the file, or begin.
Usable(p, content) ==
  OwnIsBegun(p, content) /\ (content.stage = "torn" => OwnIsBegun(p, content.before))

\* The file is empty, or p has begun to write it.
Writes(p, content) == content \in Partial /\ (content.stage = "empty" \/ content.by = p)

\* An initialiser never meets its own work of an earlier run, and is alone in
\* the file that it writes, which is not finished.
Exclusive ==
  \A p \in Initialisers :
    /\ pc[p] = "connect" /\ path # 0 => NotOwn(p, files[path])
    /\ pc[p] = "ready" => Usable(p, files[opened[p]])
    /\ pc[p] = "writing" =>
         /\ Writes(p, files[opened[p]])
         /\ \A q \in Initialisers : pc[q] = "writing" /\ opened[q] = opened[p] => p = q

-----------------------------------------------------------------------------
(* How the actions change the files.                                       *)

\* The content of one file changes to what an initialiser makes of it.
Rewrites(f, content) ==
  /\ f \in DOMAIN files /\ content \in Content
  /\ files' = [files EXCEPT ![f] = content]

LEMMA RewritesOne ==
  ASSUME Typed, NEW f, NEW content, Rewrites(f, content)
  PROVE  /\ files' \in Seq(Content) /\ Len(files') = Len(files)
         /\ DOMAIN files' = DOMAIN files /\ files'[f] = content
         /\ \A g \in DOMAIN files : g # f => files'[g] = files[g]
<1>1. files' \in Seq(Content) /\ Len(files') = Len(files)
  BY ExceptSeq, LenProperties DEF Typed, Rewrites
<1> QED
  BY <1>1 DEF Rewrites

LEMMA AppendsOne ==
  ASSUME Typed, NEW content \in Content, files' = Append(files, content)
  PROVE  /\ files' \in Seq(Content) /\ Len(files') = Len(files) + 1
         /\ Len(files) \in Nat /\ DOMAIN files = 1..Len(files)
         /\ DOMAIN files' = 1..(Len(files) + 1) /\ files'[Len(files) + 1] = content
         /\ \A g \in DOMAIN files : files'[g] = files[g]
  BY AppendProperties, LenProperties DEF Typed

(* What a commit makes of a file is the next stage.                        *)
LEMMA NextStage ==
  ASSUME NEW stage \in {"empty"} \cup Begun
  PROVE  StageAfter(stage) \in Begun \cup {"vacuumed"}
<1>1. CASE stage = "empty"
  BY <1>1 DEF StageAfter, Begun
<1>2. CASE stage \in Begun
  <2> DEFINE i == CHOOSE k \in 1..3 : Stages[k] = stage
  <2>1. /\ Stages[1] = "employees" /\ Stages[2] = "tables" /\ Stages[3] = "rows"
        /\ Stages[4] = "vacuumed"
    BY DEF Stages
  <2>2. \E k \in 1..3 : Stages[k] = stage
    BY <1>2, <2>1 DEF Begun
  <2>3. i \in 1..3
    BY <2>2
  <2>4. StageAfter(stage) = Stages[i + 1]
    BY <1>2 DEF StageAfter, Begun
  <2> HIDE DEF i
  <2>5. i = 1 \/ i = 2 \/ i = 3
    BY <2>3
  <2> QED
    BY <2>1, <2>4, <2>5 DEF Begun
<1> QED
  BY <1>1, <1>2

(* Recovery changes torn files only, back to a part of the dataset.        *)
LEMMA RecoveredContent ==
  ASSUME Typed, NEW f \in DOMAIN files
  PROVE  /\ Recovered(f) \in Content
         /\ files[f].stage # "torn" => Recovered(f) = files[f]
         /\ files[f].stage = "torn" =>
              \/ Recovered(f) = files[f]
              \/ Recovered(f) = files[f].before /\ Recovered(f) \in Partial
<1>1. files[f] \in Content
  BY ElementOfSeq DEF Typed
<1>2. files[f].stage = "torn" => files[f] \in Torn
  BY <1>1 DEF Content, Partial, Finished, Begun
<1> QED
  BY <1>1, <1>2 DEF Recovered, Content, Torn

LEMMA BeginWriteChanges ==
  ASSUME Typed, Exclusive, NEW p \in Initialisers, BeginWrite(p)
  PROVE  LET f == opened[p] IN
         /\ Rewrites(f, Recovered(f)) /\ Writes(p, Recovered(f)) /\ path = f
         /\ \A q \in Initialisers : pc[q] = "writing" => opened[q] # f
<1> DEFINE f == opened[p]
<1>1. f \in DOMAIN files /\ Recovered(f) \in Content
  BY RecoveredContent DEF BeginWrite, Typed
<1>2. Recovered(f).stage = "empty" \/ Recovered(f).by = p
  BY DEF BeginWrite, TableExists
<1>3. Usable(p, files[f])
  BY DEF BeginWrite, Exclusive
<1>4. OwnIsBegun(p, Recovered(f))
  BY <1>1, <1>3, RecoveredContent DEF Usable
<1>5. Recovered(f) \in Partial
  BY <1>1, <1>2, <1>4 DEF OwnIsBegun, Content, Partial, Finished, Torn, Begun
<1>6. \A q \in Initialisers : pc[q] = "writing" => opened[q] # f
  BY DEF BeginWrite
<1> QED
  BY <1>1, <1>2, <1>5, <1>6 DEF BeginWrite, Rewrites, Writes

LEMMA CannotWriteChanges ==
  ASSUME Typed, NEW p \in Initialisers, CannotWrite(p)
  PROVE  \/ UNCHANGED <<files, journal>>
         \/ /\ Rewrites(path, Recovered(path)) /\ path = opened[p] /\ TableExists(p)
            /\ \A q \in Initialisers : pc[q] = "writing" => opened[q] # path
<1> SUFFICES ASSUME ~UNCHANGED <<files, journal>>
             PROVE  /\ Rewrites(path, Recovered(path)) /\ path = opened[p] /\ TableExists(p)
                    /\ \A q \in Initialisers : pc[q] = "writing" => opened[q] # path
  OBVIOUS
<1>1. /\ path = opened[p] /\ TableExists(p) /\ pc[p] = "ready"
      /\ ~\E q \in Initialisers \ {p} : pc[q] = "writing" /\ opened[q] = path
      /\ files' = [files EXCEPT ![path] = Recovered(path)]
  BY DEF CannotWrite
<1>2. path \in DOMAIN files /\ Recovered(path) \in Content
  BY <1>1, RecoveredContent DEF Typed
<1> QED
  BY <1>1, <1>2 DEF Rewrites

LEMMA CommitChanges ==
  ASSUME Typed, Exclusive, NEW p \in Initialisers, Commit(p)
  PROVE  LET f == opened[p]
             new == [stage |-> StageAfter(files[f].stage), by |-> p]
         IN  /\ Rewrites(f, new) /\ new.stage \in Begun \cup {"vacuumed"}
             /\ Writes(p, files[f])
             /\ \A q \in Initialisers : pc[q] = "writing" /\ opened[q] = f => q = p
<1> DEFINE f == opened[p]
           new == [stage |-> StageAfter(files[f].stage), by |-> p]
<1>1. pc[p] = "writing" /\ files' = [files EXCEPT ![f] = new]
  BY DEF Commit
<1>2. f \in DOMAIN files
  BY <1>1 DEF Typed
<1>3. Writes(p, files[f]) /\ \A q \in Initialisers : pc[q] = "writing" /\ opened[q] = f => q = p
  BY <1>1 DEF Exclusive
<1>4. files[f].stage \in {"empty"} \cup Begun
  BY <1>3 DEF Writes, Partial
<1>5. StageAfter(files[f].stage) \in Begun \cup {"vacuumed"}
  BY <1>4, NextStage
<1>6. new \in Content
  BY <1>5 DEF Content, Partial, Finished, Owners
<1> QED
  BY <1>1, <1>2, <1>3, <1>5, <1>6 DEF Rewrites

LEMMA CrashChanges ==
  ASSUME Typed, Exclusive, NEW p \in Initialisers, Crash(p)
  PROVE  LET f == opened[p]
             new == [stage |-> "torn", by |-> p, before |-> files[f]]
         IN  \/ UNCHANGED files
             \/ /\ Rewrites(f, new) /\ Writes(p, files[f]) /\ pc[p] = "writing"
                /\ \A q \in Initialisers : pc[q] = "writing" /\ opened[q] = f => q = p
<1> DEFINE f == opened[p]
           new == [stage |-> "torn", by |-> p, before |-> files[f]]
<1> SUFFICES ASSUME pc[p] = "writing", files' = [files EXCEPT ![f] = new]
             PROVE  /\ Rewrites(f, new) /\ Writes(p, files[f])
                    /\ \A q \in Initialisers : pc[q] = "writing" /\ opened[q] = f => q = p
  BY DEF Crash
<1>1. f \in DOMAIN files
  BY DEF Typed
<1>2. Writes(p, files[f]) /\ \A q \in Initialisers : pc[q] = "writing" /\ opened[q] = f => q = p
  BY DEF Exclusive
<1>3. new \in Content
  BY <1>2 DEF Writes, Content, Torn
<1> QED
  BY <1>1, <1>2, <1>3 DEF Rewrites

-----------------------------------------------------------------------------
(* The inductive invariant of the initialisers.                            *)

IInv == Typed /\ Exclusive

LEMMA InitIInv == Init => IInv
<1> SUFFICES ASSUME Init PROVE IInv
  OBVIOUS
<1>1. files \in Seq(Content) /\ Len(files) = 0 /\ path \in 0..Len(files) /\ journal \in Owners
  BY DEF Init, Owners
<1>3. reading \in [Readers -> Readings] /\ \A r \in Readers : reading[r].at = "idle"
  BY DEF Init, Idle, Readings
<1>4. runs \in 0..MaxRuns /\ mishaps \subseteq Initialisers
  BY FileAssumption DEF Init
<1>5. Typed
  BY <1>1, <1>3, <1>4 DEF Init, Typed, Steps
<1>2. Exclusive
  BY DEF Init, Exclusive
<1> QED
  BY <1>2, <1>5 DEF IInv

LEMMA ReadersTyped ==
  ASSUME Typed, NEW r \in Readers, Execute(r)
  PROVE  Typed'
<1>1. UNCHANGED <<path, files, journal, pc, opened, runs, mishaps>>
  BY DEF Execute, CheckFile, ConnectReader, Prepare, Fetch
<1>2. reading[r] \in Readings
  BY DEF Typed
<1>3. PICK new \in Readings : /\ reading' = [reading EXCEPT ![r] = new]
                              /\ new.at \in {"prepare", "fetch"} => new.file \in DOMAIN files
  <2>1. ASSUME NEW at \in {"connect", "over"}, NEW answer \in {"none", "refused", "all", "partial"},
               NEW seen \in {"none", "empty", "vacuumed", "torn"} \cup Begun
        PROVE  /\ [Idle EXCEPT !.at = at, !.seen = seen, !.answer = answer] \in Readings
               /\ [Idle EXCEPT !.at = at] \in Readings
               /\ [Idle EXCEPT !.at = at, !.answer = answer] \in Readings
               /\ [Idle EXCEPT !.at = at, !.seen = seen, !.answer = answer].at = at
               /\ [Idle EXCEPT !.at = at].at = at
               /\ [Idle EXCEPT !.at = at, !.answer = answer].at = at
    BY <2>1 DEF Idle, Readings
  <2>2. CASE CheckFile(r)
    <3> DEFINE A == [Idle EXCEPT !.at = "connect"]
               B == [Idle EXCEPT !.at = "over", !.answer = "refused"]
    <3>1. PICK new \in {A, B} : reading' = [reading EXCEPT ![r] = new]
      BY <2>2 DEF CheckFile
    <3>2. A \in Readings /\ B \in Readings /\ A.at = "connect" /\ B.at = "over"
      BY <2>1
    <3> HIDE DEF A, B
    <3> QED
      BY <3>1, <3>2
  <2>3. CASE ConnectReader(r)
    <3> DEFINE A == [reading[r] EXCEPT !.at = "prepare", !.file = path]
               B == [reading[r] EXCEPT !.at = "over", !.answer = "raised"]
    <3>1. Len(files) \in Nat /\ DOMAIN files = 1..Len(files)
      BY LenProperties DEF Typed
    <3>2. \/ reading' = [reading EXCEPT ![r] = A] /\ path # 0
          \/ reading' = [reading EXCEPT ![r] = B]
      BY <2>3 DEF ConnectReader, Typed
    <3>3. B \in Readings /\ B.at = "over"
      BY <1>2 DEF Readings
    <3>4. path \in Nat => A \in Readings /\ A.file = path
      BY <1>2 DEF Readings
    <3> HIDE DEF A, B
    <3> QED
      BY <3>1, <3>2, <3>3, <3>4 DEF Typed
  <2>4. CASE Prepare(r)
    <3> DEFINE stage == files[reading[r].file].stage
               quiet == Quiet(reading[r].file)
               A == [Idle EXCEPT !.at = "over", !.answer = "refused"]
               B == [reading[r] EXCEPT !.at = "fetch", !.seen = stage, !.quiet = quiet]
    <3>1. reading[r].file \in DOMAIN files
      BY <2>4 DEF Prepare, Typed
    <3>2. files[reading[r].file] \in Content
      BY <3>1, ElementOfSeq DEF Typed
    <3>3. stage \in {"empty", "vacuumed", "torn"} \cup Begun
      BY <3>2 DEF Content, Partial, Finished, Torn
    <3>4. quiet \in BOOLEAN
      BY DEF Quiet
    <3>5. reading' = [reading EXCEPT ![r] = A] \/ reading' = [reading EXCEPT ![r] = B]
      BY <2>4 DEF Prepare, Typed
    <3>6. A \in Readings /\ A.at = "over"
      BY <2>1
    <3> HIDE DEF stage, quiet
    <3>7. B \in Readings /\ B.file = reading[r].file
      BY <1>2, <3>3, <3>4 DEF Readings
    <3> HIDE DEF A, B
    <3> QED
      BY <3>1, <3>5, <3>6, <3>7
  <2>5. CASE Fetch(r)
    <3>1. PICK seen \in {"none", "empty", "vacuumed", "torn"} \cup Begun : seen = reading[r].seen
      BY <1>2 DEF Readings
    <3>2. PICK answer \in {"all", "none", "partial", "refused"} :
            reading' = [reading EXCEPT ![r] =
              [Idle EXCEPT !.at = "over", !.seen = seen, !.answer = answer]]
      BY <2>5, <3>1 DEF Fetch
    <3> DEFINE A == [Idle EXCEPT !.at = "over", !.seen = seen, !.answer = answer]
    <3>3. A \in Readings /\ A.at = "over"
      BY DEF Idle, Readings
    <3>4. reading' = [reading EXCEPT ![r] = A]
      BY <3>2
    <3> HIDE DEF A
    <3> QED
      BY <3>3, <3>4
  <2> QED
    BY <2>2, <2>3, <2>4, <2>5 DEF Execute
<1> QED
  BY <1>1, <1>3 DEF Typed

LEMMA TypedStep == IInv /\ [Next]_vars => Typed'
<1> SUFFICES ASSUME IInv, [Next]_vars PROVE Typed'
  OBVIOUS
<1> USE DEF IInv
<1>1. Len(files) \in Nat /\ DOMAIN files = 1..Len(files)
  BY LenProperties DEF Typed
<1>2. ASSUME NEW p \in Initialisers, NEW f, NEW content, Rewrites(f, content),
             journal' \in Owners, mishaps' \subseteq Initialisers,
             NEW to \in {"ready", "writing", "over"}, Goto(p, to), pc[p] \in {"ready", "writing"},
             UNCHANGED <<path, opened, reading, runs>>
      PROVE  Typed'
  <2>1. /\ files' \in Seq(Content) /\ Len(files') = Len(files) /\ DOMAIN files' = DOMAIN files
    BY <1>2, RewritesOne
  <2> QED
    BY <1>2, <2>1 DEF Typed, Goto, Steps
<1>3. ASSUME NEW p \in Initialisers, NEW to \in {"unlink", "connect", "over"}, Goto(p, to),
             journal' \in Owners, path' \in {0, path}, runs' \in 0..MaxRuns,
             mishaps' \subseteq Initialisers,
             UNCHANGED <<files, opened, reading>>
      PROVE  Typed'
  BY <1>1, <1>3 DEF Typed, Goto, Steps
<1>4. ASSUME NEW p \in Initialisers, Start(p) PROVE Typed'
  BY <1>3, <1>4, FileAssumption DEF Start, Typed
<1>5. ASSUME NEW p \in Initialisers, Unlink(p) PROVE Typed'
  BY <1>3, <1>5 DEF Unlink, Typed
<1>6. ASSUME NEW p \in Initialisers, Connect(p) PROVE Typed'
  <2> DEFINE new == [stage |-> "empty", by |-> Nobody]
  <2>1. /\ Goto(p, "ready") /\ opened' = [opened EXCEPT ![p] = path']
        /\ UNCHANGED <<journal, reading, runs, mishaps>>
    BY <1>6 DEF Connect
  <2>2. CASE path = 0
    <3>1. files' = Append(files, new) /\ path' = Len(files) + 1
      BY <1>6, <2>2 DEF Connect
    <3>2. new \in Content
      BY DEF Content, Partial, Owners
    <3>3. /\ files' \in Seq(Content) /\ Len(files') = Len(files) + 1
          /\ DOMAIN files' = 1..(Len(files) + 1)
      BY <3>1, <3>2, AppendsOne
    <3> QED
      BY <1>1, <2>1, <3>1, <3>3 DEF Typed, Goto, Steps
  <2>3. CASE path # 0
    <3>1. UNCHANGED <<path, files>>
      BY <1>6, <2>3 DEF Connect
    <3> QED
      BY <1>1, <2>1, <2>3, <3>1 DEF Typed, Goto, Steps
  <2> QED
    BY <2>2, <2>3
<1>7. ASSUME NEW p \in Initialisers, BeginWrite(p) PROVE Typed'
  <2>1. Rewrites(opened[p], Recovered(opened[p]))
    BY <1>7, BeginWriteChanges
  <2> QED
    BY <1>2, <1>7, <2>1 DEF BeginWrite, Typed, Owners
<1>8. ASSUME NEW p \in Initialisers, CannotWrite(p) PROVE Typed'
  <2>1. /\ Goto(p, "over") /\ UNCHANGED <<path, opened, reading, runs, mishaps>>
        /\ pc[p] = "ready"
    BY <1>8 DEF CannotWrite
  <2>2. journal' \in Owners
    BY <1>8 DEF CannotWrite, Typed, Owners
  <2>3. CASE UNCHANGED <<files, journal>>
    BY <1>3, <2>1, <2>2, <2>3 DEF Typed
  <2>4. CASE Rewrites(path, Recovered(path))
    BY <1>2, <2>1, <2>2, <2>4 DEF Typed
  <2> QED
    BY <1>8, <2>3, <2>4, CannotWriteChanges
<1>9. ASSUME NEW p \in Initialisers, Commit(p) PROVE Typed'
  <2>1. PICK content : Rewrites(opened[p], content)
    BY <1>9, CommitChanges
  <2>2. PICK to \in {"ready", "over"} : Goto(p, to)
    BY <1>9 DEF Commit, Goto
  <2>3. /\ pc[p] = "writing" /\ journal' \in Owners /\ mishaps' \subseteq Initialisers
        /\ UNCHANGED <<path, opened, reading, runs>>
    BY <1>9 DEF Commit, Owners, Typed
  <2> QED
    BY <1>2, <2>1, <2>2, <2>3
<1>10. ASSUME NEW p \in Initialisers, Crash(p) PROVE Typed'
  <2>1. /\ Goto(p, "over") /\ mishaps' \subseteq Initialisers
        /\ UNCHANGED <<path, journal, opened, reading, runs>>
    BY <1>10 DEF Crash, Typed
  <2>2. CASE UNCHANGED files
    BY <1>3, <2>1, <2>2 DEF Typed
  <2>3. CASE ~UNCHANGED files
    <3>1. pc[p] = "writing" /\ \E content : Rewrites(opened[p], content)
      BY <1>10, <2>3, CrashChanges
    <3> QED
      BY <1>2, <2>1, <3>1 DEF Typed
  <2> QED
    BY <2>2, <2>3
<1>11. CASE UNCHANGED vars
  BY <1>11 DEF vars, Typed
<1> QED
  BY <1>4, <1>5, <1>6, <1>7, <1>8, <1>9, <1>10, <1>11, ReadersTyped DEF Next, Initialise

(* The other initialisers keep what is theirs when p rewrites a file that  *)
(* none of them is writing.                                                *)
LEMMA OthersStayExclusive ==
  ASSUME IInv, NEW p \in Initialisers, NEW f, NEW content, Rewrites(f, content),
         \A q \in Initialisers : pc[q] = "writing" /\ opened[q] = f => q = p,
         NEW q \in Initialisers \ {p}, pc'[q] = pc[q], opened'[q] = opened[q], path' = path,
         pc[q] = "connect" => (NotOwn(q, files[f]) => NotOwn(q, content)),
         pc[q] = "ready" => (Usable(q, files[f]) => Usable(q, content))
  PROVE  /\ pc'[q] = "connect" /\ path' # 0 => NotOwn(q, files'[path'])
         /\ pc'[q] = "ready" => Usable(q, files'[opened'[q]])
         /\ pc'[q] = "writing" => Writes(q, files'[opened'[q]])
<1>1. /\ DOMAIN files' = DOMAIN files /\ files'[f] = content
      /\ \A g \in DOMAIN files : g # f => files'[g] = files[g]
  BY RewritesOne DEF IInv
<1>2. path # 0 => path \in DOMAIN files
  BY LenProperties DEF IInv, Typed
<1>3. pc[q] \in {"ready", "writing"} => opened[q] \in DOMAIN files
  BY DEF IInv, Typed
<1>4. ASSUME pc'[q] = "connect", path' # 0 PROVE NotOwn(q, files'[path'])
  <2>1. NotOwn(q, files[path])
    BY <1>4 DEF IInv, Exclusive
  <2> QED
    BY <1>1, <1>2, <1>4, <2>1
<1>5. ASSUME pc'[q] = "ready" PROVE Usable(q, files'[opened'[q]])
  <2>1. Usable(q, files[opened[q]])
    BY <1>5 DEF IInv, Exclusive
  <2> QED
    BY <1>1, <1>3, <1>5, <2>1
<1>6. ASSUME pc'[q] = "writing" PROVE Writes(q, files'[opened'[q]])
  <2>1. Writes(q, files[opened[q]]) /\ opened[q] # f
    BY <1>6 DEF IInv, Exclusive
  <2> QED
    BY <1>1, <1>3, <1>6, <2>1
<1> QED
  BY <1>4, <1>5, <1>6

(* What others make of a file is not the work of q, and usable for q.      *)
LEMMA OthersWork ==
  ASSUME IInv, NEW q \in Initialisers, NEW f \in DOMAIN files
  PROVE  /\ NotOwn(q, files[f]) => NotOwn(q, Recovered(f))
         /\ Usable(q, files[f]) => Usable(q, Recovered(f))
         /\ \A p \in Initialisers \ {q}, stage \in Begun \cup {"vacuumed"} :
              /\ NotOwn(q, [stage |-> stage, by |-> p])
              /\ Usable(q, [stage |-> stage, by |-> p])
         /\ \A p \in Initialisers \ {q} : Writes(p, files[f]) =>
              LET new == [stage |-> "torn", by |-> p, before |-> files[f]] IN
              /\ NotOwn(q, files[f]) => NotOwn(q, new)
              /\ Usable(q, files[f]) => Usable(q, new)
<1>1. ASSUME files[f].stage = "torn", Recovered(f) = files[f].before, Recovered(f) \in Partial
      PROVE  /\ NotOwn(q, files[f]) => NotOwn(q, Recovered(f))
             /\ Usable(q, files[f]) => Usable(q, Recovered(f))
  <2>1. Recovered(f).stage # "torn"
    BY <1>1 DEF Partial, Begun
  <2> QED
    BY <1>1, <2>1 DEF NotOwn, Usable
<1>2. /\ NotOwn(q, files[f]) => NotOwn(q, Recovered(f))
      /\ Usable(q, files[f]) => Usable(q, Recovered(f))
  BY <1>1, RecoveredContent DEF IInv
<1>3. ASSUME NEW p \in Initialisers \ {q}, NEW stage \in Begun \cup {"vacuumed"}
      PROVE  /\ NotOwn(q, [stage |-> stage, by |-> p])
             /\ Usable(q, [stage |-> stage, by |-> p])
  BY <1>3 DEF NotOwn, Usable, OwnIsBegun, Begun
<1>4. ASSUME NEW p \in Initialisers \ {q}, Writes(p, files[f])
      PROVE  LET new == [stage |-> "torn", by |-> p, before |-> files[f]] IN
             /\ NotOwn(q, files[f]) => NotOwn(q, new)
             /\ Usable(q, files[f]) => Usable(q, new)
  BY <1>4 DEF NotOwn, Usable, OwnIsBegun
<1> QED
  BY <1>2, <1>3, <1>4

LEMMA ExclusiveStep == IInv /\ [Next]_vars => Exclusive'
<1> SUFFICES ASSUME IInv, [Next]_vars PROVE Exclusive'
  OBVIOUS
<1> DEFINE Kept(q) == /\ pc'[q] = "connect" /\ path' # 0 => NotOwn(q, files'[path'])
                      /\ pc'[q] = "ready" => Usable(q, files'[opened'[q]])
                      /\ pc'[q] = "writing" => Writes(q, files'[opened'[q]])
           Alone(q) == pc'[q] = "writing" =>
                         \A p \in Initialisers : pc'[p] = "writing" /\ opened'[p] = opened'[q] => q = p
<1>1. ASSUME \A q \in Initialisers : Kept(q) /\ Alone(q) PROVE Exclusive'
  BY <1>1 DEF Exclusive
\* No initialiser begins to write: who writes alone goes on so.
<1>2. ASSUME \A q \in Initialisers : pc'[q] = "writing" => pc[q] = "writing" /\ opened'[q] = opened[q]
      PROVE  \A q \in Initialisers : Alone(q)
  BY <1>2 DEF IInv, Exclusive
\* p moves and touches no file that exists.
<1>3. ASSUME NEW p \in Initialisers, NEW to, pc' = [pc EXCEPT ![p] = to], to # "writing",
             \A q \in Initialisers \ {p} : opened'[q] = opened[q],
             \A g \in DOMAIN files : files'[g] = files[g],
             \A q \in Initialisers \ {p} : pc[q] = "connect" /\ path' # 0 => NotOwn(q, files'[path']),
             Kept(p)
      PROVE  Exclusive'
  <2>1. ASSUME NEW q \in Initialisers \ {p} PROVE Kept(q) /\ pc'[q] = pc[q]
    <3>1. pc'[q] = pc[q] /\ opened'[q] = opened[q]
      BY <1>3 DEF IInv, Typed
    <3>2. pc[q] \in {"ready", "writing"} => files'[opened[q]] = files[opened[q]]
      BY <1>3 DEF IInv, Typed
    <3> QED
      BY <1>3, <3>1, <3>2 DEF IInv, Exclusive
  <2>2. pc'[p] # "writing"
    BY <1>3 DEF IInv, Typed
  <2>3. \A q \in Initialisers : pc'[q] = "writing" => pc[q] = "writing" /\ opened'[q] = opened[q]
    BY <1>3, <2>1, <2>2
  <2> HIDE DEF Kept, Alone
  <2> QED
    BY <1>1, <1>2, <1>3, <2>1, <2>3
\* p rewrites a file that nobody else is writing.
<1>4. ASSUME NEW p \in Initialisers, NEW f, NEW content, Rewrites(f, content), path' = path,
             NEW to, pc' = [pc EXCEPT ![p] = to], opened' = opened,
             \A q \in Initialisers : pc[q] = "writing" /\ opened[q] = f => q = p,
             \A q \in Initialisers \ {p} :
               /\ NotOwn(q, files[f]) => NotOwn(q, content)
               /\ Usable(q, files[f]) => Usable(q, content),
             Kept(p), Alone(p)
      PROVE  Exclusive'
  <2>1. ASSUME NEW q \in Initialisers \ {p} PROVE Kept(q) /\ pc'[q] = pc[q]
    <3>1. pc'[q] = pc[q] /\ opened'[q] = opened[q]
      BY <1>4 DEF IInv, Typed
    <3> QED
      BY <1>4, <3>1, OthersStayExclusive
  <2>2. ASSUME NEW q \in Initialisers \ {p} PROVE Alone(q)
    <3> SUFFICES ASSUME pc'[q] = "writing", NEW o \in Initialisers, pc'[o] = "writing",
                        opened'[o] = opened'[q]
                 PROVE  q = o
      OBVIOUS
    <3>1. pc[q] = "writing" /\ opened'[q] = opened[q] /\ opened'[o] = opened[o]
      BY <1>4, <2>1
    <3>2. CASE o = p
      BY <1>4, <3>1, <3>2
    <3>3. CASE o # p
      BY <2>1, <3>1, <3>3 DEF IInv, Exclusive
    <3> QED
      BY <3>2, <3>3
  <2> HIDE DEF Kept, Alone
  <2> QED
    BY <1>1, <1>4, <2>1, <2>2
<1>5. ASSUME NEW p \in Initialisers, Start(p) \/ Unlink(p) PROVE Exclusive'
  <2>1. PICK to \in {"unlink", "connect"} : pc' = [pc EXCEPT ![p] = to] /\ (to = "connect" => path' = 0)
    BY <1>5 DEF Start, Unlink, Goto
  <2>2. UNCHANGED <<files, opened>> /\ (path' = path \/ path' = 0)
    BY <1>5 DEF Start, Unlink
  <2>3. Kept(p)
    BY <2>1 DEF IInv, Typed
  <2>4. \A q \in Initialisers \ {p} : pc[q] = "connect" /\ path' # 0 => NotOwn(q, files'[path'])
    BY <2>2 DEF IInv, Exclusive
  <2> HIDE DEF Kept
  <2> QED
    BY <1>3, <2>1, <2>2, <2>3, <2>4
<1>6. ASSUME NEW p \in Initialisers, Connect(p) PROVE Exclusive'
  <2> DEFINE new == [stage |-> "empty", by |-> Nobody]
  <2>1. /\ pc[p] = "connect" /\ pc' = [pc EXCEPT ![p] = "ready"]
        /\ opened' = [opened EXCEPT ![p] = path']
    BY <1>6 DEF Connect, Goto
  <2>2. pc'[p] = "ready" /\ opened'[p] \in {path', opened[p]} /\ opened'[p] = path'
    BY <2>1 DEF IInv, Typed
  <2>3. \A q \in Initialisers \ {p} : opened'[q] = opened[q]
    BY <2>1 DEF IInv, Typed
  <2>4. CASE path = 0
    <3>1. files' = Append(files, new) /\ path' = Len(files) + 1
      BY <1>6, <2>4 DEF Connect
    <3>2. new \in Content
      BY DEF Content, Partial, Owners
    <3>3. files'[path'] = new /\ \A g \in DOMAIN files : files'[g] = files[g]
      BY <3>1, <3>2, AppendsOne DEF IInv
    <3>4. \A q \in Initialisers : NotOwn(q, new) /\ Usable(q, new)
      BY FileAssumption DEF NotOwn, Usable, OwnIsBegun
    <3>5. Kept(p)
      BY <2>2, <3>3, <3>4
    <3> HIDE DEF Kept, new
    <3> QED
      BY <1>3, <2>1, <2>3, <3>3, <3>4, <3>5
  <2>5. CASE path # 0
    <3>1. UNCHANGED <<path, files>>
      BY <1>6, <2>5 DEF Connect
    <3>2. NotOwn(p, files[path])
      BY <2>1, <2>5 DEF IInv, Exclusive
    <3>3. Usable(p, files[path])
      BY <3>2 DEF NotOwn, Usable, OwnIsBegun
    <3>4. Kept(p)
      BY <2>2, <3>1, <3>3
    <3>5. \A q \in Initialisers \ {p} : pc[q] = "connect" /\ path' # 0 => NotOwn(q, files'[path'])
      BY <3>1 DEF IInv, Exclusive
    <3> HIDE DEF Kept
    <3> QED
      BY <1>3, <2>1, <2>3, <3>1, <3>4, <3>5
  <2> QED
    BY <2>4, <2>5
<1>7. ASSUME NEW p \in Initialisers, BeginWrite(p) PROVE Exclusive'
  <2> DEFINE f == opened[p]
  <2>1. /\ Rewrites(f, Recovered(f)) /\ Writes(p, Recovered(f)) /\ path = f
        /\ \A q \in Initialisers : pc[q] = "writing" => opened[q] # f
    BY <1>7, BeginWriteChanges DEF IInv
  <2>2. /\ pc' = [pc EXCEPT ![p] = "writing"] /\ opened' = opened /\ path' = path
    BY <1>7 DEF BeginWrite, Goto
  <2>3. f \in DOMAIN files /\ files'[f] = Recovered(f)
    BY <2>1, RewritesOne DEF IInv, Rewrites
  <2>4. pc'[p] = "writing" /\ \A q \in Initialisers \ {p} : pc'[q] = pc[q]
    BY <2>2 DEF IInv, Typed
  <2>5. Kept(p)
    BY <2>1, <2>2, <2>3, <2>4
  <2>6. Alone(p)
    BY <2>1, <2>2, <2>4
  <2>7. \A q \in Initialisers \ {p} :
          /\ NotOwn(q, files[f]) => NotOwn(q, Recovered(f))
          /\ Usable(q, files[f]) => Usable(q, Recovered(f))
    BY <2>3, OthersWork
  <2> HIDE DEF Kept, Alone, f
  <2> QED
    BY <1>4, <2>1, <2>2, <2>5, <2>6, <2>7
<1>8. ASSUME NEW p \in Initialisers, CannotWrite(p) PROVE Exclusive'
  <2>1. pc' = [pc EXCEPT ![p] = "over"] /\ opened' = opened /\ path' = path
    BY <1>8 DEF CannotWrite, Goto
  <2>2. pc'[p] = "over"
    BY <2>1 DEF IInv, Typed
  <2>3. Kept(p) /\ Alone(p)
    BY <2>2
  <2>4. CASE UNCHANGED files
    <3>1. \A q \in Initialisers \ {p} : pc[q] = "connect" /\ path' # 0 => NotOwn(q, files'[path'])
      BY <2>1, <2>4 DEF IInv, Exclusive
    <3> HIDE DEF Kept, Alone
    <3> QED
      BY <1>3, <2>1, <2>3, <2>4, <3>1
  <2>5. CASE ~UNCHANGED files
    <3>1. /\ Rewrites(path, Recovered(path))
          /\ \A q \in Initialisers : pc[q] = "writing" => opened[q] # path
      BY <1>8, <2>5, CannotWriteChanges DEF IInv
    <3>2. \A q \in Initialisers \ {p} :
            /\ NotOwn(q, files[path]) => NotOwn(q, Recovered(path))
            /\ Usable(q, files[path]) => Usable(q, Recovered(path))
      BY <3>1, OthersWork DEF Rewrites
    <3> HIDE DEF Kept, Alone
    <3> QED
      BY <1>4, <2>1, <2>3, <3>1, <3>2
  <2> QED
    BY <2>4, <2>5
<1>9. ASSUME NEW p \in Initialisers, Commit(p) PROVE Exclusive'
  <2> DEFINE f == opened[p]
             stage == StageAfter(files[f].stage)
             new == [stage |-> stage, by |-> p]
  <2>1. /\ Rewrites(f, new) /\ stage \in Begun \cup {"vacuumed"}
        /\ \A q \in Initialisers : pc[q] = "writing" /\ opened[q] = f => q = p
    BY <1>9, CommitChanges DEF IInv
  <2>2. PICK to \in {"ready", "over"} : /\ pc' = [pc EXCEPT ![p] = to]
                                        /\ to = "ready" => stage # "vacuumed"
    BY <1>9 DEF Commit, Goto
  <2>3. opened' = opened /\ path' = path
    BY <1>9 DEF Commit
  <2> HIDE DEF stage
  <2>4. f \in DOMAIN files /\ files'[f] = new
    BY <2>1, RewritesOne DEF IInv, Rewrites
  <2>5. pc'[p] = to
    BY <2>2 DEF IInv, Typed
  <2>6. to = "ready" => Usable(p, new)
    BY <2>1, <2>2 DEF Usable, OwnIsBegun, Begun
  <2>7. \A q \in Initialisers \ {p} : NotOwn(q, new) /\ Usable(q, new)
    BY <2>1, <2>4, OthersWork
  <2> HIDE DEF new
  <2>8. Kept(p) /\ Alone(p)
    BY <2>3, <2>4, <2>5, <2>6
  <2> HIDE DEF Kept, Alone, f
  <2> QED
    BY <1>4, <2>1, <2>2, <2>3, <2>7, <2>8
<1>10. ASSUME NEW p \in Initialisers, Crash(p) PROVE Exclusive'
  <2> DEFINE f == opened[p]
             new == [stage |-> "torn", by |-> p, before |-> files[f]]
  <2>1. pc' = [pc EXCEPT ![p] = "over"] /\ opened' = opened /\ path' = path
    BY <1>10 DEF Crash, Goto
  <2>2. pc'[p] = "over"
    BY <2>1 DEF IInv, Typed
  <2>3. Kept(p) /\ Alone(p)
    BY <2>2
  <2>4. CASE UNCHANGED files
    <3>1. \A q \in Initialisers \ {p} : pc[q] = "connect" /\ path' # 0 => NotOwn(q, files'[path'])
      BY <2>1, <2>4 DEF IInv, Exclusive
    <3> HIDE DEF Kept, Alone
    <3> QED
      BY <1>3, <2>1, <2>3, <2>4, <3>1
  <2>5. CASE ~UNCHANGED files
    <3>1. /\ Rewrites(f, new) /\ Writes(p, files[f])
          /\ \A q \in Initialisers : pc[q] = "writing" /\ opened[q] = f => q = p
      BY <1>10, <2>5, CrashChanges DEF IInv
    <3>2. \A q \in Initialisers \ {p} :
            /\ NotOwn(q, files[f]) => NotOwn(q, new)
            /\ Usable(q, files[f]) => Usable(q, new)
      BY <3>1, OthersWork DEF Rewrites
    <3> HIDE DEF Kept, Alone, new, f
    <3> QED
      BY <1>4, <2>1, <2>3, <3>1, <3>2
  <2> QED
    BY <2>4, <2>5
<1>11. ASSUME UNCHANGED <<path, files, pc, opened>> PROVE Exclusive'
  BY <1>11 DEF IInv, Exclusive
<1>12. ASSUME NEW r \in Readers, Execute(r) PROVE Exclusive'
  BY <1>11, <1>12 DEF Execute, CheckFile, ConnectReader, Prepare, Fetch
<1>13. CASE UNCHANGED vars
  BY <1>11, <1>13 DEF vars
<1> QED
  BY <1>5, <1>6, <1>7, <1>8, <1>9, <1>10, <1>12, <1>13 DEF Next, Initialise

LEMMA FileInvariant == Spec => []IInv
<1>1. IInv /\ [Next]_vars => IInv'
  BY TypedStep, ExclusiveStep DEF IInv
<1> QED
  BY <1>1, InitIInv, PTL DEF Spec

(* The types; an initialiser that is about to write has a file.            *)
THEOREM FileTypes == Spec => []TypeOK
<1>1. IInv => TypeOK
  <2> SUFFICES ASSUME IInv PROVE TypeOK
    OBVIOUS
  <2>1. ASSUME NEW f \in DOMAIN files
        PROVE  /\ files[f].stage \in {"empty", "employees", "tables", "rows", "vacuumed", "torn"}
               /\ files[f].by \in Initialisers \cup {Nobody}
    <3>1. files[f] \in Content
      BY ElementOfSeq DEF IInv, Typed
    <3> QED
      BY <3>1 DEF Content, Partial, Finished, Torn, Begun, Owners
  <2> QED
    BY <2>1 DEF IInv, Typed, TypeOK, Owners
<1> QED
  BY <1>1, FileInvariant, PTL

-----------------------------------------------------------------------------
(* What a step does to the files that are there.                           *)

\* A step leaves a file, or rolls a torn one back, or is of the process that
\* writes it.
Kept(f) == files'[f] = files[f]

RolledBack(f) == files[f].stage = "torn"

WrittenByOwner(f) ==
  /\ files[f].stage \in {"empty"} \cup Begun
  /\ files[f].stage # "empty" => files'[f].by = files[f].by

LEMMA FileStep ==
  ASSUME IInv, [Next]_vars, NEW f \in DOMAIN files
  PROVE  Kept(f) \/ RolledBack(f) \/ WrittenByOwner(f)
<1>1. ASSUME NEW g, NEW content, Rewrites(g, content)
      PROVE  IF f = g THEN files'[f] = content ELSE files'[f] = files[f]
  BY <1>1, RewritesOne DEF IInv
<1>2. ASSUME NEW g, Rewrites(g, Recovered(g)) PROVE Kept(f) \/ RolledBack(f)
  <2>1. CASE f = g
    <3>1. files[f].stage # "torn" => Recovered(f) = files[f]
      BY RecoveredContent DEF IInv
    <3> QED
      BY <1>1, <1>2, <2>1, <3>1 DEF Kept, RolledBack
  <2>2. CASE f # g
    BY <1>1, <1>2, <2>2 DEF Kept
  <2> QED
    BY <2>1, <2>2
<1>3. ASSUME NEW p \in Initialisers, NEW g, NEW content, Rewrites(g, content), content.by = p,
             Writes(p, files[g])
      PROVE  Kept(f) \/ WrittenByOwner(f)
  <2>1. CASE f = g
    BY <1>1, <1>3, <2>1 DEF WrittenByOwner, Writes, Partial
  <2>2. CASE f # g
    BY <1>1, <1>3, <2>2 DEF Kept
  <2> QED
    BY <2>1, <2>2
<1>4. ASSUME UNCHANGED files PROVE Kept(f)
  BY <1>4 DEF Kept
<1>5. ASSUME NEW p \in Initialisers, Start(p) \/ Unlink(p) PROVE Kept(f)
  BY <1>4, <1>5 DEF Start, Unlink
<1>6. ASSUME NEW p \in Initialisers, Connect(p) PROVE Kept(f)
  <2>1. UNCHANGED files \/ files' = Append(files, [stage |-> "empty", by |-> Nobody])
    BY <1>6 DEF Connect
  <2>2. [stage |-> "empty", by |-> Nobody] \in Content
    BY DEF Content, Partial, Owners
  <2> QED
    BY <1>4, <2>1, <2>2, AppendsOne DEF IInv, Kept
<1>7. ASSUME NEW p \in Initialisers, BeginWrite(p) PROVE Kept(f) \/ RolledBack(f)
  <2>1. Rewrites(opened[p], Recovered(opened[p]))
    BY <1>7, BeginWriteChanges DEF IInv
  <2> QED
    BY <1>2, <2>1
<1>8. ASSUME NEW p \in Initialisers, CannotWrite(p) PROVE Kept(f) \/ RolledBack(f)
  <2>1. UNCHANGED files \/ Rewrites(path, Recovered(path))
    BY <1>8, CannotWriteChanges DEF IInv
  <2> QED
    BY <1>2, <1>4, <2>1
<1>9. ASSUME NEW p \in Initialisers, Commit(p) PROVE Kept(f) \/ WrittenByOwner(f)
  <2> DEFINE new == [stage |-> StageAfter(files[opened[p]].stage), by |-> p]
  <2>1. Rewrites(opened[p], new) /\ Writes(p, files[opened[p]])
    BY <1>9, CommitChanges DEF IInv
  <2>2. new.by = p
    OBVIOUS
  <2> HIDE DEF new
  <2> QED
    BY <1>3, <2>1, <2>2
<1>10. ASSUME NEW p \in Initialisers, Crash(p) PROVE Kept(f) \/ WrittenByOwner(f)
  <2> DEFINE new == [stage |-> "torn", by |-> p, before |-> files[opened[p]]]
  <2>1. UNCHANGED files \/ (Rewrites(opened[p], new) /\ Writes(p, files[opened[p]]))
    BY <1>10, CrashChanges DEF IInv
  <2>2. new.by = p
    OBVIOUS
  <2> HIDE DEF new
  <2> QED
    BY <1>3, <1>4, <2>1, <2>2
<1>11. ASSUME NEW r \in Readers, Execute(r) PROVE Kept(f)
  BY <1>4, <1>11 DEF Execute, CheckFile, ConnectReader, Prepare, Fetch
<1>12. CASE UNCHANGED vars
  BY <1>4, <1>12 DEF vars
<1> QED
  BY <1>5, <1>6, <1>7, <1>8, <1>9, <1>10, <1>11, <1>12 DEF Next, Initialise

(* A finished dataset is never written again, whoever initialises, crashes *)
(* or recovers: reading it without locks is sound.                         *)
THEOREM FinishedIsFinal == Spec => FinishedFilesNeverChange
<1> DEFINE Final == \A f \in DOMAIN files : files[f].stage = "vacuumed" => files'[f] = files[f]
<1>1. IInv /\ [Next]_vars => [Final]_vars
  <2> SUFFICES ASSUME IInv, [Next]_vars, NEW f \in DOMAIN files, files[f].stage = "vacuumed"
               PROVE  files'[f] = files[f]
    OBVIOUS
  <2> QED
    BY FileStep DEF Kept, RolledBack, WrittenByOwner, Begun
<1> QED
  BY <1>1, FileInvariant, PTL DEF Spec, FinishedFilesNeverChange

(* The rows of a file stay with the initialiser that wrote them, however   *)
(* many are started: nobody writes rows into the file of another.          *)
THEOREM RowsOfOneWriter == Spec => OneWriterPerFile
<1> DEFINE Same == \A f \in DOMAIN files : HasRows(files[f]) => files'[f].by = files[f].by
<1>1. IInv /\ [Next]_vars => [Same]_vars
  <2> SUFFICES ASSUME IInv, [Next]_vars, NEW f \in DOMAIN files, HasRows(files[f])
               PROVE  files'[f].by = files[f].by
    OBVIOUS
  <2> QED
    BY FileStep DEF Kept, RolledBack, WrittenByOwner, HasRows
<1> QED
  BY <1>1, FileInvariant, PTL DEF Spec, OneWriterPerFile

-----------------------------------------------------------------------------
(* Readers.                                                                *)

\* A reader that saw a finished file reads a finished file that nobody writes.
ReadsFinished ==
  \A r \in Readers :
    /\ reading[r].at \in {"idle", "connect", "prepare"} => reading[r].seen = "none"
    /\ reading[r].at = "fetch" /\ reading[r].seen = "vacuumed" =>
         files[reading[r].file].stage = "vacuumed" /\ reading[r].quiet

LEMMA FinishedIsQuiet ==
  ASSUME IInv, NEW f \in DOMAIN files, files[f].stage = "vacuumed"
  PROVE  Quiet(f)
  BY DEF IInv, Exclusive, Writes, Partial, Begun, Quiet

LEMMA ReaderStep ==
  ASSUME IInv, ReadsFinished, FinishedFilesAnswerWhole, [Next]_vars
  PROVE  ReadsFinished' /\ FinishedFilesAnswerWhole'
<1>1. ASSUME UNCHANGED reading PROVE ReadsFinished' /\ FinishedFilesAnswerWhole'
  <2>1. ASSUME NEW r \in Readers, reading[r].at = "fetch", reading[r].seen = "vacuumed"
        PROVE  files'[reading[r].file].stage = "vacuumed"
    <3>1. reading[r].file \in DOMAIN files /\ files[reading[r].file].stage = "vacuumed"
      BY <2>1 DEF IInv, Typed, ReadsFinished
    <3> QED
      BY <3>1, FileStep DEF Kept, RolledBack, WrittenByOwner, Begun
  <2> QED
    BY <1>1, <2>1 DEF ReadsFinished, FinishedFilesAnswerWhole
<1>2. ASSUME NEW r \in Readers, Execute(r) PROVE ReadsFinished' /\ FinishedFilesAnswerWhole'
  <2>1. UNCHANGED files /\ \A q \in Readers \ {r} : reading'[q] = reading[q]
    BY <1>2 DEF Execute, CheckFile, ConnectReader, Prepare, Fetch, IInv, Typed
  <2>2. reading[r] \in Readings
    BY DEF IInv, Typed
  <2>3. ASSUME /\ reading'[r].at \in {"idle", "connect", "prepare"} => reading'[r].seen = "none"
               /\ reading'[r].at = "fetch" /\ reading'[r].seen = "vacuumed" =>
                    files[reading'[r].file].stage = "vacuumed" /\ reading'[r].quiet
               /\ reading'[r].at = "over" /\ reading'[r].seen = "vacuumed" =>
                    reading'[r].answer = "all"
        PROVE  ReadsFinished' /\ FinishedFilesAnswerWhole'
    BY <2>1, <2>3 DEF ReadsFinished, FinishedFilesAnswerWhole
  <2>4. CASE CheckFile(r)
    <3>1. \/ reading'[r] = [Idle EXCEPT !.at = "connect"]
          \/ reading'[r] = [Idle EXCEPT !.at = "over", !.answer = "refused"]
      BY <2>4 DEF CheckFile, IInv, Typed
    <3> QED
      BY <2>3, <3>1 DEF Idle
  <2>5. CASE ConnectReader(r)
    <3>1. reading[r].seen = "none"
      BY <2>5 DEF ConnectReader, ReadsFinished
    <3>2. \/ reading'[r] = [reading[r] EXCEPT !.at = "prepare", !.file = path]
          \/ reading'[r] = [reading[r] EXCEPT !.at = "over", !.answer = "raised"]
      BY <2>5 DEF ConnectReader, IInv, Typed
    <3>3. reading'[r].seen = "none" /\ reading'[r].at \in {"prepare", "over"}
      BY <2>2, <3>1, <3>2 DEF Readings
    <3> QED
      BY <2>3, <3>3
  <2>6. CASE Prepare(r)
    <3> DEFINE f == reading[r].file
               B == [reading[r] EXCEPT !.at = "fetch", !.seen = files[f].stage, !.quiet = Quiet(f)]
    <3>1. f \in DOMAIN files
      BY <2>6 DEF Prepare, IInv, Typed
    <3>2. \/ reading'[r] = [Idle EXCEPT !.at = "over", !.answer = "refused"]
          \/ reading'[r] = B
      BY <2>6 DEF Prepare, IInv, Typed
    <3>3. CASE reading'[r] = [Idle EXCEPT !.at = "over", !.answer = "refused"]
      BY <2>3, <3>3 DEF Idle
    <3>4. CASE reading'[r] = B
      <4>1. Quiet(f) \in BOOLEAN
        BY DEF Quiet
      <4>2. /\ B.at = "fetch" /\ B.seen = files[f].stage /\ B.file = f /\ B.quiet = Quiet(f)
        BY <2>2 DEF Readings
      <4>3. files[f].stage = "vacuumed" => Quiet(f)
        BY <3>1, FinishedIsQuiet
      <4> HIDE DEF B
      <4> QED
        BY <2>3, <3>4, <4>2, <4>3
    <3> QED
      BY <3>2, <3>3, <3>4
  <2>7. CASE Fetch(r)
    <3> DEFINE f == reading[r].file
    <3>1. f \in DOMAIN files /\ reading[r].at = "fetch"
      BY <2>7 DEF Fetch, IInv, Typed
    <3>2. PICK answer \in {"all", "none", "partial", "refused"} :
            /\ reading[r].quiet /\ Quiet(f) /\ files[f].stage = reading[r].seen
                 /\ files[f].stage # "torn"
               => answer = (IF HasRows(files[f]) THEN "all" ELSE "none")
            /\ reading' = [reading EXCEPT ![r] =
                 [Idle EXCEPT !.at = "over", !.seen = reading[r].seen, !.answer = answer]]
      BY <2>7 DEF Fetch, FileOf
    <3>3. reading'[r] = [Idle EXCEPT !.at = "over", !.seen = reading[r].seen, !.answer = answer]
      BY <3>2 DEF IInv, Typed
    <3>4. /\ reading'[r].at = "over" /\ reading'[r].seen = reading[r].seen
          /\ reading'[r].answer = answer
      BY <3>3 DEF Idle
    <3>5. ASSUME reading[r].seen = "vacuumed" PROVE answer = "all"
      <4>1. files[f].stage = "vacuumed" /\ reading[r].quiet
        BY <3>1, <3>5 DEF ReadsFinished
      <4>2. Quiet(f) /\ HasRows(files[f])
        BY <3>1, <4>1, FinishedIsQuiet DEF HasRows
      <4> QED
        BY <3>2, <3>5, <4>1, <4>2
    <3> QED
      BY <2>3, <3>4, <3>5
  <2> QED
    BY <1>2, <2>4, <2>5, <2>6, <2>7 DEF Execute
<1>3. ASSUME NEW p \in Initialisers, Initialise(p) PROVE UNCHANGED reading
  BY <1>3 DEF Initialise, Start, Unlink, Connect, BeginWrite, CannotWrite, Commit, Crash
<1>4. CASE UNCHANGED vars
  BY <1>1, <1>4 DEF vars
<1> QED
  BY <1>1, <1>2, <1>3, <1>4 DEF Next

(* A query that opened a finished dataset is answered from all its rows,   *)
(* whatever init-demo does to the name meanwhile.                          *)
THEOREM FinishedAnswersWhole == Spec => []FinishedFilesAnswerWhole
<1>1. Init => ReadsFinished /\ FinishedFilesAnswerWhole
  BY DEF Init, Idle, ReadsFinished, FinishedFilesAnswerWhole
<1> QED
  BY <1>1, ReaderStep, FileInvariant, PTL DEF Spec

-----------------------------------------------------------------------------
(* Initialisers that race and do not crash.                                *)

\* p is about to write the file that has the name, or to write more of it.
Finishing(p) ==
  /\ pc[p] \in {"ready", "writing"} /\ opened[p] = path
  /\ files[path].stage = "empty" \/ files[path].by = p

\* Without a mishap, somebody is always about to give the name to a file or to
\* write the one that has it, until that one is finished.
OnTheWay ==
  /\ \A f \in DOMAIN files : files[f].stage # "torn"
  /\ path = 0 => runs = 0 \/ \E p \in Initialisers : pc[p] \in {"unlink", "connect"}
  /\ path # 0 => files[path].stage = "vacuumed" \/ \E p \in Initialisers : Finishing(p)

LEMMA OnTheWayStep ==
  ASSUME IInv, OnTheWay, [Next]_vars, mishaps' = {}
  PROVE  OnTheWay'
<1>1. path # 0 => path \in DOMAIN files
  BY LenProperties DEF IInv, Typed
<1>2. \A f \in DOMAIN files : Recovered(f) = files[f]
  BY RecoveredContent DEF IInv, OnTheWay
\* p moves, and no file that is there changes.
<1>3. ASSUME NEW p \in Initialisers, NEW to, Goto(p, to), path' = path, path # 0,
             DOMAIN files' = DOMAIN files, \A f \in DOMAIN files : files'[f] = files[f],
             opened'[p] = opened[p] \/ ~Finishing(p),
             \A q \in Initialisers \ {p} : opened'[q] = opened[q],
             Finishing(p) => to \in {"ready", "writing"}
      PROVE  OnTheWay'
  <2>1. \A f \in DOMAIN files' : files'[f].stage # "torn"
    BY <1>3 DEF OnTheWay
  <2>2. ASSUME NEW q \in Initialisers, Finishing(q) PROVE Finishing(q)'
    <3>1. CASE q = p
      BY <1>1, <1>3, <2>2, <3>1 DEF Finishing, Goto, IInv, Typed
    <3>2. CASE q # p
      BY <1>1, <1>3, <2>2, <3>2 DEF Finishing, Goto, IInv, Typed
    <3> QED
      BY <3>1, <3>2
  <2>3. CASE files[path].stage = "vacuumed"
    BY <1>1, <1>3, <2>1, <2>3 DEF OnTheWay
  <2>4. CASE \E q \in Initialisers : Finishing(q)
    <3>1. \E q \in Initialisers : Finishing(q)'
      BY <2>2, <2>4
    <3> QED
      BY <1>3, <2>1, <3>1 DEF OnTheWay
  <2> QED
    BY <1>3, <2>3, <2>4 DEF OnTheWay
\* p gives the name to nothing, or is about to do so.
<1>4. ASSUME NEW p \in Initialisers, NEW to \in {"unlink", "connect"}, Goto(p, to),
             path' = 0, UNCHANGED files
      PROVE  OnTheWay'
  <2>1. pc'[p] \in {"unlink", "connect"}
    BY <1>4 DEF Goto, IInv, Typed
  <2> QED
    BY <1>4, <2>1 DEF OnTheWay
<1>5. ASSUME NEW p \in Initialisers, Start(p) PROVE OnTheWay'
  <2>1. /\ Goto(p, "unlink") /\ UNCHANGED <<path, files, opened>>
        /\ pc[p] \in {"idle", "over"}
    BY <1>5 DEF Start
  <2>2. ~Finishing(p)
    BY <2>1 DEF Finishing
  <2> QED
    BY <1>3, <1>4, <2>1, <2>2
<1>6. ASSUME NEW p \in Initialisers, Unlink(p) PROVE OnTheWay'
  BY <1>4, <1>6 DEF Unlink
<1>7. ASSUME NEW p \in Initialisers, Connect(p) PROVE OnTheWay'
  <2> DEFINE new == [stage |-> "empty", by |-> Nobody]
  <2>1. /\ pc[p] = "connect" /\ Goto(p, "ready") /\ opened' = [opened EXCEPT ![p] = path']
    BY <1>7 DEF Connect
  <2>2. CASE path = 0
    <3>1. files' = Append(files, new) /\ path' = Len(files) + 1
      BY <1>7, <2>2 DEF Connect
    <3>2. new \in Content
      BY DEF Content, Partial, Owners
    <3>3. /\ Len(files) \in Nat /\ DOMAIN files = 1..Len(files)
          /\ DOMAIN files' = 1..(Len(files) + 1) /\ files'[path'] = new
          /\ \A g \in DOMAIN files : files'[g] = files[g]
      BY <3>1, <3>2, AppendsOne DEF IInv
    <3>4. new.stage = "empty"
      OBVIOUS
    <3> HIDE DEF new
    <3>5. \A f \in DOMAIN files' : files'[f].stage # "torn"
      BY <3>1, <3>3, <3>4 DEF OnTheWay
    <3>6. pc'[p] = "ready" /\ opened'[p] = path'
      BY <2>1 DEF Goto, IInv, Typed
    <3>7. Finishing(p)'
      BY <3>3, <3>4, <3>6 DEF Finishing
    <3>8. path' # 0
      BY <3>1, <3>3
    <3> QED
      BY <3>5, <3>7, <3>8 DEF OnTheWay
  <2>3. CASE path # 0
    <3>1. UNCHANGED <<path, files>>
      BY <1>7, <2>3 DEF Connect
    <3>2. ~Finishing(p) /\ \A q \in Initialisers \ {p} : opened'[q] = opened[q]
      BY <2>1 DEF Finishing, IInv, Typed
    <3> QED
      BY <1>3, <2>1, <2>3, <3>1, <3>2
  <2> QED
    BY <2>2, <2>3
<1>8. ASSUME NEW p \in Initialisers, BeginWrite(p) PROVE OnTheWay'
  <2>1. Rewrites(opened[p], files[opened[p]]) /\ path = opened[p]
    BY <1>2, <1>8, BeginWriteChanges DEF IInv, Rewrites
  <2>2. DOMAIN files' = DOMAIN files /\ \A f \in DOMAIN files : files'[f] = files[f]
    BY <2>1, RewritesOne DEF IInv
  <2>3. path # 0
    BY <2>1, LenProperties DEF IInv, Typed, Rewrites
  <2> QED
    BY <1>3, <1>8, <2>2, <2>3 DEF BeginWrite
<1>9. ASSUME NEW p \in Initialisers, CannotWrite(p) PROVE OnTheWay'
  <2>1. /\ pc[p] = "ready" /\ Goto(p, "over") /\ UNCHANGED <<path, opened, runs>>
        /\ path # opened[p] \/ TableExists(p)
    BY <1>9 DEF CannotWrite
  <2>2. DOMAIN files' = DOMAIN files /\ \A f \in DOMAIN files : files'[f] = files[f]
    <3>1. CASE UNCHANGED files
      BY <3>1
    <3>2. CASE ~UNCHANGED files
      <4>1. Rewrites(path, files[path])
        BY <1>2, <1>9, <3>2, CannotWriteChanges DEF IInv, Rewrites
      <4> QED
        BY <4>1, RewritesOne DEF IInv
    <3> QED
      BY <3>1, <3>2
  <2>3. ~Finishing(p)
    <3> SUFFICES ASSUME path = opened[p], TableExists(p)
                 PROVE  files[path].stage # "empty" /\ files[path].by # p
      BY <2>1 DEF Finishing
    <3>1. Recovered(path) = files[path]
      BY <1>2, <2>1 DEF IInv, Typed
    <3> QED
      BY <3>1 DEF TableExists
  <2>4. CASE path # 0
    BY <1>3, <2>1, <2>2, <2>3, <2>4
  <2>5. CASE path = 0
    <3>1. \/ runs' = 0
          \/ \E q \in Initialisers : pc'[q] \in {"unlink", "connect"}
      BY <2>1, <2>5 DEF OnTheWay, Goto, IInv, Typed
    <3> QED
      BY <2>1, <2>2, <2>5, <3>1 DEF OnTheWay
  <2> QED
    BY <2>4, <2>5
<1>10. ASSUME NEW p \in Initialisers, Commit(p) PROVE OnTheWay'
  <2> DEFINE f == opened[p]
             stage == StageAfter(files[f].stage)
             new == [stage |-> stage, by |-> p]
  <2>1. Rewrites(f, new) /\ stage \in Begun \cup {"vacuumed"}
    BY <1>10, CommitChanges DEF IInv
  <2>2. /\ pc[p] = "writing" /\ UNCHANGED <<path, opened, runs>>
        /\ journal # Nobody
        /\ Goto(p, IF stage = "vacuumed" THEN "over" ELSE "ready")
    BY <1>10 DEF Commit
  <2>3. /\ DOMAIN files' = DOMAIN files /\ files'[f] = new /\ f \in DOMAIN files
        /\ \A g \in DOMAIN files : g # f => files'[g] = files[g]
    BY <2>1, RewritesOne DEF IInv, Rewrites
  <2>4. new.stage = stage /\ new.by = p
    OBVIOUS
  <2> HIDE DEF new, stage
  <2>5. \A g \in DOMAIN files' : files'[g].stage # "torn"
    BY <2>1, <2>3, <2>4 DEF OnTheWay, Begun
  <2>6. CASE path = 0
    <3>1. \/ runs' = 0
          \/ \E q \in Initialisers : pc'[q] \in {"unlink", "connect"}
      BY <2>2, <2>6 DEF OnTheWay, Goto, IInv, Typed
    <3> QED
      BY <2>2, <2>5, <2>6, <3>1 DEF OnTheWay
  <2>7. CASE path = f
    <3>1. stage # "vacuumed" => pc'[p] = "ready"
      BY <2>2 DEF Goto, IInv, Typed
    <3>2. stage # "vacuumed" => Finishing(p)'
      BY <2>2, <2>3, <2>4, <2>7, <3>1 DEF Finishing
    <3>3. f # 0
      BY <2>3, LenProperties DEF IInv, Typed
    <3> QED
      BY <2>2, <2>3, <2>4, <2>5, <2>7, <3>2, <3>3 DEF OnTheWay
  <2>8. CASE path # 0 /\ path # f
    <3>1. files'[path] = files[path]
      BY <1>1, <2>3, <2>8
    <3>2. ASSUME NEW q \in Initialisers, Finishing(q) PROVE Finishing(q)'
      <4>1. q # p
        BY <2>8, <3>2 DEF Finishing
      <4> QED
        BY <2>2, <3>1, <3>2, <4>1 DEF Finishing, Goto, IInv, Typed
    <3>3. files'[path'].stage = "vacuumed" \/ \E q \in Initialisers : Finishing(q)'
      BY <2>2, <2>8, <3>1, <3>2 DEF OnTheWay
    <3> QED
      BY <2>2, <2>5, <2>8, <3>3 DEF OnTheWay
  <2> QED
    BY <2>6, <2>7, <2>8
<1>11. ASSUME NEW p \in Initialisers, Crash(p) PROVE FALSE
  BY <1>11 DEF Crash
<1>12. ASSUME UNCHANGED <<path, files, pc, opened, runs>> PROVE OnTheWay'
  BY <1>12 DEF OnTheWay, Finishing
<1>13. ASSUME NEW r \in Readers, Execute(r) PROVE OnTheWay'
  BY <1>12, <1>13 DEF Execute, CheckFile, ConnectReader, Prepare, Fetch
<1>14. CASE UNCHANGED vars
  BY <1>12, <1>14 DEF vars
<1> QED
  BY <1>5, <1>6, <1>7, <1>8, <1>9, <1>10, <1>11, <1>13, <1>14 DEF Next, Initialise

(* A mishap is never forgotten.                                            *)
LEMMA MishapsStay ==
  ASSUME [Next]_vars, mishaps' = {}
  PROVE  mishaps = {}
  BY DEF Next, Initialise, Start, Unlink, Connect, BeginWrite, CannotWrite, Commit, Crash,
     Execute, CheckFile, ConnectReader, Prepare, Fetch, vars

(* When the initialisers are through, in whichever order they raced, the   *)
(* dataset is finished, unless one crashed or lost its journal.            *)
THEOREM RacesEndFinished == Spec => []FinishedWhenQuiet
<1> DEFINE WInv == mishaps = {} => OnTheWay
<1>1. Init => WInv
  BY DEF Init, OnTheWay
<1>2. IInv /\ WInv /\ [Next]_vars => WInv'
  BY OnTheWayStep, MishapsStay
<1>3. WInv => FinishedWhenQuiet
  BY DEF FinishedWhenQuiet, OnTheWay, Finishing, Running
<1> QED
  BY <1>1, <1>2, <1>3, FileInvariant, PTL DEF Spec

=============================================================================
