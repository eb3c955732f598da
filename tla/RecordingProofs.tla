-------------------------- MODULE RecordingProofs --------------------------
(***************************************************************************)
(* Proofs about Recording, for every number of audits and categories, every*)
(* older database and every combination of faults.                         *)
(***************************************************************************)
EXTENDS Recording, FiniteSetTheorems, TLAPS

Documents == Report!Documents
Paths == Report!Paths

-----------------------------------------------------------------------------
(* The parts of the inductive invariant.                                   *)

Started(r) == path[r] # NoPath

\* What is where in the reports directory.
Files ==
    /\ \A r \in Runs :
          /\ at[r] = "start" <=> ~Started(r)
          /\ at[r] = "start" => size[r] = 0
          /\ at[r] = "writing" => size[r] >= 1
          /\ at[r] \in {"final", "written", "finished"} => size[r] = Categories
          /\ temp[r] \in {Absent, Torn, [run |-> r, size |-> size[r]]}
          /\ temp[r] # Absent => at[r] \in {"writing", "final", "crashed"}
          /\ at[r] \in {"auditing", "final", "written", "finished"} /\ size[r] >= 1 => disk[path[r]] \in Documents
    /\ \A p \in Paths :
          /\ disk[p] \in Documents \cup {Absent} /\ (disk[p] # Absent => \E r \in Runs : path[r] = p)
          /\ pdf[p] \in Documents \cup {Absent} /\ (pdf[p] # Absent => \E r \in Runs : path[r] = p)

ReportInv == Report!TypeOK /\ Files /\ Report!ReportsAreKept

\* What the database has of a run, by where its writer is.
Stored ==
    /\ stored \in [Runs -> SUBSET Nat] /\ batch \in [Runs -> Nat]
    /\ \A r \in Runs :
        /\ batch[r] <= Yielding(r, Categories)
        /\ step[r] = "alter_findings" => batch[r] < Yielding(r, Categories)
        /\ \/ stored[r] = 1..batch[r]
           \/ /\ step[r] \in {"commit_findings", "crashed"}
              /\ batch[r] >= 1 /\ stored[r] = 1..(batch[r] - 1)
        /\ step[r] = "commit_findings" => batch[r] >= 1 /\ stored[r] = 1..(batch[r] - 1)
        /\ step[r] \in {"idle", "schema", "alter_runs", "commit_run"} => rows[r] = "none" /\ batch[r] = 0
        /\ step[r] \in {"ready", "alter_findings", "commit_findings", "commit_status"} => rows[r] = "running"
        /\ batch[r] > 0 => rows[r] # "none"
        /\ step[r] = "done" <=> rows[r] = "completed"
        /\ step[r] \in {"commit_status", "done"} => batch[r] = Yielding(r, Categories) /\ stored[r] = 1..batch[r]

\* Whose writer is at work finds the tables, and adds to each its own columns.
Migrating ==
    \A r \in Runs :
        /\ step[r] \notin {"idle", "raised", "crashed"} => runCols \subseteq RunColumns /\ findCols \subseteq FindingColumns
        /\ step[r] = "alter_runs" => missing[r] \subseteq RunColumns
        /\ step[r] = "alter_findings" => missing[r] \subseteq FindingColumns

HistoryInv == History!TypeOK /\ Migrating /\ Stored

\* How far the two records of a run are apart, by where the audit is.
AbreastOf(r) ==
    /\ at[r] = "start" => step[r] = "idle"
    /\ at[r] = "writing" => batch[r] = Yielding(r, size[r] - 1) /\ step[r] \in {"idle", "ready"}
    /\ at[r] = "auditing" => batch[r] <= Yielding(r, size[r]) /\ Yielding(r, size[r]) <= batch[r] + 1
    /\ at[r] = "auditing" /\ step[r] = "alter_findings" => batch[r] < Yielding(r, size[r])
    /\ at[r] = "auditing" /\ step[r] = "commit_findings" => batch[r] = Yielding(r, size[r])
    /\ at[r] \in {"final", "written", "finished"} => step[r] = "done"
    /\ step[r] \in {"commit_status", "done"} => size[r] = Categories

Abreast == \A r \in Runs : AbreastOf(r)

IInv == ReportInv /\ HistoryInv /\ Abreast /\ RecordsAgree

-----------------------------------------------------------------------------
(* Every step of Recording is one of the report's, of the database's, or   *)
(* leaves that record alone.                                               *)

\* A step is one of the report's, or leaves the directory alone.
LEMMA ReportStep ==
    ASSUME Next
    PROVE  [Report!Next]_reportVars
<1>1. CASE Tick
  BY <1>1 DEF Tick, Report!Next
<1>2. ASSUME NEW r \in Runs, Proceed(r)
      PROVE  Report!RunStep(r) \/ UNCHANGED reportVars
  BY <1>2 DEF Proceed, ChoosePath, CategoryReady, WriteReport, StoreFindings, AuditCompleted, ConvertToPdf,
              Call, Report!RunStep
<1>3. ASSUME NEW r \in Runs, WriteRaises(r) \/ AuditRaises(r) \/ Killed(r) \/ DatabaseBusy(r)
      PROVE  Report!RunStep(r) \/ UNCHANGED reportVars
  BY <1>3 DEF WriteRaises, AuditRaises, Killed, DatabaseBusy, Call, Report!RunStep
<1>4. CASE Report!AllOver /\ UNCHANGED vars
  BY <1>4 DEF vars
<1>. QED
  BY <1>1, <1>2, <1>3, <1>4 DEF Next, Report!Next

\* A step is one of the database's, or leaves it alone.
LEMMA HistoryStep ==
    ASSUME Next
    PROVE  [History!Next]_historyVars
<1>1. CASE Tick
  BY <1>1 DEF Tick
<1>2. ASSUME NEW r \in Runs, Proceed(r)
      PROVE  History!Own(r) \/ UNCHANGED historyVars
  BY <1>2 DEF Proceed, ChoosePath, CategoryReady, WriteReport, StoreFindings, AuditCompleted, ConvertToPdf,
              Call, History!Own
<1>3. ASSUME NEW r \in Runs, WriteRaises(r) \/ AuditRaises(r) \/ Killed(r) \/ DatabaseBusy(r)
      PROVE  History!Crash(r) \/ History!Busy(r) \/ UNCHANGED historyVars
  BY <1>3 DEF WriteRaises, AuditRaises, Killed, DatabaseBusy, Call, Abandon
<1>4. CASE Report!AllOver /\ UNCHANGED vars
  BY <1>4 DEF vars
<1>. QED
  BY <1>1, <1>2, <1>3, <1>4 DEF Next, History!Next

\* Recording is a ReportFile and an Analytics at once: composed, each behaves as
\* it may behave alone.
THEOREM IsBothRecords == Spec => Report!Spec /\ History!Spec
<1>1. Init => Report!Init /\ History!Init
  BY DEF Init
<1>2. [Next]_vars => [Report!Next]_reportVars
  BY ReportStep DEF vars
<1>3. [Next]_vars => [History!Next]_historyVars
  BY HistoryStep DEF vars
<1>. QED
  BY <1>1, <1>2, <1>3, PTL DEF Spec, Report!Spec, History!Spec, reportVars, historyVars, Report!vars, History!vars

-----------------------------------------------------------------------------
(* The reports directory.                                                  *)

USE DEF Documents, Paths

\* Before any audit begins the directory is empty.
LEMMA InitReportInv == Init => ReportInv
<1>. SUFFICES ASSUME Init PROVE ReportInv
  OBVIOUS
<1>. USE RecordingAssumption DEF Init, Report!Init
<1>1. Report!TypeOK
  BY DEF Report!TypeOK
<1>2. Files
  BY DEF Files, Started
<1>3. Report!ReportsAreKept
  BY <1>1 DEF Report!ReportsAreKept, Report!TypeOK
<1>. QED
  BY <1>1, <1>2, <1>3 DEF ReportInv

\* Documents are complete texts, and the only ones.
LEMMA DocumentsAreTold ==
    ASSUME NEW r \in Runs, NEW n \in 1..Categories
    PROVE  [run |-> r, size |-> n] \in Documents
BY DEF Report!Documents

\* The report's variables keep their types.
LEMMA ReportTypeStep ==
    ASSUME ReportInv, [Report!Next]_reportVars
    PROVE  Report!TypeOK'
<1>. USE RecordingAssumption DEF ReportInv, Report!TypeOK
<1>1. CASE Report!Tick
  BY <1>1 DEF Report!Tick
<1>2. ASSUME NEW r \in Runs, Report!ChoosePath(r)
      PROVE  Report!TypeOK'
  <2>1. PICK s \in Slugs : path' = [path EXCEPT ![r] = <<s, second>>]
    BY <1>2 DEF Report!ChoosePath
  <2>2. <<s, second>> \in Paths
    BY DEF Report!Paths
  <2>. QED
    BY <1>2, <2>1, <2>2 DEF Report!ChoosePath
<1>3. ASSUME NEW r \in Runs, Report!BeginWrite(r)
      PROVE  Report!TypeOK'
  BY <1>3 DEF Report!BeginWrite
<1>4. ASSUME NEW r \in Runs, Report!FinishText(r)
      PROVE  Report!TypeOK'
  <2>1. size[r] \in 1..Categories
    BY <1>4 DEF Report!FinishText, Report!Writing, Files
  <2>2. [run |-> r, size |-> size[r]] \in Documents
    BY <2>1, DocumentsAreTold
  <2>. QED
    BY <1>4, <2>2 DEF Report!FinishText
<1>5. ASSUME NEW r \in Runs, Report!ReplaceFile(r)
      PROVE  Report!TypeOK'
  BY <1>5 DEF Report!ReplaceFile
<1>6. ASSUME NEW r \in Runs, Report!WriteRaises(r) \/ Report!AuditRaises(r) \/ Report!Crash(r)
      PROVE  Report!TypeOK'
  BY <1>6 DEF Report!WriteRaises, Report!AuditRaises, Report!Crash
<1>7. ASSUME NEW r \in Runs, Report!ConvertToPdf(r)
      PROVE  Report!TypeOK'
  <2>1. path[r] \in Paths
    BY <1>7 DEF Report!ConvertToPdf, Files, Started
  <2>. QED
    BY <1>7, <2>1 DEF Report!ConvertToPdf
<1>8. CASE UNCHANGED reportVars
  BY <1>8 DEF reportVars
<1>. QED
  BY <1>1, <1>2, <1>3, <1>4, <1>5, <1>6, <1>7, <1>8 DEF Report!Next, Report!RunStep, Report!vars, reportVars

\* Where each audit is says what its files hold, after every step.
LEMMA FilesStep ==
    ASSUME ReportInv, [Report!Next]_reportVars
    PROVE  Files'
<1>. USE RecordingAssumption, FilesAssumption DEF ReportInv, Report!TypeOK, Files, Started
<1>1. CASE Report!Tick
  BY <1>1 DEF Report!Tick
<1>2. ASSUME NEW r \in Runs, Report!ChoosePath(r)
      PROVE  Files'
  <2>1. PICK s \in Slugs : path' = [path EXCEPT ![r] = <<s, second>>]
    BY <1>2 DEF Report!ChoosePath
  <2>2. <<s, second>> \in Paths
    BY DEF Report!Paths
  <2>3. \A q \in Runs : path[q] # NoPath => path'[q] = path[q]
    BY <1>2, <2>1 DEF Report!ChoosePath
  <2>4. \A p \in Paths : (\E q \in Runs : path[q] = p) => \E q \in Runs : path'[q] = p
    BY <2>3
  <2>. QED
    BY <1>2, <2>1, <2>2, <2>3, <2>4 DEF Report!ChoosePath
<1>3. ASSUME NEW r \in Runs, Report!BeginWrite(r)
      PROVE  Files'
  BY <1>3 DEF Report!BeginWrite
<1>4. ASSUME NEW r \in Runs, Report!FinishText(r)
      PROVE  Files'
  BY <1>4 DEF Report!FinishText, Report!Writing
<1>5. ASSUME NEW r \in Runs, Report!ReplaceFile(r)
      PROVE  Files'
  <2>1. size[r] \in 1..Categories /\ temp[r] = [run |-> r, size |-> size[r]]
    BY <1>5 DEF Report!ReplaceFile, Report!Writing
  <2>2. temp[r] \in Documents /\ path[r] \in Paths
    BY <1>5, <2>1, DocumentsAreTold DEF Report!ReplaceFile, Report!Writing
  <2>3. \A p \in Paths : disk'[p] = IF p = path[r] THEN temp[r] ELSE disk[p]
    BY <1>5 DEF Report!ReplaceFile
  <2>. QED
    BY <1>5, <2>1, <2>2, <2>3 DEF Report!ReplaceFile, Report!Writing
<1>6. ASSUME NEW r \in Runs, Report!WriteRaises(r) \/ Report!AuditRaises(r) \/ Report!Crash(r)
      PROVE  Files'
  BY <1>6 DEF Report!WriteRaises, Report!AuditRaises, Report!Crash, Report!Writing
<1>7. ASSUME NEW r \in Runs, Report!ConvertToPdf(r)
      PROVE  Files'
  <2>1. path[r] \in Paths /\ disk[path[r]] \in Documents
    BY <1>7 DEF Report!ConvertToPdf
  <2>. QED
    BY <1>7, <2>1 DEF Report!ConvertToPdf
<1>8. CASE UNCHANGED reportVars
  BY <1>8 DEF reportVars
<1>. QED
  BY <1>1, <1>2, <1>3, <1>4, <1>5, <1>6, <1>7, <1>8 DEF Report!Next, Report!RunStep, Report!vars, reportVars

\* How many results the report of a run shows.
Level(r) == Report!Reported(path[r])

\* A path once chosen is kept.
LEMMA PathsStay ==
    ASSUME ReportInv, [Report!Next]_reportVars, NEW r \in Runs, Started(r)
    PROVE  path'[r] = path[r]
<1>1. ASSUME NEW q \in Runs, Report!ChoosePath(q)
      PROVE  path'[r] = path[r]
  BY <1>1 DEF Report!ChoosePath, ReportInv, Report!TypeOK, Files, Started
<1>. QED
  BY <1>1 DEF Report!Next, Report!Tick, Report!RunStep, Report!BeginWrite, Report!FinishText, Report!ReplaceFile,
              Report!WriteRaises, Report!AuditRaises, Report!Crash, Report!ConvertToPdf, Report!vars, reportVars

\* Who has a path to itself has had it to itself all along.
LEMMA AloneBefore ==
    ASSUME ReportInv, [Report!Next]_reportVars, NEW r \in Runs, Started(r), ~Report!Colliding(r)'
    PROVE  ~Report!Colliding(r)
BY PathsStay DEF Started, Report!Colliding

\* A path nobody has yet leads to nothing.
LEMMA NewPath ==
    ASSUME ReportInv, NEW r \in Runs, Report!ChoosePath(r), ~Report!Colliding(r)'
    PROVE  /\ path'[r] \in Paths /\ size'[r] = 0
           /\ disk'[path'[r]] = Absent /\ pdf'[path'[r]] = Absent
           /\ Level(r)' = 0
<1>1. path'[r] \in Paths
  BY DEF ReportInv, Report!TypeOK, Report!ChoosePath, Report!Paths
<1>2. \A q \in Runs : path[q] # path'[r]
  BY <1>1, FilesAssumption DEF ReportInv, Report!TypeOK, Report!ChoosePath, Files, Started, Report!Colliding
<1>3. disk'[path'[r]] = Absent /\ pdf'[path'[r]] = Absent
  BY <1>1, <1>2 DEF ReportInv, Files, Report!ChoosePath
<1>4. size'[r] = 0
  BY DEF ReportInv, Files, Report!ChoosePath
<1>. QED
  BY <1>1, <1>3, <1>4, FilesAssumption DEF Level, Report!Reported

\* A report stays within one category of what was delivered.
LEMMA ReportsAreKeptStep ==
    ASSUME ReportInv, [Report!Next]_reportVars
    PROVE  Report!ReportsAreKept'
<1>1. Report!TypeOK' /\ Files'
  BY ReportTypeStep, FilesStep
<1>2. ASSUME NEW r \in Runs, Started(r)', ~Report!Colliding(r)'
      PROVE  /\ Level(r)' <= size'[r] /\ size'[r] <= Level(r)' + 1
             /\ at'[r] \in {"auditing", "final", "written", "finished"} => Level(r)' = size'[r]
  <2>1. CASE ~Started(r)
    <3>1. Report!ChoosePath(r)
      BY <1>2, <2>1 DEF Started, Report!Next, Report!Tick, Report!RunStep, Report!ChoosePath, Report!BeginWrite,
              Report!FinishText, Report!ReplaceFile, Report!WriteRaises, Report!AuditRaises, Report!Crash,
              Report!ConvertToPdf, Report!vars, reportVars, ReportInv, Report!TypeOK
    <3>2. Level(r)' = 0 /\ size'[r] = 0
      BY <1>2, <3>1, NewPath
    <3>. QED
      BY <3>2
  <2>2. CASE Started(r)
    <3>1. ~Report!Colliding(r) /\ path'[r] = path[r] /\ path[r] \in Paths
      BY <1>2, <2>2, AloneBefore, PathsStay DEF Started, ReportInv, Report!TypeOK
    <3>2. /\ Level(r) <= size[r] /\ size[r] <= Level(r) + 1
          /\ at[r] \in {"auditing", "final", "written", "finished"} => Level(r) = size[r]
      BY <2>2, <3>1 DEF ReportInv, Report!ReportsAreKept, Started, Level
    <3>3. CASE Report!ReplaceFile(r)
      <4>1. /\ disk'[path[r]] = temp[r] /\ temp[r] = [run |-> r, size |-> size[r]] /\ size[r] \in 1..Categories
            /\ size' = size
        BY <3>1, <3>3, RecordingAssumption DEF Report!ReplaceFile, Report!Writing, ReportInv, Report!TypeOK, Files
      <4>2. Level(r)' = size[r]
        BY <4>1, <3>1, DocumentsAreTold DEF Level, Report!Reported
      <4>. QED
        BY <4>1, <4>2
    <3>4. CASE ~Report!ReplaceFile(r)
      <4>1. disk'[path[r]] = disk[path[r]]
        <5>1. ASSUME NEW q \in Runs, Report!ReplaceFile(q)
              PROVE  disk'[path[r]] = disk[path[r]]
          <6>1. q # r /\ path[q] # path[r]
            BY <5>1, <3>1, <3>4 DEF Report!Colliding
          <6>. QED
            BY <5>1, <6>1, <3>1 DEF Report!ReplaceFile, ReportInv, Report!TypeOK
        <5>. QED
          BY <5>1 DEF Report!Next, Report!Tick, Report!RunStep, Report!ChoosePath, Report!BeginWrite, Report!FinishText,
                      Report!WriteRaises, Report!AuditRaises, Report!Crash, Report!ConvertToPdf, Report!vars, reportVars
      <4>2. Level(r)' = Level(r)
        BY <3>1, <4>1 DEF Level, Report!Reported
      <4>3. Level(r) \in Nat
        BY <3>1 DEF Level, Report!Reported, Report!Documents, ReportInv, Report!TypeOK
      <4>4. CASE Report!BeginWrite(r)
        <5>1. size[r] \in 0..Categories /\ at[r] = "auditing" /\ Level(r) = size[r]
          BY <3>2, <4>4 DEF Report!BeginWrite, ReportInv, Report!TypeOK
        <5>2. \/ size[r] < Categories /\ size'[r] = size[r] + 1 /\ at'[r] = "writing"
              \/ size[r] = Categories /\ size'[r] = size[r] /\ at'[r] = "final"
          BY <5>1, <4>4, RecordingAssumption DEF Report!BeginWrite, ReportInv, Report!TypeOK
        <5>. QED
          BY <4>2, <5>1, <5>2
      <4>5. CASE ~Report!BeginWrite(r)
        <5>1. size'[r] = size[r]
          BY <4>5, <3>4 DEF Report!Next, Report!Tick, Report!RunStep, Report!ChoosePath, Report!BeginWrite, Report!FinishText,
             Report!ReplaceFile, Report!WriteRaises, Report!AuditRaises, Report!Crash, Report!ConvertToPdf, Report!vars,
             reportVars, ReportInv, Report!TypeOK
        <5>2. at'[r] \in {"auditing", "final", "written", "finished"} =>
                  at[r] \in {"auditing", "final", "written", "finished"}
          <6>1. ~Report!ChoosePath(r)
            BY <2>2 DEF Report!ChoosePath, ReportInv, Files
          <6>. QED
            BY <6>1, <4>5, <3>4 DEF Report!Next, Report!Tick, Report!RunStep, Report!ChoosePath, Report!BeginWrite,
               Report!FinishText, Report!ReplaceFile, Report!WriteRaises, Report!AuditRaises, Report!Crash,
               Report!ConvertToPdf, Report!vars, reportVars, ReportInv, Report!TypeOK
        <5>. QED
          BY <3>2, <4>2, <5>1, <5>2
      <4>. QED
        BY <4>4, <4>5
    <3>. QED
      BY <3>3, <3>4
  <2>. QED
    BY <2>1, <2>2
<1>3. ASSUME NEW p \in Paths, pdf'[p] # Absent
      PROVE  /\ pdf'[p] \in Documents
             /\ (\A r, q \in Runs : path'[r] = p /\ path'[q] = p => r = q) => pdf'[p].size = Categories
  <2>1. pdf'[p] \in Documents
    BY <1>1, <1>3 DEF Files
  <2>2. ASSUME \A r, q \in Runs : path'[r] = p /\ path'[q] = p => r = q
        PROVE  pdf'[p].size = Categories
    <3>0. \A r \in Runs : path[r] = p => path'[r] = p
      BY FilesAssumption, PathsStay DEF Started
    <3>1. CASE pdf'[p] = pdf[p]
      BY <1>3, <2>2, <3>0, <3>1 DEF ReportInv, Report!ReportsAreKept
    <3>2. CASE pdf'[p] # pdf[p]
      <4>1. PICK r \in Runs : Report!ConvertToPdf(r) /\ path[r] = p
        BY <3>2 DEF Report!Next, Report!Tick, Report!RunStep, Report!ChoosePath, Report!BeginWrite, Report!FinishText,
           Report!ReplaceFile, Report!WriteRaises, Report!AuditRaises, Report!Crash, Report!ConvertToPdf, Report!vars,
           reportVars, ReportInv, Report!TypeOK
      <4>2. pdf'[p] = disk[p] /\ at[r] = "written" /\ size[r] = Categories /\ disk[p] \in Documents
        BY <3>2, <4>1, RecordingAssumption DEF Report!ConvertToPdf, ReportInv, Report!TypeOK, Files
      <4>3. ~Report!Colliding(r)
        BY <2>2, <3>0, <4>1 DEF Report!Colliding
      <4>4. Report!Reported(p) = Categories
        BY <4>1, <4>2, <4>3, FilesAssumption DEF ReportInv, Report!ReportsAreKept
      <4>. QED
        BY <4>2, <4>4 DEF Report!Reported
    <3>. QED
      BY <3>1, <3>2
  <2>. QED
    BY <2>1, <2>2
<1>4. \A r \in Runs : temp'[r] # Absent => at'[r] \in {"writing", "final", "crashed"}
  BY <1>1 DEF Files
<1>. QED
  BY <1>2, <1>3, <1>4 DEF Report!ReportsAreKept, Started, Level

\* What is shown of the report alone holds of it in the composition.
LEMMA ReportInvariant == Spec => []ReportInv
<1>1. Init => ReportInv
  BY InitReportInv
<1>2. ReportInv /\ [Next]_vars => ReportInv'
  <2>. SUFFICES ASSUME ReportInv, [Next]_vars PROVE ReportInv'
    OBVIOUS
  <2>1. [Report!Next]_reportVars
    BY ReportStep DEF vars
  <2>. QED
    BY <2>1, ReportTypeStep, FilesStep, ReportsAreKeptStep DEF ReportInv
<1>. QED
  BY <1>1, <1>2, PTL DEF Spec

\* Reports are never behind what was delivered, whatever raises and whoever is
\* killed; only kills leave temporary files; PDFs are of complete reports.
THEOREM ReportsKept == Spec => []ReportsAreKept
<1>1. ReportInv => ReportsAreKept
  BY DEF ReportInv, ReportsAreKept
<1>. QED
  BY <1>1, ReportInvariant, PTL

\* A reader of the reports directory finds complete documents only: to it, the
\* temporary files, the renames and the kills are an AtomicFile.
THEOREM ReportsAreAtomic == Spec => IsAtomic
<1>1. Init => Report!File!Init
  BY DEF Init, Report!Init, Report!File!Init
<1>2. ReportInv /\ [Next]_vars => [Report!File!Next]_disk
  <2>. SUFFICES ASSUME ReportInv, [Next]_vars PROVE [Report!File!Next]_disk
    OBVIOUS
  <2>1. [Report!Next]_reportVars
    BY ReportStep DEF vars
  <2>2. ASSUME NEW r \in Runs, Report!ReplaceFile(r)
        PROVE  Report!File!Next
    <3>1. size[r] \in 1..Categories /\ temp[r] = [run |-> r, size |-> size[r]] /\ path[r] \in Paths
      BY <2>2, RecordingAssumption DEF Report!ReplaceFile, Report!Writing, ReportInv, Report!TypeOK, Files, Started
    <3>2. temp[r] \in Documents
      BY <3>1, DocumentsAreTold
    <3>. QED
      BY <2>2, <3>1, <3>2 DEF Report!ReplaceFile, Report!File!Next, Report!File!Replace
  <2>. QED
    BY <2>1, <2>2 DEF Report!Next, Report!Tick, Report!RunStep, Report!ChoosePath, Report!BeginWrite, Report!FinishText,
                Report!WriteRaises, Report!AuditRaises, Report!Crash, Report!ConvertToPdf, Report!vars, reportVars
<1>. QED
  BY <1>1, <1>2, ReportInvariant, PTL DEF Spec, IsAtomic, Report!IsAtomic, Report!File!Spec

-----------------------------------------------------------------------------
(* How many categories with findings there are among the first n.          *)

First(r, n) == {c \in Yield[r] : c <= n}

\* The batches of the first categories are finitely many.
LEMMA FirstIsFinite ==
    ASSUME NEW r \in Runs, NEW n \in 0..Categories
    PROVE  IsFiniteSet(First(r, n)) /\ Cardinality(First(r, n)) = Yielding(r, n)
<1>1. First(r, n) \subseteq 1..Categories
  BY RecordingAssumption DEF First
<1>2. IsFiniteSet(1..Categories)
  BY FS_Interval, RecordingAssumption
<1>. QED
  BY <1>1, <1>2, FS_Subset DEF First, Yielding

\* They are counted.
LEMMA YieldingType ==
    ASSUME NEW r \in Runs, NEW n \in 0..Categories
    PROVE  Yielding(r, n) \in Nat
BY FirstIsFinite, FS_CardinalityType

\* There are none before the first category.
LEMMA YieldingZero ==
    ASSUME NEW r \in Runs
    PROVE  Yielding(r, 0) = 0
<1>1. First(r, 0) = {}
  BY RecordingAssumption DEF First
<1>. QED
  BY <1>1, FS_EmptySet, FirstIsFinite, RecordingAssumption

\* One category more has its findings or has none.
LEMMA YieldingNext ==
    ASSUME NEW r \in Runs, NEW n \in 0..Categories, n < Categories
    PROVE  Yielding(r, n + 1) = Yielding(r, n) + IF n + 1 \in Yield[r] THEN 1 ELSE 0
<1>0. n + 1 \in 0..Categories /\ Yield[r] \subseteq Nat
  BY RecordingAssumption
<1>1. First(r, n + 1) = IF n + 1 \in Yield[r] THEN First(r, n) \cup {n + 1} ELSE First(r, n)
  BY <1>0 DEF First
<1>2. n + 1 \notin First(r, n)
  BY DEF First
<1>3. Cardinality(First(r, n) \cup {n + 1}) = Cardinality(First(r, n)) + 1
  BY <1>2, FirstIsFinite, FS_AddElement
<1>4. Yielding(r, n) \in Nat
  BY YieldingType
<1>. QED
  BY <1>0, <1>1, <1>3, <1>4, FirstIsFinite

\* Later there are no fewer.
LEMMA YieldingMono ==
    ASSUME NEW r \in Runs, NEW m \in 0..Categories, NEW n \in 0..Categories, m <= n
    PROVE  Yielding(r, m) <= Yielding(r, n)
<1>1. First(r, m) \subseteq First(r, n)
  <2>1. Yield[r] \subseteq Nat
    BY RecordingAssumption
  <2>. QED
    BY <2>1 DEF First
<1>. QED
  BY <1>1, FirstIsFinite, FS_Subset

-----------------------------------------------------------------------------
(* The database.                                                           *)

\* The batches of an audit are counted.
LEMMA BatchesAreCounted == \A r \in Runs : Yielding(r, Categories) \in Nat
BY YieldingType, RecordingAssumption

\* A database of any earlier version is where the history begins.
LEMMA InitHistoryInv == Init => HistoryInv
<1>. SUFFICES ASSUME Init PROVE HistoryInv
  OBVIOUS
<1>. USE BatchesAreCounted DEF Init, History!Init
<1>1. History!TypeOK
  BY DEF History!TypeOK
<1>2. Stored /\ Migrating
  BY DEF Stored, Migrating
<1>. QED
  BY <1>1, <1>2 DEF HistoryInv

\* A migration finds the tables, and adds to each the columns of its own.
LEMMA ColumnsStep ==
    ASSUME HistoryInv, [History!Next]_historyVars
    PROVE  History!TypeOK' /\ Migrating'
<1>. USE BatchesAreCounted DEF HistoryInv, History!TypeOK, Migrating, History!Go, History!dbVars
<1>1. ASSUME NEW r \in Runs, History!CreateSchema(r)
      PROVE  History!TypeOK' /\ Migrating'
  BY <1>1 DEF History!CreateSchema
<1>2. ASSUME NEW r \in Runs, History!ReadRunColumns(r) \/ History!ReadFindingColumns(r)
      PROVE  History!TypeOK' /\ Migrating'
  BY <1>2 DEF History!ReadRunColumns, History!ReadFindingColumns
<1>3. ASSUME NEW r \in Runs, History!AlterRuns(r)
      PROVE  History!TypeOK' /\ Migrating'
  BY <1>3 DEF History!AlterRuns
<1>4. ASSUME NEW r \in Runs, History!InsertRun(r) \/ History!CommitRun(r)
      PROVE  History!TypeOK' /\ Migrating'
  BY <1>4 DEF History!InsertRun, History!CommitRun
<1>5. ASSUME NEW r \in Runs, History!AlterFindings(r)
      PROVE  History!TypeOK' /\ Migrating'
  BY <1>5 DEF History!AlterFindings
<1>6. ASSUME NEW r \in Runs, History!InsertFindings(r)
      PROVE  History!TypeOK' /\ Migrating'
  <2>1. batch[r] \in Nat /\ batch[r] < Yielding(r, Categories)
    BY <1>6 DEF History!InsertFindings, Stored
  <2>2. ASSUME NEW q \in Runs
        PROVE  batch'[q] \in 0..Yielding(q, Categories)
    <3>1. batch'[q] \in {batch[q], IF q = r THEN batch[q] + 1 ELSE batch[q]}
      BY <1>6 DEF History!InsertFindings, Stored
    <3>. QED
      BY <2>1, <3>1
  <2>. QED
    BY <1>6, <2>2 DEF History!InsertFindings
<1>7. ASSUME NEW r \in Runs, History!CommitFindings(r)
      PROVE  History!TypeOK' /\ Migrating'
  <2>1. batch[r] \in 1..Yielding(r, Categories)
    BY <1>7 DEF History!CommitFindings, Stored
  <2>. QED
    BY <1>7, <2>1 DEF History!CommitFindings, Stored
<1>8. ASSUME NEW r \in Runs, History!UpdateStatus(r) \/ History!CommitStatus(r)
      PROVE  History!TypeOK' /\ Migrating'
  BY <1>8 DEF History!UpdateStatus, History!CommitStatus
<1>9. ASSUME NEW r \in Runs, History!Crash(r) \/ History!Busy(r)
      PROVE  History!TypeOK' /\ Migrating'
  BY <1>9 DEF History!Crash, History!Busy
<1>10. CASE UNCHANGED historyVars
  BY <1>10 DEF historyVars
<1>. QED
  BY <1>1, <1>2, <1>3, <1>4, <1>5, <1>6, <1>7, <1>8, <1>9, <1>10
     DEF History!Next, History!Own, History!vars, historyVars

\* What is stored of each run is what its audit has handed over, after every step.
LEMMA StoredStep ==
    ASSUME HistoryInv, [History!Next]_historyVars
    PROVE  Stored'
<1>. USE BatchesAreCounted DEF HistoryInv, History!TypeOK, Stored, History!Go, History!dbVars
<1>1. ASSUME NEW r \in Runs, History!CreateSchema(r)
      PROVE  Stored'
  BY <1>1 DEF History!CreateSchema
<1>2. ASSUME NEW r \in Runs, History!ReadRunColumns(r) \/ History!ReadFindingColumns(r)
      PROVE  Stored'
  BY <1>2 DEF History!ReadRunColumns, History!ReadFindingColumns
<1>3. ASSUME NEW r \in Runs, History!AlterRuns(r)
      PROVE  Stored'
  <2>1. /\ UNCHANGED <<rows, stored, batch>>
        /\ step' = [step EXCEPT ![r] = "raised"] \/ step' = step
    BY <1>3 DEF History!AlterRuns
  <2>2. \A q \in Runs : step'[q] \in {step[q], "raised"} /\ (step'[q] # step[q] => step[q] = "alter_runs")
    BY <1>3, <2>1 DEF History!AlterRuns
  <2>. QED
    BY <2>1, <2>2
<1>4. ASSUME NEW r \in Runs, History!InsertRun(r) \/ History!CommitRun(r)
      PROVE  Stored'
  BY <1>4 DEF History!InsertRun, History!CommitRun
<1>5. ASSUME NEW r \in Runs, History!AlterFindings(r)
      PROVE  Stored'
  <2>1. /\ UNCHANGED <<rows, stored, batch>>
        /\ step' = [step EXCEPT ![r] = "raised"] \/ step' = step
    BY <1>5 DEF History!AlterFindings
  <2>2. \A q \in Runs : step'[q] \in {step[q], "raised"} /\ (step'[q] # step[q] => step[q] = "alter_findings")
    BY <1>5, <2>1 DEF History!AlterFindings
  <2>. QED
    BY <2>1, <2>2
<1>6. ASSUME NEW r \in Runs, History!InsertFindings(r)
      PROVE  Stored'
  <2>1. /\ step[r] = "alter_findings" /\ batch[r] \in Nat /\ batch[r] < Yielding(r, Categories)
        /\ stored[r] = 1..batch[r] /\ rows[r] = "running"
    BY <1>6 DEF History!InsertFindings
  <2>2. (batch[r] + 1) - 1 = batch[r] /\ stored' = stored /\ rows' = rows
    BY <1>6, <2>1 DEF History!InsertFindings
  <2>3. \/ step'[r] = "commit_findings" /\ batch'[r] = batch[r] + 1
        \/ step'[r] = "raised" /\ batch'[r] = batch[r]
    BY <1>6 DEF History!InsertFindings
  <2>4. batch' \in [Runs -> Nat] /\ \A q \in Runs \ {r} : step'[q] = step[q] /\ batch'[q] = batch[q]
    <3>1. batch[r] + 1 \in Nat
      BY <2>1
    <3>. QED
      BY <1>6, <3>1 DEF History!InsertFindings
  <2>5. stored'[r] = IF step'[r] = "raised" THEN 1..batch'[r] ELSE 1..(batch'[r] - 1)
    BY <2>1, <2>2, <2>3
  <2>. QED
    BY <2>1, <2>2, <2>3, <2>4, <2>5
<1>7. ASSUME NEW r \in Runs, History!CommitFindings(r)
      PROVE  Stored'
  <2>1. /\ step[r] = "commit_findings" /\ batch[r] \in Nat /\ batch[r] >= 1 /\ batch[r] <= Yielding(r, Categories)
        /\ stored[r] = 1..(batch[r] - 1) /\ rows[r] = "running"
    BY <1>7 DEF History!CommitFindings
  <2>2. 1..(batch[r] - 1) \cup {batch[r]} = 1..batch[r]
    BY <2>1
  <2>3. stored'[r] = 1..batch[r] /\ step'[r] = "ready" /\ batch' = batch /\ rows' = rows
    BY <1>7, <2>1, <2>2 DEF History!CommitFindings
  <2>4. stored' \in [Runs -> SUBSET Nat] /\ \A q \in Runs \ {r} : step'[q] = step[q] /\ stored'[q] = stored[q]
    BY <1>7, <2>1 DEF History!CommitFindings
  <2>. QED
    BY <2>1, <2>3, <2>4
<1>8. ASSUME NEW r \in Runs, History!UpdateStatus(r) \/ History!CommitStatus(r)
      PROVE  Stored'
  BY <1>8 DEF History!UpdateStatus, History!CommitStatus
<1>9. ASSUME NEW r \in Runs, History!Crash(r) \/ History!Busy(r)
      PROVE  Stored'
  BY <1>9 DEF History!Crash, History!Busy, History!Stopped
<1>10. CASE UNCHANGED historyVars
  BY <1>10 DEF historyVars
<1>. QED
  BY <1>1, <1>2, <1>3, <1>4, <1>5, <1>6, <1>7, <1>8, <1>9, <1>10
     DEF History!Next, History!Own, History!vars, historyVars

\* What is shown of the database alone holds of it in the composition.
LEMMA HistoryInvariant == Spec => []HistoryInv
<1>1. Init => HistoryInv
  BY InitHistoryInv
<1>2. HistoryInv /\ [Next]_vars => HistoryInv'
  <2>. SUFFICES ASSUME HistoryInv, [Next]_vars PROVE HistoryInv'
    OBVIOUS
  <2>1. [History!Next]_historyVars
    BY HistoryStep DEF vars
  <2>. QED
    BY <2>1, ColumnsStep, StoredStep DEF HistoryInv
<1>. QED
  BY <1>1, <1>2, PTL DEF Spec

\* What the database has of a run it keeps: a row goes from running to completed
\* and never disappears, and stored findings stay, whatever other runs do.
THEOREM HistoryKept == Spec => HistoryIsKept
<1>1. HistoryInv /\ [Next]_vars => [\A r \in Runs :
          /\ rows[r] = "completed" => rows'[r] = "completed"
          /\ rows[r] # "none" => rows'[r] # "none"
          /\ stored[r] \subseteq stored'[r]]_historyVars
  <2>. SUFFICES ASSUME HistoryInv, [Next]_vars, NEW r \in Runs
                PROVE  /\ rows[r] = "completed" => rows'[r] = "completed"
                       /\ rows[r] # "none" => rows'[r] # "none"
                       /\ stored[r] \subseteq stored'[r]
    OBVIOUS
  <2>. USE DEF HistoryInv, History!TypeOK, Stored, History!Go, History!dbVars
  <2>1. [History!Next]_historyVars
    BY HistoryStep DEF vars
  <2>2. ASSUME NEW q \in Runs, History!CommitRun(q) \/ History!CommitFindings(q) \/ History!CommitStatus(q)
        PROVE  /\ rows[r] = "completed" => rows'[r] = "completed"
               /\ rows[r] # "none" => rows'[r] # "none"
               /\ stored[r] \subseteq stored'[r]
    <3>1. CASE History!CommitRun(q)
      BY <3>1 DEF History!CommitRun
    <3>2. CASE History!CommitFindings(q)
      BY <3>2 DEF History!CommitFindings
    <3>3. CASE History!CommitStatus(q)
      BY <3>3 DEF History!CommitStatus
    <3>. QED
      BY <2>2, <3>1, <3>2, <3>3
  <2>. QED
    BY <2>1, <2>2 DEF History!Next, History!Own, History!vars, historyVars, History!CreateSchema,
       History!ReadRunColumns, History!AlterRuns, History!InsertRun, History!ReadFindingColumns, History!AlterFindings,
       History!InsertFindings, History!UpdateStatus, History!Crash, History!Busy
<1>. QED
  BY <1>1, HistoryInvariant, PTL DEF Spec, HistoryIsKept, History!HistoryIsKept, History!vars, historyVars

\* What a migration has seen is still so when nobody else has begun.
Alone(r) == \A q \in Runs \ {r} : step[q] = "idle"

Undisturbed ==
    \A r \in Runs : Alone(r) =>
        /\ step[r] # "raised" /\ lock \subseteq {r}
        /\ step[r] = "alter_runs" => missing[r] = RunColumns \ runCols
        /\ step[r] = "alter_findings" => missing[r] = FindingColumns \ findCols

\* An audit that is alone finds the lock free and the columns as it read them.
LEMMA UndisturbedStep ==
    ASSUME HistoryInv, Undisturbed, [History!Next]_historyVars
    PROVE  Undisturbed'
<1>. SUFFICES ASSUME NEW r \in Runs, Alone(r)'
              PROVE  /\ step'[r] # "raised" /\ lock' \subseteq {r}
                     /\ step'[r] = "alter_runs" => missing'[r] = RunColumns \ runCols'
                     /\ step'[r] = "alter_findings" => missing'[r] = FindingColumns \ findCols'
  BY DEF Undisturbed
<1>. USE DEF HistoryInv, History!TypeOK, History!Go, History!dbVars, History!Unlocked
<1>1. CASE UNCHANGED historyVars
  BY <1>1 DEF historyVars, Undisturbed, Alone
<1>2. ASSUME NEW q \in Runs, History!Own(q) \/ History!Crash(q) \/ History!Busy(q)
      PROVE  q = r
  <2>1. step'[q] # "idle"
    BY <1>2 DEF History!Own, History!CreateSchema, History!ReadRunColumns, History!AlterRuns, History!InsertRun,
       History!CommitRun, History!ReadFindingColumns, History!AlterFindings, History!InsertFindings,
       History!CommitFindings, History!UpdateStatus, History!CommitStatus, History!Crash, History!Busy
  <2>. QED
    BY <2>1 DEF Alone
<1>3. ASSUME History!Own(r) \/ History!Crash(r) \/ History!Busy(r)
      PROVE  Alone(r)
  BY <1>3 DEF Alone, History!Own, History!CreateSchema, History!ReadRunColumns, History!AlterRuns, History!InsertRun,
       History!CommitRun, History!ReadFindingColumns, History!AlterFindings, History!InsertFindings,
       History!CommitFindings, History!UpdateStatus, History!CommitStatus, History!Crash, History!Busy
<1>4. ASSUME Alone(r)
      PROVE  /\ step[r] # "raised" /\ lock \subseteq {r}
             /\ step[r] = "alter_runs" => missing[r] = RunColumns \ runCols
             /\ step[r] = "alter_findings" => missing[r] = FindingColumns \ findCols
  BY <1>4 DEF Undisturbed
<1>5. CASE History!CreateSchema(r) \/ History!ReadRunColumns(r) \/ History!ReadFindingColumns(r)
  BY <1>3, <1>4, <1>5 DEF History!Own, History!CreateSchema, History!ReadRunColumns, History!ReadFindingColumns
<1>6. CASE History!AlterRuns(r)
  BY <1>3, <1>4, <1>6 DEF History!Own, History!AlterRuns
<1>7. CASE History!InsertRun(r)
  BY <1>3, <1>4, <1>7 DEF History!Own, History!InsertRun
<1>8. CASE History!AlterFindings(r)
  BY <1>3, <1>4, <1>8 DEF History!Own, History!AlterFindings
<1>9. CASE History!InsertFindings(r)
  BY <1>3, <1>4, <1>9 DEF History!Own, History!InsertFindings
<1>10. CASE History!CommitRun(r) \/ History!CommitFindings(r) \/ History!UpdateStatus(r) \/ History!CommitStatus(r)
  BY <1>10 DEF History!CommitRun, History!CommitFindings, History!UpdateStatus, History!CommitStatus
<1>11. CASE History!Crash(r) \/ History!Busy(r)
  BY <1>3, <1>4, <1>11 DEF History!Crash, History!Busy
<1>. QED
  BY <1>1, <1>2, <1>5, <1>6, <1>7, <1>8, <1>9, <1>10, <1>11
     DEF History!Next, History!Own, History!vars, historyVars

\* A migration makes room for what is inserted next: whatever columns an older
\* database has, no writer raises when no other has been active in the file.
THEOREM AloneIsSafe == Spec => []AloneNeverRaises
<1>1. Init => Undisturbed
  BY DEF Init, History!Init, Undisturbed
<1>2. HistoryInv /\ Undisturbed /\ [Next]_vars => Undisturbed'
  BY HistoryStep, UndisturbedStep DEF vars
<1>3. Undisturbed => AloneNeverRaises
  BY DEF Undisturbed, Alone, AloneNeverRaises, History!AloneNeverRaises
<1>. QED
  BY <1>1, <1>2, <1>3, HistoryInvariant, PTL DEF Spec

-----------------------------------------------------------------------------
(* The two together.                                                       *)

Types == ReportInv /\ HistoryInv

Fails(r) == WriteRaises(r) \/ AuditRaises(r) \/ Killed(r) \/ DatabaseBusy(r)

\* A run moves itself only.
LEMMA OthersStay ==
    ASSUME Types, NEW r \in Runs, NEW q \in Runs, q # r, Proceed(q) \/ Fails(q)
    PROVE  /\ at'[r] = at[r] /\ size'[r] = size[r] /\ step'[r] = step[r] /\ batch'[r] = batch[r]
           /\ path'[r] = path[r] /\ stored'[r] = stored[r] /\ rows'[r] = rows[r]
           /\ \A p \in Paths : p # path[q] => disk'[p] = disk[p] /\ pdf'[p] = pdf[p]
<1>. USE DEF Types, ReportInv, HistoryInv, Report!TypeOK, History!TypeOK, Stored
<1>1. at'[r] = at[r] /\ size'[r] = size[r]
  BY DEF Proceed, Fails, ChoosePath, CategoryReady, WriteReport, StoreFindings, AuditCompleted, ConvertToPdf, Call,
     WriteRaises, AuditRaises, Killed, DatabaseBusy, reportVars, Report!ChoosePath, Report!BeginWrite,
     Report!FinishText, Report!ReplaceFile, Report!WriteRaises, Report!AuditRaises, Report!Crash, Report!ConvertToPdf
<1>2. History!Own(q) \/ History!Crash(q) \/ History!Busy(q) \/ UNCHANGED historyVars
  BY DEF Proceed, Fails, ChoosePath, CategoryReady, WriteReport, StoreFindings, AuditCompleted, ConvertToPdf, Call,
     WriteRaises, AuditRaises, Killed, DatabaseBusy, Abandon, History!Own
<1>3. step'[r] = step[r]
  BY <1>2 DEF History!Own, History!Go, History!CreateSchema, History!ReadRunColumns, History!AlterRuns,
     History!InsertRun, History!CommitRun, History!ReadFindingColumns, History!AlterFindings, History!InsertFindings,
     History!CommitFindings, History!UpdateStatus, History!CommitStatus, History!Crash, History!Busy, historyVars
<1>4. batch'[r] = batch[r]
  BY <1>2 DEF History!Own, History!CreateSchema, History!ReadRunColumns, History!AlterRuns, History!dbVars,
     History!InsertRun, History!CommitRun, History!ReadFindingColumns, History!AlterFindings, History!InsertFindings,
     History!CommitFindings, History!UpdateStatus, History!CommitStatus, History!Crash, History!Busy, historyVars
<1>5. path'[r] = path[r] /\ \A p \in Paths : p # path[q] => disk'[p] = disk[p] /\ pdf'[p] = pdf[p]
  BY DEF Proceed, Fails, ChoosePath, CategoryReady, WriteReport, StoreFindings, AuditCompleted, ConvertToPdf, Call,
     WriteRaises, AuditRaises, Killed, DatabaseBusy, reportVars, Report!ChoosePath, Report!BeginWrite,
     Report!FinishText, Report!ReplaceFile, Report!WriteRaises, Report!AuditRaises, Report!Crash, Report!ConvertToPdf
<1>6. stored'[r] = stored[r] /\ rows'[r] = rows[r]
  BY <1>2 DEF History!Own, History!CreateSchema, History!ReadRunColumns, History!AlterRuns, History!dbVars,
     History!InsertRun, History!CommitRun, History!ReadFindingColumns, History!AlterFindings, History!InsertFindings,
     History!CommitFindings, History!UpdateStatus, History!CommitStatus, History!Crash, History!Busy, historyVars
<1>. QED
  BY <1>1, <1>3, <1>4, <1>5, <1>6

\* A run that fails leaves its records as they are and is not heard of again.
LEMMA FailureStays ==
    ASSUME Types, NEW r \in Runs, Fails(r)
    PROVE  /\ at'[r] \in {"failed", "crashed"} /\ size' = size /\ batch' = batch /\ stored' = stored /\ rows' = rows
           /\ step'[r] \in {"raised", "crashed"} \/ (step'[r] = "done" /\ step[r] = "done")
           /\ disk' = disk /\ pdf' = pdf /\ path' = path
<1>. USE DEF Types, ReportInv, HistoryInv, Report!TypeOK, History!TypeOK
<1>1. CASE WriteRaises(r)
  BY <1>1 DEF WriteRaises, Report!WriteRaises, Abandon, History!Stopped, History!Crash, History!dbVars, historyVars
<1>2. CASE AuditRaises(r)
  BY <1>2 DEF AuditRaises, Report!AuditRaises, Abandon, History!Stopped, History!Crash, History!dbVars, historyVars
<1>3. CASE Killed(r)
  BY <1>3 DEF Killed, Report!Crash, Abandon, History!Stopped, History!Crash, History!dbVars, historyVars
<1>4. CASE DatabaseBusy(r)
  BY <1>4 DEF DatabaseBusy, Call, Report!AuditRaises, History!Busy, History!dbVars
<1>. QED
  BY <1>1, <1>2, <1>3, <1>4 DEF Fails

\* The two records of an audit go in step: a category is in the report before its findings are stored.
LEMMA AbreastStep ==
    ASSUME IInv, [Next]_vars, NEW r \in Runs
    PROVE  AbreastOf(r)'
<1>. USE DEF IInv, Types, ReportInv, HistoryInv, Abreast, Report!TypeOK, History!TypeOK, History!Go
<1>0. /\ AbreastOf(r) /\ size[r] \in 0..Categories /\ batch[r] \in Nat
      /\ \A n \in 0..Categories : Yielding(r, n) \in Nat
  BY YieldingType DEF Stored
<1>1. CASE UNCHANGED vars \/ Tick
  BY <1>0, <1>1 DEF vars, reportVars, historyVars, Tick, Report!Tick, AbreastOf
<1>2. ASSUME NEW q \in Runs, q # r, Proceed(q) \/ Fails(q)
      PROVE  AbreastOf(r)'
  <2>1. at'[r] = at[r] /\ size'[r] = size[r] /\ step'[r] = step[r] /\ batch'[r] = batch[r]
    BY <1>2, OthersStay
  <2>. QED
    BY <1>0, <2>1 DEF AbreastOf
<1>3. CASE Fails(r)
  <2>1. /\ at'[r] \in {"failed", "crashed"} /\ size'[r] = size[r]
        /\ step'[r] \in {"raised", "crashed"} \/ (step'[r] = "done" /\ step[r] = "done")
    BY <1>3, FailureStays
  <2>. QED
    BY <1>0, <2>1 DEF AbreastOf
<1>4. CASE ChoosePath(r)
  <2>1. at'[r] = "auditing" /\ size[r] = 0 /\ size' = size /\ step'[r] = "idle" /\ batch'[r] = 0
    BY <1>0, <1>4 DEF ChoosePath, Report!ChoosePath, historyVars, Files, Stored, AbreastOf
  <2>2. Yielding(r, size'[r]) = 0
    BY <2>1, YieldingZero
  <2>. QED
    BY <2>1, <2>2 DEF AbreastOf
<1>5. CASE CategoryReady(r)
  <2>1. /\ at[r] = "auditing" /\ batch'[r] = batch[r] /\ size' = size
        /\ \/ step'[r] = "raised" /\ at'[r] = "failed"
           \/ step'[r] \in {"schema", "alter_runs", "commit_run", "ready"} /\ at'[r] = "auditing"
    BY <1>5 DEF CategoryReady, Call, reportVars, Report!AuditRaises, History!CreateSchema, History!ReadRunColumns,
       History!AlterRuns, History!InsertRun, History!CommitRun, History!dbVars
  <2>. QED
    BY <1>0, <2>1 DEF AbreastOf
<1>6. CASE WriteReport(r)
  <2>0. step' = step /\ batch' = batch
    BY <1>6 DEF WriteReport, historyVars
  <2>1. CASE Report!BeginWrite(r) /\ size[r] < Categories
    <3>1. /\ batch[r] = Yielding(r, size[r]) /\ step[r] \in {"idle", "ready"}
          /\ size'[r] = size[r] + 1 /\ at'[r] = "writing"
      BY <1>6, <2>1 DEF WriteReport, Report!BeginWrite, Report!FinishText, Report!ReplaceFile, Report!Writing,
         CaughtUp, Announced
    <3>2. size'[r] - 1 = size[r]
      BY <1>0, <3>1
    <3>. QED
      BY <2>0, <3>1, <3>2 DEF AbreastOf
  <2>2. CASE Report!BeginWrite(r) /\ ~(size[r] < Categories)
    <3>1. step[r] = "done" /\ size'[r] = size[r] /\ at'[r] = "final"
      BY <1>6, <2>2 DEF WriteReport, Report!BeginWrite, Report!FinishText, Report!ReplaceFile, Report!Writing
    <3>. QED
      BY <1>0, <2>0, <3>1 DEF AbreastOf
  <2>3. CASE Report!FinishText(r)
    BY <1>0, <2>0, <2>3 DEF Report!FinishText, AbreastOf
  <2>4. CASE Report!ReplaceFile(r) /\ at[r] = "writing"
    <3>1. /\ at'[r] = "auditing" /\ size' = size /\ size[r] >= 1
          /\ batch[r] = Yielding(r, size[r] - 1) /\ step[r] \in {"idle", "ready"}
      BY <1>0, <2>4 DEF Report!ReplaceFile, Files, AbreastOf
    <3>2. size[r] - 1 \in 0..Categories /\ size[r] - 1 < Categories /\ (size[r] - 1) + 1 = size[r]
      BY <1>0, <3>1, RecordingAssumption
    <3>3. Yielding(r, size[r]) = batch[r] + IF size[r] \in Yield[r] THEN 1 ELSE 0
      BY <3>1, <3>2, YieldingNext
    <3>. QED
      BY <1>0, <2>0, <3>1, <3>3 DEF AbreastOf
  <2>5. CASE Report!ReplaceFile(r) /\ at[r] # "writing"
    <3>1. at[r] = "final" /\ at'[r] = "written" /\ size' = size
      BY <2>5 DEF Report!ReplaceFile, Report!Writing
    <3>. QED
      BY <1>0, <2>0, <3>1 DEF AbreastOf
  <2>. QED
    BY <1>6, <2>1, <2>2, <2>3, <2>4, <2>5 DEF WriteReport
<1>7. CASE StoreFindings(r)
  <2>1. at[r] = "auditing" /\ size' = size
    BY <1>7 DEF StoreFindings, Call, reportVars, Report!AuditRaises
  <2>2. CASE step'[r] = "raised"
    <3>1. at'[r] = "failed"
      BY <1>7, <2>2 DEF StoreFindings, Call, Report!AuditRaises
    <3>. QED
      BY <2>1, <2>2, <3>1 DEF AbreastOf
  <2>3. CASE step'[r] # "raised"
    <3>1. at'[r] = "auditing"
      BY <1>7, <2>1, <2>3 DEF StoreFindings, Call, reportVars
    <3>2. CASE History!ReadFindingColumns(r)
      <4>1. step[r] = "ready" /\ step'[r] = "alter_findings" /\ batch'[r] = batch[r] /\ batch[r] # Yielding(r, size[r])
        BY <1>7, <3>2 DEF StoreFindings, CaughtUp, History!ReadFindingColumns
      <4>. QED
        BY <1>0, <2>1, <3>1, <4>1 DEF AbreastOf
    <3>3. CASE History!AlterFindings(r)
      BY <1>0, <2>1, <2>3, <3>1, <3>3 DEF AbreastOf, History!AlterFindings
    <3>4. CASE History!InsertFindings(r)
      <4>1. step[r] = "alter_findings" /\ step'[r] = "commit_findings" /\ batch'[r] = batch[r] + 1
        BY <2>3, <3>4 DEF History!InsertFindings, Stored
      <4>. QED
        BY <1>0, <2>1, <3>1, <4>1 DEF AbreastOf
    <3>5. CASE History!CommitFindings(r)
      BY <1>0, <2>1, <3>1, <3>5 DEF AbreastOf, History!CommitFindings
    <3>. QED
      BY <1>7, <3>2, <3>3, <3>4, <3>5 DEF StoreFindings, Call
  <2>. QED
    BY <2>2, <2>3
<1>8. CASE AuditCompleted(r)
  <2>1. /\ at[r] = "auditing" /\ size[r] = Categories /\ size' = size /\ batch' = batch
        /\ step'[r] \in {"commit_status", "done"} /\ at' = at
    BY <1>8 DEF AuditCompleted, Call, reportVars, History!UpdateStatus, History!CommitStatus
  <2>. QED
    BY <1>0, <2>1 DEF AbreastOf
<1>9. CASE ConvertToPdf(r)
  BY <1>0, <1>9 DEF ConvertToPdf, Report!ConvertToPdf, historyVars, AbreastOf
<1>. QED
  BY <1>1, <1>2, <1>3, <1>4, <1>5, <1>6, <1>7, <1>8, <1>9 DEF Next, Proceed, Fails

\* What RecordsAgree says of one run.
AgreesOf(r) ==
    LET reported == Yielding(r, Level(r))
        inHistory == Cardinality(stored[r])
    IN  /\ inHistory <= reported /\ reported <= inHistory + 1
        /\ rows[r] = "completed" => Level(r) = Categories
        /\ pdf[path[r]] # Absent => rows[r] = "completed"

\* What is stored of a run is counted by its batches.
LEMMA StoredIsCounted ==
    ASSUME HistoryInv, NEW r \in Runs
    PROVE  /\ Cardinality(stored[r]) \in {batch[r], batch[r] - 1} /\ Cardinality(stored[r]) \in Nat
           /\ step[r] \notin {"commit_findings", "crashed"} => Cardinality(stored[r]) = batch[r]
<1>. USE DEF HistoryInv, Stored
<1>1. batch[r] \in Nat
  OBVIOUS
<1>2. ASSUME NEW n \in Nat, stored[r] = 1..n
      PROVE  Cardinality(stored[r]) = n
  BY <1>2, FS_Interval
<1>3. CASE stored[r] = 1..batch[r]
  BY <1>1, <1>2, <1>3
<1>4. CASE step[r] \in {"commit_findings", "crashed"} /\ batch[r] >= 1 /\ stored[r] = 1..(batch[r] - 1)
  <2>1. batch[r] - 1 \in Nat
    BY <1>1, <1>4
  <2>. QED
    BY <1>2, <1>4, <2>1
<1>. QED
  BY <1>3, <1>4

\* A run marked completed has all its batches.
LEMMA StoredIsComplete == HistoryInv => History!CompletedMeansComplete
<1>. SUFFICES ASSUME HistoryInv, NEW r \in Runs
              PROVE  /\ stored[r] # {} => rows[r] # "none" /\ \A b \in stored[r] : 1..b \subseteq stored[r]
                     /\ rows[r] = "completed" => stored[r] = 1..Yielding(r, Categories)
                     /\ step[r] \in {"raised", "crashed"} => rows[r] # "completed"
  BY DEF History!CompletedMeansComplete
<1>. USE DEF HistoryInv, Stored
<1>1. batch[r] \in Nat
  OBVIOUS
<1>2. stored[r] # {} => batch[r] > 0
  BY <1>1
<1>3. \A b \in stored[r] : 1..b \subseteq stored[r]
  BY <1>1
<1>. QED
  BY <1>1, <1>2, <1>3

\* Every step keeps the report and the database within one category of each other.
LEMMA AgreeStep ==
    ASSUME IInv, [Next]_vars, NEW r \in Runs, Started(r)', ~Report!Colliding(r)'
    PROVE  AgreesOf(r)'
<1>. USE DEF IInv, Types, Abreast
<1>1. [Report!Next]_reportVars /\ [History!Next]_historyVars
  BY ReportStep, HistoryStep DEF vars
<1>2. Report!ReportsAreKept'
  BY <1>1, ReportsAreKeptStep
<1>3. /\ AbreastOf(r) /\ size[r] \in 0..Categories /\ batch[r] \in Nat /\ batch[r] <= Yielding(r, Categories)
      /\ path[r] \in Paths \cup {NoPath}
      /\ \A n \in 0..Categories : Yielding(r, n) \in Nat
  BY YieldingType DEF HistoryInv, ReportInv, Report!TypeOK, Stored
<1>4. CASE ChoosePath(r)
  <2>0. Report!ChoosePath(r) /\ UNCHANGED <<rows, stored, batch>> /\ step[r] = "idle"
    BY <1>3, <1>4 DEF ChoosePath, Report!ChoosePath, historyVars, AbreastOf
  <2>1. stored' = stored /\ rows' = rows /\ rows[r] = "none" /\ stored[r] = {}
    BY <2>0 DEF HistoryInv, Stored
  <2>2. Level(r)' = 0 /\ pdf'[path'[r]] = Absent
    BY <2>0, NewPath
  <2>3. Yielding(r, Level(r)') = 0 /\ Cardinality(stored'[r]) = 0
    BY <2>1, <2>2, YieldingZero, FS_EmptySet
  <2>. QED
    BY <2>1, <2>2, <2>3 DEF AgreesOf
<1>5. ASSUME Started(r)
      PROVE  /\ path'[r] = path[r] /\ path[r] \in Paths /\ ~Report!Colliding(r) /\ AgreesOf(r)
             /\ at[r] \in {"auditing", "final", "written"} => Level(r) = size[r]
             /\ at'[r] \in {"auditing", "final", "written"} => Level(r)' = size'[r]
  <2>1. path'[r] = path[r] /\ ~Report!Colliding(r) /\ path[r] \in Paths
    BY <1>1, <1>3, <1>5, PathsStay, AloneBefore DEF Started
  <2>2. AgreesOf(r)
    BY <1>5, <2>1 DEF RecordsAgree, AgreesOf, Level, Started
  <2>3. at[r] \in {"auditing", "final", "written"} => Level(r) = size[r]
    BY <1>5, <2>1 DEF ReportInv, Report!ReportsAreKept, Level, Started
  <2>4. at'[r] \in {"auditing", "final", "written"} => Level(r)' = size'[r]
    BY <1>2 DEF Report!ReportsAreKept, Level, Started
  <2>. QED
    BY <2>1, <2>2, <2>3, <2>4
<1>6. ASSUME Started(r), disk'[path[r]] = disk[path[r]], pdf'[path[r]] = pdf[path[r]],
             stored'[r] = stored[r], rows'[r] = rows[r]
      PROVE  AgreesOf(r)'
  BY <1>5, <1>6 DEF AgreesOf, Level, Report!Reported
<1>7. CASE UNCHANGED vars \/ Tick
  BY <1>6, <1>7 DEF vars, reportVars, historyVars, Tick, Report!Tick, Started
<1>8. ASSUME NEW q \in Runs, q # r, Proceed(q) \/ Fails(q)
      PROVE  AgreesOf(r)'
  <2>1. /\ path'[r] = path[r] /\ stored'[r] = stored[r] /\ rows'[r] = rows[r]
        /\ \A p \in Paths : p # path[q] => disk'[p] = disk[p] /\ pdf'[p] = pdf[p]
    BY <1>8, OthersStay
  <2>2. Started(r)
    BY <2>1 DEF Started
  <2>3. path[q] # path[r]
    BY <1>5, <1>8, <2>2 DEF Report!Colliding
  <2>. QED
    BY <1>5, <1>6, <2>1, <2>2, <2>3
<1>9. CASE Fails(r)
  BY <1>6, <1>9, FailureStays DEF Started
<1>10. CASE CategoryReady(r)
  <2>1. at[r] = "auditing" /\ path' = path /\ disk' = disk /\ pdf' = pdf /\ stored' = stored
    BY <1>10 DEF CategoryReady, Call, reportVars, Report!AuditRaises, History!CreateSchema, History!ReadRunColumns,
       History!AlterRuns, History!InsertRun, History!CommitRun, History!dbVars
  <2>2. rows'[r] = rows[r] \/ (rows[r] = "none" /\ rows'[r] = "running")
    BY <1>10 DEF CategoryReady, Call, History!CreateSchema, History!ReadRunColumns, History!AlterRuns,
       History!InsertRun, History!CommitRun, History!dbVars, History!Go, HistoryInv, History!TypeOK, Stored
  <2>3. Started(r)
    BY <2>1 DEF Started
  <2>. QED
    BY <1>5, <1>6, <2>1, <2>2, <2>3 DEF AgreesOf, Level, Report!Reported
<1>11. CASE WriteReport(r)
  <2>0. path' = path /\ pdf' = pdf /\ stored' = stored /\ rows' = rows /\ Started(r)
    BY <1>11 DEF WriteReport, historyVars, Report!BeginWrite, Report!FinishText, Report!ReplaceFile, Started
  <2>1. CASE Report!BeginWrite(r) \/ Report!FinishText(r)
    BY <1>6, <2>0, <2>1 DEF Report!BeginWrite, Report!FinishText
  <2>2. CASE Report!ReplaceFile(r) /\ at[r] = "writing"
    <3>1. /\ at'[r] = "auditing" /\ size' = size /\ size[r] >= 1
          /\ batch[r] = Yielding(r, size[r] - 1) /\ step[r] \in {"idle", "ready"}
      BY <1>3, <2>2 DEF Report!ReplaceFile, Files, AbreastOf, ReportInv, Report!TypeOK
    <3>2. size[r] - 1 \in 0..Categories /\ size[r] - 1 < Categories /\ (size[r] - 1) + 1 = size[r]
      BY <1>3, <3>1, RecordingAssumption
    <3>3. Yielding(r, size[r]) = batch[r] + IF size[r] \in Yield[r] THEN 1 ELSE 0
      BY <3>1, <3>2, YieldingNext
    <3>4. Cardinality(stored[r]) = batch[r]
      BY <3>1, StoredIsCounted
    <3>5. rows[r] # "completed"
      BY <3>1 DEF HistoryInv, Stored
    <3>6. Level(r)' = size[r]
      BY <1>5, <2>0, <3>1
    <3>. QED
      BY <1>3, <1>5, <2>0, <3>3, <3>4, <3>5, <3>6 DEF AgreesOf
  <2>3. CASE Report!ReplaceFile(r) /\ at[r] # "writing"
    <3>1. at[r] = "final" /\ at'[r] = "written" /\ size' = size /\ step[r] = "done" /\ size[r] = Categories
      BY <1>3, <2>3 DEF Report!ReplaceFile, Report!Writing, AbreastOf, ReportInv, Report!TypeOK
    <3>2. Cardinality(stored[r]) = Yielding(r, Categories) /\ rows[r] = "completed"
      BY <3>1, StoredIsCounted DEF HistoryInv, Stored
    <3>3. Level(r)' = Categories
      BY <1>5, <2>0, <3>1
    <3>. QED
      BY <2>0, <3>2, <3>3, BatchesAreCounted DEF AgreesOf
  <2>. QED
    BY <1>11, <2>1, <2>2, <2>3 DEF WriteReport
<1>12. CASE StoreFindings(r)
  <2>1. /\ at[r] = "auditing" /\ size' = size /\ path' = path /\ disk' = disk /\ pdf' = pdf /\ rows' = rows
        /\ stored' = stored \/ History!CommitFindings(r)
    BY <1>12 DEF StoreFindings, Call, reportVars, Report!AuditRaises, History!ReadFindingColumns,
       History!AlterFindings, History!InsertFindings, History!CommitFindings, History!dbVars
  <2>2. Started(r)
    BY <2>1 DEF Started
  <2>3. CASE stored' = stored
    BY <1>6, <2>1, <2>2, <2>3
  <2>4. CASE History!CommitFindings(r)
    <3>1. /\ batch[r] >= 1 /\ batch[r] = Yielding(r, size[r]) /\ stored[r] = 1..(batch[r] - 1)
          /\ stored'[r] = stored[r] \cup {batch[r]}
      BY <1>3, <2>1, <2>4 DEF History!CommitFindings, History!Go, AbreastOf, HistoryInv, Stored
    <3>2. stored'[r] = 1..batch[r]
      BY <1>3, <3>1
    <3>3. Cardinality(stored'[r]) = batch[r]
      BY <1>3, <3>2, FS_Interval
    <3>4. Level(r)' = Level(r) /\ Level(r) = size[r]
      BY <1>5, <2>1, <2>2 DEF Level, Report!Reported
    <3>. QED
      BY <1>3, <1>5, <2>1, <2>2, <3>1, <3>3, <3>4 DEF AgreesOf
  <2>. QED
    BY <2>1, <2>3, <2>4
<1>13. CASE AuditCompleted(r)
  <2>1. /\ at[r] = "auditing" /\ size[r] = Categories /\ path' = path /\ disk' = disk /\ pdf' = pdf /\ stored' = stored
        /\ rows'[r] \in {rows[r], "completed"}
    BY <1>13 DEF AuditCompleted, Call, reportVars, Report!AuditRaises, History!UpdateStatus, History!CommitStatus,
       History!dbVars, HistoryInv, History!TypeOK
  <2>2. Started(r)
    BY <2>1 DEF Started
  <2>3. Level(r)' = Level(r) /\ Level(r) = Categories
    BY <1>5, <2>1, <2>2 DEF Level, Report!Reported
  <2>. QED
    BY <1>5, <2>1, <2>2, <2>3 DEF AgreesOf
<1>14. CASE ConvertToPdf(r)
  <2>1. /\ at[r] = "written" /\ path' = path /\ disk' = disk /\ stored' = stored /\ rows' = rows
        /\ step[r] = "done"
    BY <1>3, <1>14 DEF ConvertToPdf, Report!ConvertToPdf, historyVars, AbreastOf
  <2>2. Started(r) /\ rows[r] = "completed"
    BY <2>1 DEF Started, HistoryInv, Stored, ReportInv, Files
  <2>3. Level(r)' = Level(r)
    BY <2>1 DEF Level, Report!Reported
  <2>. QED
    BY <1>5, <2>1, <2>2, <2>3 DEF AgreesOf
<1>. QED
  BY <1>4, <1>7, <1>8, <1>9, <1>10, <1>11, <1>12, <1>13, <1>14 DEF Next, Proceed, Fails

\* The invariant of the composition: of each record, and of the two together.
LEMMA Invariant == Spec => []IInv
<1>1. Init => IInv
  <2>. SUFFICES ASSUME Init PROVE IInv
    OBVIOUS
  <2>1. ReportInv /\ HistoryInv
    BY InitReportInv, InitHistoryInv
  <2>2. Abreast
    BY RecordingAssumption DEF Init, Report!Init, History!Init, Abreast, AbreastOf
  <2>3. RecordsAgree
    BY <2>1, StoredIsComplete DEF RecordsAgree, Init, Report!Init
  <2>. QED
    BY <2>1, <2>2, <2>3 DEF IInv
<1>2. HistoryInv' => History!CompletedMeansComplete'
  BY StoredIsComplete, PTL
<1>3. IInv /\ [Next]_vars => IInv'
  <2>. SUFFICES ASSUME IInv, [Next]_vars PROVE IInv'
    OBVIOUS
  <2>1. [Report!Next]_reportVars /\ [History!Next]_historyVars
    BY ReportStep, HistoryStep DEF vars
  <2>2. ReportInv' /\ HistoryInv'
    BY <2>1, ReportTypeStep, FilesStep, ReportsAreKeptStep, ColumnsStep, StoredStep DEF IInv, ReportInv, HistoryInv
  <2>3. Abreast'
    BY AbreastStep DEF Abreast
  <2>4. RecordsAgree'
    BY <1>2, <2>2, AgreeStep DEF RecordsAgree, AgreesOf, Level, Started
  <2>. QED
    BY <2>2, <2>3, <2>4 DEF IInv
<1>. QED
  BY <1>1, <1>3, PTL DEF Spec

\* The two records of a run agree to within the category being recorded,
\* whichever of them failed and wherever the run was killed.
THEOREM TheRecordsAgree == Spec => []RecordsAgree
<1>1. IInv => RecordsAgree
  BY DEF IInv
<1>. QED
  BY <1>1, Invariant, PTL

\* Every variable has its type.
THEOREM TypesAreRight == Spec => []TypeOK
<1>1. IInv => TypeOK
  BY DEF IInv, ReportInv, HistoryInv, TypeOK
<1>. QED
  BY <1>1, Invariant, PTL
=============================================================================
