----------------------------- MODULE Recording -----------------------------
(***************************************************************************)
(* The two records an audit leaves, composed: the report on disk           *)
(* (ReportFile) and the analytics database (Analytics), written by the     *)
(* reporters CompositeReporter calls in the order cli.py lists them.       *)
(*                                                                         *)
(*   category_ready        the first one creates the audit's row           *)
(*   category_completed    the report is rewritten, then the category's    *)
(*                         findings are committed, if there are any        *)
(*   audit_completed       the row becomes "completed"                     *)
(*   after run_audit       the final render and the PDF                    *)
(*                                                                         *)
(* A call that raises in one record ends the audit in the other; a kill    *)
(* ends both between any two of their steps.                               *)
(***************************************************************************)
EXTENDS Naturals, FiniteSets

CONSTANTS
    Runs,           \* the audits, each a process run with --analytics
    Slugs,          \* what the clients' names slugify to
    Categories,     \* categories completed by a run, the last one out-of-scope
    Yield,          \* [Runs -> the categories of the run that have findings]
    MaxSecond, Absent, Torn, NoPath,
    RunColumns, FindingColumns, NoFile, Faults

ASSUME RecordingAssumption ==
    /\ Categories \in Nat \ {0} /\ MaxSecond \in Nat
    /\ Yield \in [Runs -> SUBSET (1..(Categories - 1))]

\* the report on disk
VARIABLES second, path, at, size, temp, disk, pdf

\* the analytics database
VARIABLES runCols, findCols, lock, rows, stored, step, missing, batch

reportVars == <<second, path, at, size, temp, disk, pdf>>
historyVars == <<runCols, findCols, lock, rows, stored, step, missing, batch>>
vars == <<reportVars, historyVars>>

\* How many of the first n categories of the run have findings.
Yielding(r, n) == Cardinality({c \in Yield[r] : c <= n})

Report == INSTANCE ReportFile WITH step <- at
History == INSTANCE Analytics WITH Batches <- [r \in Runs |-> Yielding(r, Categories)]

\* A file that is not there, or torn, is no document, and NoPath no path.
ASSUME FilesAssumption ==
    /\ Absent \notin Report!Documents /\ Torn \notin Report!Documents /\ Torn # Absent
    /\ NoPath \notin Report!Paths

Init == Report!Init /\ History!Init

-----------------------------------------------------------------------------
\* The findings of every category the report shows have been committed.
CaughtUp(r) == batch[r] = Yielding(r, size[r])

Tick == Report!Tick /\ UNCHANGED historyVars

ChoosePath(r) == Report!ChoosePath(r) /\ UNCHANGED historyVars

\* A call into the database that returns leaves the report alone; one that
\* raises leaves run_audit, and run with it.
Call(r, Operation) ==
    /\ Operation
    /\ IF step'[r] = "raised" THEN Report!AuditRaises(r) ELSE UNCHANGED reportVars

\* _ensure_run_row, in the category_ready of any category before the last
\* one's write; the out-of-scope category is always made ready.
CategoryReady(r) ==
    /\ at[r] = "auditing" /\ size[r] < Categories
    /\ Call(r, \/ History!CreateSchema(r) \/ History!ReadRunColumns(r) \/ History!AlterRuns(r)
               \/ History!InsertRun(r) \/ History!CommitRun(r))

\* A category no selected check is in completes without having been ready, and
\* has no findings.
Announced(r) ==
    \/ step[r] = "ready"
    \/ step[r] = "idle" /\ size[r] + 1 < Categories /\ size[r] + 1 \notin Yield[r]

\* category_completed of _IncrementalReportWriter, the first reporter.  The
\* final render comes when audit_completed has returned.
WriteReport(r) ==
    /\ \/ /\ Report!BeginWrite(r)
          /\ CaughtUp(r)
          /\ IF size[r] < Categories THEN Announced(r) ELSE step[r] = "done"
       \/ Report!FinishText(r)
       \/ Report!ReplaceFile(r)
    /\ UNCHANGED historyVars

\* Mutation: the database writer is the first reporter.
StoreFindingsFirst(r) ==
    /\ at[r] = "auditing"
    /\ step[r] = "ready" => batch[r] < Yielding(r, size[r] + 1)
    /\ Call(r, \/ History!ReadFindingColumns(r) \/ History!AlterFindings(r)
               \/ History!InsertFindings(r) \/ History!CommitFindings(r))

\* category_completed of AuditDatabaseWriter, the last reporter.
StoreFindings(r) ==
    /\ at[r] = "auditing"
    /\ step[r] = "ready" => ~CaughtUp(r)
    /\ Call(r, \/ History!ReadFindingColumns(r) \/ History!AlterFindings(r)
               \/ History!InsertFindings(r) \/ History!CommitFindings(r))

\* audit_completed
AuditCompleted(r) ==
    /\ at[r] = "auditing" /\ size[r] = Categories
    /\ Call(r, History!UpdateStatus(r) \/ History!CommitStatus(r))

ConvertToPdf(r) == Report!ConvertToPdf(r) /\ UNCHANGED historyVars

-----------------------------------------------------------------------------
(* The ways an audit ends early.                                           *)

\* The writer is not called again: SQLite rolls back what it had open.
Abandon(r) == IF History!Stopped(r) THEN UNCHANGED historyVars ELSE History!Crash(r)

WriteRaises(r) == Report!WriteRaises(r) /\ Abandon(r)
AuditRaises(r) == Report!AuditRaises(r) /\ Abandon(r)
Killed(r) == Report!Crash(r) /\ Abandon(r)
DatabaseBusy(r) == at[r] = "auditing" /\ Call(r, History!Busy(r))

\* What a run does by itself when nothing fails.
Proceed(r) ==
    \/ ChoosePath(r) \/ CategoryReady(r) \/ WriteReport(r)
    \/ StoreFindings(r) \/ AuditCompleted(r) \/ ConvertToPdf(r)

Next ==
    \/ Tick
    \/ \E r \in Runs : Proceed(r) \/ WriteRaises(r) \/ AuditRaises(r) \/ Killed(r) \/ DatabaseBusy(r)
    \/ Report!AllOver /\ UNCHANGED vars

Spec == Init /\ [][Next]_vars

\* A writer waits for the lock only as long as its holder takes to commit.
FairSpec == Spec /\ \A r \in Runs : SF_vars(Proceed(r))

-----------------------------------------------------------------------------
\* Every variable has its type.
TypeOK == Report!TypeOK /\ History!TypeOK

\* Reports are never behind what was delivered, temporary files are left by
\* kills only and PDFs are made of complete reports (ReportFile).
ReportsAreKept == Report!ReportsAreKept

\* The report directory is a shelf of complete documents (AtomicFile).
IsAtomic == Report!IsAtomic

\* A migration makes room for what is inserted next: no writer raises when no
\* other has been active in the same file.
AloneNeverRaises == History!AloneNeverRaises

\* A row goes from running to completed and never disappears, and what is
\* stored stays stored, whatever other runs do.
HistoryIsKept == History!HistoryIsKept

\* The two records of a run agree to within the category being recorded,
\* whichever of them failed and wherever the run was killed: a run is called
\* completed only if every batch of findings is stored, the database never
\* has findings the report on disk does not show, never calls a run completed
\* whose report lacks a category, and lacks the findings of one reported
\* category at most.  A PDF is made of completed runs only.
RecordsAgree ==
    /\ History!CompletedMeansComplete
    /\ \A r \in Runs : path[r] # NoPath /\ ~Report!Colliding(r) =>
           LET reported == Yielding(r, Report!Reported(path[r]))
               inHistory == Cardinality(stored[r])
           IN  /\ inHistory <= reported /\ reported <= inHistory + 1
               /\ rows[r] = "completed" => Report!Reported(path[r]) = Categories
               /\ pdf[path[r]] # Absent => rows[r] = "completed"

\* Every run comes to an end, however they contend for the write lock.
EveryRunEnds == \A r \in Runs : <>(at[r] \in {"finished", "failed", "crashed"})

-----------------------------------------------------------------------------
(* What the docs say and the code does not do: these do not hold.          *)

\* src/README.md:120
NeverOverwritesAnother == Report!NeverOverwritesAnother

\* analytics.py:105, 117
MigrationIsSafe == History!MigrationIsSafe
=============================================================================
