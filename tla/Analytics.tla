----------------------------- MODULE Analytics -----------------------------
(***************************************************************************)
(* The analytics database (analytics.py): several audits, each a process   *)
(* with an AuditDatabaseWriter, record themselves in one SQLite file that  *)
(* an older version of the tool may have created.                          *)
(*                                                                         *)
(* Python's sqlite3 runs DDL in autocommit mode, one statement at a time,  *)
(* and opens a transaction at the first INSERT or UPDATE, which holds the  *)
(* file's write lock until commit or until the connection is closed.       *)
(* A statement that finds the file locked waits; when the wait is over it  *)
(* raises, and a reporter's exception ends the audit (see AuditRunner).    *)
(*                                                                         *)
(* The four columns findings has gained are migrated in one step each, so  *)
(* the model keeps as many of them as FindingColumns says.                 *)
(***************************************************************************)
EXTENDS Naturals, FiniteSets

CONSTANTS
    Runs,           \* the audits
    Batches,        \* [Runs -> how many of the audit's categories have findings]
    RunColumns,     \* columns audit_runs has gained since the first version
    FindingColumns, \* columns findings has gained since the first version
    NoFile,         \* the database has not been created yet
    Faults          \* "crash", "busy"

VARIABLES
    runCols,    \* NoFile, or the gained columns audit_runs has
    findCols,   \* NoFile, or the gained columns findings has
    lock,       \* the runs with an open write transaction
    rows,       \* committed audit_runs: [Runs -> "none", "running", "completed"]
    stored,     \* committed findings: [Runs -> the batches stored]
    step,       \* [Runs -> where the writer is]
    missing,    \* [Runs -> columns its PRAGMA table_info did not show]
    batch       \* [Runs -> the batch being stored, or the last one stored]

vars == <<runCols, findCols, lock, rows, stored, step, missing, batch>>
dbVars == <<runCols, findCols, rows, stored>>

\* A database of an older version has some of the columns, a fresh one all.
Init ==
    /\ \/ runCols = NoFile /\ findCols = NoFile
       \/ runCols \in SUBSET RunColumns /\ findCols \in SUBSET FindingColumns
    /\ lock = {}
    /\ rows = [r \in Runs |-> "none"]
    /\ stored = [r \in Runs |-> {}]
    /\ step = [r \in Runs |-> "idle"]
    /\ missing = [r \in Runs |-> {}]
    /\ batch = [r \in Runs |-> 0]

Go(r, from, to) == step[r] = from /\ step' = [step EXCEPT ![r] = to]

\* The statement can have the write lock.
Unlocked(r) == lock \subseteq {r}

-----------------------------------------------------------------------------
(* _ensure_run_row, called by the first category_ready.                    *)

\* CREATE TABLE IF NOT EXISTS creates all columns, and adds none.
CreateSchema(r) ==
    /\ Go(r, "idle", "schema") /\ Unlocked(r)
    /\ runCols' = IF runCols = NoFile THEN RunColumns ELSE runCols
    /\ findCols' = IF findCols = NoFile THEN FindingColumns ELSE findCols
    /\ UNCHANGED <<lock, rows, stored, missing, batch>>

\* PRAGMA table_info(audit_runs)
ReadRunColumns(r) ==
    /\ Go(r, "schema", "alter_runs")
    /\ missing' = [missing EXCEPT ![r] = RunColumns \ runCols]
    /\ UNCHANGED <<dbVars, lock, batch>>

\* ALTER TABLE audit_runs ADD COLUMN, for a column the PRAGMA did not show.
AlterRuns(r) ==
    /\ step[r] = "alter_runs" /\ Unlocked(r)
    /\ \E c \in missing[r] :
          /\ missing' = [missing EXCEPT ![r] = @ \ {c}]
          /\ IF c \in runCols
             THEN step' = [step EXCEPT ![r] = "raised"] /\ UNCHANGED runCols
             ELSE runCols' = runCols \cup {c} /\ UNCHANGED step
    /\ UNCHANGED <<findCols, lock, rows, stored, batch>>

\* INSERT INTO audit_runs names status: without the column it raises.
InsertRun(r) ==
    /\ step[r] = "alter_runs" /\ missing[r] = {} /\ Unlocked(r)
    /\ IF RunColumns \subseteq runCols
       THEN /\ step' = [step EXCEPT ![r] = "commit_run"]
            /\ lock' = {r}
       ELSE step' = [step EXCEPT ![r] = "raised"] /\ UNCHANGED lock
    /\ UNCHANGED <<dbVars, missing, batch>>

CommitRun(r) ==
    /\ Go(r, "commit_run", "ready")
    /\ rows' = [rows EXCEPT ![r] = "running"]
    /\ lock' = {}
    /\ UNCHANGED <<runCols, findCols, stored, missing, batch>>

-----------------------------------------------------------------------------
(* category_completed, for a category with findings.                       *)

\* Mutation: findings is not migrated.
ReadFindingColumnsNot(r) ==
    /\ batch[r] < Batches[r] /\ Go(r, "ready", "alter_findings")
    /\ UNCHANGED <<dbVars, lock, missing, batch>>

\* PRAGMA table_info(findings)
ReadFindingColumns(r) ==
    /\ batch[r] < Batches[r] /\ Go(r, "ready", "alter_findings")
    /\ missing' = [missing EXCEPT ![r] = FindingColumns \ findCols]
    /\ UNCHANGED <<dbVars, lock, batch>>

AlterFindings(r) ==
    /\ step[r] = "alter_findings" /\ Unlocked(r)
    /\ \E c \in missing[r] :
          /\ missing' = [missing EXCEPT ![r] = @ \ {c}]
          /\ IF c \in findCols
             THEN step' = [step EXCEPT ![r] = "raised"] /\ UNCHANGED findCols
             ELSE findCols' = findCols \cup {c} /\ UNCHANGED step
    /\ UNCHANGED <<runCols, lock, rows, stored, batch>>

InsertFindings(r) ==
    /\ step[r] = "alter_findings" /\ missing[r] = {} /\ Unlocked(r)
    /\ IF FindingColumns \subseteq findCols
       THEN /\ step' = [step EXCEPT ![r] = "commit_findings"]
            /\ lock' = {r}
            /\ batch' = [batch EXCEPT ![r] = @ + 1]
       ELSE step' = [step EXCEPT ![r] = "raised"] /\ UNCHANGED <<lock, batch>>
    /\ UNCHANGED <<dbVars, missing>>

\* Mutation: a batch replaces the one stored before.
CommitFindingsReplace(r) ==
    /\ Go(r, "commit_findings", "ready")
    /\ stored' = [stored EXCEPT ![r] = {batch[r]}]
    /\ lock' = {}
    /\ UNCHANGED <<runCols, findCols, rows, missing, batch>>

CommitFindings(r) ==
    /\ Go(r, "commit_findings", "ready")
    /\ stored' = [stored EXCEPT ![r] = @ \cup {batch[r]}]
    /\ lock' = {}
    /\ UNCHANGED <<runCols, findCols, rows, missing, batch>>

-----------------------------------------------------------------------------
(* audit_completed, and the ways a writer stops.                           *)

UpdateStatus(r) ==
    /\ batch[r] = Batches[r] /\ Unlocked(r) /\ Go(r, "ready", "commit_status")
    /\ lock' = {r}
    /\ UNCHANGED <<dbVars, missing, batch>>

\* Mutation: the connection is left open with its transaction.
CommitStatusLeaks(r) ==
    /\ Go(r, "commit_status", "done")
    /\ UNCHANGED <<dbVars, lock, missing, batch>>

CommitStatus(r) ==
    /\ Go(r, "commit_status", "done")
    /\ rows' = [rows EXCEPT ![r] = "completed"]
    /\ lock' = {}
    /\ UNCHANGED <<runCols, findCols, stored, missing, batch>>

Stopped(r) == step[r] \in {"done", "raised", "crashed"}

\* The process ends without another handler of this module being called: it is
\* killed, or something else raised out of run_audit.  SQLite rolls back.
Crash(r) ==
    /\ "crash" \in Faults /\ ~Stopped(r)
    /\ step' = [step EXCEPT ![r] = "crashed"]
    /\ lock' = lock \ {r}
    /\ UNCHANGED <<dbVars, missing, batch>>

\* "database is locked": another run's transaction outlasts the wait.
Busy(r) ==
    /\ "busy" \in Faults /\ ~Unlocked(r)
    /\ step[r] \in {"idle", "alter_runs", "alter_findings", "ready"}
    /\ step' = [step EXCEPT ![r] = "raised"]
    /\ UNCHANGED <<dbVars, lock, missing, batch>>

Own(r) ==
    \/ CreateSchema(r) \/ ReadRunColumns(r) \/ AlterRuns(r) \/ InsertRun(r) \/ CommitRun(r)
    \/ ReadFindingColumns(r) \/ AlterFindings(r) \/ InsertFindings(r) \/ CommitFindings(r)
    \/ UpdateStatus(r) \/ CommitStatus(r)

AllStopped == \A r \in Runs : Stopped(r)

Next == (\E r \in Runs : Own(r) \/ Crash(r) \/ Busy(r)) \/ (AllStopped /\ UNCHANGED vars)

Spec == Init /\ [][Next]_vars

-----------------------------------------------------------------------------
\* Every variable has its type.
TypeOK ==
    /\ runCols \in (SUBSET RunColumns) \cup {NoFile}
    /\ findCols \in (SUBSET FindingColumns) \cup {NoFile}
    /\ lock \subseteq Runs
    /\ rows \in [Runs -> {"none", "running", "completed"}]
    /\ \A r \in Runs : stored[r] \subseteq 1..Batches[r] /\ batch[r] \in 0..Batches[r]
    /\ step \in [Runs -> {"idle", "schema", "alter_runs", "commit_run", "ready", "alter_findings",
                          "commit_findings", "commit_status", "done", "raised", "crashed"}]
    /\ missing \in [Runs -> SUBSET (RunColumns \cup FindingColumns)]

\* Findings are only stored for a run whose row is there (SQLite does not
\* enforce the foreign key here), a batch never before those reported earlier.
\* The row says completed only if every batch is stored, and a run that raised
\* or was killed leaves it at 'running' (or has none).
CompletedMeansComplete ==
    \A r \in Runs :
        /\ stored[r] # {} => rows[r] # "none" /\ \A b \in stored[r] : 1..b \subseteq stored[r]
        /\ rows[r] = "completed" => stored[r] = 1..Batches[r]
        /\ step[r] \in {"raised", "crashed"} => rows[r] # "completed"

\* A row that exists keeps its meaning: it goes from running to completed and
\* never disappears, and what is stored stays stored, whatever other runs do.
HistoryIsKept ==
    [][\A r \in Runs :
          /\ rows[r] = "completed" => rows'[r] = "completed"
          /\ rows[r] # "none" => rows'[r] # "none"
          /\ stored[r] \subseteq stored'[r]]_vars

\* Alone, a migration makes room for what is inserted next: no writer raises
\* when no other is active in the same file.
AloneNeverRaises ==
    \A r \in Runs : step[r] = "raised" => \E q \in Runs \ {r} : step[q] # "idle"

-----------------------------------------------------------------------------
(* What the docs say and the code does not do: this does not hold.         *)

\* analytics.py:105, 117: the migration is "safe to call every time".
MigrationIsSafe == \A r \in Runs : step[r] # "raised"
=============================================================================
