# integri-audit-tool: specifications and proofs

These modules model the audit tool in `src/src/integri_audit_tool`: a command
that connects to a client's PostgreSQL database (directly or through an SSH
tunnel), runs fifteen categories of read-only checks, asks the operator to
attest some findings, and writes a Markdown report, a PDF and a row in a local
analytics database. Paths below are relative to `src/src/integri_audit_tool`
unless they begin with `src/`.

The specifications are written from the code. Each definition that stands for
code is listed in `PROJECT.json` ("map") with the lines it stands for.

## 1. Inventory

| Part | State | Operations | Hard behaviour | What makes it correct |
|---|---|---|---|---|
| `runner.py` `run_audit` | results, the category's findings and records | the category loop, applicability, one savepoint per check, attestation, hooks | every call may raise; a person is waited for; the session may die | checks are isolated; every selected check is accounted for once; counts agree with findings; a run ends |
| `reporter.py`, `cli_progress_reporter.py`, `_IncrementalReportWriter`, `AuditDatabaseWriter` | what each reporter has been told | eight hooks, fanned out in order | one raises between the others | reporters stay level with the results |
| `db.py` | one connection: live or lost, in which transaction state, in a savepoint or not | connect, statements, savepoints, close | statement failures poison the transaction; idle-in-transaction timeout of 60 s | every query finds a usable transaction |
| `cli.py` `run` | options, the report's path, the with stack | path, transport, login, preflight, audit, render, convert | failures, Ctrl-C and refusals at every step | all is given back in order; STOP CONDITION; exit status 0 means a whole report |
| `cli.py` report writing | report, temporary file, PDF | write, replace, unlink, convert | kills between two steps; two audits in one directory | a reader finds a whole report; a delivered category is never lost |
| `ssh_tunnel.py` | attempt, port, ssh process | allocate, spawn, poll, probe, retry, terminate | a port raced for by other processes, ssh failing, timeouts | bounded retries, no ssh left behind |
| `analytics.py` | one SQLite file shared by audits, its schema version | create, migrate, insert, commit | concurrent migration, write lock, kills | history is kept, "completed" means complete |
| `report/markdown.py` | none (a function of the results) | six sections | each filters, flattens and sorts on its own | sections agree, rejected findings nowhere, nothing shown disappears |
| `registry.py`, filters of `runner.py`, `list-checks` | packages, `_CATEGORY_ORDER` | discover, number, select | packages, order and filters change apart over releases | one id names one check; slugs keep their meaning |
| `fingerprint_config.py`, `semantic_duplicate_detection` | a TOML rule, the client's table | load, exact match, fuzzy match | the table changes between the two queries | groups are identities; alike rows reported once |
| `indexing_strategy` | the catalog and its statistics | seven checks, eleven queries | each query has its own snapshot; advice changes what other checks see | advice does not contradict or undo itself |
| `data_quality_and_integrity` | `pg_stats`, constraints, rows | nine checks | statistics that are stale and of a sample, sign conventions, sampling in a second query, LIMITs | a finding is true of what was sampled, and of the rows as far as the sample tells; sampling accuses nobody wrongly |
| `schema_design_and_normalization_boundaries` | columns and constraints, as the role sees them | five checks | names that are not unique, privileges, samples, groups that overlap | keys are told whole and once; a repeating group is reported once and whole |
| `jsonb_structure_and_governance` | documents, CHECKs, triggers | applicability, four checks | one sample per column and check, a document that is no object | what is said of a sample is so of it |
| `lot_and_certification_traceability` | rows, links, statistics | applicability, five checks | listed in one query and read in another, LIMIT with a window count | lots named, left out and counted add up; a skipped category had nothing |
| `storage_health_and_maintenance` | tables, indexes, transactions, slots | seven checks | a probe and then a use, two methods for one question, the audit's own `now()` | a substitute overlooks nothing it could see |
| `full_text_and_structured_search_behavior` | indexes, triggers, recorded statements | applicability, five checks | the audit's statements among those recorded, with the client's names in them | what is reported is the application's, but for such a name |
| `query_patterns_and_application_interaction`, `monitoring_and_observability` | recorded statements, sessions, settings | seven checks | the same, sessions that age during the audit | the same; sessions are told truly |
| `scale_and_growth_readiness`, `security_and_access_boundaries` | tables, row-level security, roles, grants, settings | nine checks | one question asked by three queries of two categories | every table falls to exactly one of them |
| `backup_recovery_and_change_management`, `documentation_and_institutional_knowledge` | WAL archiver, relations, comments | seven checks | statistics that are reset, privileges | what the catalogs record is told as it is |
| `out_of_scope` | none | none: no check, no applicability | the category every report ends with | in `AuditRunner` |
| `port_input.py`, scripts, examples | | | | not modelled, see 8 |

Interaction: `cli.run` calls `registry`, opens the tunnel, then the connection
through it, and calls `run_audit`. `run_audit` calls check functions inside
savepoints of the connection, `prompt_attestation` outside them, and the
reporters through `CompositeReporter`; the first reporter renders and writes the
report after every category, the last one commits to SQLite. After the with
statement `run` renders once more and converts. Audits are separate processes
that share the reports directory, the SQLite file and the machine's ports; all
of them share the database with the client's own applications. The connection is
READ COMMITTED: each query of a check sees the database as it is at that moment,
while `now()` is the beginning of the one transaction an audit is. Categories
share nothing but the database, the connection and the loop.

The hazards, each at its line and with the properties against it, are listed in
`PROJECT.json` ("hazards").

## 2. Modules

| Module | Models | Correspondence |
|---|---|---|
| `PgSession` | `db.py`, psycopg's transaction states | `sess`, `tx`, `savepoint`; one action per thing that can happen to the session. Extended by `AuditRunner` and `Cli` |
| `AuditRunner` | `run_audit` with its reporters | `pc` is the line `run_audit` is at; `findings`, `records`, `results`, `todo` are its variables; every exit of every call (return, exception, Ctrl-C) is an action |
| `AuditPromise` | what a run promises, abstractly | a plan, a report that grows in order, a status. `AuditRunner` implements it |
| `AuditRunnerProofs` | theorems about `AuditRunner` | section 6 |
| `Cli` | `run`, preflight, login, the with stack | composes `PgSession` and `SshTunnel`; `run_audit` is here a number of categories, each written to the report |
| `SshTunnel` | `open_tunnel` | one action per step of an attempt; ssh and other processes of the machine are external. Run inside `Cli` |
| `CliProofs` | theorems about `Cli` | section 6 |
| `ReportFile` | `_write_text_atomically`, `_IncrementalReportWriter`, final render, PDF | a process per audit; a text is who rendered it and how many results it has. Run inside `Recording` |
| `AtomicFile` | what an atomic write promises | `ReportFile` implements it |
| `Analytics` | `AuditDatabaseWriter` and SQLite's locking | DDL is autocommitted statement by statement; DML holds the write lock until commit or close. Run inside `Recording` |
| `Recording` | the reporters of an audit and `run` after it | composes `ReportFile` and `Analytics` in the order `CompositeReporter` calls them; an exception in one ends the audit in the other, a kill ends both |
| `RecordingProofs` | theorems about `Recording` | section 6 |
| `ReportRender` | `render` | a document is the findings, counts and claims each section shows; a severity is its rank |
| `Registry` | `discover_categories`, filters, `list-checks` | releases change packages and order one step at a time; an auditor notes a filter and runs it later |
| `Fingerprint` | the rule file, the fingerprint expression, both duplicate checks | texts are sequences of characters so that normalizing, joining and comparing do what the SQL does; trigram similarity is a parameter |
| `IndexingStrategy` | all seven checks | each query is an operator on the catalog; a finding is its subject; building an index scans its table, which `seq_scan` counts |
| `RowSampling` | 06.02, 06.03, 06.09 | constraints and JSONB columns are listed in one query and sampled in one query each |
| `FindingsProofs` | theorems about the five modules above: `ReportRender`, `Registry`, `Fingerprint`, `IndexingStrategy`, `RowSampling` | section 6 |
| `Categories` | one category at a time, or two that share their sources | composes the modules below; a behaviour chooses which |
| `UsageCategories` | what the five categories below that read the database's use share | extended by `Categories`; names what any of their audits may meet |
| `CategoryChecksProofs` | the loop, for every category | section 6 |
| `UsageCategoriesProofs`, `CatalogCategoriesProofs`, `CategoriesProofs` | theorems about `Categories` | section 6 |
| `CategoryChecks` | `run_audit`'s loop over one category's checks | a check is the queries it makes; the client may act between any two of them |
| `Samples` | `SELECT ... LIMIT` without ORDER BY | any sub-bag of the rows of that size |
| `Statements` | `pg_stat_statements` and who may read it | a text is words that stay and constants, which become placeholders; among the recorded ones are the audit's own, those of fixed text and those that sample rows, with the client's names in them (`SamplingDef`) |
| `ColumnStatistics` | 06.01, 06.04 to 06.08 | the thresholds of the code; ANALYZE draws a sample, which is all rows of a small table (`Drawn`), estimates the number of values from it (`Estimated`) and keeps PostgreSQL's two sign conventions for `n_distinct` |
| `SchemaDesign` | Schema Design & Normalization Boundaries | a name is a sequence of tokens; the role's privileges decide what `information_schema` shows it |
| `JsonbGovernance` | JSONB Structure & Governance | a document is its keys and their value types, or no object |
| `Traceability` | Lot & Certification Traceability | rows have lot and certificate values or none |
| `StorageHealth` | Storage Health & Maintenance | a table has live and dead rows, their bytes and free space: a measurement divides bytes, an estimate rows; ratios are compared crosswise in integers, two fifths of an estimate as Python compares a Decimal with a float (`Severity`) |
| `SearchBehavior` | Full-Text & Structured Search Behavior | an index is the columns it is on and those its text mentions |
| `QueryActivity` | Query Patterns & Application Interaction, Monitoring & Observability | times are minutes since the audit's transaction began |
| `GrowthAndAccess` | Scale & Growth Readiness, Security & Access Boundaries | a table is its kind, its row-level security and its grants |
| `RecordKeeping` | Backup, Recovery & Change Management, Documentation & Institutional Knowledge | the archiver is the sequence of its attempts since the last reset |

An `MC` module gives a specification its small instance. Operators whose comment
begins with "Mutation:" are altered forms of the definition below them; they are
no part of the specification, and `PROJECT.json` ("mutants") says which property
each would break.

## 3. Runs

`runner` checks `TypeOK`, which is proved, as is that of `Recording`. The other
modules state a `TypeOK` too, as documentation of their variables; their runs
are spent on the properties about behaviour.

All passing runs check deadlock; a finished system has an explicit stuttering
action. Times are for two workers.

| Run | Question | Size |
|---|---|---|
| `runner` | Is each check isolated, every selected check accounted for, every verdict earned by a check that really returned, every finding attested exactly where it should be, `AuditPromise` kept, and does a run end, whatever raises and whenever the session dies? | 1.37 M states, 2 min |
| `runner_prompt` | Are findings put to a person outside transactions, as `attestation.py` demands? No | counterexample |
| `recording` | With two audits on one directory and one SQLite file of any earlier version, kills, failures and lock timeouts at any step: is a report always whole and never behind what was delivered, is history kept, does "completed" mean complete, do the report and the database agree to within the category being recorded, does a lone audit never raise, does every run end? | 206 k, 40 s |
| `cli` | Under all options, answers and failures, with a contested tunnel port: order of unwinding, no ssh left, bounded retries, STOP CONDITION, honest success, termination | 223 k |
| `render` | Do the sections of every report, partial and final, agree with each other and the results? | 19 k |
| `registry` | Over three releases: do slugs keep their meaning, do ids select what list-checks showed, and only one check each? | 647 k |
| `fingerprint` | For every table of up to three rows and nine rule files: are groups exactly the equal identities and alike rows reported by exactly one check? | 456 k |
| `indexing` | On a catalog that changes between queries: no index both missing and present, adding an advised index only removes findings, but for the scans it is built with, dropping an unused one does not make its table scan-heavy | 457 k, 1 min |
| `indexing_columns` | Does the composite-index query return at least two columns of each index? No | counterexample |
| `sampling` | Are counts honest at the LIMIT and shares of the sample taken, are validated constraints left alone, does sampling find what the listing announces? | 1.6 M, 40 s |
| `categories` | In each of twelve categories, on a database that may change between any two queries: is what is reported so of what the check could see, told once and whole; is what a check cannot see said to be missing; is a check lost to nothing else; is what is called the application's the application's; does doing what a finding says settle it? | 661 k, 90 s |
| `categories_keys` | Does a read-only role see the declared foreign keys? No | counterexample |

Each category of `categories` asks the database in several queries, by checks that
know nothing of each other, while a client may change it between any two of them.
The history variable `past` keeps the databases there were since the category
began, and the properties say what can be said of such an audit: a finding is true
of one of those moments, and what was so at all of them is reported. On a database
nobody changed that is an equivalence. Where the code does better, the property is
stronger: `LotsAreNamedHonestly` has the total and the lots shown of one moment.
Most definitions of section 5 are stated of a database that held still
(`Steady`), so that no race is to blame for what refutes them.

### Bounds, and why they suffice

- `runner`: three categories with checks, one per kind of applicability (none,
  by configuration, by query), plus out-of-scope; the first has two checks, one
  of them interactive, so that a check precedes, follows and neighbours a failed
  one. Check functions return no finding, a plain one, or three of which two
  need attestation. Each attestation is a yes, a no or the end of the input.
  Three reporters are the most `cli.py` builds. Thirteen
  configurations: every flag combination, and category and check filters by
  number, slug and id. Nothing in `run_audit` looks at more than the current
  check and category, and the theorems hold for every size.
- `recording`: two audits (a migrator and a rival; a path shared or not), two
  slugs and two seconds; three categories give first, middle and last write, of
  which one audit has findings in two and the other in one; the SQLite file is
  absent or lacks any of two columns of `audit_runs` and one of `findings`, which
  stand for the code's lists of them. A third audit of the analytics file adds
  states and no behaviour: a migrator looks at what is there, not at who put it.
- `cli`: three attempts as in the code, two ports (one to lose, one to retry on),
  two polls, two categories, all options the code branches on.
- `render`: two categories of two checks and seven outcomes that have every
  severity and attestation state; the summary names three, the code five, so
  that the cut is reached.
- `fingerprint`: three rows (a pair and a third that joins it or not), values
  that spell one identity three ways, a near one, the separator, and none; one
  write by the client; the fuzzy cap at two.
- `indexing`: six indexes, one of every shape the queries tell apart, on three
  tables of which two share a name; two changes at any point; a building counts
  one or two scans (`BuildScans`), enough to reach the threshold or to stop short of it.
- `sampling`: three constraints, one of them composite, up to three rows per
  value with the LIMIT at two; JSONB tables below, between and above the sample
  sizes; two changes between any two queries.
- `categories`: for each category its own small databases (`MCCategories`), every
  subset of the features its checks tell apart around each threshold: documents
  and samples of 50 and 52 rows, ages a minute on either side of the limit,
  every combination of extension, preloading and role. One change between any
  two queries reaches every pair of snapshots a check can see; of `statistics`
  three, enough for load, ANALYZE and fix. Live rows in `storage` are of one byte and
  dead ones of one or five, so that a measurement is above and below the
  estimate. Tables in `statistics` have 10, 20 and 200 rows, with `SampleSize` 20 in
  the place of ANALYZE's thirty thousand: below it, equal and above; `SampleShapes` bounds
  what a sample may show to five shapes, with all, some and none of the nulls
  and values estimated as too many and too few. Two sampling statements have a word
  looked for in a name (`SamplingDef`). Categories share no variable, so a
  behaviour of one of them at a time loses nothing.
- `registry`: three categories, one in two versions, an order of up to four
  entries, three releases.

Every counter that could grow (the clock, writes, changes, releases, attempts) is
capped in its action's guard by the constant its module names for it.

### Fairness

- `AuditRunner!FairSpec`: `WF(Progress)`. `run_audit` is sequential code that goes
  on, and the person at the terminal answers eventually. Nothing is assumed of
  the environment.
- `Cli!FairSpec`: `WF(Run)`. The same for the command, including the bounded wait
  for the tunnel; ssh and other processes may do nothing, or contend for ever.
- `Recording!FairSpec`: `SF` of each audit's own steps. SQLite retries a locked
  statement within its busy timeout, so a writer that could go on again and again
  does. `DatabaseBusy` covers the case in which it gives up. Weak fairness would not
  do: the other audit takes and frees the lock in between.

## 4. Findings

Three runs violate what the sources say:

- `runner_prompt` (`NeverPromptInTransaction`). `attestation.py:10` says a prompt
  "Must never be called while a database transaction is open", and
  `_apply_attestation` is called after the check's savepoint for that reason. But
  the SET statements of `connect_read_only` (db.py:57-60) already opened a
  transaction that nothing commits, so every finding is put to the person inside it. A pause
  of more than 60 s ends the session; every later check is recorded as an error,
  and the next applicability query ends the run.
- `indexing_columns` (`CompositeHasTwoColumns`). The query counts `indkey`'s
  entries before the join drops expressions, so an index on a column and an
  expression comes back with one column and `columns[1]` raises: the whole
  unused-indexes check is lost.
- `categories_keys` (`DeclaredKeysAreSeen`). The query for undeclared foreign keys
  reads `information_schema.table_constraints`, which shows a constraint to the
  table's owner and to roles with a privilege other than SELECT on it. Its comment
  (schema_design_and_normalization_boundaries/queries.py:25-28) says the columns
  reported "aren't covered by any declared FOREIGN KEY constraint", and cli.py:293
  recommends "a read-only role": to that role every column named `..._id` is
  reported, declared or not.

## 5. Divergences

Claims of the docs or comments that TLC refutes as well, each a definition at the
end of its module. To see the counterexample, name it in a copy of the `.cfg` of
the module's passing run (`INVARIANT`, or `PROPERTY` where noted): `recording` for
`ReportFile` and `Analytics`, `cli` for `SshTunnel`. Those of the categories are seen
in a module that extends `MCCategories` and defines, say,
`Claim == category = "storage" => Storage!EstimateIsOfTotal` (the names of the instances
are those of `Categories`), with `Selected = {"storage"}`.

| Definition | Module | Claim | What the code does |
|---|---|---|---|
| `OneBadCheckNeverAborts` (PROPERTY) | `AuditRunner` | runner.py:176 "one bad check must not abort the run" | `check_failed` prints the error as rich markup without `escape()` (cli_progress_reporter.py:141): a text with an unmatched closing tag raises out of the except clause |
| `OnlyHumansReject` | `AuditRunner` | models.py:61 `attestation_outcome` is "None until a human responds"; runner.py:67 what is left out of a report are findings "a human attestation step explicitly rejected" | where the input ends, `prompt_attestation` returns False (attestation.py:42-43), and the finding is recorded as rejected (runner.py:59): nobody has answered, and it is gone from the report and its counts |
| `LiveMatchesPersisted` | `AuditRunner` | models.py:72 "the persisted record of what CliProgressReporter already shows live" | the terminal counts rejected findings, the record does not |
| `ErroredContributeNothing` | `AuditRunner` | report/markdown.py:145 errored checks "contributed no findings" | findings are added before `check_succeeded`, which may raise in the same try |
| `SignOffIsNamed` | `Cli` | cli.py:270-271 "requiring explicit sign-off (and a named authorizer, for traceability) before proceeding" | nothing typed for the name, or the end of the input there, is no name (attestation.py:51-55), and the audit of production begins all the same, "authorized by: not named" (cli.py:320) |
| `NeverPromptInTransaction` | `Cli` | attestation.py:10 | preflight asks after its two queries, in their transaction |
| `LostRaceIsDetected` (PROPERTY) | `Cli`, `SshTunnel` | ssh_tunnel.py:202 "a lost race is detected" | any listener answers the probe while ssh is still logging in |
| `AlwaysTerminated` | `Cli`, `SshTunnel` | ssh_tunnel.py:194 "always terminated on exit, success or error" | an exception of the probe itself passes no handler |
| `PdfFailureIsGraceful` (PROPERTY) | `Cli` | pdf_export.py:7-11 failures to convert "are treated the same way by callers" | what pandoc said is printed as markup (cli.py:480) and may raise |
| `NeverOverwritesAnother` (PROPERTY) | `Recording`, `ReportFile` | src/README.md:120 "never overwrites a prior report" | a path is slug and second; `replace` does not look |
| `MigrationIsSafe` | `Recording`, `Analytics` | analytics.py:105 "Safe to call every time" | two audits that migrate at once: the slower ALTER raises |
| `IncompleteIsVisible` | `ReportRender` | report/markdown.py:126 "an incomplete audit must be visibly incomplete" | the incremental report a failed run leaves says every check ran |
| `UnassessedIsNotClean` | `ReportRender` | report/markdown.py:128 a missing check is "never evidence that it's low-risk" | a category all of whose checks raised shows "No findings." |
| `AlreadyCovered` | `Fingerprint` | semantic_duplicate_detection/queries.py:104 | a row written between the two queries is in neither |
| `OrderNeedsTwoKeys` | `IndexingStrategy` | indexing_strategy/queries.py:164 | INCLUDE columns count as ordered |
| `GroupsAreOfOneTable` | `IndexingStrategy` | indexing_strategy/queries.py:96 "on the same table" | grouped by name without schema |
| `MoreIndexesThanThis` | `IndexingStrategy` | indexing_strategy/queries.py:49 "More indexes than this" | compared with `>=` |
| `OppositeReadings` | `ColumnStatistics` | data_quality_and_integrity/queries.py:57 "opposite readings of the same underlying data" | an ANALYZE in between puts a column in both |
| `EnumLikeIsReported` | `ColumnStatistics` | data_quality_and_integrity/queries.py:180 a negative `n_distinct` means high cardinality | small tables store a fraction for few values too |
| `UncheckedIsReported` | `ColumnStatistics` | data_quality_and_integrity/queries.py:176 "text with no CHECK" | a CHECK on `order_status` is taken for one on `status` |
| `OrderIsExact` | `Registry` | src/README.md:197 a loud ValueError if list and slugs "ever disagree" | compared as sets: a duplicate entry goes unnoticed |
| `CategoryFilterIsStable` | `Registry` | src/README.md:197 slugs are what `-c` refers to | `-c` takes numbers only |
| `AnyGroupIsFlagged` | `SchemaDesign` | schema_design_and_normalization_boundaries/checks.py:358 "flags any group of" numbered columns | one more column of the pattern, as a total next to its months, hides the group |
| `UnvalidatedIsReported` | `JsonbGovernance` | jsonb_structure_and_governance/checks.py:152 "no CHECK constraint referencing it" | a CHECK on `meta_data` is taken for one on `data` |
| `DuplicatesAreCounted` | `Traceability` | lot_and_certification_traceability/checks.py:7 "with a total count when truncated" | duplicates have none: what the LIMIT cuts off is not told |
| `NullLotsAreCovered` | `Traceability` | its queries.py:177-180 another check "already covers that row" | that check has a threshold, and reads statistics there may be none of |
| `SkippedShowsNoSign` | `Traceability` | its checks.py:37 skipped when the schema "shows no sign" of lots | lot columns of a materialized view are no sign to it, and its first check would report them |
| `EstimateIsOfTotal` | `StorageHealth` | storage_health_and_maintenance/queries.py:75-77 "dead rows / total rows" | divides by the live rows |
| `TwoFifthsIsHigh` | `StorageHealth` | storage_health_and_maintenance/checks.py:64-66 VACUUM or tuning "at or above" 40% | an estimate of exactly 40% is a Decimal, which is less than the float 0.40: its severity is medium |
| `CreateExtensionIsEnough` | `StorageHealth` | its queries.py:11-14 "CREATE EXTENSION alone is enough" | the functions are granted to few roles; the others' check raises, without falling back |
| `IndexFilterIsEnough` | `StorageHealth` | its queries.py:116 "pgstatindex only supports B-tree indexes" | nor those of a partitioned table: one loses the check |
| `EmptyIndexesAreLeftOut` | `StorageHealth` | its queries.py:138 `avg_leaf_density IS NOT NULL` | the density of an empty index is NaN; it is reported as nan% bloated |
| `HotTablesAreFlagged` | `StorageHealth` | its queries.py:46 "idx_scan + seq_scan" | `idx_scan` is NULL for a table without an index, and so is the sum |
| `LargerMeansLarger` | `StorageHealth` | its checks.py:119 "larger than the table" | one of equal size is reported |
| `LongTransactionsAreSeen` | `StorageHealth` | its queries.py:54 "open longer than this is worth surfacing" | `now()` is when the audit began: what became so old since is not seen |
| `RawIsRaw` | `SearchBehavior` | full_text_and_structured_search_behavior/queries.py:138-140 wrappers are "explicitly excluded" | `phraseto_tsquery()` is not |
| `UnindexedIsReported` | `SearchBehavior` | its queries.py:40-43 an index "mentioning the column" | an index on `body_old` hides the unindexed `body` |
| `UnsyncedIsPopulated` | `SearchBehavior` | its queries.py:63-68 "manually populated by application code" | so is said of a view's column |
| `SkippedFindsNothing` | `SearchBehavior` | its queries.py:8-11 "application/query code, not schema" | whether these checks are made is decided by the schema |
| `CandidatesAreTheApplications` | `QueryActivity` | src/README.md:221 a query must "avoid containing the substring it searches for" | the audit's probe for extensions is a point lookup, made again and again |
| `PagingIsTheApplications` | `QueryActivity` | the same line of src/README.md | the statements that sample rows contain the client's names (schema_design_and_normalization_boundaries/queries.py:219-230 and the sampling queries of four more categories): that on a column such as `utc_offset`, once recorded, matches `ILIKE '%OFFSET%'` and is reported as the application's |
| `IdleSessionsAreSeen` | `QueryActivity` | query_patterns_and_application_interaction/queries.py:61-64 existence is not under-reported | the state of another role's session is NULL to an ordinary one |
| `UsedIsConnections` | `QueryActivity` | monitoring_and_observability/checks.py:73 "max_connections in use" | background processes are counted |
| `EnabledMeansRecording` | `QueryActivity` | its queries.py:80 `pg_stat_statements_enabled` | created is not loaded: it records nothing |
| `SlowIsTheApplications` | `GrowthAndAccess` | scale_and_growth_readiness/queries.py:30-33 the "tool's own introspection queries" are left out | by schema names which are constants, and placeholders in the recorded text |
| `PublicGrantsAreSeen` | `GrowthAndAccess` | security_and_access_boundaries/queries.py:124 "PUBLIC grants on any table with a PII-shaped column" | a grant of DELETE alone does not show the columns |
| `TenantTablesAreSeen` | `GrowthAndAccess` | its queries.py:7-10 "tenant-shaped columns without RLS enabled" | partitioned tables are left out |
| `EncryptionIsTheServers` | `GrowthAndAccess` | its queries.py:162 "is a cluster-wide setting" | the value read is the session's, which role or database may have set |
| `EverMeansEver` | `RecordKeeping` | backup_recovery_and_change_management/checks.py:69-72 "has ever been recorded" | the statistics may have been reset |
| `SendersAreReplicas` | `RecordKeeping` | its queries.py:9-10 "whether anything is currently streaming" stands for a replica | a base backup streams, too |
| `CommentedTablesAreSeen` | `RecordKeeping` | documentation_and_institutional_knowledge/checks.py:37 "No table-level documentation found" | comments of partitioned tables are not looked for |
| `UnexplainedIsReported` | `RecordKeeping` | its queries.py:3-4 "Everything here reads pg_description ... and pg_class" | the columns come from `information_schema`, which hides those of tables without a privilege |

The listener that answers the probe in ssh's place (`LostRaceIsDetected`), indexes
grouped by a table name that two schemas share (`GroupsAreOfOneTable`) and an
ANALYZE between two checks of the same column (`OppositeReadings`) are hazards told
only here: the code does not guard against them.

## 6. Proofs

Eight modules of proofs, each about every value of the constants its
assumptions allow; TLC evaluates the assumptions in the runs.

### The runner (`AuditRunnerProofs`)

For every number of reporters, categories and checks, every set of
configurations and every combination of failures:

- `TypeCorrect`: `Spec => []TypeOK`;
- `ChecksAreIsolated`: `Spec => []SavepointIsolation`. Whenever the audit is about
  to query, the transaction is usable unless the session is gone;
- `ReportIsComplete`: `Spec => []EveryCheckAccounted`. A completed category has one
  record for every selected check, in order;
- `PromptsAreInTransaction`: whenever a person is waited for, for an answer or at the
  `--step` gate, and the session is alive, a transaction is open. It is the general
  form of the finding above: no configuration avoids it.

Assumed are `ShapeAssumption` (sizes are naturals, applicability is one of three
kinds, interactive checks are checks) and `InputAssumption` (a check returns a
sequence of findings).

None of the four is inductive alone. `IInv` is the conjunction of

- `TypeOK`;
- `AlwaysInTransaction`: `tx # "idle"`. The implicit transaction the connection
  opens with is never ended by a statement of the run. Without it nothing
  excludes that rolling back a savepoint fails, or that a prompt waits outside a
  transaction;
- `SavepointIsolation`;
- `Positions`: inside the loops, `cat` is a category, `todo` and `current` are among
  its selected checks, and the check being run precedes those still to come;
- `AccountedSoFar`: the records of the current category and the checks still to
  do make up the selection, the records being those before the current check.
  It is the loop invariant from which `EveryCheckAccounted` follows when the
  category is appended to the results;
- `EveryCheckAccounted`.

`InitIInv` and `StepIInv` show it inductive; the step is split by conjunct
(`TypeStep`, `IsolationStep`, `PositionsStep`, `AccountedSoFarStep`,
`EveryCheckAccountedStep`), each with one step per action.

### What the runner reports (`AuditRunnerProofs`)

From the same assumptions, on top of `IInv`:

- `ReportersAreLevel`: every reporter has been told of every category of the
  results, and a failing one leaves those after it exactly one behind. The
  strengthening `Level` says which are behind at which point of the fan-out;
- `VerdictsAreEarned`: what is recorded as passed or with findings has really
  returned. `Earned` says it of the records so far and of the current check;
- `AnswersAreComplete`: what needs an answer has an outcome, confirmed by a yes and
  rejected by a no or the end of the input. `Answers`: the findings kept
  so far are answered; those the current check returned carry its number, and
  none of them is answered before the person is asked;
- `CountsAreRight`: the count of a record is the number of visible findings of its
  check. `Counted` adds that what has no record yet has no findings, and that at
  the moment of recording the visible findings of the current check are those it
  returned. Findings of a check are found again among all findings by a bijection
  (`ShownOfItself`), since a count of a sequence is no recursive definition here;
- `RunKeepsPromise`: `Spec => KeepsPromise`, the refinement of `AuditPromise`.
  `OnPlan` says that the categories reported are those before `cat`, `HonestSoFar`
  that the category at work keeps the promise so far. `StepShape` and
  `ReportedEntry` sort the steps by what they do to the report: nothing, append
  one entry, end the run. Each is a stutter or a step of the promise.

### The two records (`RecordingProofs`)

For every number of audits and categories, every yield, every older database and
every combination of faults. Assumed are `RecordingAssumption` (sizes, and that the
out-of-scope category has no findings) and `FilesAssumption` (an absent or torn file
is no document).

- `IsBothRecords`: `Spec => Report!Spec /\ History!Spec`. Every step of the composition
  is a step of each record's own specification, or leaves it alone;
- `ReportsKept` and `ReportsAreAtomic`: `ReportsAreKept`, and that reports implement
  `AtomicFile`. `Files` says what is where in the directory by where each audit is;
- `HistoryKept`: rows and findings never go away, a completed row stays so. `Stored`
  says which batches are in the database and in the open transaction, `Migrating`
  whose columns are still to be added;
- `AloneIsSafe`: `AloneNeverRaises`. A migration is a read and then one ALTER per
  column, safe only if what was missing is still missing: `Undisturbed` says it is
  while nobody else has begun, and shows why a rival breaks it
  (`MigrationIsSafe` in section 5);
- `TheRecordsAgree`: `RecordsAgree`. Its strengthening `Abreast` says, for each place
  of `run_audit`'s loop, how many batches are stored for the categories written;
  `YieldingNext` and its neighbours count the categories with findings;
- `TypesAreRight`.

### The command (`CliProofs`)

For every number of categories, ports, attempts and polls, all options and every
combination of failures (`CliAssumption`: at least one category and attempt):

- `AllIsGivenBack`: `NothingStaysOpen`, the order of unwinding, and that no ssh is
  left but for the probe's own exception. `TunnelInv` and `ConnectionInv` say by where
  `run` is which of the two is open, and that the connection is open only within
  the tunnel;
- `TheGateIsKept`: `StopConditionHolds`;
- `SuccessMeansComplete`: `SuccessIsComplete`. `OutcomeInv` carries the number of
  categories written from the audit through rendering and converting.

### One category's loop (`CategoryChecksProofs`)

`CategoryChecks` is instantiated by every category but that on `pg_stats`, and so
are its lemmas: they are about any list of checks, any queries that depend on
the check and the database, any answers, and any changes of the client.

A property of a finished check relates its findings to databases that are gone.
It is not inductive: the findings grow query by query, each asked of another
database, and the list of queries itself may have been read from a third.
`LoopInv` has what is missing: of the check at work, `AtWork`, that the queries
still to do are the end of a list planned at some moment and that what was
gathered are the answers to its beginning, each given at some moment
(`Gathered`); of those before it, `Explained`, that their findings are such answers to
the whole list, or that they raised and one of the queries may; of those after
it, that they have found nothing yet.

- `LoopInit` and `LoopStep` show it inductive, given that checks are listed once
  (`Distinct`), queries are sequences (`Listings`) and an exception is not the mark of a
  check still to come;
- `ToldByQueries` is what follows for the findings of a check; `ByOneQuery`,
  `ByTwoQueries`, `ToldByTwoQueries` and `CompleteWithin` are its forms for the lists of
  queries there are; `InOrder` says that later checks are told after earlier ones,
  `SkippedIsInapplicable` what a skipped category was.

### What a report says (`FindingsProofs`)

Five modules whose safety properties are all proved here. What they share is about
sequences: a check flattens lists of lists, filters them and counts what is left, and
the community modules define these by folds. A fold over data is a recursive
function, and its value on every input would be an induction with an operator for
parameter. The proofs do without: a function given outright (`OnceEach`, `Marks`) is
shown to satisfy the fold's equation, and that a function on a finite set is the only
one to do so follows from an induction over sets, of the elements at which two agree
(`UpTo`, `SetsUp`, `FoldExists`). From there `FlattenHas`, `SiftedHas` and
`SumCountsMarks` say what the operators return.

#### Sampling rows

For all tables, constraints, limits and clients. Assumed is that rows of one value
are at most `MaxRows` (`LoadsAssumption`), that a column has no more empty documents than
documents (`DocumentsAssumption`), that the code's limits are positive and the JSONB
sample can be large enough to be judged (`LimitsAssumption`), and that the marks of a
check that is to come or has raised are no findings (`OutcomesAssumption`).

- `SamplesAreHonest`: `SamplesAreToldHonestly`, whatever the client does between listing
  and sampling. `RowsInv` says that a validated constraint has no orphans, which
  every write, constraint and drop of the client keeps (`ClientKeepsRows`); with it a
  sample that finds an orphan is of a constraint not validated at that moment, and
  `SampleIsOfOrphans` says what the LIMIT leaves of their number. `Witnessed` keeps it
  for every finding after its rows are gone;
- `SamplingCovers`: `SamplingCoversUnvalidated`. Only the last state says what it says;
  `SamplingCurrent` has it of every state before: in a database that holds still, the findings
  so far are those of the positions already sampled that have orphans, and both
  listings are what they would be now.

#### Duplicates

For all tables, rules and similarities. Assumed are `TextsAssumption`
(finitely many rows, no text is the mark of a missing one, and lower case keeps
lengths) and `RulesAssumption` (a rule names columns of the table).

- `GroupsByIdentity`: `GroupsAreIdentities`. `FingerprintTells` is its core: two rows have
  one fingerprint exactly if their normalized fields are the same, provided no field has
  the separator in it. Joining is a fold; that it loses nothing is `JoinedTells`, an
  induction over the number of fields whose step splits a text at its first separator
  (`SeparatorSplits`). That normalizing keeps a text free of what is excluded is
  `NormalizesWithin`;
- `AlikeOnce`: `AlikeIsReportedOnce`, whatever similar means. `DuplicatesIInv` says that
  both checks follow the rule of the one file, and that the exact check saw the present
  table if nobody has written since.

#### Indexes

For all catalogs with finitely many indexes at first (`UniverseAssumption`: keys are
sequences of names or expressions, of tables there are) and whatever the client does
between two queries:

- `ChecksAgree`: `MissingIsNotPresent`. A state in which two checks contradict each
  other need not follow from one in which they do: `IndexingCurrent` says of every
  query that has been asked, in a database that holds still, that it returned what it
  would return now, and then the queries exclude each other (`MissingLeadsNone`);
- `AdviceStaysSafe`: `AdviceIsSafe`. The use of a table is a sum over its indexes.
  `SumCountsMarks` turns that sum into the cardinality of a set, and `CountersInv` says
  that an index that does not exist has not been scanned, so one just created adds
  nothing to the index scans and one never scanned takes nothing away (`UnscannedCountsNothing`,
  `OneMoreIndex`). What remains of its building are its sequential scans, at most
  `BuildScans` of one table (thresholds are naturals, `BoundsAssumption`): only that table can
  be reported for them, and only if it was that near.

#### Sections of the report

For every number of categories and checks and every outcome of theirs
(`RenderAssumption`, `OutcomesAreTyped`):

- `SectionsTellTheSame`: `SectionsAgree`; `CompletenessIsTold`: `CompletenessMatchesTests`;
  `NothingIsLost`: `NothingDisappears`.

`RenderIInv` says that the results are ordered by category, and that the document, if
there is one, is the render of all of them or of all but the last. It follows that a
property of a document is one of the results it was made from: `Agreement` is what
`render` does with any ordered results. Each section filters and flattens on its own
(`FoundAreTold`, `DetailHas`, `IdsHas`, `TestsHas`, `PhaseHas`), and the counts agree because
each finding of the results has an identity of its own, which `StampHas` reads off the
runner's numbering.

#### The registry

- `SlugsKeepTheirMeaning`: `SlugsAreStable`, without assumptions, for all packages,
  orders and releases. `NumberingKeeps` shows that numbering neither adds nor drops a
  check, `SelectedBySlug` that a filter of slugs selects the same checks whatever
  the numbers; the invariant adds that a filter is of one kind and is run only
  after it was written down.
- `IdsKeepTheirMeaning`: `IdsMeanWhatTheyShow`. It needs that bullets are unique in a
  package (`BulletsAssumption`), which each package sees to for itself and nothing
  enforces, and that there are finitely many packages, or nobody could order
  them. `OneNumberEach` shows that a number is one category's though the order may
  name a category twice: `list.index` takes the first position, and a position
  holds one slug. The invariant `IdInv` adds that slugs are unique among the
  installed packages and that what was shown stays so until the next release.

### The categories (`UsageCategoriesProofs`, `CatalogCategoriesProofs`, `CategoriesProofs`)

For all schemas, indexes, statements, roles, settings, rows, limits and numbers of
changes, as far as these assumptions allow:

- `StartsAssumption`, `CatalogStartsAssumption`: an audit begins on a database, that is a
  record whose fields have the types the catalogs give them (`IsDatabase` in each
  module). That the client's changes keep it one is proved, not assumed;
- `ColumnsAssumption`, `DefinitionsAssumption`: schemas are finite; a column's name is a
  sequence of tokens and its own in its table; a constraint is on columns of its table,
  and only a foreign key's name may occur again, in another table; a CHECK on a column
  names it;
- `TextsAssumption`: an index's text names the columns it is on;
- `InsertsAssumption`, `LoadsAssumption`: what the client writes are rows of the table
  and documents of finitely many keys;
- `BoundsAssumption`, `CountsAssumption`: limits and counts are naturals, and unknown
  statistics are no counts;
- `OutcomesAssumption`, `SampledOutcomesAssumption`: an exception is no set of findings. TLC cannot ask whether a
  model value is a subset of a set, so the configurations of `MCCategories` give
  `Raised` as a set with one member no finding equals.

The invariant of an audit, `Inv`, is for each category its `LoopInv` and that every
database since the category began is one (`LotsInv`, `StorageInv`, ...). For lots that includes
that a column with an enforced unique index repeats no lot, which PostgreSQL sees to at
every insert (`LotsRowAdded`). Two of them need more:

- `WalInv`: the two checks of WAL archiving are told by two queries, of which the
  second sees the archiver later than the first. That the second can then not say
  less needs that the archiver's counts only grow until a reset (`RecordsCount`) and
  that what was gathered is not ahead of them;
- `StatisticsInv`: as long as the catalog has not changed since the first check, what
  a check on `pg_stats` has found is what its query would say now.

TLC has checked `Inv` on all states of `MCCategories` before it was proved.

| Theorem | Property | Argument |
|---|---|---|
| `EveryAuditKeepsInv` | | `InvInit`, `InvStep`: a step is one of the category's loop |
| `CatalogFindingsAreTrueAlways` | `CatalogFindingsAreTrue` | `SchemaKeys`: a foreign key is found by joining names, and names are unique but for foreign keys'. `GrowthIsolation`: the three queries' conditions exclude each other at one moment, so a table told in two ways was seen at two. `RecordsToldTruly`: the last attempt is the later of two times, `RecordsLast` |
| `SkippedCategoriesAreEmpty` | `SkippedIsEmpty` | `LotsSkipped`: every query needs a column the applicability looks for |
| `AbsenceIsToldAlways` | `AbsenceIsTold` | `StorageMethodsAgree`, with `StorageShares` between bytes and rows, `SearchProbes`, `ActivityProbes`, `GrowthSources`: a query is asked only if its probe was answered, so a check that raised was probed at one moment and lost at another |
| `SessionsAreToldTrulyAlways` | `SessionsAreToldTruly` | `StorageHorizon`, `ActivitySessions`: ages are measured from one `now()`, so what was over a limit when the audit began stays so |
| `StatementsAreTheApplicationsAlways` | `StatementsAreTheApplications` | `SearchFindings`, `ActivityPaging`: what is left of the audit's own fixed texts without their constants has none of the words (`SearchOwn`, `ActivityOwn`), so one that has a word has it from a name of the client |
| `FreshStatisticsTellTheTruthAlways` | `FreshStatisticsTellTheTruth` | `StatisticsDrawn`: what ANALYZE may have drawn of the rows, of all of them or of a sample, among it that a column without a value twice is estimated as such (`NoneTwiceIsAllRows`). `StatisticsTruth`: both sign conventions of `n_distinct` give the same comparison |
| `FixesSettleAlways` | `FixesSettle` | `StatisticsFixes`: one step per remedy; no invariant is needed |
| `RepeatsAreExactAlways` | `RepeatsAreExact` | the code finds families position by position, the property speaks of largest sets of columns that pairwise differ in one token. `ApartTogether`: a column one token away from each of two that are one token apart differs from them where they differ. Hence `FamilyIsLargest`, `LargestIsFamily`, and `FamilyVaries`: the tokens that differ are those the code looks at |
| `SampledFindingsAreTrueAlways` | `SampledFindingsAreTrue` | `SchemaShapes`: rows are told apart by number, so those of two kinds add up to at most all (`SchemaRows`) and no two shapes have nine tenths: the order of the shapes makes no difference. `JsonbSampled`: what a sample has the column has (`JsonbSamples`, `JsonbReadings`), and each query's answer is found again in the findings (`JsonbTold`) |
| `LotsAreNamedHonestlyAlways` | `LotsAreNamedHonestly` | `LotsHonest`: ORDER BY with LIMIT gives each row the place of its rank, and ranks differ (`RanksDiffer`, `OrderByLists`), so nothing before the cut is left out and nothing after it named (`FirstOfOrdered`) |

Two checks can be told by different databases, and most of the properties are
what remains true then. Where a check's findings are those of a database nobody
changed, `ToldByQueries` gives the equivalence the properties state for it.

## 7. Only model-checked

Liveness: `Terminates`, `Ends` and `EveryRunEnds`, each under the fairness of section 3.
The prover has no rules for fairness, which is about ENABLED. Every other property
that a passing run checks is a theorem of section 6.

Of the modules' `TypeOK` only those of `AuditRunner` and `Recording` are stated as
theorems; the inductive invariants of the others have the types their proofs need.

What a theorem assumes, TLC evaluates on the constants of the runs. That the modules
are what the code does is proved nowhere: it is what "map" in `PROJECT.json` is for.

## 8. Not modelled

- Wording, layout, labels, warnings and the progress display; the signal-based
  stall of the reporter.
- TOML's and SQL's syntax, the text of the DSN, `port_input.py`'s range check.
- Shell scripts, the synthetic database and the example rule file.
- How much ssh writes to its undrained stderr pipe: a pipe that fills blocks ssh
  and with it the tunnel's traffic, which is to the model a session that is lost.
- A signal sent to the command alone. Ctrl-C at the terminal reaches ssh too, and
  `Cli` models that; Ctrl-C during unwinding is left out.

Simplifications that are not omissions of code:

- One schema, but where names collide across schemas (`IndexingStrategy`); one JSONB column in `RowSampling` (`JsonbGovernance` has
  two); statements of other databases of the cluster are left out of `Statements`.
- PostgreSQL caches what the statistics views show within a transaction, and an
  audit is one transaction. The models let statistics move between any two
  queries, which allows more behaviours than the server does.
- `n_live_tup` is taken for the number of live rows in `ColumnStatistics`, where
  the server keeps an estimate of it; what ANALYZE samples is modelled.
- The audit's own sampling queries scan tables, too, and raise `seq_scan`; they
  are not among the steps of `IndexingStrategy`'s client.
- A unique index that is partial does not keep a column unique. To the queries of
  `Traceability` it is like an invalid one, which the model has.
- Who confirmed a finding is text of the report, and no check asks for it.

## 9. Plan

Done: the session, the runner with its promise, report files and analytics
composed, command and tunnel composed, rendering, registry, all fifteen
categories; a theorem for every safety and action property a passing run checks.

Left:

1. Names that collide across schemas in the categories that leave them out.
2. Ctrl-C during unwinding.
