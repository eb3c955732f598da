---------------------------- MODULE AuditRunner ----------------------------
(***************************************************************************)
(* run_audit (runner.py): one pass over the registered categories on one   *)
(* PostgreSQL session, with the reporter hooks it calls on the way.        *)
(*                                                                         *)
(* A check is a pair <<c, j>>: the j-th entry of the c-th category's       *)
(* checks.  Category N + 1 is the out-of-scope category, which has no      *)
(* checks and is always reported last.  A check function either raises or  *)
(* returns a list of findings; of a finding only the facts the runner      *)
(* looks at are kept: the check it came from, whether it requires          *)
(* attestation, the outcome of that attestation, and (history) what it was *)
(* answered.                                                               *)
(*                                                                         *)
(* The CompositeReporter of cli.py fans every hook out to R reporters in   *)
(* order; a reporter that raises hides the call from those after it.       *)
(***************************************************************************)
EXTENDS Naturals, Sequences, FiniteSets, PgSession

CONSTANTS
    N,              \* how many categories have checks (the out-of-scope one is N + 1)
    NumChecks,      \* [1..N -> Nat]: the length of CategoryModule.checks
    Applicability,  \* [1..N -> {"none", "config", "query"}]
    Interactive,    \* the checks registered with interactive=True
    Slug, Bullet,   \* [Checks -> slugs], [Checks -> rubric bullets]
    FnResults,      \* the lists a check may return: per finding, requires_attestation
    Configs,        \* the run configurations considered
    NoFilter,       \* category_filter / check_filter is None
    R,              \* how many reporters the CompositeReporter fans out to
    Faults          \* which failures of the environment may happen

Categories == 1..N
Checks == UNION {{c} \X (1..NumChecks[c]) : c \in Categories}

ASSUME ShapeAssumption ==
    /\ N \in Nat /\ R \in Nat
    /\ NumChecks \in [1..N -> Nat]
    /\ Applicability \in [1..N -> {"none", "config", "query"}]
    /\ Interactive \subseteq Checks

ASSUME InputAssumption ==
    /\ FnResults \subseteq Seq(BOOLEAN)
    /\ \A cf \in Configs : cf.interactive \in BOOLEAN /\ cf.step \in BOOLEAN

VARIABLES
    config,     \* AuditConfig, and whether the CLI reporter gates categories (--step)
    pc,         \* where run_audit is
    cat,        \* the category the loop is at
    todo,       \* checks_to_run not started yet, by their position in the category
    current,    \* the check being run (0 when none)
    returned,   \* check_findings: what the current check returned
    findings,   \* the category's findings so far
    records,    \* the category's check_results so far
    results,    \* results: the CategoryResults so far
    live,       \* the line the terminal shows for each check
    seen,       \* how many category results each reporter has been handed
    ran         \* (history) the checks whose function returned normally

runVars == <<config, pc, cat, todo, current, returned, findings, records,
             results, live, seen, ran>>
vars == <<runVars, sessionVars>>

-----------------------------------------------------------------------------
(* Filters and findings.                                                   *)

Selected(c) == config.categories # NoFilter => c \in config.categories

\* _matches_check_filter: by slug, or by the displayed "NN.NN" id.
Matches(check) ==
    \/ config.checks = NoFilter
    \/ Slug[check] \in config.checks
    \/ <<check[1], Bullet[check]>> \in config.checks

ToRun(c) == {j \in 1..NumChecks[c] : Matches(<<c, j>>)}

\* The category contributes nothing to a --check filter.
Irrelevant(c) == config.checks # NoFilter /\ ToRun(c) = {}

Least(j, S) == j \in S /\ \A k \in S : j <= k

\* The runner's stamping of check_findings with the check's identity.
Stamped(j, attestations) ==
    [i \in DOMAIN attestations |->
        [check |-> j, requires |-> attestations[i], outcome |-> "none", answer |-> "none"]]

\* Mutation: rejected findings are counted too.
AllAt(fs) == DOMAIN fs

\* _visible_findings.
VisibleAt(fs) == {i \in DOMAIN fs : fs[i].outcome # "rejected"}

\* Mutation: only the first finding of a check is asked about.
UnansweredFirst(fs) == {i \in DOMAIN fs : i = 1 /\ fs[i].requires /\ fs[i].outcome = "none"}

\* The findings _apply_attestation has still to ask about.
Unanswered(fs) == {i \in DOMAIN fs : fs[i].requires /\ fs[i].outcome = "none"}

Attesting == <<cat, current>> \in Interactive /\ config.interactive

\* prompt_attestation is waiting for an answer.
AwaitingAttestation == pc = "attest" /\ Attesting /\ Unanswered(returned) # {}

\* What an answer makes of a finding: only a yes confirms it, and the end of
\* the input (EOFError: nobody is there) is taken for a no.
Attested(f, answer) ==
    [check |-> f.check, requires |-> f.requires,
     outcome |-> IF answer = "yes" THEN "confirmed" ELSE "rejected", answer |-> answer]

Result(c, st, fs, rs) == [number |-> c, status |-> st, findings |-> fs, records |-> rs]
Line(k, n) == [kind |-> k, count |-> n]

\* A person is being waited for: the --step Enter, or an attestation answer.
WaitingForHuman ==
    \/ pc = "ready" /\ config.step
    \/ AwaitingAttestation

-----------------------------------------------------------------------------
Init ==
    /\ config \in Configs
    /\ pc = "select" /\ cat = 1
    /\ todo = {} /\ current = 0 /\ returned = <<>>
    /\ findings = <<>> /\ records = <<>> /\ results = <<>>
    /\ live = [ch \in Checks |-> Line("none", 0)]
    /\ seen = [r \in 1..R |-> 0]
    /\ ran = {}
    /\ Connected

-----------------------------------------------------------------------------
(* The category loop.                                                      *)

FilteredOut ==
    /\ pc = "select" /\ cat \in Categories /\ ~Selected(cat)
    /\ cat' = cat + 1
    /\ UNCHANGED <<config, pc, todo, current, returned, findings, records,
                   results, live, seen, ran, sessionVars>>

\* Mutation: category_completed is not called for a skipped category.
SkipIrrelevantQuietly ==
    /\ pc = "select" /\ cat \in Categories /\ Selected(cat) /\ Irrelevant(cat)
    /\ results' = Append(results, Result(cat, "completed", <<>>, <<>>))
    /\ cat' = cat + 1
    /\ UNCHANGED <<config, pc, todo, current, returned, findings, records,
                   live, seen, ran, sessionVars>>

\* No reporter is told the category is ready; it is reported as completed.
SkipIrrelevant ==
    /\ pc = "select" /\ cat \in Categories /\ Selected(cat) /\ Irrelevant(cat)
    /\ results' = Append(results, Result(cat, "completed", <<>>, <<>>))
    /\ pc' = "completed"
    /\ UNCHANGED <<config, cat, todo, current, returned, findings, records,
                   live, seen, ran, sessionVars>>

\* reporter.category_ready, for a category of the loop or the out-of-scope one.
CategoryReady ==
    /\ pc = "select"
    /\ cat \in Categories => Selected(cat) /\ ~Irrelevant(cat)
    /\ pc' = "ready"
    /\ UNCHANGED <<config, cat, todo, current, returned, findings, records,
                   results, live, seen, ran, sessionVars>>

\* The hook returned (under --step: the person pressed Enter).
ReadyDone ==
    /\ pc = "ready" /\ cat \in Categories
    /\ pc' = "applicability"
    /\ UNCHANGED <<config, cat, todo, current, returned, findings, records,
                   results, live, seen, ran, sessionVars>>

\* The applicability predicate, called outside any savepoint.
Applies(answer) ==
    CASE Applicability[cat] = "none"   -> answer = TRUE
      [] Applicability[cat] = "config" -> answer = config.fingerprint
      [] Applicability[cat] = "query"  -> CanExecute

Applicable ==
    /\ pc = "applicability" /\ Applies(TRUE)
    /\ todo' = ToRun(cat) /\ findings' = <<>> /\ records' = <<>>
    /\ pc' = "loop"
    /\ UNCHANGED <<config, cat, current, returned, results, live, seen, ran, sessionVars>>

\* Mutation: a category that does not apply is left out of the results.
NotApplicableUnreported ==
    /\ pc = "applicability" /\ Applies(FALSE)
    /\ pc' = "select" /\ cat' = cat + 1
    /\ UNCHANGED <<config, todo, current, returned, findings, records,
                   results, live, seen, ran, sessionVars>>

NotApplicable ==
    /\ pc = "applicability" /\ Applies(FALSE)
    /\ results' = Append(results, Result(cat, "not_applicable", <<>>, <<>>))
    /\ pc' = "completed"
    /\ UNCHANGED <<config, cat, todo, current, returned, findings, records,
                   live, seen, ran, sessionVars>>

\* The predicate's query raises, and nothing in run_audit catches it.
ApplicabilityRaises ==
    /\ pc = "applicability" /\ Applicability[cat] = "query"
    /\ \/ ~CanExecute /\ UNCHANGED sessionVars
       \/ "applicability" \in Faults /\ StatementFails
    /\ pc' = "aborted"
    /\ UNCHANGED <<config, cat, todo, current, returned, findings, records,
                   results, live, seen, ran>>

-----------------------------------------------------------------------------
(* The check loop.                                                         *)

CheckStarted ==
    /\ pc = "loop"
    /\ \E j \in todo : Least(j, todo) /\ current' = j /\ todo' = todo \ {j}
    /\ returned' = <<>>
    /\ pc' = "started"
    /\ UNCHANGED <<config, cat, findings, records, results, live, seen, ran, sessionVars>>

\* Mutation: a session that cannot be used reads as a check that found nothing.
OpenSavepointOrSkip ==
    /\ pc = "started"
    /\ \/ EnterSavepoint /\ pc' = "running"
       \/ ~CanExecute /\ pc' = "attest" /\ UNCHANGED sessionVars
    /\ UNCHANGED <<config, cat, todo, current, returned, findings, records,
                   results, live, seen, ran>>

\* with conn.transaction():
OpenSavepoint ==
    /\ pc = "started"
    /\ \/ EnterSavepoint /\ pc' = "running"
       \/ ~CanExecute /\ pc' = "failed" /\ UNCHANGED sessionVars
    /\ UNCHANGED <<config, cat, todo, current, returned, findings, records,
                   results, live, seen, ran>>

\* A query of the check fails; the exception is on its way to __exit__.
QueryFails ==
    /\ pc = "running" /\ StatementFails
    /\ UNCHANGED runVars

\* The check's own code raises, or a query of it did, or the session is gone.
CheckRaises ==
    /\ pc = "running" /\ RollbackToSavepoint
    /\ pc' = "failed"
    /\ UNCHANGED <<config, cat, todo, current, returned, findings, records,
                   results, live, seen, ran>>

CheckReturns ==
    /\ pc = "running" /\ ReleaseSavepoint
    /\ \E attestations \in FnResults : returned' = Stamped(current, attestations)
    /\ ran' = ran \cup {<<cat, current>>}
    /\ pc' = "attest"
    /\ UNCHANGED <<config, cat, todo, current, findings, records, results, live, seen>>

\* One prompt of _apply_attestation: a person answers, or the input ends.
Attest ==
    /\ pc = "attest" /\ Attesting
    /\ \E i \in Unanswered(returned), answer \in {"yes", "no", "eof"} :
          /\ Least(i, Unanswered(returned))
          /\ returned' = [returned EXCEPT ![i] = Attested(returned[i], answer)]
    /\ UNCHANGED <<config, pc, cat, todo, current, findings, records, results,
                   live, seen, ran, sessionVars>>

\* The prompt raises (the terminal is gone): caught like a failing check.
AttestRaises ==
    /\ "hook" \in Faults
    /\ pc = "attest" /\ Attesting /\ Unanswered(returned) # {}
    /\ pc' = "failed"
    /\ UNCHANGED <<config, cat, todo, current, returned, findings, records,
                   results, live, seen, ran, sessionVars>>

ExtendFindings ==
    /\ pc = "attest" /\ ~(Attesting /\ Unanswered(returned) # {})
    /\ findings' = findings \o returned
    /\ pc' = "succeeded"
    /\ UNCHANGED <<config, cat, todo, current, returned, records, results,
                   live, seen, ran, sessionVars>>

\* The line CliProgressReporter.check_succeeded prints.
SucceededLine(fs) == Line(IF fs = <<>> THEN "passed" ELSE "completed", Len(fs))

\* reporter.check_succeeded returns, and the check's record is kept.
CheckSucceeded ==
    /\ pc = "succeeded"
    /\ live' = [live EXCEPT ![<<cat, current>>] = SucceededLine(returned)]
    /\ LET visible == Cardinality(VisibleAt(returned)) IN
         records' = Append(records,
            [check |-> current,
             status |-> IF visible # 0 THEN "findings" ELSE "passed",
             count |-> visible])
    /\ current' = 0
    /\ pc' = "loop"
    /\ UNCHANGED <<config, cat, todo, returned, findings, results, seen, ran, sessionVars>>

\* The hook raises, before or after the line: the same try catches it.
CheckSucceededRaises ==
    /\ "hook" \in Faults /\ pc = "succeeded"
    /\ live' \in {live, [live EXCEPT ![<<cat, current>>] = SucceededLine(returned)]}
    /\ pc' = "failed"
    /\ UNCHANGED <<config, cat, todo, current, returned, findings, records,
                   results, seen, ran, sessionVars>>

\* Mutation: a check that fails leaves no record.
CheckFailedUnrecorded ==
    /\ pc = "failed"
    /\ current' = 0
    /\ pc' = "loop"
    /\ UNCHANGED <<config, cat, todo, returned, findings, records, results,
                   live, seen, ran, sessionVars>>

\* Mutation: a check that fails is run again.
CheckFailedRetries ==
    /\ pc = "failed"
    /\ todo' = todo \cup {current} /\ current' = 0
    /\ pc' = "loop"
    /\ UNCHANGED <<config, cat, returned, findings, records, results,
                   live, seen, ran, sessionVars>>

\* reporter.check_failed returns, and an error record is kept.
CheckFailed ==
    /\ pc = "failed"
    /\ live' = [live EXCEPT ![<<cat, current>>] = Line("failed", 0)]
    /\ records' = Append(records, [check |-> current, status |-> "error", count |-> 0])
    /\ current' = 0
    /\ pc' = "loop"
    /\ UNCHANGED <<config, cat, todo, returned, findings, results, seen, ran, sessionVars>>

CategoryDone ==
    /\ pc = "loop" /\ todo = {}
    /\ results' = Append(results, Result(cat, "completed", findings, records))
    /\ pc' = "completed"
    /\ UNCHANGED <<config, cat, todo, current, returned, findings, records,
                   live, seen, ran, sessionVars>>

-----------------------------------------------------------------------------
(* The end of the run, and the hooks that may end it early.                *)

OutOfScope ==
    /\ pc = "ready" /\ cat = N + 1
    /\ results' = Append(results, Result(cat, "completed", <<>>, <<>>))
    /\ pc' = "completed"
    /\ UNCHANGED <<config, cat, todo, current, returned, findings, records,
                   live, seen, ran, sessionVars>>

\* Mutation: the loop does not stop after the out-of-scope category.
CategoryCompletedLoops ==
    /\ pc = "completed"
    /\ seen' = [r \in 1..R |-> seen[r] + 1]
    /\ pc' = "select" /\ cat' = cat + 1
    /\ UNCHANGED <<config, todo, current, returned, findings, records,
                   results, live, ran, sessionVars>>

\* reporter.category_completed reaches every reporter.
CategoryCompleted ==
    /\ pc = "completed"
    /\ seen' = [r \in 1..R |-> seen[r] + 1]
    /\ IF cat \in Categories
       THEN pc' = "select" /\ cat' = cat + 1
       ELSE pc' = "finish" /\ UNCHANGED cat
    /\ UNCHANGED <<config, todo, current, returned, findings, records,
                   results, live, ran, sessionVars>>

\* Reporter k + 1 raises; the k before it have been handed the result.
CategoryCompletedRaises ==
    /\ "hook" \in Faults /\ pc = "completed"
    /\ \E k \in 0..(R - 1) : seen' = [r \in 1..R |-> seen[r] + (IF r <= k THEN 1 ELSE 0)]
    /\ pc' = "aborted"
    /\ UNCHANGED <<config, cat, todo, current, returned, findings, records,
                   results, live, ran, sessionVars>>

AuditCompleted ==
    /\ pc = "finish"
    /\ pc' = "done"
    /\ UNCHANGED <<config, cat, todo, current, returned, findings, records,
                   results, live, seen, ran, sessionVars>>

\* A hook whose exception leaves run_audit: category_ready, check_started,
\* category_not_applicable (at "applicability"), check_failed, audit_completed.
\* CliProgressReporter.check_failed prints the error's text as rich markup, so
\* a text with an unmatched closing tag is enough to make it raise ("markup").
HookRaises ==
    /\ \/ "hook" \in Faults /\ pc \in {"ready", "started", "failed", "finish"}
       \/ "hook" \in Faults /\ pc = "applicability" /\ Applies(FALSE)
       \/ "markup" \in Faults /\ pc = "failed"
    /\ pc' = "aborted"
    /\ UNCHANGED <<config, cat, todo, current, returned, findings, records,
                   results, live, seen, ran, sessionVars>>

\* Ctrl-C is no Exception: nothing in run_audit catches it, at any point.
Interrupt ==
    /\ "interrupt" \in Faults /\ pc \notin {"done", "aborted"}
    /\ pc' = "aborted"
    /\ IF savepoint THEN RollbackToSavepoint ELSE UNCHANGED sessionVars
    /\ UNCHANGED <<config, cat, todo, current, returned, findings, records,
                   results, live, seen, ran>>

\* While a person is waited for, the open transaction is idle.
IdleTimeout ==
    /\ "idle" \in Faults /\ WaitingForHuman
    /\ IdleInTransactionTimeout
    /\ UNCHANGED runVars

ConnectionDrops ==
    /\ "session" \in Faults /\ pc \notin {"done", "aborted"}
    /\ SessionLost
    /\ UNCHANGED runVars

-----------------------------------------------------------------------------
\* What the program does by itself, given that the person answers prompts.
Progress ==
    \/ FilteredOut \/ SkipIrrelevant \/ CategoryReady \/ ReadyDone
    \/ Applicable \/ NotApplicable \/ ApplicabilityRaises
    \/ CheckStarted \/ OpenSavepoint \/ QueryFails \/ CheckRaises \/ CheckReturns
    \/ Attest \/ ExtendFindings \/ CheckSucceeded \/ CheckFailed \/ CategoryDone
    \/ OutOfScope \/ CategoryCompleted \/ AuditCompleted

Environment ==
    \/ AttestRaises \/ CheckSucceededRaises \/ CategoryCompletedRaises
    \/ HookRaises \/ Interrupt \/ IdleTimeout \/ ConnectionDrops

Ended == pc \in {"done", "aborted"} /\ UNCHANGED vars

Next == Progress \/ Environment \/ Ended

Spec == Init /\ [][Next]_vars

FairSpec == Spec /\ WF_vars(Progress)
-----------------------------------------------------------------------------
(* Properties.                                                             *)

Finding == [check : Nat, requires : BOOLEAN, outcome : {"none", "confirmed", "rejected"},
            answer : {"none", "yes", "no", "eof"}]
CheckResult == [check : Nat, status : {"passed", "findings", "error"}, count : Nat]
CategoryResult == [number : 1..(N + 1), status : {"completed", "not_applicable"},
                   findings : Seq(Finding), records : Seq(CheckResult)]
LiveLine == [kind : {"none", "passed", "completed", "failed"}, count : Nat]

\* Every variable has its type.
TypeOK ==
    /\ config \in Configs
    /\ pc \in {"select", "ready", "applicability", "loop", "started", "running", "attest",
                "succeeded", "failed", "completed", "finish", "done", "aborted"}
    /\ cat \in 1..(N + 1)
    /\ todo \subseteq Nat /\ current \in Nat
    /\ returned \in Seq(Finding) /\ findings \in Seq(Finding)
    /\ records \in Seq(CheckResult) /\ results \in Seq(CategoryResult)
    /\ live \in [Checks -> LiveLine]
    /\ seen \in [1..R -> Nat]
    /\ ran \subseteq Checks
    /\ SessionType

\* A failing check never leaves anything behind in the session: outside the
\* check that is running there is no savepoint, and as long as the session
\* lives its transaction accepts statements (runner.py:144-150).
SavepointIsolation ==
    /\ savepoint <=> pc = "running"
    /\ sess = "live" /\ pc \notin {"running", "aborted"} => tx = "intrans"

\* The records of a sequence are those of the given checks, once each, in order.
AccountsFor(rs, checks) ==
    /\ {rs[i].check : i \in DOMAIN rs} = checks
    /\ \A i, k \in DOMAIN rs : i < k => rs[i].check < rs[k].check

\* A completed category accounts for each check the filters select, whatever
\* that check did: raised, lost its session, was attested, or lost its hook.
EveryCheckAccounted ==
    \A i \in DOMAIN results :
        LET r == results[i] IN
        r.status = "completed" => AccountsFor(r.records, IF r.number <= N THEN ToRun(r.number) ELSE {})

\* The findings of check j that the report shows: the renderer has its own copy
\* of the rejected-finding filter (report/markdown.py:22-29).
FindingsOf(r, j) ==
    {i \in DOMAIN r.findings : r.findings[i].check = j /\ r.findings[i].outcome # "rejected"}

\* The count the report's tables show for a check that did not fail is the
\* number of its findings that the report's detail section will show.
CountsMatchFindings ==
    \A i \in DOMAIN results : \A k \in DOMAIN results[i].records :
        LET record == results[i].records[k] IN
        record.status # "error" => record.count = Cardinality(FindingsOf(results[i], record.check))

\* A check is only reported as passed or with findings if its function came
\* back from a working session, however and whenever the session was lost.
VerdictsWereEarned ==
    \A i \in DOMAIN results : \A k \in DOMAIN results[i].records :
        LET record == results[i].records[k] IN
        record.status # "error" => <<results[i].number, record.check>> \in ran

\* Attestation is neither skipped nor invented: in a report, a finding has an
\* outcome exactly when it asked for one, its check is interactive and the run
\* is; it is confirmed only by a person's yes, and it is dropped only when a
\* person said no or there was nobody to answer (the end of the input).
AnswersComplete ==
    \A i \in DOMAIN results : \A k \in DOMAIN results[i].findings :
        LET f == results[i].findings[k] IN
        /\ f.outcome # "none" <=> /\ f.requires /\ config.interactive
                                  /\ <<results[i].number, f.check>> \in Interactive
        /\ f.outcome = "confirmed" <=> f.answer = "yes"
        /\ f.outcome = "rejected" <=> f.answer \in {"no", "eof"}

\* The reporters see the report grow in step: none runs ahead of one before
\* it in the fan-out, none is ever more than one category behind the results,
\* and unless a hook is in progress or has raised they are all level.
ReportersLevel ==
    /\ \A r \in 1..R : seen[r] <= Len(results) /\ Len(results) <= seen[r] + 1
    /\ \A r, s \in 1..R : r < s => seen[s] <= seen[r]
    /\ pc \notin {"completed", "aborted"} => \A r \in 1..R : seen[r] = Len(results)

\* The plan the configuration selects, as the promise sees it.
Planned == [c \in {d \in Categories : Selected(d)} \cup {N + 1} |->
               IF c \in Categories THEN ToRun(c) ELSE {}]

Promise == INSTANCE AuditPromise WITH
    plan <- Planned, report <- results,
    status <- IF pc \in {"done", "aborted"} THEN pc ELSE "running"

\* run_audit implements AuditPromise.
KeepsPromise == Promise!Spec

\* run_audit comes to an end, given that the person answers its prompts.
Terminates == <>(pc \in {"done", "aborted"})

-----------------------------------------------------------------------------
(* What the docs say and the code does not do: none of these holds.        *)

\* runner.py:176, "one bad check must not abort the run": recording a failed
\* check never ends the run.
OneBadCheckNeverAborts == [][~(pc = "failed" /\ pc' = "aborted")]_vars

\* attestation.py:10: prompt_attestation "must never be called while a database
\* transaction is open".
NeverPromptInTransaction == AwaitingAttestation => ~(sess = "live" /\ tx # "idle")

\* models.py:61 (attestation_outcome): "None until a human responds"; the findings
\* left out of a report are those "a human attestation step explicitly rejected"
\* (runner.py:67).
OnlyHumansReject ==
    \A i \in DOMAIN results : \A k \in DOMAIN results[i].findings :
        results[i].findings[k].outcome = "rejected" => results[i].findings[k].answer = "no"

\* models.py:72: a CheckResult is "the persisted record of what
\* CliProgressReporter already shows live".
LiveMatchesPersisted ==
    \A i \in DOMAIN results : \A k \in DOMAIN results[i].records :
        LET record == results[i].records[k]
            line   == live[<<results[i].number, record.check>>] IN
        line = CASE record.status = "passed"   -> Line("passed", 0)
                 [] record.status = "findings" -> Line("completed", record.count)
                 [] record.status = "error"    -> Line("failed", 0)

\* report/markdown.py:145: a check that could not be run "contributed no
\* findings for the areas" it covers.
ErroredContributeNothing ==
    \A i \in DOMAIN results : \A k \in DOMAIN results[i].records :
        results[i].records[k].status = "error" =>
            FindingsOf(results[i], results[i].records[k].check) = {}
=============================================================================
