---------------------------- MODULE ReportRender ----------------------------
(***************************************************************************)
(* The text of the report (report/markdown.py): render turns the category  *)
(* results there are so far into a document of sections, again after every *)
(* category and once more at the end.                                      *)
(*                                                                         *)
(* A document is kept as what its sections show: which findings, in which  *)
(* order, and which counts and claims.  A severity is its rank in          *)
(* _SEVERITY_RANK, 0 for Critical to 4 for Informational.  The results are *)
(* those run_audit can hand over: a check that raised may have left        *)
(* findings behind (see ErroredContributeNothing of AuditRunner).          *)
(***************************************************************************)
EXTENDS Naturals, Sequences, FiniteSets, SequencesExt

CONSTANTS
    N,          \* the categories with checks are 1..N; N + 1 is out of scope
    K,          \* checks of a category
    Outcomes,   \* what a check may do: [raised : BOOLEAN, found : a sequence of
                \* [severity : 0..4, requires : BOOLEAN, outcome : ...]]
    Top,        \* how many findings the executive summary names
    NoFile

ASSUME RenderAssumption == N \in Nat /\ K \in Nat /\ Top \in Nat

ASSUME OutcomesAreTyped ==
    \A o \in Outcomes :
        /\ o.raised \in BOOLEAN
        /\ o.found \in Seq([severity : 0..4, requires : BOOLEAN, outcome : {"none", "confirmed", "rejected"}])

VARIABLES
    results,    \* the CategoryResults so far
    category,   \* the category the audit is at
    status,     \* "running", "writing" (a result is in, its render is not), "done", "aborted"
    file        \* the document on disk

renderVars == <<results, category, status, file>>

-----------------------------------------------------------------------------
(* What run_audit hands over.                                              *)

\* A finding is known by its category, its check and its place there.
Stamp(c, j, found) ==
    [i \in DOMAIN found |->
        [id |-> <<c, j, i>>, severity |-> found[i].severity,
         requires |-> found[i].requires, outcome |-> found[i].outcome]]

Rejected(f) == f.outcome = "rejected"

\* The findings among fs that are in S, in their order.
Those(fs, S) == FlattenSeq([i \in DOMAIN fs |-> IF fs[i] \in S THEN <<fs[i]>> ELSE <<>>])

\* _visible_findings, here and in runner.py.
VisibleFindings(fs) == Those(fs, {f \in ToSet(fs) : ~Rejected(f)})

\* The CheckResult of one check.
Record(c, j, o) ==
    LET visible == Len(VisibleFindings(Stamp(c, j, o.found))) IN
    [check |-> <<c, j>>,
     status |-> IF o.raised THEN "error" ELSE IF visible > 0 THEN "findings" ELSE "passed",
     count |-> IF o.raised THEN 0 ELSE visible]

Completed(c, out) ==
    [number |-> c, status |-> "completed", notes |-> FALSE,
     findings |-> FlattenSeq([j \in 1..K |-> Stamp(c, j, out[j].found)]),
     records |-> [j \in 1..K |-> Record(c, j, out[j])]]

Empty(c, st, hasNotes) ==
    [number |-> c, status |-> st, notes |-> hasNotes, findings |-> <<>>, records |-> <<>>]

-----------------------------------------------------------------------------
(* The sections.                                                           *)

\* _all_findings: sorted() is stable.
AllFindings(rs) ==
    LET all == VisibleFindings(FlattenSeq([i \in DOMAIN rs |-> rs[i].findings]))
        OfRank(k) == Those(all, {f \in ToSet(all) : f.severity = k})
    IN FlattenSeq([k \in 1..5 |-> OfRank(k - 1)])

AllCheckResults(rs) == FlattenSeq([i \in DOMAIN rs |-> rs[i].records])

IdsOf(fs) == [i \in DOMAIN fs |-> fs[i].id]

ExecutiveSummary(rs) ==
    LET fs == AllFindings(rs)
        CountOf(k) == Cardinality({i \in DOMAIN fs : fs[i].severity = k})
    IN [total |-> Len(fs),
        counts |-> [k \in 0..4 |-> CountOf(k)],
        urgent |-> CountOf(0) + CountOf(1),
        first |-> SubSeq(fs, 1, IF Len(fs) < Top THEN Len(fs) ELSE Top)]

\* Mutation: a check that found something counts as not completed.
AuditCompletenessStrict(rs) ==
    LET crs == AllCheckResults(rs)
        errored == {i \in DOMAIN crs : crs[i].status # "passed"}
    IN [attempted |-> Len(crs), passed |-> Len(crs) - Cardinality(errored),
        claim |-> IF crs = <<>> THEN "no checks were run"
                  ELSE IF errored = {} THEN "every check ran" ELSE "incomplete"]

AuditCompleteness(rs) ==
    LET crs == AllCheckResults(rs)
        errored == {i \in DOMAIN crs : crs[i].status = "error"}
    IN [attempted |-> Len(crs), passed |-> Len(crs) - Cardinality(errored),
        claim |-> IF crs = <<>> THEN "no checks were run"
                  ELSE IF errored = {} THEN "every check ran" ELSE "incomplete"]

FindingsSummaryTable(rs) == IdsOf(AllFindings(rs))

TestsPerformed(rs) == AllCheckResults(rs)

CategoryDetail(r) ==
    LET fs == VisibleFindings(r.findings) IN
    [number |-> r.number,
     body |-> IF r.status = "not_applicable" THEN "N/A"
              ELSE IF r.notes THEN "notes"
              ELSE IF fs = <<>> THEN "No findings." ELSE "findings",
     entries |-> IF r.status = "not_applicable" \/ r.notes THEN <<>> ELSE IdsOf(fs),
     marked |-> {i \in DOMAIN fs : fs[i].requires /\ fs[i].outcome = "none"}]

\* Sorted by the number of the category.
DetailedFindings(rs) ==
    LET byNumber == FlattenSeq([n \in 1..(N + 1) |-> Those(rs, {r \in ToSet(rs) : r.number = n})]) IN
    [i \in DOMAIN byNumber |-> CategoryDetail(byNumber[i])]

\* Mutation: High findings wait for the second phase, Medium for none.
RemediationPhasesShifted(rs) ==
    LET fs == AllFindings(rs)
        Phase(ranks) == IdsOf(Those(fs, {f \in ToSet(fs) : f.severity \in ranks}))
    IN <<Phase({0}), Phase({1}), Phase({3, 4})>>

RemediationPhases(rs) ==
    LET fs == AllFindings(rs)
        Phase(ranks) == IdsOf(Those(fs, {f \in ToSet(fs) : f.severity \in ranks}))
    IN <<Phase({0, 1}), Phase({2}), Phase({3, 4})>>

Render(rs) ==
    [summary |-> ExecutiveSummary(rs), completeness |-> AuditCompleteness(rs),
     table |-> FindingsSummaryTable(rs), tests |-> TestsPerformed(rs),
     detail |-> DetailedFindings(rs), phases |-> RemediationPhases(rs)]

-----------------------------------------------------------------------------
RenderInit == results = <<>> /\ category = 1 /\ status = "running" /\ file = NoFile

\* --category leaves the category out.
FilteredOut ==
    /\ status = "running" /\ category <= N
    /\ category' = category + 1
    /\ UNCHANGED <<results, status, file>>

Deliver(r) ==
    /\ status = "running"
    /\ results' = Append(results, r)
    /\ category' = category + 1
    /\ status' = "writing"
    /\ UNCHANGED file

CategoryCompleted ==
    category <= N /\ \E out \in [1..K -> Outcomes] : Deliver(Completed(category, out))

\* Not applicable, or none of its checks selected by --check.
CategoryEmpty ==
    category <= N /\ \E st \in {"not_applicable", "completed"} : Deliver(Empty(category, st, FALSE))

OutOfScope == category = N + 1 /\ Deliver(Empty(category, "completed", TRUE))

\* Mutation: the writer renders the category that has just been completed.
WriteReportLatest ==
    /\ status = "writing"
    /\ file' = Render(<<results[Len(results)]>>)
    /\ status' = IF category = N + 2 THEN "done" ELSE "running"
    /\ UNCHANGED <<results, category>>

\* The incremental writer's render, and for the last category the final one.
WriteReport ==
    /\ status = "writing"
    /\ file' = Render(results)
    /\ status' = IF category = N + 2 THEN "done" ELSE "running"
    /\ UNCHANGED <<results, category>>

\* The audit or the writing fails; the file stays as it is.
Abort ==
    /\ status \in {"running", "writing"}
    /\ status' = "aborted"
    /\ UNCHANGED <<results, category, file>>

RenderOver == status \in {"done", "aborted"} /\ UNCHANGED renderVars

RenderNext == FilteredOut \/ CategoryCompleted \/ CategoryEmpty \/ OutOfScope \/ WriteReport \/ Abort \/ RenderOver

RenderSpec == RenderInit /\ [][RenderNext]_renderVars

-----------------------------------------------------------------------------
There == file # NoFile

\* Every variable has its type, and with it the document its sections.
RenderTypeOK ==
    /\ category \in 1..(N + 2) /\ Len(results) < category
    /\ status \in {"running", "writing", "done", "aborted"}
    /\ There => /\ Len(file.phases) = 3 /\ file.summary.counts \in [0..4 -> Nat]
                /\ \A i \in DOMAIN file.detail :
                      file.detail[i].body \in {"N/A", "notes", "No findings.", "findings"}

\* The findings a report shows in detail.
Detailed == UNION {ToSet(file.detail[i].entries) : i \in DOMAIN file.detail}

\* Five sections select, order and count findings each in its own way: they
\* all show the same ones, each of them once, and the totals are their number.
\* None is one a person rejected, though the results rendered carry those too,
\* and the count beside a check that did not raise is that of its findings.
SectionsAgree ==
    There =>
        LET shown == Cardinality(Detailed)
            counts == file.summary.counts IN
        /\ ToSet(file.table) = Detailed /\ Len(file.table) = shown
        /\ UNION {ToSet(file.phases[p]) : p \in 1..3} = Detailed
        /\ Len(file.phases[1]) + Len(file.phases[2]) + Len(file.phases[3]) = shown
        /\ file.summary.total = shown
        /\ file.summary.urgent = Len(file.phases[1])
        /\ counts[0] + counts[1] + counts[2] + counts[3] + counts[4] = shown
        /\ \A i \in DOMAIN results : \A f \in ToSet(results[i].findings) :
              Rejected(f) => f.id \notin Detailed
        /\ \A i \in DOMAIN file.tests :
              LET cr == file.tests[i] IN
              cr.status # "error" => cr.count = Cardinality({d \in Detailed : <<d[1], d[2]>> = cr.check})

\* The completeness section tells of an error exactly when the tests table
\* shows one, and its figures are that table's.
CompletenessMatchesTests ==
    There =>
        LET bad == {i \in DOMAIN file.tests : file.tests[i].status = "error"} IN
        /\ (file.completeness.claim = "incomplete") = (bad # {})
        /\ file.completeness.attempted = Len(file.tests)
        /\ file.completeness.passed + Cardinality(bad) = Len(file.tests)

\* What an earlier render showed, a later one of the same run shows as well.
NothingDisappears ==
    [][There => /\ ToSet(file.table) \subseteq ToSet(file'.table)
                /\ ToSet(file.tests) \subseteq ToSet(file'.tests)]_renderVars

-----------------------------------------------------------------------------
(* What the docs say and the code does not do: none of these holds.        *)

\* markdown.py:126: "an incomplete audit must be visibly incomplete": the
\* report a failed audit leaves does not claim that every check ran.
IncompleteIsVisible ==
    status = "aborted" /\ There => file.completeness.claim # "every check ran"

\* markdown.py:128: "A missing check is evidence that an area wasn't assessed,
\* never evidence that it's low-risk": no category all of whose checks raised
\* is shown with "No findings."
UnassessedIsNotClean ==
    There => \A i \in DOMAIN file.detail :
        LET own == {t \in ToSet(file.tests) : t.check[1] = file.detail[i].number} IN
        own # {} /\ (\A t \in own : t.status = "error") => file.detail[i].body # "No findings."
=============================================================================
