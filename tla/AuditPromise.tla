---------------------------- MODULE AuditPromise ----------------------------
(***************************************************************************)
(* What an audit run promises the reader of its report, without saying how *)
(* it is computed: the categories of the plan are reported one at a time,  *)
(* in the order of their numbers; a category that applies accounts for     *)
(* every check planned for it, once, in order, with a count that is zero   *)
(* exactly when the check is not listed as having findings; the run is     *)
(* done only when the whole plan has been reported; and it may be cut      *)
(* short at any moment, which never takes back what was already reported.  *)
(***************************************************************************)
EXTENDS Naturals, Sequences

VARIABLES
    plan,     \* [category number -> the set of checks planned for it]
    report,   \* the category results produced so far
    status    \* "running", "done", "aborted"

vars == <<plan, report, status>>

\* The numbers of the plan that the report has not reached yet.
Outstanding == DOMAIN plan \ {report[i].number : i \in DOMAIN report}

\* One record per planned check, in the order of the checks.
Accounts(records, checks) ==
    /\ {records[i].check : i \in DOMAIN records} = checks
    /\ \A i, k \in DOMAIN records : i < k => records[i].check < records[k].check

\* A count is only ever attached to a check that has findings.
HonestCounts(records) ==
    \A i \in DOMAIN records : (records[i].count = 0) <=> (records[i].status # "findings")

ValidEntry(entry) ==
    /\ entry.number \in Outstanding
    /\ \A c \in Outstanding : entry.number <= c
    /\ \/ entry.status = "not_applicable" /\ entry.records = <<>>
       \/ /\ entry.status = "completed"
          /\ Accounts(entry.records, plan[entry.number])
          /\ HonestCounts(entry.records)

Init == report = <<>> /\ status = "running"

ReportCategory ==
    /\ status = "running"
    /\ Len(report') = Len(report) + 1
    /\ SubSeq(report', 1, Len(report)) = report
    /\ ValidEntry(report'[Len(report')])
    /\ UNCHANGED <<plan, status>>

Finish ==
    /\ status = "running" /\ Outstanding = {}
    /\ status' = "done"
    /\ UNCHANGED <<plan, report>>

Abort ==
    /\ status = "running"
    /\ status' = "aborted"
    /\ UNCHANGED <<plan, report>>

Next == ReportCategory \/ Finish \/ Abort

Spec == Init /\ [][Next]_vars
=============================================================================
