--------------------------- MODULE CategoryChecks ---------------------------
(***************************************************************************)
(* A category of checks as run_audit goes through it (runner.py:104-177)   *)
(* while the client goes on using the database.  A check is the queries    *)
(* its function makes: the connection is READ COMMITTED, so each of them   *)
(* sees the database as it is at that moment.  A query that raises takes   *)
(* with it what the check's earlier queries found.                         *)
(*                                                                         *)
(* What the queries are and answer is the category's: each module that    *)
(* instantiates this one gives the parameters for its checks.              *)
(***************************************************************************)
EXTENDS Naturals, Sequences, Functions

CONSTANTS
    Checks,             \* the slugs of the category's checks, in order
    Applicable(_),      \* its applicability, of a database
    Queries(_, _),      \* [check, database]: what the check asks, as its first query plans it
    Answers(_, _, _),   \* [check, query, database]: the sets of findings a query may add, or Raised
    Starts,             \* the databases an audit may meet
    Changed(_),         \* what the client's next change may make of a database
    Pending,            \* a check that has not ended
    Raised,             \* the exception a query leaves its check with
    MaxChanges          \* how often the client changes something during the category

VARIABLES
    database,
    check,      \* the place in Checks of the check that runs; 0 before applicability
    todo,       \* the queries it has still to make
    partial,    \* the findings of its earlier queries, or Pending if it has made none
    found,      \* [check slug -> its findings, Pending or Raised]
    past,       \* (history) the databases there were since the category began, before this one
    changes

vars == <<database, check, todo, partial, found, past, changes>>

Slugs == Range(Checks)
Running == check \in DOMAIN Checks
Current == Checks[check]

Init ==
    /\ database \in Starts
    /\ check = 0 /\ todo = <<>> /\ partial = Pending
    /\ found = [slug \in Slugs |-> Pending]
    /\ past = {} /\ changes = 0

-----------------------------------------------------------------------------
AskApplicability ==
    /\ check = 0
    /\ check' = IF Applicable(database) THEN 1 ELSE Len(Checks) + 1
    /\ UNCHANGED <<database, todo, partial, found, past, changes>>

\* The check is called: its first query tells it which others to make.
BeginCheck ==
    /\ Running /\ partial = Pending
    /\ todo' = Queries(Current, database)
    /\ partial' = {}
    /\ UNCHANGED <<database, check, found, past, changes>>

\* The check's outcome is recorded and the next one's turn comes.
EndCheck(outcome) ==
    /\ found' = [found EXCEPT ![Current] = outcome]
    /\ check' = check + 1 /\ todo' = <<>> /\ partial' = Pending
    /\ UNCHANGED <<database, past, changes>>

RunQuery ==
    /\ Running /\ partial # Pending /\ todo # <<>>
    /\ \E answer \in Answers(Current, Head(todo), database) :
          IF answer = Raised
          THEN EndCheck(Raised)
          ELSE /\ partial' = partial \cup answer /\ todo' = Tail(todo)
               /\ UNCHANGED <<database, check, found, past, changes>>

ReturnFindings ==
    /\ Running /\ partial # Pending /\ todo = <<>>
    /\ EndCheck(partial)

\* The client's own work goes on between any two queries.
Change ==
    /\ Running /\ changes < MaxChanges
    /\ database' \in Changed(database) \ {database}
    /\ changes' = changes + 1 /\ past' = past \cup {database}
    /\ UNCHANGED <<check, todo, partial, found>>

Over == check > Len(Checks) /\ UNCHANGED vars

Next == AskApplicability \/ BeginCheck \/ RunQuery \/ ReturnFindings \/ Change \/ Over

-----------------------------------------------------------------------------
\* The databases a query of the category may have met: what was so in all of
\* them was so for each query, and each query answers for one of them.
Moments == past \cup {database}
Steady == past = {}

\* The check has ended with findings, perhaps none.
Told(slug) == found[slug] \notin {Pending, Raised}
Skipped == check > Len(Checks) /\ \A slug \in Slugs : found[slug] = Pending
=============================================================================
