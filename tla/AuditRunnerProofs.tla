------------------------- MODULE AuditRunnerProofs -------------------------
(***************************************************************************)
(* Proofs about AuditRunner, for every number of categories and checks,    *)
(* every configuration, every behaviour of the check functions and every   *)
(* combination of faults.                                                  *)
(***************************************************************************)
EXTENDS AuditRunner, FiniteSetTheorems, FunctionTheorems, TLAPS

\* run_audit is inside the check loop of the category `cat`.
InLoop == pc \in {"loop", "started", "running", "attest", "succeeded", "failed"}

\* The check that has left checks_to_run and has no record yet.
InFlight == IF InLoop /\ pc # "loop" THEN {current} ELSE {}

\* The implicit transaction opened with the connection is never ended.
AlwaysInTransaction == tx # "idle"

\* Where the loops are: within the category's selected checks, and the check
\* being run precedes those still to come.
Positions ==
    /\ pc = "applicability" \/ InLoop => cat \in Categories
    /\ InLoop => todo \subseteq ToRun(cat)
    /\ InLoop /\ pc # "loop" => current \in ToRun(cat) /\ \A j \in todo : current < j

\* The records of the category being run are those of the checks behind it.
AccountedSoFar ==
    InLoop => /\ AccountsFor(records, ToRun(cat) \ (todo \cup InFlight))
              /\ \A i \in DOMAIN records : \A j \in todo \cup InFlight : records[i].check < j

IInv ==
    /\ TypeOK
    /\ AlwaysInTransaction
    /\ SavepointIsolation
    /\ Positions
    /\ AccountedSoFar
    /\ EveryCheckAccounted

-----------------------------------------------------------------------------
(* Helpers.                                                                *)

\* The runner's stamping turns what a check returns into findings.
LEMMA StampedType ==
    ASSUME NEW j \in Nat, NEW attestations \in Seq(BOOLEAN)
    PROVE  Stamped(j, attestations) \in Seq(Finding)
<1>1. DOMAIN attestations = 1..Len(attestations) /\ Len(attestations) \in Nat
  OBVIOUS
<1>2. ASSUME NEW i \in DOMAIN attestations
      PROVE  [check |-> j, requires |-> attestations[i], outcome |-> "none", answer |-> "none"] \in Finding
  <2>1. attestations[i] \in BOOLEAN
    BY <1>1
  <2>. QED
    BY <2>1, Zenon DEF Finding
<1>3. Stamped(j, attestations) \in [1..Len(attestations) -> Finding]
  BY <1>1, <1>2, Zenon DEF Stamped
<1>. QED
  BY <1>1, <1>3

\* The outcome of a finding is what its answer makes of it.
Earnt(f) ==
    /\ f.outcome = "confirmed" <=> f.answer = "yes"
    /\ f.outcome = "rejected" <=> f.answer \in {"no", "eof"}

\* An answer gives a finding the outcome it earns, and changes nothing else of it.
LEMMA AttestedType ==
    ASSUME NEW f \in Finding, NEW answer \in {"yes", "no", "eof"}
    PROVE  /\ Attested(f, answer) \in Finding
           /\ Attested(f, answer).check = f.check /\ Attested(f, answer).requires = f.requires
           /\ Earnt(Attested(f, answer))
BY DEF Attested, Finding, Earnt

\* _visible_findings selects finitely many of a list's findings.
LEMMA VisibleAtFinite ==
    ASSUME NEW fs \in Seq(Finding)
    PROVE  IsFiniteSet(VisibleAt(fs)) /\ Cardinality(VisibleAt(fs)) \in Nat
<1>1. IsFiniteSet(1..Len(fs))
  BY FS_Interval
<1>2. VisibleAt(fs) \subseteq 1..Len(fs)
  BY DEF VisibleAt
<1>. QED
  BY <1>1, <1>2, FS_Subset, FS_CardinalityType

\* What check_succeeded prints is a line.
LEMMA SucceededLineType ==
    ASSUME NEW fs \in Seq(Finding)
    PROVE  SucceededLine(fs) \in LiveLine
BY DEF SucceededLine, Line, LiveLine

-----------------------------------------------------------------------------
(* The inductive invariant.                                                *)

\* Every step of run_audit keeps the types.
LEMMA TypeStep == ASSUME IInv, [Next]_vars PROVE TypeOK'
<1>. USE ShapeAssumption DEF IInv, TypeOK, SessionType, sessionVars
<1>1. CASE FilteredOut
  BY <1>1 DEF FilteredOut, Categories
<1>2. CASE SkipIrrelevant
  <2>1. Result(cat, "completed", <<>>, <<>>) \in CategoryResult
    BY <1>2 DEF SkipIrrelevant, Result, CategoryResult, Categories
  <2>2. results' \in Seq(CategoryResult)
    BY <1>2, <2>1 DEF SkipIrrelevant
  <2>. QED
    BY <1>2, <2>2 DEF SkipIrrelevant
<1>3. CASE CategoryReady
  BY <1>3 DEF CategoryReady, Categories
<1>4. CASE ReadyDone
  BY <1>4 DEF ReadyDone, Categories
<1>5. CASE Applicable
  BY <1>5 DEF Applicable, ToRun
<1>6. CASE NotApplicable
  <2>1. Result(cat, "not_applicable", <<>>, <<>>) \in CategoryResult
    BY <1>6 DEF NotApplicable, Result, CategoryResult, Categories
  <2>2. results' \in Seq(CategoryResult)
    BY <1>6, <2>1 DEF NotApplicable
  <2>. QED
    BY <1>6, <2>2 DEF NotApplicable
<1>7. CASE ApplicabilityRaises
  BY <1>7 DEF ApplicabilityRaises, StatementFails
<1>8. CASE CheckStarted
  <2>1. current' \in Nat /\ todo' \subseteq Nat
    BY <1>8 DEF CheckStarted
  <2>. QED
    BY <1>8, <2>1 DEF CheckStarted
<1>9. CASE OpenSavepoint
  BY <1>9 DEF OpenSavepoint, EnterSavepoint
<1>10. CASE QueryFails
  BY <1>10 DEF QueryFails, StatementFails, runVars
<1>11. CASE CheckRaises
  BY <1>11 DEF CheckRaises, RollbackToSavepoint
<1>12. CASE CheckReturns
  <2>1. cat \in Categories /\ current \in ToRun(cat)
    BY <1>12 DEF CheckReturns, Positions, InLoop
  <2>2. <<cat, current>> \in Checks
    BY <2>1 DEF Checks, ToRun
  <2>3. PICK attestations \in FnResults : returned' = Stamped(current, attestations)
    BY <1>12 DEF CheckReturns
  <2>4. returned' \in Seq(Finding)
    BY <2>3, InputAssumption, StampedType
  <2>. QED
    BY <1>12, <2>2, <2>4 DEF CheckReturns, ReleaseSavepoint
<1>13. CASE Attest
  <2>1. PICK i \in Unanswered(returned), answer \in {"yes", "no", "eof"} :
           returned' = [returned EXCEPT ![i] = Attested(returned[i], answer)]
    BY <1>13 DEF Attest
  <2>2. i \in DOMAIN returned /\ returned[i] \in Finding
    BY <2>1 DEF Unanswered
  <2>3. Attested(returned[i], answer) \in Finding
    BY <2>2, AttestedType
  <2>4. returned' \in Seq(Finding)
    BY <2>1, <2>2, <2>3
  <2>. QED
    BY <1>13, <2>4 DEF Attest
<1>14. CASE ExtendFindings
  <2>1. findings' \in Seq(Finding)
    BY <1>14 DEF ExtendFindings
  <2>. QED
    BY <1>14, <2>1 DEF ExtendFindings
<1>15. CASE CheckSucceeded
  <2>1. SucceededLine(returned) \in LiveLine
    BY SucceededLineType
  <2>2. live' \in [Checks -> LiveLine]
    BY <1>15, <2>1 DEF CheckSucceeded
  <2>3. Cardinality(VisibleAt(returned)) \in Nat
    BY VisibleAtFinite
  <2>4. records' \in Seq(CheckResult)
    BY <1>15, <2>3 DEF CheckSucceeded, CheckResult
  <2>. QED
    BY <1>15, <2>2, <2>4 DEF CheckSucceeded
<1>16. CASE CheckFailed
  <2>1. Line("failed", 0) \in LiveLine
    BY DEF Line, LiveLine
  <2>2. live' \in [Checks -> LiveLine]
    BY <1>16, <2>1 DEF CheckFailed
  <2>3. records' \in Seq(CheckResult)
    BY <1>16 DEF CheckFailed, CheckResult
  <2>. QED
    BY <1>16, <2>2, <2>3 DEF CheckFailed
<1>17. CASE CategoryDone
  <2>1. Result(cat, "completed", findings, records) \in CategoryResult
    BY <1>17 DEF CategoryDone, Result, CategoryResult, Categories
  <2>2. results' \in Seq(CategoryResult)
    BY <1>17, <2>1 DEF CategoryDone
  <2>. QED
    BY <1>17, <2>2 DEF CategoryDone
<1>18. CASE OutOfScope
  <2>1. Result(cat, "completed", <<>>, <<>>) \in CategoryResult
    BY <1>18 DEF OutOfScope, Result, CategoryResult, Categories
  <2>2. results' \in Seq(CategoryResult)
    BY <1>18, <2>1 DEF OutOfScope
  <2>. QED
    BY <1>18, <2>2 DEF OutOfScope
<1>19. CASE CategoryCompleted
  BY <1>19 DEF CategoryCompleted, Categories
<1>20. CASE AuditCompleted
  BY <1>20 DEF AuditCompleted, Categories
<1>21. CASE AttestRaises
  BY <1>21 DEF AttestRaises, Categories
<1>22. CASE CheckSucceededRaises
  <2>1. SucceededLine(returned) \in LiveLine
    BY SucceededLineType
  <2>2. live' \in [Checks -> LiveLine]
    BY <1>22, <2>1 DEF CheckSucceededRaises
  <2>. QED
    BY <1>22, <2>2 DEF CheckSucceededRaises
<1>23. CASE CategoryCompletedRaises
  BY <1>23 DEF CategoryCompletedRaises, Categories
<1>24. CASE HookRaises
  BY <1>24 DEF HookRaises, Categories
<1>25. CASE Interrupt
  BY <1>25 DEF Interrupt, RollbackToSavepoint
<1>26. CASE IdleTimeout
  BY <1>26 DEF IdleTimeout, IdleInTransactionTimeout, runVars
<1>27. CASE ConnectionDrops
  BY <1>27 DEF ConnectionDrops, SessionLost, runVars
<1>28. CASE UNCHANGED vars
  BY <1>28 DEF vars, runVars, Categories
<1>. QED
  BY <1>1, <1>2, <1>3, <1>4, <1>5, <1>6, <1>7, <1>8, <1>9, <1>10, <1>11, <1>12, <1>13, <1>14, <1>15, <1>16, <1>17, <1>18, <1>19, <1>20, <1>21, <1>22, <1>23, <1>24, <1>25, <1>26, <1>27, <1>28 DEF Next, Progress, Environment, Ended

\* Every step leaves the session usable for the next check.
LEMMA IsolationStep ==
    ASSUME IInv, [Next]_vars PROVE AlwaysInTransaction' /\ SavepointIsolation'
<1>. USE DEF IInv, TypeOK, SessionType, AlwaysInTransaction, SavepointIsolation, CanExecute, sessionVars
<1>1. CASE FilteredOut
  BY <1>1 DEF FilteredOut
<1>2. CASE SkipIrrelevant
  BY <1>2 DEF SkipIrrelevant
<1>3. CASE CategoryReady
  BY <1>3 DEF CategoryReady
<1>4. CASE ReadyDone
  BY <1>4 DEF ReadyDone
<1>5. CASE Applicable
  BY <1>5 DEF Applicable
<1>6. CASE NotApplicable
  BY <1>6 DEF NotApplicable
<1>7. CASE ApplicabilityRaises
  BY <1>7 DEF ApplicabilityRaises, StatementFails
<1>8. CASE CheckStarted
  BY <1>8 DEF CheckStarted
<1>9. CASE OpenSavepoint
  BY <1>9 DEF OpenSavepoint, EnterSavepoint
<1>10. CASE QueryFails
  BY <1>10 DEF QueryFails, StatementFails, runVars
<1>11. CASE CheckRaises
  BY <1>11 DEF CheckRaises, RollbackToSavepoint
<1>12. CASE CheckReturns
  BY <1>12 DEF CheckReturns, ReleaseSavepoint
<1>13. CASE Attest
  BY <1>13 DEF Attest
<1>14. CASE ExtendFindings
  BY <1>14 DEF ExtendFindings
<1>15. CASE CheckSucceeded
  BY <1>15 DEF CheckSucceeded
<1>16. CASE CheckFailed
  BY <1>16 DEF CheckFailed
<1>17. CASE CategoryDone
  BY <1>17 DEF CategoryDone
<1>18. CASE OutOfScope
  BY <1>18 DEF OutOfScope
<1>19. CASE CategoryCompleted
  BY <1>19 DEF CategoryCompleted
<1>20. CASE AuditCompleted
  BY <1>20 DEF AuditCompleted
<1>21. CASE AttestRaises
  BY <1>21 DEF AttestRaises
<1>22. CASE CheckSucceededRaises
  BY <1>22 DEF CheckSucceededRaises
<1>23. CASE CategoryCompletedRaises
  BY <1>23 DEF CategoryCompletedRaises
<1>24. CASE HookRaises
  BY <1>24 DEF HookRaises
<1>25. CASE Interrupt
  BY <1>25 DEF Interrupt, RollbackToSavepoint
<1>26. CASE IdleTimeout
  BY <1>26 DEF IdleTimeout, IdleInTransactionTimeout, WaitingForHuman, runVars
<1>27. CASE ConnectionDrops
  BY <1>27 DEF ConnectionDrops, SessionLost, runVars
<1>28. CASE UNCHANGED vars
  BY <1>28 DEF vars, runVars
<1>. QED
  BY <1>1, <1>2, <1>3, <1>4, <1>5, <1>6, <1>7, <1>8, <1>9, <1>10, <1>11, <1>12, <1>13, <1>14, <1>15, <1>16, <1>17, <1>18, <1>19, <1>20, <1>21, <1>22, <1>23, <1>24, <1>25, <1>26, <1>27, <1>28 DEF Next, Progress, Environment, Ended

\* The selected checks of a category change with neither the session nor the
\* results: they are a function of the configuration.
LEMMA SelectionStable ==
    ASSUME [Next]_vars, cat' = cat PROVE ToRun(cat)' = ToRun(cat)
<1>1. config' = config
  BY DEF Next, Progress, Environment, Ended, vars, runVars, FilteredOut, SkipIrrelevant, CategoryReady, ReadyDone, Applicable, NotApplicable, ApplicabilityRaises, CheckStarted, OpenSavepoint, QueryFails, CheckRaises, CheckReturns, Attest, ExtendFindings, CheckSucceeded, CheckFailed, CategoryDone, OutOfScope, CategoryCompleted, AuditCompleted, AttestRaises, CheckSucceededRaises, CategoryCompletedRaises, HookRaises, Interrupt, IdleTimeout, ConnectionDrops
<1>. QED
  BY <1>1 DEF ToRun, Matches

\* Every step keeps the loops within the selected checks.
LEMMA PositionsStep == ASSUME IInv, [Next]_vars PROVE Positions'
<1>. USE SelectionStable DEF IInv, TypeOK, Positions, InLoop
<1>1. CASE FilteredOut
  BY <1>1 DEF FilteredOut
<1>2. CASE SkipIrrelevant
  BY <1>2 DEF SkipIrrelevant
<1>3. CASE CategoryReady
  BY <1>3 DEF CategoryReady
<1>4. CASE ReadyDone
  BY <1>4 DEF ReadyDone
<1>5. CASE Applicable
  BY <1>5 DEF Applicable, Categories
<1>6. CASE NotApplicable
  BY <1>6 DEF NotApplicable
<1>7. CASE ApplicabilityRaises
  BY <1>7 DEF ApplicabilityRaises
<1>8. CASE CheckStarted
  <2>1. PICK j \in todo : Least(j, todo) /\ current' = j /\ todo' = todo \ {j}
    BY <1>8 DEF CheckStarted
  <2>2. \A h \in todo' : current' < h
    BY <2>1 DEF Least
  <2>. QED
    BY <1>8, <2>1, <2>2 DEF CheckStarted
<1>9. CASE OpenSavepoint
  BY <1>9 DEF OpenSavepoint
<1>10. CASE QueryFails
  BY <1>10 DEF QueryFails, runVars
<1>11. CASE CheckRaises
  BY <1>11 DEF CheckRaises
<1>12. CASE CheckReturns
  BY <1>12 DEF CheckReturns
<1>13. CASE Attest
  BY <1>13 DEF Attest
<1>14. CASE ExtendFindings
  BY <1>14 DEF ExtendFindings
<1>15. CASE CheckSucceeded
  BY <1>15 DEF CheckSucceeded
<1>16. CASE CheckFailed
  BY <1>16 DEF CheckFailed
<1>17. CASE CategoryDone
  BY <1>17 DEF CategoryDone
<1>18. CASE OutOfScope
  BY <1>18 DEF OutOfScope
<1>19. CASE CategoryCompleted
  BY <1>19 DEF CategoryCompleted
<1>20. CASE AuditCompleted
  BY <1>20 DEF AuditCompleted
<1>21. CASE AttestRaises
  BY <1>21 DEF AttestRaises
<1>22. CASE CheckSucceededRaises
  BY <1>22 DEF CheckSucceededRaises
<1>23. CASE CategoryCompletedRaises
  BY <1>23 DEF CategoryCompletedRaises
<1>24. CASE HookRaises
  BY <1>24 DEF HookRaises
<1>25. CASE Interrupt
  BY <1>25 DEF Interrupt
<1>26. CASE IdleTimeout
  BY <1>26 DEF IdleTimeout, runVars
<1>27. CASE ConnectionDrops
  BY <1>27 DEF ConnectionDrops, runVars
<1>28. CASE UNCHANGED vars
  BY <1>28 DEF vars, runVars
<1>. QED
  BY <1>1, <1>2, <1>3, <1>4, <1>5, <1>6, <1>7, <1>8, <1>9, <1>10, <1>11, <1>12, <1>13, <1>14, <1>15, <1>16, <1>17, <1>18, <1>19, <1>20, <1>21, <1>22, <1>23, <1>24, <1>25, <1>26, <1>27, <1>28 DEF Next, Progress, Environment, Ended

\* A sequence of records extended by the next check accounts for that check too.
LEMMA AppendAccounts ==
    ASSUME NEW rs \in Seq(CheckResult), NEW checks, NEW record \in CheckResult,
           AccountsFor(rs, checks), \A i \in DOMAIN rs : rs[i].check < record.check
    PROVE  AccountsFor(Append(rs, record), checks \cup {record.check})
<1>. DEFINE ext == Append(rs, record)
<1>1. /\ DOMAIN ext = 1..(Len(rs) + 1) /\ DOMAIN rs = 1..Len(rs)
      /\ ext[Len(rs) + 1] = record
      /\ \A i \in DOMAIN rs : ext[i] = rs[i]
  OBVIOUS
<1>2. {ext[i].check : i \in DOMAIN ext} = checks \cup {record.check}
  <2>1. {rs[i].check : i \in DOMAIN rs} = checks
    BY DEF AccountsFor
  <2>2. \A i \in DOMAIN ext : i \in DOMAIN rs \/ i = Len(rs) + 1
    BY <1>1
  <2>3. DOMAIN rs \subseteq DOMAIN ext /\ Len(rs) + 1 \in DOMAIN ext
    BY <1>1
  <2>. HIDE DEF ext
  <2>. QED
    BY <1>1, <2>1, <2>2, <2>3
<1>3. ASSUME NEW i \in DOMAIN ext, NEW k \in DOMAIN ext, i < k
      PROVE  ext[i].check < ext[k].check
  <2>1. CASE k = Len(rs) + 1
    BY <1>1, <1>3, <2>1
  <2>2. CASE k # Len(rs) + 1
    BY <1>1, <1>3, <2>2 DEF AccountsFor
  <2>. QED
    BY <2>1, <2>2
<1>. QED
  BY <1>2, <1>3 DEF AccountsFor

\* If all records and the one added precede some later checks, so does the result.
LEMMA AppendPrecedes ==
    ASSUME NEW rs \in Seq(CheckResult), NEW record \in CheckResult, NEW later,
           \A i \in DOMAIN rs : \A j \in later : rs[i].check < j,
           \A j \in later : record.check < j
    PROVE  \A i \in DOMAIN Append(rs, record) : \A j \in later : Append(rs, record)[i].check < j
<1>1. /\ DOMAIN Append(rs, record) = 1..(Len(rs) + 1) /\ DOMAIN rs = 1..Len(rs)
      /\ Append(rs, record)[Len(rs) + 1] = record
      /\ \A i \in DOMAIN rs : Append(rs, record)[i] = rs[i]
  OBVIOUS
<1>2. \A i \in DOMAIN Append(rs, record) : i \in DOMAIN rs \/ i = Len(rs) + 1
  BY <1>1
<1>. QED
  BY <1>1, <1>2

\* Every step keeps the current category's records complete up to the check
\* the loop is at.
LEMMA AccountedSoFarStep == ASSUME IInv, [Next]_vars PROVE AccountedSoFar'
<1>. USE SelectionStable DEF IInv, TypeOK, AccountedSoFar, InLoop, InFlight
<1>1. CASE FilteredOut
  BY <1>1 DEF FilteredOut
<1>2. CASE SkipIrrelevant
  BY <1>2 DEF SkipIrrelevant
<1>3. CASE CategoryReady
  BY <1>3 DEF CategoryReady
<1>4. CASE ReadyDone
  BY <1>4 DEF ReadyDone
<1>5. CASE Applicable
  <2>1. records' = <<>> /\ ToRun(cat)' \ (todo' \cup InFlight') = {}
    BY <1>5 DEF Applicable
  <2>2. AccountsFor(<<>>, {})
    BY DEF AccountsFor
  <2>3. AccountsFor(records', ToRun(cat)' \ (todo' \cup InFlight'))
    BY <2>1, <2>2, Zenon
  <2>. QED
    BY <1>5, <2>1, <2>3 DEF Applicable
<1>6. CASE NotApplicable
  BY <1>6 DEF NotApplicable
<1>7. CASE ApplicabilityRaises
  BY <1>7 DEF ApplicabilityRaises
<1>8. CASE CheckStarted
  <2>1. PICK j \in todo : Least(j, todo) /\ current' = j /\ todo' = todo \ {j}
    BY <1>8 DEF CheckStarted
  <2>2. todo' \cup InFlight' = todo \cup InFlight
    BY <1>8, <2>1 DEF CheckStarted
  <2>. QED
    BY <1>8, <2>2 DEF CheckStarted
<1>9. CASE OpenSavepoint
  BY <1>9 DEF OpenSavepoint
<1>10. CASE QueryFails
  BY <1>10 DEF QueryFails, runVars
<1>11. CASE CheckRaises
  BY <1>11 DEF CheckRaises
<1>12. CASE CheckReturns
  BY <1>12 DEF CheckReturns
<1>13. CASE Attest
  BY <1>13 DEF Attest
<1>14. CASE ExtendFindings
  BY <1>14 DEF ExtendFindings
<1>15. CASE CheckSucceeded
  <2>. DEFINE record == [check |-> current, status |-> IF Cardinality(VisibleAt(returned)) # 0 THEN "findings" ELSE "passed",
                         count |-> Cardinality(VisibleAt(returned))]
  <2>1. record \in CheckResult /\ records' = Append(records, record) /\ record.check = current
    BY <1>15, VisibleAtFinite DEF CheckSucceeded, CheckResult
  <2>. HIDE DEF record
  <2>2. current \in ToRun(cat) /\ \A j \in todo : current < j
    BY <1>15 DEF CheckSucceeded, Positions
  <2>3. AccountsFor(records, ToRun(cat) \ (todo \cup {current}))
        /\ \A i \in DOMAIN records : \A j \in todo \cup {current} : records[i].check < j
    BY <1>15 DEF CheckSucceeded
  <2>4. AccountsFor(records', (ToRun(cat) \ (todo \cup {current})) \cup {current})
    BY <2>1, <2>3, AppendAccounts
  <2>5. (ToRun(cat) \ (todo \cup {current})) \cup {current} = ToRun(cat) \ todo
    BY <2>2
  <2>6. \A i \in DOMAIN records' : \A j \in todo : records'[i].check < j
    BY <2>1, <2>2, <2>3, AppendPrecedes
  <2>7. ToRun(cat)' = ToRun(cat) /\ todo' = todo /\ InFlight' = {}
    BY <1>15 DEF CheckSucceeded
  <2>. QED
    BY <2>4, <2>5, <2>6, <2>7
<1>16. CASE CheckFailed
  <2>. DEFINE record == [check |-> current, status |-> "error", count |-> 0]
  <2>1. record \in CheckResult /\ records' = Append(records, record) /\ record.check = current
    BY <1>16 DEF CheckFailed, CheckResult
  <2>. HIDE DEF record
  <2>2. current \in ToRun(cat) /\ \A j \in todo : current < j
    BY <1>16 DEF CheckFailed, Positions
  <2>3. AccountsFor(records, ToRun(cat) \ (todo \cup {current}))
        /\ \A i \in DOMAIN records : \A j \in todo \cup {current} : records[i].check < j
    BY <1>16 DEF CheckFailed
  <2>4. AccountsFor(records', (ToRun(cat) \ (todo \cup {current})) \cup {current})
    BY <2>1, <2>3, AppendAccounts
  <2>5. (ToRun(cat) \ (todo \cup {current})) \cup {current} = ToRun(cat) \ todo
    BY <2>2
  <2>6. \A i \in DOMAIN records' : \A j \in todo : records'[i].check < j
    BY <2>1, <2>2, <2>3, AppendPrecedes
  <2>7. ToRun(cat)' = ToRun(cat) /\ todo' = todo /\ InFlight' = {}
    BY <1>16 DEF CheckFailed
  <2>. QED
    BY <2>4, <2>5, <2>6, <2>7
<1>17. CASE CategoryDone
  BY <1>17 DEF CategoryDone
<1>18. CASE OutOfScope
  BY <1>18 DEF OutOfScope
<1>19. CASE CategoryCompleted
  BY <1>19 DEF CategoryCompleted
<1>20. CASE AuditCompleted
  BY <1>20 DEF AuditCompleted
<1>21. CASE AttestRaises
  BY <1>21 DEF AttestRaises
<1>22. CASE CheckSucceededRaises
  BY <1>22 DEF CheckSucceededRaises
<1>23. CASE CategoryCompletedRaises
  BY <1>23 DEF CategoryCompletedRaises
<1>24. CASE HookRaises
  BY <1>24 DEF HookRaises
<1>25. CASE Interrupt
  BY <1>25 DEF Interrupt
<1>26. CASE IdleTimeout
  BY <1>26 DEF IdleTimeout, runVars
<1>27. CASE ConnectionDrops
  BY <1>27 DEF ConnectionDrops, runVars
<1>28. CASE UNCHANGED vars
  BY <1>28 DEF vars, runVars
<1>. QED
  BY <1>1, <1>2, <1>3, <1>4, <1>5, <1>6, <1>7, <1>8, <1>9, <1>10, <1>11, <1>12, <1>13, <1>14, <1>15, <1>16, <1>17, <1>18, <1>19, <1>20, <1>21, <1>22, <1>23, <1>24, <1>25, <1>26, <1>27, <1>28 DEF Next, Progress, Environment, Ended

\* A completed category's entry, as EveryCheckAccounted requires it.
Accounted(r) ==
    r.status = "completed" => AccountsFor(r.records, IF r.number <= N THEN ToRun(r.number) ELSE {})

\* Adding an entry that accounts for its checks keeps EveryCheckAccounted.
LEMMA AppendResult ==
    ASSUME TypeOK, EveryCheckAccounted, config' = config,
           NEW r \in CategoryResult, Accounted(r), results' = Append(results, r)
    PROVE  EveryCheckAccounted'
<1>1. \A i \in DOMAIN results' : (i \in DOMAIN results /\ results'[i] = results[i]) \/ results'[i] = r
  BY DEF TypeOK
<1>2. \A c : ToRun(c)' = ToRun(c)
  BY DEF ToRun, Matches
<1>3. \A i \in DOMAIN results' : Accounted(results'[i])
  BY <1>1 DEF EveryCheckAccounted, Accounted
<1>. QED
  BY <1>3 DEF EveryCheckAccounted, Accounted, ToRun, Matches

\* The report built so far stays as it is when no entry is added.
LEMMA SameResults ==
    ASSUME EveryCheckAccounted, config' = config, results' = results
    PROVE  EveryCheckAccounted'
BY DEF EveryCheckAccounted, ToRun, Matches

\* Every step keeps the report complete.
LEMMA EveryCheckAccountedStep == ASSUME IInv, [Next]_vars PROVE EveryCheckAccounted'
<1>. USE SameResults DEF IInv, TypeOK
<1>1. CASE FilteredOut
  BY <1>1 DEF FilteredOut
<1>2. CASE SkipIrrelevant
  <2>. DEFINE entry == Result(cat, "completed", <<>>, <<>>)
  <2>1. entry \in CategoryResult
    BY <1>2, ShapeAssumption DEF SkipIrrelevant, Result, CategoryResult, Categories
  <2>2. Accounted(entry)
    BY <1>2, ShapeAssumption DEF SkipIrrelevant, Irrelevant, Accounted, AccountsFor, Result, Categories
  <2>. QED
    BY <1>2, <2>1, <2>2, AppendResult DEF SkipIrrelevant
<1>3. CASE CategoryReady
  BY <1>3 DEF CategoryReady
<1>4. CASE ReadyDone
  BY <1>4 DEF ReadyDone
<1>5. CASE Applicable
  BY <1>5 DEF Applicable
<1>6. CASE NotApplicable
  <2>. DEFINE entry == Result(cat, "not_applicable", <<>>, <<>>)
  <2>1. entry \in CategoryResult
    BY <1>6, ShapeAssumption DEF NotApplicable, Result, CategoryResult, Categories
  <2>2. Accounted(entry)
    BY DEF Accounted, Result
  <2>. QED
    BY <1>6, <2>1, <2>2, AppendResult DEF NotApplicable
<1>7. CASE ApplicabilityRaises
  BY <1>7 DEF ApplicabilityRaises
<1>8. CASE CheckStarted
  BY <1>8 DEF CheckStarted
<1>9. CASE OpenSavepoint
  BY <1>9 DEF OpenSavepoint
<1>10. CASE QueryFails
  BY <1>10 DEF QueryFails, runVars
<1>11. CASE CheckRaises
  BY <1>11 DEF CheckRaises
<1>12. CASE CheckReturns
  BY <1>12 DEF CheckReturns
<1>13. CASE Attest
  BY <1>13 DEF Attest
<1>14. CASE ExtendFindings
  BY <1>14 DEF ExtendFindings
<1>15. CASE CheckSucceeded
  BY <1>15 DEF CheckSucceeded
<1>16. CASE CheckFailed
  BY <1>16 DEF CheckFailed
<1>17. CASE CategoryDone
  <2>. DEFINE entry == Result(cat, "completed", findings, records)
  <2>1. entry \in CategoryResult
    BY <1>17, ShapeAssumption DEF CategoryDone, Result, CategoryResult, Categories
  <2>2. Accounted(entry)
    <3>1. AccountsFor(records, ToRun(cat))
      <4>1. todo \cup InFlight = {} /\ InLoop
        BY <1>17 DEF CategoryDone, InFlight, InLoop
      <4>. QED
        BY <4>1 DEF AccountedSoFar
    <3>2. cat \in Categories
      BY <1>17 DEF CategoryDone, Positions, InLoop
    <3>. QED
      BY <3>1, <3>2, ShapeAssumption DEF Accounted, Result, Categories
  <2>. QED
    BY <1>17, <2>1, <2>2, AppendResult DEF CategoryDone
<1>18. CASE OutOfScope
  <2>. DEFINE entry == Result(cat, "completed", <<>>, <<>>)
  <2>1. entry \in CategoryResult
    BY <1>18, ShapeAssumption DEF OutOfScope, Result, CategoryResult, Categories
  <2>2. Accounted(entry)
    BY <1>18, ShapeAssumption DEF OutOfScope, Accounted, AccountsFor, Result
  <2>. QED
    BY <1>18, <2>1, <2>2, AppendResult DEF OutOfScope
<1>19. CASE CategoryCompleted
  BY <1>19 DEF CategoryCompleted
<1>20. CASE AuditCompleted
  BY <1>20 DEF AuditCompleted
<1>21. CASE AttestRaises
  BY <1>21 DEF AttestRaises
<1>22. CASE CheckSucceededRaises
  BY <1>22 DEF CheckSucceededRaises
<1>23. CASE CategoryCompletedRaises
  BY <1>23 DEF CategoryCompletedRaises
<1>24. CASE HookRaises
  BY <1>24 DEF HookRaises
<1>25. CASE Interrupt
  BY <1>25 DEF Interrupt
<1>26. CASE IdleTimeout
  BY <1>26 DEF IdleTimeout, runVars
<1>27. CASE ConnectionDrops
  BY <1>27 DEF ConnectionDrops, runVars
<1>28. CASE UNCHANGED vars
  BY <1>28 DEF vars, runVars
<1>. QED
  BY <1>1, <1>2, <1>3, <1>4, <1>5, <1>6, <1>7, <1>8, <1>9, <1>10, <1>11, <1>12, <1>13, <1>14, <1>15, <1>16, <1>17, <1>18, <1>19, <1>20, <1>21, <1>22, <1>23, <1>24, <1>25, <1>26, <1>27, <1>28 DEF Next, Progress, Environment, Ended

-----------------------------------------------------------------------------
(* The theorems.                                                           *)

\* The initial states of run_audit satisfy IInv.
LEMMA InitIInv == ASSUME Init PROVE IInv
<1>1. TypeOK
  <2>1. [ch \in Checks |-> Line("none", 0)] \in [Checks -> LiveLine]
    BY DEF Line, LiveLine
  <2>2. SessionType
    BY DEF Init, Connected, SessionType
  <2>3. [r \in 1..R |-> 0] \in [1..R -> Nat]
    OBVIOUS
  <2>. QED
    BY <2>1, <2>2, <2>3, ShapeAssumption DEF Init, TypeOK
<1>. QED
  BY <1>1 DEF Init, IInv, Connected, AlwaysInTransaction, SavepointIsolation, Positions,
              InLoop, AccountedSoFar, EveryCheckAccounted

\* IInv is an inductive invariant of run_audit.
LEMMA StepIInv == ASSUME IInv, [Next]_vars PROVE IInv'
BY TypeStep, IsolationStep, PositionsStep, AccountedSoFarStep, EveryCheckAccountedStep DEF IInv

\* IInv holds throughout every behaviour of run_audit.
LEMMA Invariant == Spec => []IInv
BY InitIInv, StepIInv, PTL DEF Spec

\* The variables of run_audit keep their types.
THEOREM TypeCorrect == Spec => []TypeOK
BY Invariant, PTL DEF IInv

\* A failing check never leaves a savepoint or a poisoned transaction behind
\* (runner.py:144-150).
THEOREM ChecksAreIsolated == Spec => []SavepointIsolation
BY Invariant, PTL DEF IInv

\* Every completed category of the report accounts for each selected check
\* once and in order, whatever failed (runner.py:140-203).
THEOREM ReportIsComplete == Spec => []EveryCheckAccounted
BY Invariant, PTL DEF IInv

\* The transaction connect_read_only opens is open whenever a person is waited
\* for on a live session, so the idle timeout runs (db.py); at the attestation
\* prompts that is what attestation.py:10 rules out.
THEOREM PromptsAreInTransaction ==
    Spec => [](WaitingForHuman /\ sess = "live" => tx # "idle")
BY Invariant, PTL DEF IInv, AlwaysInTransaction

-----------------------------------------------------------------------------
(* What the report says. The steps, by what they do to the report.         *)

\* The steps that report a category, and what they report.
Reports(entry) ==
    \/ entry = Result(cat, "completed", <<>>, <<>>) /\ (SkipIrrelevant \/ OutOfScope)
    \/ entry = Result(cat, "not_applicable", <<>>, <<>>) /\ NotApplicable
    \/ entry = Result(cat, "completed", findings, records) /\ CategoryDone

\* A reported category is the one at work, and comes last in the report.
LEMMA ReportedEntry ==
    ASSUME IInv, NEW entry, Reports(entry)
    PROVE  /\ entry \in CategoryResult /\ entry.number = cat
           /\ results' = Append(results, entry) /\ pc' = "completed" /\ pc # "completed" /\ pc # "aborted"
           /\ UNCHANGED <<config, cat, seen, ran>>
<1>. USE ShapeAssumption DEF IInv, TypeOK, Result, CategoryResult
<1>1. CASE entry = Result(cat, "completed", <<>>, <<>>) /\ SkipIrrelevant
  BY <1>1 DEF SkipIrrelevant
<1>2. CASE entry = Result(cat, "completed", <<>>, <<>>) /\ OutOfScope
  BY <1>2 DEF OutOfScope
<1>3. CASE entry = Result(cat, "not_applicable", <<>>, <<>>) /\ NotApplicable
  BY <1>3 DEF NotApplicable
<1>4. CASE entry = Result(cat, "completed", findings, records) /\ CategoryDone
  BY <1>4 DEF CategoryDone
<1>. QED
  BY <1>1, <1>2, <1>3, <1>4 DEF Reports

\* Every other step leaves the report alone.
LEMMA Outline ==
    ASSUME [Next]_vars
    PROVE  /\ config' = config /\ ran \subseteq ran'
           /\ \/ \E entry : Reports(entry)
              \/ /\ results' = results
                 /\ pc' = "completed" => pc = "completed"
                 /\ \/ CategoryCompleted \/ CategoryCompletedRaises
                    \/ seen' = seen /\ (pc = "completed" => pc' \in {"completed", "aborted"})
<1>. USE DEF Reports, runVars
<1>1. CASE FilteredOut \/ CategoryReady \/ ReadyDone \/ Applicable \/ ApplicabilityRaises \/ AuditCompleted
  BY <1>1 DEF FilteredOut, CategoryReady, ReadyDone, Applicable, ApplicabilityRaises, AuditCompleted
<1>2. CASE SkipIrrelevant \/ NotApplicable \/ CategoryDone \/ OutOfScope
  BY <1>2 DEF SkipIrrelevant, NotApplicable, CategoryDone, OutOfScope
<1>3. CASE CheckStarted \/ OpenSavepoint \/ QueryFails \/ CheckRaises \/ CheckReturns
  BY <1>3 DEF CheckStarted, OpenSavepoint, QueryFails, CheckRaises, CheckReturns
<1>4. CASE Attest \/ ExtendFindings \/ CheckSucceeded \/ CheckFailed \/ AttestRaises \/ CheckSucceededRaises
  BY <1>4 DEF Attest, ExtendFindings, CheckSucceeded, CheckFailed, AttestRaises, CheckSucceededRaises
<1>5. CASE CategoryCompleted \/ CategoryCompletedRaises
  BY <1>5 DEF CategoryCompleted, CategoryCompletedRaises
<1>6. CASE HookRaises \/ Interrupt \/ IdleTimeout \/ ConnectionDrops
  BY <1>6 DEF HookRaises, Interrupt, IdleTimeout, ConnectionDrops
<1>7. CASE UNCHANGED vars
  BY <1>7 DEF vars
<1>. QED
  BY <1>1, <1>2, <1>3, <1>4, <1>5, <1>6, <1>7 DEF Next, Progress, Environment, Ended

-----------------------------------------------------------------------------
(* The reporters.                                                          *)

Level ==
    /\ ReportersLevel
    /\ pc = "completed" => \A r \in 1..R : seen[r] + 1 = Len(results)

\* Every step keeps the reporters level.
LEMMA LevelStep == ASSUME IInv, Level, [Next]_vars PROVE Level'
<1>. USE DEF Level, ReportersLevel
<1>0. Len(results) \in Nat /\ seen \in [1..R -> Nat] /\ R \in Nat
  BY ShapeAssumption DEF IInv, TypeOK
<1>1. ASSUME NEW entry, Reports(entry)
      PROVE  Level'
  <2>1. /\ results' = Append(results, entry) /\ pc' = "completed" /\ seen' = seen
        /\ pc # "completed" /\ pc # "aborted"
    BY <1>1, ReportedEntry
  <2>2. Len(results') = Len(results) + 1
    BY <2>1 DEF IInv, TypeOK
  <2>. QED
    BY <1>0, <2>1, <2>2
<1>2. CASE CategoryCompleted
  <2>1. results' = results /\ pc = "completed" /\ pc' # "completed" /\ \A r \in 1..R : seen'[r] = seen[r] + 1
    BY <1>0, <1>2 DEF CategoryCompleted
  <2>2. \A r \in 1..R : seen[r] \in Nat /\ seen[r] + 1 = Len(results)
    BY <1>0, <2>1
  <2>3. \A r \in 1..R : seen'[r] = Len(results)
    BY <2>1, <2>2
  <2>4. Len(results') = Len(results) /\ Len(results) <= Len(results) + 1
    BY <1>0, <2>1
  <2>5. \A r \in 1..R : seen'[r] = Len(results')
    BY <2>3, <2>4
  <2>. QED
    BY <1>0, <2>1, <2>4, <2>5
<1>3. CASE CategoryCompletedRaises
  <2>1. /\ results' = results /\ pc = "completed" /\ pc' = "aborted"
        /\ \E k \in 0..(R - 1) : seen' = [r \in 1..R |-> seen[r] + (IF r <= k THEN 1 ELSE 0)]
    BY <1>3 DEF CategoryCompletedRaises
  <2>2. PICK k \in 0..(R - 1) : \A r \in 1..R : seen'[r] = seen[r] + (IF r <= k THEN 1 ELSE 0)
    BY <1>0, <2>1
  <2>3. \A r \in 1..R : seen[r] \in Nat /\ seen[r] + 1 = Len(results)
    BY <1>0, <2>1
  <2>4. \A r, q \in 1..R : r < q => (q <= k => r <= k)
    BY <1>0
  <2>. QED
    BY <1>0, <2>1, <2>2, <2>3, <2>4
<1>4. CASE /\ results' = results /\ seen' = seen
           /\ pc' = "completed" => pc = "completed"
           /\ pc = "completed" => pc' \in {"completed", "aborted"}
  <2>1. CASE pc = "aborted" => pc' = "aborted"
    BY <1>0, <1>4, <2>1
  <2>2. CASE pc = "aborted" /\ pc' # "aborted"
    <3>1. FALSE
      BY <2>2 DEF Next, Progress, Environment, Ended, vars, runVars, FilteredOut, SkipIrrelevant, CategoryReady,
         ReadyDone, Applicable, NotApplicable, ApplicabilityRaises, CheckStarted, OpenSavepoint, QueryFails, CheckRaises,
         CheckReturns, Attest, ExtendFindings, CheckSucceeded, CheckFailed, CategoryDone, OutOfScope, CategoryCompleted,
         AuditCompleted, AttestRaises, CheckSucceededRaises, CategoryCompletedRaises, HookRaises, Interrupt, IdleTimeout,
         ConnectionDrops
    <3>. QED
      BY <3>1
  <2>. QED
    BY <2>1, <2>2
<1>. QED
  BY <1>1, <1>2, <1>3, <1>4, Outline

\* The reporters see the report grow in step: for every number of reporters, no
\* reporter is handed a category before one in front of it, none is more than
\* one category behind, and they differ only while a hook is in progress or
\* after one has raised (CompositeReporter's fan-out, cli.py).
THEOREM ReportersAreLevel == Spec => []ReportersLevel
<1>1. Init => Level
  BY ShapeAssumption DEF Init, Level, ReportersLevel
<1>2. IInv /\ Level /\ [Next]_vars => Level'
  BY LevelStep
<1>3. Level => ReportersLevel
  BY DEF Level
<1>. QED
  BY <1>1, <1>2, <1>3, Invariant, PTL DEF Spec

-----------------------------------------------------------------------------
(* Verdicts.                                                               *)

EarnedBy(c, rs) ==
    \A k \in DOMAIN rs : rs[k].status # "error" => <<c, rs[k].check>> \in ran

Earned ==
    /\ VerdictsWereEarned
    /\ InLoop => EarnedBy(cat, records)
    /\ pc \in {"attest", "succeeded"} => <<cat, current>> \in ran

\* A result whose verdicts were earned can join the report.
LEMMA EarnedAppend ==
    ASSUME IInv, Earned, NEW entry, Reports(entry) PROVE Earned'
<1>. USE DEF Earned
<1>1. /\ results' = Append(results, entry) /\ results \in Seq(CategoryResult) /\ entry \in CategoryResult
      /\ entry.number = cat /\ pc' = "completed" /\ ran' = ran
  BY ReportedEntry DEF IInv, TypeOK
<1>2. \A k \in DOMAIN entry.records :
         entry.records[k].status # "error" => <<cat, entry.records[k].check>> \in ran
  <2>1. CASE CategoryDone /\ entry = Result(cat, "completed", findings, records)
    BY <2>1 DEF CategoryDone, Result, InLoop, EarnedBy
  <2>2. CASE entry.records = <<>>
    BY <2>2
  <2>. QED
    BY <2>1, <2>2 DEF Reports, Result
<1>3. \A i \in DOMAIN results' : results'[i] = entry \/ (i \in DOMAIN results /\ results'[i] = results[i])
  BY <1>1
<1>4. \A i \in DOMAIN results' : EarnedBy(results'[i].number, results'[i].records)
  <2>1. EarnedBy(entry.number, entry.records)
    BY <1>1, <1>2 DEF EarnedBy
  <2>2. \A i \in DOMAIN results : EarnedBy(results[i].number, results[i].records)
    BY DEF VerdictsWereEarned, EarnedBy
  <2>. QED
    BY <1>3, <2>1, <2>2, Zenon
<1>. QED
  BY <1>1, <1>4 DEF VerdictsWereEarned, EarnedBy, InLoop

\* A record of an earned verdict may join the others.
LEMMA EarnedRecord ==
    ASSUME Earned, InLoop, records \in Seq(CheckResult), NEW record \in CheckResult,
           record.status # "error" => <<cat, record.check>> \in ran,
           records' = Append(records, record), UNCHANGED <<cat, results, ran>>, pc' = "loop"
    PROVE  Earned'
<1>1. \A k \in DOMAIN records' : records'[k] = record \/ (k \in DOMAIN records /\ records'[k] = records[k])
  OBVIOUS
<1>. QED
  BY <1>1 DEF Earned, EarnedBy, VerdictsWereEarned, InLoop

\* Every step keeps what is recorded earned.
LEMMA EarnedStep == ASSUME IInv, Earned, [Next]_vars PROVE Earned'
<1>. USE DEF Earned, EarnedBy, VerdictsWereEarned, InLoop
<1>1. ASSUME NEW entry, Reports(entry) PROVE Earned'
  BY <1>1, EarnedAppend
<1>2. CASE FilteredOut \/ CategoryReady \/ ReadyDone \/ ApplicabilityRaises \/ AuditCompleted
  BY <1>2 DEF FilteredOut, CategoryReady, ReadyDone, ApplicabilityRaises, AuditCompleted
<1>3. CASE Applicable
  BY <1>3 DEF Applicable
<1>4. CASE CheckStarted \/ OpenSavepoint \/ QueryFails \/ CheckRaises
  BY <1>4 DEF CheckStarted, OpenSavepoint, QueryFails, CheckRaises, runVars
<1>5. CASE CheckReturns
  BY <1>5 DEF CheckReturns
<1>6. CASE Attest \/ ExtendFindings \/ AttestRaises \/ CheckSucceededRaises
  BY <1>6 DEF Attest, ExtendFindings, AttestRaises, CheckSucceededRaises
<1>7. CASE CheckSucceeded
  <2>. DEFINE visible == Cardinality(VisibleAt(returned))
              record == [check |-> current, status |-> IF visible # 0 THEN "findings" ELSE "passed", count |-> visible]
  <2>1. record \in CheckResult /\ record.check = current
    BY VisibleAtFinite DEF IInv, TypeOK, CheckResult
  <2>2. /\ records' = Append(records, record) /\ records \in Seq(CheckResult)
        /\ UNCHANGED <<cat, results, ran>> /\ pc = "succeeded" /\ pc' = "loop"
    BY <1>7 DEF CheckSucceeded, IInv, TypeOK
  <2>. HIDE DEF record
  <2>. QED
    BY <2>1, <2>2, EarnedRecord
<1>8. CASE CheckFailed
  <2>. DEFINE record == [check |-> current, status |-> "error", count |-> 0]
  <2>1. record \in CheckResult /\ record.status = "error"
    BY DEF IInv, TypeOK, CheckResult
  <2>2. /\ records' = Append(records, record) /\ records \in Seq(CheckResult)
        /\ UNCHANGED <<cat, results, ran>> /\ pc = "failed" /\ pc' = "loop"
    BY <1>8 DEF CheckFailed, IInv, TypeOK
  <2>. HIDE DEF record
  <2>. QED
    BY <2>1, <2>2, EarnedRecord
<1>9. CASE CategoryCompleted \/ CategoryCompletedRaises
  BY <1>9 DEF CategoryCompleted, CategoryCompletedRaises
<1>10. CASE HookRaises \/ Interrupt \/ IdleTimeout \/ ConnectionDrops
  BY <1>10 DEF HookRaises, Interrupt, IdleTimeout, ConnectionDrops, runVars
<1>11. CASE UNCHANGED vars
  BY <1>11 DEF vars, runVars
<1>. QED
  BY <1>1, <1>2, <1>3, <1>4, <1>5, <1>6, <1>7, <1>8, <1>9, <1>10, <1>11 DEF Next, Progress, Environment, Ended, Reports

\* A check is reported as passed or with findings only if its function came back
\* from a working session, whenever and however the session was lost
\* (runner.py:144-203).
THEOREM VerdictsAreEarned == Spec => []VerdictsWereEarned
<1>1. Init => Earned
  BY DEF Init, Earned, VerdictsWereEarned, InLoop
<1>2. IInv /\ Earned /\ [Next]_vars => Earned'
  BY EarnedStep
<1>3. Earned => VerdictsWereEarned
  BY DEF Earned
<1>. QED
  BY <1>1, <1>2, <1>3, Invariant, PTL DEF Spec

-----------------------------------------------------------------------------
(* Attestation.                                                            *)

\* The finding was answered if, and only if, it was to be.
Answered(c, f) ==
    /\ f.outcome # "none" <=> f.requires /\ config.interactive /\ <<c, f.check>> \in Interactive
    /\ Earnt(f)

Answers ==
    /\ AnswersComplete
    /\ InLoop => \A k \in DOMAIN findings : Answered(cat, findings[k])
    /\ pc = "attest" => \A i \in DOMAIN returned :
          /\ returned[i].check = current /\ Earnt(returned[i])
          /\ returned[i].outcome # "none" => returned[i].requires /\ Attesting

\* The answers of a category that is reported are those its findings had.
LEMMA AnswersAppend ==
    ASSUME IInv, Answers, NEW entry, Reports(entry) PROVE Answers'
<1>. USE DEF Answers, Answered, Earnt
<1>1. /\ results' = Append(results, entry) /\ results \in Seq(CategoryResult) /\ entry \in CategoryResult
      /\ entry.number = cat /\ pc' = "completed" /\ config' = config
  BY ReportedEntry DEF IInv, TypeOK
<1>2. \A k \in DOMAIN entry.findings : Answered(cat, entry.findings[k])
  <2>1. CASE CategoryDone /\ entry = Result(cat, "completed", findings, records)
    BY <2>1 DEF CategoryDone, Result, InLoop
  <2>2. CASE entry.findings = <<>>
    BY <2>2
  <2>. QED
    BY <2>1, <2>2 DEF Reports, Result
<1>3. \A i \in DOMAIN results' : results'[i] = entry \/ (i \in DOMAIN results /\ results'[i] = results[i])
  BY <1>1
<1>. QED
  BY <1>1, <1>2, <1>3 DEF AnswersComplete, InLoop

\* Every step keeps the answers: a finding is kept only with the one it needs.
LEMMA AnswersStep == ASSUME IInv, Answers, [Next]_vars PROVE Answers'
<1>. USE DEF Answers, Answered, Earnt, AnswersComplete, InLoop
<1>1. ASSUME NEW entry, Reports(entry) PROVE Answers'
  BY <1>1, AnswersAppend
<1>2. CASE FilteredOut \/ CategoryReady \/ ReadyDone \/ ApplicabilityRaises \/ AuditCompleted
  BY <1>2 DEF FilteredOut, CategoryReady, ReadyDone, ApplicabilityRaises, AuditCompleted
<1>3. CASE Applicable
  BY <1>3 DEF Applicable
<1>4. CASE CheckStarted \/ OpenSavepoint \/ CheckRaises
  <2>1. pc' # "attest"
    BY <1>4 DEF CheckStarted, OpenSavepoint, CheckRaises
  <2>. QED
    BY <1>4, <2>1 DEF CheckStarted, OpenSavepoint, CheckRaises
<1>5. CASE CheckReturns
  <2>1. \A i \in DOMAIN returned' :
           returned'[i].check = current /\ returned'[i].outcome = "none" /\ returned'[i].answer = "none"
    BY <1>5 DEF CheckReturns, Stamped
  <2>. QED
    BY <1>5, <2>1 DEF CheckReturns
<1>6. CASE Attest
  <2>1. PICK i \in Unanswered(returned), answer \in {"yes", "no", "eof"} :
           returned' = [returned EXCEPT ![i] = Attested(returned[i], answer)]
    BY <1>6 DEF Attest
  <2>2. returned \in Seq(Finding)
    BY DEF IInv, TypeOK
  <2>3. \A k \in DOMAIN returned' :
           /\ k \in DOMAIN returned
           /\ returned'[k].check = returned[k].check /\ returned'[k].requires = returned[k].requires
           /\ k # i => returned'[k].outcome = returned[k].outcome /\ returned'[k].answer = returned[k].answer
           /\ k = i => Earnt(returned'[k])
    BY <2>1, <2>2, AttestedType DEF Unanswered
  <2>4. returned[i].requires
    BY <2>1 DEF Unanswered
  <2>. QED
    BY <1>6, <2>3, <2>4 DEF Attest, Attesting
<1>7. CASE ExtendFindings
  <2>1. \A i \in DOMAIN returned : Answered(cat, returned[i])
    BY <1>7 DEF ExtendFindings, Unanswered, Attesting
  <2>2. findings \in Seq(Finding) /\ returned \in Seq(Finding) /\ findings' = findings \o returned
    BY <1>7 DEF ExtendFindings, IInv, TypeOK
  <2>3. \A k \in DOMAIN findings' :
           (k \in DOMAIN findings /\ findings'[k] = findings[k]) \/ (\E i \in DOMAIN returned : findings'[k] = returned[i])
    BY <2>2
  <2>. QED
    BY <1>7, <2>1, <2>3 DEF ExtendFindings
<1>8. CASE CheckSucceeded \/ CheckFailed \/ AttestRaises \/ CheckSucceededRaises
  BY <1>8 DEF CheckSucceeded, CheckFailed, AttestRaises, CheckSucceededRaises
<1>9. ASSUME config' = config, results' = results, ~InLoop' PROVE Answers'
  BY <1>9
<1>10. CASE CategoryCompleted \/ CategoryCompletedRaises \/ HookRaises \/ Interrupt
  <2>1. config' = config /\ results' = results /\ ~InLoop'
    BY <1>10 DEF CategoryCompleted, CategoryCompletedRaises, HookRaises, Interrupt
  <2>. QED
    BY <1>9, <2>1
<1>11. CASE QueryFails \/ IdleTimeout \/ ConnectionDrops \/ UNCHANGED vars
  BY <1>11 DEF QueryFails, IdleTimeout, ConnectionDrops, vars, runVars, Attesting
<1>. QED
  BY <1>1, <1>2, <1>3, <1>4, <1>5, <1>6, <1>7, <1>8, <1>10, <1>11 DEF Next, Progress, Environment, Ended, Reports

\* Attestation is neither skipped nor invented: a finding of the report has an
\* outcome exactly when it asked for one, its check is interactive and the run
\* is; only a person's yes confirms it, and only a person's no or the end of the
\* input drops it (_apply_attestation, runner.py; prompt_attestation).
THEOREM AnswersAreComplete == Spec => []AnswersComplete
<1>1. Init => Answers
  BY DEF Init, Answers, AnswersComplete, InLoop
<1>2. IInv /\ Answers /\ [Next]_vars => Answers'
  BY AnswersStep
<1>3. Answers => AnswersComplete
  BY DEF Answers
<1>. QED
  BY <1>1, <1>2, <1>3, Invariant, PTL DEF Spec

-----------------------------------------------------------------------------
(* Counts.                                                                 *)

\* The findings of check j among fs that the report shows.
ShownOf(fs, j) == {i \in DOMAIN fs : fs[i].check = j /\ fs[i].outcome # "rejected"}

CountedIn(rs, fs) ==
    \A k \in DOMAIN rs : rs[k].status # "error" => rs[k].count = Cardinality(ShownOf(fs, rs[k].check))

\* What has no record yet has contributed no findings yet, up to the moment its
\* own are added.
NotYet ==
    /\ InLoop => \A i \in DOMAIN findings : findings[i].check \notin todo
    /\ pc \in {"started", "running", "attest"} => \A i \in DOMAIN findings : findings[i].check # current
    /\ pc = "attest" => \A i \in DOMAIN returned : returned[i].check = current

Counted ==
    /\ NotYet
    /\ CountsMatchFindings
    /\ InLoop => CountedIn(records, findings)
    /\ pc = "succeeded" => Cardinality(ShownOf(findings, current)) = Cardinality(VisibleAt(returned))

\* Extending the findings by those of check j leaves the others' alone.
LEMMA ShownOfOthers ==
    ASSUME NEW fs \in Seq(Finding), NEW gs \in Seq(Finding), NEW j \in Nat, NEW h \in Nat, h # j,
           \A i \in DOMAIN gs : gs[i].check = j
    PROVE  Cardinality(ShownOf(fs \o gs, h)) = Cardinality(ShownOf(fs, h))
<1>1. DOMAIN fs \subseteq DOMAIN (fs \o gs)
  OBVIOUS
<1>2. \A i \in DOMAIN (fs \o gs) :
         \/ i \in DOMAIN fs /\ (fs \o gs)[i] = fs[i]
         \/ i \notin DOMAIN fs /\ i - Len(fs) \in DOMAIN gs /\ (fs \o gs)[i] = gs[i - Len(fs)]
  OBVIOUS
<1>3. ShownOf(fs \o gs, h) = ShownOf(fs, h)
  BY <1>1, <1>2 DEF ShownOf
<1>. QED
  BY <1>3

\* ... and those of check j are as many as its visible findings.
LEMMA ShownOfItself ==
    ASSUME NEW fs \in Seq(Finding), NEW gs \in Seq(Finding), NEW j,
           \A i \in DOMAIN gs : gs[i].check = j, \A i \in DOMAIN fs : fs[i].check # j
    PROVE  Cardinality(ShownOf(fs \o gs, j)) = Cardinality(VisibleAt(gs))
<1>. DEFINE S == VisibleAt(gs)
            T == ShownOf(fs \o gs, j)
            shift == [i \in S |-> Len(fs) + i]
<1>1. \A i \in DOMAIN (fs \o gs) :
         \/ i \in DOMAIN fs /\ (fs \o gs)[i] = fs[i]
         \/ i \notin DOMAIN fs /\ i - Len(fs) \in DOMAIN gs /\ (fs \o gs)[i] = gs[i - Len(fs)]
  OBVIOUS
<1>2. \A i \in DOMAIN gs : i \in Nat /\ Len(fs) + i \in DOMAIN (fs \o gs) /\ (fs \o gs)[Len(fs) + i] = gs[i]
  OBVIOUS
<1>3. S \subseteq DOMAIN gs /\ Len(fs) \in Nat
  BY DEF VisibleAt
<1>4. \A i \in S : Len(fs) + i \in T
  BY <1>2, <1>3 DEF VisibleAt, ShownOf
<1>5. \A t \in T : t \in Nat /\ t - Len(fs) \in S /\ Len(fs) + (t - Len(fs)) = t
  BY <1>1, <1>3 DEF VisibleAt, ShownOf
<1>6. \A i, k \in S : Len(fs) + i = Len(fs) + k => i = k
  BY <1>2, <1>3
<1>. HIDE DEF S, T
<1>7. shift \in [S -> T]
  BY <1>4
<1>8. \A i, k \in S : shift[i] = shift[k] => i = k
  BY <1>6
<1>9. \A t \in T : \E i \in S : shift[i] = t
  BY <1>5
<1>. HIDE DEF shift
<1>10. shift \in Bijection(S, T)
  BY <1>7, <1>8, <1>9, Fun_IsBij, Fun_IsSurj, Zenon
<1>11. ExistsBijection(S, T)
  BY <1>10, Fun_ExistsBij, Zenon
<1>12. IsFiniteSet(S)
  BY VisibleAtFinite DEF S
<1>. QED
  BY <1>11, <1>12, FS_Bijection DEF S, T

\* The counts of a category that is reported are of the findings reported with it.
LEMMA CountedAppend ==
    ASSUME IInv, Counted, NEW entry, Reports(entry) PROVE Counted'
<1>1. /\ results' = Append(results, entry) /\ results \in Seq(CategoryResult) /\ entry \in CategoryResult
      /\ pc' = "completed"
  BY ReportedEntry DEF IInv, TypeOK
<1>2. CountedIn(entry.records, entry.findings)
  <2>1. CASE CategoryDone /\ entry = Result(cat, "completed", findings, records)
    BY <2>1 DEF CategoryDone, Result, InLoop, Counted
  <2>2. CASE entry.records = <<>>
    BY <2>2 DEF CountedIn
  <2>. QED
    BY <2>1, <2>2 DEF Reports, Result
<1>3. \A i \in DOMAIN results : CountedIn(results[i].records, results[i].findings)
  BY DEF Counted, CountsMatchFindings, CountedIn, ShownOf, FindingsOf
<1>4. \A i \in DOMAIN results' : results'[i] = entry \/ (i \in DOMAIN results /\ results'[i] = results[i])
  BY <1>1
<1>5. \A i \in DOMAIN results' : CountedIn(results'[i].records, results'[i].findings)
  BY <1>2, <1>3, <1>4, Zenon
<1>6. CountsMatchFindings'
  BY <1>5 DEF CountsMatchFindings, CountedIn, ShownOf, FindingsOf
<1>. QED
  BY <1>1, <1>6 DEF Counted, NotYet, InLoop

\* The check's record joins the others with the count of its shown findings.
LEMMA CountedRecord ==
    ASSUME Counted, pc \in {"succeeded", "failed"}, records \in Seq(CheckResult), NEW record \in CheckResult,
           record.status # "error" => record.count = Cardinality(ShownOf(findings, record.check)),
           records' = Append(records, record), UNCHANGED <<todo, findings, results>>, pc' = "loop"
    PROVE  Counted'
<1>1. \A k \in DOMAIN records' : records'[k] = record \/ (k \in DOMAIN records /\ records'[k] = records[k])
  OBVIOUS
<1>2. CountedIn(records, findings)
  BY DEF Counted, InLoop
<1>3. CountedIn(records', findings)
  BY <1>1, <1>2 DEF CountedIn
<1>4. NotYet'
  BY DEF Counted, NotYet, InLoop
<1>5. CountsMatchFindings'
  BY DEF Counted, CountsMatchFindings, FindingsOf
<1>. QED
  BY <1>3, <1>4, <1>5 DEF Counted

\* A step that keeps findings and records keeps the counts.
LEMMA CountedSame ==
    ASSUME Counted, NotYet', UNCHANGED <<findings, records, results>>, InLoop' => InLoop,
           pc' = "succeeded" => UNCHANGED <<pc, current, returned>>
    PROVE  Counted'
<1>1. CountsMatchFindings'
  BY DEF Counted, CountsMatchFindings, FindingsOf
<1>2. InLoop' => CountedIn(records', findings')
  BY DEF Counted
<1>3. pc' = "succeeded" => Cardinality(ShownOf(findings', current')) = Cardinality(VisibleAt(returned'))
  BY DEF Counted
<1>. QED
  BY <1>1, <1>2, <1>3 DEF Counted

\* Every step keeps the counts right.
LEMMA CountedStep == ASSUME IInv, Counted, [Next]_vars PROVE Counted'
<1>. USE DEF Counted, NotYet, CountsMatchFindings, FindingsOf, InLoop
<1>1. ASSUME NEW entry, Reports(entry) PROVE Counted'
  BY <1>1, CountedAppend
<1>2. CASE FilteredOut \/ CategoryReady \/ ReadyDone \/ ApplicabilityRaises \/ AuditCompleted
  BY <1>2 DEF FilteredOut, CategoryReady, ReadyDone, ApplicabilityRaises, AuditCompleted
<1>3. CASE Applicable
  <2>1. CountedIn(<<>>, <<>>)
    BY DEF CountedIn
  <2>. QED
    BY <1>3, <2>1 DEF Applicable
<1>4. CASE CheckStarted
  <2>1. PICK j \in todo : current' = j /\ todo' = todo \ {j}
    BY <1>4 DEF CheckStarted
  <2>2. NotYet'
    BY <1>4, <2>1 DEF CheckStarted
  <2>. QED
    BY <1>4, <2>2, CountedSame DEF CheckStarted
<1>5. CASE OpenSavepoint \/ CheckRaises
  BY <1>5 DEF OpenSavepoint, CheckRaises
<1>6. CASE CheckReturns
  <2>1. \A i \in DOMAIN returned' : returned'[i].check = current
    BY <1>6 DEF CheckReturns, Stamped
  <2>. QED
    BY <1>6, <2>1 DEF CheckReturns
<1>7. CASE Attest
  <2>1. PICK i \in Unanswered(returned), answer \in {"yes", "no", "eof"} :
           returned' = [returned EXCEPT ![i] = Attested(returned[i], answer)]
    BY <1>7 DEF Attest
  <2>2. returned \in Seq(Finding)
    BY DEF IInv, TypeOK
  <2>3. \A k \in DOMAIN returned' : k \in DOMAIN returned /\ returned'[k].check = returned[k].check
    BY <2>1, <2>2, AttestedType DEF Unanswered
  <2>. QED
    BY <1>7, <2>3 DEF Attest
<1>8. CASE ExtendFindings
  <2>1. /\ findings \in Seq(Finding) /\ returned \in Seq(Finding) /\ findings' = findings \o returned
        /\ pc = "attest" /\ pc' = "succeeded" /\ UNCHANGED <<todo, current, returned, records, results>>
    BY <1>8 DEF ExtendFindings, IInv, TypeOK
  <2>2. \A k \in DOMAIN findings' :
           (k \in DOMAIN findings /\ findings'[k] = findings[k]) \/ (\E i \in DOMAIN returned : findings'[k] = returned[i])
    BY <2>1
  <2>3. /\ todo \subseteq Nat /\ current \in Nat /\ \A j \in todo : current < j
        /\ \A k \in DOMAIN records : records[k].check < current
    BY <2>1 DEF IInv, TypeOK, Positions, AccountedSoFar, InFlight
  <2>4. \A k \in DOMAIN records : records[k].check # current
    BY <2>3 DEF IInv, TypeOK, CheckResult
  <2>5. CountedIn(records, findings')
    <3>1. \A k \in DOMAIN records :
             Cardinality(ShownOf(findings', records[k].check)) = Cardinality(ShownOf(findings, records[k].check))
      <4>1. /\ findings \in Seq(Finding) /\ returned \in Seq(Finding)
            /\ current \in Nat /\ \A i \in DOMAIN returned : returned[i].check = current
        BY <2>1, <2>3
      <4>2. ASSUME NEW h \in Nat, h # current
            PROVE  Cardinality(ShownOf(findings \o returned, h)) = Cardinality(ShownOf(findings, h))
        BY <4>1, <4>2, ShownOfOthers
      <4>3. findings' = findings \o returned
        BY <2>1
      <4>4. ASSUME NEW k \in DOMAIN records
            PROVE  Cardinality(ShownOf(findings \o returned, records[k].check)) = Cardinality(ShownOf(findings, records[k].check))
        <5>1. records \in Seq(CheckResult)
          BY DEF IInv, TypeOK
        <5>2. records[k] \in CheckResult
          BY <4>4, <5>1
        <5>3. records[k].check \in Nat
          BY <5>2 DEF CheckResult
        <5>. QED
          BY <2>4, <4>2, <4>4, <5>3
      <4>. QED
        BY <4>3, <4>4
    <3>2. CountedIn(records, findings)
      BY <2>1
    <3>. QED
      BY <3>1, <3>2, Zenon DEF CountedIn
  <2>6. Cardinality(ShownOf(findings', current)) = Cardinality(VisibleAt(returned))
    BY <2>1, ShownOfItself
  <2>7. \A k \in DOMAIN findings' : findings'[k].check \notin todo
    BY <2>1, <2>2, <2>3
  <2>8. CountedIn(records', findings') /\ Cardinality(ShownOf(findings', current')) = Cardinality(VisibleAt(returned'))
    BY <2>1, <2>5, <2>6
  <2>9. CountsMatchFindings' /\ NotYet'
    BY <2>1, <2>7
  <2>. HIDE DEF NotYet, CountsMatchFindings
  <2>. QED
    BY <2>1, <2>8, <2>9
<1>9. CASE CheckSucceeded
  <2>. DEFINE visible == Cardinality(VisibleAt(returned))
              record == [check |-> current, status |-> IF visible # 0 THEN "findings" ELSE "passed", count |-> visible]
  <2>1. record \in CheckResult /\ record.check = current /\ record.count = visible
    BY VisibleAtFinite DEF IInv, TypeOK, CheckResult
  <2>2. /\ records' = Append(records, record) /\ records \in Seq(CheckResult)
        /\ UNCHANGED <<todo, findings, results>> /\ pc = "succeeded" /\ pc' = "loop"
    BY <1>9 DEF CheckSucceeded, IInv, TypeOK
  <2>3. record.count = Cardinality(ShownOf(findings, record.check))
    BY <2>1, <2>2
  <2>. HIDE DEF record
  <2>. QED
    BY <2>1, <2>2, <2>3, CountedRecord
<1>10. CASE CheckFailed
  <2>. DEFINE record == [check |-> current, status |-> "error", count |-> 0]
  <2>1. record \in CheckResult /\ record.status = "error"
    BY DEF IInv, TypeOK, CheckResult
  <2>2. /\ records' = Append(records, record) /\ records \in Seq(CheckResult)
        /\ UNCHANGED <<todo, findings, results>> /\ pc = "failed" /\ pc' = "loop"
    BY <1>10 DEF CheckFailed, IInv, TypeOK
  <2>. HIDE DEF record
  <2>. QED
    BY <2>1, <2>2, CountedRecord
<1>11. CASE AttestRaises \/ CheckSucceededRaises
  BY <1>11, CountedSame DEF AttestRaises, CheckSucceededRaises
<1>12. CASE CategoryCompleted \/ CategoryCompletedRaises
  BY <1>12, CountedSame DEF CategoryCompleted, CategoryCompletedRaises
<1>13. CASE HookRaises \/ Interrupt
  BY <1>13, CountedSame DEF HookRaises, Interrupt
<1>14. CASE QueryFails \/ IdleTimeout \/ ConnectionDrops \/ UNCHANGED vars
  BY <1>14, CountedSame DEF QueryFails, IdleTimeout, ConnectionDrops, vars, runVars
<1>. QED
  BY <1>1, <1>2, <1>3, <1>4, <1>5, <1>6, <1>7, <1>8, <1>9, <1>10, <1>11, <1>12, <1>13, <1>14 DEF Next, Progress, Environment, Ended, Reports

\* The count a report gives for a check that did not fail is the number of its
\* findings that the report's detail section shows, for every list of findings
\* and every answer to their attestation (_visible_findings, runner.py).
THEOREM CountsAreRight == Spec => []CountsMatchFindings
<1>1. Init => Counted
  BY DEF Init, Counted, NotYet, CountsMatchFindings, InLoop
<1>2. IInv /\ Counted /\ [Next]_vars => Counted'
  BY CountedStep
<1>3. Counted => CountsMatchFindings
  BY DEF Counted
<1>. QED
  BY <1>1, <1>2, <1>3, Invariant, PTL DEF Spec

-----------------------------------------------------------------------------
(* The promise.                                                            *)

\* Category c of the plan is already in the report.
Reported(c) == \E i \in DOMAIN results : results[i].number = c

OnPlan ==
    /\ pc \notin {"select", "aborted"} => cat \in DOMAIN Planned
    /\ pc \in {"finish", "done"} => cat = N + 1
    /\ pc # "aborted" => \A c \in DOMAIN Planned :
          Reported(c) <=> c < cat \/ (c = cat /\ pc \in {"completed", "finish", "done"})

HonestSoFar == InLoop => Promise!HonestCounts(records)

\* The plan is a function of the configuration.
LEMMA PlanStable == ASSUME config' = config PROVE Planned' = Planned
BY DEF Planned, Selected, ToRun, Matches

\* The plan has the selected categories and, last, that of what is out of scope.
LEMMA PlanShape ==
    /\ DOMAIN Planned = {d \in Categories : Selected(d)} \cup {N + 1}
    /\ \A c \in DOMAIN Planned : Planned[c] = IF c <= N THEN ToRun(c) ELSE {}
<1>1. DOMAIN Planned = {d \in Categories : Selected(d)} \cup {N + 1}
  BY DEF Planned
<1>2. \A c \in DOMAIN Planned : Planned[c] = IF c \in Categories THEN ToRun(c) ELSE {}
  BY DEF Planned
<1>3. \A c \in DOMAIN Planned : c \in Categories <=> c <= N
  BY <1>1, ShapeAssumption DEF Categories
<1>. QED
  BY <1>1, <1>2, <1>3

\* Every step reports a category, finishes, ends early, or does not show.
LEMMA StepShape ==
    ASSUME [Next]_vars
    PROVE  \/ \E entry : Reports(entry)
           \/ AuditCompleted
           \/ results' = results /\ pc \notin {"done", "aborted"} /\ pc' = "aborted"
           \/ /\ results' = results
              /\ pc' = pc \/ {pc, pc'} \cap {"done", "aborted"} = {}
<1>. USE DEF Reports, runVars
<1>1. CASE FilteredOut \/ CategoryReady \/ ReadyDone \/ Applicable \/ ApplicabilityRaises \/ AuditCompleted
  BY <1>1 DEF FilteredOut, CategoryReady, ReadyDone, Applicable, ApplicabilityRaises
<1>2. CASE SkipIrrelevant \/ NotApplicable \/ CategoryDone \/ OutOfScope
  BY <1>2
<1>3. CASE CheckStarted \/ OpenSavepoint \/ QueryFails \/ CheckRaises \/ CheckReturns
  BY <1>3 DEF CheckStarted, OpenSavepoint, QueryFails, CheckRaises, CheckReturns
<1>4. CASE Attest \/ ExtendFindings \/ CheckSucceeded \/ CheckFailed \/ AttestRaises \/ CheckSucceededRaises
  BY <1>4 DEF Attest, ExtendFindings, CheckSucceeded, CheckFailed, AttestRaises, CheckSucceededRaises
<1>5. CASE CategoryCompleted \/ CategoryCompletedRaises
  BY <1>5 DEF CategoryCompleted, CategoryCompletedRaises
<1>6. CASE HookRaises \/ Interrupt \/ IdleTimeout \/ ConnectionDrops
  BY <1>6 DEF HookRaises, Interrupt, IdleTimeout, ConnectionDrops
<1>7. CASE UNCHANGED vars
  BY <1>7 DEF vars
<1>. QED
  BY <1>1, <1>2, <1>3, <1>4, <1>5, <1>6, <1>7 DEF Next, Progress, Environment, Ended

\* The category a step reports is the next of the plan.
LEMMA ReportsNext ==
    ASSUME IInv, OnPlan, NEW entry, Reports(entry)
    PROVE  /\ cat \in DOMAIN Planned /\ pc \notin {"completed", "finish", "done", "aborted"}
           /\ \A c \in DOMAIN Planned : Reported(c) <=> c < cat
<1>. USE ShapeAssumption, PlanShape DEF IInv, TypeOK
<1>1. pc \in {"select", "applicability", "loop", "ready"}
  BY DEF Reports, SkipIrrelevant, NotApplicable, CategoryDone, OutOfScope
<1>2. pc = "select" => cat \in Categories /\ Selected(cat)
  BY DEF Reports, SkipIrrelevant, NotApplicable, CategoryDone, OutOfScope
<1>3. cat \in DOMAIN Planned
  BY <1>1, <1>2 DEF OnPlan
<1>. QED
  BY <1>1, <1>3 DEF OnPlan

\* Every step keeps to the plan: reported are the planned categories before the one at work.
LEMMA OnPlanStep == ASSUME IInv, OnPlan, [Next]_vars PROVE OnPlan'
<1>1. config' = config /\ Planned' = Planned
  BY Outline, PlanStable
<1>2. cat \in 1..(N + 1) /\ N \in Nat /\ DOMAIN Planned = {d \in Categories : Selected(d)} \cup {N + 1}
      /\ DOMAIN Planned \subseteq 1..(N + 1)
  BY PlanShape, ShapeAssumption DEF IInv, TypeOK, Categories
<1>3. ASSUME NEW entry, Reports(entry) PROVE OnPlan'
  <2>1. /\ results' = Append(results, entry) /\ results \in Seq(CategoryResult) /\ entry.number = cat
        /\ pc' = "completed" /\ cat' = cat
    BY <1>3, ReportedEntry DEF IInv, TypeOK
  <2>2. cat \in DOMAIN Planned /\ \A c \in DOMAIN Planned : Reported(c) <=> c < cat
    BY <1>3, ReportsNext
  <2>3. /\ \A i \in DOMAIN results' : results'[i] = entry \/ (i \in DOMAIN results /\ results'[i] = results[i])
        /\ \A i \in DOMAIN results : i \in DOMAIN results' /\ results'[i] = results[i]
        /\ \E i \in DOMAIN results' : results'[i] = entry
    BY <2>1
  <2>4. \A c \in DOMAIN Planned : Reported(c)' <=> Reported(c) \/ c = cat
    BY <2>1, <2>3 DEF Reported
  <2>. QED
    BY <1>1, <1>2, <2>1, <2>2, <2>4 DEF OnPlan
<1>4. ASSUME results' = results PROVE \A c : Reported(c)' <=> Reported(c)
  BY <1>4 DEF Reported
<1>5. CASE FilteredOut
  <2>1. /\ cat \notin DOMAIN Planned /\ cat' = cat + 1 /\ pc = "select" /\ pc' = "select" /\ results' = results
    BY <1>2, <1>5 DEF FilteredOut, Categories
  <2>. QED
    BY <1>1, <1>2, <1>4, <2>1 DEF OnPlan
<1>6. CASE CategoryReady
  <2>1. /\ cat \in DOMAIN Planned /\ cat' = cat /\ pc = "select" /\ pc' = "ready" /\ results' = results
    BY <1>2, <1>6 DEF CategoryReady, Categories
  <2>. QED
    BY <1>1, <1>2, <1>4, <2>1 DEF OnPlan
<1>7. CASE CategoryCompleted
  <2>1. /\ pc = "completed" /\ results' = results
        /\ \/ cat' = cat + 1 /\ pc' = "select"
           \/ cat' = cat /\ pc' = "finish" /\ cat = N + 1
    BY <1>2, <1>7 DEF CategoryCompleted, Categories
  <2>. QED
    BY <1>1, <1>2, <1>4, <2>1 DEF OnPlan
<1>8. CASE AuditCompleted
  BY <1>1, <1>2, <1>4, <1>8 DEF AuditCompleted, OnPlan
<1>9. CASE /\ results' = results /\ cat' = cat
           /\ \/ pc' = pc \/ pc' = "aborted"
              \/ {pc, pc'} \cap {"select", "completed", "finish", "done", "aborted"} = {}
  BY <1>1, <1>2, <1>4, <1>9 DEF OnPlan
<1>10. CASE ReadyDone \/ Applicable \/ ApplicabilityRaises \/ CheckStarted \/ OpenSavepoint \/ QueryFails
  BY <1>9, <1>10 DEF ReadyDone, Applicable, ApplicabilityRaises, CheckStarted, OpenSavepoint, QueryFails, runVars
<1>11. CASE CheckRaises \/ CheckReturns \/ Attest \/ ExtendFindings \/ CheckSucceeded \/ CheckFailed
  BY <1>9, <1>11 DEF CheckRaises, CheckReturns, Attest, ExtendFindings, CheckSucceeded, CheckFailed
<1>12. CASE AttestRaises \/ CheckSucceededRaises \/ CategoryCompletedRaises \/ HookRaises \/ Interrupt
  BY <1>9, <1>12 DEF AttestRaises, CheckSucceededRaises, CategoryCompletedRaises, HookRaises, Interrupt
<1>13. CASE IdleTimeout \/ ConnectionDrops \/ UNCHANGED vars
  BY <1>9, <1>13 DEF IdleTimeout, ConnectionDrops, vars, runVars
<1>. QED
  BY <1>3, <1>5, <1>6, <1>7, <1>8, <1>10, <1>11, <1>12, <1>13 DEF Next, Progress, Environment, Ended, Reports

\* A record counts something exactly when it has findings.
LEMMA HonestStep == ASSUME IInv, HonestSoFar, [Next]_vars PROVE HonestSoFar'
<1>. USE DEF HonestSoFar, InLoop, Promise!HonestCounts
<1>1. ASSUME NEW entry, Reports(entry) PROVE HonestSoFar'
  BY <1>1, ReportedEntry
<1>2. CASE FilteredOut \/ CategoryReady \/ ReadyDone \/ ApplicabilityRaises \/ AuditCompleted
  BY <1>2 DEF FilteredOut, CategoryReady, ReadyDone, ApplicabilityRaises, AuditCompleted
<1>3. CASE Applicable
  BY <1>3 DEF Applicable
<1>4. CASE CheckStarted \/ OpenSavepoint \/ CheckRaises \/ CheckReturns \/ Attest
  BY <1>4 DEF CheckStarted, OpenSavepoint, CheckRaises, CheckReturns, Attest
<1>5. CASE ExtendFindings \/ AttestRaises \/ CheckSucceededRaises
  BY <1>5 DEF ExtendFindings, AttestRaises, CheckSucceededRaises
<1>6. ASSUME NEW record, records' = Append(records, record), pc \in {"succeeded", "failed"},
             record.count = 0 <=> record.status # "findings"
      PROVE  HonestSoFar'
  <2>1. records \in Seq(CheckResult)
    BY DEF IInv, TypeOK
  <2>2. \A k \in DOMAIN records' : records'[k] = record \/ (k \in DOMAIN records /\ records'[k] = records[k])
    BY <1>6, <2>1
  <2>. QED
    BY <1>6, <2>2
<1>7. CASE CheckSucceeded
  <2>. DEFINE visible == Cardinality(VisibleAt(returned))
              record == [check |-> current, status |-> IF visible # 0 THEN "findings" ELSE "passed", count |-> visible]
  <2>1. record.count = 0 <=> record.status # "findings"
    OBVIOUS
  <2>2. records' = Append(records, record) /\ pc = "succeeded"
    BY <1>7 DEF CheckSucceeded
  <2>. HIDE DEF record
  <2>. QED
    BY <1>6, <2>1, <2>2
<1>8. CASE CheckFailed
  <2>. DEFINE record == [check |-> current, status |-> "error", count |-> 0]
  <2>1. record.count = 0 <=> record.status # "findings"
    OBVIOUS
  <2>2. records' = Append(records, record) /\ pc = "failed"
    BY <1>8 DEF CheckFailed
  <2>. HIDE DEF record
  <2>. QED
    BY <1>6, <2>1, <2>2
<1>9. CASE CategoryCompleted \/ CategoryCompletedRaises \/ HookRaises \/ Interrupt
  BY <1>9 DEF CategoryCompleted, CategoryCompletedRaises, HookRaises, Interrupt
<1>10. CASE QueryFails \/ IdleTimeout \/ ConnectionDrops \/ UNCHANGED vars
  BY <1>10 DEF QueryFails, IdleTimeout, ConnectionDrops, vars, runVars
<1>. QED
  BY <1>1, <1>2, <1>3, <1>4, <1>5, <1>7, <1>8, <1>9, <1>10 DEF Next, Progress, Environment, Ended, Reports

\* What the run reports is what the plan promises for the category.
LEMMA PromisedEntry ==
    ASSUME IInv, OnPlan, HonestSoFar, [Next]_vars, NEW entry, Reports(entry)
    PROVE  Promise!ReportCategory
<1>1. /\ entry \in CategoryResult /\ entry.number = cat /\ results \in Seq(CategoryResult)
      /\ results' = Append(results, entry) /\ pc' = "completed" /\ config' = config
  BY ReportedEntry DEF IInv, TypeOK
<1>2. /\ Len(results') = Len(results) + 1 /\ results'[Len(results')] = entry
      /\ SubSeq(results', 1, Len(results)) = results /\ Len(results') \in DOMAIN results'
  BY <1>1
<1>3. /\ cat \in DOMAIN Planned /\ pc \notin {"completed", "finish", "done", "aborted"}
      /\ \A c \in DOMAIN Planned : Reported(c) <=> c < cat
  BY ReportsNext
<1>4. cat \in Promise!Outstanding
  BY <1>3, PlanShape, ShapeAssumption DEF Promise!Outstanding, Reported, Categories
<1>5. \A c \in Promise!Outstanding : cat <= c
  <2>1. \A c \in Promise!Outstanding : c \in DOMAIN Planned /\ ~Reported(c)
    BY DEF Promise!Outstanding, Reported
  <2>2. DOMAIN Planned \subseteq 1..(N + 1) /\ cat \in 1..(N + 1) /\ N \in Nat
    BY PlanShape, ShapeAssumption DEF Categories, IInv, TypeOK
  <2>3. \A c \in Promise!Outstanding : c \in 1..(N + 1) /\ ~(c < cat)
    BY <1>3, <2>1, <2>2
  <2>. HIDE DEF Promise!Outstanding
  <2>. QED
    BY <2>2, <2>3
<1>6. entry.status = "not_applicable" => entry.records = <<>>
  BY DEF Reports, Result
<1>7. entry.status = "completed" => Promise!Accounts(entry.records, Planned[cat])
  <2>1. EveryCheckAccounted'
    BY EveryCheckAccountedStep
  <2>2. entry.status = "completed" => AccountsFor(entry.records, IF cat <= N THEN ToRun(cat) ELSE {})
    BY <1>1, <1>2, <2>1 DEF EveryCheckAccounted, ToRun, Matches
  <2>. QED
    BY <1>3, <2>2, PlanShape DEF AccountsFor, Promise!Accounts
<1>8. Promise!HonestCounts(entry.records)
  <2>1. CASE CategoryDone /\ entry = Result(cat, "completed", findings, records)
    BY <2>1 DEF CategoryDone, Result, InLoop, HonestSoFar
  <2>2. CASE entry.records = <<>>
    BY <2>2 DEF Promise!HonestCounts
  <2>. QED
    BY <2>1, <2>2 DEF Reports, Result
<1>9. entry.status \in {"completed", "not_applicable"}
  BY <1>1 DEF CategoryResult
<1>10. Promise!ValidEntry(entry)
  BY <1>1, <1>4, <1>5, <1>6, <1>7, <1>8, <1>9 DEF Promise!ValidEntry
<1>. QED
  BY <1>1, <1>2, <1>3, <1>10, PlanStable DEF Promise!ReportCategory

\* Every step is one of the promise's, or does not show in it.
LEMMA PromiseStep ==
    ASSUME IInv, OnPlan, HonestSoFar, [Next]_vars PROVE [Promise!Next]_(Promise!vars)
<1>1. Planned' = Planned
  BY Outline, PlanStable
<1>2. ASSUME NEW entry, Reports(entry) PROVE Promise!Next
  BY <1>2, PromisedEntry DEF Promise!Next
<1>3. CASE AuditCompleted
  <2>1. pc = "finish" /\ pc' = "done" /\ results' = results
    BY <1>3 DEF AuditCompleted
  <2>2. \A c \in DOMAIN Planned : Reported(c)
    BY <2>1, PlanShape, ShapeAssumption DEF OnPlan, Categories
  <2>3. Promise!Outstanding = {}
    BY <2>2 DEF Promise!Outstanding, Reported
  <2>. QED
    BY <1>1, <2>1, <2>3 DEF Promise!Next, Promise!Finish
<1>4. CASE results' = results /\ pc \notin {"done", "aborted"} /\ pc' = "aborted"
  BY <1>1, <1>4 DEF Promise!Next, Promise!Abort
<1>5. CASE results' = results /\ (pc' = pc \/ {pc, pc'} \cap {"done", "aborted"} = {})
  BY <1>1, <1>5 DEF Promise!vars
<1>. QED
  BY <1>2, <1>3, <1>4, <1>5, StepShape

\* run_audit implements AuditPromise: for every plan and whatever fails, the
\* categories of the plan are reported one at a time and in order, each with one
\* honest record per planned check; nothing reported is taken back; and the run
\* is done only when the whole plan has been reported (runner.py:83-224).
THEOREM RunKeepsPromise == Spec => KeepsPromise
<1>1. Init => OnPlan /\ HonestSoFar /\ Promise!Init
  <2>1. ASSUME Init PROVE OnPlan
    <3>1. cat = 1 /\ pc = "select" /\ results = <<>>
      BY <2>1 DEF Init
    <3>2. \A c \in DOMAIN Planned : ~(c < 1)
      BY PlanShape, ShapeAssumption DEF Categories
    <3>. QED
      BY <3>1, <3>2 DEF OnPlan, Reported
  <2>. QED
    BY <2>1 DEF Init, HonestSoFar, InLoop, Promise!Init
<1>2. IInv /\ OnPlan /\ HonestSoFar /\ [Next]_vars => OnPlan' /\ HonestSoFar'
  BY OnPlanStep, HonestStep
<1>3. IInv /\ OnPlan /\ HonestSoFar /\ [Next]_vars => [Promise!Next]_(Promise!vars)
  BY PromiseStep
<1>. QED
  BY <1>1, <1>2, <1>3, Invariant, PTL DEF Spec, KeepsPromise, Promise!Spec
=============================================================================
