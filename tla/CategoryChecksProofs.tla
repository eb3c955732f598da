------------------------ MODULE CategoryChecksProofs ------------------------
(***************************************************************************)
(* What a check's outcome is worth, for every category: whatever the       *)
(* client changes between its queries, the findings of a check are the     *)
(* answers to the queries it made, each given at a moment since the        *)
(* category began, and a check that raised had a query that may raise.     *)
(***************************************************************************)
EXTENDS CategoryChecks, TLAPS

\* Findings are what the first n of these queries answered, each at some moment.
Gathered(slug, asked, n, findings, moments) ==
    \E answer \in [1..n -> SUBSET findings] :
        /\ findings = UNION {answer[i] : i \in 1..n}
        /\ \A i \in 1..n : answer[i] # Raised /\ \E db \in moments : answer[i] \in Answers(slug, asked[i], db)

\* A query the check planned at one moment may have raised at another.
MayRaise(slug) ==
    \E then, now \in Moments : \E i \in DOMAIN Queries(slug, then) :
        Raised \in Answers(slug, Queries(slug, then)[i], now)

\* All the queries the check planned at some moment make up its findings.
Complete(slug) ==
    \E db \in Moments : Gathered(slug, Queries(slug, db), Len(Queries(slug, db)), found[slug], Moments)

Explained(slug) == found[slug] # Pending /\ (Complete(slug) \/ (found[slug] = Raised /\ MayRaise(slug)))

\* The check at work has asked the first of its queries and has the rest to do.
AtWork ==
    \E db \in Moments : \E n \in 0..Len(Queries(Current, db)) :
        /\ todo = SubSeq(Queries(Current, db), n + 1, Len(Queries(Current, db)))
        /\ Gathered(Current, Queries(Current, db), n, partial, Moments)

LoopInv ==
    /\ check \in Nat /\ DOMAIN found = Slugs
    /\ ~Running => partial = Pending
    /\ Running /\ partial # Pending => AtWork
    /\ \A i \in DOMAIN Checks : check <= i => found[Checks[i]] = Pending
    /\ \/ \A i \in DOMAIN Checks : i < check => Explained(Checks[i])
       \/ ~Running /\ ~Applicable(database) /\ \A slug \in Slugs : found[slug] = Pending

\* A category's checks are listed once each.
Distinct ==
    /\ \E S : Checks \in Seq(S)
    /\ \A i, j \in DOMAIN Checks : Checks[i] = Checks[j] => i = j

Listings == \A slug \in Slugs, db \in Moments : \E Q : Queries(slug, db) \in Seq(Q)

-----------------------------------------------------------------------------
\* A step leaves behind what the database was, and adds at most one change of it.
LEMMA MomentsGrow == ASSUME [Next]_vars PROVE Moments \subseteq Moments' /\ Moments' \subseteq Moments \cup Changed(database)
BY DEF Next, vars, AskApplicability, BeginCheck, RunQuery, ReturnFindings, EndCheck, Change, Over, Moments

\* What the next query answers is gathered with the rest.
LEMMA GatheredGrows ==
    ASSUME NEW slug, NEW asked, NEW n \in Nat, NEW findings, NEW more, NEW moments,
           Gathered(slug, asked, n, findings, moments), more # Raised,
           \E db \in moments : more \in Answers(slug, asked[n + 1], db)
    PROVE  Gathered(slug, asked, n + 1, findings \cup more, moments)
<1>1. PICK answer \in [1..n -> SUBSET findings] :
        /\ findings = UNION {answer[i] : i \in 1..n}
        /\ \A i \in 1..n : answer[i] # Raised /\ \E db \in moments : answer[i] \in Answers(slug, asked[i], db)
  BY DEF Gathered
<1>. DEFINE all == [i \in 1..(n + 1) |-> IF i = n + 1 THEN more ELSE answer[i]]
<1>2. all \in [1..(n + 1) -> SUBSET (findings \cup more)]
  BY <1>1
<1>3. (\A i \in 1..n : all[i] = answer[i]) /\ all[n + 1] = more /\ 1..(n + 1) = 1..n \cup {n + 1}
  BY <1>1
<1>. HIDE DEF all
<1>4. UNION {all[i] : i \in 1..(n + 1)} = findings \cup more
  BY <1>1, <1>3
<1>5. \A i \in 1..(n + 1) : all[i] # Raised /\ \E db \in moments : all[i] \in Answers(slug, asked[i], db)
  BY <1>1, <1>3
<1>. QED
  BY <1>2, <1>4, <1>5 DEF Gathered

\* A check that has asked nothing has gathered nothing.
LEMMA NothingGathered == ASSUME NEW slug, NEW asked, NEW moments PROVE Gathered(slug, asked, 0, {}, moments)
<1>. DEFINE none == [i \in 1..0 |-> {}]
<1>1. 1..0 = {}
  OBVIOUS
<1>2. none \in [1..0 -> SUBSET {}] /\ {} = UNION {none[i] : i \in 1..0}
  BY <1>1
<1>. QED
  BY <1>1, <1>2 DEF Gathered

\* What has been gathered stays so when there are more moments.
LEMMA GatheredStays ==
    ASSUME NEW slug, NEW asked, NEW n, NEW findings, NEW moments, NEW later,
           Gathered(slug, asked, n, findings, moments), moments \subseteq later
    PROVE  Gathered(slug, asked, n, findings, later)
BY DEF Gathered

\* What explains an outcome goes on doing so.
LEMMA ExplainedStays ==
    ASSUME NEW slug, Explained(slug), Moments \subseteq Moments', found'[slug] = found[slug]
    PROVE  Explained(slug)'
<1>1. Complete(slug) => Complete(slug)'
  BY GatheredStays DEF Complete
<1>2. MayRaise(slug) => MayRaise(slug)'
  BY DEF MayRaise
<1>. QED
  BY <1>1, <1>2 DEF Explained

-----------------------------------------------------------------------------
\* The invariant holds before anything is asked.
LEMMA LoopInit == ASSUME Distinct, Init PROVE LoopInv
<1>1. DOMAIN Checks \subseteq Nat \ {0}
  BY DEF Distinct
<1>2. \A i \in DOMAIN Checks : Checks[i] \in Slugs
  BY DEF Slugs, Range
<1>. QED
  BY <1>1, <1>2 DEF Init, LoopInv, Running

\* The check has been called: nothing is asked yet.
LEMMA BeginStep == ASSUME LoopInv, Listings, BeginCheck PROVE AtWork'
<1>. DEFINE asked == Queries(Current, database)
<1>1. Current \in Slugs
  BY DEF BeginCheck, Running, Current, Slugs, Range
<1>2. PICK Q : asked \in Seq(Q)
  BY <1>1 DEF Listings, Moments
<1>. HIDE DEF asked
<1>3. asked = SubSeq(asked, 0 + 1, Len(asked)) /\ 0 \in 0..Len(asked)
  BY <1>2
<1>4. Gathered(Current, asked, 0, {}, Moments')
  BY NothingGathered
<1>5. database \in Moments' /\ Current' = Current /\ todo' = asked /\ partial' = {}
  BY DEF BeginCheck, Current, Moments, asked
<1>. QED
  BY <1>3, <1>4, <1>5 DEF AtWork, asked

\* A query has answered: its answer is gathered.
LEMMA QueryStep == ASSUME LoopInv, Listings, RunQuery, check' = check PROVE AtWork'
<1>1. Current \in Slugs /\ AtWork /\ Current' = Current /\ Moments' = Moments /\ database \in Moments
  BY DEF RunQuery, Running, Current, Slugs, Range, LoopInv, EndCheck, Moments
<1>2. PICK db \in Moments : \E n \in 0..Len(Queries(Current, db)) :
        /\ todo = SubSeq(Queries(Current, db), n + 1, Len(Queries(Current, db)))
        /\ Gathered(Current, Queries(Current, db), n, partial, Moments)
  BY <1>1 DEF AtWork
<1>. DEFINE asked == Queries(Current, db)
<1>3. PICK Q : asked \in Seq(Q)
  BY <1>1 DEF Listings
<1>4. PICK answer \in Answers(Current, Head(todo), database) :
        answer # Raised /\ partial' = partial \cup answer /\ todo' = Tail(todo)
  BY DEF RunQuery, EndCheck, LoopInv
<1>5. PICK n \in 0..Len(asked) : todo = SubSeq(asked, n + 1, Len(asked)) /\ Gathered(Current, asked, n, partial, Moments)
  BY <1>2
<1>. HIDE DEF asked
<1>6. n < Len(asked) /\ Head(todo) = asked[n + 1] /\ n + 1 \in 0..Len(asked)
  BY <1>3, <1>5 DEF RunQuery
<1>7. Tail(todo) = SubSeq(asked, (n + 1) + 1, Len(asked))
  BY <1>3, <1>5, <1>6
<1>8. Gathered(Current, asked, n + 1, partial \cup answer, Moments)
  <2>1. \E m \in Moments : answer \in Answers(Current, asked[n + 1], m)
    BY <1>1, <1>4, <1>6
  <2>2. n \in Nat /\ answer # Raised
    BY <1>4, <1>5
  <2>. QED
    BY <1>5, <2>1, <2>2, GatheredGrows
<1>. QED
  BY <1>1, <1>2, <1>4, <1>6, <1>7, <1>8 DEF AtWork, asked

\* The check has ended: its outcome is explained, and the others' still are.
LEMMA EndStep ==
    ASSUME LoopInv, Distinct, Running, NEW outcome, EndCheck(outcome), outcome # Pending,
           \/ \E db \in Moments : Gathered(Current, Queries(Current, db), Len(Queries(Current, db)), outcome, Moments)
           \/ outcome = Raised /\ MayRaise(Current)
    PROVE  LoopInv'
<1>1. /\ found' = [found EXCEPT ![Current] = outcome] /\ check' = check + 1 /\ partial' = Pending
      /\ Moments' = Moments /\ check \in DOMAIN Checks /\ Current \in DOMAIN found
  BY DEF EndCheck, Moments, Running, LoopInv, Current, Slugs, Range
<1>2. PICK S : Checks \in Seq(S)
  BY DEF Distinct
<1>3. \A i \in DOMAIN Checks : i # check => Checks[i] # Current
  BY <1>1 DEF Distinct, Current
<1>4. \A i \in DOMAIN Checks : i # check => found'[Checks[i]] = found[Checks[i]]
  BY <1>1, <1>3 DEF LoopInv
<1>5. check \in Nat /\ check' \in Nat /\ DOMAIN found' = Slugs /\ DOMAIN Checks \subseteq Nat
  BY <1>1, <1>2 DEF LoopInv
<1>6. \A i \in DOMAIN Checks : check' <= i => found'[Checks[i]] = Pending
  BY <1>1, <1>4, <1>5 DEF LoopInv
<1>7. \A i \in DOMAIN Checks : i < check => Explained(Checks[i])
  BY DEF LoopInv
<1>8. PICK slug : slug = Current
  OBVIOUS
<1>9. Explained(slug)'
  <2>1. found'[slug] = outcome
    BY <1>1, <1>8
  <2>2. CASE \E db \in Moments : Gathered(Current, Queries(Current, db), Len(Queries(Current, db)), outcome, Moments)
    BY <1>1, <1>8, <2>1, <2>2 DEF Explained, Complete
  <2>3. CASE outcome = Raised /\ MayRaise(Current)
    BY <1>1, <1>8, <2>1, <2>3 DEF Explained, MayRaise
  <2>. QED
    BY <2>2, <2>3
<1>10. ASSUME NEW i \in DOMAIN Checks, i < check' PROVE Explained(Checks[i])'
  <2>1. CASE i = check
    BY <1>8, <1>9, <2>1 DEF Current
  <2>2. CASE i < check
    BY <1>1, <1>4, <1>5, <1>7, <2>2, ExplainedStays
  <2>. QED
    BY <1>1, <1>5, <1>10, <2>1, <2>2
<1>. QED
  BY <1>1, <1>5, <1>6, <1>10 DEF LoopInv

\* The findings of a check that returns are complete.
LEMMA ReturnStep == ASSUME LoopInv, Listings, Distinct, ReturnFindings PROVE LoopInv'
<1>1. Running /\ partial # Pending /\ todo = <<>> /\ EndCheck(partial) /\ AtWork /\ Current \in Slugs
  BY DEF ReturnFindings, LoopInv, Running, Current, Slugs, Range
<1>2. PICK db \in Moments : \E n \in 0..Len(Queries(Current, db)) :
        /\ todo = SubSeq(Queries(Current, db), n + 1, Len(Queries(Current, db)))
        /\ Gathered(Current, Queries(Current, db), n, partial, Moments)
  BY <1>1 DEF AtWork
<1>. DEFINE asked == Queries(Current, db)
<1>3. PICK Q : asked \in Seq(Q)
  BY <1>1 DEF Listings
<1>4. PICK n \in 0..Len(asked) : todo = SubSeq(asked, n + 1, Len(asked)) /\ Gathered(Current, asked, n, partial, Moments)
  BY <1>2
<1>. HIDE DEF asked
<1>5. n = Len(asked)
  <2>1. SUFFICES ASSUME n < Len(asked) PROVE FALSE
    BY <1>3, <1>4
  <2>2. Len(SubSeq(asked, n + 1, Len(asked))) = Len(asked) - n
    BY <1>3, <2>1
  <2>3. Len(todo) = Len(asked) - n
    BY <1>4, <2>2
  <2>4. Len(todo) = 0
    BY <1>1
  <2>5. Len(asked) \in Nat /\ n \in Nat
    BY <1>3
  <2>. QED
    BY <2>1, <2>3, <2>4, <2>5
<1>6. \E d \in Moments : Gathered(Current, Queries(Current, d), Len(Queries(Current, d)), partial, Moments)
  BY <1>4, <1>5 DEF asked
<1>. QED
  BY <1>1, <1>6, EndStep

\* A query has raised: it is one the check planned.
LEMMA RaiseStep ==
    ASSUME LoopInv, Listings, Distinct, Raised # Pending, Running, partial # Pending, todo # <<>>,
           Raised \in Answers(Current, Head(todo), database), EndCheck(Raised)
    PROVE  LoopInv'
<1>1. AtWork /\ Current \in Slugs /\ database \in Moments
  BY DEF LoopInv, Running, Current, Slugs, Range, Moments
<1>2. PICK db \in Moments : \E n \in 0..Len(Queries(Current, db)) :
        todo = SubSeq(Queries(Current, db), n + 1, Len(Queries(Current, db)))
  BY <1>1 DEF AtWork
<1>. DEFINE asked == Queries(Current, db)
<1>3. PICK Q : asked \in Seq(Q)
  BY <1>1 DEF Listings
<1>4. PICK n \in 0..Len(asked) : todo = SubSeq(asked, n + 1, Len(asked))
  BY <1>2
<1>. HIDE DEF asked
<1>5. n + 1 \in DOMAIN asked /\ Head(todo) = asked[n + 1]
  BY <1>3, <1>4
<1>6. MayRaise(Current)
  BY <1>1, <1>5 DEF MayRaise, asked
<1>. QED
  BY <1>6, EndStep

\* The invariant of a category's loop.
THEOREM LoopStep == ASSUME LoopInv, Listings, Distinct, Raised # Pending, [Next]_vars PROVE LoopInv'
<1>1. CASE AskApplicability
  <2>1. PICK S : Checks \in Seq(S)
    BY DEF Distinct
  <2>2. DOMAIN Checks = 1..Len(Checks) /\ Len(Checks) \in Nat
    BY <2>1
  <2>3. /\ check = 0 /\ check' = IF Applicable(database) THEN 1 ELSE Len(Checks) + 1
        /\ database' = database /\ partial' = partial /\ found' = found
    BY <1>1 DEF AskApplicability
  <2>4. ~Running /\ \A i \in DOMAIN Checks : found[Checks[i]] = Pending
    BY <2>2, <2>3 DEF LoopInv, Running
  <2>5. \A slug \in Slugs : found[slug] = Pending
    BY <2>4 DEF Slugs, Range
  <2>. QED
    BY <2>2, <2>3, <2>4, <2>5 DEF LoopInv, Running
<1>2. CASE BeginCheck
  <2>1. AtWork'
    BY <1>2, BeginStep
  <2>. QED
    BY <1>2, <2>1, ExplainedStays DEF BeginCheck, LoopInv, Running, Moments
<1>3. CASE RunQuery
  <2>1. CASE check' = check /\ found' = found
    <3>1. AtWork'
      BY <1>3, <2>1, QueryStep
    <3>2. Moments' = Moments /\ Running /\ Running' /\ database' = database
      BY <1>3, <2>1 DEF RunQuery, Moments, EndCheck, Running
    <3>. QED
      BY <2>1, <3>1, <3>2, ExplainedStays DEF LoopInv
  <2>2. CASE Raised \in Answers(Current, Head(todo), database) /\ EndCheck(Raised)
    BY <1>3, <2>2, RaiseStep DEF RunQuery
  <2>. QED
    BY <1>3, <2>1, <2>2 DEF RunQuery
<1>4. CASE ReturnFindings
  BY <1>4, ReturnStep
<1>5. CASE Change
  <2>1. /\ Running /\ check' = check /\ todo' = todo /\ partial' = partial /\ found' = found
        /\ Moments \subseteq Moments' /\ Current' = Current /\ Running'
    BY <1>5 DEF Change, Running, Moments, Current
  <2>2. AtWork => AtWork'
    BY <2>1, GatheredStays DEF AtWork
  <2>. QED
    BY <2>1, <2>2, ExplainedStays DEF LoopInv
<1>6. CASE UNCHANGED vars
  <2>1. AtWork => AtWork'
    BY <1>6 DEF vars, AtWork, Moments, Current
  <2>. QED
    BY <1>6, <2>1, ExplainedStays DEF vars, LoopInv, Running, Moments
<1>. QED
  BY <1>1, <1>2, <1>3, <1>4, <1>5, <1>6 DEF Next, Over

-----------------------------------------------------------------------------
(* What the invariant says of outcomes, in the forms the categories use.   *)

\* Whatever has an outcome has an explanation.
LEMMA EndedIsExplained == ASSUME LoopInv, Distinct, NEW slug \in Slugs, found[slug] # Pending PROVE Explained(slug)
<1>1. PICK i \in DOMAIN Checks : Checks[i] = slug
  BY DEF Slugs, Range
<1>2. ~(check <= i)
  BY <1>1 DEF LoopInv
<1>3. i \in Nat /\ check \in Nat
  BY <1>1 DEF Distinct, LoopInv
<1>4. \A j \in DOMAIN Checks : j < check => Explained(Checks[j])
  BY DEF LoopInv
<1>. QED
  BY <1>1, <1>2, <1>3, <1>4

\* Each finding is of the answer to a query the check planned at some moment, and
\* none of these answers is left out.
THEOREM ToldByQueries ==
    ASSUME LoopInv, Listings, Distinct, NEW slug \in Slugs, Told(slug)
    PROVE  \E then \in Moments :
             /\ \A f \in found[slug] : \E i \in DOMAIN Queries(slug, then), now \in Moments :
                  \E answer \in Answers(slug, Queries(slug, then)[i], now) :
                      answer # Raised /\ f \in answer /\ answer \subseteq found[slug]
             /\ \A i \in DOMAIN Queries(slug, then) : \E now \in Moments :
                  \E answer \in Answers(slug, Queries(slug, then)[i], now) :
                      answer # Raised /\ answer \subseteq found[slug]
<1>1. PICK then \in Moments : Gathered(slug, Queries(slug, then), Len(Queries(slug, then)), found[slug], Moments)
  BY EndedIsExplained DEF Told, Explained, Complete
<1>2. PICK Q : Queries(slug, then) \in Seq(Q)
  BY DEF Listings
<1>3. DOMAIN Queries(slug, then) = 1..Len(Queries(slug, then))
  BY <1>2
<1>4. PICK answer \in [1..Len(Queries(slug, then)) -> SUBSET found[slug]] :
        /\ found[slug] = UNION {answer[i] : i \in 1..Len(Queries(slug, then))}
        /\ \A i \in 1..Len(Queries(slug, then)) :
              answer[i] # Raised /\ \E db \in Moments : answer[i] \in Answers(slug, Queries(slug, then)[i], db)
  BY <1>1 DEF Gathered
<1>. DEFINE asked == Queries(slug, then)
<1>. HIDE DEF asked
<1>5. \A i \in DOMAIN asked : answer[i] # Raised /\ answer[i] \subseteq found[slug]
                            /\ \E now \in Moments : answer[i] \in Answers(slug, asked[i], now)
  BY <1>3, <1>4 DEF asked
<1>6. \A f \in found[slug] : \E i \in DOMAIN asked : f \in answer[i]
  BY <1>3, <1>4 DEF asked
<1>7. \A f \in found[slug] : \E i \in DOMAIN asked, now \in Moments : \E a \in Answers(slug, asked[i], now) :
        a # Raised /\ f \in a /\ a \subseteq found[slug]
  BY <1>5, <1>6
<1>8. \A i \in DOMAIN asked : \E now \in Moments : \E a \in Answers(slug, asked[i], now) :
        a # Raised /\ a \subseteq found[slug]
  BY <1>5
<1>. QED
  BY <1>7, <1>8 DEF asked

\* A check with one query comes to what that query answered.
LEMMA ByOneQuery ==
    ASSUME LoopInv, Distinct, NEW slug \in Slugs, found[slug] # Pending,
           \A db \in Moments : DOMAIN Queries(slug, db) = {1} /\ Len(Queries(slug, db)) = 1
    PROVE  \E then, now \in Moments : found[slug] \in Answers(slug, Queries(slug, then)[1], now)
<1>1. CASE Complete(slug)
  <2>1. PICK then \in Moments : Gathered(slug, Queries(slug, then), 1, found[slug], Moments)
    BY <1>1 DEF Complete
  <2>2. PICK answer \in [1..1 -> SUBSET found[slug]] :
          /\ found[slug] = UNION {answer[i] : i \in 1..1}
          /\ \A i \in 1..1 : \E db \in Moments : answer[i] \in Answers(slug, Queries(slug, then)[i], db)
    BY <2>1 DEF Gathered
  <2>3. 1..1 = {1}
    OBVIOUS
  <2>4. found[slug] = answer[1]
    BY <2>2, <2>3
  <2>. QED
    BY <2>2, <2>3, <2>4
<1>2. CASE found[slug] = Raised /\ MayRaise(slug)
  BY <1>2 DEF MayRaise
<1>. QED
  BY <1>1, <1>2, EndedIsExplained DEF Explained

\* The findings of a check with two queries are what both answered.
LEMMA ByTwoQueries ==
    ASSUME NEW slug, Complete(slug), \A db \in Moments : Len(Queries(slug, db)) = 2
    PROVE  \E then, m, n \in Moments :
              \E a \in Answers(slug, Queries(slug, then)[1], m), b \in Answers(slug, Queries(slug, then)[2], n) :
                 a # Raised /\ b # Raised /\ found[slug] = a \cup b
<1>1. PICK then \in Moments : Gathered(slug, Queries(slug, then), 2, found[slug], Moments)
  BY DEF Complete
<1>2. PICK answer \in [1..2 -> SUBSET found[slug]] :
        /\ found[slug] = UNION {answer[i] : i \in 1..2}
        /\ \A i \in 1..2 : answer[i] # Raised /\ \E db \in Moments : answer[i] \in Answers(slug, Queries(slug, then)[i], db)
  BY <1>1 DEF Gathered
<1>3. 1..2 = {1, 2}
  OBVIOUS
<1>4. found[slug] = answer[1] \cup answer[2]
  BY <1>2, <1>3
<1>5. PICK m \in Moments : answer[1] \in Answers(slug, Queries(slug, then)[1], m)
  BY <1>2, <1>3
<1>6. PICK n \in Moments : answer[2] \in Answers(slug, Queries(slug, then)[2], n)
  BY <1>2, <1>3
<1>7. answer[1] # Raised /\ answer[2] # Raised
  BY <1>2, <1>3
<1>. QED
  BY <1>4, <1>5, <1>6, <1>7

\* ... and so those of a check that did not raise.
LEMMA ToldByTwoQueries ==
    ASSUME LoopInv, Distinct, NEW slug \in Slugs, Told(slug), \A db \in Moments : Len(Queries(slug, db)) = 2
    PROVE  \E then, m, n \in Moments :
              \E a \in Answers(slug, Queries(slug, then)[1], m), b \in Answers(slug, Queries(slug, then)[2], n) :
                 a # Raised /\ b # Raised /\ found[slug] = a \cup b
<1>1. Complete(slug)
  BY EndedIsExplained DEF Told, Explained
<1>. QED
  BY <1>1, ByTwoQueries

\* Where every answer is of some findings, so is what a check came to.
LEMMA CompleteWithin ==
    ASSUME NEW slug, NEW F, Complete(slug),
           \A then, now \in Moments : \A i \in 1..Len(Queries(slug, then)) :
              \A answer \in Answers(slug, Queries(slug, then)[i], now) : answer # Raised => answer \subseteq F
    PROVE  found[slug] \subseteq F
<1>1. PICK then \in Moments : Gathered(slug, Queries(slug, then), Len(Queries(slug, then)), found[slug], Moments)
  BY DEF Complete
<1>. DEFINE n == Len(Queries(slug, then))
<1>2. PICK answer \in [1..n -> SUBSET found[slug]] :
        /\ found[slug] = UNION {answer[i] : i \in 1..n}
        /\ \A i \in 1..n : answer[i] # Raised /\ \E db \in Moments : answer[i] \in Answers(slug, Queries(slug, then)[i], db)
  BY <1>1 DEF Gathered
<1>3. \A i \in 1..n : answer[i] \subseteq F
  BY <1>2
<1>. HIDE DEF n
<1>. QED
  BY <1>2, <1>3

\* A check before one that has ended has ended.
LEMMA InOrder ==
    ASSUME LoopInv, Distinct, NEW i \in DOMAIN Checks, NEW j \in DOMAIN Checks, i < j, found[Checks[j]] # Pending
    PROVE  Explained(Checks[i])
<1>1. ~(check <= j) /\ check \in Nat /\ i \in Nat /\ j \in Nat
  BY DEF LoopInv, Distinct
<1>2. Checks[j] \in Slugs
  BY DEF Slugs, Range
<1>. QED
  BY <1>1, <1>2 DEF LoopInv

\* A category that was skipped was not applicable when it was asked, and is not.
LEMMA SkippedIsInapplicable ==
    ASSUME LoopInv, Distinct, Skipped, Checks # <<>>
    PROVE  ~Applicable(database)
<1>1. PICK S : Checks \in Seq(S)
  BY DEF Distinct
<1>2. 1 \in DOMAIN Checks /\ 1 < check
  BY <1>1 DEF Skipped, LoopInv
<1>3. Checks[1] \in Slugs
  BY <1>2 DEF Slugs, Range
<1>. QED
  BY <1>2, <1>3 DEF LoopInv, Skipped, Explained
=============================================================================
