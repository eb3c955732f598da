------------------------ MODULE UsageCategoriesProofs ------------------------
(***************************************************************************)
(* What an audit of the categories of UsageCategories comes to, whatever   *)
(* the client changes meanwhile.  Each is the loop of CategoryChecks, so   *)
(* its part of the invariant, XInv, is the loop's (CategoryChecksProofs)   *)
(* with what stays true of its databases; XInit and XStep say that it      *)
(* holds at first and is kept, and the last lemmas of each part that a     *)
(* property of the category follows from it.                               *)
(***************************************************************************)
EXTENDS UsageCategories, TLAPS, FiniteSetTheorems

-----------------------------------------------------------------------------
(* Lot & Certification Traceability.                                       *)

\* The elements of a finite set can be listed, and each is.
LEMMA LotsListed ==
    ASSUME NEW S, IsFiniteSet(S)
    PROVE  Lots!SetToSeq(S) \in Seq(S) /\ \A x \in S : \E i \in DOMAIN Lots!SetToSeq(S) : Lots!SetToSeq(S)[i] = x
<1>1. Lots!Cardinality(S) = Cardinality(S)
  BY DEF Lots!Cardinality, Cardinality, Lots!IsFiniteSet, IsFiniteSet
<1>2. PICK n \in Nat : n = Cardinality(S) /\ ExistsBijection(1..n, S)
  BY FS_CardinalityType
<1>3. \E f \in [1..n -> S] : Lots!IsInjective(f)
  BY <1>2 DEF ExistsBijection, Bijection, Injection, IsInjective, Lots!IsInjective
<1>4. Lots!SetToSeq(S) \in [1..n -> S] /\ Lots!IsInjective(Lots!SetToSeq(S))
  BY <1>1, <1>2, <1>3 DEF Lots!SetToSeq
<1>5. Lots!SetToSeq(S) \in Injection(1..n, S)
  BY <1>4 DEF Injection, IsInjective, Lots!IsInjective
<1>6. Cardinality(1..n) = n
  BY <1>2, FS_Interval
<1>7. Lots!SetToSeq(S) \in Surjection(1..n, S)
  BY <1>2, <1>5, <1>6, FS_Injection
<1>. QED
  BY <1>2, <1>4, <1>7 DEF Surjection

\* What a check lists of a schema is finite.
LEMMA LotsFinite ==
    ASSUME NEW db, Lots!IsDatabase(db)
    PROVE  IsFiniteSet(Lots!UnconstrainedLinks(db)) /\ IsFiniteSet(Lots!WithoutUnique(db))
<1>0. \A S : Lots!IsFiniteSet(S) <=> IsFiniteSet(S)
  BY DEF Lots!IsFiniteSet, IsFiniteSet
<1>1. IsFiniteSet(Lots!Columns) /\ IsFiniteSet(Lots!Columns \X Lots!Columns)
  BY <1>0, ColumnsAssumption DEF Lots!FiniteColumns
<1>2. Lots!Known(db) \subseteq Lots!Columns
  BY DEF Lots!Known, Lots!IsDatabase
<1>3. IsFiniteSet(Lots!UnconstrainedLinks(db))
  <2>. DEFINE pairs == {q \in Lots!LotShaped(Lots!Known(db)) \X Lots!CertShaped(Lots!Known(db)) :
                          /\ Lots!Table(q[1]) = Lots!Table(q[2])
                          /\ ~(q[2] \in db.foreign /\ Lots!Table(q[2]) \in db.privileged)}
              name == [p \in pairs |-> <<"link", p[1], p[2]>>]
  <2>1. pairs \in SUBSET (Lots!Columns \X Lots!Columns)
    BY <1>2 DEF Lots!LotShaped, Lots!CertShaped
  <2>2. name \in Surjection(pairs, Lots!UnconstrainedLinks(db))
    BY DEF Surjection, Lots!UnconstrainedLinks
  <2>. QED
    BY <1>1, <2>1, <2>2, FS_Subset, FS_Surjection
<1>4. IsFiniteSet(Lots!WithoutUnique(db))
  <2>. DEFINE columns == Lots!LotShaped(Lots!Known(db)) \ db.unique
              name == [l \in columns |-> <<"lot", l>>]
  <2>1. columns \in SUBSET Lots!Columns
    BY <1>2 DEF Lots!LotShaped
  <2>2. name \in Surjection(columns, Lots!WithoutUnique(db))
    BY DEF Surjection, Lots!WithoutUnique
  <2>. QED
    BY <1>1, <2>1, <2>2, FS_Subset, FS_Surjection
<1>. QED
  BY <1>3, <1>4

LotsLoop == INSTANCE CategoryChecksProofs WITH
    Checks <- Lots!Checks, Applicable <- Lots!Applicable, Queries <- Lots!Queries, Answers <- Lots!Answers,
    Starts <- TraceStarts, Changed <- Lots!Changed

LotsInv == LotsLoop!LoopInv /\ \A db \in LotsLoop!Moments : Lots!IsDatabase(db)

\* The category's steps and words are those of the loop.
LEMMA LotsIsALoop ==
    /\ Lots!Next => LotsLoop!Next
    /\ Lots!Moments = LotsLoop!Moments
    /\ \A slug : Lots!Told(slug) <=> LotsLoop!Told(slug)
<1>1. Lots!Next => LotsLoop!Next
  BY DEF Lots!Next, LotsLoop!Next, Lots!AskApplicability, LotsLoop!AskApplicability, Lots!BeginCheck,
     LotsLoop!BeginCheck, Lots!RunQuery, LotsLoop!RunQuery, Lots!ReturnFindings, LotsLoop!ReturnFindings,
     Lots!Change, LotsLoop!Change, Lots!EndCheck, LotsLoop!EndCheck, Lots!Over, LotsLoop!Over, Lots!vars,
     LotsLoop!vars, Lots!Running, LotsLoop!Running, Lots!Current, LotsLoop!Current
<1>. QED
  BY <1>1 DEF Lots!Moments, LotsLoop!Moments, Lots!Told, LotsLoop!Told

\* Its checks are listed once each.
LEMMA LotsChecks ==
    /\ LotsLoop!Distinct
    /\ LotsLoop!Slugs = {"lot-columns-poorly-populated", "orphaned-lot-certification-links", "duplicate-lot-numbers",
      "ungoverned-certification-data"}
<1>1. Lots!Checks \in Seq({"lot-columns-poorly-populated", "orphaned-lot-certification-links", "duplicate-lot-numbers",
      "ungoverned-certification-data"})
  BY DEF Lots!Checks
<1>2. \A i, j \in DOMAIN Lots!Checks : Lots!Checks[i] = Lots!Checks[j] => i = j
  BY DEF Lots!Checks
<1>3. DOMAIN Lots!Checks = {1, 2, 3, 4}
  BY DEF Lots!Checks
<1>4. LotsLoop!Slugs = {Lots!Checks[i] : i \in DOMAIN Lots!Checks}
  BY DEF LotsLoop!Slugs, LotsLoop!Range
<1>5. LotsLoop!Slugs = {"lot-columns-poorly-populated", "orphaned-lot-certification-links", "duplicate-lot-numbers",
      "ungoverned-certification-data"}
  BY <1>3, <1>4 DEF Lots!Checks
<1>. QED
  BY <1>1, <1>2, <1>5 DEF LotsLoop!Distinct

\* A check's queries are a sequence.
LEMMA LotsListings == ASSUME \A db \in LotsLoop!Moments : Lots!IsDatabase(db) PROVE LotsLoop!Listings
<1>1. \A q : <<q>> \in Seq({q})
  OBVIOUS
<1>2. ASSUME NEW slug, NEW db, Lots!IsDatabase(db) PROVE \E Q : Lots!Queries(slug, db) \in Seq(Q)
  <2>1. Lots!Queries(slug, db) \in {Lots!SetToSeq(Lots!UnconstrainedLinks(db)), Lots!SetToSeq(Lots!WithoutUnique(db)), <<<<slug>>>>}
    BY DEF Lots!Queries
  <2>2. /\ Lots!SetToSeq(Lots!UnconstrainedLinks(db)) \in Seq(Lots!UnconstrainedLinks(db))
        /\ Lots!SetToSeq(Lots!WithoutUnique(db)) \in Seq(Lots!WithoutUnique(db))
        /\ <<<<slug>>>> \in Seq({<<slug>>})
    BY <1>1, <1>2, LotsFinite, LotsListed
  <2>. QED
    BY <2>1, <2>2
<1>. QED
  BY <1>2 DEF LotsLoop!Listings

\* Finite sets are counted as everywhere else.
LEMMA LotsCounts == \A S : Lots!Cardinality(S) = Cardinality(S)
BY DEF Lots!Cardinality, Cardinality, Lots!IsFiniteSet, IsFiniteSet

\* A row with a lot of its own repeats none.
LEMMA LotsRowAdded ==
    ASSUME NEW db, Lots!IsDatabase(db), NEW l \in Lots!LotShaped(Lots!Columns), Lots!Repeated(l, db) = {},
           NEW row \in Lots!RowsOf(Lots!Table(l)), row[l] \notin Lots!Lots(l, db),
           NEW later, later.rows[Lots!Table(l)] = Append(db.rows[Lots!Table(l)], row)
    PROVE  Lots!Repeated(l, later) = {}
<1>. DEFINE old == db.rows[Lots!Table(l)]
            new == later.rows[Lots!Table(l)]
            At(rows, v) == {i \in DOMAIN rows : rows[i][l] = v}
<1>1. old \in Seq(Lots!RowsOf(Lots!Table(l)))
  BY DEF Lots!IsDatabase, Lots!LotShaped
<1>2. /\ Len(old) \in Nat /\ DOMAIN old = 1..Len(old) /\ DOMAIN new = 1..(Len(old) + 1)
      /\ new[Len(old) + 1] = row /\ \A i \in 1..Len(old) : new[i] = old[i]
  BY <1>1
<1>3. IsFiniteSet(DOMAIN new)
  BY <1>2, FS_Interval
<1>4. /\ \A v : Lots!Occurrences(l, v, db) = Cardinality(At(old, v)) /\ Lots!Occurrences(l, v, later) = Cardinality(At(new, v))
      /\ Lots!Lots(l, db) = {old[i][l] : i \in DOMAIN old} \ {Null} /\ Lots!Lots(l, later) = {new[i][l] : i \in DOMAIN new} \ {Null}
  BY LotsCounts DEF Lots!Occurrences, Lots!Lots
<1>. HIDE DEF old, new
<1>5. ASSUME NEW v \in Lots!Lots(l, later) PROVE ~(Cardinality(At(new, v)) > 1)
  <2>1. PICK i \in DOMAIN new : new[i][l] = v /\ v # Null
    BY <1>4
  <2>2. CASE row[l] = v
    <3>1. \A j \in 1..Len(old) : old[j][l] # v
      BY <1>2, <1>4, <2>1, <2>2
    <3>2. At(new, v) = {Len(old) + 1}
      BY <1>2, <2>2, <3>1
    <3>3. Cardinality({Len(old) + 1}) = 1
      BY FS_Singleton
    <3>4. Cardinality(At(new, v)) = 1
      BY <3>2, <3>3
    <3>. QED
      BY <3>4
  <2>3. CASE row[l] # v
    <3>1. i \in DOMAIN old /\ old[i][l] = v
      BY <1>2, <2>1, <2>3
    <3>2. At(new, v) = At(old, v)
      BY <1>2, <2>3
    <3>3. v \in Lots!Lots(l, db)
      BY <1>4, <2>1, <3>1
    <3>. QED
      BY <1>4, <3>2, <3>3 DEF Lots!Repeated
  <2>. QED
    BY <2>2, <2>3
<1>. QED
  BY <1>4, <1>5 DEF Lots!Repeated

\* The client's changes make a database of a database.
LEMMA LotsDatabases == ASSUME NEW db, Lots!IsDatabase(db), NEW later \in Lots!Changed(db) PROVE Lots!IsDatabase(later)
<1>1. ASSUME NEW t \in DOMAIN Inserts, NEW row \in Inserts[t], later \in Lots!Insert(t, row, db)
      PROVE  Lots!IsDatabase(later)
  <2>1. row \in Lots!RowsOf(t)
    BY <1>1, InsertsAssumption
  <2>2. /\ later = [db EXCEPT !.rows[t] = Append(@, row)]
        /\ \A l \in Lots!Enforced(db) : Lots!Table(l) = t => row[l] \notin Lots!Lots(l, db)
    BY <1>1 DEF Lots!Insert
  <2>3. /\ DOMAIN later = DOMAIN db /\ later.columns = db.columns /\ Lots!Enforced(later) = Lots!Enforced(db)
        /\ later.rows = [db.rows EXCEPT ![t] = Append(@, row)]
    BY <2>2 DEF Lots!IsDatabase, Lots!Enforced
  <2>4. DOMAIN later.rows = DOMAIN db.rows
    BY <2>3
  <2>5. ASSUME NEW u \in DOMAIN db.rows PROVE later.rows[u] = IF u = t THEN Append(db.rows[u], row) ELSE db.rows[u]
    BY <2>3
  <2>6. ASSUME NEW u \in DOMAIN db.rows PROVE later.rows[u] \in Seq(Lots!RowsOf(u))
    <3>1. db.rows[u] \in Seq(Lots!RowsOf(u))
      BY DEF Lots!IsDatabase
    <3>2. CASE u = t
      <4>1. later.rows[u] = Append(db.rows[u], row)
        BY <2>5, <3>2
      <4>. QED
        BY <2>1, <3>1, <3>2, <4>1
    <3>3. CASE u # t
      <4>1. later.rows[u] = db.rows[u]
        BY <2>5, <3>3
      <4>. QED
        BY <3>1, <4>1
    <3>. QED
      BY <3>2, <3>3
  <2>7. ASSUME NEW l \in Lots!LotShaped(Lots!Columns), l \in Lots!Enforced(later) PROVE Lots!Repeated(l, later) = {}
    <3>1. l \in Lots!Enforced(db) /\ Lots!Repeated(l, db) = {} /\ Lots!Table(l) \in DOMAIN db.rows
      BY <2>3, <2>7 DEF Lots!IsDatabase
    <3>2. CASE Lots!Table(l) = t
      <4>1. later.rows[Lots!Table(l)] = Append(db.rows[Lots!Table(l)], row) /\ row \in Lots!RowsOf(Lots!Table(l))
        BY <2>1, <2>5, <3>1, <3>2
      <4>. QED
        BY <2>2, <3>1, <3>2, <4>1, LotsRowAdded
    <3>3. CASE Lots!Table(l) # t
      <4>1. later.rows[Lots!Table(l)] = db.rows[Lots!Table(l)]
        BY <2>5, <3>1, <3>3
      <4>. QED
        BY <3>1, <4>1 DEF Lots!Repeated, Lots!Lots, Lots!Occurrences
    <3>. QED
      BY <3>2, <3>3
  <2>. QED
    BY <2>3, <2>4, <2>6, <2>7 DEF Lots!IsDatabase
<1>2. ASSUME DOMAIN later = DOMAIN db, later.columns \subseteq db.columns, later.rows = db.rows,
             later.unique \subseteq db.unique, later.invalid = db.invalid
      PROVE  Lots!IsDatabase(later)
  <2>1. Lots!Enforced(later) \subseteq Lots!Enforced(db)
    BY <1>2 DEF Lots!Enforced
  <2>2. \A l : Lots!Repeated(l, later) = Lots!Repeated(l, db)
    BY <1>2 DEF Lots!Repeated, Lots!Lots, Lots!Occurrences
  <2>. QED
    BY <1>2, <2>1, <2>2 DEF Lots!IsDatabase
<1>3. ASSUME NEW c, later = [db EXCEPT !.columns = @ \ {c}, !.foreign = @ \ {c}, !.unique = @ \ {c}]
      PROVE  Lots!IsDatabase(later)
  <2>1. DOMAIN later = DOMAIN db /\ later.rows = db.rows /\ later.invalid = db.invalid
    BY <1>3 DEF Lots!IsDatabase
  <2>2. later.columns = db.columns \ {c} /\ later.unique = db.unique \ {c}
    BY <1>3 DEF Lots!IsDatabase
  <2>. QED
    BY <1>2, <2>1, <2>2
<1>4. ASSUME NEW c, later = [db EXCEPT !.foreign = @ \cup {c}] PROVE Lots!IsDatabase(later)
  <2>1. /\ DOMAIN later = DOMAIN db /\ later.columns = db.columns /\ later.rows = db.rows
        /\ later.unique = db.unique /\ later.invalid = db.invalid
    BY <1>4 DEF Lots!IsDatabase
  <2>. QED
    BY <1>2, <2>1
<1>5. ASSUME later \in Lots!Inserted(db) PROVE \E t \in DOMAIN Inserts : \E row \in Inserts[t] : later \in Lots!Insert(t, row, db)
  BY <1>5 DEF Lots!Inserted
<1>. QED
  BY <1>1, <1>3, <1>4, <1>5 DEF Lots!Changed

\* The category's part of the invariant holds at first, and is kept.
LEMMA LotsInit == ASSUME Lots!Init PROVE LotsInv
<1>2. LotsLoop!Init
  BY DEF Lots!Init, LotsLoop!Init, Lots!Slugs, LotsLoop!Slugs, Lots!Range, LotsLoop!Range
<1>. QED
  BY <1>2, LotsChecks, LotsLoop!LoopInit, StartsAssumption DEF LotsInv, LotsLoop!Init, LotsLoop!Moments

\* The loop's lemma, the listings and the databases give the step.
LEMMA LotsStep == ASSUME LotsInv, [Lots!Next]_<<machine, found, changes>> PROVE LotsInv'
<1>1. [LotsLoop!Next]_(LotsLoop!vars)
  BY LotsIsALoop DEF machine, LotsLoop!vars
<1>2. LotsLoop!LoopInv /\ \A db \in LotsLoop!Moments : Lots!IsDatabase(db)
  BY <1>1 DEF LotsInv
<1>3. LotsLoop!LoopInv'
  BY <1>1, <1>2, LotsLoop!LoopStep, LotsChecks, LotsListings, OutcomesAssumption
<1>4. database \in LotsLoop!Moments
  BY DEF LotsLoop!Moments
<1>5. LotsLoop!Moments' \subseteq LotsLoop!Moments \cup Lots!Changed(database)
  BY <1>1, LotsLoop!MomentsGrow
<1>. QED
  BY <1>2, <1>3, <1>4, <1>5, LotsDatabases DEF LotsInv

\* A category that was skipped has no column that speaks of lots or certificates.
LEMMA LotsSkipped == ASSUME LotsInv PROVE Lots!SkippedIsEmpty
<1>. SUFFICES ASSUME Lots!Skipped, NEW slug \in Lots!Slugs, NEW query \in Lots!ToSet(Lots!Queries(slug, database)),
                     NEW answer \in Lots!Answers(slug, query, database), NEW f \in answer
              PROVE  Lots!Table(f[2]) \in MatViews
  BY DEF Lots!SkippedIsEmpty
<1>1. Lots!Checks # <<>>
  BY DEF Lots!Checks
<1>2. ~Lots!HasSignal(database)
  <2>1. LotsLoop!Skipped
    BY DEF Lots!Skipped, LotsLoop!Skipped, Lots!Slugs, LotsLoop!Slugs, Lots!Range, LotsLoop!Range
  <2>. QED
    BY <1>1, <2>1, LotsLoop!SkippedIsInapplicable, LotsChecks DEF LotsInv, Lots!Applicable
<1>3. Lots!LotShaped(Lots!Known(database)) = {} /\ Lots!CertShaped(Lots!Known(database)) = {}
  BY <1>2 DEF Lots!HasSignal, Lots!LotShaped, Lots!CertShaped
<1>4. Lots!ToSet(Lots!SetToSeq({})) = {}
  <2>1. Lots!SetToSeq({}) \in Seq({})
    BY LotsListed, FS_EmptySet
  <2>. QED
    BY <2>1 DEF Lots!ToSet
<1>5. slug \in {"lot-columns-poorly-populated", "orphaned-lot-certification-links", "duplicate-lot-numbers",
                "ungoverned-certification-data"}
  BY LotsChecks DEF Lots!Slugs, LotsLoop!Slugs, Lots!Range, LotsLoop!Range
<1>6. CASE slug = "orphaned-lot-certification-links"
  <2>1. Lots!UnconstrainedLinks(database) = {}
    BY <1>3 DEF Lots!UnconstrainedLinks
  <2>. QED
    BY <1>4, <1>6, <2>1 DEF Lots!Queries
<1>7. CASE slug = "duplicate-lot-numbers"
  <2>1. Lots!WithoutUnique(database) = {}
    BY <1>3 DEF Lots!WithoutUnique
  <2>. QED
    BY <1>4, <1>7, <2>1 DEF Lots!Queries
<1>8. CASE slug = "lot-columns-poorly-populated"
  <2>1. query = <<"lot-columns-poorly-populated">>
    BY <1>8 DEF Lots!Queries, Lots!ToSet
  <2>2. query[1] = "lot-columns-poorly-populated"
    BY <2>1
  <2>3. Lots!Answers(slug, query, database) = {Lots!PoorlyPopulated(database)}
    BY <2>2, Zenon DEF Lots!Answers
  <2>4. PICK c \in Lots!LotShaped(database.columns) : f = <<"null", c>>
    BY <2>3 DEF Lots!PoorlyPopulated
  <2>5. c \in database.columns /\ TraceDef[c].lot /\ f[2] = c
    BY <2>4 DEF Lots!LotShaped
  <2>. QED
    BY <1>2, <2>5 DEF Lots!HasSignal, Lots!Known
<1>9. CASE slug = "ungoverned-certification-data"
  <2>1. query = <<"ungoverned-certification-data">>
    BY <1>9 DEF Lots!Queries, Lots!ToSet
  <2>2. query[1] = "ungoverned-certification-data"
    BY <2>1
  <2>3. Lots!Answers(slug, query, database) = {Lots!UngovernedCertificates(database)}
    BY <2>2, Zenon DEF Lots!Answers
  <2>. QED
    BY <1>3, <2>3 DEF Lots!UngovernedCertificates
<1>. QED
  BY <1>5, <1>6, <1>7, <1>8, <1>9

\* How many pairs precede a pair.
Rank(S, p) == Cardinality({q \in S : Lots!Precedes(q, p)})

\* Each pair has a rank of its own, and precedes those of higher ranks.
LEMMA RanksDiffer ==
    ASSUME NEW S, IsFiniteSet(S), S \subseteq Int \X Int, NEW p \in S, NEW q \in S
    PROVE  /\ Rank(S, p) \in 0..(Cardinality(S) - 1)
           /\ p # q => Lots!Precedes(p, q) \/ Lots!Precedes(q, p)
           /\ Lots!Precedes(p, q) <=> Rank(S, p) < Rank(S, q)
<1>. DEFINE Below(x) == {y \in S : Lots!Precedes(y, x)}
<1>1. \A x, y \in S : /\ ~Lots!Precedes(x, x)
                      /\ x # y => Lots!Precedes(x, y) \/ Lots!Precedes(y, x)
                      /\ \A z \in S : Lots!Precedes(x, y) /\ Lots!Precedes(y, z) => Lots!Precedes(x, z)
  BY DEF Lots!Precedes
<1>2. ASSUME NEW x \in S PROVE IsFiniteSet(Below(x)) /\ Rank(S, x) \in Nat /\ Rank(S, x) = Cardinality(Below(x))
  <2>1. IsFiniteSet(Below(x))
    BY FS_Subset
  <2>. QED
    BY <2>1, FS_CardinalityType DEF Rank
<1>3. Cardinality(S) \in Nat
  BY FS_CardinalityType
<1>4. Rank(S, p) < Cardinality(S)
  <2>1. Below(p) \in SUBSET S /\ Below(p) # S
    BY <1>1
  <2>2. Cardinality(Below(p)) <= Cardinality(S) /\ Cardinality(Below(p)) # Cardinality(S)
    BY <2>1, FS_Subset
  <2>. QED
    BY <1>2, <1>3, <2>2
<1>5. ASSUME NEW x \in S, NEW y \in S, Lots!Precedes(x, y) PROVE Rank(S, x) < Rank(S, y)
  <2>1. Below(x) \in SUBSET Below(y) /\ Below(x) # Below(y)
    BY <1>1, <1>5
  <2>2. Cardinality(Below(x)) <= Cardinality(Below(y)) /\ Cardinality(Below(x)) # Cardinality(Below(y))
    BY <1>2, <2>1, FS_Subset
  <2>3. /\ Rank(S, x) \in Nat /\ Rank(S, x) = Cardinality(Below(x))
        /\ Rank(S, y) \in Nat /\ Rank(S, y) = Cardinality(Below(y))
    BY <1>2
  <2>. HIDE DEF Below
  <2>. QED
    BY <2>2, <2>3
<1>6. ASSUME Rank(S, p) < Rank(S, q) PROVE Lots!Precedes(p, q)
  <2>1. Rank(S, p) \in Nat /\ Rank(S, q) \in Nat
    BY <1>2
  <2>2. p # q /\ ~Lots!Precedes(q, p)
    BY <1>5, <1>6, <2>1
  <2>. QED
    BY <1>1, <2>2
<1>7. Rank(S, p) \in 0..(Cardinality(S) - 1)
  <2>1. Rank(S, p) \in Nat
    BY <1>2
  <2>. QED
    BY <1>3, <1>4, <2>1
<1>. QED
  BY <1>1, <1>5, <1>6, <1>7

\* Ordering a set lists each of its pairs once, those that precede others first.
LEMMA OrderByLists ==
    ASSUME NEW S, IsFiniteSet(S), S \subseteq Int \X Int
    PROVE  /\ Cardinality(S) \in Nat /\ Lots!OrderBy(S) \in [1..Cardinality(S) -> S]
           /\ \A p \in S : \E n \in 1..Cardinality(S) : Lots!OrderBy(S)[n] = p
           /\ \A m, n \in 1..Cardinality(S) : m < n => Lots!Precedes(Lots!OrderBy(S)[m], Lots!OrderBy(S)[n])
<1>. DEFINE size == Cardinality(S)
            rank == [p \in S |-> Rank(S, p) + 1]
<1>1. size \in Nat
  BY FS_CardinalityType
<1>2. rank \in [S -> 1..size] /\ \A p, q \in S : rank[p] = rank[q] => p = q
  <2>1. \A p \in S : Rank(S, p) \in 0..(size - 1)
    BY RanksDiffer
  <2>2. \A p, q \in S : Rank(S, p) = Rank(S, q) => p = q
    BY <2>1, RanksDiffer
  <2>3. \A p \in S : Rank(S, p) + 1 \in 1..size
    BY <1>1, <2>1
  <2>. QED
    BY <2>1, <2>2, <2>3
<1>3. rank \in Injection(S, 1..size)
  BY <1>2 DEF Injection, IsInjective
<1>4. IsFiniteSet(1..size) /\ Cardinality(1..size) = size
  BY <1>1, FS_Interval
<1>5. rank \in Surjection(S, 1..size)
  BY <1>3, <1>4, FS_Injection
<1>6. ASSUME NEW n \in 1..size
      PROVE  Lots!OrderBy(S)[n] \in S /\ Rank(S, Lots!OrderBy(S)[n]) = n - 1
  <2>1. PICK p \in S : rank[p] = n
    BY <1>5 DEF Surjection
  <2>2. Rank(S, p) = n - 1
    BY <2>1, RanksDiffer
  <2>3. \E x \in S : Lots!Cardinality({y \in S : Lots!Precedes(y, x)}) = n - 1
    BY <2>2, LotsCounts DEF Rank
  <2>4. Lots!OrderBy(S)[n] = CHOOSE x \in S : Lots!Cardinality({y \in S : Lots!Precedes(y, x)}) = n - 1
    BY LotsCounts DEF Lots!OrderBy
  <2>. QED
    BY <2>3, <2>4, LotsCounts DEF Rank
<1>7. Lots!OrderBy(S) \in [1..size -> S]
  BY <1>6, LotsCounts DEF Lots!OrderBy
<1>8. ASSUME NEW p \in S PROVE \E n \in 1..size : Lots!OrderBy(S)[n] = p
  <2>1. rank[p] \in 1..size /\ Rank(S, p) = rank[p] - 1
    BY <1>2, RanksDiffer
  <2>2. Lots!OrderBy(S)[rank[p]] \in S /\ Rank(S, Lots!OrderBy(S)[rank[p]]) = Rank(S, p)
    BY <1>6, <2>1
  <2>3. rank[Lots!OrderBy(S)[rank[p]]] = rank[p]
    BY <2>2
  <2>. QED
    BY <1>2, <2>1, <2>2, <2>3
<1>9. ASSUME NEW m \in 1..size, NEW n \in 1..size, m < n
      PROVE  Lots!Precedes(Lots!OrderBy(S)[m], Lots!OrderBy(S)[n])
  BY <1>6, <1>9, RanksDiffer
<1>. QED
  BY <1>1, <1>7, <1>8, <1>9

\* The first of an ordered set's pairs: as many as the limit lets through.
LEMMA FirstOfOrdered ==
    ASSUME NEW S, IsFiniteSet(S), S \subseteq Int \X Int
    PROVE  /\ DOMAIN Lots!First(LotLimit, Lots!OrderBy(S)) = 1..Lots!Shown(Cardinality(S))
           /\ Lots!Shown(Cardinality(S)) \in 0..Cardinality(S)
           /\ \A n \in 1..Lots!Shown(Cardinality(S)) :
                 Lots!First(LotLimit, Lots!OrderBy(S))[n] = Lots!OrderBy(S)[n] /\ Lots!OrderBy(S)[n] \in S
<1>. DEFINE sorted == Lots!OrderBy(S)
            size == Cardinality(S)
<1>1. size \in Nat /\ sorted \in [1..size -> S]
  BY OrderByLists
<1>. HIDE DEF sorted, size
<1>2. sorted \in Seq(S) /\ Len(sorted) = size
  BY <1>1
<1>3. Lots!Shown(size) \in 0..size
  BY <1>1, BoundsAssumption DEF Lots!Shown
<1>4. Lots!First(LotLimit, sorted) = SubSeq(sorted, 1, Lots!Shown(size))
  BY <1>2 DEF Lots!First, Lots!Shown
<1>5. DOMAIN SubSeq(sorted, 1, Lots!Shown(size)) = 1..Lots!Shown(size)
  BY <1>1, <1>2, <1>3
<1>6. ASSUME NEW n \in 1..Lots!Shown(size)
      PROVE  SubSeq(sorted, 1, Lots!Shown(size))[n] = sorted[n] /\ sorted[n] \in S
  BY <1>1, <1>2, <1>3
<1>. QED
  BY <1>3, <1>4, <1>5, <1>6 DEF sorted, size

\* A table's rows are finitely many, and a lot column has a number in each or none.
LEMMA LotsRows ==
    ASSUME NEW db, Lots!IsDatabase(db), NEW l \in Lots!LotShaped(Lots!Columns)
    PROVE  /\ IsFiniteSet(DOMAIN db.rows[Lots!Table(l)]) /\ DOMAIN db.rows[Lots!Table(l)] \subseteq Nat
           /\ \A i \in DOMAIN db.rows[Lots!Table(l)] : db.rows[Lots!Table(l)][i][l] \in Int \cup {Null}
<1>. DEFINE rows == db.rows[Lots!Table(l)]
<1>1. rows \in Seq(Lots!RowsOf(Lots!Table(l))) /\ l \in Lots!Columns
  BY DEF Lots!IsDatabase, Lots!LotShaped
<1>2. Len(rows) \in Nat /\ DOMAIN rows = 1..Len(rows) /\ \A i \in DOMAIN rows : rows[i] \in Lots!RowsOf(Lots!Table(l))
  BY <1>1
<1>3. \A row \in Lots!RowsOf(Lots!Table(l)) : row[l] \in Int \cup {Null}
  BY <1>1 DEF Lots!RowsOf
<1>4. IsFiniteSet(DOMAIN rows)
  BY <1>2, FS_Interval
<1>. QED
  BY <1>2, <1>3, <1>4

\* The lots named without a certificate.
LEMMA LotsUnlinked ==
    ASSUME NEW db, Lots!IsDatabase(db), NEW l \in Lots!LotShaped(Lots!Columns), NEW k
    PROVE  /\ \A f \in Lots!UnlinkedCertification(l, k, db) :
                LET rows == Lots!UnlinkedRows(l, k, db) IN
                /\ f[2] = l /\ f[3] = k
                /\ f[4] = Lots!Cardinality(rows) /\ Len(f[5]) = Lots!Shown(Lots!Cardinality(rows))
                /\ \A v \in Lots!ToSet(f[5]) : \E i \in rows : db.rows[Lots!Table(l)][i][l] = v
           /\ Lots!UnlinkedRows(l, k, db) # {} => \E f \in Lots!UnlinkedCertification(l, k, db) : f[2] = l /\ f[3] = k
<1>. DEFINE all == db.rows[Lots!Table(l)]
            rows == Lots!UnlinkedRows(l, k, db)
            pair == [i \in rows |-> <<all[i][l], i>>]
            unlinked == {<<all[i][l], i>> : i \in rows}
            listed == Lots!First(LotLimit, Lots!OrderBy(unlinked))
            lots == [n \in DOMAIN listed |-> listed[n][1]]
<1>1. IsFiniteSet(rows) /\ \A i \in rows : all[i][l] \in Int /\ i \in Int
  <2>1. rows \in SUBSET DOMAIN all /\ \A i \in rows : all[i][l] # Null
    BY DEF Lots!UnlinkedRows
  <2>. QED
    BY <2>1, LotsRows, FS_Subset
<1>2. rows = {j \in DOMAIN all : all[j][k] = Null /\ all[j][l] # Null}
  BY DEF Lots!UnlinkedRows
<1>3. Lots!UnlinkedCertification(l, k, db) =
        IF unlinked = {} THEN {} ELSE {<<"unlinked", l, k, Lots!Cardinality(unlinked), lots>>}
  BY <1>2 DEF Lots!UnlinkedCertification
<1>. HIDE DEF rows
<1>4. pair \in Bijection(rows, unlinked)
  BY DEF Bijection, Injection, Surjection, IsInjective
<1>5. IsFiniteSet(unlinked) /\ Cardinality(unlinked) = Cardinality(rows)
  BY <1>1, <1>4, FS_Bijection DEF ExistsBijection
<1>6. unlinked \subseteq Int \X Int /\ (unlinked = {} <=> rows = {})
  <2>1. \A p \in unlinked : p \in Int \X Int
    BY <1>1
  <2>2. unlinked = {} <=> rows = {}
    OBVIOUS
  <2>. QED
    BY <2>1, <2>2
<1>. HIDE DEF unlinked, pair
<1>7. /\ DOMAIN listed = 1..Lots!Shown(Cardinality(rows)) /\ Lots!Shown(Cardinality(rows)) \in Nat
      /\ \A n \in 1..Lots!Shown(Cardinality(rows)) : listed[n] \in unlinked
  BY <1>5, <1>6, FirstOfOrdered
<1>8. \A p \in unlinked : \E i \in rows : all[i][l] = p[1]
  BY DEF unlinked
<1>. HIDE DEF listed
<1>9. /\ Len(lots) = Lots!Shown(Cardinality(rows))
      /\ \A v \in Lots!ToSet(lots) : \E i \in rows : all[i][l] = v
  BY <1>7, <1>8 DEF Lots!ToSet
<1>. HIDE DEF lots, all
<1>10. Lots!Cardinality(unlinked) = Lots!Cardinality(rows) /\ Lots!Cardinality(rows) = Cardinality(rows)
  BY <1>5, LotsCounts
<1>11. ASSUME NEW f \in Lots!UnlinkedCertification(l, k, db) PROVE f = <<"unlinked", l, k, Lots!Cardinality(unlinked), lots>>
  BY <1>3
<1>12. \A f : f = <<"unlinked", l, k, Lots!Cardinality(unlinked), lots>>
                => f[2] = l /\ f[3] = k /\ f[4] = Lots!Cardinality(unlinked) /\ f[5] = lots
  OBVIOUS
<1>13. rows # {} => <<"unlinked", l, k, Lots!Cardinality(unlinked), lots>> \in Lots!UnlinkedCertification(l, k, db)
  BY <1>3, <1>6
<1>. QED
  BY <1>9, <1>10, <1>11, <1>12, <1>13 DEF rows, all

\* The lots named twice.
LEMMA LotsDuplicates ==
    ASSUME NEW db, Lots!IsDatabase(db), NEW l \in Lots!LotShaped(Lots!Columns)
    PROVE  /\ \A f \in Lots!DuplicateLots(l, db) :
                /\ f[2] = l /\ Len(f[3]) = Lots!Shown(Lots!Cardinality(Lots!Repeated(l, db)))
                /\ \A n \in DOMAIN f[3] :
                      f[3][n][1] \in Lots!Repeated(l, db) /\ f[3][n][2] = Lots!Occurrences(l, f[3][n][1], db)
                /\ \A v \in Lots!Repeated(l, db), n \in DOMAIN f[3] :
                      Lots!Occurrences(l, v, db) > f[3][n][2] => \E m \in 1..n : f[3][m][1] = v
           /\ Lots!Repeated(l, db) # {} => \E f \in Lots!DuplicateLots(l, db) : f[2] = l
<1>. DEFINE all == db.rows[Lots!Table(l)]
            repeated == Lots!Repeated(l, db)
            times(v) == Lots!Occurrences(l, v, db)
            count == [v \in repeated |-> <<-times(v), v>>]
            pairs == {<<-times(v), v>> : v \in repeated}
            sorted == Lots!OrderBy(pairs)
            listed == Lots!First(LotLimit, sorted)
            told == [n \in DOMAIN listed |-> <<listed[n][2], -listed[n][1]>>]
<1>1. IsFiniteSet(repeated) /\ repeated \subseteq Int
  <2>1. [i \in DOMAIN all |-> all[i][l]] \in Surjection(DOMAIN all, {all[i][l] : i \in DOMAIN all})
    BY DEF Surjection
  <2>2. IsFiniteSet({all[i][l] : i \in DOMAIN all})
    BY <2>1, LotsRows, FS_Surjection
  <2>3. repeated \in SUBSET {all[i][l] : i \in DOMAIN all} /\ Null \notin repeated
    BY DEF Lots!Repeated, Lots!Lots
  <2>. QED
    BY <2>2, <2>3, LotsRows, FS_Subset
<1>2. ASSUME NEW v PROVE times(v) \in Nat
  <2>1. {i \in DOMAIN all : all[i][l] = v} \in SUBSET DOMAIN all
    OBVIOUS
  <2>2. Cardinality({i \in DOMAIN all : all[i][l] = v}) \in Nat
    BY <2>1, LotsRows, FS_Subset, FS_CardinalityType
  <2>. QED
    BY <2>2, LotsCounts DEF Lots!Occurrences
<1>3. Lots!DuplicateLots(l, db) = IF pairs = {} THEN {} ELSE {<<"duplicates", l, told>>}
  BY DEF Lots!DuplicateLots, Lots!Repeated
<1>. HIDE DEF repeated, times
<1>4. count \in Bijection(repeated, pairs)
  BY DEF Bijection, Injection, Surjection, IsInjective
<1>5. IsFiniteSet(pairs) /\ Cardinality(pairs) = Cardinality(repeated)
  BY <1>1, <1>4, FS_Bijection DEF ExistsBijection
<1>6. pairs \subseteq Int \X Int /\ (pairs = {} <=> repeated = {})
  <2>1. \A p \in pairs : p \in Int \X Int
    BY <1>1, <1>2
  <2>2. pairs = {} <=> repeated = {}
    OBVIOUS
  <2>. QED
    BY <2>1, <2>2
<1>7. \A p \in pairs : p[2] \in repeated /\ -p[1] = times(p[2]) /\ p[1] = -times(p[2])
  BY <1>2
<1>8. \A v \in repeated : <<-times(v), v>> \in pairs
  OBVIOUS
<1>. HIDE DEF pairs, count
<1>9. /\ DOMAIN listed = 1..Lots!Shown(Cardinality(repeated)) /\ Lots!Shown(Cardinality(repeated)) \in 0..Cardinality(repeated)
      /\ \A n \in 1..Lots!Shown(Cardinality(repeated)) : listed[n] = sorted[n] /\ listed[n] \in pairs
  BY <1>5, <1>6, FirstOfOrdered
<1>10. /\ Cardinality(repeated) \in Nat
       /\ \A p \in pairs : \E n \in 1..Cardinality(repeated) : sorted[n] = p
       /\ \A m, n \in 1..Cardinality(repeated) : m < n => Lots!Precedes(sorted[m], sorted[n])
  BY <1>5, <1>6, OrderByLists
<1>. HIDE DEF listed, sorted
<1>. DEFINE shown == Lots!Shown(Cardinality(repeated))
<1>11. /\ DOMAIN told = 1..shown /\ Len(told) = shown
       /\ \A n \in 1..shown : told[n][1] = listed[n][2] /\ told[n][2] = -listed[n][1]
  BY <1>9
<1>12. \A n \in 1..shown : told[n][1] \in repeated /\ told[n][2] = times(told[n][1])
  BY <1>7, <1>9, <1>11
<1>13. ASSUME NEW v \in repeated, NEW n \in 1..shown, times(v) > told[n][2] PROVE \E m \in 1..n : told[m][1] = v
  <2>1. PICK m \in 1..Cardinality(repeated) : sorted[m] = <<-times(v), v>>
    BY <1>8, <1>10
  <2>2. n \in 1..Cardinality(repeated) /\ sorted[n] = listed[n] /\ sorted[n] \in pairs
    BY <1>9, <1>10
  <2>3. sorted[m][1] < sorted[n][1]
    <3>1. sorted[n][1] = -times(sorted[n][2]) /\ told[n][2] = times(sorted[n][2])
      BY <1>7, <1>11, <2>2
    <3>. QED
      BY <1>2, <1>13, <2>1, <3>1
  <2>4. ~(n < m)
    <3>1. SUFFICES ASSUME n < m PROVE FALSE
      OBVIOUS
    <3>2. Lots!Precedes(sorted[n], sorted[m])
      BY <1>10, <2>2, <3>1
    <3>3. sorted[n][1] \in Int /\ sorted[m][1] \in Int
      BY <1>2, <1>7, <2>1, <2>2
    <3>. QED
      BY <2>3, <3>2, <3>3 DEF Lots!Precedes
  <2>5. m \in 1..n /\ m \in 1..shown
    BY <1>9, <1>10, <2>4
  <2>6. told[m][1] = v
    BY <1>9, <1>11, <2>1, <2>5
  <2>. QED
    BY <2>5, <2>6
<1>. HIDE DEF told, shown
<1>14. Lots!Cardinality(repeated) = Cardinality(repeated)
  BY LotsCounts
<1>15. ASSUME NEW f \in Lots!DuplicateLots(l, db) PROVE f[2] = l /\ f[3] = told
  BY <1>3
<1>16. repeated # {} => \E f \in Lots!DuplicateLots(l, db) : f[2] = l
  <2>1. <<"duplicates", l, told>>[2] = l
    OBVIOUS
  <2>. QED
    BY <1>3, <1>6, <2>1
<1>. QED
  BY <1>11, <1>12, <1>13, <1>14, <1>15, <1>16 DEF repeated, times, shown

\* What a query about a pair or a column answers, if it does.
LEMMA LotsAnswered ==
    ASSUME NEW slug, NEW now, NEW l, NEW k
    PROVE  /\ \A answer \in Lots!Answers(slug, <<"link", l, k>>, now) :
                answer # Raised => answer = Lots!UnlinkedCertification(l, k, now)
           /\ \A answer \in Lots!Answers(slug, <<"lot", l>>, now) :
                answer # Raised => answer = Lots!DuplicateLots(l, now)
<1>1. /\ <<"link", l, k>>[1] = "link" /\ <<"link", l, k>>[2] = l /\ <<"link", l, k>>[3] = k
      /\ <<"lot", l>>[1] = "lot" /\ <<"lot", l>>[2] = l
  OBVIOUS
<1>2. ASSUME NEW answer \in Lots!Answers(slug, <<"link", l, k>>, now), answer # Raised
      PROVE  answer = Lots!UnlinkedCertification(l, k, now)
  <2>1. CASE Lots!ToSet(Tail(<<"link", l, k>>)) \subseteq now.columns
    BY <1>1, <1>2, <2>1 DEF Lots!Answers
  <2>2. CASE ~(Lots!ToSet(Tail(<<"link", l, k>>)) \subseteq now.columns)
    BY <1>1, <1>2, <2>2 DEF Lots!Answers
  <2>. QED
    BY <2>1, <2>2
<1>3. ASSUME NEW answer \in Lots!Answers(slug, <<"lot", l>>, now), answer # Raised
      PROVE  answer = Lots!DuplicateLots(l, now)
  <2>1. CASE Lots!ToSet(Tail(<<"lot", l>>)) \subseteq now.columns
    BY <1>1, <1>3, <2>1 DEF Lots!Answers
  <2>2. CASE ~(Lots!ToSet(Tail(<<"lot", l>>)) \subseteq now.columns)
    BY <1>1, <1>3, <2>2 DEF Lots!Answers
  <2>. QED
    BY <2>1, <2>2
<1>. QED
  BY <1>2, <1>3

\* A check of lots tells what the queries it planned at one moment answered.
LEMMA LotsTold ==
    ASSUME LotsInv, NEW slug \in {"orphaned-lot-certification-links", "duplicate-lot-numbers"}, Lots!Told(slug)
    PROVE  /\ \A db \in Lots!Moments : Lots!IsDatabase(db)
           /\ \E then \in Lots!Moments : \E asked :
                /\ asked = (IF slug = "duplicate-lot-numbers" THEN Lots!SetToSeq(Lots!WithoutUnique(then))
                            ELSE Lots!SetToSeq(Lots!UnconstrainedLinks(then)))
                /\ \A f \in found[slug] : \E i \in DOMAIN asked, now \in Lots!Moments :
                     \E answer \in Lots!Answers(slug, asked[i], now) : answer # Raised /\ f \in answer
                /\ \A i \in DOMAIN asked : \E now \in Lots!Moments :
                     \E answer \in Lots!Answers(slug, asked[i], now) : answer # Raised /\ answer \subseteq found[slug]
<1>1. /\ LotsLoop!LoopInv /\ LotsLoop!Listings /\ LotsLoop!Distinct /\ slug \in LotsLoop!Slugs /\ LotsLoop!Told(slug)
      /\ Lots!Moments = LotsLoop!Moments /\ \A db \in LotsLoop!Moments : Lots!IsDatabase(db)
  BY LotsListings, LotsChecks, LotsIsALoop DEF LotsInv
<1>2. PICK then \in LotsLoop!Moments :
             /\ \A f \in found[slug] : \E i \in DOMAIN Lots!Queries(slug, then), now \in LotsLoop!Moments :
                  \E answer \in Lots!Answers(slug, Lots!Queries(slug, then)[i], now) :
                      answer # Raised /\ f \in answer /\ answer \subseteq found[slug]
             /\ \A i \in DOMAIN Lots!Queries(slug, then) : \E now \in LotsLoop!Moments :
                  \E answer \in Lots!Answers(slug, Lots!Queries(slug, then)[i], now) :
                      answer # Raised /\ answer \subseteq found[slug]
  BY <1>1, LotsLoop!ToldByQueries
<1>3. Lots!Queries(slug, then) = IF slug = "duplicate-lot-numbers" THEN Lots!SetToSeq(Lots!WithoutUnique(then))
                                 ELSE Lots!SetToSeq(Lots!UnconstrainedLinks(then))
  <2>1. CASE slug = "duplicate-lot-numbers"
    BY <2>1, Zenon DEF Lots!Queries
  <2>2. CASE slug = "orphaned-lot-certification-links"
    BY <2>2, Zenon DEF Lots!Queries
  <2>. QED
    BY <2>1, <2>2
<1>. QED
  BY <1>1, <1>2, <1>3

\* The findings about links are those of the pairs listed, each at some moment,
\* and a pair that has always been there is listed.
LEMMA LotsLinks ==
    ASSUME LotsInv, Lots!Told("orphaned-lot-certification-links")
    PROVE  LET findings == found["orphaned-lot-certification-links"] IN
           /\ \A f \in findings : \E l \in Lots!LotShaped(Lots!Columns), now \in Lots!Moments : \E k :
                f \in Lots!UnlinkedCertification(l, k, now)
           /\ \A l \in Lots!LotShaped(Lots!Columns), k \in Lots!CertShaped(Lots!Columns) :
                Lots!Table(l) = Lots!Table(k) /\ (\A db \in Lots!Moments : {l, k} \subseteq Lots!Known(db) /\ k \notin db.foreign)
                => \E now \in Lots!Moments : Lots!UnlinkedCertification(l, k, now) \subseteq findings
<1>. DEFINE slug == "orphaned-lot-certification-links"
            findings == found[slug]
<1>. HIDE DEF slug
<1>1. PICK then, asked :
        /\ then \in Lots!Moments /\ asked = Lots!SetToSeq(Lots!UnconstrainedLinks(then))
        /\ \A f \in findings : \E i \in DOMAIN asked, now \in Lots!Moments :
             \E answer \in Lots!Answers(slug, asked[i], now) : answer # Raised /\ f \in answer
        /\ \A i \in DOMAIN asked : \E now \in Lots!Moments :
             \E answer \in Lots!Answers(slug, asked[i], now) : answer # Raised /\ answer \subseteq findings
  BY LotsTold DEF slug
<1>2. Lots!IsDatabase(then)
  BY <1>1, LotsTold
<1>3. /\ \A i \in DOMAIN asked : asked[i] \in Lots!UnconstrainedLinks(then)
      /\ \A q \in Lots!UnconstrainedLinks(then) : \E i \in DOMAIN asked : asked[i] = q
  BY <1>1, <1>2, LotsFinite, LotsListed
<1>. HIDE DEF findings
<1>4. ASSUME NEW f \in findings
      PROVE  \E l \in Lots!LotShaped(Lots!Columns), now \in Lots!Moments : \E k : f \in Lots!UnlinkedCertification(l, k, now)
  <2>1. PICK i \in DOMAIN asked, now \in Lots!Moments :
          \E answer \in Lots!Answers(slug, asked[i], now) : answer # Raised /\ f \in answer
    BY <1>1
  <2>2. PICK l \in Lots!LotShaped(Lots!Known(then)), k \in Lots!CertShaped(Lots!Known(then)) : asked[i] = <<"link", l, k>>
    BY <1>3 DEF Lots!UnconstrainedLinks
  <2>3. l \in Lots!LotShaped(Lots!Columns)
    BY <1>2, <2>2 DEF Lots!LotShaped, Lots!Known, Lots!IsDatabase
  <2>4. f \in Lots!UnlinkedCertification(l, k, now)
    BY <2>1, <2>2, LotsAnswered
  <2>. QED
    BY <2>3, <2>4
<1>5. ASSUME NEW l \in Lots!LotShaped(Lots!Columns), NEW k \in Lots!CertShaped(Lots!Columns), Lots!Table(l) = Lots!Table(k),
             \A db \in Lots!Moments : {l, k} \subseteq Lots!Known(db) /\ k \notin db.foreign
      PROVE  \E now \in Lots!Moments : Lots!UnlinkedCertification(l, k, now) \subseteq findings
  <2>1. <<l, k>> \in Lots!LotShaped(Lots!Known(then)) \X Lots!CertShaped(Lots!Known(then)) /\ k \notin then.foreign
    BY <1>1, <1>5 DEF Lots!LotShaped, Lots!CertShaped
  <2>2. <<"link", l, k>> \in Lots!UnconstrainedLinks(then)
    BY <1>5, <2>1 DEF Lots!UnconstrainedLinks
  <2>3. PICK i \in DOMAIN asked : asked[i] = <<"link", l, k>>
    BY <1>3, <2>2
  <2>4. PICK now \in Lots!Moments : \E answer \in Lots!Answers(slug, <<"link", l, k>>, now) : answer # Raised /\ answer \subseteq findings
    BY <1>1, <2>3
  <2>. QED
    BY <2>4, LotsAnswered
<1>. QED
  BY <1>4, <1>5 DEF findings, slug

\* The findings about duplicates are those of the columns listed, each at some
\* moment, and a column that has always been there, with duplicates, is listed.
LEMMA LotsTwice ==
    ASSUME LotsInv, Lots!Told("duplicate-lot-numbers")
    PROVE  LET findings == found["duplicate-lot-numbers"] IN
           /\ \A f \in findings : \E l \in Lots!LotShaped(Lots!Columns), now \in Lots!Moments : f \in Lots!DuplicateLots(l, now)
           /\ \A l \in Lots!LotShaped(Lots!Columns) :
                (\A db \in Lots!Moments : l \in Lots!Known(db) \ db.invalid /\ Lots!Repeated(l, db) # {})
                => \E now \in Lots!Moments : Lots!DuplicateLots(l, now) \subseteq findings
<1>. DEFINE slug == "duplicate-lot-numbers"
            findings == found[slug]
<1>. HIDE DEF slug
<1>1. PICK then, asked :
        /\ then \in Lots!Moments /\ asked = Lots!SetToSeq(Lots!WithoutUnique(then))
        /\ \A f \in findings : \E i \in DOMAIN asked, now \in Lots!Moments :
             \E answer \in Lots!Answers(slug, asked[i], now) : answer # Raised /\ f \in answer
        /\ \A i \in DOMAIN asked : \E now \in Lots!Moments :
             \E answer \in Lots!Answers(slug, asked[i], now) : answer # Raised /\ answer \subseteq findings
  BY LotsTold DEF slug
<1>2. Lots!IsDatabase(then)
  BY <1>1, LotsTold
<1>3. /\ \A i \in DOMAIN asked : asked[i] \in Lots!WithoutUnique(then)
      /\ \A q \in Lots!WithoutUnique(then) : \E i \in DOMAIN asked : asked[i] = q
  BY <1>1, <1>2, LotsFinite, LotsListed
<1>. HIDE DEF findings
<1>4. ASSUME NEW f \in findings
      PROVE  \E l \in Lots!LotShaped(Lots!Columns), now \in Lots!Moments : f \in Lots!DuplicateLots(l, now)
  <2>1. PICK i \in DOMAIN asked, now \in Lots!Moments :
          \E answer \in Lots!Answers(slug, asked[i], now) : answer # Raised /\ f \in answer
    BY <1>1
  <2>2. PICK l \in Lots!LotShaped(Lots!Known(then)) : asked[i] = <<"lot", l>>
    BY <1>3 DEF Lots!WithoutUnique
  <2>3. l \in Lots!LotShaped(Lots!Columns)
    BY <1>2, <2>2 DEF Lots!LotShaped, Lots!Known, Lots!IsDatabase
  <2>4. f \in Lots!DuplicateLots(l, now)
    BY <2>1, <2>2, LotsAnswered
  <2>. QED
    BY <2>3, <2>4
<1>5. ASSUME NEW l \in Lots!LotShaped(Lots!Columns),
             \A db \in Lots!Moments : l \in Lots!Known(db) \ db.invalid /\ Lots!Repeated(l, db) # {}
      PROVE  \E now \in Lots!Moments : Lots!DuplicateLots(l, now) \subseteq findings
  <2>1. l \in Lots!LotShaped(Lots!Known(then)) /\ l \notin then.unique
    BY <1>1, <1>2, <1>5 DEF Lots!LotShaped, Lots!IsDatabase, Lots!Enforced
  <2>2. <<"lot", l>> \in Lots!WithoutUnique(then)
    BY <2>1 DEF Lots!WithoutUnique
  <2>3. PICK i \in DOMAIN asked : asked[i] = <<"lot", l>>
    BY <1>3, <2>2
  <2>4. PICK now \in Lots!Moments : \E answer \in Lots!Answers(slug, <<"lot", l>>, now) : answer # Raised /\ answer \subseteq findings
    BY <1>1, <2>3
  <2>. QED
    BY <2>4, LotsAnswered
<1>. QED
  BY <1>4, <1>5 DEF findings, slug

\* Lots are named as they were.
LEMMA LotsHonest == ASSUME LotsInv PROVE Lots!LotsAreNamedHonestly
<1>1. ASSUME Lots!Told("orphaned-lot-certification-links"), NEW f \in found["orphaned-lot-certification-links"]
      PROVE  \E db \in Lots!Moments :
                LET rows == Lots!UnlinkedRows(f[2], f[3], db) IN
                /\ f[4] = Lots!Cardinality(rows) /\ Len(f[5]) = Lots!Shown(Lots!Cardinality(rows))
                /\ \A v \in Lots!ToSet(f[5]) : \E i \in rows : db.rows[Lots!Table(f[2])][i][f[2]] = v
  <2>1. PICK l, k, now : l \in Lots!LotShaped(Lots!Columns) /\ now \in Lots!Moments /\ f \in Lots!UnlinkedCertification(l, k, now)
    BY <1>1, LotsLinks
  <2>2. Lots!IsDatabase(now)
    BY <1>1, <2>1, LotsTold
  <2>3. f[2] = l /\ f[3] = k
    BY <2>1, <2>2, LotsUnlinked
  <2>4. LET rows == Lots!UnlinkedRows(f[2], f[3], now) IN
        /\ f[4] = Lots!Cardinality(rows) /\ Len(f[5]) = Lots!Shown(Lots!Cardinality(rows))
        /\ \A v \in Lots!ToSet(f[5]) : \E i \in rows : now.rows[Lots!Table(f[2])][i][f[2]] = v
    BY <2>1, <2>2, <2>3, LotsUnlinked
  <2>. QED
    BY <2>1, <2>4
<1>2. ASSUME Lots!Told("orphaned-lot-certification-links"),
             NEW l \in Lots!LotShaped(Lots!Columns), NEW k \in Lots!CertShaped(Lots!Columns), Lots!Table(l) = Lots!Table(k),
             \A db \in Lots!Moments : {l, k} \subseteq Lots!Known(db) /\ k \notin db.foreign /\ Lots!UnlinkedRows(l, k, db) # {}
      PROVE  \E f \in found["orphaned-lot-certification-links"] : f[2] = l /\ f[3] = k
  <2>1. PICK now \in Lots!Moments : Lots!UnlinkedCertification(l, k, now) \subseteq found["orphaned-lot-certification-links"]
    BY <1>2, LotsLinks
  <2>2. Lots!IsDatabase(now) /\ Lots!UnlinkedRows(l, k, now) # {}
    BY <1>2, LotsTold
  <2>3. \E f \in Lots!UnlinkedCertification(l, k, now) : f[2] = l /\ f[3] = k
    BY <2>2, LotsUnlinked
  <2>. QED
    BY <2>1, <2>3
<1>3. ASSUME Lots!Told("duplicate-lot-numbers"), NEW f \in found["duplicate-lot-numbers"]
      PROVE  \E db \in Lots!Moments :
                /\ Len(f[3]) = Lots!Shown(Lots!Cardinality(Lots!Repeated(f[2], db)))
                /\ \A n \in DOMAIN f[3] :
                      f[3][n][1] \in Lots!Repeated(f[2], db) /\ f[3][n][2] = Lots!Occurrences(f[2], f[3][n][1], db)
                /\ \A v \in Lots!Repeated(f[2], db), n \in DOMAIN f[3] :
                      Lots!Occurrences(f[2], v, db) > f[3][n][2] => \E m \in 1..n : f[3][m][1] = v
  <2>1. PICK l \in Lots!LotShaped(Lots!Columns), now \in Lots!Moments : f \in Lots!DuplicateLots(l, now)
    BY <1>3, LotsTwice
  <2>2. Lots!IsDatabase(now)
    BY <1>3, <2>1, LotsTold
  <2>3. f[2] = l
    BY <2>1, <2>2, LotsDuplicates
  <2>4. /\ Len(f[3]) = Lots!Shown(Lots!Cardinality(Lots!Repeated(f[2], now)))
        /\ \A n \in DOMAIN f[3] :
              f[3][n][1] \in Lots!Repeated(f[2], now) /\ f[3][n][2] = Lots!Occurrences(f[2], f[3][n][1], now)
        /\ \A v \in Lots!Repeated(f[2], now), n \in DOMAIN f[3] :
              Lots!Occurrences(f[2], v, now) > f[3][n][2] => \E m \in 1..n : f[3][m][1] = v
    BY <2>1, <2>2, <2>3, LotsDuplicates
  <2>. QED
    BY <2>4
<1>4. ASSUME Lots!Told("duplicate-lot-numbers"), NEW l \in Lots!LotShaped(Lots!Columns),
             \A db \in Lots!Moments : l \in Lots!Known(db) \ db.invalid /\ Lots!Repeated(l, db) # {}
      PROVE  \E f \in found["duplicate-lot-numbers"] : f[2] = l
  <2>1. PICK now \in Lots!Moments : Lots!DuplicateLots(l, now) \subseteq found["duplicate-lot-numbers"]
    BY <1>4, LotsTwice
  <2>2. Lots!IsDatabase(now) /\ Lots!Repeated(l, now) # {}
    BY <1>4, LotsTold
  <2>3. \E f \in Lots!DuplicateLots(l, now) : f[2] = l
    BY <2>2, LotsDuplicates
  <2>. QED
    BY <2>1, <2>3
<1>. QED
  BY <1>1, <1>2, <1>3, <1>4 DEF Lots!LotsAreNamedHonestly

-----------------------------------------------------------------------------
(* Storage Health.                                                         *)

StorageLoop == INSTANCE CategoryChecksProofs WITH
    Checks <- Storage!Checks, Applicable <- Storage!Applicable, Queries <- Storage!Queries, Answers <- Storage!Answers,
    Starts <- StorageStarts, Changed <- Storage!Changed

\* Transactions of the others only end while the category runs; the slots are as they were.
StorageSince(start, db) ==
    /\ Storage!IsDatabase(start) /\ Storage!IsDatabase(db)
    /\ db.transactions \subseteq start.transactions /\ db.slots = start.slots /\ db.standby = start.standby

StorageInv == StorageLoop!LoopInv /\ \E start \in StorageStarts : \A db \in StorageLoop!Moments : StorageSince(start, db)

\* The category's steps and words are those of the loop.
LEMMA StorageIsALoop ==
    /\ Storage!Next => StorageLoop!Next
    /\ Storage!Moments = StorageLoop!Moments
    /\ \A slug : Storage!Told(slug) <=> StorageLoop!Told(slug)
<1>1. Storage!Next => StorageLoop!Next
  BY DEF Storage!Next, StorageLoop!Next, Storage!AskApplicability, StorageLoop!AskApplicability,
     Storage!BeginCheck, StorageLoop!BeginCheck, Storage!RunQuery, StorageLoop!RunQuery,
     Storage!ReturnFindings, StorageLoop!ReturnFindings, Storage!Change, StorageLoop!Change,
     Storage!EndCheck, StorageLoop!EndCheck, Storage!Over, StorageLoop!Over, Storage!vars,
     StorageLoop!vars, Storage!Running, StorageLoop!Running, Storage!Current, StorageLoop!Current
<1>. QED
  BY <1>1 DEF Storage!Moments, StorageLoop!Moments, Storage!Told, StorageLoop!Told

\* Its checks are listed once each.
LEMMA StorageChecks ==
    /\ StorageLoop!Distinct
    /\ StorageLoop!Slugs = {"table-bloat", "index-bloat", "index-to-table-size-ratio", "large-toast-on-hot-tables",
      "toast-storage-strategy", "autovacuum-explicitly-disabled", "xmin-horizon-risk"}
<1>1. Storage!Checks \in Seq({"table-bloat", "index-bloat", "index-to-table-size-ratio", "large-toast-on-hot-tables",
      "toast-storage-strategy", "autovacuum-explicitly-disabled", "xmin-horizon-risk"})
  BY DEF Storage!Checks
<1>2. \A i, j \in DOMAIN Storage!Checks : Storage!Checks[i] = Storage!Checks[j] => i = j
  BY DEF Storage!Checks
<1>3. DOMAIN Storage!Checks = {1, 2, 3, 4, 5, 6, 7}
  BY DEF Storage!Checks
<1>4. StorageLoop!Slugs = {Storage!Checks[i] : i \in DOMAIN Storage!Checks}
  BY DEF StorageLoop!Slugs, StorageLoop!Range
<1>5. StorageLoop!Slugs = {"table-bloat", "index-bloat", "index-to-table-size-ratio", "large-toast-on-hot-tables",
      "toast-storage-strategy", "autovacuum-explicitly-disabled", "xmin-horizon-risk"}
  BY <1>3, <1>4 DEF Storage!Checks
<1>. QED
  BY <1>1, <1>2, <1>5 DEF StorageLoop!Distinct

\* A check's queries are a sequence.
LEMMA StorageListings == ASSUME \A db \in StorageLoop!Moments : Storage!IsDatabase(db) PROVE StorageLoop!Listings
<1>2. ASSUME NEW slug, NEW db PROVE \E Q : Storage!Queries(slug, db) \in Seq(Q)
  <2>1. (\E q : Storage!Queries(slug, db) = <<q>>) \/ (\E q, r : Storage!Queries(slug, db) = <<q, r>>)
    BY Zenon DEF Storage!Queries
  <2>2. ASSUME NEW q, Storage!Queries(slug, db) = <<q>> PROVE Storage!Queries(slug, db) \in Seq({q})
    BY <2>2
  <2>3. ASSUME NEW q, NEW r, Storage!Queries(slug, db) = <<q, r>> PROVE Storage!Queries(slug, db) \in Seq({q, r})
    BY <2>3
  <2>. QED
    BY <2>1, <2>2, <2>3, Zenon
<1>. QED
  BY <1>2 DEF StorageLoop!Listings

\* The client's changes make a database of a database, and keep what does not change.
LEMMA StorageDatabases ==
    ASSUME NEW start, NEW db, StorageSince(start, db), NEW later \in Storage!Changed(db) PROVE StorageSince(start, later)
<1>1. CASE later = [db EXCEPT !.installed = ~@]
  BY <1>1 DEF StorageSince, Storage!IsDatabase
<1>2. ASSUME NEW x, later = [db EXCEPT !.locked = IF x \in @ THEN @ \ {x} ELSE @ \cup {x}] PROVE StorageSince(start, later)
  BY <1>2 DEF StorageSince, Storage!IsDatabase
<1>3. ASSUME NEW t \in Storage!Tables, later = Storage!Vacuumed(t, db) PROVE StorageSince(start, later)
  <2>. DEFINE empty == [[db.tables[t] EXCEPT !.dead = 0] EXCEPT !.deadBytes = 0]
              table == [empty EXCEPT !.free = db.tables[t].free + db.tables[t].deadBytes]
              count == [db.counted[t] EXCEPT !.dead = 0]
  <2>0. /\ DOMAIN empty = DOMAIN db.tables[t] /\ empty.live = db.tables[t].live
        /\ empty.liveBytes = db.tables[t].liveBytes /\ empty.dead = 0 /\ empty.deadBytes = 0
    BY DEF StorageSince, Storage!IsDatabase
  <2>1. /\ DOMAIN table = DOMAIN db.tables[t] /\ table.live = db.tables[t].live
        /\ table.liveBytes = db.tables[t].liveBytes /\ table.dead = 0 /\ table.deadBytes = 0
        /\ table.free = db.tables[t].free + db.tables[t].deadBytes
    <3>. HIDE DEF empty
    <3>. QED
      BY <2>0 DEF StorageSince, Storage!IsDatabase
  <2>2. count \in [live: Nat, dead: Nat]
    BY DEF StorageSince, Storage!IsDatabase
  <2>3. later = [db EXCEPT !.tables[t] = table, !.counted[t] = count]
    BY <1>3 DEF Storage!Vacuumed
  <2>. HIDE DEF table, count
  <2>4. /\ later.tables = [db.tables EXCEPT ![t] = table] /\ later.counted = [db.counted EXCEPT ![t] = count]
        /\ DOMAIN later = DOMAIN db /\ later.clock = db.clock /\ later.transactions = db.transactions
        /\ later.slots = db.slots /\ later.standby = db.standby
    BY <2>3 DEF StorageSince, Storage!IsDatabase
  <2>5. DOMAIN later.tables = Storage!Tables /\ later.counted \in [Storage!Tables -> [live: Nat, dead: Nat]]
    BY <2>2, <2>4 DEF StorageSince, Storage!IsDatabase
  <2>6. ASSUME NEW u \in Storage!Tables
        PROVE  LET rows == later.tables[u]
               IN  /\ {"live", "dead", "liveBytes", "deadBytes", "free", "toast", "seq", "idx", "off"} \subseteq DOMAIN rows
                   /\ {rows.live, rows.dead, rows.liveBytes, rows.deadBytes, rows.free} \subseteq Nat
    <3>1. CASE u = t
      BY <2>1, <2>4, <3>1 DEF StorageSince, Storage!IsDatabase
    <3>2. CASE u # t
      BY <2>4, <3>2 DEF StorageSince, Storage!IsDatabase
    <3>. QED
      BY <3>1, <3>2
  <2>. QED
    BY <2>4, <2>5, <2>6 DEF StorageSince, Storage!IsDatabase
<1>4. CASE later = [db EXCEPT !.clock = @ + LongTransaction]
  BY <1>4, BoundsAssumption DEF StorageSince, Storage!IsDatabase
<1>5. ASSUME NEW x \in db.transactions, later = [db EXCEPT !.transactions = @ \ {x}] PROVE StorageSince(start, later)
  BY <1>5 DEF StorageSince, Storage!IsDatabase
<1>. QED
  BY <1>1, <1>2, <1>3, <1>4, <1>5 DEF Storage!Changed

\* The category's part of the invariant holds at first, and is kept.
LEMMA StorageInit == ASSUME Storage!Init PROVE StorageInv
<1>2. StorageLoop!Init
  BY DEF Storage!Init, StorageLoop!Init, Storage!Slugs, StorageLoop!Slugs, Storage!Range, StorageLoop!Range
<1>3. StorageSince(database, database)
  BY StartsAssumption DEF Storage!Init, StorageSince
<1>. QED
  BY <1>2, <1>3, StorageChecks, StorageLoop!LoopInit DEF StorageInv, StorageLoop!Init, StorageLoop!Moments

\* The loop's lemma, the listings and the databases give the step.
LEMMA StorageStep == ASSUME StorageInv, [Storage!Next]_<<machine, found, changes>> PROVE StorageInv'
<1>1. [StorageLoop!Next]_(StorageLoop!vars)
  BY StorageIsALoop DEF machine, StorageLoop!vars
<1>2. PICK start \in StorageStarts : \A db \in StorageLoop!Moments : StorageSince(start, db)
  BY <1>1 DEF StorageInv
<1>3. StorageLoop!LoopInv /\ \A db \in StorageLoop!Moments : Storage!IsDatabase(db)
  BY <1>1, <1>2 DEF StorageInv, StorageSince
<1>4. StorageLoop!LoopInv'
  BY <1>1, <1>3, StorageLoop!LoopStep, StorageChecks, StorageListings, OutcomesAssumption
<1>5. database \in StorageLoop!Moments
  BY DEF StorageLoop!Moments
<1>6. StorageLoop!Moments' \subseteq StorageLoop!Moments \cup Storage!Changed(database)
  BY <1>1, StorageLoop!MomentsGrow
<1>7. \A db \in StorageLoop!Moments' : StorageSince(start, db)
  BY <1>2, <1>5, <1>6, StorageDatabases
<1>. QED
  BY <1>4, <1>7 DEF StorageInv

\* What the bloat checks and the last check ask.
LEMMA StorageQueries ==
    ASSUME NEW db
    PROVE  /\ Storage!Queries("table-bloat", db) = IF db.installed THEN <<"measure-tables">> ELSE <<"estimate-tables">>
           /\ Storage!Queries("index-bloat", db) = IF db.installed THEN <<"measure-indexes">> ELSE <<"not-assessed">>
           /\ Storage!Queries("xmin-horizon-risk", db) = <<"transactions", "slots">>
BY Zenon DEF Storage!Queries

\* What each of these queries answers.
LEMMA StorageAnswers ==
    ASSUME NEW slug, NEW db
    PROVE  /\ Storage!Answers(slug, "measure-tables", db) =
                {IF ~db.installed \/ Storage!MeasuringTablesRaises(db) THEN Raised ELSE Storage!TableBloatMeasured(db)}
           /\ Storage!Answers(slug, "estimate-tables", db) = {Storage!TableBloatEstimated(db)}
           /\ Storage!Answers(slug, "measure-indexes", db) =
                {IF ~db.installed \/ Storage!MeasuringIndexesRaises(db) THEN Raised ELSE Storage!IndexBloatMeasured(db)}
           /\ Storage!Answers(slug, "not-assessed", db) = {{<<"not-assessed">>}}
           /\ Storage!Answers(slug, "transactions", db) = {Storage!LongRunningTransactions(db)}
           /\ Storage!Answers(slug, "slots", db) = {IF Storage!SlotsRaise(db) THEN Raised ELSE Storage!StalledSlots(db)}
<1>1. Storage!Answers(slug, "measure-tables", db) =
        {IF ~db.installed \/ Storage!MeasuringTablesRaises(db) THEN Raised ELSE Storage!TableBloatMeasured(db)}
  BY Zenon DEF Storage!Answers
<1>2. Storage!Answers(slug, "estimate-tables", db) = {Storage!TableBloatEstimated(db)}
  BY Zenon DEF Storage!Answers
<1>3. Storage!Answers(slug, "measure-indexes", db) =
        {IF ~db.installed \/ Storage!MeasuringIndexesRaises(db) THEN Raised ELSE Storage!IndexBloatMeasured(db)}
  BY Zenon DEF Storage!Answers
<1>4. Storage!Answers(slug, "not-assessed", db) = {{<<"not-assessed">>}}
  BY Zenon DEF Storage!Answers
<1>5. Storage!Answers(slug, "transactions", db) = {Storage!LongRunningTransactions(db)}
  BY Zenon DEF Storage!Answers
<1>6. Storage!Answers(slug, "slots", db) = {IF Storage!SlotsRaise(db) THEN Raised ELSE Storage!StalledSlots(db)}
  BY Zenon DEF Storage!Answers
<1>. QED
  BY <1>1, <1>2, <1>3, <1>4, <1>5, <1>6

\* What is reported of ratios.
LEMMA StorageBloatOf ==
    ASSUME NEW ratio, NEW method, NEW f
    PROVE  f \in Storage!BloatOf(ratio, method) <=>
              \E t \in DOMAIN ratio : /\ Storage!Reaches(ratio[t][1], ratio[t][2], 1)
                                     /\ f = <<"table", t, Storage!Severity(ratio[t][1], ratio[t][2], method), method>>
BY DEF Storage!BloatOf

\* Each finding about bloat says how it was come by.
LEMMA StorageMethods ==
    ASSUME NEW db
    PROVE  /\ \A f \in Storage!TableBloatMeasured(db) : f # <<"not-assessed">> /\ f[4] = "measured"
           /\ \A f \in Storage!IndexBloatMeasured(db) : f # <<"not-assessed">> /\ f[4] = "measured"
           /\ \A f \in Storage!TableBloatEstimated(db) : f # <<"not-assessed">> /\ f[4] = "estimated"
<1>1. \A a, b, c, d : <<a, b, c, d>> # <<"not-assessed">> /\ <<a, b, c, d>>[4] = d
  OBVIOUS
<1>2. ASSUME NEW ratio, NEW method, NEW f \in Storage!BloatOf(ratio, method) PROVE f # <<"not-assessed">> /\ f[4] = method
  BY <1>1, <1>2 DEF Storage!BloatOf
<1>3. \A f \in Storage!IndexBloatMeasured(db) : f # <<"not-assessed">> /\ f[4] = "measured"
  BY <1>1 DEF Storage!IndexBloatMeasured
<1>. QED
  BY <1>2, <1>3 DEF Storage!TableBloatMeasured, Storage!TableBloatEstimated

\* An estimate, transactions and slots are no exception.
LEMMA StorageRaised ==
    ASSUME NEW start \in StorageStarts, NEW db, StorageSince(start, db), NEW other, StorageSince(start, other)
    PROVE  /\ Storage!TableBloatEstimated(db) # Raised /\ Storage!LongRunningTransactions(db) # Raised
           /\ Storage!StalledSlots(db) # Raised
           /\ Storage!LongRunningTransactions(db) \cup Storage!StalledSlots(other) # Raised
<1>. DEFINE pids == {x.pid : x \in UNION {d.transactions : d \in StorageStarts}}
            names == {s.name : s \in UNION {d.slots : d \in StorageStarts}}
<1>1. Storage!TableBloatEstimated(db) \subseteq {"table"} \X Storage!Tables \X {"medium", "high"} \X {"measured", "estimated"}
  <2>1. ASSUME NEW f \in Storage!TableBloatEstimated(db)
        PROVE  \E t \in Storage!Tables, severity \in {"medium", "high"} : f = <<"table", t, severity, "estimated">>
    BY StorageBloatOf DEF Storage!TableBloatEstimated, Storage!Severity, Storage!Sizeable
  <2>. QED
    BY <2>1
<1>2. Storage!LongRunningTransactions(db) \subseteq {"transaction"} \X pids
  BY DEF Storage!LongRunningTransactions, StorageSince
<1>3. ASSUME NEW d, StorageSince(start, d) PROVE Storage!StalledSlots(d) \subseteq {"slot"} \X names
  BY <1>3 DEF Storage!StalledSlots, StorageSince
<1>4. /\ {"table"} \X Storage!Tables \X {"medium", "high"} \X {"measured", "estimated"} \subseteq Storage!Findings
      /\ {"transaction"} \X pids \subseteq Storage!Findings /\ {"slot"} \X names \subseteq Storage!Findings
  BY DEF Storage!Findings
<1>. HIDE DEF pids, names
<1>5. \A answer : answer \subseteq Storage!Findings => answer # Raised
  BY OutcomesAssumption
<1>. QED
  BY <1>1, <1>2, <1>3, <1>4, <1>5

\* What a bloat check came to: what its query answered.
LEMMA StorageBloat ==
    ASSUME StorageInv, NEW slug \in {"table-bloat", "index-bloat"}, found[slug] # Pending
    PROVE  \E then, now \in StorageLoop!Moments : found[slug] \in Storage!Answers(slug, Storage!Queries(slug, then)[1], now)
<1>1. \A db \in StorageLoop!Moments : DOMAIN Storage!Queries(slug, db) = {1} /\ Len(Storage!Queries(slug, db)) = 1
  BY StorageQueries
<1>. QED
  BY <1>1, StorageLoop!ByOneQuery, StorageChecks DEF StorageInv

\* The tables and indexes said to be measured, estimated or not assessed were so.
LEMMA StorageToldMethods ==
    ASSUME StorageInv, NEW slug \in {"table-bloat", "index-bloat"}, StorageLoop!Told(slug), NEW f \in found[slug]
    PROVE  \E db \in StorageLoop!Moments : db.installed <=> (f # <<"not-assessed">> /\ f[4] = "measured")
<1>1. PICK then, now \in StorageLoop!Moments : found[slug] \in Storage!Answers(slug, Storage!Queries(slug, then)[1], now)
  BY StorageBloat DEF StorageLoop!Told
<1>2. CASE slug = "table-bloat"
  <2>1. CASE then.installed
    <3>1. found[slug] = IF ~now.installed \/ Storage!MeasuringTablesRaises(now) THEN Raised ELSE Storage!TableBloatMeasured(now)
      BY <1>1, <1>2, <2>1, StorageQueries, StorageAnswers
    <3>. QED
      BY <3>1, StorageMethods DEF StorageLoop!Told
  <2>2. CASE ~then.installed
    <3>1. found[slug] = Storage!TableBloatEstimated(now)
      BY <1>1, <1>2, <2>2, StorageQueries, StorageAnswers
    <3>. QED
      BY <2>2, <3>1, StorageMethods
  <2>. QED
    BY <2>1, <2>2
<1>3. CASE slug = "index-bloat"
  <2>1. CASE then.installed
    <3>1. found[slug] = IF ~now.installed \/ Storage!MeasuringIndexesRaises(now) THEN Raised ELSE Storage!IndexBloatMeasured(now)
      BY <1>1, <1>3, <2>1, StorageQueries, StorageAnswers
    <3>. QED
      BY <3>1, StorageMethods DEF StorageLoop!Told
  <2>2. CASE ~then.installed
    <3>1. found[slug] = {<<"not-assessed">>}
      BY <1>1, <1>3, <2>2, StorageQueries, StorageAnswers
    <3>. QED
      BY <2>2, <3>1
  <2>. QED
    BY <2>1, <2>2
<1>. QED
  BY <1>2, <1>3

\* A share of all the bytes bounds that of the rows, when dead rows are no wider than
\* live ones: more than the same share of the live rows is dead.
LEMMA StorageShares ==
    ASSUME NEW dead \in Nat, NEW live \in Nat, NEW deadBytes \in Nat, NEW liveBytes \in Nat, NEW free \in Nat,
           deadBytes * live <= liveBytes * dead, live > 0, NEW fifths \in 1..2,
           Storage!Reaches(deadBytes, Storage!AtLeastOne(liveBytes + deadBytes + free), fifths)
    PROVE  5 * dead > fifths * live
<1>. DEFINE others == 5 - fifths
<1>1. fifths * liveBytes <= others * deadBytes /\ deadBytes > 0
  <2>1. 5 * deadBytes >= fifths * (liveBytes + deadBytes + free) /\ deadBytes > 0
    BY DEF Storage!Reaches, Storage!AtLeastOne
  <2>2. CASE fifths = 1
    BY <2>1, <2>2
  <2>3. CASE fifths = 2
    BY <2>1, <2>3
  <2>. QED
    BY <2>2, <2>3
<1>2. others \in 3..4
  OBVIOUS
<1>. HIDE DEF others
<1>3. \A x, y, z \in Nat : x <= y => x * z <= y * z
  OBVIOUS
<1>4. \A x, y \in Nat, z \in Nat \ {0} : x * z <= y * z => x <= y
  OBVIOUS
<1>5. fifths * liveBytes \in Nat /\ others * deadBytes \in Nat /\ deadBytes * live \in Nat /\ liveBytes * dead \in Nat
  BY <1>2
<1>6. (fifths * liveBytes) * dead <= (others * deadBytes) * dead
  BY <1>1, <1>3, <1>5
<1>7. (deadBytes * live) * fifths <= (liveBytes * dead) * fifths
  BY <1>3, <1>5
<1>8. (fifths * live) * deadBytes <= (others * dead) * deadBytes
  <2>1. (fifths * live) * deadBytes = (deadBytes * live) * fifths
    OBVIOUS
  <2>2. (liveBytes * dead) * fifths = (fifths * liveBytes) * dead
    OBVIOUS
  <2>3. (others * deadBytes) * dead = (others * dead) * deadBytes
    BY <1>2
  <2>. QED
    BY <1>2, <1>6, <1>7, <2>1, <2>2, <2>3
<1>9. fifths * live <= others * dead
  BY <1>1, <1>2, <1>4, <1>8
<1>10. dead > 0
  BY <1>2, <1>9
<1>. QED
  BY <1>2, <1>9, <1>10

\* What a measurement would report an estimate reports, at least as severely, where dead
\* rows are no wider than live ones: the one divides by all the bytes, the other by the
\* live rows.
LEMMA StorageNothingOverlooked ==
    ASSUME NEW db, Storage!IsDatabase(db), NEW t \in Storage!Tables, NEW severity \in {"medium", "high"},
           Storage!Fresh(t, db), Storage!DeadNoWider(t, db), Storage!Bloated(t, severity, db)
    PROVE  \E g \in Storage!TableBloatEstimated(db) : g[2] = t /\ (severity = "high" => g[3] = "high")
<1>. DEFINE dead == db.tables[t].dead
            live == db.tables[t].live
            deadBytes == db.tables[t].deadBytes
            bytes == Storage!AtLeastOne(Storage!TableBytes(t, db))
            measured == [u \in Storage!Sizeable(db) |->
                            <<db.tables[u].deadBytes, Storage!AtLeastOne(Storage!TableBytes(u, db))>>]
            estimated == [u \in Storage!Sizeable(db) |-> <<db.counted[u].dead, Storage!AtLeastOne(db.counted[u].live)>>]
<1>1. /\ dead \in Nat /\ live \in Nat /\ deadBytes \in Nat /\ db.tables[t].liveBytes \in Nat /\ db.tables[t].free \in Nat
      /\ deadBytes * live <= db.tables[t].liveBytes * dead
      /\ bytes = Storage!AtLeastOne(db.tables[t].liveBytes + deadBytes + db.tables[t].free)
  BY DEF Storage!IsDatabase, Storage!DeadNoWider, Storage!TableBytes
<1>2. /\ t \in Storage!Sizeable(db) /\ Storage!Reaches(deadBytes, bytes, 1)
      /\ severity = "high" => Storage!Reaches(deadBytes, bytes, 2)
  <2>1. PICK u \in DOMAIN measured : Storage!Reaches(measured[u][1], measured[u][2], 1)
          /\ u = t /\ (severity = "high" => Storage!Severity(measured[u][1], measured[u][2], "measured") = "high")
    BY StorageBloatOf DEF Storage!Bloated, Storage!TableBloatMeasured
  <2>2. t \in Storage!Sizeable(db)
    BY <2>1
  <2>3. measured[t][1] = deadBytes /\ measured[t][2] = bytes
    BY <2>2
  <2>4. /\ Storage!Reaches(measured[t][1], measured[t][2], 1)
        /\ severity = "high" => Storage!Severity(measured[t][1], measured[t][2], "measured") = "high"
    BY <2>1
  <2>. HIDE DEF measured, bytes, deadBytes
  <2>. QED
    BY <2>2, <2>3, <2>4 DEF Storage!Severity
<1>3. estimated[t] = <<dead, live>> /\ live > 0
  <2>1. db.counted[t].live = live /\ db.counted[t].dead = dead
    BY DEF Storage!Fresh
  <2>2. live >= MinBloatRows /\ MinBloatRows \in Nat \ {0}
    BY <1>2, <2>1, BoundsAssumption DEF Storage!Sizeable
  <2>. QED
    BY <1>1, <1>2, <2>1, <2>2 DEF Storage!AtLeastOne
<1>. HIDE DEF bytes, deadBytes
<1>4. 5 * dead > 1 * live /\ (severity = "high" => 5 * dead > 2 * live)
  <2>1. ASSUME NEW fifths \in 1..2, Storage!Reaches(deadBytes, bytes, fifths) PROVE 5 * dead > fifths * live
    <3>. HIDE DEF dead, live
    <3>1. deadBytes * live <= db.tables[t].liveBytes * dead /\ live > 0
      BY <1>1, <1>3
    <3>2. Storage!Reaches(deadBytes, Storage!AtLeastOne(db.tables[t].liveBytes + deadBytes + db.tables[t].free), fifths)
      BY <1>1, <2>1
    <3>. QED
      BY <1>1, <2>1, <3>1, <3>2, StorageShares
  <2>. QED
    BY <1>2, <2>1
<1>5. Storage!Reaches(dead, live, 1) /\ (severity = "high" => Storage!Severity(dead, live, "estimated") = "high")
  BY <1>1, <1>4 DEF Storage!Reaches, Storage!Severity
<1>6. <<"table", t, Storage!Severity(dead, live, "estimated"), "estimated">> \in Storage!TableBloatEstimated(db)
  <2>1. t \in DOMAIN estimated /\ estimated[t][1] = dead /\ estimated[t][2] = live
    BY <1>2, <1>3
  <2>2. Storage!TableBloatEstimated(db) = Storage!BloatOf(estimated, "estimated")
    BY DEF Storage!TableBloatEstimated
  <2>. HIDE DEF estimated
  <2>. QED
    BY <1>5, <2>1, <2>2, StorageBloatOf
<1>. QED
  BY <1>5, <1>6

\* The checks of bloat agree on whether pgstattuple is there, and say so.
LEMMA StorageMethodsAgree == ASSUME StorageInv PROVE Storage!BloatMethodsAgree
<1>0. PICK start \in StorageStarts : \A db \in StorageLoop!Moments : StorageSince(start, db)
  BY DEF StorageInv
<1>1. ASSUME \A db \in StorageLoop!Moments : ~db.installed, found["table-bloat"] # Pending
      PROVE  \E now \in StorageLoop!Moments : found["table-bloat"] = Storage!TableBloatEstimated(now)
  BY <1>1, StorageBloat, StorageQueries, StorageAnswers
<1>2. ASSUME \A db \in StorageLoop!Moments : ~db.installed, found["index-bloat"] # Pending
      PROVE  found["index-bloat"] = {<<"not-assessed">>} /\ Storage!Told("table-bloat")
  <2>1. found["index-bloat"] = {<<"not-assessed">>}
    <3>1. PICK then, now \in StorageLoop!Moments :
            found["index-bloat"] \in Storage!Answers("index-bloat", Storage!Queries("index-bloat", then)[1], now)
      BY <1>2, StorageBloat
    <3>2. ~then.installed
      BY <1>2
    <3>3. Storage!Queries("index-bloat", then) = <<"not-assessed">>
      BY <3>2, StorageQueries, Zenon
    <3>. QED
      BY <3>1, <3>3, StorageAnswers
  <2>2. 1 \in DOMAIN Storage!Checks /\ 2 \in DOMAIN Storage!Checks
        /\ Storage!Checks[1] = "table-bloat" /\ Storage!Checks[2] = "index-bloat"
    BY DEF Storage!Checks
  <2>3. found["table-bloat"] # Pending
    BY <1>2, <2>2, StorageLoop!InOrder, StorageChecks DEF StorageInv, StorageLoop!Explained
  <2>4. found["table-bloat"] # Raised
    BY <1>0, <1>1, <1>2, <2>3, StorageRaised
  <2>. QED
    BY <2>1, <2>3, <2>4 DEF Storage!Told
<1>3. ASSUME NEW slug \in {"table-bloat", "index-bloat"}, Storage!Told(slug), NEW f \in found[slug]
      PROVE  \E db \in StorageLoop!Moments : db.installed <=> (f # <<"not-assessed">> /\ f[4] = "measured")
  BY <1>3, StorageToldMethods, StorageIsALoop
<1>4. ASSUME Storage!Told("table-bloat"), \A db \in StorageLoop!Moments : ~db.installed,
             NEW t \in Storage!Tables, NEW severity \in {"medium", "high"},
             \A db \in StorageLoop!Moments :
                Storage!Fresh(t, db) /\ Storage!DeadNoWider(t, db) /\ Storage!Bloated(t, severity, db)
      PROVE  \E g \in found["table-bloat"] : g[2] = t /\ (severity = "high" => g[3] = "high")
  <2>1. PICK now \in StorageLoop!Moments : found["table-bloat"] = Storage!TableBloatEstimated(now)
    BY <1>1, <1>4 DEF Storage!Told
  <2>. QED
    BY <1>0, <1>4, <2>1, StorageNothingOverlooked DEF StorageSince
<1>. QED
  BY <1>2, <1>3, <1>4, StorageIsALoop DEF Storage!BloatMethodsAgree

\* Transactions and slots are told as they are, and only a standby's slots cannot be read.
LEMMA StorageHorizon == ASSUME StorageInv PROVE Storage!XminFindingsAreTrue
<1>. DEFINE slug == "xmin-horizon-risk"
<1>0. PICK start \in StorageStarts : \A db \in StorageLoop!Moments : StorageSince(start, db)
  BY DEF StorageInv
<1>1. slug \in StorageLoop!Slugs /\ database \in StorageLoop!Moments
  BY StorageChecks DEF StorageLoop!Moments
<1>2. \A db : /\ Len(Storage!Queries(slug, db)) = 2 /\ DOMAIN Storage!Queries(slug, db) = {1, 2}
              /\ Storage!Queries(slug, db)[1] = "transactions" /\ Storage!Queries(slug, db)[2] = "slots"
  BY StorageQueries
<1>3. ASSUME StorageLoop!Complete(slug)
      PROVE  \E m, n \in StorageLoop!Moments : found[slug] = Storage!LongRunningTransactions(m) \cup Storage!StalledSlots(n)
  <2>1. PICK m, n \in StorageLoop!Moments :
          \E a \in Storage!Answers(slug, "transactions", m), b \in Storage!Answers(slug, "slots", n) :
             b # Raised /\ found[slug] = a \cup b
    BY <1>2, <1>3, StorageLoop!ByTwoQueries
  <2>2. PICK a \in Storage!Answers(slug, "transactions", m), b \in Storage!Answers(slug, "slots", n) :
          b # Raised /\ found[slug] = a \cup b
    BY <2>1
  <2>3. a = Storage!LongRunningTransactions(m)
    BY <2>2, StorageAnswers
  <2>4. b = Storage!StalledSlots(n)
    BY <2>2, StorageAnswers
  <2>. QED
    BY <2>2, <2>3, <2>4
<1>4. ASSUME Storage!Told(slug)
      PROVE  /\ \A x \in UNION {db.transactions : db \in StorageLoop!Moments} :
                   /\ <<"transaction", x.pid>> \in found[slug] =>
                         \E db \in StorageLoop!Moments : x \in db.transactions /\ x.ago + db.clock > LongTransaction
                   /\ x.ago > LongTransaction /\ (\A db \in StorageLoop!Moments : db.monitor /\ x \in db.transactions) =>
                         <<"transaction", x.pid>> \in found[slug]
             /\ \A s \in database.slots : s.restart /\ ~s.active => <<"slot", s.name>> \in found[slug]
  <2>1. StorageLoop!Complete(slug)
    BY <1>1, <1>4, StorageIsALoop, StorageLoop!EndedIsExplained, StorageChecks
       DEF StorageInv, StorageLoop!Told, StorageLoop!Explained
  <2>2. PICK m, n \in StorageLoop!Moments : found[slug] = Storage!LongRunningTransactions(m) \cup Storage!StalledSlots(n)
    BY <1>3, <2>1
  <2>3. ASSUME NEW db \in StorageLoop!Moments, NEW x \in db.transactions, <<"transaction", x.pid>> \in found[slug]
        PROVE  x \in m.transactions /\ x.ago + m.clock > LongTransaction
    <3>1. <<"transaction", x.pid>> \in Storage!LongRunningTransactions(m)
      BY <2>2, <2>3 DEF Storage!StalledSlots
    <3>2. PICK y \in m.transactions : y.pid = x.pid /\ y.ago > LongTransaction
      BY <3>1 DEF Storage!LongRunningTransactions
    <3>3. x \in start.transactions /\ y \in start.transactions /\ Storage!IsDatabase(start) /\ Storage!IsDatabase(m)
      BY <1>0, <3>2 DEF StorageSince
    <3>4. x = y /\ x.ago \in Int /\ m.clock \in Nat /\ LongTransaction \in Nat
      BY <3>2, <3>3, BoundsAssumption DEF Storage!IsDatabase
    <3>. QED
      BY <3>2, <3>4
  <2>4. ASSUME NEW x, x.ago > LongTransaction, m.monitor, x \in m.transactions PROVE <<"transaction", x.pid>> \in found[slug]
    BY <2>2, <2>4 DEF Storage!LongRunningTransactions
  <2>5. ASSUME NEW s \in database.slots, s.restart, ~s.active PROVE <<"slot", s.name>> \in found[slug]
    <3>1. s \in n.slots
      BY <1>0, <1>1 DEF StorageSince
    <3>. QED
      BY <2>2, <2>5, <3>1 DEF Storage!StalledSlots
  <2>. QED
    BY <2>3, <2>4, <2>5
<1>5. ASSUME found[slug] = Raised PROVE database.standby /\ database.slots # {}
  <2>1. StorageLoop!Explained(slug)
    BY <1>1, <1>5, StorageLoop!EndedIsExplained, StorageChecks, OutcomesAssumption DEF StorageInv
  <2>2. ~StorageLoop!Complete(slug)
    BY <1>0, <1>3, <1>5, StorageRaised
  <2>3. PICK now \in StorageLoop!Moments : Raised \in Storage!Answers(slug, "transactions", now) \cup Storage!Answers(slug, "slots", now)
    BY <1>2, <2>1, <2>2 DEF StorageLoop!Explained, StorageLoop!MayRaise
  <2>4. StorageSince(start, now)
    BY <1>0
  <2>5. Raised \notin Storage!Answers(slug, "transactions", now)
    BY <2>4, StorageAnswers, StorageRaised
  <2>6. Storage!SlotsRaise(now)
    BY <2>3, <2>4, <2>5, StorageAnswers, StorageRaised
  <2>. QED
    BY <1>0, <1>1, <2>6 DEF Storage!SlotsRaise, StorageSince
<1>. QED
  BY <1>4, <1>5, StorageIsALoop DEF Storage!XminFindingsAreTrue

-----------------------------------------------------------------------------
(* Full-Text Search.                                                       *)

SearchLoop == INSTANCE CategoryChecksProofs WITH
    Checks <- Search!Checks, Applicable <- Search!Applicable, Queries <- Search!Queries, Answers <- Search!Answers,
    Starts <- SearchStarts, Changed <- Search!Changed

SearchInv == SearchLoop!LoopInv /\ \A db \in SearchLoop!Moments : Search!IsDatabase(db)

\* The category's steps and words are those of the loop.
LEMMA SearchIsALoop ==
    /\ Search!Next => SearchLoop!Next
    /\ Search!Moments = SearchLoop!Moments
    /\ \A slug : Search!Told(slug) <=> SearchLoop!Told(slug)
<1>1. Search!Next => SearchLoop!Next
  BY DEF Search!Next, SearchLoop!Next, Search!AskApplicability, SearchLoop!AskApplicability,
     Search!BeginCheck, SearchLoop!BeginCheck, Search!RunQuery, SearchLoop!RunQuery, Search!ReturnFindings,
     SearchLoop!ReturnFindings, Search!Change, SearchLoop!Change, Search!EndCheck, SearchLoop!EndCheck,
     Search!Over, SearchLoop!Over, Search!vars, SearchLoop!vars, Search!Running, SearchLoop!Running,
     Search!Current, SearchLoop!Current
<1>. QED
  BY <1>1 DEF Search!Moments, SearchLoop!Moments, Search!Told, SearchLoop!Told

\* Its checks are listed once each.
LEMMA SearchChecks ==
    /\ SearchLoop!Distinct
    /\ SearchLoop!Slugs = {"missing-fulltext-index", "tsvector-sync-mechanism", "combined-structured-and-freetext-queries",
      "relevance-ranking", "safe-tsquery-parsing"}
<1>1. Search!Checks \in Seq({"missing-fulltext-index", "tsvector-sync-mechanism", "combined-structured-and-freetext-queries",
      "relevance-ranking", "safe-tsquery-parsing"})
  BY DEF Search!Checks
<1>2. \A i, j \in DOMAIN Search!Checks : Search!Checks[i] = Search!Checks[j] => i = j
  BY DEF Search!Checks
<1>3. DOMAIN Search!Checks = {1, 2, 3, 4, 5}
  BY DEF Search!Checks
<1>4. SearchLoop!Slugs = {Search!Checks[i] : i \in DOMAIN Search!Checks}
  BY DEF SearchLoop!Slugs, SearchLoop!Range
<1>5. SearchLoop!Slugs = {"missing-fulltext-index", "tsvector-sync-mechanism", "combined-structured-and-freetext-queries",
      "relevance-ranking", "safe-tsquery-parsing"}
  BY <1>3, <1>4 DEF Search!Checks
<1>. QED
  BY <1>1, <1>2, <1>5 DEF SearchLoop!Distinct

\* A check's queries are a sequence.
LEMMA SearchListings == ASSUME \A db \in SearchLoop!Moments : Search!IsDatabase(db) PROVE SearchLoop!Listings
<1>1. \A q : <<q>> \in Seq({q})
  OBVIOUS
<1>. QED
  BY <1>1 DEF SearchLoop!Listings, Search!Queries

\* The client's changes make a database of a database.
LEMMA SearchDatabases == ASSUME NEW db, Search!IsDatabase(db), NEW later \in Search!Changed(db) PROVE Search!IsDatabase(later)
BY DEF Search!IsDatabase, Search!Changed

\* The category's part of the invariant holds at first, and is kept.
LEMMA SearchInit == ASSUME Search!Init PROVE SearchInv
<1>2. SearchLoop!Init
  BY DEF Search!Init, SearchLoop!Init, Search!Slugs, SearchLoop!Slugs, Search!Range, SearchLoop!Range
<1>. QED
  BY <1>2, SearchChecks, SearchLoop!LoopInit, StartsAssumption DEF SearchInv, SearchLoop!Init, SearchLoop!Moments

\* The loop's lemma, the listings and the databases give the step.
LEMMA SearchStep == ASSUME SearchInv, [Search!Next]_<<machine, found, changes>> PROVE SearchInv'
<1>1. [SearchLoop!Next]_(SearchLoop!vars)
  BY SearchIsALoop DEF machine, SearchLoop!vars
<1>2. SearchLoop!LoopInv /\ \A db \in SearchLoop!Moments : Search!IsDatabase(db)
  BY <1>1 DEF SearchInv
<1>3. SearchLoop!LoopInv'
  BY <1>1, <1>2, SearchLoop!LoopStep, SearchChecks, SearchListings, OutcomesAssumption
<1>4. database \in SearchLoop!Moments
  BY DEF SearchLoop!Moments
<1>5. SearchLoop!Moments' \subseteq SearchLoop!Moments \cup Search!Changed(database)
  BY <1>1, SearchLoop!MomentsGrow
<1>. QED
  BY <1>2, <1>3, <1>4, <1>5, SearchDatabases DEF SearchInv

\* The audit's own statements have no word of the search in them but the client's.
LEMMA SearchOwn ==
    ASSUME NEW s \in DOMAIN Search!OwnWords, NEW word \in Search!OwnWords[s],
           word \notin {"WHERE", "pg_stat_statements", "JOIN", "information_schema"}
    PROVE  Search!OfClientsName(s, word)
<1>1. Search!OwnWords[s] = Search!Normalized(IF s \in Search!OfFixedText THEN Search!Fixed(s) ELSE Search!Sampling(s))
  BY DEF Search!OwnWords
<1>2. CASE s \in Search!OfFixedText
  <2>1. Search!Fixed(s).kept \subseteq {"WHERE", "pg_stat_statements", "JOIN", "information_schema"}
    <3>1. CASE s \in DOMAIN Search!OwnOfQueryPatterns
      <4>1. s \in {"probe", "lookups", "offsets"}
        BY <3>1 DEF Search!OwnOfQueryPatterns
      <4>2. s \notin DOMAIN Search!OwnOfSearch /\ s \notin DOMAIN Search!OwnOfScale
        BY <4>1 DEF Search!OwnOfSearch, Search!OwnOfScale
      <4>3. Search!Fixed(s) = Search!OwnOfQueryPatterns[s]
        BY <3>1, <4>2, Zenon DEF Search!Fixed
      <4>. QED
        BY <4>1, <4>3 DEF Search!OwnOfQueryPatterns, Search!Text
    <3>2. CASE s \in DOMAIN Search!OwnOfSearch
      <4>1. s \in {"combination", "ranking", "parsing"}
        BY <3>2 DEF Search!OwnOfSearch
      <4>2. s \notin DOMAIN Search!OwnOfQueryPatterns /\ s \notin DOMAIN Search!OwnOfScale
        BY <4>1 DEF Search!OwnOfQueryPatterns, Search!OwnOfScale
      <4>3. Search!Fixed(s) = Search!OwnOfSearch[s]
        BY <3>2, <4>2, Zenon DEF Search!Fixed
      <4>. QED
        BY <4>1, <4>3 DEF Search!OwnOfSearch, Search!Text
    <3>3. CASE s \in DOMAIN Search!OwnOfScale
      <4>1. s \in {"slow", "sizes", "tenants"}
        BY <3>3 DEF Search!OwnOfScale
      <4>2. s \notin DOMAIN Search!OwnOfQueryPatterns /\ s \notin DOMAIN Search!OwnOfSearch
        BY <4>1 DEF Search!OwnOfQueryPatterns, Search!OwnOfSearch
      <4>3. Search!Fixed(s) = Search!OwnOfScale[s]
        BY <3>3, <4>2, Zenon DEF Search!Fixed
      <4>. QED
        BY <4>1, <4>3 DEF Search!OwnOfScale, Search!Text
    <3>. QED
      BY <1>2, <3>1, <3>2, <3>3 DEF Search!OfFixedText
  <2>. QED
    BY <1>1, <1>2, <2>1 DEF Search!Normalized
<1>3. CASE s \notin Search!OfFixedText
  <2>1. s \in DOMAIN SamplingDef
    BY <1>3 DEF Search!OwnWords
  <2>2. Search!OwnWords[s] \subseteq {"WHERE", "JOIN"} \cup SamplingDef[s].names
    BY <1>1, <1>3 DEF Search!Normalized, Search!Sampling, Search!Text
  <2>. QED
    BY <2>1, <2>2 DEF Search!OfClientsName
<1>. QED
  BY <1>2, <1>3

\* What a statement check finds where it can read the view.
OfSearch(slug, db) ==
    IF slug = "combined-structured-and-freetext-queries" THEN Search!Combined(db)
    ELSE IF slug = "relevance-ranking" THEN Search!Ranked(db) ELSE Search!RawUsage(db)

\* Where the view can be read, a statement check is answered what it finds.
LEMMA SearchReads ==
    ASSUME NEW slug, NEW db, NEW query \in Search!OfStatements, ~Search!ViewRaises(db)
    PROVE  Search!Answers(slug, query, db) = {OfSearch(query, db)}
<1>0. query \notin {"not-assessed", "missing-fulltext-index", "tsvector-sync-mechanism"}
  BY DEF Search!OfStatements
<1>1. CASE query = "combined-structured-and-freetext-queries"
  <2>1. Search!Answers(slug, query, db) = {Search!Combined(db)}
    BY <1>0, <1>1, Zenon DEF Search!Answers
  <2>. QED
    BY <1>1, <2>1 DEF OfSearch
<1>2. CASE query = "relevance-ranking"
  <2>1. Search!Answers(slug, query, db) = {Search!Ranked(db)}
    BY <1>0, <1>2, Zenon DEF Search!Answers
  <2>. QED
    BY <1>2, <2>1 DEF OfSearch
<1>3. CASE query = "safe-tsquery-parsing"
  <2>1. Search!Answers(slug, query, db) = {Search!RawUsage(db)}
    BY <1>0, <1>3, Zenon DEF Search!Answers
  <2>. QED
    BY <1>3, <2>1 DEF OfSearch
<1>. QED
  BY <1>1, <1>2, <1>3 DEF Search!OfStatements

\* What each query answers, and that it is findings.
LEMMA SearchAnswers ==
    ASSUME NEW slug, NEW db
    PROVE  /\ Search!Answers(slug, "not-assessed", db) = {{<<"not-assessed">>}}
           /\ Search!Answers(slug, "missing-fulltext-index", db) = {Search!WithoutFulltextIndex(db)}
           /\ \A query \in Search!OfStatements :
                 /\ Search!ViewRaises(db) => Search!Answers(slug, query, db) = {Raised}
                 /\ ~Search!ViewRaises(db) => Search!Answers(slug, query, db) = {OfSearch(query, db)}
<1>1. /\ Search!Answers(slug, "not-assessed", db) = {{<<"not-assessed">>}}
      /\ Search!Answers(slug, "missing-fulltext-index", db) = {Search!WithoutFulltextIndex(db)}
  <2>1. {"not-assessed", "missing-fulltext-index"} \cap Search!OfStatements = {}
    BY DEF Search!OfStatements
  <2>2. Search!Answers(slug, "not-assessed", db) = {{<<"not-assessed">>}}
    BY <2>1, Zenon DEF Search!Answers
  <2>3. Search!Answers(slug, "missing-fulltext-index", db) = {Search!WithoutFulltextIndex(db)}
    BY <2>1, Zenon DEF Search!Answers
  <2>. QED
    BY <2>2, <2>3
<1>2. ASSUME NEW query \in Search!OfStatements PROVE query \notin {"not-assessed", "missing-fulltext-index", "tsvector-sync-mechanism"}
  BY DEF Search!OfStatements
<1>3. ASSUME NEW query \in Search!OfStatements, Search!ViewRaises(db) PROVE Search!Answers(slug, query, db) = {Raised}
  BY <1>2, <1>3, Zenon DEF Search!Answers
<1>4. ASSUME NEW query \in Search!OfStatements, ~Search!ViewRaises(db)
      PROVE  Search!Answers(slug, query, db) = {OfSearch(query, db)}
  BY <1>4, SearchReads
<1>. QED
  BY <1>1, <1>3, <1>4

\* Findings of this category are neither an exception nor the note of a missing extension.
LEMMA SearchRaised ==
    ASSUME NEW db, Search!IsDatabase(db)
    PROVE  \A answer \in {Search!Combined(db), Search!Ranked(db), Search!RawUsage(db)} :
              answer # Raised /\ answer # {<<"not-assessed">>}
<1>1. \A words, others : Search!Containing(words, others, db) \in SUBSET Search!AllStatements
  BY DEF Search!Containing, Search!IsDatabase, Search!Recorded
<1>2. \A answer \in {Search!Combined(db), Search!Ranked(db), Search!RawUsage(db)} :
        \A f \in answer : f \in {"separate", "unranked", "raw"} \X SUBSET Search!AllStatements
  BY <1>1 DEF Search!Combined, Search!Ranked, Search!RawUsage, Search!NeverAlso, Search!FreeText
<1>3. <<"not-assessed">> \notin {"separate", "unranked", "raw"} \X SUBSET Search!AllStatements
  OBVIOUS
<1>. QED
  BY <1>2, <1>3, OutcomesAssumption DEF Search!Findings

\* Each check of this category makes one query.
LEMMA SearchOutcome ==
    ASSUME SearchInv, NEW slug \in SearchLoop!Slugs, found[slug] # Pending
    PROVE  \E then, now \in SearchLoop!Moments :
              \/ slug \notin Search!OfStatements /\ found[slug] \in Search!Answers(slug, slug, now)
              \/ /\ slug \in Search!OfStatements /\ ~then.extension
                 /\ found[slug] = {<<"not-assessed">>} /\ found[slug] # Raised
              \/ /\ slug \in Search!OfStatements /\ then.extension /\ Search!ViewRaises(now)
                 /\ found[slug] = Raised /\ found[slug] # {<<"not-assessed">>}
              \/ /\ slug \in Search!OfStatements /\ then.extension /\ ~Search!ViewRaises(now)
                 /\ found[slug] = OfSearch(slug, now)
                 /\ found[slug] # Raised /\ found[slug] # {<<"not-assessed">>}
<1>1. \A db \in SearchLoop!Moments : DOMAIN Search!Queries(slug, db) = {1} /\ Len(Search!Queries(slug, db)) = 1
  BY DEF Search!Queries
<1>2. PICK then, now \in SearchLoop!Moments : found[slug] \in Search!Answers(slug, Search!Queries(slug, then)[1], now)
  BY <1>1, SearchLoop!ByOneQuery, SearchChecks DEF SearchInv
<1>3. Raised # {<<"not-assessed">>}
  BY OutcomesAssumption DEF Search!Findings
<1>4. CASE slug \notin Search!OfStatements
  BY <1>2, <1>4 DEF Search!Queries
<1>5. CASE slug \in Search!OfStatements /\ ~then.extension
  <2>1. Search!Queries(slug, then)[1] = "not-assessed"
    BY <1>5 DEF Search!Queries, Search!IsAvailable
  <2>2. found[slug] \in {{<<"not-assessed">>}}
    BY <1>2, <2>1, SearchAnswers
  <2>. QED
    BY <1>3, <1>5, <2>2
<1>6. CASE slug \in Search!OfStatements /\ then.extension
  <2>1. Search!Queries(slug, then)[1] = slug
    BY <1>6 DEF Search!Queries, Search!IsAvailable
  <2>2. CASE Search!ViewRaises(now)
    <3>1. Search!Answers(slug, slug, now) = {Raised}
      BY <1>6, <2>2, SearchAnswers
    <3>2. found[slug] \in Search!Answers(slug, slug, now)
      BY <1>2, <2>1
    <3>3. found[slug] = Raised
      BY <3>1, <3>2
    <3>. QED
      BY <1>3, <1>6, <2>2, <3>3
  <2>3. CASE ~Search!ViewRaises(now)
    <3>1. Search!Answers(slug, slug, now) = {OfSearch(slug, now)}
      BY <1>6, <2>3, SearchReads
    <3>2. found[slug] = OfSearch(slug, now)
      BY <1>2, <2>1, <3>1
    <3>3. OfSearch(slug, now) \in {Search!Combined(now), Search!Ranked(now), Search!RawUsage(now)}
      BY DEF OfSearch
    <3>. QED
      BY <1>6, <2>3, <3>2, <3>3, SearchRaised DEF SearchInv
  <2>. QED
    BY <2>2, <2>3
<1>. QED
  BY <1>4, <1>5, <1>6

\* An application's statement that could be read all along is one of those a check
\* looks at, if it is what the check is about.
LEMMA SearchReadable ==
    ASSUME NEW now \in SearchLoop!Moments, NEW s \in Search!Readable(SearchLoop!Moments), NEW slug,
           Search!Performs(slug, StatementDef[s].words)
    PROVE  /\ slug # "safe-tsquery-parsing" => s \in Search!FreeText(now)
           /\ slug = "safe-tsquery-parsing" =>
                 s \in Search!Containing({"to_tsquery("}, {"websearch_to_tsquery(", "plainto_tsquery("}, now)
<1>1. s \in Search!Recorded(now) /\ Search!Words(s, now) = StatementDef[s].words
  BY DEF Search!Readable, Search!Words
<1>. QED
  BY <1>1 DEF Search!FreeText, Search!Containing, Search!Performs, Search!LookedFor

\* What a statement check tells of is what it looks at, and all of it.
LEMMA SearchOfWhat ==
    ASSUME NEW slug \in Search!OfStatements, NEW now, NEW f \in OfSearch(slug, now)
    PROVE  /\ slug # "safe-tsquery-parsing" => f[2] = Search!FreeText(now)
           /\ slug = "safe-tsquery-parsing" =>
                 f[2] = Search!Containing({"to_tsquery("}, {"websearch_to_tsquery(", "plainto_tsquery("}, now)
           /\ f[2] # {}
<1>1. CASE slug = "combined-structured-and-freetext-queries"
  BY <1>1 DEF OfSearch, Search!Combined, Search!NeverAlso
<1>2. CASE slug = "relevance-ranking"
  BY <1>2 DEF OfSearch, Search!Ranked, Search!NeverAlso
<1>3. CASE slug = "safe-tsquery-parsing"
  BY <1>3 DEF OfSearch, Search!RawUsage
<1>. QED
  BY <1>1, <1>2, <1>3 DEF Search!OfStatements

\* What is reported was so, and the application's statements are.
LEMMA SearchFindings == ASSUME SearchInv PROVE Search!SearchFindingsAreTrue
<1>1. ASSUME Search!Told("missing-fulltext-index"), NEW f \in found["missing-fulltext-index"]
      PROVE  \E db \in Search!Moments : \A i \in db.indexes :
                IndexTexts[i].table = VectorDef[f[2]].table => f[2] \notin IndexTexts[i].columns
  <2>1. PICK now \in SearchLoop!Moments :
          found["missing-fulltext-index"] \in Search!Answers("missing-fulltext-index", "missing-fulltext-index", now)
    BY <1>1, SearchOutcome, SearchChecks DEF Search!Told, Search!OfStatements
  <2>2. found["missing-fulltext-index"] = Search!WithoutFulltextIndex(now)
    BY <2>1, SearchAnswers
  <2>3. now.indexes \subseteq DOMAIN IndexTexts
    BY <2>1 DEF SearchInv, Search!IsDatabase
  <2>4. \A i \in now.indexes : IndexTexts[i].table = VectorDef[f[2]].table => f[2] \notin IndexTexts[i].mentions
    BY <1>1, <2>2 DEF Search!WithoutFulltextIndex
  <2>. QED
    BY <2>1, <2>3, <2>4, SearchIsALoop, TextsAssumption DEF Search!TextsNameColumns
<1>2. ASSUME NEW slug \in Search!OfStatements, Search!Told(slug), found[slug] # {<<"not-assessed">>}
      PROVE  \E now \in SearchLoop!Moments : found[slug] = OfSearch(slug, now)
  <2>1. slug \in SearchLoop!Slugs /\ found[slug] \notin {Pending, Raised}
    BY <1>2, SearchChecks DEF Search!Told, Search!OfStatements
  <2>. QED
    BY <1>2, <2>1, SearchOutcome
<1>3. ASSUME NEW slug \in Search!OfStatements, Search!Told(slug), NEW f \in found[slug] \ {<<"not-assessed">>}
      PROVE  /\ f[2] # {}
             /\ \A s \in f[2] : Search!ByAudit(s) => Search!OfClientsName(s, Search!LookedFor(slug))
             /\ \A s \in Search!Readable(SearchLoop!Moments) : Search!Performs(slug, StatementDef[s].words) => s \in f[2]
  <2>1. PICK now \in SearchLoop!Moments : found[slug] = OfSearch(slug, now)
    BY <1>2, <1>3
  <2>2. /\ slug # "safe-tsquery-parsing" => f[2] = Search!FreeText(now)
        /\ slug = "safe-tsquery-parsing" =>
              f[2] = Search!Containing({"to_tsquery("}, {"websearch_to_tsquery(", "plainto_tsquery("}, now)
        /\ f[2] # {}
    BY <1>3, <2>1, SearchOfWhat
  <2>3. ASSUME NEW s \in f[2], Search!ByAudit(s) PROVE Search!OfClientsName(s, Search!LookedFor(slug))
    <3>1. Search!LookedFor(slug) \in Search!Words(s, now)
      <4>1. ASSUME NEW word, NEW others, s \in Search!Containing({word}, others, now) PROVE word \in Search!Words(s, now)
        BY <4>1 DEF Search!Containing
      <4>. QED
        BY <2>2, <2>3, <4>1 DEF Search!FreeText, Search!LookedFor
    <3>2. s \in DOMAIN Search!OwnWords /\ Search!LookedFor(slug) \in Search!OwnWords[s]
      BY <2>3, <3>1 DEF Search!Words, Search!ByAudit
    <3>3. Search!LookedFor(slug) \notin {"WHERE", "pg_stat_statements", "JOIN", "information_schema"}
      BY DEF Search!LookedFor
    <3>. QED
      BY <3>2, <3>3, SearchOwn
  <2>. QED
    BY <2>1, <2>2, <2>3, SearchReadable
<1>4. ASSUME Search!Told("safe-tsquery-parsing"), found["safe-tsquery-parsing"] = {},
             NEW s \in Search!Readable(SearchLoop!Moments)
      PROVE  ~Search!Performs("safe-tsquery-parsing", StatementDef[s].words)
  <2>1. "safe-tsquery-parsing" \in Search!OfStatements
    BY DEF Search!OfStatements
  <2>2. PICK now \in SearchLoop!Moments : found["safe-tsquery-parsing"] = Search!RawUsage(now)
    BY <1>2, <1>4, <2>1 DEF OfSearch
  <2>3. Search!Containing({"to_tsquery("}, {"websearch_to_tsquery(", "plainto_tsquery("}, now) = {}
    BY <1>4, <2>2 DEF Search!RawUsage
  <2>. QED
    BY <2>2, <2>3, SearchReadable
<1>. QED
  BY <1>1, <1>3, <1>4, SearchIsALoop DEF Search!SearchFindingsAreTrue

\* Each of the three checks says of the extension what it met.
LEMMA SearchProbes == ASSUME SearchInv PROVE Search!SearchProbesAgree
<1>. SUFFICES ASSUME NEW slug \in Search!OfStatements, found[slug] # Pending
              PROVE  Search!ProbedHonestly(found[slug], Raised, SearchLoop!Moments)
  BY SearchIsALoop DEF Search!SearchProbesAgree
<1>1. slug \in SearchLoop!Slugs
  BY SearchChecks DEF Search!OfStatements
<1>. QED
  BY <1>1, SearchOutcome DEF Search!ViewRaises, Search!ProbedHonestly

-----------------------------------------------------------------------------
(* Query Patterns and Monitoring.                                          *)

ActivityLoop == INSTANCE CategoryChecksProofs WITH
    Checks <- Activity!Checks, Applicable <- Activity!Applicable, Queries <- Activity!Queries, Answers <- Activity!Answers,
    Starts <- ActivityStarts, Changed <- Activity!Changed

\* Sessions of the others only end while the category runs.
ActivitySince(start, db) ==
    Activity!IsDatabase(start) /\ Activity!IsDatabase(db) /\ db.sessions \subseteq start.sessions

ActivityInv == ActivityLoop!LoopInv /\ \E start \in ActivityStarts : \A db \in ActivityLoop!Moments : ActivitySince(start, db)

\* The category's steps and words are those of the loop.
LEMMA ActivityIsALoop ==
    /\ Activity!Next => ActivityLoop!Next
    /\ Activity!Moments = ActivityLoop!Moments
    /\ \A slug : Activity!Told(slug) <=> ActivityLoop!Told(slug)
<1>1. Activity!Next => ActivityLoop!Next
  BY DEF Activity!Next, ActivityLoop!Next, Activity!AskApplicability, ActivityLoop!AskApplicability,
     Activity!BeginCheck, ActivityLoop!BeginCheck, Activity!RunQuery, ActivityLoop!RunQuery,
     Activity!ReturnFindings, ActivityLoop!ReturnFindings, Activity!Change, ActivityLoop!Change,
     Activity!EndCheck, ActivityLoop!EndCheck, Activity!Over, ActivityLoop!Over, Activity!vars,
     ActivityLoop!vars, Activity!Running, ActivityLoop!Running, Activity!Current, ActivityLoop!Current
<1>. QED
  BY <1>1 DEF Activity!Moments, ActivityLoop!Moments, Activity!Told, ActivityLoop!Told

\* Its checks are listed once each.
LEMMA ActivityChecks ==
    /\ ActivityLoop!Distinct
    /\ ActivityLoop!Slugs = {"n-plus-one-candidates", "offset-pagination", "idle-in-transaction-sessions",
      "slow-query-monitoring", "pg-stat-statements-installed", "connection-saturation",
      "bloated-tables-without-recent-vacuum"}
<1>1. Activity!Checks \in Seq({"n-plus-one-candidates", "offset-pagination", "idle-in-transaction-sessions",
      "slow-query-monitoring", "pg-stat-statements-installed", "connection-saturation",
      "bloated-tables-without-recent-vacuum"})
  BY DEF Activity!Checks
<1>2. \A i, j \in DOMAIN Activity!Checks : Activity!Checks[i] = Activity!Checks[j] => i = j
  BY DEF Activity!Checks
<1>3. DOMAIN Activity!Checks = {1, 2, 3, 4, 5, 6, 7}
  BY DEF Activity!Checks
<1>4. ActivityLoop!Slugs = {Activity!Checks[i] : i \in DOMAIN Activity!Checks}
  BY DEF ActivityLoop!Slugs, ActivityLoop!Range
<1>5. ActivityLoop!Slugs = {"n-plus-one-candidates", "offset-pagination", "idle-in-transaction-sessions",
      "slow-query-monitoring", "pg-stat-statements-installed", "connection-saturation",
      "bloated-tables-without-recent-vacuum"}
  BY <1>3, <1>4 DEF Activity!Checks
<1>. QED
  BY <1>1, <1>2, <1>5 DEF ActivityLoop!Distinct

\* A check's queries are a sequence.
LEMMA ActivityListings == ASSUME \A db \in ActivityLoop!Moments : Activity!IsDatabase(db) PROVE ActivityLoop!Listings
<1>1. \A q, r : <<q>> \in Seq({q}) /\ <<q, r>> \in Seq({q, r})
  OBVIOUS
<1>2. ASSUME NEW slug, NEW db PROVE \E Q : Activity!Queries(slug, db) \in Seq(Q)
  <2>1. Activity!Queries(slug, db) \in {<<slug>>, <<"not-assessed">>, <<"saturation", "long-running">>}
    BY DEF Activity!Queries
  <2>2. <<slug>> \in Seq({slug}) /\ <<"not-assessed">> \in Seq({"not-assessed"})
        /\ <<"saturation", "long-running">> \in Seq({"saturation", "long-running"})
    BY <1>1
  <2>. QED
    BY <2>1, <2>2
<1>. QED
  BY <1>2 DEF ActivityLoop!Listings

\* The client's changes make a database of a database, and keep what does not change.
LEMMA ActivityDatabases ==
    ASSUME NEW start, NEW db, ActivitySince(start, db), NEW later \in Activity!Changed(db) PROVE ActivitySince(start, later)
<1>1. \A S : Activity!IsFiniteSet(S) <=> IsFiniteSet(S)
  BY DEF Activity!IsFiniteSet, IsFiniteSet
<1>2. \A x : IsFiniteSet(db.sessions \ {x})
  BY <1>1, FS_Difference DEF ActivitySince, Activity!IsDatabase
<1>3. CASE later = [db EXCEPT !.extension = ~@]
  BY <1>3 DEF ActivitySince, Activity!IsDatabase
<1>4. CASE later = [db EXCEPT !.statements = <<>>]
  BY <1>4 DEF ActivitySince, Activity!IsDatabase
<1>5. CASE later = [db EXCEPT !.clock = @ + LongQuery]
  BY <1>5, BoundsAssumption DEF ActivitySince, Activity!IsDatabase
<1>6. ASSUME NEW s \in db.sessions, later = [db EXCEPT !.sessions = @ \ {s}] PROVE ActivitySince(start, later)
  BY <1>1, <1>2, <1>6 DEF ActivitySince, Activity!IsDatabase
<1>. QED
  BY <1>3, <1>4, <1>5, <1>6 DEF Activity!Changed

\* The category's part of the invariant holds at first, and is kept.
LEMMA ActivityInit == ASSUME Activity!Init PROVE ActivityInv
<1>2. ActivityLoop!Init
  BY DEF Activity!Init, ActivityLoop!Init, Activity!Slugs, ActivityLoop!Slugs, Activity!Range, ActivityLoop!Range
<1>3. ActivitySince(database, database)
  BY StartsAssumption DEF Activity!Init, ActivitySince
<1>. QED
  BY <1>2, <1>3, ActivityChecks, ActivityLoop!LoopInit DEF ActivityInv, ActivityLoop!Init, ActivityLoop!Moments

\* The loop's lemma, the listings and the databases give the step.
LEMMA ActivityStep == ASSUME ActivityInv, [Activity!Next]_<<machine, found, changes>> PROVE ActivityInv'
<1>1. [ActivityLoop!Next]_(ActivityLoop!vars)
  BY ActivityIsALoop DEF machine, ActivityLoop!vars
<1>2. PICK start \in ActivityStarts : \A db \in ActivityLoop!Moments : ActivitySince(start, db)
  BY <1>1 DEF ActivityInv
<1>3. ActivityLoop!LoopInv /\ \A db \in ActivityLoop!Moments : Activity!IsDatabase(db)
  BY <1>1, <1>2 DEF ActivityInv, ActivitySince
<1>4. ActivityLoop!LoopInv'
  BY <1>1, <1>3, ActivityLoop!LoopStep, ActivityChecks, ActivityListings, OutcomesAssumption
<1>5. database \in ActivityLoop!Moments
  BY DEF ActivityLoop!Moments
<1>6. ActivityLoop!Moments' \subseteq ActivityLoop!Moments \cup Activity!Changed(database)
  BY <1>1, ActivityLoop!MomentsGrow
<1>7. \A db \in ActivityLoop!Moments' : ActivitySince(start, db)
  BY <1>2, <1>5, <1>6, ActivityDatabases
<1>. QED
  BY <1>4, <1>7 DEF ActivityInv

\* What the category's checks ask.
LEMMA ActivityQueries ==
    ASSUME NEW slug, NEW db
    PROVE  /\ slug \in Activity!OfStatements =>
                 /\ db.extension => Activity!Queries(slug, db) = <<slug>>
                 /\ ~db.extension => Activity!Queries(slug, db) = <<"not-assessed">>
           /\ Activity!Queries("connection-saturation", db) = <<"saturation", "long-running">>
           /\ slug \notin Activity!OfStatements \cup {"connection-saturation"} => Activity!Queries(slug, db) = <<slug>>
<1>1. "connection-saturation" \notin Activity!OfStatements
  BY DEF Activity!OfStatements
<1>. QED
  BY <1>1 DEF Activity!Queries, Activity!IsAvailable

\* What each query answers.
LEMMA ActivityAnswers ==
    ASSUME NEW slug, NEW db
    PROVE  /\ Activity!Answers(slug, "not-assessed", db) = {{<<"not-assessed">>}}
           /\ Activity!Answers(slug, "idle-in-transaction-sessions", db) = {Activity!IdleInTransactionSessions(db)}
           /\ Activity!Answers(slug, "slow-query-monitoring", db) = {Activity!SlowQueryMonitoring(db)}
           /\ Activity!Answers(slug, "pg-stat-statements-installed", db) = {Activity!StatementsInstalled(db)}
           /\ Activity!Answers(slug, "saturation", db) = {Activity!ConnectionSaturation(db)}
           /\ Activity!Answers(slug, "long-running", db) = {Activity!LongRunningActiveQueries(db)}
<1>1. \A query \in {"not-assessed", "idle-in-transaction-sessions", "slow-query-monitoring",
                    "pg-stat-statements-installed", "saturation", "long-running"} : query \notin Activity!OfStatements
  BY DEF Activity!OfStatements
<1>2. Activity!Answers(slug, "not-assessed", db) = {{<<"not-assessed">>}}
  BY <1>1, Zenon DEF Activity!Answers
<1>3. Activity!Answers(slug, "idle-in-transaction-sessions", db) = {Activity!IdleInTransactionSessions(db)}
  BY <1>1, Zenon DEF Activity!Answers
<1>4. Activity!Answers(slug, "slow-query-monitoring", db) = {Activity!SlowQueryMonitoring(db)}
  BY <1>1, Zenon DEF Activity!Answers
<1>5. Activity!Answers(slug, "pg-stat-statements-installed", db) = {Activity!StatementsInstalled(db)}
  BY <1>1, Zenon DEF Activity!Answers
<1>6. Activity!Answers(slug, "saturation", db) = {Activity!ConnectionSaturation(db)}
  BY <1>1, Zenon DEF Activity!Answers
<1>7. Activity!Answers(slug, "long-running", db) = {Activity!LongRunningActiveQueries(db)}
  BY <1>1, Zenon DEF Activity!Answers
<1>. QED
  BY <1>2, <1>3, <1>4, <1>5, <1>6, <1>7

\* The view raises, or answers.
LEMMA ActivityStatementAnswers ==
    ASSUME NEW slug, NEW db, NEW query \in Activity!OfStatements
    PROVE  /\ Activity!ViewRaises(db) => Activity!Answers(slug, query, db) = {Raised}
           /\ ~Activity!ViewRaises(db) =>
                 Activity!Answers(slug, query, db) =
                    IF query = "offset-pagination" THEN {Activity!OffsetPagination(db)}
                    ELSE Activity!NPlusOneCandidates(db)
BY Zenon DEF Activity!Answers

\* A statement check's findings are neither an exception nor the note of a missing extension.
LEMMA ActivityRaised ==
    ASSUME NEW db, Activity!IsDatabase(db), NEW answer \in Activity!NPlusOneCandidates(db) \cup {Activity!OffsetPagination(db)}
    PROVE  answer # Raised /\ answer # {<<"not-assessed">>}
<1>1. \A words, others : Activity!Containing(words, others, db) \in SUBSET Activity!AllStatements
  BY DEF Activity!Containing, Activity!IsDatabase, Activity!Recorded
<1>2. answer = Activity!OffsetPagination(db) => answer \in SUBSET ({"paging"} \X SUBSET Activity!AllStatements)
  BY <1>1 DEF Activity!OffsetPagination
<1>3. ASSUME answer \in Activity!NPlusOneCandidates(db) PROVE answer \in SUBSET ({"lookup"} \X Activity!AllStatements)
  <2>. DEFINE key == [s \in Activity!PointLookups(db) |-> db.statements[s].calls]
  <2>1. PICK top \in Activity!Top(MaxCandidates, key) : answer = {<<"lookup", s>> : s \in top}
    BY <1>3 DEF Activity!NPlusOneCandidates
  <2>2. DOMAIN key \subseteq Activity!AllStatements
    BY <1>1 DEF Activity!PointLookups
  <2>3. top \subseteq DOMAIN key
    BY <2>1 DEF Activity!Top, Activity!kSubset
  <2>. QED
    BY <2>1, <2>2, <2>3
<1>4. \A f \in answer : f \in ({"paging"} \X SUBSET Activity!AllStatements) \cup ({"lookup"} \X Activity!AllStatements)
  BY <1>2, <1>3
<1>5. <<"not-assessed">> \notin ({"paging"} \X SUBSET Activity!AllStatements) \cup ({"lookup"} \X Activity!AllStatements)
  OBVIOUS
<1>. QED
  BY <1>4, <1>5, OutcomesAssumption DEF Activity!Findings

\* What a check with one query came to.
LEMMA ActivityOutcome ==
    ASSUME ActivityInv,
           NEW slug \in ActivityLoop!Slugs \ {"connection-saturation"}, found[slug] # Pending
    PROVE  \E then, now \in ActivityLoop!Moments :
              found[slug] \in Activity!Answers(slug, IF slug \in Activity!OfStatements /\ ~then.extension
                                                     THEN "not-assessed" ELSE slug, now)
<1>1. \A db \in ActivityLoop!Moments : DOMAIN Activity!Queries(slug, db) = {1} /\ Len(Activity!Queries(slug, db)) = 1
  BY ActivityQueries
<1>2. PICK then, now \in ActivityLoop!Moments :
        found[slug] \in Activity!Answers(slug, Activity!Queries(slug, then)[1], now)
  BY <1>1, ActivityLoop!ByOneQuery, ActivityChecks DEF ActivityInv
<1>3. Activity!Queries(slug, then)[1] = IF slug \in Activity!OfStatements /\ ~then.extension THEN "not-assessed" ELSE slug
  BY ActivityQueries
<1>. QED
  BY <1>2, <1>3

\* Each of the statement checks says of the extension what it met, and so do those
\* that report that it is missing.
LEMMA ActivityProbes == ASSUME ActivityInv PROVE Activity!ActivityProbesAgree
<1>1. ASSUME NEW slug \in Activity!OfStatements, found[slug] # Pending
      PROVE  Activity!ProbedHonestly(found[slug], Raised, Activity!Moments)
  <2>1. slug \in ActivityLoop!Slugs \ {"connection-saturation"}
    BY ActivityChecks DEF Activity!OfStatements
  <2>2. PICK then, now \in ActivityLoop!Moments :
          found[slug] \in Activity!Answers(slug, IF ~then.extension THEN "not-assessed" ELSE slug, now)
    BY <1>1, <2>1, ActivityOutcome
  <2>3. Raised # {<<"not-assessed">>} /\ Activity!IsDatabase(now)
    BY OutcomesAssumption DEF Activity!Findings, ActivityInv, ActivitySince
  <2>4. CASE ~then.extension
    <3>0. found[slug] \in Activity!Answers(slug, "not-assessed", now)
      BY <2>2, <2>4
    <3>1. found[slug] \in {{<<"not-assessed">>}}
      BY <3>0, ActivityAnswers
    <3>. QED
      BY <2>3, <2>4, <3>1, ActivityIsALoop DEF Activity!ProbedHonestly
  <2>5. CASE then.extension /\ Activity!ViewRaises(now)
    <3>0. found[slug] \in Activity!Answers(slug, slug, now)
      BY <2>2, <2>5
    <3>1. Activity!Answers(slug, slug, now) = {Raised}
      BY <2>5, ActivityStatementAnswers
    <3>2. found[slug] = Raised
      BY <3>0, <3>1
    <3>. QED
      BY <2>3, <2>5, <3>2, ActivityIsALoop DEF Activity!ProbedHonestly
  <2>6. CASE then.extension /\ ~Activity!ViewRaises(now)
    <3>0. found[slug] \in Activity!Answers(slug, slug, now)
      BY <2>2, <2>6
    <3>1. found[slug] \in Activity!NPlusOneCandidates(now) \cup {Activity!OffsetPagination(now)}
      BY <1>1, <2>6, <3>0, ActivityStatementAnswers
    <3>2. found[slug] # Raised /\ found[slug] # {<<"not-assessed">>}
      BY <2>3, <3>1, ActivityRaised
    <3>. QED
      BY <2>6, <3>2, ActivityIsALoop DEF Activity!ViewRaises, Activity!ProbedHonestly
  <2>. QED
    BY <2>4, <2>5, <2>6
<1>2. ASSUME Activity!Told("pg-stat-statements-installed")
      PROVE  \E db \in Activity!Moments : found["pg-stat-statements-installed"] = {} <=> db.extension
  <2>1. PICK now \in ActivityLoop!Moments :
          found["pg-stat-statements-installed"] \in
             Activity!Answers("pg-stat-statements-installed", "pg-stat-statements-installed", now)
    BY <1>2, ActivityOutcome, ActivityChecks DEF Activity!Told, Activity!OfStatements
  <2>2. found["pg-stat-statements-installed"] = Activity!StatementsInstalled(now)
    BY <2>1, ActivityAnswers
  <2>. QED
    BY <2>1, <2>2, ActivityIsALoop DEF Activity!StatementsInstalled, Activity!IsAvailable
<1>3. ASSUME Activity!Told("slow-query-monitoring")
      PROVE  \E db \in Activity!Moments :
                found["slow-query-monitoring"] = {} <=> db.extension \/ db.autoExplain \/ db.logMinDuration
  <2>1. PICK now \in ActivityLoop!Moments :
          found["slow-query-monitoring"] \in Activity!Answers("slow-query-monitoring", "slow-query-monitoring", now)
    BY <1>3, ActivityOutcome, ActivityChecks DEF Activity!Told, Activity!OfStatements
  <2>2. found["slow-query-monitoring"] = Activity!SlowQueryMonitoring(now)
    BY <2>1, ActivityAnswers
  <2>. QED
    BY <2>1, <2>2, ActivityIsALoop DEF Activity!SlowQueryMonitoring
<1>. QED
  BY <1>1, <1>2, <1>3 DEF Activity!ActivityProbesAgree

\* The audit's own statements do not page, but by the client's names.
LEMMA ActivityOwn ==
    ASSUME NEW s \in DOMAIN Activity!OwnWords, NEW word \in Activity!OwnWords[s],
           word \notin {"WHERE", "pg_stat_statements", "JOIN", "information_schema"}
    PROVE  Activity!OfClientsName(s, word)
<1>1. Activity!OwnWords[s] = Activity!Normalized(IF s \in Activity!OfFixedText THEN Activity!Fixed(s) ELSE Activity!Sampling(s))
  BY DEF Activity!OwnWords
<1>2. CASE s \in Activity!OfFixedText
  <2>1. Activity!Fixed(s).kept \subseteq {"WHERE", "pg_stat_statements", "JOIN", "information_schema"}
    <3>1. CASE s \in DOMAIN Activity!OwnOfQueryPatterns
      <4>1. s \in {"probe", "lookups", "offsets"}
        BY <3>1 DEF Activity!OwnOfQueryPatterns
      <4>2. s \notin DOMAIN Activity!OwnOfSearch /\ s \notin DOMAIN Activity!OwnOfScale
        BY <4>1 DEF Activity!OwnOfSearch, Activity!OwnOfScale
      <4>3. Activity!Fixed(s) = Activity!OwnOfQueryPatterns[s]
        BY <3>1, <4>2, Zenon DEF Activity!Fixed
      <4>. QED
        BY <4>1, <4>3 DEF Activity!OwnOfQueryPatterns, Activity!Text
    <3>2. CASE s \in DOMAIN Activity!OwnOfSearch
      <4>1. s \in {"combination", "ranking", "parsing"}
        BY <3>2 DEF Activity!OwnOfSearch
      <4>2. s \notin DOMAIN Activity!OwnOfQueryPatterns /\ s \notin DOMAIN Activity!OwnOfScale
        BY <4>1 DEF Activity!OwnOfQueryPatterns, Activity!OwnOfScale
      <4>3. Activity!Fixed(s) = Activity!OwnOfSearch[s]
        BY <3>2, <4>2, Zenon DEF Activity!Fixed
      <4>. QED
        BY <4>1, <4>3 DEF Activity!OwnOfSearch, Activity!Text
    <3>3. CASE s \in DOMAIN Activity!OwnOfScale
      <4>1. s \in {"slow", "sizes", "tenants"}
        BY <3>3 DEF Activity!OwnOfScale
      <4>2. s \notin DOMAIN Activity!OwnOfQueryPatterns /\ s \notin DOMAIN Activity!OwnOfSearch
        BY <4>1 DEF Activity!OwnOfQueryPatterns, Activity!OwnOfSearch
      <4>3. Activity!Fixed(s) = Activity!OwnOfScale[s]
        BY <3>3, <4>2, Zenon DEF Activity!Fixed
      <4>. QED
        BY <4>1, <4>3 DEF Activity!OwnOfScale, Activity!Text
    <3>. QED
      BY <1>2, <3>1, <3>2, <3>3 DEF Activity!OfFixedText
  <2>. QED
    BY <1>1, <1>2, <2>1 DEF Activity!Normalized
<1>3. CASE s \notin Activity!OfFixedText
  <2>1. s \in DOMAIN SamplingDef
    BY <1>3 DEF Activity!OwnWords
  <2>2. Activity!OwnWords[s] \subseteq {"WHERE", "JOIN"} \cup SamplingDef[s].names
    BY <1>1, <1>3 DEF Activity!Normalized, Activity!Sampling, Activity!Text
  <2>. QED
    BY <2>1, <2>2 DEF Activity!OfClientsName
<1>. QED
  BY <1>2, <1>3

\* What is told about paging is the application's, and all of that.
LEMMA ActivityPaging == ASSUME ActivityInv PROVE Activity!PagingIsToldTruly
<1>. SUFFICES ASSUME Activity!Told("offset-pagination")
              PROVE  /\ \A f \in found["offset-pagination"] \ {<<"not-assessed">>} :
                           \A s \in f[2] : Activity!ByAudit(s) => Activity!OfClientsName(s, "OFFSET")
                     /\ <<"not-assessed">> \notin found["offset-pagination"] =>
                           \A s \in Activity!Readable(ActivityLoop!Moments) : "OFFSET" \in StatementDef[s].words =>
                               \E f \in found["offset-pagination"] : s \in f[2]
  BY ActivityIsALoop DEF Activity!PagingIsToldTruly
<1>. DEFINE outcome == found["offset-pagination"]
<1>1. "offset-pagination" \in ActivityLoop!Slugs \ {"connection-saturation"} /\ "offset-pagination" \in Activity!OfStatements
  BY ActivityChecks DEF Activity!OfStatements
<1>2. PICK then, now \in ActivityLoop!Moments :
        outcome \in Activity!Answers("offset-pagination", IF ~then.extension THEN "not-assessed" ELSE "offset-pagination", now)
  BY <1>1, ActivityOutcome DEF Activity!Told
<1>3. outcome \in {{<<"not-assessed">>}, Raised, Activity!OffsetPagination(now)}
  <2>1. CASE ~then.extension
    <3>1. outcome \in Activity!Answers("offset-pagination", "not-assessed", now)
      BY <1>2, <2>1
    <3>. QED
      BY <3>1, ActivityAnswers
  <2>2. CASE then.extension
    <3>1. outcome \in Activity!Answers("offset-pagination", "offset-pagination", now)
      BY <1>2, <2>2
    <3>2. CASE Activity!ViewRaises(now)
      <4>1. Activity!Answers("offset-pagination", "offset-pagination", now) = {Raised}
        BY <1>1, <3>2, ActivityStatementAnswers
      <4>. QED
        BY <3>1, <4>1
    <3>3. CASE ~Activity!ViewRaises(now)
      <4>1. Activity!Answers("offset-pagination", "offset-pagination", now) = {Activity!OffsetPagination(now)}
        BY <1>1, <3>3, ActivityStatementAnswers
      <4>. QED
        BY <3>1, <4>1
    <3>. QED
      BY <3>2, <3>3
  <2>. QED
    BY <2>1, <2>2
<1>4. outcome # Raised
  BY DEF Activity!Told
<1>5. ASSUME NEW f \in outcome \ {<<"not-assessed">>}, NEW s \in f[2], Activity!ByAudit(s)
      PROVE  Activity!OfClientsName(s, "OFFSET")
  <2>1. f \in Activity!OffsetPagination(now)
    BY <1>3, <1>4, <1>5
  <2>2. "OFFSET" \in Activity!Words(s, now)
    BY <1>5, <2>1 DEF Activity!OffsetPagination, Activity!Containing
  <2>3. s \in DOMAIN Activity!OwnWords /\ "OFFSET" \in Activity!OwnWords[s]
    BY <1>5, <2>2 DEF Activity!Words, Activity!ByAudit
  <2>. QED
    BY <2>3, ActivityOwn
<1>6. ASSUME <<"not-assessed">> \notin outcome, NEW s \in Activity!Readable(ActivityLoop!Moments), "OFFSET" \in StatementDef[s].words
      PROVE  \E f \in outcome : s \in f[2]
  <2>1. outcome = Activity!OffsetPagination(now)
    BY <1>3, <1>4, <1>6
  <2>2. s \in Activity!Recorded(now) /\ Activity!Words(s, now) = StatementDef[s].words
    BY <1>2, <1>6 DEF Activity!Readable, Activity!Words
  <2>3. s \in Activity!Containing({"OFFSET"}, {}, now)
    BY <1>6, <2>2 DEF Activity!Containing
  <2>. QED
    BY <2>1, <2>3 DEF Activity!OffsetPagination
<1>. QED
  BY <1>5, <1>6

\* Sessions are told as they are, by the two checks that read pg_stat_activity.
LEMMA ActivitySessions == ASSUME ActivityInv PROVE Activity!SessionsAreToldTruly
<1>1. PICK start \in ActivityStarts : \A db \in ActivityLoop!Moments : ActivitySince(start, db)
  BY DEF ActivityInv
<1>. DEFINE Sessions == UNION {db.sessions : db \in ActivityLoop!Moments}
<1>2. /\ \A r, s \in Sessions : r.pid = s.pid => r = s
      /\ \A s \in Sessions : s.transaction \in Int /\ s.query \in Int
      /\ \A db \in ActivityLoop!Moments : db.clock \in Nat /\ db.background \in Nat /\ IsFiniteSet(db.sessions)
  <2>1. Activity!IsDatabase(start) /\ Sessions \subseteq start.sessions
    BY <1>1 DEF ActivitySince, ActivityLoop!Moments
  <2>2. \A S : Activity!IsFiniteSet(S) <=> IsFiniteSet(S)
    BY DEF Activity!IsFiniteSet, IsFiniteSet
  <2>. QED
    BY <1>1, <2>1, <2>2 DEF ActivitySince, Activity!IsDatabase
<1>. DEFINE idle == found["idle-in-transaction-sessions"]
            active == found["connection-saturation"]
<1>3. ASSUME Activity!Told("idle-in-transaction-sessions"), NEW s \in Sessions
      PROVE  LET of == {f \in idle : f[2] = s.pid} IN
             /\ of # {} => s.state = "idle in transaction"
             /\ <<"idle", s.pid, "high">> \in of =>
                   \E db \in ActivityLoop!Moments : s.transaction + db.clock > LongIdle
             /\ s.state = "idle in transaction" /\ s.transaction > LongIdle
                /\ (\A db \in ActivityLoop!Moments : db.monitor /\ s \in db.sessions) => <<"idle", s.pid, "high">> \in of
  <2>1. PICK now \in ActivityLoop!Moments :
          idle \in Activity!Answers("idle-in-transaction-sessions", "idle-in-transaction-sessions", now)
    BY <1>3, ActivityOutcome, ActivityChecks DEF Activity!Told, Activity!OfStatements
  <2>2. idle = Activity!IdleInTransactionSessions(now)
    BY <2>1, ActivityAnswers
  <2>3. ASSUME NEW f \in idle, f[2] = s.pid
        PROVE  s.state = "idle in transaction" /\ (f[3] = "high" => s.transaction > LongIdle)
    <3>1. PICK r \in now.sessions : Activity!StateOf(r, now) = "idle in transaction"
            /\ f = <<"idle", r.pid, IF r.transaction > LongIdle THEN "high" ELSE "medium">>
      BY <2>2, <2>3 DEF Activity!IdleInTransactionSessions
    <3>2. r = s
      BY <1>2, <2>3, <3>1
    <3>. QED
      BY <3>1, <3>2 DEF Activity!StateOf
  <2>4. <<"idle", s.pid, "high">>[3] = "high"
    OBVIOUS
  <2>5. s.transaction > LongIdle => s.transaction + now.clock > LongIdle
    <3>1. s.transaction \in Int /\ now.clock \in Nat /\ LongIdle \in Nat
      BY <1>2, <2>1, BoundsAssumption
    <3>. QED
      BY <3>1
  <2>6. ASSUME s.state = "idle in transaction", s.transaction > LongIdle, now.monitor, s \in now.sessions
        PROVE  <<"idle", s.pid, "high">> \in idle
    BY <2>2, <2>6 DEF Activity!IdleInTransactionSessions, Activity!StateOf
  <2>. QED
    BY <2>1, <2>3, <2>4, <2>5, <2>6
<1>4. ASSUME Activity!Told("connection-saturation")
      PROVE  \E m, n \in ActivityLoop!Moments :
                active = Activity!ConnectionSaturation(m) \cup Activity!LongRunningActiveQueries(n)
  <2>1. "connection-saturation" \in ActivityLoop!Slugs /\ ActivityLoop!Told("connection-saturation")
    BY <1>4, ActivityChecks, ActivityIsALoop
  <2>2. \A db : /\ Len(Activity!Queries("connection-saturation", db)) = 2
                /\ Activity!Queries("connection-saturation", db)[1] = "saturation"
                /\ Activity!Queries("connection-saturation", db)[2] = "long-running"
    BY ActivityQueries
  <2>3. PICK m, n \in ActivityLoop!Moments :
          \E a \in Activity!Answers("connection-saturation", "saturation", m),
             b \in Activity!Answers("connection-saturation", "long-running", n) : active = a \cup b
    BY <2>1, <2>2, ActivityLoop!ToldByTwoQueries, ActivityChecks DEF ActivityInv
  <2>. QED
    BY <2>3, ActivityAnswers
<1>5. ASSUME Activity!Told("connection-saturation"), NEW s \in Sessions
      PROVE  LET of == {f \in active \ {<<"saturated">>} : f[2] = s.pid} IN
             /\ of # {} => s.state = "active" /\ \E db \in ActivityLoop!Moments : s.query + db.clock > LongQuery
             /\ s.state = "active" /\ s.query > LongQuery
                /\ (\A db \in ActivityLoop!Moments : db.monitor /\ s \in db.sessions) => of # {}
  <2>1. PICK m, now \in ActivityLoop!Moments :
          active = Activity!ConnectionSaturation(m) \cup Activity!LongRunningActiveQueries(now)
    BY <1>4, <1>5
  <2>2. Activity!ConnectionSaturation(m) \subseteq {<<"saturated">>}
    BY DEF Activity!ConnectionSaturation
  <2>3. ASSUME NEW f \in active \ {<<"saturated">>}, f[2] = s.pid PROVE s.state = "active" /\ s.query > LongQuery
    <3>1. PICK r \in now.sessions : Activity!StateOf(r, now) = "active" /\ r.query > LongQuery
            /\ f = <<"active", r.pid, IF r.query >= 3 * LongQuery THEN "high" ELSE "medium">>
      BY <2>1, <2>2 DEF Activity!LongRunningActiveQueries
    <3>2. r = s
      BY <1>2, <2>3, <3>1
    <3>. QED
      BY <3>1, <3>2 DEF Activity!StateOf
  <2>4. s.query > LongQuery => s.query + now.clock > LongQuery
    <3>1. s.query \in Int /\ now.clock \in Nat /\ LongQuery \in Nat
      BY <1>2, BoundsAssumption
    <3>. QED
      BY <3>1
  <2>5. ASSUME s.state = "active", s.query > LongQuery, now.monitor, s \in now.sessions
        PROVE  \E f \in active \ {<<"saturated">>} : f[2] = s.pid
    <3>. DEFINE f == <<"active", s.pid, IF s.query >= 3 * LongQuery THEN "high" ELSE "medium">>
    <3>1. f \in active /\ f[2] = s.pid /\ f # <<"saturated">>
      BY <2>1, <2>5 DEF Activity!LongRunningActiveQueries, Activity!StateOf
    <3>. QED
      BY <3>1
  <2>. QED
    BY <2>3, <2>4, <2>5
<1>6. ASSUME Activity!Told("connection-saturation"),
             \A db \in ActivityLoop!Moments : Activity!Cardinality(db.sessions) + 1 >= Saturated
      PROVE  <<"saturated">> \in active
  <2>1. PICK m, n \in ActivityLoop!Moments :
          active = Activity!ConnectionSaturation(m) \cup Activity!LongRunningActiveQueries(n)
    BY <1>4, <1>6
  <2>2. \A S : Activity!Cardinality(S) = Cardinality(S)
    BY DEF Activity!Cardinality, Cardinality
  <2>3. Activity!Cardinality(m.sessions) \in Nat /\ m.background \in Nat /\ Saturated \in Int
    BY <1>2, <2>2, FS_CardinalityType, BoundsAssumption
  <2>4. Activity!Cardinality(m.sessions) + 1 + m.background >= Saturated
    BY <1>6, <2>3
  <2>. QED
    BY <2>1, <2>4 DEF Activity!ConnectionSaturation
<1>7. Activity!Moments = ActivityLoop!Moments
  BY ActivityIsALoop
<1>. HIDE DEF idle, active, Sessions
<1>8. Activity!Told("idle-in-transaction-sessions") => \A s \in Sessions :
          LET of == {f \in idle : f[2] = s.pid} IN
          /\ of # {} => s.state = "idle in transaction"
          /\ <<"idle", s.pid, "high">> \in of => \E db \in ActivityLoop!Moments : s.transaction + db.clock > LongIdle
          /\ s.state = "idle in transaction" /\ s.transaction > LongIdle
             /\ (\A db \in ActivityLoop!Moments : db.monitor /\ s \in db.sessions) => <<"idle", s.pid, "high">> \in of
  BY <1>3
<1>9. Activity!Told("connection-saturation") =>
          /\ \A s \in Sessions :
                LET of == {f \in active \ {<<"saturated">>} : f[2] = s.pid} IN
                /\ of # {} => s.state = "active" /\ \E db \in ActivityLoop!Moments : s.query + db.clock > LongQuery
                /\ s.state = "active" /\ s.query > LongQuery
                   /\ (\A db \in ActivityLoop!Moments : db.monitor /\ s \in db.sessions) => of # {}
          /\ (\A db \in ActivityLoop!Moments : Activity!Cardinality(db.sessions) + 1 >= Saturated) =>
                <<"saturated">> \in active
  BY <1>5, <1>6
<1>. QED
  BY <1>7, <1>8, <1>9 DEF Activity!SessionsAreToldTruly, idle, active, Sessions

-----------------------------------------------------------------------------
(* Scale & Growth and Security.                                            *)

GrowthLoop == INSTANCE CategoryChecksProofs WITH
    Checks <- Growth!Checks, Applicable <- Growth!Applicable, Queries <- Growth!Queries, Answers <- Growth!Answers,
    Starts <- GrowthStarts, Changed <- Growth!Changed

\* Roles, rules and grants are as they were when the category began.
GrowthSince(start, db) ==
    /\ Growth!IsDatabase(start) /\ Growth!IsDatabase(db)
    /\ db.roles = start.roles /\ db.hba = start.hba /\ db.privileged = start.privileged
    /\ \A t \in Growth!Tables : db.tables[t].public = start.tables[t].public

GrowthInv == GrowthLoop!LoopInv /\ \E start \in GrowthStarts : \A db \in GrowthLoop!Moments : GrowthSince(start, db)

\* The category's steps and words are those of the loop.
LEMMA GrowthIsALoop ==
    /\ Growth!Next => GrowthLoop!Next
    /\ Growth!Moments = GrowthLoop!Moments
    /\ \A slug : Growth!Told(slug) <=> GrowthLoop!Told(slug)
<1>1. Growth!Next => GrowthLoop!Next
  BY DEF Growth!Next, GrowthLoop!Next, Growth!AskApplicability, GrowthLoop!AskApplicability,
     Growth!BeginCheck, GrowthLoop!BeginCheck, Growth!RunQuery, GrowthLoop!RunQuery, Growth!ReturnFindings,
     GrowthLoop!ReturnFindings, Growth!Change, GrowthLoop!Change, Growth!EndCheck, GrowthLoop!EndCheck,
     Growth!Over, GrowthLoop!Over, Growth!vars, GrowthLoop!vars, Growth!Running, GrowthLoop!Running,
     Growth!Current, GrowthLoop!Current
<1>. QED
  BY <1>1 DEF Growth!Moments, GrowthLoop!Moments, Growth!Told, GrowthLoop!Told

\* Its checks are listed once each.
LEMMA GrowthChecks ==
    /\ GrowthLoop!Distinct
    /\ GrowthLoop!Slugs = {"slow-queries", "largest-tables", "tenant-columns-without-rls", "login-superuser-roles",
      "rls-enabled-without-policies", "undocumented-pii-and-ssl", "audit-trail-availability",
      "superuser-roles-without-expiration", "authentication-method-strength"}
<1>1. Growth!Checks \in Seq({"slow-queries", "largest-tables", "tenant-columns-without-rls", "login-superuser-roles",
      "rls-enabled-without-policies", "undocumented-pii-and-ssl", "audit-trail-availability",
      "superuser-roles-without-expiration", "authentication-method-strength"})
  BY DEF Growth!Checks
<1>2. \A i, j \in DOMAIN Growth!Checks : Growth!Checks[i] = Growth!Checks[j] => i = j
  BY DEF Growth!Checks
<1>3. DOMAIN Growth!Checks = {1, 2, 3, 4, 5, 6, 7, 8, 9}
  BY DEF Growth!Checks
<1>4. GrowthLoop!Slugs = {Growth!Checks[i] : i \in DOMAIN Growth!Checks}
  BY DEF GrowthLoop!Slugs, GrowthLoop!Range
<1>5. GrowthLoop!Slugs = {"slow-queries", "largest-tables", "tenant-columns-without-rls", "login-superuser-roles",
      "rls-enabled-without-policies", "undocumented-pii-and-ssl", "audit-trail-availability",
      "superuser-roles-without-expiration", "authentication-method-strength"}
  BY <1>3, <1>4 DEF Growth!Checks
<1>. QED
  BY <1>1, <1>2, <1>5 DEF GrowthLoop!Distinct

\* A check's queries are a sequence.
LEMMA GrowthListings == ASSUME \A db \in GrowthLoop!Moments : Growth!IsDatabase(db) PROVE GrowthLoop!Listings
<1>1. ASSUME NEW slug, NEW db PROVE \E Q : Growth!Queries(slug, db) \in Seq(Q)
  <2>1. \/ \E q : Growth!Queries(slug, db) = <<q>>
        \/ \E q, r : Growth!Queries(slug, db) = <<q, r>>
        \/ \E q, r, s : Growth!Queries(slug, db) = <<q, r, s>>
    BY Zenon DEF Growth!Queries
  <2>2. ASSUME NEW q, Growth!Queries(slug, db) = <<q>> PROVE Growth!Queries(slug, db) \in Seq({q})
    BY <2>2
  <2>3. ASSUME NEW q, NEW r, Growth!Queries(slug, db) = <<q, r>> PROVE Growth!Queries(slug, db) \in Seq({q, r})
    BY <2>3
  <2>4. ASSUME NEW q, NEW r, NEW s, Growth!Queries(slug, db) = <<q, r, s>> PROVE Growth!Queries(slug, db) \in Seq({q, r, s})
    BY <2>4
  <2>. QED
    BY <2>1, <2>2, <2>3, <2>4, Zenon
<1>. QED
  BY <1>1 DEF GrowthLoop!Listings

\* The client's changes make a database of a database, and keep what does not change.
LEMMA GrowthDatabases ==
    ASSUME NEW start, NEW db, GrowthSince(start, db), NEW later \in Growth!Changed(db) PROVE GrowthSince(start, later)
<1>1. ASSUME NEW t \in Growth!Tables, later \in {[db EXCEPT !.tables[t].rls = ~@], [db EXCEPT !.tables[t].policies = ~@]}
      PROVE  GrowthSince(start, later)
  <2>. DEFINE switched == [db.tables[t] EXCEPT !.rls = ~@]
              granted == [db.tables[t] EXCEPT !.policies = ~@]
  <2>1. PICK table \in {switched, granted} : later = [db EXCEPT !.tables[t] = table]
    BY <1>1
  <2>2. DOMAIN table = DOMAIN db.tables[t] /\ table.public = db.tables[t].public
    BY <2>1 DEF GrowthSince, Growth!IsDatabase
  <2>. HIDE DEF switched, granted
  <2>3. /\ later.tables = [db.tables EXCEPT ![t] = table] /\ DOMAIN later = DOMAIN db
        /\ later.statements = db.statements /\ later.roles = db.roles /\ later.hba = db.hba
        /\ later.privileged = db.privileged
    BY <2>1 DEF GrowthSince, Growth!IsDatabase
  <2>. QED
    BY <2>2, <2>3 DEF GrowthSince, Growth!IsDatabase
<1>2. ASSUME NEW t, later = [db EXCEPT !.locked = IF t \in @ THEN @ \ {t} ELSE @ \cup {t}] PROVE GrowthSince(start, later)
  BY <1>2 DEF GrowthSince, Growth!IsDatabase
<1>3. CASE later \in {[db EXCEPT !.hbaPrivileges = {}], [db EXCEPT !.extension = ~@]}
  BY <1>3 DEF GrowthSince, Growth!IsDatabase
<1>. QED
  BY <1>1, <1>2, <1>3 DEF Growth!Changed

\* The category's part of the invariant holds at first, and is kept.
LEMMA GrowthInit == ASSUME Growth!Init PROVE GrowthInv
<1>2. GrowthLoop!Init
  BY DEF Growth!Init, GrowthLoop!Init, Growth!Slugs, GrowthLoop!Slugs, Growth!Range, GrowthLoop!Range
<1>3. GrowthSince(database, database)
  BY StartsAssumption DEF Growth!Init, GrowthSince
<1>. QED
  BY <1>2, <1>3, GrowthChecks, GrowthLoop!LoopInit DEF GrowthInv, GrowthLoop!Init, GrowthLoop!Moments

\* The loop's lemma, the listings and the databases give the step.
LEMMA GrowthStep == ASSUME GrowthInv, [Growth!Next]_<<machine, found, changes>> PROVE GrowthInv'
<1>1. [GrowthLoop!Next]_(GrowthLoop!vars)
  BY GrowthIsALoop DEF machine, GrowthLoop!vars
<1>2. PICK start \in GrowthStarts : \A db \in GrowthLoop!Moments : GrowthSince(start, db)
  BY <1>1 DEF GrowthInv
<1>3. GrowthLoop!LoopInv /\ \A db \in GrowthLoop!Moments : Growth!IsDatabase(db)
  BY <1>1, <1>2 DEF GrowthInv, GrowthSince
<1>4. GrowthLoop!LoopInv'
  BY <1>1, <1>3, GrowthLoop!LoopStep, GrowthChecks, GrowthListings, OutcomesAssumption
<1>5. database \in GrowthLoop!Moments
  BY DEF GrowthLoop!Moments
<1>6. GrowthLoop!Moments' \subseteq GrowthLoop!Moments \cup Growth!Changed(database)
  BY <1>1, GrowthLoop!MomentsGrow
<1>7. \A db \in GrowthLoop!Moments' : GrowthSince(start, db)
  BY <1>2, <1>5, <1>6, GrowthDatabases
<1>. QED
  BY <1>4, <1>7 DEF GrowthInv

\* What the checks ask.
LEMMA GrowthQueries ==
    ASSUME NEW slug, NEW db
    PROVE  /\ Growth!Queries("slow-queries", db) = IF db.extension THEN <<"slow-queries">> ELSE <<"not-assessed">>
           /\ Growth!Queries("rls-enabled-without-policies", db) = <<"policies", "force">>
           /\ Growth!Queries("undocumented-pii-and-ssl", db) = <<"undocumented", "ssl", "public">>
           /\ Growth!Queries("authentication-method-strength", db) =
                 IF Growth!HbaReadable(db) THEN <<"rules", "encryption">> ELSE <<"not-assessed", "encryption">>
           /\ slug \notin {"slow-queries", "rls-enabled-without-policies", "undocumented-pii-and-ssl",
                           "authentication-method-strength"} => Growth!Queries(slug, db) = <<slug>>
<1>1. /\ Growth!Queries("slow-queries", db) = IF db.extension THEN <<"slow-queries">> ELSE <<"not-assessed">>
      /\ Growth!Queries("rls-enabled-without-policies", db) = <<"policies", "force">>
      /\ Growth!Queries("undocumented-pii-and-ssl", db) = <<"undocumented", "ssl", "public">>
      /\ Growth!Queries("authentication-method-strength", db) =
            IF Growth!HbaReadable(db) THEN <<"rules", "encryption">> ELSE <<"not-assessed", "encryption">>
  BY Zenon DEF Growth!Queries, Growth!IsAvailable
<1>2. ASSUME slug \notin {"slow-queries", "rls-enabled-without-policies", "undocumented-pii-and-ssl",
                          "authentication-method-strength"} PROVE Growth!Queries(slug, db) = <<slug>>
  BY <1>2, Zenon DEF Growth!Queries
<1>. QED
  BY <1>1, <1>2

\* What the queries answer that may raise, or are not alone in their check.
LEMMA GrowthAnswers ==
    ASSUME NEW slug, NEW db
    PROVE  /\ Growth!Answers(slug, "slow-queries", db) = IF Growth!ViewRaises(db) THEN {Raised} ELSE Growth!SlowQueries(db)
           /\ Growth!Answers(slug, "largest-tables", db) = IF Growth!SizesRaise(db) THEN {Raised} ELSE Growth!LargestTables(db)
           /\ Growth!Answers(slug, "not-assessed", db) = {{<<"not-assessed">>}}
           /\ Growth!Answers(slug, "rules", db) = {IF Growth!HbaRaises(db) THEN Raised ELSE Growth!WeakRules(db)}
           /\ Growth!Answers(slug, "encryption", db) = {Growth!PasswordEncryption(db)}
<1>1. Growth!Answers(slug, "slow-queries", db) = IF Growth!ViewRaises(db) THEN {Raised} ELSE Growth!SlowQueries(db)
  BY Zenon DEF Growth!Answers
<1>2. Growth!Answers(slug, "largest-tables", db) = IF Growth!SizesRaise(db) THEN {Raised} ELSE Growth!LargestTables(db)
  BY Zenon DEF Growth!Answers
<1>3. Growth!Answers(slug, "not-assessed", db) = {{<<"not-assessed">>}}
  BY Zenon DEF Growth!Answers
<1>4. Growth!Answers(slug, "rules", db) = {IF Growth!HbaRaises(db) THEN Raised ELSE Growth!WeakRules(db)}
  BY Zenon DEF Growth!Answers
<1>5. Growth!Answers(slug, "encryption", db) = {Growth!PasswordEncryption(db)}
  BY Zenon DEF Growth!Answers
<1>. QED
  BY <1>1, <1>2, <1>3, <1>4, <1>5

\* What the others answer, which never raise.
LEMMA GrowthPlainAnswers ==
    ASSUME NEW slug, NEW db
    PROVE  /\ Growth!Answers(slug, "tenant-columns-without-rls", db) = {Growth!TenantColumnsWithoutRls(db)}
           /\ Growth!Answers(slug, "login-superuser-roles", db) = {Growth!LoginSuperuserRoles(db)}
           /\ Growth!Answers(slug, "policies", db) = {Growth!WithoutPolicies(db)}
           /\ Growth!Answers(slug, "force", db) = {Growth!WithoutForce(db)}
           /\ Growth!Answers(slug, "undocumented", db) = {Growth!UndocumentedPii(db)}
           /\ Growth!Answers(slug, "ssl", db) = {Growth!SslSetting(db)}
           /\ Growth!Answers(slug, "public", db) = {Growth!PublicGrants(db)}
           /\ Growth!Answers(slug, "audit-trail-availability", db) = {Growth!AuditTrail(db)}
           /\ Growth!Answers(slug, "superuser-roles-without-expiration", db) = {Growth!SuperusersWithoutExpiration(db)}
<1>1. /\ Growth!Answers(slug, "tenant-columns-without-rls", db) = {Growth!TenantColumnsWithoutRls(db)}
      /\ Growth!Answers(slug, "login-superuser-roles", db) = {Growth!LoginSuperuserRoles(db)}
      /\ Growth!Answers(slug, "policies", db) = {Growth!WithoutPolicies(db)}
  BY Zenon DEF Growth!Answers
<1>2. /\ Growth!Answers(slug, "force", db) = {Growth!WithoutForce(db)}
      /\ Growth!Answers(slug, "undocumented", db) = {Growth!UndocumentedPii(db)}
      /\ Growth!Answers(slug, "ssl", db) = {Growth!SslSetting(db)}
  BY Zenon DEF Growth!Answers
<1>3. /\ Growth!Answers(slug, "public", db) = {Growth!PublicGrants(db)}
      /\ Growth!Answers(slug, "audit-trail-availability", db) = {Growth!AuditTrail(db)}
      /\ Growth!Answers(slug, "superuser-roles-without-expiration", db) = {Growth!SuperusersWithoutExpiration(db)}
  BY Zenon DEF Growth!Answers
<1>. QED
  BY <1>1, <1>2, <1>3

\* What the queries find, whenever they are made.
LEMMA GrowthWithin ==
    ASSUME NEW start \in GrowthStarts, NEW db, GrowthSince(start, db)
    PROVE  /\ \A answer \in Growth!SlowQueries(db) : answer \subseteq Growth!Findings /\ answer # {<<"not-assessed">>}
           /\ \A answer \in Growth!LargestTables(db) : answer \subseteq Growth!Findings
           /\ {<<"not-assessed">>} \subseteq Growth!Findings
           /\ Growth!WeakRules(db) \subseteq Growth!Findings /\ Growth!PasswordEncryption(db) \subseteq Growth!Findings
           /\ Growth!TenantColumnsWithoutRls(db) \subseteq Growth!Findings
           /\ Growth!LoginSuperuserRoles(db) \subseteq Growth!Findings
           /\ Growth!WithoutPolicies(db) \subseteq Growth!Findings /\ Growth!WithoutForce(db) \subseteq Growth!Findings
           /\ Growth!UndocumentedPii(db) \subseteq Growth!Findings /\ Growth!SslSetting(db) \subseteq Growth!Findings
           /\ Growth!PublicGrants(db) \subseteq Growth!Findings /\ Growth!AuditTrail(db) \subseteq Growth!Findings
           /\ Growth!SuperusersWithoutExpiration(db) \subseteq Growth!Findings
<1>1. /\ {"slow"} \X Growth!AllStatements \X {"high", "medium"} \subseteq Growth!Findings
      /\ {"footprint"} \X SUBSET Growth!Plain \subseteq Growth!Findings
      /\ {"no-rls", "no-policy", "not-forced", "undocumented"} \X Growth!Tables \subseteq Growth!Findings
      /\ {<<"not-assessed">>, <<"no-ssl">>, <<"no-trail">>, <<"hashing">>} \subseteq Growth!Findings
  BY DEF Growth!Findings
<1>2. Growth!LoginSuperuserRoles(start) \cup Growth!SuperusersWithoutExpiration(start) \cup Growth!PublicGrants(start)
      \cup Growth!WeakRules(start) \subseteq Growth!Findings
  BY DEF Growth!Findings
<1>3. ASSUME NEW answer \in Growth!SlowQueries(db) PROVE answer \subseteq Growth!Findings /\ answer # {<<"not-assessed">>}
  <2>. DEFINE key == [s \in Growth!Slow(db) |-> db.statements[s].mean]
  <2>1. PICK top \in Growth!Top(MaxSlow, key) :
          answer = {<<"slow", s, IF db.statements[s].mean >= VerySlowMean THEN "high" ELSE "medium">> : s \in top}
    BY <1>3 DEF Growth!SlowQueries
  <2>2. top \subseteq DOMAIN key
    BY <2>1 DEF Growth!Top, Growth!kSubset
  <2>3. DOMAIN key \subseteq Growth!AllStatements
    BY DEF GrowthSince, Growth!IsDatabase, Growth!Slow, Growth!Containing, Growth!Recorded
  <2>4. answer \subseteq {"slow"} \X Growth!AllStatements \X {"high", "medium"}
    BY <2>1, <2>2, <2>3
  <2>5. <<"not-assessed">> \notin {"slow"} \X Growth!AllStatements \X {"high", "medium"}
    OBVIOUS
  <2>. QED
    BY <1>1, <2>4, <2>5
<1>4. ASSUME NEW answer \in Growth!LargestTables(db) PROVE answer \subseteq Growth!Findings
  <2>. DEFINE key == [t \in Growth!Plain |-> db.tables[t].bytes]
  <2>1. answer = {} \/ \E top \in Growth!Top(MaxLargest, key) : answer = {<<"footprint", top>>}
    BY <1>4 DEF Growth!LargestTables
  <2>2. \A top \in Growth!Top(MaxLargest, key) : top \subseteq Growth!Plain
    BY DEF Growth!Top, Growth!kSubset
  <2>3. ASSUME NEW top \in Growth!Top(MaxLargest, key), answer = {<<"footprint", top>>}
        PROVE  answer \subseteq {"footprint"} \X SUBSET Growth!Plain
    BY <2>2, <2>3
  <2>. QED
    BY <1>1, <2>1, <2>3
<1>5. /\ Growth!LoginSuperuserRoles(db) = Growth!LoginSuperuserRoles(start)
      /\ Growth!SuperusersWithoutExpiration(db) = Growth!SuperusersWithoutExpiration(start)
      /\ Growth!WeakRules(db) = Growth!WeakRules(start)
  BY DEF GrowthSince, Growth!LoginSuperuserRoles, Growth!LoginSuperusers, Growth!SuperusersWithoutExpiration, Growth!WeakRules
<1>6. Growth!PublicGrants(db) = Growth!PublicGrants(start)
  <2>1. \A t \in Growth!Tables :
          db.tables[t].public = start.tables[t].public /\ (Growth!ColumnsShown(t, db) <=> Growth!ColumnsShown(t, start))
    BY DEF GrowthSince, Growth!ColumnsShown
  <2>. QED
    BY <2>1 DEF Growth!PublicGrants
<1>7. /\ Growth!PasswordEncryption(db) \subseteq {<<"hashing">>} /\ Growth!SslSetting(db) \subseteq {<<"no-ssl">>}
      /\ Growth!AuditTrail(db) \subseteq {<<"no-trail">>}
  BY DEF Growth!PasswordEncryption, Growth!SslSetting, Growth!AuditTrail
<1>8. ASSUME NEW answer \in {Growth!TenantColumnsWithoutRls(db), Growth!WithoutPolicies(db), Growth!WithoutForce(db),
                             Growth!UndocumentedPii(db)}
      PROVE  answer \subseteq {"no-rls", "no-policy", "not-forced", "undocumented"} \X Growth!Tables
  BY <1>8 DEF Growth!TenantColumnsWithoutRls, Growth!WithoutPolicies, Growth!WithoutForce, Growth!UndocumentedPii, Growth!Plain
<1>9. ASSUME NEW answer \in {Growth!TenantColumnsWithoutRls(db), Growth!WithoutPolicies(db), Growth!WithoutForce(db),
                             Growth!UndocumentedPii(db)}
      PROVE  answer \subseteq Growth!Findings
  BY <1>1, <1>8, <1>9
<1>. QED
  BY <1>1, <1>2, <1>3, <1>4, <1>5, <1>6, <1>7, <1>9

\* Whatever is asked and answered is a finding, or an exception with a reason.
LEMMA GrowthAnswer ==
    ASSUME NEW start \in GrowthStarts, NEW slug \in GrowthLoop!Slugs, NEW then, NEW now, GrowthSince(start, now),
           NEW i \in DOMAIN Growth!Queries(slug, then),
           NEW answer \in Growth!Answers(slug, Growth!Queries(slug, then)[i], now)
    PROVE  \/ answer \subseteq Growth!Findings
           \/ /\ answer = Raised
              /\ \/ slug = "slow-queries" /\ then.extension /\ Growth!ViewRaises(now)
                 \/ slug = "largest-tables" /\ Growth!SizesRaise(now)
                 \/ slug = "authentication-method-strength" /\ Growth!HbaReadable(then) /\ Growth!HbaRaises(now)
<1>. DEFINE query == Growth!Queries(slug, then)[i]
<1>1. CASE slug = "slow-queries"
  <2>1. CASE then.extension
    <3>1. Growth!Queries(slug, then) = <<"slow-queries">>
      BY <1>1, <2>1, GrowthQueries, Zenon
    <3>2. query = "slow-queries"
      BY <3>1
    <3>3. answer \in IF Growth!ViewRaises(now) THEN {Raised} ELSE Growth!SlowQueries(now)
      BY <3>2, GrowthAnswers
    <3>. QED
      BY <1>1, <2>1, <3>3, GrowthWithin
  <2>2. CASE ~then.extension
    <3>1. Growth!Queries(slug, then) = <<"not-assessed">>
      BY <1>1, <2>2, GrowthQueries, Zenon
    <3>2. query = "not-assessed"
      BY <3>1
    <3>. QED
      BY <3>2, GrowthAnswers, GrowthWithin
  <2>. QED
    BY <2>1, <2>2
<1>2. CASE slug = "authentication-method-strength"
  <2>1. CASE Growth!HbaReadable(then)
    <3>1. Growth!Queries(slug, then) = <<"rules", "encryption">>
      BY <1>2, <2>1, GrowthQueries, Zenon
    <3>2. CASE query = "rules"
      <4>1. answer = IF Growth!HbaRaises(now) THEN Raised ELSE Growth!WeakRules(now)
        BY <3>2, GrowthAnswers
      <4>. QED
        BY <1>2, <2>1, <4>1, GrowthWithin
    <3>3. CASE query = "encryption"
      BY <3>3, GrowthAnswers, GrowthWithin
    <3>. QED
      BY <3>1, <3>2, <3>3
  <2>2. CASE ~Growth!HbaReadable(then)
    <3>1. Growth!Queries(slug, then) = <<"not-assessed", "encryption">>
      BY <1>2, <2>2, GrowthQueries, Zenon
    <3>2. CASE query = "not-assessed"
      BY <3>2, GrowthAnswers, GrowthWithin
    <3>3. CASE query = "encryption"
      BY <3>3, GrowthAnswers, GrowthWithin
    <3>. QED
      BY <3>1, <3>2, <3>3
  <2>. QED
    BY <2>1, <2>2
<1>3. CASE slug = "largest-tables"
  <2>1. Growth!Queries(slug, then) = <<slug>>
    BY <1>3, GrowthQueries
  <2>2. query = "largest-tables"
    BY <1>3, <2>1
  <2>3. answer \in IF Growth!SizesRaise(now) THEN {Raised} ELSE Growth!LargestTables(now)
    BY <2>2, GrowthAnswers
  <2>. QED
    BY <1>3, <2>3, GrowthWithin
<1>4. CASE slug \in {"rls-enabled-without-policies", "undocumented-pii-and-ssl"}
  <2>1. query \in {"policies", "force", "undocumented", "ssl", "public"}
    BY <1>4, GrowthQueries
  <2>2. answer \in {Growth!WithoutPolicies(now), Growth!WithoutForce(now), Growth!UndocumentedPii(now),
                    Growth!SslSetting(now), Growth!PublicGrants(now)}
    BY <2>1, GrowthPlainAnswers
  <2>. QED
    BY <2>2, GrowthWithin
<1>5. CASE slug \in {"tenant-columns-without-rls", "login-superuser-roles", "audit-trail-availability",
                     "superuser-roles-without-expiration"}
  <2>1. Growth!Queries(slug, then) = <<slug>>
    BY <1>5, GrowthQueries
  <2>2. query = slug
    BY <2>1
  <2>3. answer \in {Growth!TenantColumnsWithoutRls(now), Growth!LoginSuperuserRoles(now), Growth!AuditTrail(now),
                    Growth!SuperusersWithoutExpiration(now)}
    BY <1>5, <2>2, GrowthPlainAnswers
  <2>. QED
    BY <2>3, GrowthWithin
<1>6. slug \in {"slow-queries", "largest-tables", "tenant-columns-without-rls",
                "login-superuser-roles", "rls-enabled-without-policies", "undocumented-pii-and-ssl",
                "audit-trail-availability", "superuser-roles-without-expiration", "authentication-method-strength"}
  BY GrowthChecks
<1>. QED
  BY <1>1, <1>2, <1>3, <1>4, <1>5, <1>6

\* A check that was lost asked for what raised.
LEMMA GrowthLost ==
    ASSUME GrowthInv, NEW slug \in GrowthLoop!Slugs, found[slug] = Raised
    PROVE  \E then, now \in GrowthLoop!Moments :
              \/ slug = "slow-queries" /\ then.extension /\ Growth!ViewRaises(now)
              \/ slug = "largest-tables" /\ Growth!SizesRaise(now)
              \/ slug = "authentication-method-strength" /\ Growth!HbaReadable(then) /\ Growth!HbaRaises(now)
<1>0. PICK start \in GrowthStarts : \A db \in GrowthLoop!Moments : GrowthSince(start, db)
  BY DEF GrowthInv
<1>1. GrowthLoop!Explained(slug)
  BY GrowthLoop!EndedIsExplained, GrowthChecks, OutcomesAssumption DEF GrowthInv
<1>2. ~(Raised \subseteq Growth!Findings)
  BY OutcomesAssumption
<1>3. ~GrowthLoop!Complete(slug)
  <2>1. ASSUME NEW then \in GrowthLoop!Moments PROVE DOMAIN Growth!Queries(slug, then) = 1..Len(Growth!Queries(slug, then))
    <3>1. PICK Q : Growth!Queries(slug, then) \in Seq(Q)
      BY <1>0, <2>1, GrowthListings DEF GrowthLoop!Listings, GrowthSince
    <3>. QED
      BY <3>1
  <2>2. \A then, now \in GrowthLoop!Moments : \A i \in DOMAIN Growth!Queries(slug, then) :
          \A answer \in Growth!Answers(slug, Growth!Queries(slug, then)[i], now) : answer # Raised => answer \subseteq Growth!Findings
    <3>1. SUFFICES ASSUME NEW then \in GrowthLoop!Moments, NEW now \in GrowthLoop!Moments,
                          NEW i \in DOMAIN Growth!Queries(slug, then),
                          NEW answer \in Growth!Answers(slug, Growth!Queries(slug, then)[i], now)
                   PROVE  answer # Raised => answer \subseteq Growth!Findings
      BY Zenon
    <3>2. GrowthSince(start, now)
      BY <1>0
    <3>. QED
      BY <1>2, <3>1, <3>2, GrowthAnswer
  <2>3. \A then, now \in GrowthLoop!Moments : \A i \in 1..Len(Growth!Queries(slug, then)) :
          \A answer \in Growth!Answers(slug, Growth!Queries(slug, then)[i], now) : answer # Raised => answer \subseteq Growth!Findings
    BY <2>1, <2>2
  <2>4. GrowthLoop!Complete(slug) => found[slug] \subseteq Growth!Findings
    BY <2>3, GrowthLoop!CompleteWithin
  <2>. QED
    BY <1>2, <2>4
<1>4. PICK then, now \in GrowthLoop!Moments : \E i \in DOMAIN Growth!Queries(slug, then) :
        Raised \in Growth!Answers(slug, Growth!Queries(slug, then)[i], now)
  BY <1>1, <1>3 DEF GrowthLoop!Explained, GrowthLoop!MayRaise
<1>5. PICK i \in DOMAIN Growth!Queries(slug, then) : Raised \in Growth!Answers(slug, Growth!Queries(slug, then)[i], now)
  BY <1>4
<1>. QED
  BY <1>0, <1>2, <1>4, <1>5, GrowthAnswer

\* The slow statements are told of as pg_stat_statements was met.
LEMMA GrowthProbe ==
    ASSUME GrowthInv, found["slow-queries"] # Pending
    PROVE  Growth!ProbedHonestly(found["slow-queries"], Raised, GrowthLoop!Moments)
<1>. DEFINE slug == "slow-queries"
<1>0. PICK start \in GrowthStarts : \A db \in GrowthLoop!Moments : GrowthSince(start, db)
  BY DEF GrowthInv
<1>1. slug \in GrowthLoop!Slugs
  BY GrowthChecks
<1>2. \A db \in GrowthLoop!Moments : DOMAIN Growth!Queries(slug, db) = {1} /\ Len(Growth!Queries(slug, db)) = 1
  BY GrowthQueries
<1>3. PICK then, now \in GrowthLoop!Moments : found[slug] \in Growth!Answers(slug, Growth!Queries(slug, then)[1], now)
  BY <1>1, <1>2, GrowthLoop!ByOneQuery, GrowthChecks DEF GrowthInv
<1>4. Raised # {<<"not-assessed">>} /\ \A answer \in Growth!SlowQueries(now) : answer # Raised /\ answer # {<<"not-assessed">>}
  BY <1>0, GrowthWithin, OutcomesAssumption
<1>5. CASE then.extension
  <2>1. Growth!Queries(slug, then) = <<"slow-queries">>
    BY <1>5, GrowthQueries, Zenon
  <2>2. found[slug] \in IF Growth!ViewRaises(now) THEN {Raised} ELSE Growth!SlowQueries(now)
    BY <1>3, <2>1, GrowthAnswers
  <2>. QED
    BY <1>4, <1>5, <2>2 DEF Growth!ProbedHonestly, Growth!ViewRaises
<1>6. CASE ~then.extension
  <2>1. Growth!Queries(slug, then) = <<"not-assessed">>
    BY <1>6, GrowthQueries, Zenon
  <2>2. found[slug] = {<<"not-assessed">>}
    BY <1>3, <2>1, GrowthAnswers
  <2>. QED
    BY <1>4, <1>6, <2>2 DEF Growth!ProbedHonestly
<1>. QED
  BY <1>5, <1>6

\* The rules are told of as they could be read.
LEMMA GrowthRules ==
    ASSUME GrowthInv, GrowthLoop!Told("authentication-method-strength")
    PROVE  LET findings == found["authentication-method-strength"] IN
           /\ \E db \in GrowthLoop!Moments : db.hbaPrivileges # {"view"}
           /\ <<"not-assessed">> \in findings => \E db \in GrowthLoop!Moments : ~Growth!HbaReadable(db)
           /\ (\A db \in GrowthLoop!Moments : ~Growth!HbaReadable(db)) => <<"not-assessed">> \in findings
<1>. DEFINE slug == "authentication-method-strength"
<1>1. slug \in GrowthLoop!Slugs
  BY GrowthChecks
<1>2. \A db \in GrowthLoop!Moments : Len(Growth!Queries(slug, db)) = 2
  BY GrowthQueries
<1>3. PICK then, m, n \in GrowthLoop!Moments :
        \E a \in Growth!Answers(slug, Growth!Queries(slug, then)[1], m), b \in Growth!Answers(slug, Growth!Queries(slug, then)[2], n) :
           a # Raised /\ b # Raised /\ found[slug] = a \cup b
  <2>1. GrowthLoop!LoopInv /\ GrowthLoop!Distinct /\ GrowthLoop!Told(slug)
    BY GrowthChecks DEF GrowthInv
  <2>. HIDE DEF slug
  <2>. QED
    BY <1>1, <1>2, <2>1, GrowthLoop!ToldByTwoQueries
<1>4. PICK a \in Growth!Answers(slug, Growth!Queries(slug, then)[1], m), b \in Growth!Answers(slug, Growth!Queries(slug, then)[2], n) :
        a # Raised /\ found[slug] = a \cup b
  BY <1>3
<1>5. CASE Growth!HbaReadable(then)
  <2>1. Growth!Queries(slug, then) = <<"rules", "encryption">>
    BY <1>5, GrowthQueries, Zenon
  <2>2. a = IF Growth!HbaRaises(m) THEN Raised ELSE Growth!WeakRules(m)
    BY <1>4, <2>1, GrowthAnswers
  <2>3. b = Growth!PasswordEncryption(n)
    BY <1>4, <2>1, GrowthAnswers
  <2>4. ~Growth!HbaRaises(m) /\ a = Growth!WeakRules(m)
    BY <1>4, <2>2
  <2>5. m.hbaPrivileges # {"view"}
    BY <2>4 DEF Growth!HbaRaises
  <2>6. <<"not-assessed">> \notin found[slug]
    BY <1>4, <2>3, <2>4 DEF Growth!WeakRules, Growth!PasswordEncryption
  <2>. QED
    BY <1>5, <2>5, <2>6
<1>6. CASE ~Growth!HbaReadable(then)
  <2>1. Growth!Queries(slug, then) = <<"not-assessed", "encryption">>
    BY <1>6, GrowthQueries, Zenon
  <2>2. a = {<<"not-assessed">>}
    BY <1>4, <2>1, GrowthAnswers
  <2>3. then.hbaPrivileges # {"view"}
    BY <1>6 DEF Growth!HbaReadable
  <2>. QED
    BY <1>4, <1>6, <2>2, <2>3
<1>. QED
  BY <1>5, <1>6

\* A check is lost to what it reads only, and what cannot be read is said to be unread.
LEMMA GrowthSources == ASSUME GrowthInv PROVE Growth!GrowthIsLostToItsSources
<1>1. "authentication-method-strength" \in GrowthLoop!Slugs
  BY GrowthChecks
<1>2. ASSUME found["authentication-method-strength"] = Raised
      PROVE  \E db \in GrowthLoop!Moments : Growth!HbaReadable(db) /\ \E later \in GrowthLoop!Moments : Growth!HbaRaises(later)
  BY <1>1, <1>2, GrowthLost
<1>3. ASSUME NEW slug \in GrowthLoop!Slugs, found[slug] = Raised
      PROVE  \/ slug \in {"slow-queries", "authentication-method-strength"}
             \/ slug = "largest-tables" /\ \E db \in GrowthLoop!Moments : db.locked # {}
  BY <1>3, GrowthLost DEF Growth!SizesRaise
<1>4. Growth!Slugs = GrowthLoop!Slugs
  BY DEF Growth!Slugs, GrowthLoop!Slugs, Growth!Range, GrowthLoop!Range
<1>. QED
  BY <1>2, <1>3, <1>4, GrowthProbe, GrowthRules, GrowthIsALoop DEF Growth!GrowthIsLostToItsSources

\* The tables that are not isolated, when each of the three queries was made.
LEMMA GrowthWays ==
    ASSUME GrowthInv, Growth!Told("tenant-columns-without-rls"), Growth!Told("rls-enabled-without-policies")
    PROVE  \E asked \in [Growth!Isolation -> GrowthLoop!Moments] : Growth!AllIsolation =
              Growth!TenantColumnsWithoutRls(asked["no-rls"]) \cup Growth!WithoutPolicies(asked["no-policy"])
                 \cup Growth!WithoutForce(asked["not-forced"])
<1>1. PICK m \in GrowthLoop!Moments : found["tenant-columns-without-rls"] = Growth!TenantColumnsWithoutRls(m)
  <2>. DEFINE slug == "tenant-columns-without-rls"
  <2>1. slug \in GrowthLoop!Slugs /\ found[slug] # Pending
    BY GrowthChecks DEF Growth!Told
  <2>2. \A db : Growth!Queries(slug, db) = <<slug>>
    BY GrowthQueries
  <2>3. \A db \in GrowthLoop!Moments : DOMAIN Growth!Queries(slug, db) = {1} /\ Len(Growth!Queries(slug, db)) = 1
    BY <2>2
  <2>4. PICK then, now \in GrowthLoop!Moments : found[slug] \in Growth!Answers(slug, Growth!Queries(slug, then)[1], now)
    BY <2>1, <2>3, GrowthLoop!ByOneQuery, GrowthChecks DEF GrowthInv
  <2>5. Growth!Queries(slug, then)[1] = slug
    BY <2>2
  <2>. QED
    BY <2>4, <2>5, GrowthPlainAnswers
<1>2. PICK n, o \in GrowthLoop!Moments :
        found["rls-enabled-without-policies"] = Growth!WithoutPolicies(n) \cup Growth!WithoutForce(o)
  <2>. DEFINE slug == "rls-enabled-without-policies"
  <2>1. slug \in GrowthLoop!Slugs /\ GrowthLoop!Told(slug) /\ GrowthLoop!LoopInv /\ GrowthLoop!Distinct
    BY GrowthChecks, GrowthIsALoop DEF GrowthInv
  <2>2. \A db : Growth!Queries(slug, db) = <<"policies", "force">>
    BY GrowthQueries
  <2>3. \A db \in GrowthLoop!Moments : Len(Growth!Queries(slug, db)) = 2
    BY <2>2
  <2>. HIDE DEF slug
  <2>4. PICK then, n, o \in GrowthLoop!Moments :
          \E a \in Growth!Answers(slug, Growth!Queries(slug, then)[1], n), b \in Growth!Answers(slug, Growth!Queries(slug, then)[2], o) :
             a # Raised /\ b # Raised /\ found[slug] = a \cup b
    BY <2>1, <2>3, GrowthLoop!ToldByTwoQueries
  <2>5. Growth!Queries(slug, then)[1] = "policies" /\ Growth!Queries(slug, then)[2] = "force"
    BY <2>2
  <2>6. found[slug] = Growth!WithoutPolicies(n) \cup Growth!WithoutForce(o)
    BY <2>4, <2>5, GrowthPlainAnswers
  <2>. QED
    BY <2>6 DEF slug
<1>. DEFINE asked == [way \in Growth!Isolation |-> IF way = "no-rls" THEN m ELSE IF way = "no-policy" THEN n ELSE o]
<1>3. /\ asked \in [Growth!Isolation -> GrowthLoop!Moments]
      /\ asked["no-rls"] = m /\ asked["no-policy"] = n /\ asked["not-forced"] = o
  BY DEF Growth!Isolation
<1>. HIDE DEF asked
<1>. QED
  BY <1>1, <1>2, <1>3 DEF Growth!AllIsolation

\* A table is told for a way at some moment its, for one way at each, and for the
\* way it is not isolated in all the time.
LEMMA GrowthIsolation == ASSUME GrowthInv, IsFiniteSet(past) PROVE Growth!IsolationIsExhaustive
<1>1. SUFFICES ASSUME Growth!Told("tenant-columns-without-rls"), Growth!Told("rls-enabled-without-policies"),
                      NEW t \in Growth!Tables
      PROVE  /\ \A way \in Growth!InTheWay(t) : \E db \in Growth!Moments : Growth!Lacks(t, way, db)
             /\ Growth!Cardinality(Growth!InTheWay(t)) <= Growth!Cardinality(Growth!Moments)
             /\ t \in Growth!Plain /\ TableDef[t].tenant /\ (\A db \in Growth!Moments : Growth!ColumnsShown(t, db)) =>
                   \A way \in Growth!Isolation : (\A db \in Growth!Moments : Growth!Lacks(t, way, db)) => way \in Growth!InTheWay(t)
  BY DEF Growth!IsolationIsExhaustive
<1>2. PICK asked \in [Growth!Isolation -> Growth!Moments] : Growth!AllIsolation =
              Growth!TenantColumnsWithoutRls(asked["no-rls"]) \cup Growth!WithoutPolicies(asked["no-policy"])
                 \cup Growth!WithoutForce(asked["not-forced"])
  BY <1>1, GrowthWays, GrowthIsALoop
<1>3. \A db : /\ Growth!Lacks(t, "no-rls", db) <=> ~db.tables[t].rls
              /\ Growth!Lacks(t, "no-policy", db) <=> db.tables[t].rls /\ ~db.tables[t].policies
              /\ Growth!Lacks(t, "not-forced", db) <=> db.tables[t].rls /\ db.tables[t].policies /\ ~db.tables[t].forced
  BY Zenon DEF Growth!Lacks
<1>4. /\ <<"no-rls", t>> \in Growth!AllIsolation <=> <<"no-rls", t>> \in Growth!TenantColumnsWithoutRls(asked["no-rls"])
      /\ <<"no-policy", t>> \in Growth!AllIsolation <=> <<"no-policy", t>> \in Growth!WithoutPolicies(asked["no-policy"])
      /\ <<"not-forced", t>> \in Growth!AllIsolation <=> <<"not-forced", t>> \in Growth!WithoutForce(asked["not-forced"])
  BY <1>2 DEF Growth!TenantColumnsWithoutRls, Growth!WithoutPolicies, Growth!WithoutForce
<1>5. /\ <<"no-rls", t>> \in Growth!AllIsolation <=>
            t \in Growth!Plain /\ TableDef[t].tenant /\ Growth!ColumnsShown(t, asked["no-rls"]) /\ Growth!Lacks(t, "no-rls", asked["no-rls"])
      /\ <<"no-policy", t>> \in Growth!AllIsolation <=> t \in Growth!Plain /\ Growth!Lacks(t, "no-policy", asked["no-policy"])
      /\ <<"not-forced", t>> \in Growth!AllIsolation <=> t \in Growth!Plain /\ Growth!Lacks(t, "not-forced", asked["not-forced"])
  BY <1>3, <1>4 DEF Growth!TenantColumnsWithoutRls, Growth!WithoutPolicies, Growth!WithoutForce
<1>6. Growth!InTheWay(t) \subseteq Growth!Isolation /\ \A way \in Growth!InTheWay(t) : Growth!Lacks(t, way, asked[way])
  BY <1>5 DEF Growth!InTheWay, Growth!Isolation
<1>7. Growth!Cardinality(Growth!InTheWay(t)) <= Growth!Cardinality(Growth!Moments)
  <2>. DEFINE met == [way \in Growth!InTheWay(t) |-> asked[way]]
  <2>1. \A way, other \in Growth!InTheWay(t) : asked[way] = asked[other] => way = other
    BY <1>3, <1>6 DEF Growth!Isolation
  <2>2. met \in Injection(Growth!InTheWay(t), Growth!Moments)
    BY <1>6, <2>1 DEF Injection, IsInjective
  <2>3. IsFiniteSet(Growth!Moments)
    BY FS_AddElement DEF Growth!Moments
  <2>4. Cardinality(Growth!InTheWay(t)) <= Cardinality(Growth!Moments)
    BY <2>2, <2>3, FS_Injection
  <2>5. \A S : Growth!Cardinality(S) = Cardinality(S)
    BY DEF Growth!Cardinality, Cardinality
  <2>. QED
    BY <2>4, <2>5
<1>8. ASSUME t \in Growth!Plain, TableDef[t].tenant, \A db \in Growth!Moments : Growth!ColumnsShown(t, db),
             NEW way \in Growth!Isolation, \A db \in Growth!Moments : Growth!Lacks(t, way, db)
      PROVE  way \in Growth!InTheWay(t)
  BY <1>5, <1>8 DEF Growth!InTheWay, Growth!Isolation
<1>. QED
  BY <1>6, <1>7, <1>8
==============================================================================
