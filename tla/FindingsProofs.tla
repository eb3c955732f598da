--------------------------- MODULE FindingsProofs ---------------------------
(***************************************************************************)
(* The findings of a report are what they say they are: sampled rows and   *)
(* tables (RowSampling), duplicates and their fingerprints (Fingerprint),  *)
(* indexes (IndexingStrategy), the sections of the report that show them   *)
(* (ReportRender), and the slugs and ids they are filed under (Registry).  *)
(* The modules share no names; what is proved of sequences serves          *)
(* fingerprints and rendering.                                             *)
(***************************************************************************)
EXTENDS RowSampling, IndexingStrategy, Fingerprint, ReportRender, Registry, Integers,
        SequenceTheorems, WellFoundedInduction, FiniteSetTheorems, TLAPS

-----------------------------------------------------------------------------
(* Row sampling.                                                           *)

\* Rows are counted; a constraint once validated holds, since PostgreSQL enforces
\* it for every later write.
RowsInv ==
    /\ parents \subseteq Keys
    /\ children \in [Constraints -> [Keys \cup {Null} -> 0..MaxRows]]
    /\ state \in [Constraints -> {"absent", "not valid", "valid", "dropped"}]
    /\ \A fk \in Constraints : state[fk] = "valid" => OrphanedRows(fk) = {}

\* The checks come one after the other.
Positions ==
    /\ next \in Nat
    /\ details # Pending => details \subseteq DOMAIN ForeignKeys
    /\ empties \in {Pending, Listed} => unvalidated = Pending
    /\ unvalidated = Pending => details = Pending
    /\ details = Pending => next = 1 /\ orphaned = {}

\* What the orphan check has found was there when it looked.
Witnessed ==
    orphaned # Raised =>
        \A f \in orphaned : \E now \in there :
            /\ now.fk = f.fk /\ now.really >= f.count /\ now.state # "valid"
            /\ ~f.atLeast => now.really = f.count

\* The positions already sampled whose tables had orphans.
SampledWithOrphans == {k \in details : k < next /\ OrphanedRows(ForeignKeys[k]) # {}}

\* In a database that holds still the listings are what they would be now, and
\* what has been found is what there is at the positions already sampled.
SamplingCurrent ==
    steady =>
        /\ unvalidated # Pending => unvalidated = Unvalidated
        /\ details # Pending => details = UnvalidatedDetail
        /\ details # Pending /\ orphaned # Raised =>
              {f.fk : f \in orphaned} = {ForeignKeys[k] : k \in SampledWithOrphans}

\* The document check's table is there while it is to be sampled.
DocumentsInv ==
    /\ documents \in [total : Nat, empty : Nat, dropped : BOOLEAN]
    /\ documents.empty <= documents.total
    /\ documents.dropped => documents.total = 0
    /\ steady /\ empties = Listed => ~documents.dropped
    /\ steady /\ empties \notin {Pending, Listed} =>
          /\ empties # Raised
          /\ \A s \in empties : 100 * s.empty >= s.size /\ s.size >= MinJsonbSample /\ documents.empty >= s.empty
          /\ documents.total >= MinJsonbSample /\ documents.empty = documents.total => empties # {}

SamplingIInv == RowsInv /\ Positions /\ Witnessed /\ SamplingCurrent /\ DocumentsInv

-----------------------------------------------------------------------------
(* Rows and positions.                                                     *)

\* A row and its value, and how many there are of one value.
LEMMA RowsAre ==
    ASSUME RowsInv
    PROVE  /\ \A fk \in Constraints : \A v \in Keys \cup {Null} : children[fk][v] \in 0..MaxRows
           /\ IsFiniteSet(Keys \X (1..MaxRows))
<1>1. IsFiniteSet(Keys) /\ IsFiniteSet(1..MaxRows)
  BY LoadsAssumption, FS_Interval
<1>2. IsFiniteSet(Keys \X (1..MaxRows))
  BY <1>1, FS_Product
<1>. QED
  BY <1>2 DEF RowsInv

\* Orphans are counted.
LEMMA OrphansAreCounted ==
    ASSUME RowsInv, NEW fk
    PROVE  Orphans(fk) \in Nat /\ (Orphans(fk) = 0 <=> OrphanedRows(fk) = {})
<1>1. IsFiniteSet(Keys \X (1..MaxRows))
  BY RowsAre
<1>2. OrphanedRows(fk) \subseteq Keys \X (1..MaxRows)
  BY DEF OrphanedRows
<1>3. IsFiniteSet(OrphanedRows(fk))
  BY <1>1, <1>2, FS_Subset
<1>. QED
  BY <1>3, FS_CardinalityType, FS_EmptySet DEF Orphans

\* The sample is of the orphans there are, and of none only if there are none.
LEMMA SampleIsOfOrphans ==
    ASSUME RowsInv, NEW fk
    PROVE  /\ OrphanSample(fk) \in Nat /\ OrphanSample(fk) <= Orphans(fk)
           /\ OrphanSample(fk) < OrphanSampleLimit => OrphanSample(fk) = Orphans(fk)
           /\ OrphanSample(fk) = 0 <=> OrphanedRows(fk) = {}
<1>1. Orphans(fk) \in Nat /\ OrphanSampleLimit \in Nat \ {0}
  BY OrphansAreCounted, LimitsAssumption
<1>2. ASSUME NEW x \in Nat, NEW y \in Nat PROVE Min({x, y}) = IF x <= y THEN x ELSE y
  BY <1>2 DEF Min
<1>3. OrphanSample(fk) = IF Orphans(fk) <= OrphanSampleLimit THEN Orphans(fk) ELSE OrphanSampleLimit
  BY <1>1, <1>2 DEF OrphanSample
<1>. QED
  BY <1>1, <1>3, OrphansAreCounted

\* What is left has a first.
LEMMA FirstLeft ==
    ASSUME Positions, Sampling
    PROVE  /\ Min(Left) \in details /\ Min(Left) \in DOMAIN ForeignKeys /\ Min(Left) \in Nat
           /\ next <= Min(Left) /\ \A k \in details : k < Min(Left) + 1 <=> k < next \/ k = Min(Left)
<1>1. details \subseteq DOMAIN ForeignKeys /\ Left # {} /\ next \in Nat /\ details \subseteq Nat /\ Left \subseteq Nat
  BY LoadsAssumption DEF Positions, Sampling, Left
<1>2. PICK first \in Left : \A k \in Left : <<k, first>> \notin OpToRel(<, Nat)
  BY <1>1, NatLessThanWellFounded, WFMin
<1>3. \A k \in Left : ~(k < first)
  <2>1. ASSUME NEW k \in Left, k < first PROVE <<k, first>> \in OpToRel(<, Nat)
    BY <1>1, <2>1 DEF OpToRel
  <2>. QED
    BY <1>2, <2>1
<1>4. \A k \in Left : first <= k
  BY <1>1, <1>3
<1>. DEFINE m == Min(Left)
<1>5. m \in Left /\ \A k \in Left : m <= k
  BY <1>4 DEF Min
<1>. HIDE DEF m
<1>6. m \in details /\ m \in DOMAIN ForeignKeys /\ m \in Nat /\ next <= m
  BY <1>1, <1>5 DEF Left
<1>7. ASSUME NEW k \in details PROVE k < m + 1 <=> k < next \/ k = m
  <2>1. k \in Nat
    BY <1>1
  <2>2. k >= next => m <= k
    BY <1>5 DEF Left
  <2>. QED
    BY <1>1, <1>6, <2>1, <2>2
<1>8. m \in details /\ m \in DOMAIN ForeignKeys /\ m \in Nat
      /\ next <= m /\ \A k \in details : k < m + 1 <=> k < next \/ k = m
  BY <1>6, <1>7
<1>. QED
  BY <1>8 DEF m

-----------------------------------------------------------------------------
(* The client.                                                             *)

\* A step of the client is one of these.
LEMMA ClientCases ==
    ASSUME Client, NEW P,
           DropDocuments => P,
           \A fk \in Constraints :
             /\ \A v \in Keys \cup {Null} : (InsertChild(fk, v) => P) /\ (DeleteChild(fk, v) => P)
             /\ AlterConstraint(fk) => P
             /\ DropTable(fk) => P,
           \A v \in Keys : (AddParent(v) => P) /\ (DeleteParent(v) => P)
    PROVE  P
BY DEF Client

\* The client's writes do not break a validated constraint.
LEMMA ClientKeepsRows == ASSUME RowsInv, Client PROVE RowsInv'
<1>0. /\ parents \subseteq Keys
      /\ children \in [Constraints -> [Keys \cup {Null} -> 0..MaxRows]]
      /\ state \in [Constraints -> {"absent", "not valid", "valid", "dropped"}]
      /\ \A fk \in Constraints : state[fk] = "valid" => OrphanedRows(fk) = {}
  BY DEF RowsInv
<1>a. MaxRows \in Nat /\ Null \notin Keys
  BY LoadsAssumption
<1>b. ASSUME NEW x \in 0..MaxRows PROVE (x < MaxRows => x + 1 \in 0..MaxRows) /\ (x > 0 => x - 1 \in 0..MaxRows)
  BY <1>a, <1>b
<1>r. ASSUME NEW A, NEW r \in A \X (1..MaxRows) PROVE r[1] \in A /\ r[2] \in Int /\ r[2] >= 1
  BY <1>r
<1>1. ASSUME DropDocuments PROVE RowsInv'
  BY <1>1 DEF DropDocuments, OrphanedRows, RowsInv
<1>2. ASSUME NEW fk \in Constraints, NEW v \in Keys \cup {Null}, InsertChild(fk, v) PROVE RowsInv'
  <2>1. /\ parents' = parents /\ state' = state /\ children' = [children EXCEPT ![fk][v] = @ + 1]
        /\ Enforced(fk) => v \in parents \cup {Null}
        /\ children[fk][v] < MaxRows
    BY <1>2 DEF InsertChild
  <2>2. children' \in [Constraints -> [Keys \cup {Null} -> 0..MaxRows]]
    <3>1. children[fk][v] + 1 \in 0..MaxRows
      <4>1. children[fk][v] \in 0..MaxRows
        BY RowsAre
      <4>. QED
        BY <1>b, <2>1, <4>1
    <3>. QED
      BY <1>0, <2>1, <3>1
  <2>3. ASSUME NEW other \in Constraints, state[other] = "valid" PROVE OrphanedRows(other)' = {}
    <3>1. \A w \in Keys \ parents : children'[other][w] = children[other][w]
      <4>1. CASE other = fk
        <5>1. v \in parents \cup {Null}
          BY <2>1, <2>3, <4>1 DEF Enforced
        <5>2. \A w \in Keys \ parents : w # v
          BY <5>1, <1>a
        <5>. QED
          BY <1>0, <2>1, <4>1, <5>2
      <4>2. CASE other # fk
        BY <1>0, <2>1, <4>2
      <4>. QED
        BY <4>1, <4>2
    <3>2. OrphanedRows(other)' = OrphanedRows(other)
      BY <2>1, <3>1 DEF OrphanedRows
    <3>. QED
      BY <1>0, <2>3, <3>2
  <2>. QED
    BY <1>0, <2>1, <2>2, <2>3 DEF RowsInv
<1>3. ASSUME NEW fk \in Constraints, NEW v \in Keys \cup {Null}, DeleteChild(fk, v) PROVE RowsInv'
  <2>1. /\ parents' = parents /\ state' = state /\ children' = [children EXCEPT ![fk][v] = @ - 1]
        /\ children[fk][v] > 0
    BY <1>3 DEF DeleteChild
  <2>2. children' \in [Constraints -> [Keys \cup {Null} -> 0..MaxRows]]
    <3>1. children[fk][v] - 1 \in 0..MaxRows
      <4>1. children[fk][v] \in 0..MaxRows
        BY RowsAre
      <4>. QED
        BY <1>b, <2>1, <4>1
    <3>. QED
      BY <1>0, <2>1, <3>1
  <2>3. ASSUME NEW other \in Constraints, NEW w \in Keys 
        PROVE  /\ children'[other][w] \in Int /\ children[other][w] \in Int
               /\ children'[other][w] <= children[other][w]
    <3>1. children[other][w] \in Int /\ children[fk][v] \in Int
      BY RowsAre
    <3>2. children'[other][w] = IF other = fk /\ w = v THEN children[fk][v] - 1 ELSE children[other][w]
      BY <1>0, <2>1
    <3>. QED
      BY <3>1, <3>2
  <2>4. ASSUME NEW other \in Constraints PROVE OrphanedRows(other)' \subseteq OrphanedRows(other)
    <3>1. ASSUME NEW r \in (Keys \ parents) \X (1..MaxRows), r[2] <= children'[other][r[1]]
          PROVE  r[2] <= children[other][r[1]]
      <4>1. r[1] \in Keys /\ r[2] \in Int
        BY <1>r
      <4>. QED
        BY <2>3, <3>1, <4>1
    <3>2. OrphanedRows(other)' = {r \in (Keys \ parents) \X (1..MaxRows) : r[2] <= children'[other][r[1]]}
      BY <2>1 DEF OrphanedRows
    <3>. QED
      BY <3>1, <3>2 DEF OrphanedRows
  <2>. QED
    BY <1>0, <2>1, <2>2, <2>4 DEF RowsInv
<1>4. ASSUME NEW fk \in Constraints, AlterConstraint(fk) PROVE RowsInv'
  <2>1. parents' = parents /\ children' = children
    BY <1>4 DEF AlterConstraint
  <2>2. \A other \in Constraints : OrphanedRows(other)' = OrphanedRows(other)
    BY <2>1 DEF OrphanedRows
  <2>3. \/ state' = [state EXCEPT ![fk] = "not valid"]
        \/ Orphans(fk) = 0 /\ state' = [state EXCEPT ![fk] = "valid"]
        \/ state' = [state EXCEPT ![fk] = "absent"]
    BY <1>4 DEF AlterConstraint
  <2>4. Orphans(fk) = 0 => OrphanedRows(fk) = {}
    BY OrphansAreCounted
  <2>. QED
    BY <1>0, <2>1, <2>2, <2>3, <2>4 DEF RowsInv
<1>5. ASSUME NEW fk \in Constraints, DropTable(fk) PROVE RowsInv'
  <2>1. /\ parents' = parents /\ state' = [state EXCEPT ![fk] = "dropped"]
        /\ children' = [children EXCEPT ![fk] = [v \in DOMAIN @ |-> 0]]
    BY <1>5 DEF DropTable
  <2>2. children' \in [Constraints -> [Keys \cup {Null} -> 0..MaxRows]]
    <3>a. children[fk] \in [Keys \cup {Null} -> 0..MaxRows]
      BY <1>0
    <3>b. DOMAIN children[fk] = Keys \cup {Null}
      BY <3>a
    <3>c. 0 \in 0..MaxRows
      BY <1>a
    <3>1. 0 \in 0..MaxRows /\ DOMAIN children[fk] = Keys \cup {Null}
      BY <3>b, <3>c
    <3>2. [v \in DOMAIN children[fk] |-> 0] \in [Keys \cup {Null} -> 0..MaxRows]
      BY <3>1
    <3>. QED
      BY <1>0, <2>1, <3>2
  <2>3. ASSUME NEW other \in Constraints, state'[other] = "valid" PROVE OrphanedRows(other)' = {}
    <3>1. other # fk /\ state[other] = "valid" /\ children'[other] = children[other]
      BY <1>0, <2>1, <2>3
    <3>. QED
      BY <1>0, <2>1, <3>1 DEF OrphanedRows
  <2>. QED
    BY <1>0, <2>1, <2>2, <2>3 DEF RowsInv
<1>6. ASSUME NEW v \in Keys, AddParent(v) PROVE RowsInv'
  <2>1. parents' = parents \cup {v} /\ state' = state /\ children' = children
    BY <1>6 DEF AddParent
  <2>2. \A other \in Constraints : OrphanedRows(other)' \subseteq OrphanedRows(other)
    BY <2>1 DEF OrphanedRows
  <2>. QED
    BY <1>0, <2>1, <2>2 DEF RowsInv
<1>7. ASSUME NEW v \in Keys, DeleteParent(v) PROVE RowsInv'
  <2>1. /\ parents' = parents \ {v} /\ state' = state /\ children' = children
        /\ \A fk \in Constraints : Enforced(fk) => children[fk][v] = 0
    BY <1>7 DEF DeleteParent
  <2>2. ASSUME NEW other \in Constraints, state[other] = "valid" PROVE OrphanedRows(other)' = {}
    <3>1. children[other][v] = 0
      BY <2>1, <2>2 DEF Enforced
    <3>2. ASSUME NEW r \in (Keys \ (parents \ {v})) \X (1..MaxRows), r[2] <= children[other][r[1]]
          PROVE  r \in (Keys \ parents) \X (1..MaxRows)
      <4>1. r[1] # v
        BY <1>r, <3>1, <3>2
      <4>. QED
        BY <4>1
    <3>3. OrphanedRows(other)' = {r \in (Keys \ (parents \ {v})) \X (1..MaxRows) : r[2] <= children[other][r[1]]}
      BY <2>1 DEF OrphanedRows
    <3>4. OrphanedRows(other)' \subseteq OrphanedRows(other)
      BY <3>2, <3>3 DEF OrphanedRows
    <3>. QED
      BY <1>0, <2>2, <3>4
  <2>. QED
    BY <1>0, <2>1, <2>2 DEF RowsInv
<1>. QED
  BY <1>1, <1>2, <1>3, <1>4, <1>5, <1>6, <1>7 DEF Client

\* Whatever the client does, no check is at work, and the database has held still
\* only if none has begun.
LEMMA ClientIsElsewhere ==
    ASSUME Client
    PROVE  UNCHANGED <<empties, unvalidated, details, next, orphaned, there>> /\ steady' = (empties = Pending)
BY DEF Client, DropDocuments, InsertChild, DeleteChild, AlterConstraint, DropTable, AddParent, DeleteParent, Change

\* Documents only go away with their table.
LEMMA ClientKeepsDocuments ==
    ASSUME Client
    PROVE  documents' = documents \/ documents' = [total |-> 0, empty |-> 0, dropped |-> TRUE]
BY DEF Client, DropDocuments, InsertChild, DeleteChild, AlterConstraint, DropTable, AddParent, DeleteParent

-----------------------------------------------------------------------------
(* The invariant.                                                          *)

\* A client begins with a database, and nothing is checked yet.
LEMMA SamplingInitIInv == ASSUME SamplingInit PROVE SamplingIInv
<1>1. /\ parents \subseteq Keys /\ children \in [Constraints -> [Keys \cup {Null} -> 0..MaxRows]]
      /\ state \in [Constraints -> {"absent", "not valid", "valid", "dropped"}]
  BY LoadsAssumption DEF SamplingInit
<1>2. \A fk : IsFiniteSet(OrphanedRows(fk))
  <2>1. IsFiniteSet(Keys \X (1..MaxRows))
    <3>1. IsFiniteSet(Keys) /\ IsFiniteSet(1..MaxRows)
      BY LoadsAssumption, FS_Interval
    <3>. QED
      BY <3>1, FS_Product
  <2>2. \A fk : OrphanedRows(fk) \subseteq Keys \X (1..MaxRows)
    BY DEF OrphanedRows
  <2>. QED
    BY <2>1, <2>2, FS_Subset
<1>3. \A fk \in Constraints : state[fk] = "valid" => OrphanedRows(fk) = {}
  BY <1>2, FS_EmptySet DEF SamplingInit, Orphans
<1>4. RowsInv
  BY <1>1, <1>3 DEF RowsInv
<1>5. DocumentsInv
  BY DocumentsAssumption DEF SamplingInit, DocumentsInv
<1>. QED
  BY <1>4, <1>5 DEF SamplingInit, SamplingIInv, Positions, Witnessed, SamplingCurrent

\* The client leaves what was found alone, and the database then no longer holds still.
LEMMA SamplingClientStep == ASSUME SamplingIInv, Client PROVE SamplingIInv'
<1>1. RowsInv'
  BY ClientKeepsRows DEF SamplingIInv
<1>2. Positions' /\ Witnessed'
  BY ClientIsElsewhere DEF SamplingIInv, Positions, Witnessed
<1>3. SamplingCurrent'
  BY ClientIsElsewhere DEF SamplingIInv, Positions, SamplingCurrent
<1>4. DocumentsInv'
  <2>1. /\ empties' = empties /\ steady' = (empties = Pending)
        /\ documents' = documents \/ documents' = [total |-> 0, empty |-> 0, dropped |-> TRUE]
    BY ClientIsElsewhere, ClientKeepsDocuments
  <2>2. /\ documents' \in [total : Nat, empty : Nat, dropped : BOOLEAN]
        /\ documents'.empty <= documents'.total
        /\ documents'.dropped => documents'.total = 0
    <3>1. /\ documents \in [total : Nat, empty : Nat, dropped : BOOLEAN]
          /\ documents.empty <= documents.total
          /\ documents.dropped => documents.total = 0
      BY DEF SamplingIInv, DocumentsInv
    <3>2. CASE documents' = documents
      BY <3>1, <3>2
    <3>3. CASE documents' = [total |-> 0, empty |-> 0, dropped |-> TRUE]
      BY <3>3
    <3>. QED
      BY <2>1, <3>2, <3>3
  <2>3. steady' => empties' = Pending /\ empties' # Listed
    BY <2>1, OutcomesAssumption
  <2>. QED
    BY <2>2, <2>3 DEF DocumentsInv
<1>. QED
  BY <1>1, <1>2, <1>3, <1>4 DEF SamplingIInv

\* 06.02 reports what its sample is of.
LEMMA JsonbStep == ASSUME SamplingIInv, CheckMalformedJsonbEntries PROVE SamplingIInv'
<1>1. UNCHANGED <<database, unvalidated, details, next, orphaned, steady, there>> /\ empties \in {Pending, Listed}
  BY DEF CheckMalformedJsonbEntries, ListJsonbColumns, SampleJsonb, JsonbSampleFails
<1>2. RowsInv' /\ Witnessed'
  BY <1>1 DEF SamplingIInv, RowsInv, Witnessed, OrphanedRows, database
<1>3. Positions' /\ SamplingCurrent'
  BY <1>1 DEF SamplingIInv, Positions, SamplingCurrent, database
<1>4. DocumentsInv'
  <2>1. documents' = documents /\ steady' = steady
    BY <1>1 DEF database
  <2>2. CASE ListJsonbColumns
    BY <2>1, <2>2, OutcomesAssumption, LimitsAssumption DEF ListJsonbColumns, SamplingIInv, DocumentsInv
  <2>3. CASE SampleJsonb
    <3>. DEFINE size == Min({documents.total, JsonbSampleLimit})
    <3>1. documents.total \in Nat /\ documents.empty \in Nat /\ documents.empty <= documents.total
      BY DEF SamplingIInv, DocumentsInv
    <3>2. \A x, y \in Nat : Min({x, y}) = IF x <= y THEN x ELSE y
      BY DEF Min
    <3>3. size \in 0..JsonbSampleLimit /\ size <= documents.total /\ (size = documents.total \/ size = JsonbSampleLimit)
      BY <3>1, <3>2, LimitsAssumption
    <3>4. PICK sample \in JsonbSamples :
            empties' = IF sample.size < MinJsonbSample \/ sample.empty = 0 \/ 100 * sample.empty < sample.size
                       THEN {} ELSE {sample}
      BY <2>3 DEF SampleJsonb
    <3>5. PICK e \in 0..Min({size, documents.empty}) :
            sample = [size |-> size, empty |-> e] /\ size - e <= documents.total - documents.empty
      BY <3>4 DEF JsonbSamples
    <3>6. Min({size, documents.empty}) = IF size <= documents.empty THEN size ELSE documents.empty
      BY <3>1, <3>2, <3>3, LimitsAssumption
    <3>. HIDE DEF size
    <3>7. e \in 0..JsonbSampleLimit /\ e <= size /\ e <= documents.empty /\ sample.size = size /\ sample.empty = e
      BY <3>1, <3>3, <3>5, <3>6, LimitsAssumption
    <3>8. empties' # Raised
      BY <3>3, <3>4, <3>5, <3>7, OutcomesAssumption
    <3>9. \A s \in empties' : 100 * s.empty >= s.size /\ s.size >= MinJsonbSample /\ documents.empty >= s.empty
      BY <3>1, <3>3, <3>4, <3>7, LimitsAssumption
    <3>10. documents.total >= MinJsonbSample /\ documents.empty = documents.total => empties' # {}
      <4>. SUFFICES ASSUME documents.total >= MinJsonbSample, documents.empty = documents.total PROVE empties' # {}
        OBVIOUS
      <4>1. size >= MinJsonbSample /\ e = size /\ size > 0
        BY <3>1, <3>3, <3>5, <3>7, LimitsAssumption
      <4>2. ~(size < MinJsonbSample) /\ e # 0 /\ ~(100 * e < size)
        BY <3>1, <3>3, <4>1, LimitsAssumption
      <4>. QED
        BY <3>4, <3>7, <4>2
    <3>11. documents' \in [total : Nat, empty : Nat, dropped : BOOLEAN] /\ ~documents.dropped
      BY <2>1, <2>3 DEF SamplingIInv, DocumentsInv, SampleJsonb
    <3>. QED
      BY <2>1, <3>1, <3>8, <3>9, <3>10, <3>11 DEF DocumentsInv
  <2>4. CASE JsonbSampleFails
    BY <2>1, <2>4 DEF JsonbSampleFails, SamplingIInv, DocumentsInv
  <2>. QED
    BY <2>2, <2>3, <2>4 DEF CheckMalformedJsonbEntries
<1>. QED
  BY <1>2, <1>3, <1>4 DEF SamplingIInv

\* Both listings are of the constraints as they are.
LEMMA ListingStep == ASSUME SamplingIInv, CheckUnvalidatedForeignKeys \/ ListUnvalidated PROVE SamplingIInv'
<1>1. UNCHANGED <<database, empties, next, orphaned, steady, there>>
  BY DEF CheckUnvalidatedForeignKeys, ListUnvalidated
<1>2. RowsInv' /\ Witnessed' /\ DocumentsInv'
  BY <1>1 DEF SamplingIInv, RowsInv, Witnessed, DocumentsInv, OrphanedRows, database
<1>3. CASE CheckUnvalidatedForeignKeys
  <2>1. /\ empties \notin {Pending, Listed} /\ unvalidated = Pending /\ unvalidated' = Unvalidated /\ details' = details
        /\ Unvalidated' = Unvalidated
    BY <1>1, <1>3 DEF CheckUnvalidatedForeignKeys, Unvalidated, database
  <2>2. details = Pending /\ next = 1 /\ orphaned = {}
    BY <2>1 DEF SamplingIInv, Positions
  <2>3. Positions'
    BY <1>1, <2>1, <2>2 DEF Positions
  <2>4. SamplingCurrent'
    BY <2>1, <2>2 DEF SamplingCurrent
  <2>. QED
    BY <1>2, <2>3, <2>4 DEF SamplingIInv
<1>4. CASE ListUnvalidated
  <2>1. /\ unvalidated # Pending /\ details = Pending /\ details' = UnvalidatedDetail /\ unvalidated' = unvalidated
        /\ UnvalidatedDetail' = UnvalidatedDetail /\ Unvalidated' = Unvalidated
    BY <1>1, <1>4 DEF ListUnvalidated, UnvalidatedDetail, Unvalidated, database
  <2>2. next = 1 /\ orphaned = {}
    BY <2>1 DEF SamplingIInv, Positions
  <2>3. UnvalidatedDetail \subseteq DOMAIN ForeignKeys
    BY DEF UnvalidatedDetail
  <2>4. Positions'
    BY <1>1, <2>1, <2>2, <2>3 DEF SamplingIInv, Positions
  <2>5. SampledWithOrphans' = {}
    <3>1. \A k \in DOMAIN ForeignKeys : ~(k < 1)
      BY LoadsAssumption
    <3>. QED
      BY <1>1, <2>1, <2>2, <2>3, <3>1 DEF SampledWithOrphans
  <2>6. SamplingCurrent'
    BY <1>1, <2>1, <2>2, <2>5 DEF SamplingIInv, SamplingCurrent
  <2>. QED
    BY <1>2, <2>4, <2>6 DEF SamplingIInv
<1>. QED
  BY <1>3, <1>4

\* 06.09 samples one table after the other, or loses all its findings with one.
LEMMA SamplingStep == ASSUME SamplingIInv, SampleOrphans \/ SampleFails PROVE SamplingIInv'
<1>1. UNCHANGED <<database, empties, unvalidated, details, steady>> /\ Sampling
  BY DEF SampleOrphans, SampleFails
<1>2. RowsInv' /\ DocumentsInv'
  BY <1>1 DEF SamplingIInv, RowsInv, DocumentsInv, OrphanedRows, database
<1>3. Unvalidated' = Unvalidated /\ UnvalidatedDetail' = UnvalidatedDetail
  BY <1>1 DEF Unvalidated, UnvalidatedDetail, database
<1>4. CASE SampleOrphans
  <2>. DEFINE first == Min(Left)
              fk == ForeignKeys[first]
              n == OrphanSample(fk)
  <2>1. /\ first \in details /\ first \in DOMAIN ForeignKeys /\ first \in Nat
        /\ next <= first /\ \A k \in details : k < first + 1 <=> k < next \/ k = first
    BY <1>1, FirstLeft DEF SamplingIInv
  <2>2. /\ orphaned' = orphaned \cup (IF n = 0 THEN {} ELSE {Phrase(fk, n)})
        /\ there' = there \cup {[fk |-> fk, really |-> Orphans(fk), state |-> state[fk]]}
        /\ next' = first + 1
    BY <1>4 DEF SampleOrphans
  <2>3. fk \in Constraints
    BY <2>1 DEF Constraints, ToSet
  <2>4. /\ n \in Nat /\ n <= Orphans(fk) /\ (n < OrphanSampleLimit => n = Orphans(fk)) /\ Orphans(fk) \in Nat
        /\ n = 0 <=> OrphanedRows(fk) = {}
    BY SampleIsOfOrphans, OrphansAreCounted DEF SamplingIInv
  <2>5. n # 0 => state[fk] # "valid"
    BY <2>3, <2>4 DEF SamplingIInv, RowsInv
  <2>6. details # Pending /\ orphaned # Raised
    BY <1>1 DEF Sampling
  <2>. HIDE DEF first, fk, n
  <2>7. Phrase(fk, n).fk = fk /\ Phrase(fk, n).count = n /\ (~Phrase(fk, n).atLeast => n < OrphanSampleLimit)
    <3>1. Phrase(fk, n).fk = fk /\ Phrase(fk, n).count = n /\ Phrase(fk, n).atLeast = (n >= OrphanSampleLimit)
      BY DEF Phrase
    <3>2. n >= OrphanSampleLimit \/ n < OrphanSampleLimit
      BY <2>4, LimitsAssumption
    <3>. QED
      BY <3>1, <3>2
  <2>8. Witnessed'
    <3>1. ASSUME NEW f \in orphaned'
          PROVE  \E now \in there' : /\ now.fk = f.fk /\ now.really >= f.count /\ now.state # "valid"
                                     /\ ~f.atLeast => now.really = f.count
      <4>1. CASE f \in orphaned
        BY <2>2, <2>6, <4>1 DEF SamplingIInv, Witnessed
      <4>2. CASE f \notin orphaned
        <5>1. n # 0 /\ f = Phrase(fk, n)
          BY <2>2, <3>1, <4>2
        <5>. DEFINE now == [fk |-> fk, really |-> Orphans(fk), state |-> state[fk]]
        <5>2. now \in there' /\ now.fk = fk /\ now.really = Orphans(fk) /\ now.state = state[fk]
          BY <2>2
        <5>. HIDE DEF now
        <5>. QED
          BY <2>4, <2>5, <2>7, <5>1, <5>2
      <4>. QED
        BY <4>1, <4>2
    <3>. QED
      BY <3>1 DEF Witnessed
  <2>9. Positions'
    BY <1>1, <2>1, <2>2, <2>6 DEF SamplingIInv, Positions
  <2>10. ASSUME steady, {f.fk : f \in orphaned} = {ForeignKeys[k] : k \in SampledWithOrphans}
         PROVE  {f.fk : f \in orphaned'} = {ForeignKeys[k] : k \in SampledWithOrphans'}
    <3>1. SampledWithOrphans' = SampledWithOrphans \cup (IF n = 0 THEN {} ELSE {first})
      <4>1. \A k : OrphanedRows(ForeignKeys[k])' = OrphanedRows(ForeignKeys[k])
        BY <1>1 DEF OrphanedRows, database
      <4>2. SampledWithOrphans' = {k \in details : (k < next \/ k = first) /\ OrphanedRows(ForeignKeys[k]) # {}}
        BY <1>1, <2>1, <2>2, <4>1 DEF SampledWithOrphans
      <4>. QED
        BY <2>1, <2>4, <4>2 DEF SampledWithOrphans, fk
    <3>2. CASE n = 0
      BY <2>2, <2>10, <3>1, <3>2
    <3>3. CASE n # 0
      <4>1. orphaned' = orphaned \cup {Phrase(fk, n)} /\ SampledWithOrphans' = SampledWithOrphans \cup {first}
        BY <2>2, <3>1, <3>3
      <4>2. {f.fk : f \in orphaned'} = {f.fk : f \in orphaned} \cup {fk}
        BY <2>7, <4>1
      <4>3. {ForeignKeys[k] : k \in SampledWithOrphans'} = {ForeignKeys[k] : k \in SampledWithOrphans} \cup {fk}
        BY <4>1 DEF fk
      <4>. QED
        BY <2>10, <4>2, <4>3
    <3>. QED
      BY <3>2, <3>3
  <2>11. SamplingCurrent'
    BY <1>1, <1>3, <2>6, <2>10 DEF SamplingIInv, SamplingCurrent
  <2>. QED
    BY <1>2, <2>8, <2>9, <2>11 DEF SamplingIInv
<1>5. CASE SampleFails
  <2>1. next' = next /\ there' = there /\ orphaned' = Raised /\ details # Pending
    BY <1>1, <1>5 DEF SampleFails, Sampling
  <2>. QED
    BY <1>1, <1>2, <1>3, <2>1 DEF SamplingIInv, Positions, Witnessed, SamplingCurrent
<1>. QED
  BY <1>4, <1>5

\* Every step keeps the invariant.
LEMMA SamplingStepIInv == ASSUME SamplingIInv, [SamplingNext]_samplingVars PROVE SamplingIInv'
<1>1. CASE CheckMalformedJsonbEntries
  BY <1>1, JsonbStep
<1>2. CASE CheckUnvalidatedForeignKeys
  BY <1>2, ListingStep
<1>3. CASE CheckOrphanedRows
  BY <1>3, ListingStep, SamplingStep DEF CheckOrphanedRows
<1>4. CASE Client
  BY <1>4, SamplingClientStep
<1>5. CASE UNCHANGED samplingVars
  <2>1. UNCHANGED <<parents, children, state, documents, empties, unvalidated, details, next, orphaned, steady, there>>
    BY <1>5 DEF samplingVars
  <2>2. RowsInv' /\ Positions' /\ Witnessed' /\ DocumentsInv'
    BY <2>1 DEF SamplingIInv, RowsInv, Positions, Witnessed, DocumentsInv, OrphanedRows
  <2>3. SampledWithOrphans' = SampledWithOrphans /\ Unvalidated' = Unvalidated /\ UnvalidatedDetail' = UnvalidatedDetail
    BY <2>1 DEF SampledWithOrphans, OrphanedRows, Unvalidated, UnvalidatedDetail
  <2>. QED
    BY <2>1, <2>2, <2>3 DEF SamplingIInv, SamplingCurrent
<1>. QED
  BY <1>1, <1>2, <1>3, <1>4, <1>5 DEF SamplingNext, SamplingOver

-----------------------------------------------------------------------------
(* The properties.                                                         *)

\* Whatever the client did between the listing and the sample, a finding's orphans
\* were there when its table was sampled, as many as it says or, at the limit, at
\* least as many, and its constraint had not been validated; what is said of
\* documents is so of the column (checks.py:241-330).
THEOREM SamplesAreHonest == SamplingSpec => []SamplesAreToldHonestly
<1>1. SamplingIInv => SamplesAreToldHonestly
  BY DEF SamplingIInv, Witnessed, DocumentsInv, SamplesAreToldHonestly
<1>. QED
  BY <1>1, SamplingInitIInv, SamplingStepIInv, PTL DEF SamplingSpec

\* In a database that holds still 06.09 has a finding for each of the constraints
\* of one column that 06.03 reports and that has orphans, and for no other
\* (checks.py:115-140, 241-280).
THEOREM SamplingCovers == SamplingSpec => []SamplingCoversUnvalidated
<1>1. ASSUME SamplingIInv, steady, Done, orphaned # Raised
      PROVE  {f.fk : f \in orphaned} = {fk \in unvalidated \ Composite : Orphans(fk) > 0}
  <2>1. details # Pending /\ Left = {}
    BY <1>1 DEF Done, Sampling
  <2>2. unvalidated = Unvalidated /\ details = UnvalidatedDetail
    BY <1>1, <2>1 DEF SamplingIInv, Positions, SamplingCurrent
  <2>3. \A fk : Orphans(fk) > 0 <=> OrphanedRows(fk) # {}
    BY <1>1, OrphansAreCounted DEF SamplingIInv
  <2>4. \A k \in details : k < next
    <3>1. details \subseteq Nat /\ next \in Nat
      BY <1>1, <2>1, LoadsAssumption DEF SamplingIInv, Positions
    <3>. QED
      BY <2>1, <3>1 DEF Left
  <2>5. {f.fk : f \in orphaned} = {ForeignKeys[k] : k \in {j \in details : OrphanedRows(ForeignKeys[j]) # {}}}
    BY <1>1, <2>1, <2>4 DEF SamplingIInv, SamplingCurrent, SampledWithOrphans
  <2>6. details = {k \in DOMAIN ForeignKeys : ForeignKeys[k] \in Unvalidated \ Composite}
    BY <2>2 DEF UnvalidatedDetail
  <2>7. Unvalidated \subseteq {ForeignKeys[k] : k \in DOMAIN ForeignKeys}
    BY DEF Unvalidated, Constraints, ToSet
  <2>8. {ForeignKeys[k] : k \in {j \in details : OrphanedRows(ForeignKeys[j]) # {}}}
        = {fk \in Unvalidated \ Composite : OrphanedRows(fk) # {}}
    BY <2>6, <2>7
  <2>. QED
    BY <2>2, <2>3, <2>5, <2>8
<1>2. SamplingIInv => SamplingCoversUnvalidated
  BY <1>1 DEF SamplingCoversUnvalidated
<1>. QED
  BY <1>2, SamplingInitIInv, SamplingStepIInv, PTL DEF SamplingSpec

-----------------------------------------------------------------------------
(* Induction, greatest elements and folds.                                 *)

\* Induction up to n, over a set of numbers.
LEMMA UpTo ==
    ASSUME NEW n \in Nat, NEW S, 0 \in S, \A k \in 0..(n - 1) : k \in S => k + 1 \in S
    PROVE  \A k \in 0..n : k \in S
<1>. SUFFICES ASSUME NEW m \in 0..n, m \notin S PROVE FALSE
  OBVIOUS
<1>. DEFINE out == {k \in 0..n : k \notin S}
<1>1. out # {} /\ out \subseteq Nat
  OBVIOUS
<1>. HIDE DEF out
<1>2. PICK first \in out : \A k \in out : <<k, first>> \notin OpToRel(<, Nat)
  BY <1>1, NatLessThanWellFounded, WFMin
<1>3. \A k \in out : ~(k < first)
  <2>1. ASSUME NEW k \in out, k < first PROVE <<k, first>> \in OpToRel(<, Nat)
    BY <1>1, <2>1 DEF OpToRel
  <2>. QED
    BY <1>2, <2>1
<1>4. first \in 0..n /\ first \notin S /\ first # 0
  BY <1>2 DEF out
<1>5. first - 1 \in 0..(n - 1) /\ first - 1 \notin out
  BY <1>3, <1>4 DEF out
<1>6. first - 1 \in S
  BY <1>5 DEF out
<1>. QED
  BY <1>4, <1>5, <1>6

\* A set of numbers that is bounded has a last.
LEMMA HasMax ==
    ASSUME NEW n \in Nat, NEW S \in SUBSET (1..n), S # {}
    PROVE  Max(S) \in S /\ \A k \in S : k <= Max(S)
<1>. DEFINE empty == {k \in 0..n : \A T \in SUBSET (1..k) : T # {} => \E x \in T : \A y \in T : x >= y}
<1>1. 0 \in empty
  <2>1. \A T \in SUBSET (1..0) : T = {}
    OBVIOUS
  <2>. QED
    BY <2>1, 0 \in 0..n
<1>2. ASSUME NEW k \in 0..(n - 1), k \in empty PROVE k + 1 \in empty
  <2>1. ASSUME NEW T \in SUBSET (1..(k + 1)), T # {} PROVE \E x \in T : \A y \in T : x >= y
    <3>1. CASE k + 1 \in T
      BY <3>1
    <3>2. CASE k + 1 \notin T
      BY <1>2, <2>1, <3>2
    <3>. QED
      BY <3>1, <3>2
  <2>. QED
    BY <2>1
<1>. HIDE DEF empty
<1>3. n \in empty
  BY <1>1, <1>2, UpTo
<1>4. \E x \in S : \A y \in S : x >= y
  BY <1>3 DEF empty
<1>. DEFINE m == Max(S)
<1>5. m \in S /\ \A y \in S : m >= y
  BY <1>4 DEF Max
<1>. HIDE DEF m
<1>6. m \in S /\ \A y \in S : y <= m
  BY <1>5
<1>. QED
  BY <1>6 DEF m

\* F folds the numbers up to n, by the equation that defines FoldLeft.
FoldsUp(F, n, T, base, step) ==
    /\ F \in [SUBSET (1..n) -> T]
    /\ \A S \in SUBSET (1..n) : F[S] = IF S = {} THEN base ELSE step[<<F[S \ {Max(S)}], Max(S)>>]

\* There is a function that obeys the equation by which FoldLeft is defined.
LEMMA FoldExists ==
    ASSUME NEW n \in Nat, NEW T, NEW base \in T, NEW step \in [T \X (1..n) -> T]
    PROVE  \E F : FoldsUp(F, n, T, base, step)
<1>. DEFINE Obeys(F, k) == \A S \in SUBSET (1..k) :
                F[S] = IF S = {} THEN base ELSE step[<<F[S \ {Max(S)}], Max(S)>>]
            good == {k \in 0..n : \E F \in [SUBSET (1..k) -> T] : Obeys(F, k)}
<1>1. 0 \in good
  <2>. SUFFICES ASSUME NEW k \in 0..n, k = 0 PROVE k \in good
    BY 0 \in 0..n
  <2>. DEFINE F == [S \in SUBSET (1..k) |-> base]
  <2>1. F \in [SUBSET (1..k) -> T] /\ Obeys(F, k)
    OBVIOUS
  <2>. HIDE DEF F, Obeys
  <2>2. \E H \in [SUBSET (1..k) -> T] : Obeys(H, k)
    BY <2>1
  <2>. QED
    BY <2>2
<1>2. ASSUME NEW k \in 0..(n - 1), k \in good PROVE k + 1 \in good
  <2>1. PICK F \in [SUBSET (1..k) -> T] : Obeys(F, k)
    BY <1>2
  <2>. DEFINE G == [S \in SUBSET (1..(k + 1)) |-> IF k + 1 \in S THEN step[<<F[S \ {k + 1}], k + 1>>] ELSE F[S]]
  <2>2. \A S \in SUBSET (1..(k + 1)) : k + 1 \notin S => S \in SUBSET (1..k)
    OBVIOUS
  <2>3. \A S \in SUBSET (1..(k + 1)) : S \ {k + 1} \in SUBSET (1..k)
    OBVIOUS
  <2>4. k + 1 \in 1..n
    OBVIOUS
  <2>5. G \in [SUBSET (1..(k + 1)) -> T]
    <3>1. ASSUME NEW S \in SUBSET (1..(k + 1)), k + 1 \in S PROVE step[<<F[S \ {k + 1}], k + 1>>] \in T
      BY <2>1, <2>3, <2>4
    <3>2. ASSUME NEW S \in SUBSET (1..(k + 1)), k + 1 \notin S PROVE F[S] \in T
      BY <2>1, <2>2, <3>2
    <3>. QED
      BY <3>1, <3>2
  <2>6. ASSUME NEW S \in SUBSET (1..(k + 1)) PROVE G[S] = IF S = {} THEN base ELSE step[<<G[S \ {Max(S)}], Max(S)>>]
    <3>1. CASE k + 1 \in S
      <4>1. Max(S) \in S /\ \A i \in S : i <= Max(S)
        BY <3>1, HasMax, k + 1 \in Nat
      <4>. DEFINE m == Max(S)
      <4>. HIDE DEF m
      <4>3. m \in S /\ \A i \in S : i <= m
        BY <4>1 DEF m
      <4>4. m = k + 1
        BY <3>1, <4>3
      <4>2. Max(S) = k + 1
        BY <4>4 DEF m
      <4>5. G[S \ {k + 1}] = F[S \ {k + 1}]
        BY <2>3
      <4>. QED
        BY <3>1, <4>2, <4>5
    <3>2. CASE k + 1 \notin S
      <4>1. S \in SUBSET (1..k) /\ G[S] = F[S] /\ G[S \ {Max(S)}] = F[S \ {Max(S)}]
        BY <2>2, <3>2
      <4>2. F[S] = IF S = {} THEN base ELSE step[<<F[S \ {Max(S)}], Max(S)>>]
        BY <2>1, <4>1
      <4>. QED
        BY <4>1, <4>2
    <3>. QED
      BY <3>1, <3>2
  <2>. HIDE DEF G
  <2>7. Obeys(G, k + 1)
    BY <2>6
  <2>. HIDE DEF Obeys
  <2>8. \E H \in [SUBSET (1..(k + 1)) -> T] : Obeys(H, k + 1)
    BY <2>5, <2>7
  <2>. QED
    BY <2>8
<1>. HIDE DEF good
<1>3. n \in good
  BY <1>1, <1>2, UpTo
<1>. QED
  BY <1>3 DEF good, FoldsUp

\* What obeys that equation goes through the numbers in order.
LEMMA FoldGoesUp ==
    ASSUME NEW n \in Nat, NEW k \in 1..n
    PROVE  Max(1..k) = k /\ (1..k) \ {k} = 1..(k - 1) /\ 1..k \in SUBSET (1..n) /\ 1..k # {}
<1>1. 1..k \in SUBSET (1..n) /\ 1..k # {}
  OBVIOUS
<1>2. Max(1..k) \in 1..k /\ \A i \in 1..k : i <= Max(1..k)
  BY <1>1, HasMax
<1>3. Max(1..k) = k
  BY <1>2
<1>. QED
  BY <1>1, <1>3

-----------------------------------------------------------------------------
(* Flattening a sequence of sequences, and choosing elements of one.       *)

\* Flattening goes through the sequences in order.
LEMMA FlattenGoesUp ==
    ASSUME NEW T, NEW seqs \in Seq(Seq(T))
    PROVE  \E g \in [0..Len(seqs) -> Seq(T)] :
               /\ g[0] = <<>> /\ FlattenSeq(seqs) = g[Len(seqs)]
               /\ \A k \in 0..(Len(seqs) - 1) : g[k + 1] = g[k] \o seqs[k + 1]
<1>. DEFINE n == Len(seqs)
            Equation(f) == f = [i \in 1..n |-> IF i = 1 THEN seqs[i] ELSE f[i - 1] \o seqs[i]]
            Obeys(f, k) == \A i \in 1..k : f[i] = IF i = 1 THEN seqs[i] ELSE f[i - 1] \o seqs[i]
            good == {k \in 0..n : \E f \in [1..k -> Seq(T)] : Obeys(f, k)}
            flatten == CHOOSE f : Equation(f)
<1>1. n \in Nat /\ DOMAIN seqs = 1..n /\ \A i \in 1..n : seqs[i] \in Seq(T)
  OBVIOUS
<1>2. seqs = <<>> <=> n = 0
  OBVIOUS
<1>3. FlattenSeq(seqs) = IF n = 0 THEN seqs ELSE flatten[n]
  BY Zenon DEF FlattenSeq
<1>. HIDE DEF n
<1>4. 0 \in good
  <2>. SUFFICES ASSUME NEW k \in 0..n, k = 0 PROVE k \in good
    BY <1>1, 0 \in 0..n
  <2>. DEFINE f == [i \in 1..k |-> <<>>]
  <2>1. f \in [1..k -> Seq(T)] /\ Obeys(f, k)
    OBVIOUS
  <2>. HIDE DEF f, Obeys
  <2>2. \E h \in [1..k -> Seq(T)] : Obeys(h, k)
    BY <2>1
  <2>. QED
    BY <2>2
<1>5. ASSUME NEW k \in 0..(n - 1), k \in good PROVE k + 1 \in good
  <2>1. PICK f \in [1..k -> Seq(T)] : Obeys(f, k)
    BY <1>5
  <2>. DEFINE h == [i \in 1..(k + 1) |-> IF i # k + 1 THEN f[i]
                                         ELSE IF i = 1 THEN seqs[i] ELSE f[i - 1] \o seqs[i]]
  <2>2. h \in [1..(k + 1) -> Seq(T)]
    BY <1>1
  <2>3. ASSUME NEW i \in 1..(k + 1) PROVE h[i] = IF i = 1 THEN seqs[i] ELSE h[i - 1] \o seqs[i]
    <3>1. i - 1 \in 1..k \/ i = 1
      OBVIOUS
    <3>2. i # 1 => h[i - 1] = f[i - 1]
      BY <3>1
    <3>3. CASE i = k + 1
      BY <3>2, <3>3
    <3>4. CASE i # k + 1
      <4>1. i \in 1..k /\ h[i] = f[i]
        BY <3>4
      <4>. QED
        BY <2>1, <3>2, <4>1
    <3>. QED
      BY <3>3, <3>4
  <2>. HIDE DEF h
  <2>6. Obeys(h, k + 1)
    BY <2>3
  <2>. HIDE DEF Obeys
  <2>4. \E e \in [1..(k + 1) -> Seq(T)] : Obeys(e, k + 1)
    BY <2>2, <2>6
  <2>5. k + 1 \in 0..n
    BY <1>1
  <2>. QED
    BY <2>4, <2>5
<1>6. n \in good
  <2>. HIDE DEF good, Obeys, Equation
  <2>1. n \in Nat /\ n \in 0..n /\ \A k \in 0..(n - 1) : k \in good => k + 1 \in good
    BY <1>1, <1>5
  <2>. QED
    BY <1>4, <2>1, UpTo
<1>7. PICK f \in [1..n -> Seq(T)] : Obeys(f, n)
  BY <1>6
<1>8. Equation(f)
  <2>1. f = [i \in 1..n |-> f[i]]
    OBVIOUS
  <2>. QED
    BY <1>7, <2>1
<1>9. Equation(flatten)
  <2>. HIDE DEF Equation
  <2>. QED
    BY <1>8, Zenon
<1>. HIDE DEF flatten, good
<1>14. \A i \in 1..n : flatten[i] = IF i = 1 THEN seqs[i] ELSE flatten[i - 1] \o seqs[i]
  BY <1>9
<1>15. ASSUME NEW k \in 0..(n - 1) PROVE flatten[k + 1] = IF k = 0 THEN seqs[1] ELSE flatten[k] \o seqs[k + 1]
  <2>1. k + 1 \in 1..n /\ (k + 1) - 1 = k /\ (k + 1 = 1 <=> k = 0)
    BY <1>1
  <2>. QED
    BY <1>14, <2>1
<1>. HIDE DEF Equation, Obeys
<1>10. \A k \in 1..n : flatten[k] \in Seq(T)
  <2>. DEFINE typed == {k \in 0..n : k = 0 \/ flatten[k] \in Seq(T)}
  <2>1. 0 \in typed
    BY <1>1
  <2>2. ASSUME NEW k \in 0..(n - 1), k \in typed PROVE k + 1 \in typed
    <3>1. k + 1 \in 1..n /\ k + 1 \in 0..n /\ 1 \in 1..n
      BY <1>1
    <3>2. flatten[k + 1] \in Seq(T)
      <4>1. CASE k = 0
        BY <1>1, <1>15, <3>1, <4>1
      <4>2. CASE k # 0
        <5>1. flatten[k] \in Seq(T) /\ seqs[k + 1] \in Seq(T)
          BY <1>1, <2>2, <3>1, <4>2
        <5>2. flatten[k + 1] = flatten[k] \o seqs[k + 1]
          BY <1>15, <4>2
        <5>. QED
          BY <5>1, <5>2
      <4>. QED
        BY <4>1, <4>2
    <3>. QED
      BY <3>1, <3>2
  <2>. HIDE DEF typed
  <2>3. \A k \in 0..n : k \in typed
    BY <1>1, <2>1, <2>2, UpTo
  <2>. QED
    BY <1>1, <2>3 DEF typed
<1>. DEFINE g == [k \in 0..n |-> IF k = 0 THEN <<>> ELSE flatten[k]]
<1>11. g \in [0..n -> Seq(T)]
  BY <1>1, <1>10
<1>12. g[0] = <<>> /\ FlattenSeq(seqs) = g[n]
  BY <1>1, <1>2, <1>3
<1>13. ASSUME NEW k \in 0..(n - 1) PROVE g[k + 1] = g[k] \o seqs[k + 1]
  <2>1. k + 1 \in 0..n /\ k \in 0..n /\ k + 1 # 0 /\ seqs[k + 1] \in Seq(T)
    BY <1>1
  <2>2. g[k + 1] = flatten[k + 1] /\ g[k] = IF k = 0 THEN <<>> ELSE flatten[k]
    BY <2>1
  <2>3. flatten[k + 1] = IF k = 0 THEN seqs[1] ELSE flatten[k] \o seqs[k + 1]
    BY <1>15
  <2>4. CASE k = 0
    BY <2>1, <2>2, <2>3, <2>4
  <2>5. CASE k # 0
    BY <2>2, <2>3, <2>5
  <2>. QED
    BY <2>4, <2>5
<1>. HIDE DEF g
<1>. QED
  BY <1>11, <1>12, <1>13 DEF n

\* Only the empty sequence has no elements.
LEMMA HasNone == ASSUME NEW T, NEW s \in Seq(T) PROVE ToSet(s) = {} <=> s = <<>>
<1>1. Len(s) \in Nat /\ DOMAIN s = 1..Len(s) /\ (s = <<>> <=> Len(s) = 0)
  OBVIOUS
<1>2. ToSet(s) = {} <=> DOMAIN s = {}
  BY DEF ToSet
<1>3. Len(s) # 0 => 1 \in 1..Len(s)
  BY <1>1
<1>4. Len(s) = 0 => 1..Len(s) = {}
  OBVIOUS
<1>. QED
  BY <1>1, <1>2, <1>3, <1>4

\* A sequence of one element.
LEMMA HasOne == ASSUME NEW T, NEW x \in T PROVE <<x>> \in Seq(T) /\ ToSet(<<x>>) = {x} /\ IsInjective(<<x>>)
BY DEF ToSet, IsInjective

\* The elements of a concatenation.
LEMMA ConcatHas ==
    ASSUME NEW T, NEW a \in Seq(T), NEW b \in Seq(T)
    PROVE  /\ a \o b \in Seq(T) /\ ToSet(a \o b) = ToSet(a) \cup ToSet(b)
           /\ (IsInjective(a) /\ IsInjective(b) /\ ToSet(a) \cap ToSet(b) = {} => IsInjective(a \o b))
<1>. DEFINE c == a \o b
            m == Len(a)
            n == Len(b)
<1>1. /\ m \in Nat /\ n \in Nat /\ DOMAIN a = 1..m /\ DOMAIN b = 1..n /\ c \in Seq(T) /\ DOMAIN c = 1..(m + n)
      /\ \A i \in 1..(m + n) : c[i] = IF i <= m THEN a[i] ELSE b[i - m]
  OBVIOUS
<1>. HIDE DEF c, m, n
<1>2. \A i \in 1..m : i \in 1..(m + n) /\ c[i] = a[i]
  BY <1>1
<1>3. \A i \in 1..n : i + m \in 1..(m + n) /\ c[i + m] = b[i]
  BY <1>1
<1>4. \A i \in 1..(m + n) : (i \in 1..m /\ c[i] = a[i]) \/ (i - m \in 1..n /\ c[i] = b[i - m])
  BY <1>1
<1>5. ToSet(c) \subseteq ToSet(a) \cup ToSet(b)
  BY <1>1, <1>4 DEF ToSet
<1>6. ToSet(a) \subseteq ToSet(c)
  BY <1>1, <1>2 DEF ToSet
<1>7. ToSet(b) \subseteq ToSet(c)
  BY <1>1, <1>3 DEF ToSet
<1>8. ASSUME IsInjective(a), IsInjective(b), ToSet(a) \cap ToSet(b) = {} PROVE IsInjective(c)
  <2>1. ASSUME NEW i \in 1..(m + n), NEW j \in 1..(m + n), c[i] = c[j] PROVE i = j
    <3>1. \A k \in 1..m : a[k] \in ToSet(a)
      BY <1>1 DEF ToSet
    <3>2. \A k \in 1..n : b[k] \in ToSet(b)
      BY <1>1 DEF ToSet
    <3>3. (i \in 1..m /\ j \in 1..m) \/ (i - m \in 1..n /\ j - m \in 1..n /\ c[i] = b[i - m] /\ c[j] = b[j - m])
      BY <1>4, <1>8, <2>1, <3>1, <3>2
    <3>4. i - m = j - m => i = j
      BY <1>1
    <3>. QED
      BY <1>1, <1>2, <1>8, <2>1, <3>3, <3>4 DEF IsInjective
  <2>. QED
    BY <1>1, <2>1 DEF IsInjective
<1>. QED
  BY <1>1, <1>5, <1>6, <1>7, <1>8 DEF c

\* The elements of the flattened sequence are those of the sequences; when no
\* element is twice in one or in two of them, none is twice in the whole.
LEMMA FlattenHas ==
    ASSUME NEW T, NEW seqs \in Seq(Seq(T))
    PROVE  /\ FlattenSeq(seqs) \in Seq(T)
           /\ ToSet(FlattenSeq(seqs)) = UNION {ToSet(seqs[i]) : i \in DOMAIN seqs}
           /\ /\ \A i \in DOMAIN seqs : IsInjective(seqs[i])
              /\ \A i, j \in DOMAIN seqs : i # j => ToSet(seqs[i]) \cap ToSet(seqs[j]) = {}
              => IsInjective(FlattenSeq(seqs))
<1>. DEFINE n == Len(seqs)
            Upto(k) == UNION {ToSet(seqs[i]) : i \in 1..k}
            apart == /\ \A i \in DOMAIN seqs : IsInjective(seqs[i])
                     /\ \A i, j \in DOMAIN seqs : i # j => ToSet(seqs[i]) \cap ToSet(seqs[j]) = {}
<1>1. n \in Nat /\ DOMAIN seqs = 1..n /\ \A i \in 1..n : seqs[i] \in Seq(T)
  OBVIOUS
<1>2. PICK g \in [0..n -> Seq(T)] : /\ g[0] = <<>> /\ FlattenSeq(seqs) = g[n]
                                    /\ \A k \in 0..(n - 1) : g[k + 1] = g[k] \o seqs[k + 1]
  BY FlattenGoesUp
<1>. HIDE DEF n
<1>. DEFINE good == {k \in 0..n : ToSet(g[k]) = Upto(k) /\ (apart => IsInjective(g[k]))}
<1>3. 0 \in good
  <2>1. ToSet(<<>>) = {} /\ IsInjective(<<>>)
    BY DEF ToSet, IsInjective
  <2>2. Upto(0) = {}
    OBVIOUS
  <2>. QED
    BY <1>1, <1>2, <2>1, <2>2
<1>4. ASSUME NEW k \in 0..(n - 1), k \in good PROVE k + 1 \in good
  <2>1. k \in 0..n /\ k + 1 \in 0..n /\ k + 1 \in 1..n
    BY <1>1
  <2>2. g[k] \in Seq(T) /\ seqs[k + 1] \in Seq(T) /\ g[k + 1] = g[k] \o seqs[k + 1]
    BY <1>1, <1>2, <2>1
  <2>. HIDE DEF Upto, apart
  <2>3. ToSet(g[k]) = Upto(k) /\ (apart => IsInjective(g[k]))
    BY <1>4
  <2>4. Upto(k + 1) = Upto(k) \cup ToSet(seqs[k + 1])
    <3>1. 1..(k + 1) = 1..k \cup {k + 1}
      BY <2>1
    <3>. QED
      BY <3>1 DEF Upto
  <2>5. apart => IsInjective(seqs[k + 1]) /\ Upto(k) \cap ToSet(seqs[k + 1]) = {}
    <3>1. \A i \in 1..k : i \in 1..n /\ i # k + 1
      BY <1>1
    <3>. QED
      BY <1>1, <2>1, <3>1 DEF apart, Upto
  <2>6. /\ ToSet(g[k] \o seqs[k + 1]) = ToSet(g[k]) \cup ToSet(seqs[k + 1])
        /\ (IsInjective(g[k]) /\ IsInjective(seqs[k + 1]) /\ ToSet(g[k]) \cap ToSet(seqs[k + 1]) = {}
              => IsInjective(g[k] \o seqs[k + 1]))
    BY <2>2, ConcatHas
  <2>. QED
    BY <2>1, <2>2, <2>3, <2>4, <2>5, <2>6
<1>5. n \in good
  <2>. HIDE DEF good
  <2>1. n \in 0..n /\ \A k \in 0..(n - 1) : k \in good => k + 1 \in good
    BY <1>1, <1>4
  <2>. QED
    BY <1>1, <1>3, <2>1, UpTo
<1>6. g[n] \in Seq(T)
  BY <1>1, <1>2
<1>. QED
  BY <1>1, <1>2, <1>5, <1>6

\* A sequence that has no element twice is as long as it has elements.
LEMMA OnceEach ==
    ASSUME NEW T, NEW s \in Seq(T), IsInjective(s)
    PROVE  IsFiniteSet(ToSet(s)) /\ Len(s) = Cardinality(ToSet(s))
<1>. DEFINE n == Len(s)
<1>1. n \in Nat /\ DOMAIN s = 1..n
  OBVIOUS
<1>2. s \in Bijection(1..n, ToSet(s))
  <2>1. s \in [1..n -> ToSet(s)]
    BY DEF ToSet
  <2>2. \A t \in ToSet(s) : \E i \in 1..n : s[i] = t
    BY DEF ToSet
  <2>. QED
    BY <1>1, <2>1, <2>2 DEF Bijection, Injection, Surjection, IsInjective
<1>3. IsFiniteSet(1..n) /\ Cardinality(1..n) = n
  BY <1>1, FS_Interval
<1>4. ExistsBijection(1..n, ToSet(s))
  BY <1>2 DEF ExistsBijection
<1>. QED
  BY <1>3, <1>4, FS_Bijection

-----------------------------------------------------------------------------
(* Choosing elements of a sequence.                                        *)

Sifted(s, S) == FlattenSeq([i \in DOMAIN s |-> IF s[i] \in S THEN <<s[i]>> ELSE <<>>])

\* What is left of a sequence are its elements in S.
LEMMA SiftedHas ==
    ASSUME NEW T, NEW s \in Seq(T), NEW S
    PROVE  /\ Sifted(s, S) \in Seq(T) /\ ToSet(Sifted(s, S)) = ToSet(s) \cap S
           /\ (IsInjective(s) => IsInjective(Sifted(s, S)))
<1>. DEFINE parts == [i \in DOMAIN s |-> IF s[i] \in S THEN <<s[i]>> ELSE <<>>]
<1>1. Len(s) \in Nat /\ DOMAIN s = 1..Len(s) /\ \A i \in DOMAIN s : s[i] \in T
  OBVIOUS
<1>2. parts \in Seq(Seq(T)) /\ DOMAIN parts = DOMAIN s
  <2>1. ASSUME NEW i \in DOMAIN s PROVE (IF s[i] \in S THEN <<s[i]>> ELSE <<>>) \in Seq(T)
    BY <1>1
  <2>2. parts \in [1..Len(s) -> Seq(T)]
    BY <1>1, <2>1
  <2>. HIDE DEF parts
  <2>. QED
    BY <1>1, <2>2
<1>3. \A i \in DOMAIN s : ToSet(parts[i]) = {s[i]} \cap S /\ IsInjective(parts[i])
  <2>1. \A x : ToSet(<<x>>) = {x} /\ IsInjective(<<x>>)
    BY DEF ToSet, IsInjective
  <2>2. ToSet(<<>>) = {} /\ IsInjective(<<>>)
    BY DEF ToSet, IsInjective
  <2>. QED
    BY <2>1, <2>2
<1>. HIDE DEF parts
<1>4. UNION {ToSet(parts[i]) : i \in DOMAIN parts} = ToSet(s) \cap S
  BY <1>2, <1>3 DEF ToSet
<1>5. IsInjective(s) => \A i, j \in DOMAIN parts : i # j => ToSet(parts[i]) \cap ToSet(parts[j]) = {}
  BY <1>2, <1>3 DEF IsInjective
<1>. QED
  BY <1>2, <1>3, <1>4, <1>5, FlattenHas DEF Sifted, parts

-----------------------------------------------------------------------------
(* Fingerprints tell texts apart that normalize differently.               *)

\* Normalizing a text step by step does not leave a set that every step
\* stays in.
LEMMA NormalizesWithin ==
    ASSUME NEW T, NEW text \in T, NEW steps \in Seq(NormalizePrimitives),
           \A t \in T, how \in NormalizePrimitives : Normalize(t, how) \in T
    PROVE  FoldLeft(Normalize, text, steps) \in T
<1>. DEFINE n == Len(steps)
            step == [p \in T \X (1..n) |-> Normalize(p[1], steps[p[2]])]
            Equation(F) == F = [R \in SUBSET (1..n) |-> IF R = {} THEN text ELSE Normalize(F[R \ {Max(R)}], steps[Max(R)])]
<1>1. n \in Nat /\ DOMAIN steps = 1..n /\ \A i \in 1..n : steps[i] \in NormalizePrimitives
  OBVIOUS
<1>. HIDE DEF n
<1>2. step \in [T \X (1..n) -> T]
  <2>1. ASSUME NEW p \in T \X (1..n) PROVE Normalize(p[1], steps[p[2]]) \in T
    BY <1>1
  <2>. QED
    BY <2>1
<1>3. PICK F : FoldsUp(F, n, T, text, step)
  <2>. HIDE DEF step
  <2>. QED
    BY <1>1, <1>2, FoldExists
<1>4. Equation(F)
  <2>1. ASSUME NEW R \in SUBSET (1..n), R # {} PROVE F[R] = Normalize(F[R \ {Max(R)}], steps[Max(R)])
    <3>1. Max(R) \in 1..n /\ R \ {Max(R)} \in SUBSET (1..n)
      BY <1>1, <2>1, HasMax
    <3>2. <<F[R \ {Max(R)}], Max(R)>> \in T \X (1..n)
      BY <1>3, <3>1 DEF FoldsUp
    <3>. QED
      BY <1>3, <2>1, <3>2 DEF FoldsUp
  <2>2. \A R \in SUBSET (1..n) : F[R] = IF R = {} THEN text ELSE Normalize(F[R \ {Max(R)}], steps[Max(R)])
    BY <1>3, <2>1 DEF FoldsUp
  <2>3. F = [R \in SUBSET (1..n) |-> F[R]]
    BY <1>3 DEF FoldsUp
  <2>. QED
    BY <2>2, <2>3, Zenon
<1>. DEFINE G == CHOOSE H : Equation(H)
<1>5. FoldLeft(Normalize, text, steps) = G[1..n]
  BY <1>1, Zenon DEF FoldLeft, MapThenFoldSet
<1>6. Equation(G)
  <2>. HIDE DEF Equation
  <2>. QED
    BY <1>4, Zenon
<1>. HIDE DEF G
<1>7. \A R \in SUBSET (1..n) : G[R] = IF R = {} THEN text ELSE Normalize(G[R \ {Max(R)}], steps[Max(R)])
  BY <1>6
<1>. HIDE DEF Equation
<1>. DEFINE good == {k \in 0..n : G[1..k] \in T}
<1>8. 0 \in good
  <2>1. 1..0 = {} /\ 1..0 \in SUBSET (1..n) /\ 0 \in 0..n
    BY <1>1
  <2>. QED
    BY <1>7, <2>1
<1>9. ASSUME NEW k \in 0..(n - 1), k \in good PROVE k + 1 \in good
  <2>1. k + 1 \in 1..n /\ k + 1 \in 0..n /\ (k + 1) - 1 = k
    BY <1>1
  <2>2. Max(1..(k + 1)) = k + 1 /\ (1..(k + 1)) \ {k + 1} = 1..k /\ 1..(k + 1) \in SUBSET (1..n) /\ 1..(k + 1) # {}
    BY <1>1, <2>1, FoldGoesUp
  <2>3. G[1..(k + 1)] = Normalize(G[1..k], steps[k + 1])
    BY <1>7, <2>2
  <2>. QED
    BY <1>1, <1>9, <2>1, <2>3
<1>10. n \in good
  <2>. HIDE DEF good
  <2>1. n \in 0..n /\ \A k \in 0..(n - 1) : k \in good => k + 1 \in good
    BY <1>1, <1>9
  <2>. QED
    BY <1>1, <1>8, <2>1, UpTo
<1>. QED
  BY <1>5, <1>10

\* A step makes a text of a text, and nothing of nothing.
LEMMA NormalizeIsText ==
    ASSUME NEW text \in Texts, NEW how \in NormalizePrimitives
    PROVE  Normalize(text, how) \in Texts /\ (text = <<>> => Normalize(text, how) = <<>>)
<1>1. text # NoText
  BY TextsAssumption
<1>2. ASSUME NEW S PROVE Keep(text, S) \in Texts /\ (text = <<>> => Keep(text, S) = <<>>)
  <2>1. Sifted(text, S) \in Seq(STRING) /\ ToSet(Sifted(text, S)) = ToSet(text) \cap S
    BY SiftedHas DEF Texts
  <2>2. Keep(text, S) = Sifted(text, S)
    BY DEF Keep, Sifted
  <2>3. text = <<>> => Keep(text, S) = <<>>
    BY <2>1, <2>2, HasNone DEF Texts
  <2>. QED
    BY <2>1, <2>2, <2>3 DEF Texts
<1>3. ASSUME NEW c \in STRING PROVE ToLower(c) \in STRING
  <2>1. DOMAIN Upper = DOMAIN Lower /\ \A i \in DOMAIN Lower : Lower[i] \in STRING
    BY TextsAssumption DEF Texts
  <2>2. c \in ToSet(Upper) => \E i \in DOMAIN Upper : Upper[i] = c
    BY DEF ToSet
  <2>. QED
    BY <2>1, <2>2 DEF ToLower
<1>. DEFINE low == [i \in DOMAIN text |-> ToLower(text[i])]
<1>4. low \in Texts /\ (text = <<>> => low = <<>>)
  <2>1. Len(text) \in Nat /\ DOMAIN text = 1..Len(text) /\ \A i \in DOMAIN text : text[i] \in STRING
    BY DEF Texts
  <2>2. low \in [1..Len(text) -> STRING]
    BY <1>3, <2>1
  <2>3. text = <<>> => low = <<>>
    OBVIOUS
  <2>. HIDE DEF low
  <2>. QED
    BY <2>1, <2>2, <2>3 DEF Texts
<1>. HIDE DEF low
<1>5. CASE how = "lowercase"
  <2>1. Normalize(text, how) = low
    BY <1>1, <1>5 DEF Normalize, low
  <2>. QED
    BY <1>4, <2>1
<1>6. ASSUME how # "lowercase" PROVE \E S : Normalize(text, how) = Keep(text, S)
  <2>1. CASE how = "strip_whitespace"
    BY <1>1, <2>1 DEF Normalize
  <2>2. CASE how = "digits_only"
    BY <1>1, <2>2 DEF Normalize
  <2>3. CASE how = "alphanumeric_only"
    BY <1>1, <2>3 DEF Normalize
  <2>. QED
    BY <1>6, <2>1, <2>2, <2>3 DEF NormalizePrimitives
<1>. QED
  BY <1>2, <1>5, <1>6

\* What a field contributes to the fingerprint is its normalized value.
LEMMA FieldIsNormalized ==
    ASSUME NEW text \in Texts \cup {NoText}, NEW steps \in Seq(NormalizePrimitives)
    PROVE  /\ FieldExpression(text, steps) = FoldLeft(Normalize, Coalesced(text), steps)
           /\ FieldExpression(text, steps) \in Texts
<1>1. NoText \notin Texts /\ <<>> \in Texts
  BY TextsAssumption DEF Texts
<1>2. CASE text \in Texts
  <2>1. FoldLeft(Normalize, text, steps) \in Texts
    BY <1>2, NormalizeIsText, NormalizesWithin
  <2>2. Coalesced(text) = text /\ Coalesced(FoldLeft(Normalize, text, steps)) = FoldLeft(Normalize, text, steps)
    BY <1>1, <1>2, <2>1 DEF Coalesced
  <2>. QED
    BY <2>1, <2>2 DEF FieldExpression
<1>3. CASE text = NoText
  <2>1. FoldLeft(Normalize, text, steps) \in {NoText}
    <3>1. \A t \in {NoText}, how \in NormalizePrimitives : Normalize(t, how) \in {NoText}
      BY DEF Normalize
    <3>. QED
      BY <1>3, <3>1, NormalizesWithin
  <2>2. FoldLeft(Normalize, <<>>, steps) \in {<<>>}
    <3>1. \A t \in {<<>>}, how \in NormalizePrimitives : Normalize(t, how) \in {<<>>}
      BY <1>1, NormalizeIsText
    <3>. QED
      BY <3>1, NormalizesWithin
  <2>. QED
    BY <1>1, <1>3, <2>1, <2>2 DEF FieldExpression, Coalesced
<1>. QED
  BY <1>2, <1>3

\* A sequence that ends in bar and then u, which bar is not in, tells where.
LEMMA SeparatorSplits ==
    ASSUME NEW T, NEW bar \in T, NEW a \in Seq(T), NEW b \in Seq(T), NEW u \in Seq(T), NEW v \in Seq(T),
           bar \notin ToSet(u), bar \notin ToSet(v), a \o (<<bar>> \o u) = b \o (<<bar>> \o v)
    PROVE  a = b /\ u = v
<1>. DEFINE Ends(w, c, x) ==
                /\ Len(c) \in Nat /\ Len(x) \in Nat /\ Len(w) = Len(c) + 1 + Len(x)
                /\ \A i \in 1..Len(c) : w[i] = c[i]
                /\ w[Len(c) + 1] = bar
                /\ \A i \in 1..Len(x) : w[Len(c) + 1 + i] = x[i]
<1>1. ASSUME NEW c \in Seq(T), NEW x \in Seq(T) PROVE Ends(c \o (<<bar>> \o x), c, x)
  <2>. DEFINE y == <<bar>> \o x
              w == c \o y
  <2>1. y \in Seq(T) /\ Len(y) = Len(x) + 1 /\ y[1] = bar /\ \A i \in 1..Len(x) : y[i + 1] = x[i]
    <3>. DEFINE one == <<bar>>
    <3>1. one \in Seq(T) /\ Len(one) = 1 /\ one[1] = bar
      OBVIOUS
    <3>. HIDE DEF one
    <3>2. /\ one \o x \in Seq(T) /\ Len(one \o x) = Len(x) + 1 /\ (one \o x)[1] = bar
          /\ \A i \in 1..Len(x) : (one \o x)[i + 1] = x[i]
      <4>4. /\ one \o x \in Seq(T) /\ Len(one \o x) = Len(one) + Len(x)
            /\ \A i \in 1..(Len(one) + Len(x)) : (one \o x)[i] = IF i <= Len(one) THEN one[i] ELSE x[i - Len(one)]
        BY <3>1, ConcatProperties
      <4>1. /\ one \o x \in Seq(T) /\ Len(one \o x) = 1 + Len(x)
            /\ \A i \in 1..(1 + Len(x)) : (one \o x)[i] = IF i <= 1 THEN one[i] ELSE x[i - 1]
        BY <3>1, <4>4, Zenon
      <4>2. Len(x) \in Nat
        OBVIOUS
      <4>3. ASSUME NEW i \in 1..Len(x) PROVE (one \o x)[i + 1] = x[i]
        <5>1. i + 1 \in 1..(1 + Len(x)) /\ ~(i + 1 <= 1) /\ (i + 1) - 1 = i
          BY <4>2
        <5>. QED
          BY <4>1, <5>1
      <4>. QED
        BY <3>1, <4>1, <4>2, <4>3
    <3>. QED
      BY <3>2 DEF one
  <2>. HIDE DEF y
  <2>2. Len(w) = Len(c) + Len(y) /\ \A i \in 1..(Len(c) + Len(y)) : w[i] = IF i <= Len(c) THEN c[i] ELSE y[i - Len(c)]
    BY <2>1, ConcatProperties
  <2>3. Len(c) \in Nat /\ Len(x) \in Nat
    OBVIOUS
  <2>. HIDE DEF w
  <2>5. \A i \in 1..Len(c) : w[i] = c[i]
    BY <2>1, <2>2, <2>3
  <2>6. w[Len(c) + 1] = bar
    <3>1. Len(c) + 1 \in 1..(Len(c) + Len(y)) /\ ~(Len(c) + 1 <= Len(c)) /\ (Len(c) + 1) - Len(c) = 1
      BY <2>1, <2>3
    <3>. QED
      BY <2>1, <2>2, <3>1
  <2>7. ASSUME NEW i \in 1..Len(x) PROVE w[Len(c) + 1 + i] = x[i]
    <3>1. Len(c) + 1 + i \in 1..(Len(c) + Len(y)) /\ ~(Len(c) + 1 + i <= Len(c)) /\ (Len(c) + 1 + i) - Len(c) = i + 1
      BY <2>1, <2>3
    <3>. QED
      BY <2>1, <2>2, <3>1
  <2>8. Ends(w, c, x)
    BY <2>1, <2>2, <2>3, <2>5, <2>6, <2>7
  <2>. QED
    BY <2>8 DEF w, y
<1>2. ASSUME NEW c \in Seq(T), NEW d \in Seq(T), NEW x \in Seq(T), NEW y \in Seq(T), bar \notin ToSet(x),
             NEW w, Ends(w, c, x), Ends(w, d, y)
      PROVE  Len(d) <= Len(c)
  <2>1. \A i \in 1..Len(x) : x[i] # bar
    BY <1>2 DEF ToSet
  <2>2. SUFFICES ASSUME Len(c) < Len(d) PROVE FALSE
    BY <1>2
  <2>. DEFINE i == Len(d) - Len(c)
  <2>3. i \in 1..Len(x) /\ Len(c) + 1 + i = Len(d) + 1
    BY <1>2, <2>2
  <2>4. w[Len(c) + 1 + i] = x[i]
    BY <1>2, <2>3
  <2>. QED
    BY <1>2, <2>1, <2>3, <2>4
<1>. DEFINE w == a \o (<<bar>> \o u)
<1>3. Ends(w, a, u) /\ Ends(w, b, v)
  <2>. HIDE DEF Ends
  <2>. QED
    BY <1>1
<1>. HIDE DEF w
<1>4. Len(a) = Len(b)
  <2>1. Len(a) <= Len(b) /\ Len(b) <= Len(a)
    <3>. HIDE DEF Ends
    <3>. QED
      BY <1>2, <1>3
  <2>. QED
    BY <1>3, <2>1
<1>5. Len(u) = Len(v)
  BY <1>3, <1>4
<1>6. a = b
  BY <1>3, <1>4
<1>7. u = v
  <2>1. \A i \in 1..Len(u) : u[i] = v[i]
    BY <1>3, <1>4, <1>5
  <2>. QED
    BY <1>5, <2>1, SeqEqual
<1>. QED
  BY <1>6, <1>7

\* Texts, in which the separator may be.
Joins == Seq(STRING \cup {Separator})

LEMMA TextsAreJoins == Texts \subseteq Joins
BY DEF Texts, Joins

\* Fields, joined by the separator.
Part(fields, i) == (IF i = 1 THEN <<>> ELSE <<Separator>>) \o fields[i]
Joined(fields, n) == FlattenSeq([i \in 1..n |-> Part(fields, i)])

\* The pieces that are joined are such texts.
LEMMA PartsAreJoins ==
    ASSUME NEW n \in Nat, NEW f \in [1..n -> Joins]
    PROVE  /\ [i \in 1..n |-> Part(f, i)] \in Seq(Joins)
           /\ \A i \in 1..n : Part(f, i) = IF i = 1 THEN f[1] ELSE <<Separator>> \o f[i]
<1>1. <<>> \in Joins /\ <<Separator>> \in Joins /\ \A a, b \in Joins : a \o b \in Joins
  BY DEF Joins
<1>2. \A a \in Joins : <<>> \o a = a
  BY DEF Joins
<1>3. \A i \in 1..n : f[i] \in Joins
  OBVIOUS
<1>4. \A i \in 1..n : Part(f, i) = IF i = 1 THEN f[1] ELSE <<Separator>> \o f[i]
  BY <1>2, <1>3 DEF Part
<1>5. \A i \in 1..n : Part(f, i) \in Joins
  <2>. DEFINE bar == <<Separator>>
  <2>1. bar \in Joins /\ \A i \in 1..n : Part(f, i) = IF i = 1 THEN f[1] ELSE bar \o f[i]
    BY <1>1, <1>4
  <2>. HIDE DEF bar
  <2>. QED
    BY <1>1, <1>3, <2>1
<1>6. [i \in 1..n |-> Part(f, i)] \in [1..n -> Joins]
  BY <1>5
<1>. QED
  BY <1>4, <1>6

\* Where no field has the separator in it, the joined text tells the fields.
LEMMA JoinedTells ==
    ASSUME NEW n \in Nat, NEW f \in [1..n -> Joins], NEW h \in [1..n -> Joins],
           \A i \in 1..n : Separator \notin ToSet(f[i]) /\ Separator \notin ToSet(h[i]),
           Joined(f, n) = Joined(h, n)
    PROVE  f = h
<1>. DEFINE fs == [i \in 1..n |-> Part(f, i)]
            hs == [i \in 1..n |-> Part(h, i)]
<1>1. fs \in Seq(Joins) /\ hs \in Seq(Joins) /\ Len(fs) = n /\ Len(hs) = n
  BY PartsAreJoins
<1>2. /\ \A i \in 1..n : fs[i] = IF i = 1 THEN f[1] ELSE <<Separator>> \o f[i]
      /\ \A i \in 1..n : hs[i] = IF i = 1 THEN h[1] ELSE <<Separator>> \o h[i]
  BY PartsAreJoins
<1>3. FlattenSeq(fs) = FlattenSeq(hs)
  BY DEF Joined
<1>. HIDE DEF fs, hs
<1>4. PICK g \in [0..n -> Joins] : /\ g[0] = <<>> /\ FlattenSeq(fs) = g[n]
                                   /\ \A k \in 0..(n - 1) : g[k + 1] = g[k] \o fs[k + 1]
  <2>. DEFINE T == STRING \cup {Separator}
  <2>1. Joins = Seq(T)
    BY DEF Joins
  <2>. HIDE DEF T
  <2>2. fs \in Seq(Seq(T)) /\ Len(fs) = n
    BY <1>1, <2>1
  <2>3. \E p \in [0..Len(fs) -> Seq(T)] : /\ p[0] = <<>> /\ FlattenSeq(fs) = p[Len(fs)]
                                          /\ \A k \in 0..(Len(fs) - 1) : p[k + 1] = p[k] \o fs[k + 1]
    BY <2>2, FlattenGoesUp
  <2>. QED
    BY <2>1, <2>2, <2>3
<1>5. PICK e \in [0..n -> Joins] : /\ e[0] = <<>> /\ FlattenSeq(hs) = e[n]
                                   /\ \A k \in 0..(n - 1) : e[k + 1] = e[k] \o hs[k + 1]
  <2>. DEFINE T == STRING \cup {Separator}
  <2>1. Joins = Seq(T)
    BY DEF Joins
  <2>. HIDE DEF T
  <2>2. hs \in Seq(Seq(T)) /\ Len(hs) = n
    BY <1>1, <2>1
  <2>3. \E p \in [0..Len(hs) -> Seq(T)] : /\ p[0] = <<>> /\ FlattenSeq(hs) = p[Len(hs)]
                                          /\ \A k \in 0..(Len(hs) - 1) : p[k + 1] = p[k] \o hs[k + 1]
    BY <2>2, FlattenGoesUp
  <2>. QED
    BY <2>1, <2>2, <2>3
<1>. DEFINE good == {k \in 0..n : g[k] = e[k] => \A i \in 1..k : f[i] = h[i]}
<1>6. 0 \in good
  OBVIOUS
<1>7. ASSUME NEW k \in 0..(n - 1), k \in good PROVE k + 1 \in good
  <2>1. k \in 0..n /\ k + 1 \in 0..n /\ k + 1 \in 1..n
    OBVIOUS
  <2>2. g[k] \in Joins /\ e[k] \in Joins /\ f[k + 1] \in Joins /\ h[k + 1] \in Joins
    BY <2>1
  <2>3. SUFFICES ASSUME g[k + 1] = e[k + 1] PROVE \A i \in 1..(k + 1) : f[i] = h[i]
    BY <2>1
  <2>4. g[k] \o fs[k + 1] = e[k] \o hs[k + 1]
    BY <1>4, <1>5, <2>3
  <2>5. CASE k = 0
    <3>1. fs[1] \in Joins /\ hs[1] \in Joins /\ \A a \in Joins : <<>> \o a = a
      BY <1>2, <2>1, <2>2, <2>5 DEF Joins
    <3>2. fs[1] = hs[1]
      <4>1. k + 1 = 1 /\ g[k] = <<>> /\ e[k] = <<>>
        BY <1>4, <1>5, <2>5
      <4>2. <<>> \o fs[1] = <<>> \o hs[1]
        BY <2>4, <4>1
      <4>. QED
        BY <3>1, <4>2
    <3>3. f[1] = h[1]
      BY <1>2, <2>1, <2>5, <3>2
    <3>. QED
      BY <2>5, <3>3
  <2>6. CASE k # 0
    <3>1. g[k] \o (<<Separator>> \o f[k + 1]) = e[k] \o (<<Separator>> \o h[k + 1])
      <4>1. k + 1 # 1
        BY <2>6
      <4>. QED
        BY <1>2, <2>1, <2>4, <4>1, Zenon
    <3>. DEFINE T == STRING \cup {Separator}
    <3>4. /\ Separator \in T /\ g[k] \in Seq(T) /\ e[k] \in Seq(T)
          /\ f[k + 1] \in Seq(T) /\ h[k + 1] \in Seq(T)
      BY <2>2 DEF Joins
    <3>. HIDE DEF T
    <3>2. Separator \notin ToSet(f[k + 1]) /\ Separator \notin ToSet(h[k + 1])
      BY <2>1
    <3>3. g[k] = e[k] /\ f[k + 1] = h[k + 1]
      <4>. DEFINE a == g[k]
                  b == e[k]
                  u == f[k + 1]
                  v == h[k + 1]
      <4>1. /\ a \in Seq(T) /\ b \in Seq(T) /\ u \in Seq(T) /\ v \in Seq(T) /\ Separator \in T
            /\ Separator \notin ToSet(u) /\ Separator \notin ToSet(v)
            /\ a \o (<<Separator>> \o u) = b \o (<<Separator>> \o v)
        BY <3>1, <3>2, <3>4
      <4>. HIDE DEF a, b, u, v
      <4>2. a = b /\ u = v
        BY <4>1, SeparatorSplits
      <4>. QED
        BY <4>2 DEF a, b, u, v
    <3>. QED
      BY <1>7, <3>3
  <2>. QED
    BY <2>5, <2>6
<1>8. n \in good
  <2>. HIDE DEF good
  <2>1. n \in 0..n /\ \A k \in 0..(n - 1) : k \in good => k + 1 \in good
    BY <1>7
  <2>. QED
    BY <1>6, <2>1, UpTo
<1>9. \A i \in 1..n : f[i] = h[i]
  BY <1>3, <1>4, <1>5, <1>8
<1>. QED
  BY <1>9

\* Only one empty field gives an empty fingerprint: two have the separator.
LEMMA JoinedEmpty ==
    ASSUME NEW n \in Nat \ {0}, NEW f \in [1..n -> Joins]
    PROVE  Joined(f, n) = <<>> <=> f = <<<<>>>>
<1>. DEFINE fs == [i \in 1..n |-> Part(f, i)]
            bar == <<Separator>>
<1>1. fs \in Seq(Joins) /\ DOMAIN fs = 1..n
  BY PartsAreJoins
<1>2. \A i \in 1..n : fs[i] = IF i = 1 THEN f[1] ELSE bar \o f[i]
  BY PartsAreJoins
<1>10. bar \in Joins /\ ToSet(bar) = {Separator}
  BY HasOne DEF Joins
<1>. HIDE DEF fs, bar
<1>3. FlattenSeq(fs) \in Joins /\ ToSet(FlattenSeq(fs)) = UNION {ToSet(fs[i]) : i \in 1..n}
  BY <1>1, FlattenHas DEF Joins
<1>4. FlattenSeq(fs) = <<>> <=> \A i \in 1..n : ToSet(fs[i]) = {}
  <2>1. FlattenSeq(fs) = <<>> <=> ToSet(FlattenSeq(fs)) = {}
    BY <1>3, HasNone DEF Joins
  <2>2. UNION {ToSet(fs[i]) : i \in 1..n} = {} <=> \A i \in 1..n : ToSet(fs[i]) = {}
    OBVIOUS
  <2>. QED
    BY <1>3, <2>1, <2>2
<1>9. 1 \in 1..n /\ f[1] \in Joins /\ (n # 1 => 2 \in 1..n /\ f[2] \in Joins)
  OBVIOUS
<1>5. fs[1] = f[1] /\ (ToSet(fs[1]) = {} <=> f[1] = <<>>)
  <2>1. fs[1] = f[1] /\ f[1] \in Joins
    BY <1>2, <1>9
  <2>. QED
    BY <2>1, HasNone DEF Joins
<1>6. n # 1 => ToSet(fs[2]) # {}
  <2>1. SUFFICES ASSUME n # 1 PROVE ToSet(fs[2]) # {}
    OBVIOUS
  <2>2. fs[2] = bar \o f[2]
    <3>1. 2 \in 1..n /\ 2 # 1
      BY <1>9, <2>1
    <3>. QED
      BY <1>2, <3>1
  <2>3. ToSet(bar \o f[2]) = ToSet(bar) \cup ToSet(f[2])
    BY <1>9, <1>10, <2>1, ConcatHas DEF Joins
  <2>. QED
    BY <1>10, <2>2, <2>3
<1>7. FlattenSeq(fs) = <<>> <=> n = 1 /\ f[1] = <<>>
  <2>1. n = 1 => 1..n = {1}
    OBVIOUS
  <2>. QED
    BY <1>4, <1>5, <1>6, <1>9, <2>1
<1>8. f = <<<<>>>> <=> n = 1 /\ f[1] = <<>>
  <2>1. ASSUME f = <<<<>>>> PROVE n = 1 /\ f[1] = <<>>
    <3>1. DOMAIN f = 1..n /\ DOMAIN f = {1}
      BY <2>1
    <3>2. n \in 1..n
      OBVIOUS
    <3>. QED
      BY <2>1, <3>1, <3>2
  <2>2. ASSUME n = 1, f[1] = <<>> PROVE f = <<<<>>>>
    BY <2>2
  <2>. QED
    BY <2>1, <2>2
<1>. QED
  BY <1>7, <1>8 DEF Joined, fs

\* The tables there may be, and the rules.
TheTables == UNION {[S -> Rows] : S \in SUBSET RowIds}
RuleOf(rule) == raw \in RawConfigs /\ rule = LoadFingerprintConfig(raw) /\ rule # Error

\* A rule that was loaded has a field, and each of its steps is one there is.
LEMMA RuleIsValid ==
    ASSUME NEW rule, RuleOf(rule), NEW row \in Rows
    PROVE  \E n \in Nat \ {0} : /\ DOMAIN rule = 1..n
                                /\ \A i \in 1..n : rule[i] \in Seq(NormalizePrimitives) /\ row[i] \in Texts \cup {NoText}
<1>. DEFINE fields == raw.fields
            n == Len(fields)
            F == [column : BOOLEAN, normalize : Seq(STRING)]
<1>1. /\ fields # <<>> /\ \A i \in DOMAIN fields : FieldValid(fields[i])
      /\ rule = [i \in DOMAIN fields |-> fields[i].normalize]
  BY DEF RuleOf, LoadFingerprintConfig
<1>2. fields \in Seq(F) /\ row \in Seq(Texts \cup {NoText}) /\ Len(fields) <= Len(row)
  BY RulesAssumption DEF RuleOf
<1>. HIDE DEF fields, F
<1>3. n \in Nat \ {0} /\ DOMAIN fields = 1..n /\ \A i \in 1..n : fields[i] \in F
  BY <1>1, <1>2
<1>4. \A i \in 1..n : row[i] \in Texts \cup {NoText}
  <2>1. Len(row) \in Nat /\ \A i \in 1..Len(row) : row[i] \in Texts \cup {NoText}
    BY <1>2
  <2>. QED
    BY <1>2, <1>3, <2>1
<1>5. ASSUME NEW i \in 1..n PROVE rule[i] \in Seq(NormalizePrimitives)
  <2>1. rule[i] = fields[i].normalize /\ rule[i] \in Seq(STRING)
    BY <1>1, <1>3 DEF F
  <2>2. ToSet(rule[i]) \subseteq NormalizePrimitives
    BY <1>1, <1>3, <2>1 DEF FieldValid
  <2>3. rule[i] \in [1..Len(rule[i]) -> NormalizePrimitives] /\ Len(rule[i]) \in Nat
    BY <2>1, <2>2 DEF ToSet
  <2>. QED
    BY <2>3
<1>. QED
  BY <1>1, <1>3, <1>4, <1>5

\* The fingerprint is made of the identity; when no normalized value has the
\* separator in it, two rows have the same one exactly if they have the same
\* identity, and none exactly if the identity is one empty value.
LEMMA FingerprintTells ==
    ASSUME NEW rule, RuleOf(rule), NEW row \in Rows, NEW other \in Rows
    PROVE  /\ Identity(row, rule) = Identity(other, rule) => FingerprintOf(row, rule) = FingerprintOf(other, rule)
           /\ FingerprintOf(row, rule) = <<>> <=> Identity(row, rule) = <<<<>>>>
           /\ /\ \A i \in DOMAIN rule : Separator \notin ToSet(Identity(row, rule)[i])
              /\ \A i \in DOMAIN rule : Separator \notin ToSet(Identity(other, rule)[i])
              /\ FingerprintOf(row, rule) = FingerprintOf(other, rule)
              => Identity(row, rule) = Identity(other, rule)
<1>1. PICK n \in Nat \ {0} : /\ DOMAIN rule = 1..n
                             /\ \A i \in 1..n : rule[i] \in Seq(NormalizePrimitives) /\ row[i] \in Texts \cup {NoText}
  BY RuleIsValid
<1>2. \A i \in 1..n : other[i] \in Texts \cup {NoText}
  <2>1. PICK m \in Nat \ {0} : DOMAIN rule = 1..m /\ \A i \in 1..m : other[i] \in Texts \cup {NoText}
    BY RuleIsValid
  <2>. QED
    BY <1>1, <2>1
<1>3. ASSUME NEW r, \A i \in 1..n : r[i] \in Texts \cup {NoText}
      PROVE  Identity(r, rule) \in [1..n -> Joins] /\ FingerprintOf(r, rule) = Joined(Identity(r, rule), n)
  <2>1. \A i \in 1..n : /\ FieldExpression(r[i], rule[i]) = FoldLeft(Normalize, Coalesced(r[i]), rule[i])
                        /\ FieldExpression(r[i], rule[i]) \in Joins
    BY <1>1, <1>3, FieldIsNormalized, TextsAreJoins
  <2>. DEFINE id == Identity(r, rule)
  <2>2. id = [i \in 1..n |-> FoldLeft(Normalize, Coalesced(r[i]), rule[i])]
    BY <1>1 DEF Identity
  <2>. HIDE DEF id
  <2>3. id \in [1..n -> Joins] /\ \A i \in 1..n : id[i] = FieldExpression(r[i], rule[i])
    BY <2>1, <2>2
  <2>4. [i \in DOMAIN rule |-> (IF i = 1 THEN <<>> ELSE <<Separator>>) \o FieldExpression(r[i], rule[i])]
          = [i \in 1..n |-> Part(id, i)]
    BY <1>1, <2>3 DEF Part
  <2>. QED
    BY <2>3, <2>4 DEF FingerprintOf, Joined, id
<1>4. /\ Identity(row, rule) \in [1..n -> Joins] /\ FingerprintOf(row, rule) = Joined(Identity(row, rule), n)
      /\ Identity(other, rule) \in [1..n -> Joins] /\ FingerprintOf(other, rule) = Joined(Identity(other, rule), n)
  BY <1>1, <1>2, <1>3
<1>. DEFINE f == Identity(row, rule)
            h == Identity(other, rule)
<1>. HIDE DEF f, h
<1>5. /\ f \in [1..n -> Joins] /\ FingerprintOf(row, rule) = Joined(f, n)
      /\ h \in [1..n -> Joins] /\ FingerprintOf(other, rule) = Joined(h, n)
  BY <1>4 DEF f, h
<1>6. Joined(f, n) = <<>> <=> f = <<<<>>>>
  BY <1>5, JoinedEmpty
<1>7. ASSUME \A i \in 1..n : Separator \notin ToSet(f[i]), \A i \in 1..n : Separator \notin ToSet(h[i]),
             Joined(f, n) = Joined(h, n)
      PROVE  f = h
  BY <1>5, <1>7, JoinedTells
<1>. QED
  BY <1>1, <1>5, <1>6, <1>7 DEF f, h

-----------------------------------------------------------------------------
(* The exact check.                                                        *)

\* Two rows are in one group exactly if they have one fingerprint.
LEMMA GroupsHold ==
    ASSUME NEW t \in TheTables, NEW rule, NEW a \in DOMAIN t, NEW b \in DOMAIN t, a # b
    PROVE  (\E g \in ExactMatches(t, rule) : {a, b} \subseteq g.ids)
             <=> /\ FingerprintOf(t[a], rule) = FingerprintOf(t[b], rule)
                 /\ FingerprintOf(t[a], rule) # <<>>
<1>. DEFINE Fp(id) == FingerprintOf(t[id], rule)
            Group(fp) == {id \in DOMAIN t : Fp(id) = fp}
            fps == {Fp(id) : id \in DOMAIN t} \ {<<>>}
            groups == {[fingerprint |-> fp, ids |-> Group(fp)] : fp \in {f \in fps : Cardinality(Group(f)) > 1}}
<1>1. ExactMatches(t, rule) = groups
  BY DEF ExactMatches, Present
<1>2. DOMAIN t \subseteq RowIds /\ IsFiniteSet(DOMAIN t)
  BY TextsAssumption, FS_Subset DEF TheTables
<1>. HIDE DEF Fp
<1>3. ASSUME NEW g \in groups, {a, b} \subseteq g.ids PROVE Fp(a) = Fp(b) /\ Fp(a) # <<>>
  <2>1. PICK fp \in fps : g = [fingerprint |-> fp, ids |-> Group(fp)]
    <3>. HIDE DEF fps, Group
    <3>. QED
      BY <1>3
  <2>2. a \in Group(fp) /\ b \in Group(fp) /\ fp # <<>>
    <3>1. g.ids = Group(fp)
      <4>. HIDE DEF Group
      <4>. QED
        BY <2>1
    <3>. QED
      BY <1>3, <2>1, <3>1
  <2>. QED
    BY <2>2
<1>4. ASSUME Fp(a) = Fp(b), Fp(a) # <<>> PROVE \E g \in groups : {a, b} \subseteq g.ids
  <2>. DEFINE fp == Fp(a)
  <2>1. fp \in fps /\ {a, b} \subseteq Group(fp)
    BY <1>4
  <2>2. IsFiniteSet(Group(fp)) /\ IsFiniteSet({a, b})
    BY <1>2, FS_Subset, FS_EmptySet, FS_AddElement
  <2>3. Cardinality({a, b}) = 2
    <3>1. Cardinality({a}) = 1 /\ IsFiniteSet({a})
      BY FS_Singleton
    <3>2. {a, b} = {a} \cup {b} /\ b \notin {a}
      OBVIOUS
    <3>. QED
      BY <3>1, <3>2, FS_AddElement
  <2>. HIDE DEF fp, Group
  <2>4. Cardinality(Group(fp)) > 1
    <3>1. Cardinality({a, b}) <= Cardinality(Group(fp)) /\ Cardinality(Group(fp)) \in Nat
      BY <2>1, <2>2, FS_Subset, FS_CardinalityType
    <3>. QED
      BY <2>3, <3>1
  <2>5. [fingerprint |-> fp, ids |-> Group(fp)] \in groups
    BY <2>1, <2>4
  <2>. QED
    BY <2>1, <2>5
<1>. QED
  BY <1>1, <1>3, <1>4 DEF Fp

-----------------------------------------------------------------------------
(* The duplicates check, while the client goes on writing.                 *)

\* The fuzzy check's answer about a table.
PairsOf(t, rule) == {Pairs(fps) : fps \in Capped({FingerprintOf(t[id], rule) : id \in DOMAIN t} \ {<<>>})}

\* The two checks use one rule, the one the file has; the exact check's answer
\* is about the table it saw, which is the present one if nobody wrote.
DuplicatesIInv ==
    /\ raw \in RawConfigs /\ table \in TheTables /\ writes \in Nat
    /\ exact # NotRun =>
          /\ past.table \in TheTables /\ past.rule = LoadFingerprintConfig(raw)
          /\ exact = IF past.rule = Error THEN Error ELSE ExactMatches(past.table, past.rule)
          /\ writes = 0 => past.table = table
    /\ fuzzy # NotRun =>
          \/ fuzzy \in {NotAssessed, Error}
          \/ LoadFingerprintConfig(raw) # Error /\ fuzzy \in PairsOf(table, LoadFingerprintConfig(raw))

\* Every step keeps the invariant.
LEMMA DuplicatesStep == ASSUME DuplicatesIInv, [DuplicatesNext]_duplicatesVars PROVE DuplicatesIInv'
<1>. USE DEF DuplicatesIInv
<1>1. CASE CheckExactMatchDuplicates
  BY <1>1 DEF CheckExactMatchDuplicates
<1>2. CASE CheckFuzzyMatchDuplicates
  <2>. DEFINE rule == LoadFingerprintConfig(raw)
  <2>1. \/ fuzzy' \in {NotAssessed, Error}
        \/ rule # Error /\ fuzzy' \in PairsOf(table, rule)
    BY <1>2 DEF CheckFuzzyMatchDuplicates, PairsOf, Present
  <2>2. UNCHANGED <<table, raw, exact, past, writes>>
    BY <1>2 DEF CheckFuzzyMatchDuplicates
  <2>3. LoadFingerprintConfig(raw)' = rule
    BY <2>2
  <2>. HIDE DEF rule
  <2>. QED
    BY <2>1, <2>2, <2>3 DEF rule
<1>3. CASE ClientWrites
  <2>1. UNCHANGED <<raw, exact, fuzzy, past>> /\ fuzzy = NotRun /\ writes' = writes + 1
    BY <1>3 DEF ClientWrites
  <2>2. table' \in TheTables
    <3>1. PICK S \in SUBSET RowIds : table \in [S -> Rows]
      BY DEF TheTables
    <3>2. PICK id \in RowIds :
             \/ \E row \in Rows : table' = [i \in DOMAIN table \cup {id} |-> IF i = id THEN row ELSE table[i]]
             \/ table' = [i \in DOMAIN table \ {id} |-> table[i]]
      BY <1>3 DEF ClientWrites
    <3>3. ASSUME NEW row \in Rows, table' = [i \in DOMAIN table \cup {id} |-> IF i = id THEN row ELSE table[i]]
          PROVE  table' \in [S \cup {id} -> Rows]
      BY <3>1, <3>3
    <3>4. ASSUME table' = [i \in DOMAIN table \ {id} |-> table[i]] PROVE table' \in [S \ {id} -> Rows]
      BY <3>1, <3>4
    <3>5. S \cup {id} \in SUBSET RowIds /\ S \ {id} \in SUBSET RowIds
      OBVIOUS
    <3>. QED
      BY <3>2, <3>3, <3>4, <3>5 DEF TheTables
  <2>3. exact' # NotRun => ~(writes' = 0)
    BY <2>1
  <2>. QED
    BY <2>1, <2>2, <2>3
<1>4. CASE UNCHANGED duplicatesVars
  BY <1>4 DEF duplicatesVars
<1>. QED
  BY <1>1, <1>2, <1>3, <1>4 DEF DuplicatesNext, DuplicatesOver

\* Two rows of the table the exact check saw are reported together exactly if
\* the rule gives them one identity.
LEMMA TableTells ==
    ASSUME NEW t \in TheTables, NEW rule, RuleOf(rule), Unambiguous(t, rule),
           NEW a \in DOMAIN t, NEW b \in DOMAIN t, a # b
    PROVE  (\E g \in ExactMatches(t, rule) : {a, b} \subseteq g.ids)
             <=> /\ Identity(t[a], rule) = Identity(t[b], rule)
                 /\ Identity(t[a], rule) # <<<<>>>>
<1>1. t[a] \in Rows /\ t[b] \in Rows
  BY DEF TheTables
<1>2. /\ \A i \in DOMAIN rule : Separator \notin ToSet(Identity(t[a], rule)[i])
      /\ \A i \in DOMAIN rule : Separator \notin ToSet(Identity(t[b], rule)[i])
  BY DEF Unambiguous
<1>3. /\ FingerprintOf(t[a], rule) = FingerprintOf(t[b], rule) <=> Identity(t[a], rule) = Identity(t[b], rule)
      /\ FingerprintOf(t[a], rule) = <<>> <=> Identity(t[a], rule) = <<<<>>>>
  BY <1>1, <1>2, FingerprintTells
<1>. QED
  BY <1>3, GroupsHold

\* The exact check groups the rows by the identity the rule describes, for
\* every table and every rule: joining the normalized fields loses nothing
\* where no value has the separator in it (fetch_exact_match_duplicates).
THEOREM GroupsByIdentity == DuplicatesSpec => []GroupsAreIdentities
<1>1. DuplicatesInit => DuplicatesIInv
  BY DEF DuplicatesInit, DuplicatesIInv, TheTables
<1>2. DuplicatesIInv => GroupsAreIdentities
  <2>1. SUFFICES ASSUME DuplicatesIInv, ListsFindings(exact), Unambiguous(past.table, past.rule),
                        NEW a \in DOMAIN past.table, NEW b \in DOMAIN past.table, a # b
                 PROVE  (\E g \in exact : {a, b} \subseteq g.ids)
                          <=> /\ Identity(past.table[a], past.rule) = Identity(past.table[b], past.rule)
                              /\ Identity(past.table[a], past.rule) # <<<<>>>>
    BY DEF GroupsAreIdentities
  <2>2. past.table \in TheTables /\ RuleOf(past.rule) /\ exact = ExactMatches(past.table, past.rule)
    BY <2>1 DEF DuplicatesIInv, ListsFindings, RuleOf
  <2>. QED
    BY <2>1, <2>2, TableTells
<1>. QED
  BY <1>1, <1>2, DuplicatesStep, PTL DEF DuplicatesSpec

\* In a table nobody writes to, two rows that the checks consider alike are
\* reported by exactly one of the two, save for the fuzzy check's cap, whatever
\* similar means (check_exact_match_duplicates, check_fuzzy_match_duplicates).
THEOREM AlikeOnce == DuplicatesSpec => []AlikeIsReportedOnce
<1>1. DuplicatesInit => DuplicatesIInv
  BY DEF DuplicatesInit, DuplicatesIInv, TheTables
<1>2. DuplicatesIInv => AlikeIsReportedOnce
  <2>. DEFINE rule == past.rule
              Fp(id) == FingerprintOf(table[id], rule)
              all == {Fp(id) : id \in DOMAIN table} \ {<<>>}
              InExact(a, b) == \E g \in exact : {a, b} \subseteq g.ids
              InFuzzy(a, b) == {Fp(a), Fp(b)} \in fuzzy
              capHit == Cardinality(all) > MaxDistinct
  <2>1. ASSUME DuplicatesIInv, ListsFindings(exact), ListsFindings(fuzzy), writes = 0,
               NEW a \in DOMAIN table, NEW b \in DOMAIN table, a # b,
               Fp(a) # <<>>, Fp(b) # <<>>, Similar(Fp(a), Fp(b))
        PROVE  /\ InExact(a, b) <=> Fp(a) = Fp(b)
               /\ Fp(a) = Fp(b) => ~InFuzzy(a, b)
               /\ Fp(a) # Fp(b) /\ ~capHit => InFuzzy(a, b)
    <3>1. /\ table \in TheTables /\ exact = ExactMatches(table, rule)
          /\ fuzzy \in PairsOf(table, rule)
      BY <2>1 DEF DuplicatesIInv, ListsFindings
    <3>2. InExact(a, b) <=> Fp(a) = Fp(b)
      BY <2>1, <3>1, GroupsHold
    <3>3. PICK fps \in Capped(all) : fuzzy = Pairs(fps)
      BY <3>1 DEF PairsOf
    <3>. HIDE DEF Fp, rule
    <3>4. Fp(a) \in all /\ Fp(b) \in all
      BY <2>1
    <3>. HIDE DEF all
    <3>5. ~capHit => fps = all
      <4>1. IsFiniteSet(all)
        <5>1. IsFiniteSet(DOMAIN table)
          BY <3>1, TextsAssumption, FS_Subset DEF TheTables
        <5>. DEFINE fp == [id \in DOMAIN table |-> Fp(id)]
        <5>2. fp \in Surjection(DOMAIN table, {Fp(id) : id \in DOMAIN table})
          BY DEF Surjection
        <5>3. IsFiniteSet({Fp(id) : id \in DOMAIN table})
          BY <5>1, <5>2, FS_Surjection DEF ExistsSurjection
        <5>. QED
          BY <5>3, FS_Subset DEF all
      <4>2. Cardinality(all) \in Nat /\ MaxDistinct \in Nat
        BY <4>1, FS_CardinalityType, TextsAssumption
      <4>. QED
        BY <3>3, <4>2 DEF Capped
    <3>6. Fp(a) = Fp(b) => {Fp(a), Fp(b)} \notin Pairs(fps)
      BY DEF Pairs
    <3>7. Fp(a) # Fp(b) => {Fp(a), Fp(b)} \in Pairs(all)
      <4>. DEFINE p == <<Fp(a), Fp(b)>>
      <4>1. p \in all \X all /\ p[1] = Fp(a) /\ p[2] = Fp(b)
        BY <3>4
      <4>. HIDE DEF p
      <4>. QED
        BY <2>1, <4>1 DEF Pairs
    <3>. QED
      BY <3>2, <3>3, <3>5, <3>6, <3>7
  <2>. HIDE DEF InExact, InFuzzy, capHit, Fp
  <2>2. ASSUME DuplicatesIInv, ListsFindings(exact), ListsFindings(fuzzy), writes = 0,
               NEW a \in DOMAIN table, NEW b \in DOMAIN table, a # b,
               Fp(a) # <<>>, Fp(b) # <<>>, Similar(Fp(a), Fp(b))
        PROVE  /\ InExact(a, b) # InFuzzy(a, b) \/ (capHit /\ ~InExact(a, b) /\ ~InFuzzy(a, b))
               /\ InExact(a, b) <=> Fp(a) = Fp(b)
    BY <2>1, <2>2, Zenon
  <2>3. QED
    BY <2>2, Zenon DEF AlikeIsReportedOnce, InExact, InFuzzy, capHit, Fp
<1>. QED
  BY <1>1, <1>2, DuplicatesStep, PTL DEF DuplicatesSpec

-----------------------------------------------------------------------------
(* The sections of the report.                                             *)

\* The findings there may be, and the results of categories.
Stamped == [id : Nat \X Nat \X Nat, severity : 0..4, requires : BOOLEAN, outcome : {"none", "confirmed", "rejected"}]
Results ==
    {Completed(c, out) : c \in 1..N, out \in [1..K -> Outcomes]}
      \cup {Empty(c, st, hasNotes) : c \in 1..(N + 1), st \in {"not_applicable", "completed"}, hasNotes \in BOOLEAN}

\* Those chooses like Sifted does.
LEMMA ThoseHas ==
    ASSUME NEW T, NEW fs \in Seq(T), NEW S
    PROVE  /\ Those(fs, S) \in Seq(T) /\ ToSet(Those(fs, S)) = ToSet(fs) \cap S
           /\ (IsInjective(fs) => IsInjective(Those(fs, S)))
<1>1. Those(fs, S) = Sifted(fs, S)
  BY DEF Those, Sifted
<1>. QED
  BY <1>1, SiftedHas

\* The findings a person did not reject.
LEMMA VisibleHas ==
    ASSUME NEW T, NEW fs \in Seq(T)
    PROVE  /\ VisibleFindings(fs) \in Seq(T)
           /\ ToSet(VisibleFindings(fs)) = {f \in ToSet(fs) : ~Rejected(f)}
           /\ (IsInjective(fs) => IsInjective(VisibleFindings(fs)))
<1>. DEFINE S == {f \in ToSet(fs) : ~Rejected(f)}
<1>1. /\ Those(fs, S) \in Seq(T) /\ ToSet(Those(fs, S)) = ToSet(fs) \cap S
      /\ (IsInjective(fs) => IsInjective(Those(fs, S)))
  BY ThoseHas
<1>2. ToSet(fs) \cap S = S
  OBVIOUS
<1>. QED
  BY <1>1, <1>2 DEF VisibleFindings

\* The findings of one check are known by their places.
LEMMA StampHas ==
    ASSUME NEW c \in Nat, NEW j \in Nat, NEW o \in Outcomes
    PROVE  /\ Stamp(c, j, o.found) \in Seq(Stamped) /\ IsInjective(Stamp(c, j, o.found))
           /\ \A f \in ToSet(Stamp(c, j, o.found)) : f.id[1] = c /\ f.id[2] = j
           /\ \A f, g \in ToSet(Stamp(c, j, o.found)) : f.id = g.id => f = g
<1>. DEFINE s == Stamp(c, j, o.found)
            F == [severity : 0..4, requires : BOOLEAN, outcome : {"none", "confirmed", "rejected"}]
            drawn == o.found
            n == Len(drawn)
<1>1. drawn \in Seq(F)
  BY OutcomesAreTyped
<1>. HIDE DEF drawn, F
<1>2. n \in Nat /\ DOMAIN drawn = 1..n /\ \A i \in 1..n : drawn[i] \in F
  BY <1>1
<1>. HIDE DEF n
<1>3. s = [i \in 1..n |-> [id |-> <<c, j, i>>, severity |-> drawn[i].severity,
                           requires |-> drawn[i].requires, outcome |-> drawn[i].outcome]]
  BY <1>2 DEF Stamp, drawn
<1>. HIDE DEF s
<1>4. \A i \in 1..n : s[i] \in Stamped
  <2>1. ASSUME NEW i \in 1..n PROVE s[i] \in Stamped
    <3>1. <<c, j, i>> \in Nat \X Nat \X Nat
      BY <1>2
    <3>2. drawn[i].severity \in 0..4 /\ drawn[i].requires \in BOOLEAN /\ drawn[i].outcome \in {"none", "confirmed", "rejected"}
      BY <1>2 DEF F
    <3>. QED
      BY <1>3, <3>1, <3>2 DEF Stamped
  <2>. QED
    BY <2>1
<1>5. s \in Seq(Stamped) /\ DOMAIN s = 1..n
  BY <1>2, <1>3, <1>4
<1>6. \A i \in 1..n : s[i].id = <<c, j, i>>
  BY <1>3
<1>7. \A i, k \in 1..n : s[i].id = s[k].id => i = k
  BY <1>6
<1>8. IsInjective(s)
  BY <1>5, <1>7 DEF IsInjective
<1>9. \A f \in ToSet(s) : f.id[1] = c /\ f.id[2] = j
  BY <1>5, <1>6 DEF ToSet
<1>10. \A f, g \in ToSet(s) : f.id = g.id => f = g
  BY <1>5, <1>7 DEF ToSet
<1>. QED
  BY <1>5, <1>8, <1>9, <1>10 DEF s

\* Findings are told apart by their ids.
Told(S) == \A f, g \in S : f.id = g.id => f = g

\* As many ids as findings.
LEMMA AsManyIds ==
    ASSUME NEW S, IsFiniteSet(S), Told(S)
    PROVE  IsFiniteSet({f.id : f \in S}) /\ Cardinality({f.id : f \in S}) = Cardinality(S)
<1>. DEFINE ids == {f.id : f \in S}
            g == [f \in S |-> f.id]
<1>1. g \in Bijection(S, ids)
  BY DEF Bijection, Injection, Surjection, IsInjective, Told
<1>2. ExistsBijection(S, ids)
  BY <1>1 DEF ExistsBijection
<1>. QED
  BY <1>2, FS_Bijection

\* The results of checks, and what relates a category's to its findings.
Recorded == [check : Nat \X Nat, status : {"error", "findings", "passed"}, count : Nat]
Owned(r, p) == {f \in ToSet(r.findings) : ~Rejected(f) /\ <<f.id[1], f.id[2]>> = p}
Proper(r) ==
    /\ r.number \in 1..(N + 1)
    /\ r.findings \in Seq(Stamped) /\ IsInjective(r.findings) /\ Told(ToSet(r.findings))
    /\ \A f \in ToSet(r.findings) : f.id[1] = r.number
    /\ r.records \in Seq(Recorded)
    /\ \A cr \in ToSet(r.records) : cr.check[1] = r.number /\ (cr.status # "error" => cr.count = Cardinality(Owned(r, cr.check)))
    /\ (r.status = "not_applicable" \/ r.notes => r.findings = <<>>)

\* A result without findings.
LEMMA EmptyIsProper ==
    ASSUME NEW c \in 1..(N + 1), NEW st, NEW hasNotes \in BOOLEAN
    PROVE  Proper(Empty(c, st, hasNotes))
<1>1. ToSet(<<>>) = {} /\ IsInjective(<<>>)
  BY DEF ToSet, IsInjective
<1>2. <<>> \in Seq(Stamped) /\ <<>> \in Seq(Recorded)
  OBVIOUS
<1>. QED
  BY <1>1, <1>2 DEF Proper, Empty, Told

\* The record of a check counts its findings.
LEMMA RecordCounts ==
    ASSUME NEW c \in Nat, NEW j \in Nat, NEW o \in Outcomes
    PROVE  /\ Record(c, j, o) \in Recorded /\ Record(c, j, o).check = <<c, j>>
           /\ (Record(c, j, o).status # "error" =>
                 Record(c, j, o).count = Cardinality({f \in ToSet(Stamp(c, j, o.found)) : ~Rejected(f)}))
<1>. DEFINE visible == VisibleFindings(Stamp(c, j, o.found))
            n == Len(visible)
            those == {f \in ToSet(Stamp(c, j, o.found)) : ~Rejected(f)}
<1>1. Stamp(c, j, o.found) \in Seq(Stamped) /\ IsInjective(Stamp(c, j, o.found))
  BY StampHas
<1>2. visible \in Seq(Stamped) /\ ToSet(visible) = those /\ IsInjective(visible)
  BY <1>1, VisibleHas
<1>. HIDE DEF visible, those
<1>3. n = Cardinality(those) /\ n \in Nat
  BY <1>2, OnceEach
<1>4. Record(c, j, o) = [check |-> <<c, j>>,
                         status |-> IF o.raised THEN "error" ELSE IF n > 0 THEN "findings" ELSE "passed",
                         count |-> IF o.raised THEN 0 ELSE n]
  BY DEF Record, visible
<1>. HIDE DEF n
<1>5. <<c, j>> \in Nat \X Nat
  OBVIOUS
<1>6. Record(c, j, o) \in Recorded
  BY <1>3, <1>4, <1>5 DEF Recorded
<1>7. ~o.raised => Record(c, j, o).count = n
  BY <1>4
<1>8. o.raised => Record(c, j, o).status = "error"
  BY <1>4
<1>. QED
  BY <1>3, <1>4, <1>6, <1>7, <1>8 DEF those

\* The result of a category whose checks ran.
LEMMA CompletedIsProper ==
    ASSUME NEW c \in 1..N, NEW out \in [1..K -> Outcomes]
    PROVE  Proper(Completed(c, out))
<1>. DEFINE stamps == [j \in 1..K |-> Stamp(c, j, out[j].found)]
            findings == FlattenSeq(stamps)
            records == [j \in 1..K |-> Record(c, j, out[j])]
            r == Completed(c, out)
<1>1. c \in Nat /\ N \in Nat /\ K \in Nat /\ c \in 1..(N + 1)
  BY RenderAssumption
<1>2. \A j \in 1..K : j \in Nat /\ out[j] \in Outcomes
  BY <1>1
<1>3. \A j \in 1..K : /\ stamps[j] \in Seq(Stamped) /\ IsInjective(stamps[j])
                      /\ \A f \in ToSet(stamps[j]) : f.id[1] = c /\ f.id[2] = j
                      /\ \A f, g \in ToSet(stamps[j]) : f.id = g.id => f = g
  <2>1. ASSUME NEW j \in 1..K
        PROVE  /\ Stamp(c, j, out[j].found) \in Seq(Stamped) /\ IsInjective(Stamp(c, j, out[j].found))
               /\ \A f \in ToSet(Stamp(c, j, out[j].found)) : f.id[1] = c /\ f.id[2] = j
               /\ \A f, g \in ToSet(Stamp(c, j, out[j].found)) : f.id = g.id => f = g
    BY <1>1, <1>2, StampHas
  <2>. QED
    BY <2>1
<1>4. stamps \in Seq(Seq(Stamped)) /\ DOMAIN stamps = 1..K
  <2>1. stamps \in [1..K -> Seq(Stamped)] /\ DOMAIN stamps = 1..K
    <3>1. \A j \in 1..K : Stamp(c, j, out[j].found) \in Seq(Stamped)
      BY <1>3
    <3>. QED
      BY <3>1
  <2>. HIDE DEF stamps
  <2>. QED
    BY <1>1, <2>1
<1>5. \A j \in 1..K : stamps[j] = Stamp(c, j, out[j].found)
  OBVIOUS
<1>. HIDE DEF stamps
<1>6. \A i, j \in 1..K : i # j => ToSet(stamps[i]) \cap ToSet(stamps[j]) = {}
  <2>1. ASSUME NEW i \in 1..K, NEW j \in 1..K, NEW f \in ToSet(stamps[i]) \cap ToSet(stamps[j]) PROVE i = j
    <3>1. f.id[2] = i /\ f.id[2] = j
      BY <1>3
    <3>. QED
      BY <3>1
  <2>. QED
    BY <2>1
<1>7. /\ findings \in Seq(Stamped) /\ IsInjective(findings)
      /\ ToSet(findings) = UNION {ToSet(stamps[j]) : j \in 1..K}
  BY <1>3, <1>4, <1>6, FlattenHas
<1>8. r = [number |-> c, status |-> "completed", notes |-> FALSE, findings |-> findings, records |-> records]
  BY DEF Completed, stamps
<1>. HIDE DEF findings
<1>9. \A f \in ToSet(findings) : f.id[1] = c
  BY <1>3, <1>7
<1>10. Told(ToSet(findings))
  <2>1. ASSUME NEW f \in ToSet(findings), NEW g \in ToSet(findings), f.id = g.id PROVE f = g
    <3>1. PICK i \in 1..K : f \in ToSet(stamps[i])
      BY <1>7
    <3>2. PICK j \in 1..K : g \in ToSet(stamps[j])
      BY <1>7
    <3>3. i = j
      BY <1>3, <2>1, <3>1, <3>2
    <3>. QED
      BY <1>3, <2>1, <3>1, <3>2, <3>3
  <2>. QED
    BY <2>1 DEF Told
<1>11. \A j \in 1..K : /\ records[j] \in Recorded /\ records[j].check = <<c, j>>
                       /\ (records[j].status # "error" => records[j].count = Cardinality({f \in ToSet(stamps[j]) : ~Rejected(f)}))
  <2>1. ASSUME NEW j \in 1..K
        PROVE  /\ Record(c, j, out[j]) \in Recorded /\ Record(c, j, out[j]).check = <<c, j>>
               /\ (Record(c, j, out[j]).status # "error" =>
                     Record(c, j, out[j]).count = Cardinality({f \in ToSet(stamps[j]) : ~Rejected(f)}))
    <3>1. /\ Record(c, j, out[j]) \in Recorded /\ Record(c, j, out[j]).check = <<c, j>>
          /\ (Record(c, j, out[j]).status # "error" =>
                 Record(c, j, out[j]).count = Cardinality({f \in ToSet(Stamp(c, j, out[j].found)) : ~Rejected(f)}))
      BY <1>1, <1>2, RecordCounts
    <3>2. {f \in ToSet(Stamp(c, j, out[j].found)) : ~Rejected(f)} = {f \in ToSet(stamps[j]) : ~Rejected(f)}
      BY <1>5
    <3>. QED
      BY <3>1, <3>2
  <2>. QED
    BY <2>1
<1>12. records \in Seq(Recorded) /\ ToSet(records) = {records[j] : j \in 1..K}
  <2>1. records \in [1..K -> Recorded]
    <3>1. \A j \in 1..K : Record(c, j, out[j]) \in Recorded
      BY <1>11
    <3>. QED
      BY <3>1
  <2>. HIDE DEF records
  <2>. QED
    BY <1>1, <2>1 DEF ToSet
<1>. HIDE DEF records, r
<1>13. \A j \in 1..K : {f \in ToSet(stamps[j]) : ~Rejected(f)} = Owned(r, <<c, j>>)
  <2>1. ASSUME NEW j \in 1..K PROVE {f \in ToSet(stamps[j]) : ~Rejected(f)} = Owned(r, <<c, j>>)
    <3>1. ASSUME NEW f \in ToSet(findings) PROVE f \in ToSet(stamps[j]) <=> <<f.id[1], f.id[2]>> = <<c, j>>
      <4>1. PICK i \in 1..K : f \in ToSet(stamps[i])
        BY <1>7
      <4>2. f.id[1] = c /\ f.id[2] = i
        BY <1>3, <4>1
      <4>3. f \in ToSet(stamps[j]) => i = j
        BY <1>3, <4>2
      <4>. QED
        BY <4>1, <4>2, <4>3
    <3>2. ToSet(stamps[j]) \subseteq ToSet(findings)
      BY <1>7
    <3>. QED
      BY <1>8, <3>1, <3>2 DEF Owned
  <2>. QED
    BY <2>1
<1>14. \A cr \in ToSet(records) : cr.check[1] = c /\ (cr.status # "error" => cr.count = Cardinality(Owned(r, cr.check)))
  <2>1. ASSUME NEW cr \in ToSet(records)
        PROVE  cr.check[1] = c /\ (cr.status # "error" => cr.count = Cardinality(Owned(r, cr.check)))
    <3>1. PICK j \in 1..K : cr = records[j]
      BY <1>12
    <3>2. cr.check = <<c, j>> /\ {f \in ToSet(stamps[j]) : ~Rejected(f)} = Owned(r, cr.check)
      BY <1>11, <1>13, <3>1
    <3>3. cr.check[1] = c
      BY <3>2
    <3>4. cr.status # "error" => cr.count = Cardinality({f \in ToSet(stamps[j]) : ~Rejected(f)})
      BY <1>11, <3>1
    <3>. QED
      BY <3>2, <3>3, <3>4
  <2>. QED
    BY <2>1
<1>15. /\ r.number = c /\ r.findings = findings /\ r.records = records
       /\ r.status = "completed" /\ r.notes = FALSE
  BY <1>8
<1>16. Proper(r)
  BY <1>1, <1>7, <1>9, <1>10, <1>12, <1>14, <1>15 DEF Proper
<1>. QED
  BY <1>16 DEF r

\* The results there can be so far: each of a later category than the last.
Ordered(rs) ==
    /\ rs \in Seq(Results)
    /\ \A i, j \in DOMAIN rs : i < j => rs[i].number < rs[j].number

Found(rs) == UNION {ToSet(rs[i].findings) : i \in DOMAIN rs}
Kept(rs) == {f \in Found(rs) : ~Rejected(f)}

\* Every result that a category can have.
LEMMA ResultsAreProper == \A r \in Results : Proper(r)
<1>1. ASSUME NEW c \in 1..N, NEW out \in [1..K -> Outcomes] PROVE Proper(Completed(c, out))
  BY CompletedIsProper
<1>2. ASSUME NEW c \in 1..(N + 1), NEW st, NEW hasNotes \in BOOLEAN PROVE Proper(Empty(c, st, hasNotes))
  BY EmptyIsProper
<1>. QED
  BY <1>1, <1>2 DEF Results

\* The parts of an ordered sequence of results.
LEMMA OrderedHas ==
    ASSUME NEW rs, Ordered(rs)
    PROVE  /\ Len(rs) \in Nat /\ DOMAIN rs = 1..Len(rs)
           /\ \A i \in DOMAIN rs : rs[i] \in Results /\ Proper(rs[i])
           /\ \A i, j \in DOMAIN rs : rs[i].number = rs[j].number => i = j
<1>1. Len(rs) \in Nat /\ DOMAIN rs = 1..Len(rs) /\ \A i \in DOMAIN rs : rs[i] \in Results
  BY DEF Ordered
<1>2. \A i \in DOMAIN rs : Proper(rs[i])
  BY <1>1, ResultsAreProper
<1>3. \A i \in DOMAIN rs : rs[i].number \in Nat
  BY <1>2, RenderAssumption DEF Proper
<1>4. ASSUME NEW i \in DOMAIN rs, NEW j \in DOMAIN rs, rs[i].number = rs[j].number PROVE i = j
  <2>1. i \in Nat /\ j \in Nat
    BY <1>1
  <2>2. ~(i < j) /\ ~(j < i)
    BY <1>3, <1>4 DEF Ordered
  <2>. QED
    BY <2>1, <2>2
<1>. QED
  BY <1>1, <1>2, <1>4

\* No two findings of the results have the same id.
LEMMA FoundAreTold ==
    ASSUME NEW rs, Ordered(rs)
    PROVE  Told(Found(rs)) /\ \A i \in DOMAIN rs : \A f \in Found(rs) : f.id[1] = rs[i].number => f \in ToSet(rs[i].findings)
<1>1. /\ \A i \in DOMAIN rs : Proper(rs[i])
      /\ \A i, j \in DOMAIN rs : rs[i].number = rs[j].number => i = j
  BY OrderedHas
<1>2. ASSUME NEW i \in DOMAIN rs, NEW f \in Found(rs), f.id[1] = rs[i].number PROVE f \in ToSet(rs[i].findings)
  <2>1. PICK j \in DOMAIN rs : f \in ToSet(rs[j].findings)
    BY DEF Found
  <2>2. f.id[1] = rs[j].number
    BY <1>1, <2>1 DEF Proper
  <2>. QED
    BY <1>1, <1>2, <2>1, <2>2
<1>3. ASSUME NEW f \in Found(rs), NEW g \in Found(rs), f.id = g.id PROVE f = g
  <2>1. PICK i \in DOMAIN rs : f \in ToSet(rs[i].findings)
    BY DEF Found
  <2>2. f.id[1] = rs[i].number
    BY <1>1, <2>1 DEF Proper
  <2>3. g \in ToSet(rs[i].findings)
    BY <1>2, <1>3, <2>2
  <2>. QED
    BY <1>1, <1>3, <2>1, <2>3 DEF Proper, Told
<1>. QED
  BY <1>2, <1>3 DEF Told

\* The findings in the order of the report are those kept, each of them once.
LEMMA AllFindingsHas ==
    ASSUME NEW rs, Ordered(rs)
    PROVE  /\ AllFindings(rs) \in Seq(Stamped) /\ IsInjective(AllFindings(rs)) /\ ToSet(AllFindings(rs)) = Kept(rs)
<1>. DEFINE parts == [i \in DOMAIN rs |-> rs[i].findings]
            flat == FlattenSeq(parts)
            all == VisibleFindings(flat)
            ranked == [k \in 1..5 |-> Those(all, {f \in ToSet(all) : f.severity = k - 1})]
<1>1. /\ Len(rs) \in Nat /\ DOMAIN rs = 1..Len(rs) /\ \A i \in DOMAIN rs : Proper(rs[i])
      /\ \A i, j \in DOMAIN rs : rs[i].number = rs[j].number => i = j
  BY OrderedHas
<1>2. parts \in Seq(Seq(Stamped)) /\ DOMAIN parts = DOMAIN rs
  <2>1. \A i \in 1..Len(rs) : rs[i].findings \in Seq(Stamped)
    BY <1>1 DEF Proper
  <2>2. parts \in [1..Len(rs) -> Seq(Stamped)] /\ DOMAIN parts = DOMAIN rs
    BY <1>1, <2>1
  <2>. HIDE DEF parts
  <2>. QED
    BY <1>1, <2>2
<1>3. \A i \in DOMAIN rs : /\ IsInjective(parts[i]) /\ ToSet(parts[i]) = ToSet(rs[i].findings)
                           /\ \A f \in ToSet(parts[i]) : f.id[1] = rs[i].number
  BY <1>1 DEF Proper
<1>. HIDE DEF parts
<1>4. \A i, j \in DOMAIN rs : i # j => ToSet(parts[i]) \cap ToSet(parts[j]) = {}
  <2>1. ASSUME NEW i \in DOMAIN rs, NEW j \in DOMAIN rs, NEW f \in ToSet(parts[i]) \cap ToSet(parts[j]) PROVE i = j
    BY <1>1, <1>3
  <2>. QED
    BY <2>1
<1>5. flat \in Seq(Stamped) /\ IsInjective(flat) /\ ToSet(flat) = UNION {ToSet(parts[i]) : i \in DOMAIN rs}
  BY <1>2, <1>3, <1>4, FlattenHas
<1>6. ToSet(flat) = Found(rs)
  BY <1>3, <1>5 DEF Found
<1>. HIDE DEF flat
<1>7. all \in Seq(Stamped) /\ IsInjective(all) /\ ToSet(all) = Kept(rs)
  BY <1>5, <1>6, VisibleHas DEF Kept
<1>. HIDE DEF all
<1>8. \A k \in 1..5 : ranked[k] \in Seq(Stamped) /\ IsInjective(ranked[k]) /\ ToSet(ranked[k]) = {f \in ToSet(all) : f.severity = k - 1}
  <2>1. ASSUME NEW k \in 1..5, NEW S, S = {f \in ToSet(all) : f.severity = k - 1}
        PROVE  Those(all, S) \in Seq(Stamped) /\ IsInjective(Those(all, S)) /\ ToSet(Those(all, S)) = S
    BY <1>7, <2>1, ThoseHas
  <2>. QED
    BY <2>1
<1>9. ranked \in Seq(Seq(Stamped)) /\ DOMAIN ranked = 1..5
  <2>1. ranked \in [1..5 -> Seq(Stamped)] /\ DOMAIN ranked = 1..5
    <3>1. \A k \in 1..5 : Those(all, {f \in ToSet(all) : f.severity = k - 1}) \in Seq(Stamped)
      BY <1>8
    <3>. QED
      BY <3>1
  <2>. HIDE DEF ranked
  <2>2. ASSUME NEW m \in Nat, ranked \in [1..m -> Seq(Stamped)] PROVE ranked \in Seq(Seq(Stamped))
    BY <2>2
  <2>. QED
    BY <2>1, <2>2, 5 \in Nat
<1>10. AllFindings(rs) = FlattenSeq(ranked)
  BY DEF AllFindings, ranked, all, flat, parts
<1>. HIDE DEF ranked
<1>11. \A k, l \in 1..5 : k # l => ToSet(ranked[k]) \cap ToSet(ranked[l]) = {}
  <2>1. ASSUME NEW k \in 1..5, NEW l \in 1..5, NEW f \in ToSet(ranked[k]) \cap ToSet(ranked[l]) PROVE k = l
    <3>1. f.severity = k - 1 /\ f.severity = l - 1
      BY <1>8
    <3>. QED
      BY <3>1
  <2>. QED
    BY <2>1
<1>12. /\ AllFindings(rs) \in Seq(Stamped) /\ IsInjective(AllFindings(rs))
       /\ ToSet(AllFindings(rs)) = UNION {ToSet(ranked[k]) : k \in 1..5}
  <2>1. /\ \A k \in DOMAIN ranked : IsInjective(ranked[k])
        /\ \A k, l \in DOMAIN ranked : k # l => ToSet(ranked[k]) \cap ToSet(ranked[l]) = {}
    BY <1>8, <1>9, <1>11
  <2>2. /\ FlattenSeq(ranked) \in Seq(Stamped) /\ IsInjective(FlattenSeq(ranked))
        /\ ToSet(FlattenSeq(ranked)) = UNION {ToSet(ranked[k]) : k \in DOMAIN ranked}
    BY <1>9, <2>1, FlattenHas
  <2>. QED
    BY <1>9, <1>10, <2>2
<1>13. UNION {ToSet(ranked[k]) : k \in 1..5} = ToSet(all)
  <2>1. ASSUME NEW f \in ToSet(all) PROVE \E k \in 1..5 : f \in ToSet(ranked[k])
    <3>1. f \in Stamped
      BY <1>7 DEF ToSet
    <3>2. f.severity \in 0..4
      BY <3>1 DEF Stamped
    <3>3. f.severity + 1 \in 1..5 /\ f.severity = (f.severity + 1) - 1
      BY <3>2
    <3>. QED
      BY <1>8, <3>3
  <2>. QED
    BY <1>8, <2>1
<1>. QED
  BY <1>7, <1>12, <1>13

\* The ids of a sequence of findings.
LEMMA IdsHas ==
    ASSUME NEW fs \in Seq(Stamped)
    PROVE  Len(IdsOf(fs)) = Len(fs) /\ ToSet(IdsOf(fs)) = {f.id : f \in ToSet(fs)}
<1>1. Len(fs) \in Nat /\ DOMAIN fs = 1..Len(fs)
  OBVIOUS
<1>2. IdsOf(fs) = [i \in 1..Len(fs) |-> fs[i].id]
  BY <1>1 DEF IdsOf
<1>3. IdsOf(fs) \in Seq({fs[i].id : i \in 1..Len(fs)})
  BY <1>1, <1>2
<1>4. Len(IdsOf(fs)) = Len(fs) /\ DOMAIN IdsOf(fs) = 1..Len(fs)
  BY <1>1, <1>2, <1>3
<1>5. ToSet(IdsOf(fs)) = {fs[i].id : i \in 1..Len(fs)}
  BY <1>2, <1>4 DEF ToSet
<1>6. ToSet(fs) = {fs[i] : i \in 1..Len(fs)}
  BY <1>1 DEF ToSet
<1>. QED
  BY <1>4, <1>5, <1>6

\* As many places as elements.
LEMMA AsManyPlaces ==
    ASSUME NEW T, NEW s \in Seq(T), IsInjective(s), NEW S
    PROVE  Cardinality({i \in DOMAIN s : s[i] \in S}) = Cardinality(ToSet(s) \cap S)
<1>. DEFINE places == {i \in DOMAIN s : s[i] \in S}
            those == ToSet(s) \cap S
            g == [i \in places |-> s[i]]
<1>1. g \in Bijection(places, those)
  <2>1. g \in [places -> those]
    BY DEF ToSet
  <2>2. \A t \in those : \E i \in places : g[i] = t
    BY DEF ToSet
  <2>3. \A i, j \in places : g[i] = g[j] => i = j
    BY DEF IsInjective
  <2>. HIDE DEF g, places, those
  <2>4. IsInjective(g)
    BY <2>1, <2>3 DEF IsInjective
  <2>. QED
    BY <2>1, <2>2, <2>4 DEF Bijection, Injection, Surjection
<1>2. ExistsBijection(places, those)
  BY <1>1 DEF ExistsBijection
<1>3. IsFiniteSet(places)
  <2>1. Len(s) \in Nat /\ DOMAIN s = 1..Len(s) /\ IsFiniteSet(1..Len(s))
    BY FS_Interval
  <2>. QED
    BY <2>1, FS_Subset
<1>. QED
  BY <1>2, <1>3, FS_Bijection

\* The detailed findings are those kept.
LEMMA DetailHas ==
    ASSUME NEW rs, Ordered(rs)
    PROVE  UNION {ToSet(DetailedFindings(rs)[i].entries) : i \in DOMAIN DetailedFindings(rs)} = {f.id : f \in Kept(rs)}
<1>. DEFINE numbered == [n \in 1..(N + 1) |-> Those(rs, {r \in ToSet(rs) : r.number = n})]
            byNumber == FlattenSeq(numbered)
<1>1. /\ rs \in Seq(Results) /\ Len(rs) \in Nat /\ DOMAIN rs = 1..Len(rs) /\ \A i \in DOMAIN rs : Proper(rs[i])
      /\ N \in Nat
  BY OrderedHas, RenderAssumption DEF Ordered
<1>2. \A n \in 1..(N + 1) : numbered[n] \in Seq(Results) /\ ToSet(numbered[n]) = {r \in ToSet(rs) : r.number = n}
  <2>1. ASSUME NEW S, S \subseteq ToSet(rs) PROVE Those(rs, S) \in Seq(Results) /\ ToSet(Those(rs, S)) = S
    <3>. HIDE DEF numbered, byNumber
    <3>1. rs \in Seq(Results)
      BY <1>1
    <3>2. Those(rs, S) \in Seq(Results) /\ ToSet(Those(rs, S)) = ToSet(rs) \cap S
      BY <3>1, ThoseHas
    <3>. QED
      BY <2>1, <3>2
  <2>. QED
    BY <2>1
<1>3. numbered \in Seq(Seq(Results)) /\ DOMAIN numbered = 1..(N + 1)
  <2>1. numbered \in [1..(N + 1) -> Seq(Results)] /\ DOMAIN numbered = 1..(N + 1)
    <3>1. \A n \in 1..(N + 1) : Those(rs, {r \in ToSet(rs) : r.number = n}) \in Seq(Results)
      BY <1>2
    <3>. QED
      BY <3>1
  <2>. HIDE DEF numbered
  <2>. QED
    BY <1>1, <2>1
<1>. HIDE DEF numbered
<1>4. byNumber \in Seq(Results) /\ ToSet(byNumber) = UNION {ToSet(numbered[n]) : n \in 1..(N + 1)}
  BY <1>3, FlattenHas
<1>5. ToSet(byNumber) = ToSet(rs)
  <2>1. \A r \in ToSet(rs) : r.number \in 1..(N + 1)
    BY <1>1 DEF ToSet, Proper
  <2>. QED
    BY <1>2, <1>4, <2>1
<1>6. DetailedFindings(rs) = [i \in DOMAIN byNumber |-> CategoryDetail(byNumber[i])]
  BY DEF DetailedFindings, byNumber, numbered
<1>. HIDE DEF byNumber
<1>7. \A r \in ToSet(rs) : ToSet(CategoryDetail(r).entries) = {f.id : f \in {g \in ToSet(r.findings) : ~Rejected(g)}}
  <2>1. ASSUME NEW r \in ToSet(rs)
        PROVE  ToSet(CategoryDetail(r).entries) = {f.id : f \in {g \in ToSet(r.findings) : ~Rejected(g)}}
    <3>. DEFINE fs == VisibleFindings(r.findings)
    <3>1. Proper(r)
      BY <1>1 DEF ToSet
    <3>2. r.findings \in Seq(Stamped) /\ (r.status = "not_applicable" \/ r.notes => r.findings = <<>>)
      BY <3>1 DEF Proper
    <3>3. fs \in Seq(Stamped) /\ ToSet(fs) = {g \in ToSet(r.findings) : ~Rejected(g)}
      BY <3>2, VisibleHas
    <3>. HIDE DEF fs
    <3>4. CategoryDetail(r).entries = IF r.status = "not_applicable" \/ r.notes THEN <<>> ELSE IdsOf(fs)
      BY DEF CategoryDetail, fs
    <3>5. CASE r.status = "not_applicable" \/ r.notes
      BY <3>2, <3>4, <3>5 DEF ToSet
    <3>6. CASE ~(r.status = "not_applicable" \/ r.notes)
      BY <3>3, <3>4, <3>6, IdsHas
    <3>. QED
      BY <3>5, <3>6
  <2>. QED
    BY <2>1
<1>8. \A i \in DOMAIN byNumber : byNumber[i] \in ToSet(rs)
  BY <1>5 DEF ToSet
<1>9. \A r \in ToSet(rs) : \E i \in DOMAIN byNumber : byNumber[i] = r
  BY <1>5 DEF ToSet
<1>. DEFINE listed == UNION {ToSet(DetailedFindings(rs)[i].entries) : i \in DOMAIN DetailedFindings(rs)}
<1>10. listed = UNION {ToSet(CategoryDetail(r).entries) : r \in ToSet(rs)}
  BY <1>6, <1>8, <1>9
<1>11. listed = UNION {{f.id : f \in {g \in ToSet(r.findings) : ~Rejected(g)}} : r \in ToSet(rs)}
  BY <1>7, <1>10
<1>12. Found(rs) = UNION {ToSet(r.findings) : r \in ToSet(rs)}
  BY DEF Found, ToSet
<1>13. listed = {f.id : f \in Kept(rs)}
  BY <1>11, <1>12 DEF Kept
<1>. QED
  BY <1>13

\* The findings shown of one severity, or of several.
OfRanks(rs, ranks) == {f \in Kept(rs) : f.severity \in ranks}

\* There are finitely many findings, and every one has a severity.
LEMMA KeptHas ==
    ASSUME NEW rs, Ordered(rs)
    PROVE  /\ IsFiniteSet(Kept(rs)) /\ Told(Kept(rs)) /\ Kept(rs) \subseteq Stamped
           /\ Len(AllFindings(rs)) = Cardinality(Kept(rs)) /\ Cardinality(Kept(rs)) \in Nat
<1>1. AllFindings(rs) \in Seq(Stamped) /\ IsInjective(AllFindings(rs)) /\ ToSet(AllFindings(rs)) = Kept(rs)
  BY AllFindingsHas
<1>2. IsFiniteSet(Kept(rs)) /\ Len(AllFindings(rs)) = Cardinality(Kept(rs))
  BY <1>1, OnceEach
<1>3. Told(Kept(rs))
  BY FoundAreTold DEF Kept, Told
<1>4. Kept(rs) \subseteq Stamped
  BY <1>1 DEF ToSet
<1>. QED
  BY <1>2, <1>3, <1>4, FS_CardinalityType

\* The findings of disjoint severities are counted apart.
LEMMA RanksAddUp ==
    ASSUME NEW rs, Ordered(rs), NEW A, NEW B, A \cap B = {}
    PROVE  /\ Cardinality(OfRanks(rs, A)) \in Nat /\ Cardinality(OfRanks(rs, B)) \in Nat
           /\ Cardinality(OfRanks(rs, A \cup B)) = Cardinality(OfRanks(rs, A)) + Cardinality(OfRanks(rs, B))
<1>1. IsFiniteSet(Kept(rs))
  BY KeptHas
<1>2. OfRanks(rs, A) \subseteq Kept(rs) /\ OfRanks(rs, B) \subseteq Kept(rs)
  BY DEF OfRanks
<1>3. IsFiniteSet(OfRanks(rs, A)) /\ IsFiniteSet(OfRanks(rs, B))
  BY <1>1, <1>2, FS_Subset
<1>4. OfRanks(rs, A) \cap OfRanks(rs, B) = {} /\ OfRanks(rs, A) \cup OfRanks(rs, B) = OfRanks(rs, A \cup B)
  BY DEF OfRanks
<1>5. Cardinality({}) = 0
  BY FS_EmptySet
<1>6. Cardinality(OfRanks(rs, A)) \in Nat /\ Cardinality(OfRanks(rs, B)) \in Nat
  BY <1>3, FS_CardinalityType
<1>7. Cardinality(OfRanks(rs, A) \cup OfRanks(rs, B))
        = Cardinality(OfRanks(rs, A)) + Cardinality(OfRanks(rs, B)) - Cardinality(OfRanks(rs, A) \cap OfRanks(rs, B))
  BY <1>3, FS_Union
<1>8. Cardinality(OfRanks(rs, A \cup B)) = Cardinality(OfRanks(rs, A)) + Cardinality(OfRanks(rs, B)) - 0
  BY <1>4, <1>5, <1>7, Zenon
<1>. QED
  BY <1>6, <1>8

\* All severities together.
LEMMA AllRanks ==
    ASSUME NEW rs, Ordered(rs)
    PROVE  OfRanks(rs, 0..4) = Kept(rs)
<1>1. \A f \in Kept(rs) : f.severity \in 0..4
  BY KeptHas DEF Stamped
<1>. QED
  BY <1>1 DEF OfRanks

\* What a phase of the remediation shows.
PhaseOf(rs, ranks) == IdsOf(Those(AllFindings(rs), {f \in ToSet(AllFindings(rs)) : f.severity \in ranks}))

\* The findings of a phase are those of its severities, each of them once.
LEMMA PhaseHas ==
    ASSUME NEW rs, Ordered(rs), NEW ranks
    PROVE  ToSet(PhaseOf(rs, ranks)) = {f.id : f \in OfRanks(rs, ranks)} /\ Len(PhaseOf(rs, ranks)) = Cardinality(OfRanks(rs, ranks))
<1>. DEFINE fs == AllFindings(rs)
            S == {f \in ToSet(fs) : f.severity \in ranks}
            those == Those(fs, S)
<1>1. fs \in Seq(Stamped) /\ IsInjective(fs) /\ ToSet(fs) = Kept(rs)
  BY AllFindingsHas
<1>. HIDE DEF fs
<1>2. ToSet(fs) \cap S = S /\ S = OfRanks(rs, ranks)
  BY <1>1 DEF OfRanks
<1>. HIDE DEF S
<1>3. those \in Seq(Stamped) /\ ToSet(those) = ToSet(fs) \cap S /\ IsInjective(those)
  BY <1>1, ThoseHas
<1>4. PhaseOf(rs, ranks) = IdsOf(those)
  BY DEF PhaseOf, those, S, fs
<1>. HIDE DEF those
<1>5. Len(those) = Cardinality(ToSet(those))
  BY <1>3, OnceEach
<1>6. Len(IdsOf(those)) = Len(those) /\ ToSet(IdsOf(those)) = {f.id : f \in ToSet(those)}
  BY <1>3, IdsHas
<1>. QED
  BY <1>2, <1>3, <1>4, <1>5, <1>6

\* What the executive summary counts.
CountIn(rs, k) == Cardinality({i \in DOMAIN AllFindings(rs) : AllFindings(rs)[i].severity = k})

\* It counts the findings of a severity.
LEMMA CountHas ==
    ASSUME NEW rs, Ordered(rs), NEW k
    PROVE  CountIn(rs, k) = Cardinality(OfRanks(rs, {k}))
<1>. DEFINE fs == AllFindings(rs)
            S == OfRanks(rs, {k})
<1>1. fs \in Seq(Stamped) /\ IsInjective(fs) /\ ToSet(fs) = Kept(rs)
  BY AllFindingsHas
<1>. HIDE DEF fs
<1>2. ToSet(fs) \cap S = S
  BY <1>1 DEF OfRanks
<1>3. {i \in DOMAIN fs : fs[i].severity = k} = {i \in DOMAIN fs : fs[i] \in S}
  BY <1>1 DEF ToSet, OfRanks
<1>. HIDE DEF S
<1>4. Cardinality({i \in DOMAIN fs : fs[i] \in S}) = Cardinality(ToSet(fs) \cap S)
  BY <1>1, AsManyPlaces
<1>. QED
  BY <1>2, <1>3, <1>4 DEF CountIn, fs, S

\* The tests are those of the results, and the count beside one that did not
\* raise is that of its findings.
LEMMA TestsHas ==
    ASSUME NEW rs, Ordered(rs)
    PROVE  /\ AllCheckResults(rs) \in Seq(Recorded)
           /\ ToSet(AllCheckResults(rs)) = UNION {ToSet(rs[i].records) : i \in DOMAIN rs}
           /\ \A cr \in ToSet(AllCheckResults(rs)) :
                 cr.status # "error" => cr.count = Cardinality({d \in {f.id : f \in Kept(rs)} : <<d[1], d[2]>> = cr.check})
<1>. DEFINE parts == [i \in DOMAIN rs |-> rs[i].records]
            crs == AllCheckResults(rs)
            D == {f.id : f \in Kept(rs)}
<1>1. /\ Len(rs) \in Nat /\ DOMAIN rs = 1..Len(rs) /\ \A i \in DOMAIN rs : Proper(rs[i])
  BY OrderedHas
<1>2. parts \in Seq(Seq(Recorded)) /\ DOMAIN parts = DOMAIN rs
  <2>1. \A i \in 1..Len(rs) : rs[i].records \in Seq(Recorded)
    BY <1>1 DEF Proper
  <2>2. parts \in [1..Len(rs) -> Seq(Recorded)] /\ DOMAIN parts = DOMAIN rs
    BY <1>1, <2>1
  <2>. HIDE DEF parts
  <2>. QED
    BY <1>1, <2>2
<1>3. \A i \in DOMAIN rs : parts[i] = rs[i].records
  OBVIOUS
<1>4. crs = FlattenSeq(parts)
  BY DEF AllCheckResults
<1>. HIDE DEF parts, crs
<1>5. crs \in Seq(Recorded) /\ ToSet(crs) = UNION {ToSet(parts[i]) : i \in DOMAIN rs}
  BY <1>2, <1>4, FlattenHas
<1>6. ToSet(crs) = UNION {ToSet(rs[i].records) : i \in DOMAIN rs}
  BY <1>3, <1>5
<1>. HIDE DEF D
<1>7. ASSUME NEW cr \in ToSet(crs), cr.status # "error"
      PROVE  cr.count = Cardinality({d \in D : <<d[1], d[2]>> = cr.check})
  <2>1. PICK i \in DOMAIN rs : cr \in ToSet(rs[i].records)
    BY <1>6
  <2>. DEFINE own == Owned(rs[i], cr.check)
  <2>2. Proper(rs[i])
    BY <1>1
  <2>3. cr.check[1] = rs[i].number /\ cr.count = Cardinality(own)
    BY <1>7, <2>1, <2>2 DEF Proper
  <2>4. own \subseteq Kept(rs)
    BY DEF Owned, Kept, Found
  <2>5. IsFiniteSet(own) /\ Told(own)
    <3>1. IsFiniteSet(Kept(rs)) /\ Told(Kept(rs))
      BY KeptHas
    <3>2. IsFiniteSet(own)
      <4>. HIDE DEF own
      <4>. QED
        BY <2>4, <3>1, FS_Subset
    <3>. QED
      BY <2>4, <3>1, <3>2 DEF Told
  <2>6. \A f \in Kept(rs) : <<f.id[1], f.id[2]>> = cr.check => f \in own
    <3>1. ASSUME NEW f \in Kept(rs), <<f.id[1], f.id[2]>> = cr.check PROVE f \in own
      <4>1. f.id[1] = cr.check[1]
        BY <3>1
      <4>2. f \in Found(rs) /\ ~Rejected(f)
        BY DEF Kept
      <4>3. f \in ToSet(rs[i].findings)
        BY <2>3, <4>1, <4>2, FoundAreTold
      <4>. QED
        BY <3>1, <4>2, <4>3 DEF Owned
    <3>. QED
      BY <3>1
  <2>7. \A f \in own : <<f.id[1], f.id[2]>> = cr.check
    BY DEF Owned
  <2>. HIDE DEF own
  <2>8. {d \in D : <<d[1], d[2]>> = cr.check} = {f.id : f \in own}
    BY <2>4, <2>6, <2>7 DEF D
  <2>. QED
    BY <2>3, <2>5, <2>8, AsManyIds
<1>. QED
  BY <1>5, <1>6, <1>7 DEF crs, D

\* What the findings shown and the sections of a document have to do with
\* each other, and with those kept.
Agreeing(rs, doc, D) ==
    /\ D = {f.id : f \in Kept(rs)}
    /\ ToSet(doc.table) = D /\ Len(doc.table) = Cardinality(D)
    /\ UNION {ToSet(doc.phases[p]) : p \in 1..3} = D
    /\ Len(doc.phases[1]) + Len(doc.phases[2]) + Len(doc.phases[3]) = Cardinality(D)
    /\ doc.summary.total = Cardinality(D)
    /\ doc.summary.urgent = Len(doc.phases[1])
    /\ doc.summary.counts[0] + doc.summary.counts[1] + doc.summary.counts[2]
         + doc.summary.counts[3] + doc.summary.counts[4] = Cardinality(D)
    /\ \A i \in DOMAIN doc.tests : doc.tests[i].status # "error"
          => doc.tests[i].count = Cardinality({d \in D : <<d[1], d[2]>> = doc.tests[i].check})

\* The sections of the document that is rendered from rs agree.
LEMMA Agreement ==
    ASSUME NEW rs, Ordered(rs), NEW doc, doc = Render(rs),
           NEW D, D = UNION {ToSet(doc.detail[i].entries) : i \in DOMAIN doc.detail}
    PROVE  Agreeing(rs, doc, D)
<1>. DEFINE Ids == {f.id : f \in Kept(rs)}
            of(ranks) == Cardinality(OfRanks(rs, ranks))
            all == Cardinality(Kept(rs))
            counts == doc.summary.counts
<1>1. /\ doc.table = IdsOf(AllFindings(rs)) /\ doc.tests = AllCheckResults(rs) /\ doc.detail = DetailedFindings(rs)
      /\ doc.phases = RemediationPhases(rs) /\ doc.summary = ExecutiveSummary(rs)
  BY DEF Render, FindingsSummaryTable, TestsPerformed
<1>2. D = Ids
  BY <1>1, DetailHas
<1>3. AllFindings(rs) \in Seq(Stamped) /\ ToSet(AllFindings(rs)) = Kept(rs)
  BY AllFindingsHas
<1>4. IsFiniteSet(Kept(rs)) /\ Told(Kept(rs)) /\ Len(AllFindings(rs)) = all /\ all \in Nat
  BY KeptHas
<1>5. Cardinality(Ids) = all
  BY <1>4, AsManyIds
<1>6. ToSet(doc.table) = Ids /\ Len(doc.table) = all
  BY <1>1, <1>3, <1>4, IdsHas
<1>7. doc.phases = <<PhaseOf(rs, {0, 1}), PhaseOf(rs, {2}), PhaseOf(rs, {3, 4})>>
  BY <1>1 DEF RemediationPhases, PhaseOf
<1>8. /\ ToSet(doc.phases[1]) = {f.id : f \in OfRanks(rs, {0, 1})} /\ Len(doc.phases[1]) = of({0, 1})
      /\ ToSet(doc.phases[2]) = {f.id : f \in OfRanks(rs, {2})} /\ Len(doc.phases[2]) = of({2})
      /\ ToSet(doc.phases[3]) = {f.id : f \in OfRanks(rs, {3, 4})} /\ Len(doc.phases[3]) = of({3, 4})
  <2>1. doc.phases[1] = PhaseOf(rs, {0, 1}) /\ doc.phases[2] = PhaseOf(rs, {2}) /\ doc.phases[3] = PhaseOf(rs, {3, 4})
    BY <1>7
  <2>2. \A ranks : ToSet(PhaseOf(rs, ranks)) = {f.id : f \in OfRanks(rs, ranks)} /\ Len(PhaseOf(rs, ranks)) = of(ranks)
    BY PhaseHas
  <2>. QED
    BY <2>1, <2>2
<1>9. UNION {ToSet(doc.phases[p]) : p \in 1..3} = Ids
  <2>1. 1..3 = {1, 2, 3} /\ 0..4 = {0, 1} \cup {2} \cup {3, 4}
    OBVIOUS
  <2>2. Kept(rs) = OfRanks(rs, {0, 1}) \cup OfRanks(rs, {2}) \cup OfRanks(rs, {3, 4})
    BY <2>1, AllRanks DEF OfRanks
  <2>3. UNION {ToSet(doc.phases[p]) : p \in 1..3} = ToSet(doc.phases[1]) \cup ToSet(doc.phases[2]) \cup ToSet(doc.phases[3])
    BY <2>1
  <2>4. Ids = {f.id : f \in OfRanks(rs, {0, 1})} \cup {f.id : f \in OfRanks(rs, {2})} \cup {f.id : f \in OfRanks(rs, {3, 4})}
    BY <2>2
  <2>. QED
    BY <1>8, <2>3, <2>4
<1>10. /\ of({0, 1}) = of({0}) + of({1}) /\ of({3, 4}) = of({3}) + of({4})
       /\ all = of({0, 1}) + of({2}) + of({3, 4})
       /\ of({0}) \in Nat /\ of({1}) \in Nat /\ of({2}) \in Nat /\ of({3}) \in Nat /\ of({4}) \in Nat
  <2>1. \A A, B : A \cap B = {} => of(A) \in Nat /\ of(B) \in Nat /\ of(A \cup B) = of(A) + of(B)
    BY RanksAddUp
  <2>2. {0} \cap {1} = {} /\ {0} \cup {1} = {0, 1} /\ {3} \cap {4} = {} /\ {3} \cup {4} = {3, 4}
    OBVIOUS
  <2>3. {0, 1} \cap {2} = {} /\ ({0, 1} \cup {2}) \cap {3, 4} = {} /\ ({0, 1} \cup {2}) \cup {3, 4} = 0..4
    OBVIOUS
  <2>. HIDE DEF of, all
  <2>4. of({0, 1}) = of({0}) + of({1}) /\ of({0}) \in Nat /\ of({1}) \in Nat
    BY <2>1, <2>2
  <2>5. of({3, 4}) = of({3}) + of({4}) /\ of({3}) \in Nat /\ of({4}) \in Nat
    BY <2>1, <2>2
  <2>6. of({0, 1} \cup {2}) = of({0, 1}) + of({2}) /\ of({2}) \in Nat
    BY <2>1, <2>3
  <2>7. of(0..4) = of({0, 1} \cup {2}) + of({3, 4})
    BY <2>1, <2>3
  <2>8. of(0..4) = all
    BY AllRanks DEF of, all
  <2>. QED
    BY <2>4, <2>5, <2>6, <2>7, <2>8
<1>11. /\ counts = [k \in 0..4 |-> CountIn(rs, k)] /\ doc.summary.urgent = CountIn(rs, 0) + CountIn(rs, 1)
       /\ doc.summary.total = Len(AllFindings(rs))
  BY <1>1 DEF ExecutiveSummary, CountIn
<1>12. \A k \in 0..4 : counts[k] = of({k})
  BY <1>11, CountHas
<1>13. CountIn(rs, 0) = of({0}) /\ CountIn(rs, 1) = of({1})
  BY CountHas
<1>14. \A i \in DOMAIN doc.tests : doc.tests[i].status # "error"
          => doc.tests[i].count = Cardinality({d \in Ids : <<d[1], d[2]>> = doc.tests[i].check})
  <2>1. ASSUME NEW cr \in ToSet(AllCheckResults(rs)), cr.status # "error"
        PROVE  cr.count = Cardinality({d \in Ids : <<d[1], d[2]>> = cr.check})
    BY <2>1, TestsHas
  <2>2. \A i \in DOMAIN doc.tests : doc.tests[i] \in ToSet(AllCheckResults(rs))
    BY <1>1 DEF ToSet
  <2>. HIDE DEF Ids
  <2>. QED
    BY <2>1, <2>2
<1>. HIDE DEF of, all, counts, Ids
<1>15. Len(doc.phases[1]) + Len(doc.phases[2]) + Len(doc.phases[3]) = all
  BY <1>8, <1>10
<1>16. doc.summary.total = all /\ doc.summary.urgent = Len(doc.phases[1])
  BY <1>4, <1>8, <1>10, <1>11, <1>13
<1>17. counts[0] + counts[1] + counts[2] + counts[3] + counts[4] = all
  BY <1>10, <1>12
<1>. QED
  BY <1>2, <1>5, <1>6, <1>9, <1>14, <1>15, <1>16, <1>17 DEF Ids, counts, Agreeing

\* What the tests and the completeness section of a document have to do with
\* each other.
Counted(doc, bad) ==
    /\ (doc.completeness.claim = "incomplete") <=> (bad # {})
    /\ doc.completeness.attempted = Len(doc.tests)
    /\ doc.completeness.passed + Cardinality(bad) = Len(doc.tests)

\* The completeness section counts the tests.
LEMMA CompletenessHas ==
    ASSUME NEW rs, Ordered(rs), NEW doc, doc = Render(rs),
           NEW bad, bad = {i \in DOMAIN doc.tests : doc.tests[i].status = "error"}
    PROVE  Counted(doc, bad)
<1>. DEFINE crs == AllCheckResults(rs)
<1>1. doc.tests = crs /\ doc.completeness = AuditCompleteness(rs)
  BY DEF Render, TestsPerformed
<1>2. Len(crs) \in Nat /\ DOMAIN crs = 1..Len(crs)
  BY TestsHas
<1>. DEFINE some == Len(crs) - Cardinality(bad)
            claim == IF crs = <<>> THEN "no checks were run" ELSE IF bad = {} THEN "every check ran" ELSE "incomplete"
            n == Len(crs)
<1>3. AuditCompleteness(rs) = [attempted |-> n, passed |-> some, claim |-> claim]
  BY <1>1 DEF AuditCompleteness
<1>. HIDE DEF some, claim, n
<1>9. AuditCompleteness(rs).attempted = n /\ AuditCompleteness(rs).passed = some /\ AuditCompleteness(rs).claim = claim
  BY <1>3
<1>. HIDE DEF crs
<1>4. Cardinality(bad) \in Nat
  <2>1. IsFiniteSet(DOMAIN crs)
    BY <1>2, FS_Interval
  <2>2. IsFiniteSet(bad)
    BY <1>1, <2>1, FS_Subset
  <2>. QED
    BY <2>2, FS_CardinalityType
<1>5. crs = <<>> => bad = {}
  BY <1>1
<1>6. doc.completeness.attempted = Len(crs) /\ doc.completeness.passed = Len(crs) - Cardinality(bad)
  BY <1>1, <1>9 DEF n, some
<1>7. (doc.completeness.claim = "incomplete") <=> (bad # {})
  BY <1>1, <1>5, <1>9 DEF claim
<1>8. doc.completeness.passed + Cardinality(bad) = Len(crs)
  BY <1>2, <1>4, <1>6
<1>. QED
  BY <1>1, <1>6, <1>7, <1>8 DEF Counted

-----------------------------------------------------------------------------
(* Every document there ever is on disk.                                   *)

\* The results are ordered, and the document is the render of all of them, but
\* of the last, when its render is still to come or did not come.
Upto(m) == SubSeq(results, 1, m)
RenderIInv ==
    /\ Ordered(results) /\ category \in Nat \ {0} /\ \A i \in DOMAIN results : results[i].number < category
    /\ There => \E m \in 0..Len(results) : file = Render(Upto(m)) /\ m + 1 >= Len(results)
                                           /\ (status # "writing" => status = "aborted" \/ m = Len(results))

\* A category without findings has a result.
LEMMA EmptiesAreResults ==
    ASSUME NEW c \in 1..(N + 1), NEW st \in {"not_applicable", "completed"}
    PROVE  Empty(c, st, FALSE) \in Results /\ Empty(c, st, TRUE) \in Results
<1>1. \A hasNotes \in BOOLEAN : Empty(c, st, hasNotes) \in Results
  <2>1. ASSUME NEW hasNotes \in BOOLEAN
        PROVE  Empty(c, st, hasNotes) \in {Empty(a, b, h) : a \in 1..(N + 1), b \in {"not_applicable", "completed"}, h \in BOOLEAN}
    OBVIOUS
  <2>. QED
    BY <2>1 DEF Results
<1>. QED
  BY <1>1

\* The first results are ordered as well.
LEMMA PrefixIsOrdered ==
    ASSUME Ordered(results), NEW m \in 0..Len(results)
    PROVE  /\ Ordered(Upto(m)) /\ DOMAIN Upto(m) = 1..m
           /\ \A i \in 1..m : i \in DOMAIN results /\ Upto(m)[i] = results[i]
<1>1. results \in Seq(Results) /\ Len(results) \in Nat /\ DOMAIN results = 1..Len(results)
  BY OrderedHas DEF Ordered
<1>2. Upto(m) \in Seq(Results) /\ DOMAIN Upto(m) = 1..m /\ \A i \in 1..m : i \in DOMAIN results /\ Upto(m)[i] = results[i]
  BY <1>1 DEF Upto
<1>. QED
  BY <1>1, <1>2 DEF Ordered

\* One more result.
LEMMA AppendIsOrdered ==
    ASSUME NEW rs, Ordered(rs), NEW r \in Results, \A i \in DOMAIN rs : rs[i].number < r.number
    PROVE  /\ Ordered(Append(rs, r)) /\ Len(Append(rs, r)) = Len(rs) + 1 /\ DOMAIN Append(rs, r) = 1..(Len(rs) + 1)
           /\ \A i \in 1..Len(rs) : Append(rs, r)[i] = rs[i]
           /\ Append(rs, r)[Len(rs) + 1] = r
           /\ \A m \in 0..Len(rs) : SubSeq(Append(rs, r), 1, m) = SubSeq(rs, 1, m)
<1>1. rs \in Seq(Results) /\ Len(rs) \in Nat /\ DOMAIN rs = 1..Len(rs)
  BY OrderedHas DEF Ordered
<1>. DEFINE a == Append(rs, r)
<1>2. /\ a \in Seq(Results) /\ Len(a) = Len(rs) + 1 /\ DOMAIN a = 1..(Len(rs) + 1)
      /\ \A i \in 1..Len(rs) : a[i] = rs[i]
      /\ a[Len(rs) + 1] = r
  BY <1>1
<1>. HIDE DEF a
<1>3. \A i, j \in 1..(Len(rs) + 1) : i < j => a[i].number < a[j].number
  <2>1. ASSUME NEW i \in 1..(Len(rs) + 1), NEW j \in 1..(Len(rs) + 1), i < j PROVE a[i].number < a[j].number
    <3>1. i \in 1..Len(rs) /\ (j \in 1..Len(rs) \/ j = Len(rs) + 1)
      BY <1>1, <2>1
    <3>. QED
      BY <1>1, <1>2, <2>1, <3>1 DEF Ordered
  <2>. QED
    BY <2>1
<1>4. \A m \in 0..Len(rs) : SubSeq(a, 1, m) = SubSeq(rs, 1, m)
  <2>1. ASSUME NEW m \in 0..Len(rs) PROVE SubSeq(a, 1, m) = SubSeq(rs, 1, m)
    <3>1. /\ SubSeq(a, 1, m) \in Seq(Results) /\ SubSeq(rs, 1, m) \in Seq(Results)
          /\ Len(SubSeq(a, 1, m)) = m /\ Len(SubSeq(rs, 1, m)) = m
          /\ \A i \in 1..m : SubSeq(a, 1, m)[i] = a[i] /\ SubSeq(rs, 1, m)[i] = rs[i] /\ a[i] = rs[i]
      BY <1>1, <1>2
    <3>. QED
      BY <3>1, SeqEqual
  <2>. QED
    BY <2>1
<1>. QED
  BY <1>1, <1>2, <1>3, <1>4 DEF a, Ordered

\* What run_audit delivers is a result, of the category it is at.
LEMMA DeliverStep ==
    ASSUME RenderIInv, NEW r \in Results, r.number = category, Deliver(r)
    PROVE  RenderIInv'
<1>1. /\ status = "running" /\ status' = "writing" /\ results' = Append(results, r) /\ category' = category + 1 /\ file' = file
  BY DEF Deliver
<1>2. Len(results) \in Nat /\ DOMAIN results = 1..Len(results)
  BY OrderedHas DEF RenderIInv
<1>3. /\ Ordered(results') /\ Len(results') = Len(results) + 1 /\ DOMAIN results' = 1..(Len(results) + 1)
      /\ \A i \in 1..Len(results) : results'[i] = results[i]
      /\ results'[Len(results) + 1] = r
      /\ \A m \in 0..Len(results) : SubSeq(results', 1, m) = SubSeq(results, 1, m)
  BY <1>1, AppendIsOrdered DEF RenderIInv
<1>4. \A i \in DOMAIN results' : results'[i].number < category'
  <2>1. ASSUME NEW i \in DOMAIN results' PROVE results'[i].number < category'
    <3>1. CASE i = Len(results) + 1
      BY <1>1, <1>3, <3>1 DEF RenderIInv
    <3>2. CASE i # Len(results) + 1
      <4>1. i \in 1..Len(results)
        BY <1>2, <1>3, <3>2
      <4>2. results[i].number < category /\ results[i].number \in Nat /\ category \in Nat
        <5>1. Ordered(results) /\ category \in Nat /\ results[i].number < category
          BY <1>2, <4>1 DEF RenderIInv
        <5>2. Proper(results[i])
          BY <1>2, <4>1, <5>1, OrderedHas
        <5>. QED
          BY <5>1, <5>2, RenderAssumption DEF Proper
      <4>. QED
        BY <1>1, <1>3, <4>1, <4>2
    <3>. QED
      BY <3>1, <3>2
  <2>. QED
    BY <2>1
<1>5. ASSUME There' PROVE \E m \in 0..Len(results') : file' = Render(SubSeq(results', 1, m)) /\ m + 1 >= Len(results')
  <2>1. PICK m \in 0..Len(results) : file = Render(SubSeq(results, 1, m)) /\ m = Len(results)
    BY <1>1, <1>5 DEF RenderIInv, There, Upto
  <2>2. m \in 0..Len(results') /\ m + 1 >= Len(results') /\ SubSeq(results', 1, m) = SubSeq(results, 1, m)
    BY <1>2, <1>3, <2>1
  <2>. QED
    BY <1>1, <2>1, <2>2
<1>. QED
  BY <1>1, <1>3, <1>4, <1>5 DEF RenderIInv, Upto

\* The invariant holds initially.
LEMMA InitRender == RenderInit => RenderIInv
<1>. SUFFICES ASSUME RenderInit PROVE RenderIInv
  OBVIOUS
<1>1. results = <<>> /\ category = 1 /\ ~There
  BY DEF RenderInit, There
<1>2. Ordered(results)
  BY <1>1 DEF Ordered
<1>. QED
  BY <1>1, <1>2 DEF RenderIInv

\* What is on disk after a render.
LEMMA WriteStep == ASSUME RenderIInv, WriteReport PROVE RenderIInv'
<1>1. /\ status = "writing" /\ file' = Render(results) /\ results' = results /\ category' = category
  BY DEF WriteReport
<1>2. Len(results) \in Nat /\ results \in Seq(Results)
  BY OrderedHas DEF RenderIInv, Ordered
<1>3. SubSeq(results, 1, Len(results)) = results
  BY <1>2
<1>4. Len(results) \in 0..Len(results) /\ Len(results) + 1 >= Len(results)
  BY <1>2
<1>. QED
  BY <1>1, <1>3, <1>4 DEF RenderIInv, Upto, Ordered

\* Every step keeps the invariant.
LEMMA RenderStep == RenderIInv /\ [RenderNext]_renderVars => RenderIInv'
<1>. SUFFICES ASSUME RenderIInv, [RenderNext]_renderVars PROVE RenderIInv'
  OBVIOUS
<1>8. category \in Nat \ {0} /\ N \in Nat
  BY RenderAssumption DEF RenderIInv
<1>1. CASE FilteredOut
  <2>1. category \in Nat /\ category' = category + 1 /\ results' = results /\ file' = file /\ status' = status
    BY <1>1 DEF FilteredOut, RenderIInv
  <2>2. \A i \in DOMAIN results : results[i].number \in Nat
    BY OrderedHas, RenderAssumption DEF RenderIInv, Proper
  <2>3. \A i \in DOMAIN results : results[i].number < category + 1
    BY <2>1, <2>2 DEF RenderIInv
  <2>. QED
    BY <2>1, <2>3 DEF RenderIInv, There, Upto, Ordered
<1>2. CASE CategoryCompleted
  <2>1. PICK out \in [1..K -> Outcomes] : Deliver(Completed(category, out))
    BY <1>2 DEF CategoryCompleted
  <2>2. category \in 1..N
    BY <1>2, <1>8 DEF CategoryCompleted
  <2>3. Completed(category, out) \in Results
    BY <2>2 DEF Results
  <2>4. Completed(category, out).number = category
    BY DEF Completed
  <2>. QED
    BY <2>1, <2>3, <2>4, DeliverStep
<1>3. CASE CategoryEmpty
  <2>1. PICK st \in {"not_applicable", "completed"} : Deliver(Empty(category, st, FALSE))
    BY <1>3 DEF CategoryEmpty
  <2>2. category \in 1..(N + 1)
    BY <1>3, <1>8 DEF CategoryEmpty
  <2>3. Empty(category, st, FALSE) \in Results
    BY <2>2, EmptiesAreResults
  <2>4. Empty(category, st, FALSE).number = category
    BY DEF Empty
  <2>. QED
    BY <2>1, <2>3, <2>4, DeliverStep
<1>4. CASE OutOfScope
  <2>1. category = N + 1 /\ Deliver(Empty(category, "completed", TRUE))
    BY <1>4 DEF OutOfScope
  <2>2. category \in 1..(N + 1)
    BY <1>8, <2>1
  <2>3. Empty(category, "completed", TRUE) \in Results
    BY <2>2, EmptiesAreResults
  <2>4. Empty(category, "completed", TRUE).number = category
    BY DEF Empty
  <2>. QED
    BY <2>1, <2>3, <2>4, DeliverStep
<1>5. CASE WriteReport
  BY <1>5, WriteStep
<1>6. CASE Abort
  BY <1>6 DEF Abort, RenderIInv, There, Upto, Ordered
<1>7. CASE RenderOver \/ UNCHANGED renderVars
  BY <1>7 DEF RenderOver, renderVars, RenderIInv, There, Upto, Ordered
<1>. QED
  BY <1>1, <1>2, <1>3, <1>4, <1>5, <1>6, <1>7 DEF RenderNext

\* The five sections agree, whatever the checks find, whichever of them raise
\* and whatever is rejected, in every document that is ever on disk.
THEOREM SectionsTellTheSame == RenderSpec => []SectionsAgree
<1>1. RenderIInv => SectionsAgree
  <2>. SUFFICES ASSUME RenderIInv, There PROVE SectionsAgree
    BY DEF SectionsAgree
  <2>1. PICK m \in 0..Len(results) : file = Render(Upto(m))
    BY DEF RenderIInv
  <2>2. /\ Ordered(Upto(m)) /\ DOMAIN Upto(m) = 1..m
        /\ \A i \in 1..m : i \in DOMAIN results /\ Upto(m)[i] = results[i]
    BY PrefixIsOrdered DEF RenderIInv
  <2>. DEFINE rs == Upto(m)
  <2>. HIDE DEF rs
  <2>5. Ordered(rs) /\ file = Render(rs)
    BY <2>1, <2>2 DEF rs
  <2>6. Detailed = UNION {ToSet(file.detail[i].entries) : i \in DOMAIN file.detail}
    BY DEF Detailed
  <2>7. Agreeing(rs, file, Detailed)
    BY <2>5, <2>6, Agreement
  <2>4. ASSUME NEW i \in DOMAIN results, NEW f \in ToSet(results[i].findings), Rejected(f) PROVE f.id \notin Detailed
    <3>. SUFFICES ASSUME f.id \in Detailed PROVE FALSE
      OBVIOUS
    <3>1. PICK g \in Kept(rs) : f.id = g.id
      BY <2>7 DEF Agreeing
    <3>2. PICK j \in 1..m : g \in ToSet(results[j].findings)
      BY <2>2 DEF Kept, Found, rs
    <3>3. g \in Found(results) /\ f \in Found(results)
      BY <2>2, <3>2 DEF Found
    <3>4. Told(Found(results))
      BY FoundAreTold DEF RenderIInv
    <3>5. f = g
      BY <3>1, <3>3, <3>4 DEF Told
    <3>. QED
      BY <2>4, <3>5 DEF Kept
  <2>. QED
    BY <2>4, <2>7 DEF SectionsAgree, Agreeing
<1>. QED
  BY <1>1, InitRender, RenderStep, PTL DEF RenderSpec

\* The completeness section's figures are those of the tests it stands above.
THEOREM CompletenessIsTold == RenderSpec => []CompletenessMatchesTests
<1>1. RenderIInv => CompletenessMatchesTests
  <2>. SUFFICES ASSUME RenderIInv, There PROVE CompletenessMatchesTests
    BY DEF CompletenessMatchesTests
  <2>1. PICK m \in 0..Len(results) : file = Render(Upto(m))
    BY DEF RenderIInv
  <2>2. Counted(file, {i \in DOMAIN file.tests : file.tests[i].status = "error"})
    BY <2>1, PrefixIsOrdered, CompletenessHas DEF RenderIInv
  <2>. QED
    BY <2>2 DEF CompletenessMatchesTests, Counted
<1>. QED
  BY <1>1, InitRender, RenderStep, PTL DEF RenderSpec

\* What one render showed, every later one shows too.
THEOREM NothingIsLost == RenderSpec => NothingDisappears
<1>. DEFINE Stays == There => /\ ToSet(file.table) \subseteq ToSet(file'.table)
                             /\ ToSet(file.tests) \subseteq ToSet(file'.tests)
<1>1. RenderIInv /\ [RenderNext]_renderVars => [Stays]_renderVars
  <2>. SUFFICES ASSUME RenderIInv, RenderNext, There PROVE Stays
    OBVIOUS
  <2>1. CASE WriteReport
    <3>1. PICK m \in 0..Len(results) : file = Render(Upto(m))
      BY DEF RenderIInv
    <3>2. file' = Render(results)
      BY <2>1 DEF WriteReport
    <3>. DEFINE rs == Upto(m)
    <3>3. /\ Ordered(rs) /\ Ordered(results)
          /\ \A i \in DOMAIN rs : i \in DOMAIN results /\ rs[i] = results[i]
      BY PrefixIsOrdered DEF RenderIInv
    <3>4. file = Render(rs)
      BY <3>1
    <3>. HIDE DEF rs
    <3>5. ToSet(file.table) = {f.id : f \in Kept(rs)} /\ ToSet(file'.table) = {f.id : f \in Kept(results)}
      BY <3>2, <3>3, <3>4, Agreement DEF Agreeing
    <3>6. Kept(rs) \subseteq Kept(results)
      BY <3>3 DEF Kept, Found
    <3>7. /\ ToSet(file.tests) = UNION {ToSet(rs[i].records) : i \in DOMAIN rs}
          /\ ToSet(file'.tests) = UNION {ToSet(results[i].records) : i \in DOMAIN results}
      BY <3>2, <3>3, <3>4, TestsHas DEF Render, TestsPerformed
    <3>. QED
      BY <3>3, <3>5, <3>6, <3>7
  <2>2. CASE ~WriteReport
    BY <2>2 DEF RenderNext, FilteredOut, CategoryCompleted, CategoryEmpty, OutOfScope, Deliver, Abort, RenderOver, renderVars
  <2>. QED
    BY <2>1, <2>2
<1>. QED
  BY <1>1, InitRender, RenderStep, PTL DEF RenderSpec, NothingDisappears

-----------------------------------------------------------------------------
(* Indexing Strategy.                                                      *)

\* A query has its place in the report.
Places == DOMAIN found = ToSet(Queries)

\* In a database that holds still, what a query has returned is what it would
\* return now.
IndexingCurrent ==
    still =>
        /\ found["fk"] \in {NotAsked, Failed, UnindexedForeignKeys}
        /\ found["selective"] \in {NotAsked, HighSelectivityColumns}
        /\ found["redundant"] \in {NotAsked, IndexesSharingLeadingColumn}
        /\ found["partial"] \in {NotAsked, NonPartialIndexesOnFlagColumns}
        /\ found["order"] \in {NotAsked, Failed} \/ found["order"] \subseteq CompositeIndexes

IndexingIInv == indexes \subseteq IndexUniverse /\ Places /\ IndexingCurrent

-----------------------------------------------------------------------------
(* Queries.                                                                *)

\* The queries there are.
LEMMA QueriesAre ==
    {"fk", "selective", "redundant", "partial", "order"} \subseteq ToSet(Queries)
<1>1. /\ DOMAIN Queries = 1..10 /\ Queries[2] = "fk" /\ Queries[4] = "order"
      /\ Queries[6] = "selective" /\ Queries[7] = "redundant" /\ Queries[10] = "partial"
  BY DEF Queries
<1>. QED
  BY <1>1 DEF ToSet

\* A query reads the catalog and leaves it as it is.
LEMMA SameAnswers ==
    ASSUME UNCHANGED catalog
    PROVE  /\ UnindexedForeignKeys' = UnindexedForeignKeys
           /\ HighSelectivityColumns' = HighSelectivityColumns
           /\ IndexesSharingLeadingColumn' = IndexesSharingLeadingColumn
           /\ NonPartialIndexesOnFlagColumns' = NonPartialIndexesOnFlagColumns
           /\ CompositeIndexes' = CompositeIndexes
<1>. USE DEF catalog
<1>1. UnindexedForeignKeys' = UnindexedForeignKeys
  BY DEF UnindexedForeignKeys
<1>2. HighSelectivityColumns' = HighSelectivityColumns
  BY DEF HighSelectivityColumns, ColumnsWithoutIndex, OnTableOf, On
<1>3. IndexesSharingLeadingColumn' = IndexesSharingLeadingColumn
  BY DEF IndexesSharingLeadingColumn
<1>4. NonPartialIndexesOnFlagColumns' = NonPartialIndexesOnFlagColumns
  BY DEF NonPartialIndexesOnFlagColumns
<1>5. CompositeIndexes' = CompositeIndexes
  BY DEF CompositeIndexes
<1>. QED
  BY <1>1, <1>2, <1>3, <1>4, <1>5

\* What a step of the audit does to the findings of the queries compared.
LEMMA AuditStep ==
    ASSUME Places,
           CheckUnusedIndexes \/ CheckGinUsage \/ CheckHighSelectivity \/ CheckRedundantIndexes
             \/ CheckUnpromotedJsonbRangeQueries \/ CheckWriteAmplification \/ CheckPartialIndexes
    PROVE  /\ UNCHANGED catalog /\ still' = still /\ Places'
           /\ found'["fk"] \in {found["fk"], Failed, UnindexedForeignKeys}
           /\ found'["selective"] \in {found["selective"], HighSelectivityColumns}
           /\ found'["redundant"] \in {found["redundant"], IndexesSharingLeadingColumn}
           /\ found'["partial"] \in {found["partial"], NonPartialIndexesOnFlagColumns}
           /\ found'["order"] \in {found["order"], Failed} \/ found'["order"] \subseteq CompositeIndexes
<1>. USE QueriesAre DEF Places
<1>. DEFINE Goal ==
           /\ UNCHANGED catalog /\ still' = still /\ Places'
           /\ found'["fk"] \in {found["fk"], Failed, UnindexedForeignKeys}
           /\ found'["selective"] \in {found["selective"], HighSelectivityColumns}
           /\ found'["redundant"] \in {found["redundant"], IndexesSharingLeadingColumn}
           /\ found'["partial"] \in {found["partial"], NonPartialIndexesOnFlagColumns}
           /\ found'["order"] \in {found["order"], Failed} \/ found'["order"] \subseteq CompositeIndexes
<1>1. ASSUME NEW q \in {"unused", "seq", "gin", "range", "writes"}, NEW subjects, Query(q, subjects) PROVE Goal
  BY <1>1 DEF Query, Return
<1>2. CASE Query("fk", UnindexedForeignKeys)
  BY <1>2 DEF Query, Return
<1>3. CASE FindOrderMismatches
  <2>1. /\ UNCHANGED catalog /\ still' = still
        /\ \/ RaiseUnused
           \/ \E subjects \in SUBSET CompositeIndexes : Return("order", subjects)
    BY <1>3 DEF FindOrderMismatches
  <2>2. CASE RaiseUnused
    BY <2>1, <2>2 DEF RaiseUnused, UnusedIndexesCheck
  <2>3. ASSUME NEW subjects \in SUBSET CompositeIndexes, Return("order", subjects) PROVE Goal
    BY <2>1, <2>3 DEF Return
  <2>. QED
    BY <2>1, <2>2, <2>3
<1>4. CASE CheckHighSelectivity
  BY <1>4 DEF CheckHighSelectivity, Query, Return
<1>5. CASE CheckRedundantIndexes
  BY <1>5 DEF CheckRedundantIndexes, Query, Return
<1>6. CASE CheckPartialIndexes
  BY <1>6 DEF CheckPartialIndexes, Query, Return
<1>7. CASE CheckUnusedIndexes
  BY <1>1, <1>2, <1>3, <1>7 DEF CheckUnusedIndexes
<1>. HIDE DEF Goal
<1>8. ASSUME CheckGinUsage \/ CheckUnpromotedJsonbRangeQueries \/ CheckWriteAmplification PROVE Goal
  BY <1>1, <1>8 DEF CheckGinUsage, CheckUnpromotedJsonbRangeQueries, CheckWriteAmplification
<1>9. Goal
  BY <1>4, <1>5, <1>6, <1>7, <1>8 DEF Goal
<1>. QED
  BY <1>9 DEF Goal

-----------------------------------------------------------------------------
(* The invariant.                                                          *)

\* Nothing is found before the first query.
LEMMA IndexingInitIInv == ASSUME IndexingInit PROVE IndexingIInv
BY QueriesAre, UniverseAssumption DEF IndexingInit, IndexingIInv, Places, IndexingCurrent

\* Once a query has run, a change ends the stillness; before, there is nothing
\* found that it could contradict.
LEMMA CatalogClientStep == ASSUME IndexingIInv, CatalogClient PROVE IndexingIInv'
<1>1. CatalogChange
  BY DEF CatalogClient, CreateIndex, DropIndex, ScanIndex, ScanTable, Write, Analyze, RunStatement
<1>2. found' = found /\ (still' => \A q \in DOMAIN found : found[q] = NotAsked)
  BY <1>1 DEF CatalogChange
<1>3. Places' /\ IndexingCurrent'
  BY <1>2, QueriesAre DEF IndexingIInv, Places, IndexingCurrent
<1>4. indexes' \subseteq IndexUniverse
  BY DEF IndexingIInv, CatalogClient, CreateIndex, DropIndex, ScanIndex, ScanTable, Write, Analyze, RunStatement
<1>. QED
  BY <1>3, <1>4 DEF IndexingIInv

\* Every step keeps the invariant.
LEMMA IndexingStepIInv == ASSUME IndexingIInv, [IndexingNext]_indexingVars PROVE IndexingIInv'
<1>1. CASE CheckUnusedIndexes \/ CheckGinUsage \/ CheckHighSelectivity \/ CheckRedundantIndexes
             \/ CheckUnpromotedJsonbRangeQueries \/ CheckWriteAmplification \/ CheckPartialIndexes
  BY <1>1, AuditStep, SameAnswers DEF IndexingIInv, IndexingCurrent, catalog
<1>2. CASE CatalogClient
  BY <1>2, CatalogClientStep
<1>3. CASE UNCHANGED indexingVars
  <2>1. UNCHANGED <<found, still>> /\ UNCHANGED catalog
    BY <1>3 DEF indexingVars, catalog
  <2>. QED
    BY <2>1, SameAnswers DEF IndexingIInv, Places, IndexingCurrent, catalog
<1>. QED
  BY <1>1, <1>2, <1>3 DEF IndexingNext, IndexingOver

-----------------------------------------------------------------------------
(* The property.                                                           *)

\* The column an index leads with is among its columns.
LEMMA HeadIsIndexed ==
    ASSUME NEW i \in IndexUniverse
    PROVE  Head(IndexDef[i].keys) \in ToSet(indkey(i))
<1>. DEFINE keys == IndexDef[i].keys
            include == IndexDef[i].include
            S == STRING \cup {Expression}
<1>1. keys \in Seq(S) /\ keys # <<>> /\ include \in Seq(S)
  BY UniverseAssumption
<1>. HIDE DEF keys, include, S
<1>2. Head(keys) = (keys \o include)[1] /\ 1 \in DOMAIN (keys \o include)
  BY <1>1
<1>. QED
  BY <1>2 DEF indkey, ToSet, keys, include

\* A column a check calls unindexed leads no index.
LEMMA MissingLeadsNone ==
    ASSUME indexes \subseteq IndexUniverse, NEW c \in Columns, NEW i \in indexes, Leads(i, c)
    PROVE  c \notin UnindexedForeignKeys /\ c \notin HighSelectivityColumns
<1>1. c \notin UnindexedForeignKeys
  BY DEF UnindexedForeignKeys
<1>2. i \in OnTableOf(c) /\ ColumnDef[c].name \in ToSet(indkey(i))
  BY HeadIsIndexed DEF Leads, OnTableOf, On
<1>3. c \notin ColumnsWithoutIndex
  BY <1>2 DEF ColumnsWithoutIndex
<1>. QED
  BY <1>1, <1>3 DEF HighSelectivityColumns

\* No two checks of one report contradict each other about a column in a
\* database that holds still, the composite and partial ones told by index,
\* the overlapping ones by the names the finding shows (checks.py:26-358).
THEOREM ChecksAgree == IndexingSpec => []MissingIsNotPresent
<1>. DEFINE Alone(c) == \A t \in Tables : Relname[t] = Relname[ColumnDef[c].table] => t = ColumnDef[c].table
            Missing(c) == (Answered("fk") /\ c \in found["fk"]) \/ (Answered("selective") /\ c \in found["selective"])
            Overlaps(c) == \E g \in found["redundant"] : \E i \in g :
                               LeadingColumn(i) = <<Relname[ColumnDef[c].table], ColumnDef[c].name>>
            Mismatches(c) == \E i \in found["order"] : Leads(i, c)
            Covers(c) == \E i \in found["partial"] : Leads(i, c)
<1>1. ASSUME IndexingIInv, still, NEW c \in Columns, Missing(c) PROVE \A i \in indexes : ~Leads(i, c)
  <2>1. c \in UnindexedForeignKeys \/ c \in HighSelectivityColumns
    BY <1>1 DEF IndexingIInv, IndexingCurrent, Answered
  <2>. QED
    BY <1>1, <2>1, MissingLeadsNone DEF IndexingIInv
<1>2. ASSUME IndexingIInv, still, NEW c \in Columns, Alone(c), Missing(c), Answered("redundant") PROVE ~Overlaps(c)
  <2>1. \A g \in found["redundant"] : g \subseteq indexes
    BY <1>2 DEF IndexingIInv, IndexingCurrent, Answered, IndexesSharingLeadingColumn
  <2>2. ASSUME NEW i \in indexes PROVE LeadingColumn(i) # <<Relname[ColumnDef[c].table], ColumnDef[c].name>>
    <3>1. IndexDef[i].table \in Tables
      BY <1>2, UniverseAssumption DEF IndexingIInv
    <3>. QED
      BY <1>1, <1>2, <3>1 DEF LeadingColumn, Leads
  <2>. QED
    BY <2>1, <2>2
<1>3. ASSUME IndexingIInv, still, NEW c \in Columns, Missing(c), Answered("order") PROVE ~Mismatches(c)
  <2>1. found["order"] \subseteq indexes
    BY <1>3 DEF IndexingIInv, IndexingCurrent, Answered, CompositeIndexes
  <2>. QED
    BY <1>1, <1>3, <2>1
<1>4. ASSUME IndexingIInv, still, NEW c \in Columns, Missing(c), Answered("partial") PROVE ~Covers(c)
  <2>1. found["partial"] \subseteq indexes
    BY <1>4 DEF IndexingIInv, IndexingCurrent, Answered, NonPartialIndexesOnFlagColumns
  <2>. QED
    BY <1>1, <1>4, <2>1
<1>5. ASSUME IndexingIInv, still, NEW c \in Columns, ColumnDef[c].fk, Answered("fk"), Answered("selective"),
             c \in found["selective"]
      PROVE  c \in found["fk"]
  <2>1. found["fk"] = UnindexedForeignKeys /\ \A i \in indexes : ~Leads(i, c)
    BY <1>1, <1>5 DEF IndexingIInv, IndexingCurrent, Answered
  <2>. QED
    BY <1>5, <2>1 DEF UnindexedForeignKeys
<1>6. IndexingIInv => MissingIsNotPresent
  <2>. SUFFICES ASSUME IndexingIInv, NEW c \in Columns, still, Alone(c)
                PROVE  /\ Missing(c) /\ Answered("redundant") => ~Overlaps(c)
                       /\ Missing(c) /\ Answered("order") => ~Mismatches(c)
                       /\ Missing(c) /\ Answered("partial") => ~Covers(c)
                       /\ ColumnDef[c].fk /\ Answered("fk") /\ Answered("selective") /\ c \in found["selective"]
                             => c \in found["fk"]
    BY DEF MissingIsNotPresent
  <2>. HIDE DEF Alone, Missing, Overlaps, Mismatches, Covers
  <2>. QED
    BY <1>2, <1>3, <1>4, <1>5
<1>. QED
  BY <1>6, IndexingInitIInv, IndexingStepIInv, PTL DEF IndexingSpec

\* As many marks for every i in S as f[i] says.
Marks(f, S) == {p \in S \X Nat : p[2] \in 1..f[p[1]]}

\* An element more, and its marks are more.
LEMMA OneMoreMarked ==
    ASSUME NEW S, NEW f, NEW c \in S, f[c] \in Nat, IsFiniteSet(Marks(f, S \ {c}))
    PROVE  /\ IsFiniteSet(Marks(f, S))
           /\ Cardinality(Marks(f, S)) = f[c] + Cardinality(Marks(f, S \ {c}))
<1>. DEFINE own == {c} \X (1..f[c])
            rest == Marks(f, S \ {c})
<1>1. Marks(f, S) = own \cup rest /\ own \cap rest = {}
  BY DEF Marks
<1>2. IsFiniteSet({c}) /\ Cardinality({c}) = 1
  BY FS_Singleton
<1>3. IsFiniteSet(1..f[c]) /\ Cardinality(1..f[c]) = f[c]
  BY FS_Interval
<1>4. IsFiniteSet(own) /\ Cardinality(own) = Cardinality({c}) * Cardinality(1..f[c])
  BY <1>2, <1>3, FS_Product
<1>. HIDE DEF own, rest
<1>5. Cardinality(own) = f[c]
  BY <1>2, <1>3, <1>4
<1>6. IsFiniteSet(rest)
  BY DEF rest
<1>7. IsFiniteSet(own \cup rest) /\ Cardinality(own \cup rest) = Cardinality(own) + Cardinality(rest) - Cardinality(own \cap rest)
  BY <1>4, <1>6, FS_Union
<1>8. Cardinality(own \cap rest) = 0 /\ Cardinality(rest) \in Nat
  BY <1>1, <1>6, FS_EmptySet, FS_CardinalityType
<1>9. Cardinality(own \cup rest) = f[c] + Cardinality(rest)
  BY <1>5, <1>7, <1>8
<1>. QED
  BY <1>1, <1>7, <1>9 DEF rest

\* What holds of the empty set, and of a set when it holds of the set without
\* any one of its elements, holds of every finite set.
LEMMA SetsUp ==
    ASSUME NEW S, IsFiniteSet(S), NEW good, {} \in good,
           \A A \in SUBSET S : A # {} /\ (\A c \in A : A \ {c} \in good) => A \in good
    PROVE  \A A \in SUBSET S : A \in good
<1>. DEFINE n == Cardinality(S)
            ok == {k \in 0..n : \A A \in SUBSET S : Cardinality(A) = k => A \in good}
<1>1. n \in Nat /\ \A A \in SUBSET S : IsFiniteSet(A) /\ Cardinality(A) \in 0..n
  <2>1. n \in Nat
    BY FS_CardinalityType
  <2>2. ASSUME NEW A \in SUBSET S PROVE IsFiniteSet(A) /\ Cardinality(A) \in 0..n
    <3>1. IsFiniteSet(A) /\ Cardinality(A) <= n
      BY FS_Subset
    <3>2. Cardinality(A) \in Nat
      BY <3>1, FS_CardinalityType
    <3>. QED
      BY <2>1, <3>1, <3>2
  <2>. QED
    BY <2>1, <2>2
<1>5. \A A \in SUBSET S : Cardinality(A) = 0 <=> A = {}
  <2>1. ASSUME NEW A \in SUBSET S PROVE Cardinality(A) = 0 <=> A = {}
    <3>1. IsFiniteSet(A)
      BY <1>1
    <3>. QED
      BY <3>1, FS_EmptySet
  <2>. QED
    BY <2>1
<1>2. 0 \in ok
  BY <1>1, <1>5
<1>3. ASSUME NEW k \in 0..(n - 1), k \in ok PROVE k + 1 \in ok
  <2>1. k + 1 \in 0..n /\ k + 1 # 0
    BY <1>1
  <2>2. ASSUME NEW A \in SUBSET S, Cardinality(A) = k + 1 PROVE A \in good
    <3>1. A # {}
      BY <1>5, <2>1, <2>2
    <3>2. ASSUME NEW c \in A PROVE A \ {c} \in good
      <4>1. IsFiniteSet(A)
        BY <1>1
      <4>2. Cardinality(A \ {c}) = Cardinality(A) - 1
        BY <4>1, FS_RemoveElement
      <4>3. Cardinality(A \ {c}) = k /\ A \ {c} \in SUBSET S
        BY <2>2, <4>2
      <4>. QED
        BY <1>3, <4>3
    <3>. QED
      BY <3>1, <3>2
  <2>. QED
    BY <2>1, <2>2
<1>. HIDE DEF ok, n
<1>4. \A k \in 0..n : k \in ok
  BY <1>1, <1>2, <1>3, UpTo
<1>. QED
  BY <1>1, <1>4 DEF ok

\* There are finitely many marks.
LEMMA MarksAreFinite ==
    ASSUME NEW S, IsFiniteSet(S), NEW f, \A i \in S : f[i] \in Nat
    PROVE  \A A \in SUBSET S : IsFiniteSet(Marks(f, A))
<1>. DEFINE good == {A \in SUBSET S : IsFiniteSet(Marks(f, A))}
<1>1. {} \in good
  <2>1. Marks(f, {}) = {}
    BY DEF Marks
  <2>. QED
    BY <2>1, FS_EmptySet
<1>2. ASSUME NEW A \in SUBSET S, A # {}, \A c \in A : A \ {c} \in good PROVE A \in good
  BY <1>2, OneMoreMarked
<1>. HIDE DEF good
<1>3. \A A \in SUBSET S : A \in good
  BY <1>1, <1>2, SetsUp
<1>. QED
  BY <1>3 DEF good

\* The sum of f over S.
SumOf(f, S) == MapThenSumSet(LAMBDA i : f[i], S)

\* It is the number of marks.
LEMMA SumCountsMarks ==
    ASSUME NEW S, IsFiniteSet(S), NEW f, \A i \in S : f[i] \in Nat
    PROVE  SumOf(f, S) = Cardinality(Marks(f, S))
<1>. DEFINE some(A) == CHOOSE x \in A : TRUE
            Equation(g) == g = [A \in SUBSET S |-> IF A = {} THEN 0 ELSE f[some(A)] + g[A \ {some(A)}]]
            sum == CHOOSE g : Equation(g)
            count == [A \in SUBSET S |-> Cardinality(Marks(f, A))]
<1>1. SumOf(f, S) = sum[S]
  BY Zenon DEF SumOf, MapThenSumSet, MapThenFoldSet
<1>2. \A A \in SUBSET S : A # {} => some(A) \in A /\ A \ {some(A)} \in SUBSET S
  OBVIOUS
<1>. HIDE DEF some
<1>3. \A A \in SUBSET S : IsFiniteSet(Marks(f, A))
  BY MarksAreFinite
<1>4. \A A \in SUBSET S : A # {} => Cardinality(Marks(f, A)) = f[some(A)] + Cardinality(Marks(f, A \ {some(A)}))
  BY <1>2, <1>3, OneMoreMarked
<1>5. Cardinality(Marks(f, {})) = 0
  <2>1. Marks(f, {}) = {}
    BY DEF Marks
  <2>. QED
    BY <2>1, FS_EmptySet
<1>6. Equation(count)
  <2>1. \A A \in SUBSET S : count[A] = IF A = {} THEN 0 ELSE f[some(A)] + count[A \ {some(A)}]
    BY <1>2, <1>4, <1>5
  <2>2. count = [A \in SUBSET S |-> count[A]]
    OBVIOUS
  <2>. HIDE DEF count
  <2>. QED
    BY <2>1, <2>2
<1>7. Equation(sum)
  <2>. HIDE DEF Equation, count
  <2>. QED
    BY <1>6, Zenon
<1>. HIDE DEF sum
<1>8. \A A \in SUBSET S : sum[A] = IF A = {} THEN 0 ELSE f[some(A)] + sum[A \ {some(A)}]
  BY <1>7
<1>. DEFINE agree == {A \in SUBSET S : sum[A] = Cardinality(Marks(f, A))}
<1>9. {} \in agree
  BY <1>5, <1>8
<1>10. ASSUME NEW A \in SUBSET S, A # {}, \A c \in A : A \ {c} \in agree PROVE A \in agree
  <2>1. some(A) \in A /\ A \ {some(A)} \in agree
    BY <1>2, <1>10
  <2>. QED
    BY <1>4, <1>8, <1>10, <2>1
<1>. HIDE DEF agree
<1>11. \A A \in SUBSET S : A \in agree
  BY <1>9, <1>10, SetsUp
<1>. QED
  BY <1>1, <1>11 DEF agree

\* An index that does not exist has not been scanned; the tables are counted too.
CountersInv ==
    /\ indexes \subseteq IndexUniverse /\ IsFiniteSet(indexes)
    /\ scans \in [IndexUniverse -> Nat] /\ \A i \in IndexUniverse \ indexes : scans[i] = 0
    /\ stats \in [Tables -> TableStats]

\* The counters at first.
LEMMA CountersInit == ASSUME IndexingInit PROVE CountersInv
BY UniverseAssumption DEF IndexingInit, CountersInv

\* What the building of an index does to the counters of the tables: it adds to
\* the sequential scans of its own, BuildScans at the most.
LEMMA OneMoreBuild ==
    ASSUME CountersInv, NEW i \in IndexUniverse, CreateIndex(i)
    PROVE  /\ stats' \in [Tables -> TableStats]
           /\ \A t \in Tables \ {IndexDef[i].table} : stats'[t] = stats[t]
           /\ \A t \in Tables :
                 /\ stats'[t].bytes = stats[t].bytes /\ stats'[t].rows = stats[t].rows
                 /\ stats'[t].writes = stats[t].writes
                 /\ stats[t].seq <= stats'[t].seq /\ stats'[t].seq <= stats[t].seq + BuildScans
<1>. DEFINE heap == IndexDef[i].table
<1>1. PICK n \in 1..BuildScans : stats' = [stats EXCEPT ![heap].seq = @ + n]
  BY DEF CreateIndex
<1>2. heap \in Tables /\ BuildScans \in Nat /\ n \in Nat /\ n <= BuildScans
  BY <1>1, UniverseAssumption
<1>. HIDE DEF heap
<1>3. stats \in [Tables -> TableStats]
  BY DEF CountersInv
<1>4. stats[heap] \in TableStats
  BY <1>2, <1>3
<1>. DEFINE built == [stats[heap] EXCEPT !.seq = @ + n]
<1>5. /\ built \in TableStats
      /\ built.bytes = stats[heap].bytes /\ built.rows = stats[heap].rows /\ built.writes = stats[heap].writes
      /\ built.seq = stats[heap].seq + n /\ stats[heap].seq \in Nat
  BY <1>2, <1>4 DEF TableStats
<1>6. stats' = [stats EXCEPT ![heap] = built]
  BY <1>1
<1>. HIDE DEF built
<1>7. \A t \in Tables : stats[t].seq \in Nat
  BY <1>3 DEF TableStats
<1>. QED
  BY <1>2, <1>3, <1>5, <1>6, <1>7 DEF heap

\* Every step keeps the counters.
LEMMA CountersStep == ASSUME CountersInv, [IndexingNext]_indexingVars PROVE CountersInv'
<1>1. CASE UNCHANGED <<indexes, scans, stats>>
  BY <1>1 DEF CountersInv
<1>2. ASSUME NEW i \in IndexUniverse, CreateIndex(i) PROVE CountersInv'
  <2>1. indexes' = indexes \cup {i} /\ scans' = scans
    BY <1>2 DEF CreateIndex
  <2>2. IsFiniteSet(indexes \cup {i})
    BY FS_AddElement DEF CountersInv
  <2>3. stats' \in [Tables -> TableStats]
    BY <1>2, OneMoreBuild
  <2>. QED
    BY <2>1, <2>2, <2>3 DEF CountersInv
<1>3. ASSUME NEW i \in IndexUniverse, DropIndex(i) PROVE CountersInv'
  <2>1. indexes' = indexes \ {i} /\ scans' = [scans EXCEPT ![i] = 0] /\ stats' = stats
    BY <1>3 DEF DropIndex
  <2>2. IsFiniteSet(indexes \ {i})
    BY FS_RemoveElement DEF CountersInv
  <2>. QED
    BY <2>1, <2>2 DEF CountersInv
<1>4. ASSUME NEW i \in IndexUniverse, ScanIndex(i) PROVE CountersInv'
  <2>1. i \in indexes /\ indexes' = indexes /\ scans' = [scans EXCEPT ![i] = @ + 1] /\ stats' = stats
    BY <1>4 DEF ScanIndex
  <2>. QED
    BY <2>1 DEF CountersInv
<1>5. CASE CatalogClient
  <2>1. ASSUME NEW t \in Tables, ScanTable(t) PROVE CountersInv'
    <3>1. UNCHANGED <<indexes, scans>> /\ stats' = [stats EXCEPT ![t].seq = @ + 1]
      BY <2>1 DEF ScanTable
    <3>. QED
      BY <3>1 DEF CountersInv, TableStats
  <2>2. ASSUME NEW t \in Tables, Write(t) PROVE CountersInv'
    <3>1. UNCHANGED <<indexes, scans>> /\ stats[t] \in TableStats
      BY <2>2 DEF Write, CountersInv
    <3>2. PICK more \in {-1, 0, 1} :
             /\ stats[t].rows + more >= 0
             /\ stats' = [stats EXCEPT ![t] =
                   [bytes |-> @.bytes + (IF more < 0 THEN 0 ELSE 1), rows |-> @.rows + more,
                    writes |-> @.writes + 1, seq |-> @.seq]]
      BY <2>2 DEF Write
    <3>. DEFINE row == [bytes |-> stats[t].bytes + (IF more < 0 THEN 0 ELSE 1), rows |-> stats[t].rows + more,
                        writes |-> stats[t].writes + 1, seq |-> stats[t].seq]
    <3>3. row \in TableStats
      BY <3>1, <3>2 DEF TableStats
    <3>4. stats' = [stats EXCEPT ![t] = row]
      BY <3>2
    <3>. QED
      BY <3>1, <3>3, <3>4 DEF CountersInv
  <2>3. ASSUME NEW c \in Columns, Analyze(c) PROVE UNCHANGED <<indexes, scans, stats>>
    BY <2>3 DEF Analyze
  <2>4. ASSUME NEW s \in Statements, RunStatement(s) PROVE UNCHANGED <<indexes, scans, stats>>
    BY <2>4 DEF RunStatement
  <2>. QED
    BY <1>1, <1>2, <1>3, <1>4, <1>5, <2>1, <2>2, <2>3, <2>4 DEF CatalogClient
<1>6. CASE CheckUnusedIndexes \/ CheckGinUsage \/ CheckHighSelectivity \/ CheckRedundantIndexes
             \/ CheckUnpromotedJsonbRangeQueries \/ CheckWriteAmplification \/ CheckPartialIndexes
  BY <1>1, <1>6 DEF CheckUnusedIndexes, CheckGinUsage, CheckHighSelectivity, CheckRedundantIndexes,
     CheckUnpromotedJsonbRangeQueries, CheckWriteAmplification, CheckPartialIndexes, Query, FindOrderMismatches, catalog
<1>7. CASE IndexingOver \/ UNCHANGED indexingVars
  BY <1>1, <1>7 DEF IndexingOver, indexingVars
<1>. QED
  BY <1>5, <1>6, <1>7 DEF IndexingNext

\* idx_scan is a sum, of the indexes there are.
LEMMA IdxScanIs == \A t : idx_scan(t) = SumOf(scans, On(t))
BY DEF idx_scan, SumOf

\* So it is after a step.
LEMMA IdxScanWillBe == (\A t : idx_scan(t) = SumOf(scans, On(t)))'
BY IdxScanIs, PTL

\* An index that has not been scanned does not count.
LEMMA UnscannedCountsNothing ==
    ASSUME CountersInv, CountersInv', scans' = scans, NEW i \in IndexUniverse, scans[i] = 0,
           indexes' = indexes \cup {i} \/ indexes' = indexes \ {i}
    PROVE  \A t \in Tables : idx_scan(t)' = idx_scan(t) /\ idx_scan(t) \in Nat
<1>1. ASSUME NEW t \in Tables PROVE idx_scan(t)' = idx_scan(t) /\ idx_scan(t) \in Nat
  <2>1. Marks(scans, On(t)') = Marks(scans, On(t))
    <3>1. \A j \in On(t)' : j = i \/ j \in On(t)
      BY DEF On
    <3>2. \A j \in On(t) : j = i \/ j \in On(t)'
      BY DEF On
    <3>3. 1..scans[i] = {}
      OBVIOUS
    <3>. QED
      BY <3>1, <3>2, <3>3 DEF Marks
  <2>2. idx_scan(t) = SumOf(scans, On(t)) /\ idx_scan(t)' = SumOf(scans, On(t)')
    BY IdxScanIs, IdxScanWillBe
  <2>3. /\ IsFiniteSet(On(t)) /\ IsFiniteSet(On(t)')
        /\ \A j \in On(t) : scans[j] \in Nat
        /\ \A j \in On(t)' : scans[j] \in Nat
    <3>1. /\ On(t) \subseteq indexes /\ IsFiniteSet(indexes) /\ indexes \subseteq IndexUniverse
          /\ On(t)' \subseteq indexes' /\ IsFiniteSet(indexes') /\ indexes' \subseteq IndexUniverse
      BY DEF On, CountersInv
    <3>2. IsFiniteSet(On(t)) /\ IsFiniteSet(On(t)')
      BY <3>1, FS_Subset
    <3>. QED
      BY <3>1, <3>2 DEF CountersInv
  <2>4. SumOf(scans, On(t)) = Cardinality(Marks(scans, On(t))) /\ SumOf(scans, On(t)') = Cardinality(Marks(scans, On(t)'))
    BY <2>3, SumCountsMarks
  <2>5. Cardinality(Marks(scans, On(t))) \in Nat
    BY <2>3, MarksAreFinite, FS_CardinalityType
  <2>. QED
    BY <2>1, <2>2, <2>4, <2>5
<1>. QED
  BY <1>1

\* The other findings, when there is an index more.
LEMMA OneMoreIndex ==
    ASSUME CountersInv, NEW i \in IndexUniverse, CreateIndex(i)
    PROVE  /\ UnindexedForeignKeys' = UnindexedForeignKeys \ {c \in Columns : Leads(i, c)}
           /\ HighSelectivityColumns' \subseteq HighSelectivityColumns
           /\ JsonbColumnsWithoutGin' \subseteq JsonbColumnsWithoutGin
           /\ UnusedIndexes' \ UnusedIndexes \subseteq {i}
           /\ HighWriteTablesWithManyIndexes' \ HighWriteTablesWithManyIndexes \subseteq {IndexDef[i].table}
           /\ \A g \in IndexesSharingLeadingColumn' \ IndexesSharingLeadingColumn : i \in g
<1>1. i \notin indexes /\ indexes' = indexes \cup {i} /\ scans' = scans /\ distinct' = distinct
  BY DEF CreateIndex
<1>10. \A t \in Tables : stats'[t].rows = stats[t].rows /\ stats'[t].writes = stats[t].writes
  BY OneMoreBuild
<1>11. \A c \in Columns : ColumnDef[c].table \in Tables
  BY UniverseAssumption
<1>2. UnindexedForeignKeys' = UnindexedForeignKeys \ {c \in Columns : Leads(i, c)}
  BY <1>1 DEF UnindexedForeignKeys
<1>3. \A t : On(t) \subseteq On(t)' /\ On(t)' \subseteq On(t) \cup {i} /\ (t # IndexDef[i].table => On(t)' = On(t))
  BY <1>1 DEF On
<1>4. ColumnsWithoutIndex' \subseteq ColumnsWithoutIndex
  BY <1>1, <1>3, <1>10, <1>11 DEF ColumnsWithoutIndex, OnTableOf
<1>5. HighSelectivityColumns' \subseteq HighSelectivityColumns
  BY <1>1, <1>4, <1>10, <1>11 DEF HighSelectivityColumns, ColumnsWithoutIndex
<1>6. JsonbColumnsWithoutGin' \subseteq JsonbColumnsWithoutGin
  BY <1>3 DEF JsonbColumnsWithoutGin, OnTableOf
<1>7. UnusedIndexes' \ UnusedIndexes \subseteq {i}
  BY <1>1 DEF UnusedIndexes
<1>8. HighWriteTablesWithManyIndexes' \ HighWriteTablesWithManyIndexes \subseteq {IndexDef[i].table}
  <2>1. ASSUME NEW t \in HighWriteTablesWithManyIndexes', t # IndexDef[i].table PROVE t \in HighWriteTablesWithManyIndexes
    <3>1. On(t)' = On(t)
      BY <1>3, <2>1
    <3>. QED
      BY <1>1, <1>10, <3>1 DEF HighWriteTablesWithManyIndexes
  <2>. QED
    BY <2>1
<1>9. ASSUME NEW g \in IndexesSharingLeadingColumn', i \notin g PROVE g \in IndexesSharingLeadingColumn
  <2>1. PICK k \in indexes \cup {i} : /\ g = {j \in indexes \cup {i} : LeadingColumn(j) = LeadingColumn(k)}
                                      /\ LeadingColumn(k)[2] # Expression /\ Cardinality(g) > 1
    BY <1>1 DEF IndexesSharingLeadingColumn
  <2>2. k \in g
    BY <2>1
  <2>3. k \in indexes /\ g = {j \in indexes : LeadingColumn(j) = LeadingColumn(k)}
    BY <1>9, <2>1, <2>2
  <2>. QED
    BY <2>1, <2>3 DEF IndexesSharingLeadingColumn
<1>. QED
  BY <1>2, <1>5, <1>6, <1>7, <1>8, <1>9

\* What the report recommends, done, makes no new findings but the index's own and,
\* for the scan its building takes, that its table is read sequentially, if that
\* was nearly so before (checks.py:26-358), whatever happens before and after.
THEOREM AdviceStaysSafe == IndexingSpec => AdviceIsSafe
<1>. DEFINE Safe(i) ==
        /\ i \in UnusedIndexes /\ DropIndex(i) => SeqScanHeavyTables' = SeqScanHeavyTables
        /\ CreateIndex(i) =>
            /\ UnindexedForeignKeys' = UnindexedForeignKeys \ {c \in Columns : Leads(i, c)}
            /\ HighSelectivityColumns' \subseteq HighSelectivityColumns
            /\ JsonbColumnsWithoutGin' \subseteq JsonbColumnsWithoutGin
            /\ SeqScanHeavyTables \subseteq SeqScanHeavyTables'
            /\ \A t \in SeqScanHeavyTables' \ SeqScanHeavyTables : t = IndexDef[i].table /\ NearlySeqScanHeavy(t)
            /\ UnusedIndexes' \ UnusedIndexes \subseteq {i}
            /\ HighWriteTablesWithManyIndexes' \ HighWriteTablesWithManyIndexes \subseteq {IndexDef[i].table}
            /\ \A g \in IndexesSharingLeadingColumn' \ IndexesSharingLeadingColumn : i \in g
<1>1. CountersInv /\ [IndexingNext]_indexingVars => [\A i \in IndexUniverse : Safe(i)]_indexingVars
  <2>. SUFFICES ASSUME CountersInv, IndexingNext, NEW i \in IndexUniverse PROVE Safe(i)
    OBVIOUS
  <2>1. CountersInv'
    BY CountersStep
  <2>2. ASSUME i \in UnusedIndexes, DropIndex(i) PROVE SeqScanHeavyTables' = SeqScanHeavyTables
    <3>1. indexes' = indexes \ {i} /\ scans[i] = 0 /\ scans' = [scans EXCEPT ![i] = 0] /\ stats' = stats
      BY <2>2 DEF UnusedIndexes, DropIndex
    <3>2. scans' = scans
      BY <3>1 DEF CountersInv
    <3>3. \A t \in Tables : idx_scan(t)' = idx_scan(t)
      BY <2>1, <3>1, <3>2, UnscannedCountsNothing
    <3>. QED
      BY <3>1, <3>3 DEF SeqScanHeavyTables
  <2>3. ASSUME CreateIndex(i)
        PROVE  /\ SeqScanHeavyTables \subseteq SeqScanHeavyTables'
               /\ \A t \in SeqScanHeavyTables' \ SeqScanHeavyTables : t = IndexDef[i].table /\ NearlySeqScanHeavy(t)
    <3>1. indexes' = indexes \cup {i} /\ scans[i] = 0 /\ scans' = scans
      BY <2>3 DEF CreateIndex, CountersInv
    <3>2. \A t \in Tables : idx_scan(t)' = idx_scan(t) /\ idx_scan(t) \in Nat
      BY <2>1, <3>1, UnscannedCountsNothing
    <3>3. /\ \A t \in Tables \ {IndexDef[i].table} : stats'[t] = stats[t]
          /\ \A t \in Tables : /\ stats'[t].bytes = stats[t].bytes
                               /\ stats[t].seq <= stats'[t].seq /\ stats'[t].seq <= stats[t].seq + BuildScans
      BY <2>3, OneMoreBuild
    <3>4. \A t \in Tables : stats[t].seq \in Nat /\ stats'[t].seq \in Nat
      BY <2>1 DEF CountersInv, TableStats
    <3>5. MinSeqScanCount \in Int /\ BuildScans \in Nat
      BY UniverseAssumption, BoundsAssumption
    <3>6. ASSUME NEW t \in SeqScanHeavyTables PROVE t \in SeqScanHeavyTables'
      BY <3>2, <3>3, <3>4, <3>5, <3>6 DEF SeqScanHeavyTables
    <3>7. ASSUME NEW t \in SeqScanHeavyTables', t \notin SeqScanHeavyTables
          PROVE  t = IndexDef[i].table /\ NearlySeqScanHeavy(t)
      BY <3>2, <3>3, <3>4, <3>5, <3>7 DEF SeqScanHeavyTables, NearlySeqScanHeavy
    <3>. QED
      BY <3>6, <3>7
  <2>4. ASSUME CreateIndex(i)
        PROVE  /\ UnindexedForeignKeys' = UnindexedForeignKeys \ {c \in Columns : Leads(i, c)}
               /\ HighSelectivityColumns' \subseteq HighSelectivityColumns
               /\ JsonbColumnsWithoutGin' \subseteq JsonbColumnsWithoutGin
               /\ UnusedIndexes' \ UnusedIndexes \subseteq {i}
               /\ HighWriteTablesWithManyIndexes' \ HighWriteTablesWithManyIndexes \subseteq {IndexDef[i].table}
               /\ \A g \in IndexesSharingLeadingColumn' \ IndexesSharingLeadingColumn : i \in g
    BY <2>4, OneMoreIndex
  <2>. QED
    BY <2>2, <2>3, <2>4
<1>2. IndexingInit => CountersInv
  BY CountersInit
<1>3. CountersInv /\ [IndexingNext]_indexingVars => CountersInv'
  BY CountersStep
<1>. QED
  BY <1>1, <1>2, <1>3, PTL DEF IndexingSpec, AdviceIsSafe

-----------------------------------------------------------------------------
(* The registry: a filter of slugs keeps its meaning, and an id means one  *)
(* check, the one it was shown beside, for every set of packages, every    *)
(* order and every number of releases.                                     *)

\* What is written down from list-checks is of one kind.
OneKind == noted # NoFilter /\ noted.slugs # {} => noted.ids = {} /\ noted.numbers = {}

\* The checks a filter of slugs stands for, in the packages installed.
Meant == UNION {{[category |-> p.slug, check |-> k.slug] : k \in {j \in p.checks : j.slug \in noted.slugs}}
                   : p \in installed}

\* A run happens on what was written down.
SlugInv == OneKind /\ (ran # NoFilter => noted # NoFilter) /\ SlugsAreStable

\* Numbering the categories found neither adds nor drops a package or a check.
LEMMA NumberingKeeps ==
    ASSUME DiscoverCategories # OutOfSync
    PROVE  /\ \A c \in DiscoverCategories : \E p \in installed : c.slug = p.slug /\ c.checks = p.checks
           /\ \A p \in installed : \E c \in DiscoverCategories : c.slug = p.slug /\ c.checks = p.checks
<1>. DEFINE numbered(p) == [slug |-> p.slug, checks |-> p.checks,
                            number |-> SelectInSeq(order, LAMBDA s : s = p.slug)]
<1>1. DiscoverCategories = {numbered(p) : p \in installed}
  BY DEF DiscoverCategories, StampCategoryNumbers
<1>2. \A p : numbered(p).slug = p.slug /\ numbered(p).checks = p.checks
  OBVIOUS
<1>. HIDE DEF numbered
<1>. QED
  BY <1>1, <1>2

\* The checks selected by a filter of slugs, whatever was numbered how.
LEMMA SelectedBySlug ==
    ASSUME DiscoverCategories # OutOfSync, noted.slugs # {}, noted.ids = {}, noted.numbers = {}
    PROVE  ChecksOf(Selected(DiscoverCategories, noted)) = Meant
<1>. DEFINE S == Selected(DiscoverCategories, noted)
<1>1. \A s : s \in S <=> \E c \in DiscoverCategories : \E k \in c.checks : s = <<c, k>> /\ k.slug \in noted.slugs
  BY DEF Selected, MatchesCategoryFilter, MatchesCheckFilter
<1>. HIDE DEF S
<1>2. ASSUME NEW x \in ChecksOf(S) PROVE x \in Meant
  <2>1. PICK s \in S : x = [category |-> s[1].slug, check |-> s[2].slug]
    BY <1>2 DEF ChecksOf
  <2>2. PICK c \in DiscoverCategories : \E k \in c.checks : s = <<c, k>> /\ k.slug \in noted.slugs
    BY <1>1, <2>1
  <2>3. PICK k \in c.checks : s = <<c, k>> /\ k.slug \in noted.slugs
    BY <2>2
  <2>4. PICK p \in installed : c.slug = p.slug /\ c.checks = p.checks
    BY <2>2, NumberingKeeps
  <2>. QED
    BY <2>1, <2>3, <2>4 DEF Meant
<1>3. ASSUME NEW x \in Meant PROVE x \in ChecksOf(S)
  <2>1. PICK p \in installed : \E k \in p.checks : k.slug \in noted.slugs /\ x = [category |-> p.slug, check |-> k.slug]
    BY <1>3 DEF Meant
  <2>2. PICK k \in p.checks : k.slug \in noted.slugs /\ x = [category |-> p.slug, check |-> k.slug]
    BY <2>1
  <2>3. PICK c \in DiscoverCategories : c.slug = p.slug /\ c.checks = p.checks
    BY NumberingKeeps
  <2>4. c \in DiscoverCategories /\ k \in c.checks /\ k.slug \in noted.slugs
    BY <2>2, <2>3, Zenon
  <2>5. \E d \in DiscoverCategories : \E j \in d.checks : <<c, k>> = <<d, j>> /\ j.slug \in noted.slugs
    BY <2>4, Zenon
  <2>6. <<c, k>> \in S
    BY <1>1, <2>5
  <2>. QED
    BY <2>2, <2>3, <2>6 DEF ChecksOf
<1>. QED
  BY <1>2, <1>3 DEF S

\* Each step keeps a filter's meaning.
LEMMA StepSlugInv == ASSUME SlugInv, [Next]_vars PROVE SlugInv'
<1>. USE DEF SlugInv, OneKind
<1>1. CASE ran = NoFilter /\ Maintainers
  <2>1. noted' = noted /\ ran' = NoFilter
    BY <1>1 DEF Maintainers, AddPackage, RemovePackage, ChangePackage, InsertIntoOrder, RemoveFromOrder, MoveInOrder, Release
  <2>. QED
    BY <2>1 DEF SlugsAreStable, Succeeded
<1>2. CASE ListChecks
  <2>1. ran' = NoFilter
    BY <1>2 DEF ListChecks
  <2>2. noted'.slugs # {} => noted'.ids = {} /\ noted'.numbers = {}
    BY <1>2 DEF ListChecks
  <2>. QED
    BY <2>1, <2>2 DEF SlugsAreStable, Succeeded
<1>3. CASE Run
  <2>1. /\ noted # NoFilter /\ noted' = noted /\ installed' = installed
        /\ ran' = IF DiscoverCategories = OutOfSync THEN OutOfSync ELSE Selected(DiscoverCategories, noted)
    BY <1>3 DEF Run
  <2>2. ASSUME Succeeded', noted.slugs # {} PROVE ChecksOf(ran') = Meant
    BY <2>1, <2>2, SelectedBySlug DEF Succeeded
  <2>. QED
    BY <2>1, <2>2 DEF SlugsAreStable, Meant
<1>4. CASE UNCHANGED vars
  BY <1>4 DEF vars, SlugsAreStable, Succeeded, ChecksOf
<1>. QED
  BY <1>1, <1>2, <1>3, <1>4 DEF Next, Over

\* A filter of slugs means the same checks for ever: whatever was reordered, added
\* or removed since it was written down, in however many releases, a run selects
\* just the checks of those slugs that are still there (runner.py:101, registry.py).
THEOREM SlugsKeepTheirMeaning == Spec => []SlugsAreStable
<1>1. Init => SlugInv
  BY DEF Init, SlugInv, OneKind, SlugsAreStable, Succeeded
<1>2. SlugInv /\ [Next]_vars => SlugInv'
  BY StepSlugInv
<1>3. SlugInv => SlugsAreStable
  BY DEF SlugInv
<1>. QED
  BY <1>1, <1>2, <1>3, PTL DEF Spec
-----------------------------------------------------------------------------
(* Ids.                                                                    *)

\* The packages are among those there are, one for each slug.
Installation ==
    /\ installed \subseteq Packages
    /\ \A p, q \in installed : p.slug = q.slug => p = q

Slugs == {p.slug : p \in Packages}

\* What is written down was shown, and what was shown stays true until the next release.
Shown ==
    /\ sinceNoted \in Nat
    /\ noted # NoFilter /\ noted.ids # {} =>
          /\ noted.slugs = {} /\ noted.numbers = {}
          /\ \E c \in shown : \E k \in c.checks : noted.ids = {DisplayCheckId(c.number, k.bullet)}
    /\ noted # NoFilter /\ sinceNoted = 0 => shown = DiscoverCategories

\* Ids mean what they show because slugs and bullets name one thing each.
IdInv ==
    /\ Installation /\ order \in Seq(Slugs) /\ Shown
    /\ ran # NoFilter => noted # NoFilter
    /\ IdsMeanWhatTheyShow

\* list.index finds the slug it looks for.
LEMMA IndexFinds ==
    ASSUME order \in Seq(Slugs), NEW slug \in ToSet(order)
    PROVE  order[SelectInSeq(order, LAMBDA s : s = slug)] = slug
<1>. DEFINE places == {i \in 1..Len(order) : order[i] = slug}
<1>1. places # {} /\ places \subseteq Nat
  BY DEF ToSet
<1>2. PICK i \in places : \A j \in places : i <= j
  <2>1. PICK i \in places : \A j \in places : <<j, i>> \notin OpToRel(<, Nat)
    BY <1>1, NatLessThanWellFounded, WFMin
  <2>2. \A j \in places : ~(j < i)
    <3>1. ASSUME NEW j \in places, j < i PROVE <<j, i>> \in OpToRel(<, Nat)
      BY <3>1 DEF OpToRel
    <3>. QED
      BY <2>1, <3>1
  <2>. QED
    BY <2>2
<1>3. Min(places) \in places
  BY <1>2 DEF Min
<1>. QED
  BY <1>1, <1>3 DEF SelectInSeq

\* A number is one category's.
LEMMA OneNumberEach ==
    ASSUME Installation, order \in Seq(Slugs), DiscoverCategories # OutOfSync,
           NEW c \in DiscoverCategories, NEW d \in DiscoverCategories, c.number = d.number
    PROVE  c = d
<1>. DEFINE at(p) == SelectInSeq(order, LAMBDA s : s = p.slug)
            stamped(p) == [slug |-> p.slug, checks |-> p.checks, number |-> at(p)]
<1>1. DiscoverCategories = {stamped(p) : p \in installed} /\ \A p \in installed : p.slug \in ToSet(order)
  BY DEF DiscoverCategories, StampCategoryNumbers
<1>2. \A p \in installed : order[at(p)] = p.slug
  BY <1>1, IndexFinds
<1>. HIDE DEF at
<1>3. PICK p \in installed, q \in installed : c = stamped(p) /\ d = stamped(q)
  BY <1>1
<1>4. p.slug = q.slug
  BY <1>2, <1>3
<1>. QED
  BY <1>3, <1>4 DEF Installation

\* An id is one check's, in one category.
LEMMA OneIdEach ==
    ASSUME Installation, order \in Seq(Slugs), DiscoverCategories # OutOfSync,
           NEW c \in DiscoverCategories, NEW d \in DiscoverCategories,
           NEW k \in c.checks, NEW j \in d.checks,
           DisplayCheckId(c.number, k.bullet) = DisplayCheckId(d.number, j.bullet)
    PROVE  c = d /\ k = j
<1>1. c.number = d.number /\ k.bullet = j.bullet
  BY DEF DisplayCheckId
<1>2. c = d
  BY <1>1, OneNumberEach
<1>3. PICK p \in installed : c.checks = p.checks
  BY NumberingKeeps
<1>. QED
  BY <1>1, <1>2, <1>3, BulletsAssumption DEF Installation

\* Everything selected is a check of a category found, as <<category, check>>.
LEMMA SelectedIs ==
    ASSUME NEW categories, NEW filter
    PROVE  \A s : s \in Selected(categories, filter) <=>
              \E c \in categories : \E k \in c.checks :
                  /\ s = <<c, k>>
                  /\ MatchesCategoryFilter(c, filter)
                  /\ MatchesCheckFilter(k, DisplayCheckId(c.number, k.bullet), filter)
BY DEF Selected

\* Sequences put after one another are one.
LEMMA ConcatInSeq == \A S : \A s, t \in Seq(S) : s \o t \in Seq(S)
  OBVIOUS

\* The maintainers' steps keep the packages distinct and the order a sequence.
LEMMA MaintainersKeep ==
    ASSUME Installation, order \in Seq(Slugs), Maintainers
    PROVE  /\ Installation' /\ order' \in Seq(Slugs) /\ sinceNoted' = sinceNoted + 1
           /\ UNCHANGED <<noted, shown, ran>>
<1>. USE DEF Installation
<1>1. ASSUME NEW p \in Packages, AddPackage(p) PROVE Installation' /\ order' = order
  BY <1>1 DEF AddPackage
<1>2. ASSUME NEW p \in Packages, RemovePackage(p) PROVE Installation' /\ order' = order
  BY <1>2 DEF RemovePackage
<1>3. ASSUME NEW p \in Packages, ChangePackage(p) PROVE Installation' /\ order' = order
  BY <1>3 DEF ChangePackage
<1>4. ASSUME NEW p \in Packages, InsertIntoOrder(p.slug) PROVE installed' = installed /\ order' \in Seq(Slugs)
  <2>1. PICK n \in 1..Len(order) + 1 : order' = InsertAt(order, n, p.slug)
    BY <1>4 DEF InsertIntoOrder
  <2>2. SubSeq(order, 1, n - 1) \in Seq(Slugs) /\ SubSeq(order, n, Len(order)) \in Seq(Slugs) /\ <<p.slug>> \in Seq(Slugs)
    <3>1. p.slug \in Slugs
      BY DEF Slugs
    <3>. HIDE DEF Slugs
    <3>. QED
      BY <3>1
  <2>3. order' = SubSeq(order, 1, n - 1) \o <<p.slug>> \o SubSeq(order, n, Len(order))
    BY <2>1 DEF InsertAt
  <2>4. installed' = installed
    BY <1>4 DEF InsertIntoOrder
  <2>. QED
    BY <2>2, <2>3, <2>4, ConcatInSeq
<1>5. ASSUME RemoveFromOrder PROVE installed' = installed /\ order' \in Seq(Slugs)
  <2>1. PICK n \in DOMAIN order : order' = RemoveAt(order, n)
    BY <1>5 DEF RemoveFromOrder
  <2>2. SubSeq(order, 1, n - 1) \in Seq(Slugs) /\ SubSeq(order, n + 1, Len(order)) \in Seq(Slugs)
    OBVIOUS
  <2>3. order' = SubSeq(order, 1, n - 1) \o SubSeq(order, n + 1, Len(order))
    BY <2>1 DEF RemoveAt
  <2>4. installed' = installed
    BY <1>5 DEF RemoveFromOrder
  <2>. QED
    BY <2>2, <2>3, <2>4, ConcatInSeq
<1>6. ASSUME MoveInOrder PROVE installed' = installed /\ order' \in Seq(Slugs)
  <2>1. PICK n \in DOMAIN order, k \in DOMAIN order : order' = InsertAt(RemoveAt(order, n), k, order[n])
    BY <1>6 DEF MoveInOrder
  <2>2. SubSeq(order, 1, n - 1) \in Seq(Slugs) /\ SubSeq(order, n + 1, Len(order)) \in Seq(Slugs)
    OBVIOUS
  <2>. DEFINE rest == RemoveAt(order, n)
  <2>3. rest \in Seq(Slugs) /\ order[n] \in Slugs
    BY <2>2, ConcatInSeq DEF RemoveAt
  <2>4. Len(rest) = Len(order) - 1
    BY <2>2 DEF RemoveAt
  <2>. HIDE DEF rest
  <2>5. SubSeq(rest, 1, k - 1) \in Seq(Slugs) /\ SubSeq(rest, k, Len(rest)) \in Seq(Slugs) /\ <<order[n]>> \in Seq(Slugs)
    BY <2>3, <2>4
  <2>6. InsertAt(rest, k, order[n]) \in Seq(Slugs)
    BY <2>5, ConcatInSeq DEF InsertAt
  <2>. QED
    BY <1>6, <2>1, <2>6 DEF MoveInOrder, rest
<1>7. sinceNoted' = sinceNoted + 1 /\ UNCHANGED <<noted, shown, ran>>
  BY DEF Maintainers, AddPackage, RemovePackage, ChangePackage, InsertIntoOrder, RemoveFromOrder, MoveInOrder, Release
<1>. QED
  BY <1>1, <1>2, <1>3, <1>4, <1>5, <1>6, <1>7 DEF Maintainers

\* A run with an id written down in this release selects the check it was shown
\* beside, and no run shows an id twice.
LEMMA RunById == ASSUME IdInv, Run PROVE IdsMeanWhatTheyShow'
<1>1. /\ noted # NoFilter /\ UNCHANGED <<noted, shown, sinceNoted>>
      /\ ran' = IF DiscoverCategories = OutOfSync THEN OutOfSync ELSE Selected(DiscoverCategories, noted)
  BY DEF Run
<1>. SUFFICES ASSUME Succeeded' PROVE IdsMeanWhatTheyShow'
  BY DEF IdsMeanWhatTheyShow
<1>2. DiscoverCategories # OutOfSync /\ ran' = Selected(DiscoverCategories, noted)
  BY <1>1 DEF Succeeded
<1>3. \A s \in ran' : \E c \in DiscoverCategories : \E k \in c.checks :
        s = <<c, k>> /\ MatchesCheckFilter(k, DisplayCheckId(c.number, k.bullet), noted)
  BY <1>2, SelectedIs
<1>4. ASSUME NEW s \in ran', NEW z \in ran',
             DisplayCheckId(s[1].number, s[2].bullet) = DisplayCheckId(z[1].number, z[2].bullet)
      PROVE  s = z
  <2>1. PICK c \in DiscoverCategories : \E k \in c.checks : s = <<c, k>>
    BY <1>3
  <2>2. PICK k \in c.checks : s = <<c, k>>
    BY <2>1
  <2>3. PICK d \in DiscoverCategories : \E j \in d.checks : z = <<d, j>>
    BY <1>3
  <2>4. PICK j \in d.checks : z = <<d, j>>
    BY <2>3
  <2>5. DisplayCheckId(c.number, k.bullet) = DisplayCheckId(d.number, j.bullet)
    BY <1>4, <2>2, <2>4
  <2>6. c = d /\ k = j
    BY <1>2, <2>5, OneIdEach DEF IdInv
  <2>. QED
    BY <2>2, <2>4, <2>6
<1>5. ASSUME noted.ids # {}, sinceNoted = 0
      PROVE  \E c \in shown : \E k \in c.checks :
                 ran' = {<<c, k>>} /\ noted.ids = {DisplayCheckId(c.number, k.bullet)}
  <2>1. shown = DiscoverCategories /\ noted.slugs = {} /\ noted.numbers = {}
    BY <1>1, <1>5 DEF IdInv, Shown
  <2>2. PICK c \in shown : \E k \in c.checks : noted.ids = {DisplayCheckId(c.number, k.bullet)}
    BY <1>1, <1>5 DEF IdInv, Shown
  <2>3. PICK k \in c.checks : noted.ids = {DisplayCheckId(c.number, k.bullet)}
    BY <2>2
  <2>4. <<c, k>> \in ran'
    <3>1. MatchesCategoryFilter(c, noted) /\ MatchesCheckFilter(k, DisplayCheckId(c.number, k.bullet), noted)
      BY <2>1, <2>3 DEF MatchesCategoryFilter, MatchesCheckFilter
    <3>. QED
      BY <1>2, <2>1, <3>1, SelectedIs
  <2>5. ASSUME NEW s \in ran' PROVE s = <<c, k>>
    <3>1. PICK d \in DiscoverCategories : \E j \in d.checks :
            s = <<d, j>> /\ MatchesCheckFilter(j, DisplayCheckId(d.number, j.bullet), noted)
      BY <1>3
    <3>2. PICK j \in d.checks : s = <<d, j>> /\ MatchesCheckFilter(j, DisplayCheckId(d.number, j.bullet), noted)
      BY <3>1
    <3>3. DisplayCheckId(d.number, j.bullet) = DisplayCheckId(c.number, k.bullet)
      BY <1>5, <2>1, <2>3, <3>2 DEF MatchesCheckFilter
    <3>4. d = c /\ j = k
      BY <1>2, <2>1, <3>3, OneIdEach DEF IdInv
    <3>. QED
      BY <3>2, <3>4
  <2>6. ran' = {<<c, k>>}
    BY <2>4, <2>5
  <2>. QED
    BY <2>3, <2>6
<1>. QED
  BY <1>1, <1>4, <1>5 DEF IdsMeanWhatTheyShow

\* Each step keeps what ids mean.
LEMMA StepIdInv == ASSUME IdInv, [Next]_vars PROVE IdInv'
<1>1. CASE ran = NoFilter /\ Maintainers
  <2>1. /\ Installation' /\ order' \in Seq(Slugs)' /\ sinceNoted' = sinceNoted + 1
        /\ UNCHANGED <<noted, shown, ran>>
    BY <1>1, MaintainersKeep DEF IdInv, Slugs
  <2>2. Shown'
    BY <2>1 DEF IdInv, Shown, DisplayCheckId
  <2>. QED
    BY <1>1, <2>1, <2>2 DEF IdInv, IdsMeanWhatTheyShow, Succeeded
<1>2. CASE ListChecks
  <2>1. /\ ran' = NoFilter /\ UNCHANGED <<installed, order>> /\ sinceNoted' = 0 /\ shown' = DiscoverCategories
    BY <1>2 DEF ListChecks, IdInv
  <2>2. noted'.ids # {} =>
          /\ noted'.slugs = {} /\ noted'.numbers = {}
          /\ \E c \in shown' : \E k \in c.checks : noted'.ids = {DisplayCheckId(c.number, k.bullet)}
    <3>. DEFINE all == Selected(shown', [slugs |-> {}, ids |-> {}, numbers |-> {}])
                slugs == {k.slug : k \in UNION {c.checks : c \in shown'}}
    <3>1. \/ \E S \in SUBSET slugs : noted' = [slugs |-> S, ids |-> {}, numbers |-> {}]
          \/ \E s \in all : noted' = [slugs |-> {}, ids |-> {DisplayCheckId(s[1].number, s[2].bullet)}, numbers |-> {}]
          \/ \E c \in shown' : noted' = [slugs |-> {}, ids |-> {}, numbers |-> {c.number}]
      BY <1>2 DEF ListChecks
    <3>2. \A s \in all : \E c \in shown' : \E k \in c.checks : s = <<c, k>>
      BY SelectedIs
    <3>. HIDE DEF all, slugs
    <3>. SUFFICES ASSUME noted'.ids # {}
                  PROVE  /\ noted'.slugs = {} /\ noted'.numbers = {}
                         /\ \E c \in shown' : \E k \in c.checks : noted'.ids = {DisplayCheckId(c.number, k.bullet)}
      OBVIOUS
    <3>3. PICK s \in all : noted' = [slugs |-> {}, ids |-> {DisplayCheckId(s[1].number, s[2].bullet)}, numbers |-> {}]
      BY <3>1
    <3>4. PICK c \in shown' : \E k \in c.checks : s = <<c, k>>
      BY <3>2
    <3>5. PICK k \in c.checks : s = <<c, k>>
      BY <3>4
    <3>. QED
      BY <3>3, <3>5
  <2>3. Shown'
    BY <2>1, <2>2 DEF Shown, DiscoverCategories
  <2>. QED
    BY <2>1, <2>3 DEF IdInv, Installation, IdsMeanWhatTheyShow, Succeeded, Slugs
<1>3. CASE Run
  <2>1. IdsMeanWhatTheyShow'
    BY <1>3, RunById
  <2>. QED
    BY <1>3, <2>1 DEF IdInv, Run, Installation, Slugs, Shown, DiscoverCategories
<1>4. CASE UNCHANGED vars
  BY <1>4 DEF vars, IdInv, Installation, Slugs, Shown, DiscoverCategories, IdsMeanWhatTheyShow, Succeeded
<1>. QED
  BY <1>1, <1>2, <1>3, <1>4 DEF Next, Over

\* An id read off list-checks selects, in the same release, exactly the check it was
\* shown beside, and a run never shows two checks under one id, however often the
\* order names a category (registry.py, DisplayCheckId of runner.py and cli.py).
THEOREM IdsKeepTheirMeaning == Spec => []IdsMeanWhatTheyShow
<1>1. ASSUME Init PROVE IdInv
  <2>1. order \in Seq(Slugs)
    <3>. DEFINE present == {p.slug : p \in installed}
    <3>1. IsFiniteSet(installed)
      BY <1>1, PackagesAssumption, FS_Subset DEF Init
    <3>2. IsFiniteSet(present)
      <4>. DEFINE name == [p \in installed |-> p.slug]
      <4>1. name \in Surjection(installed, present)
        BY DEF Surjection
      <4>. QED
        BY <3>1, <4>1, FS_Surjection
    <3>3. Cardinality(present) \in Nat /\ present \subseteq Slugs
      BY <1>1, <3>2, FS_CardinalityType DEF Init, Slugs
    <3>4. order \in SetToSeqs(present)
      BY <1>1 DEF Init
    <3>. HIDE DEF present
    <3>5. order \in [1..Cardinality(present) -> present]
      BY <3>4 DEF SetToSeqs
    <3>. QED
      BY <3>3, <3>5
  <2>. QED
    BY <1>1, <2>1 DEF Init, IdInv, Installation, Shown, IdsMeanWhatTheyShow, Succeeded
<1>2. IdInv /\ [Next]_vars => IdInv'
  BY StepIdInv
<1>3. IdInv => IdsMeanWhatTheyShow
  BY DEF IdInv
<1>. QED
  BY <1>1, <1>2, <1>3, PTL DEF Spec
=============================================================================
