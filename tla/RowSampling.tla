----------------------------- MODULE RowSampling -----------------------------
(***************************************************************************)
(* The checks of the Data Quality & Integrity category that read rows      *)
(* rather than statistics: unvalidated foreign keys (06.03), the orphans   *)
(* they have left (06.09), and empty JSONB documents (06.02).              *)
(*                                                                         *)
(* 06.09 first lists the constraints, then samples the child table of each *)
(* in a query of its own, while the client writes, validates and drops.    *)
(* Every constraint has its own child table; all reference one parent.     *)
(***************************************************************************)
EXTENDS Naturals, Sequences, FiniteSets, FiniteSetsExt, SequencesExt

CONSTANTS
    Keys,           \* the parent's key values
    ForeignKeys,    \* a sequence: the constraints in the order of the query
    Composite,      \* those of them with more than one column
    Null,
    OrphanSampleLimit, JsonbSampleLimit, MinJsonbSample,
    Loads,          \* [Constraints -> rows by value]: what the child tables may have to begin with
    Documents,      \* [total, empty, dropped] of the JSONB column: what a client may have loaded
    Pending, Listed, Raised,
    MaxRows,        \* the rows of one child table with one value
    MaxChanges      \* how often the client acts during the audit

Constraints == ToSet(ForeignKeys)

ASSUME LoadsAssumption ==
    /\ IsFiniteSet(Keys) /\ Null \notin Keys /\ MaxRows \in Nat
    /\ Loads \subseteq [Constraints -> [Keys \cup {Null} -> 0..MaxRows]]
    /\ ForeignKeys \in Seq(Constraints)

ASSUME DocumentsAssumption ==
    \A d \in Documents : d \in [total : Nat, empty : Nat, dropped : {FALSE}] /\ d.empty <= d.total

\* ORPHAN_SAMPLE_LIMIT, JSONB_SAMPLE_ROW_LIMIT, MIN_JSONB_SAMPLE_SIZE_FOR_EMPTY_CHECK.
ASSUME LimitsAssumption ==
    /\ OrphanSampleLimit \in Nat \ {0} /\ MinJsonbSample \in Nat \ {0}
    /\ JsonbSampleLimit \in Nat /\ MinJsonbSample <= JsonbSampleLimit

\* Neither an exception nor a check to come is a list of samples.
ASSUME OutcomesAssumption ==
    /\ {} \notin {Pending, Listed, Raised} /\ Pending # Listed
    /\ \A size, empty \in 0..JsonbSampleLimit : {[size |-> size, empty |-> empty]} # Raised

VARIABLES
    parents,    \* SUBSET Keys
    children,   \* [Constraints -> [Keys \cup {Null} -> 0..MaxRows]], rows by value
    state,      \* [Constraints -> "absent", "not valid", "valid" or "dropped" (the table too)]
    documents,  \* [total, empty, dropped]: the documents of the one JSONB column, or its table gone
    empties,    \* 06.02: Pending, Listed, the samples [size, empty] reported, or Raised
    unvalidated,\* 06.03: the constraints reported, or Pending
    details,    \* 06.09: where in ForeignKeys is what the listing query returned, or Pending
    next,       \* 06.09: what of `details` is before it has been sampled
    orphaned,   \* 06.09: the findings so far: a set of [fk, count, atLeast], or Raised
    steady,     \* (history) nothing has changed since the audit began
    there,      \* (history) [fk, really, state]: at each finding, how many orphans there were
    changes

database == <<parents, children, state, documents>>
samplingVars == <<parents, children, state, documents, empties, unvalidated, details, next, orphaned, steady, there, changes>>

-----------------------------------------------------------------------------
(* The queries.                                                            *)

\* A row is its value and which of the rows with this value it is.
OrphanedRows(fk) == {r \in (Keys \ parents) \X (1..MaxRows) : r[2] <= children[fk][r[1]]}
Orphans(fk) == Cardinality(OrphanedRows(fk))

\* _UNVALIDATED_FOREIGN_KEYS_SQL.
Unvalidated == {fk \in Constraints : state[fk] = "not valid"}

\* Mutation: the listing has the composite constraints as well.
UnvalidatedOfAnyWidth == {k \in DOMAIN ForeignKeys : ForeignKeys[k] \in Unvalidated}

\* _UNVALIDATED_FK_DETAIL_SQL leaves out the constraints of several columns.
UnvalidatedDetail == {k \in DOMAIN ForeignKeys : ForeignKeys[k] \in Unvalidated \ Composite}

\* The number of rows fetch_orphaned_child_rows returns.
OrphanSample(fk) == Min({Orphans(fk), OrphanSampleLimit})

\* The rows a LIMIT without an ORDER BY may return, as [size, empty].
JsonbSamples ==
    LET size == Min({documents.total, JsonbSampleLimit}) IN
    {[size |-> size, empty |-> e] : e \in {k \in 0..Min({size, documents.empty}) :
                                              size - k <= documents.total - documents.empty}}

-----------------------------------------------------------------------------
(* The checks, in the category's order.                                    *)

ListJsonbColumns ==
    /\ empties = Pending /\ empties' = IF documents.dropped THEN {} ELSE Listed
    /\ UNCHANGED <<database, unvalidated, details, next, orphaned, steady, there, changes>>

SampleJsonb ==
    /\ empties = Listed /\ ~documents.dropped
    /\ \E sample \in JsonbSamples :
          empties' = IF sample.size < MinJsonbSample \/ sample.empty = 0 \/ 100 * sample.empty < sample.size
                     THEN {} ELSE {sample}
    /\ UNCHANGED <<database, unvalidated, details, next, orphaned, steady, there, changes>>

JsonbSampleFails ==
    /\ empties = Listed /\ documents.dropped /\ empties' = Raised
    /\ UNCHANGED <<database, unvalidated, details, next, orphaned, steady, there, changes>>

CheckMalformedJsonbEntries == ListJsonbColumns \/ SampleJsonb \/ JsonbSampleFails

CheckUnvalidatedForeignKeys ==
    /\ empties \notin {Pending, Listed} /\ unvalidated = Pending /\ unvalidated' = Unvalidated
    /\ UNCHANGED <<database, empties, details, next, orphaned, steady, there, changes>>

ListUnvalidated ==
    /\ unvalidated # Pending /\ details = Pending /\ details' = UnvalidatedDetail
    /\ UNCHANGED <<database, empties, unvalidated, next, orphaned, steady, there, changes>>

Left == {k \in details : k >= next}
Sampling == details # Pending /\ orphaned # Raised /\ Left # {}

\* Mutation: "at least" only beyond the limit.
PhraseBeyond(fk, n) == [fk |-> fk, count |-> n, atLeast |-> n > OrphanSampleLimit]
Phrase(fk, n) == [fk |-> fk, count |-> n, atLeast |-> n >= OrphanSampleLimit]

SampleOrphans ==
    /\ Sampling
    /\ LET fk == ForeignKeys[Min(Left)]
           n == OrphanSample(fk) IN
         /\ state[fk] # "dropped"
         /\ orphaned' = orphaned \cup (IF n = 0 THEN {} ELSE {Phrase(fk, n)})
         /\ there' = there \cup {[fk |-> fk, really |-> Orphans(fk), state |-> state[fk]]}
    /\ next' = Min(Left) + 1
    /\ UNCHANGED <<database, empties, unvalidated, details, steady, changes>>

\* The child table is gone: UndefinedTable, and the check's findings with it.
SampleFails ==
    /\ Sampling /\ state[ForeignKeys[Min(Left)]] = "dropped" /\ orphaned' = Raised
    /\ UNCHANGED <<database, empties, unvalidated, details, next, steady, there, changes>>

CheckOrphanedRows == ListUnvalidated \/ SampleOrphans \/ SampleFails

-----------------------------------------------------------------------------
(* The client, as PostgreSQL lets it: a constraint, validated or not, is   *)
(* enforced for every new write.                                           *)

Change ==
    /\ changes < MaxChanges /\ changes' = changes + 1
    /\ steady' = (empties = Pending)
    /\ UNCHANGED <<empties, unvalidated, details, next, orphaned, there>>

Enforced(fk) == state[fk] \in {"not valid", "valid"}

InsertChild(fk, v) ==
    /\ state[fk] # "dropped" /\ children[fk][v] < MaxRows
    /\ Enforced(fk) => v \in parents \cup {Null}
    /\ children' = [children EXCEPT ![fk][v] = @ + 1]
    /\ Change /\ UNCHANGED <<parents, state, documents>>

DeleteChild(fk, v) ==
    /\ children[fk][v] > 0 /\ children' = [children EXCEPT ![fk][v] = @ - 1]
    /\ Change /\ UNCHANGED <<parents, state, documents>>

AddParent(v) ==
    /\ v \notin parents /\ parents' = parents \cup {v}
    /\ Change /\ UNCHANGED <<children, state, documents>>

DeleteParent(v) ==
    /\ v \in parents /\ \A fk \in Constraints : Enforced(fk) => children[fk][v] = 0
    /\ parents' = parents \ {v}
    /\ Change /\ UNCHANGED <<children, state, documents>>

AlterConstraint(fk) ==
    /\ \/ state[fk] = "absent" /\ state' = [state EXCEPT ![fk] = "not valid"]
       \/ state[fk] \in {"absent", "not valid"} /\ Orphans(fk) = 0 /\ state' = [state EXCEPT ![fk] = "valid"]
       \/ Enforced(fk) /\ state' = [state EXCEPT ![fk] = "absent"]
    /\ Change /\ UNCHANGED <<parents, children, documents>>

DropTable(fk) ==
    /\ state[fk] # "dropped" /\ state' = [state EXCEPT ![fk] = "dropped"]
    /\ children' = [children EXCEPT ![fk] = [v \in DOMAIN @ |-> 0]]
    /\ Change /\ UNCHANGED <<parents, documents>>

DropDocuments ==
    /\ ~documents.dropped /\ documents' = [total |-> 0, empty |-> 0, dropped |-> TRUE]
    /\ Change /\ UNCHANGED <<parents, children, state>>

Client ==
    \/ DropDocuments
    \/ \E fk \in Constraints :
          \/ \E v \in Keys \cup {Null} : InsertChild(fk, v) \/ DeleteChild(fk, v)
          \/ AlterConstraint(fk) \/ DropTable(fk)
    \/ \E v \in Keys : AddParent(v) \/ DeleteParent(v)

Done == details # Pending /\ ~Sampling
SamplingOver == Done /\ UNCHANGED samplingVars

-----------------------------------------------------------------------------
\* A client's database: validated constraints hold, others may not.
SamplingInit ==
    /\ parents \in SUBSET Keys
    /\ children \in Loads
    /\ state \in [Constraints -> {"absent", "not valid", "valid"}]
    /\ \A fk \in Constraints : state[fk] = "valid" => Orphans(fk) = 0
    /\ documents \in Documents
    /\ empties = Pending /\ unvalidated = Pending /\ details = Pending
    /\ next = 1 /\ orphaned = {} /\ there = {}
    /\ steady = TRUE /\ changes = 0

SamplingNext == CheckMalformedJsonbEntries \/ CheckUnvalidatedForeignKeys \/ CheckOrphanedRows \/ Client \/ SamplingOver

SamplingSpec == SamplingInit /\ [][SamplingNext]_samplingVars

-----------------------------------------------------------------------------
\* Every variable has its type, a validated constraint holds, and the check
\* has sampled as many constraints as it says.
SamplingTypeOK ==
    /\ parents \subseteq Keys
    /\ children \in [Constraints -> [Keys \cup {Null} -> 0..MaxRows]]
    /\ state \in [Constraints -> {"absent", "not valid", "valid", "dropped"}]
    /\ \A fk \in Constraints : state[fk] = "valid" => Orphans(fk) = 0
    /\ empties \notin {Pending, Listed, Raised} => \A s \in empties : s.empty <= s.size
    /\ empties = Raised => documents.dropped
    /\ details # Pending => Cardinality(there) = Cardinality(details \ Left)
    /\ changes \in 0..MaxChanges

\* Whatever the client did between the listing and the sample, the orphans of
\* a finding were there when their table was sampled, exactly as many as it
\* says or, at the limit, at least as many; and the constraint the finding calls
\* never validated had not been validated by then.  A JSONB finding is about a
\* sample big enough, of which at least one in a hundred documents is empty; a
\* column all of whose documents are empty is reported whichever rows the
\* LIMIT lets through, and the check is lost only to a table dropped under it.
SamplesAreToldHonestly ==
    /\ orphaned # Raised =>
          \A f \in orphaned : \E now \in there :
              /\ now.fk = f.fk /\ now.really >= f.count /\ now.state # "valid"
              /\ ~f.atLeast => now.really = f.count
    /\ steady /\ empties \notin {Pending, Listed} =>
          /\ empties # Raised
          /\ \A s \in empties : 100 * s.empty >= s.size /\ s.size >= MinJsonbSample /\ documents.empty >= s.empty
          /\ documents.total >= MinJsonbSample /\ documents.empty = documents.total => empties # {}

\* In a database that holds still, every constraint with orphans is also
\* reported as unvalidated, and every unvalidated one of a single column that
\* has orphans gets its finding: 06.09 samples just what 06.03 finds.
SamplingCoversUnvalidated ==
    steady /\ Done /\ orphaned # Raised =>
        {f.fk : f \in orphaned} = {fk \in unvalidated \ Composite : Orphans(fk) > 0}
=============================================================================
