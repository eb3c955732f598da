------------------------------ MODULE Samples ------------------------------
(***************************************************************************)
(* What SELECT ... LIMIT without an ORDER BY may return: some rows of the  *)
(* table, whichever the scan meets first.  A table's contents are a bag of *)
(* the kinds of row the checks tell apart.                                 *)
(***************************************************************************)
EXTENDS Naturals, FiniteSets, Bags

IsContents(bag) == IsABag(bag) /\ IsFiniteSet(BagToSet(bag))

\* Rows of a kind are told apart by number.
RowsIn(bag) == UNION {{kind} \X (1..bag[kind]) : kind \in BagToSet(bag)}
Size(bag) == Cardinality(RowsIn(bag))

\* What is left of them when the scan stops before so many of each kind.
Without(bag, skipped) ==
    [kind \in {k \in BagToSet(bag) : bag[k] > skipped[k]} |-> bag[kind] - skipped[kind]]

Samples(bag, limit) ==
    IF Size(bag) <= limit THEN {bag}
    ELSE {sample \in {Without(bag, skipped) : skipped \in [BagToSet(bag) -> 0..(Size(bag) - limit)]} :
            Size(sample) = limit}
=============================================================================
