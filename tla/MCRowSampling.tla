---------------------------- MODULE MCRowSampling ----------------------------
(***************************************************************************)
(* RowSampling for three constraints, one key, and samples that reach      *)
(* their limits.                                                           *)
(***************************************************************************)
EXTENDS RowSampling

MCForeignKeys == <<"lot", "pair", "vendor">>
MCLoads == {[fk \in ToSet(MCForeignKeys) |-> load] : load \in [Keys \cup {Null} -> {0, MaxRows}]}
Loaded(total, empty) == [total |-> total, empty |-> empty, dropped |-> FALSE]
MCDocuments == {Loaded(n, e) : n \in {10, 90, 300}, e \in {1, 10}} \cup {Loaded(300, 300)}
=============================================================================
