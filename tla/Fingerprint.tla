----------------------------- MODULE Fingerprint -----------------------------
(***************************************************************************)
(* Semantic Duplicate Detection: the identity rule loaded from a TOML file *)
(* (fingerprint_config.py), the fingerprint expression built from it, and  *)
(* the two checks that group rows by equal fingerprints and pair up similar*)
(* ones (categories/semantic_duplicate_detection).                         *)
(*                                                                         *)
(* Each check loads the file anew, and each query sees the table as it is  *)
(* when it runs: the session's transaction is READ COMMITTED, so the       *)
(* client's own writes between the two checks show.                        *)
(*                                                                         *)
(* A text is a sequence of characters; a row is the sequence of its        *)
(* configured columns.                                                     *)
(***************************************************************************)
EXTENDS Naturals, Sequences, FiniteSets, SequencesExt

CONSTANTS
    RowIds,         \* row ids
    Rows,           \* the rows considered: sequences of texts or NoText
    NoText,
    RawConfigs,     \* the TOML files considered, see LoadFingerprintConfig
    Error,          \* FingerprintConfigError, and a check that raised it
    NotRun,         \* the check has not run yet
    NotAssessed,    \* the check only says that pg_trgm is missing
    Upper, Lower,   \* sequences: Upper[i] in lower case is Lower[i]
    Digits,
    Similar(_, _),  \* pg_trgm: similarity() reaches the threshold
    MaxDistinct,    \* MAX_DISTINCT_FINGERPRINTS_FOR_FUZZY_MATCH
    MaxWrites       \* how often the client writes during the audit

\* A text; its characters are strings of length one.
Texts == Seq(STRING)

ASSUME TextsAssumption ==
    /\ IsFiniteSet(RowIds) /\ MaxDistinct \in Nat
    /\ NoText \notin Texts
    /\ Upper \in Texts /\ Lower \in Texts /\ Len(Upper) = Len(Lower)

\* A rule names columns of the table, and its steps are words.
ASSUME RulesAssumption ==
    \A file \in RawConfigs :
        /\ file.fields \in Seq([column : BOOLEAN, normalize : Seq(STRING)])
        /\ \A row \in Rows :
              row \in Seq(Texts \cup {NoText}) /\ Len(file.fields) <= Len(row)

VARIABLES
    table,      \* [RowIds -> Rows], a row that was never inserted being absent
    raw,        \* the configuration file
    trgm,       \* pg_trgm is installed
    exact,      \* what check_exact_match_duplicates returned
    fuzzy,      \* what check_fuzzy_match_duplicates returned
    past,       \* (history) the table and the rule the exact-match query saw
    writes      \* how many writes the client has made

duplicatesVars == <<table, raw, trgm, exact, fuzzy, past, writes>>

-----------------------------------------------------------------------------
(* load_fingerprint_config.  A file is kept as whether it can be read and  *)
(* parsed, the required keys it has, its fields (each with or without a    *)
(* column, and its normalize steps) and whether its threshold is in (0, 1].*)

RequiredKeys == {"schema", "table", "id_column", "fields"}
NormalizePrimitives == {"lowercase", "strip_whitespace", "digits_only", "alphanumeric_only"}

FieldValid(f) == f.column /\ ToSet(f.normalize) \subseteq NormalizePrimitives

LoadFingerprintConfig(file) ==
    IF /\ file.parses /\ RequiredKeys \subseteq file.keys
       /\ file.fields # <<>> /\ \A i \in DOMAIN file.fields : FieldValid(file.fields[i])
       /\ file.threshold
    THEN [i \in DOMAIN file.fields |-> file.fields[i].normalize]
    ELSE Error

-----------------------------------------------------------------------------
(* The fingerprint expression.                                             *)

ToLower(c) == IF c \in ToSet(Upper) THEN Lower[CHOOSE i \in DOMAIN Upper : Upper[i] = c] ELSE c

\* The characters of a text that are in S.
Keep(text, S) == FlattenSeq([i \in DOMAIN text |-> IF text[i] \in S THEN <<text[i]>> ELSE <<>>])

\* _NORMALIZE_SQL_TEMPLATES; every step maps NULL to NULL.
Normalize(text, how) ==
    IF text = NoText THEN NoText ELSE
    CASE how = "lowercase"         -> [i \in DOMAIN text |-> ToLower(text[i])]
      [] how = "strip_whitespace"  -> Keep(text, ToSet(text) \ {" "})
      [] how = "digits_only"       -> Keep(text, Digits)
      [] how = "alphanumeric_only" -> Keep(text, Digits \cup ToSet(Upper) \cup ToSet(Lower))

Coalesced(text) == IF text = NoText THEN <<>> ELSE text

\* Mutation: only the last step of a chain is applied.
FieldExpressionLastOnly(text, steps) == Coalesced(IF steps = <<>> THEN text ELSE Normalize(text, Last(steps)))

\* The steps chain left to right, and NULL is coalesced to ''.
FieldExpression(text, steps) == Coalesced(FoldLeft(Normalize, text, steps))

Separator == "|"

\* The fields' expressions, joined by the separator.
FingerprintOf(row, rule) ==
    FlattenSeq([i \in DOMAIN rule |-> (IF i = 1 THEN <<>> ELSE <<Separator>>) \o FieldExpression(row[i], rule[i])])

-----------------------------------------------------------------------------
(* The two queries.                                                        *)

Present(t) == DOMAIN t

\* fetch_exact_match_duplicates: GROUP BY ... HAVING count(*) > 1.
ExactMatches(t, rule) ==
    LET Group(fp) == {id \in Present(t) : FingerprintOf(t[id], rule) = fp}
        fps == {FingerprintOf(t[id], rule) : id \in Present(t)} \ {<<>>}
    IN {[fingerprint |-> fp, ids |-> Group(fp)] : fp \in {f \in fps : Cardinality(Group(f)) > 1}}

\* The capped_fingerprints the query may see: which ones depends on the order.
Capped(fps) ==
    IF Cardinality(fps) <= MaxDistinct THEN {fps} ELSE {S \in SUBSET fps : Cardinality(S) = MaxDistinct}

\* Mutation: a similar fingerprint is paired with itself as well.
PairsWithItself(fps) == {{p[1], p[2]} : p \in {q \in fps \X fps : Similar(q[1], q[2])}}

\* fetch_fuzzy_match_candidates: a % b AND a < b, where % is symmetric.
Pairs(fps) == {{p[1], p[2]} : p \in {q \in fps \X fps : Similar(q[1], q[2]) /\ q[1] # q[2]}}

-----------------------------------------------------------------------------
DuplicatesInit ==
    /\ table \in UNION {[S -> Rows] : S \in SUBSET RowIds}
    /\ raw \in RawConfigs
    /\ trgm \in BOOLEAN
    /\ exact = NotRun /\ fuzzy = NotRun /\ past = NotRun
    /\ writes = 0

CheckExactMatchDuplicates ==
    /\ exact = NotRun
    /\ LET rule == LoadFingerprintConfig(raw) IN
         /\ exact' = IF rule = Error THEN Error ELSE ExactMatches(table, rule)
         /\ past' = [table |-> table, rule |-> rule]
    /\ UNCHANGED <<table, raw, trgm, fuzzy, writes>>

\* Without pg_trgm one informational finding; the file is then not read.
CheckFuzzyMatchDuplicates ==
    /\ exact # NotRun /\ fuzzy = NotRun
    /\ LET rule == LoadFingerprintConfig(raw) IN
         IF ~trgm THEN fuzzy' = NotAssessed
         ELSE IF rule = Error THEN fuzzy' = Error
         ELSE \E fps \in Capped({FingerprintOf(table[id], rule) : id \in Present(table)} \ {<<>>}) :
                 fuzzy' = Pairs(fps)
    /\ UNCHANGED <<table, raw, trgm, exact, past, writes>>

\* The client's application inserts, updates or deletes a row.
ClientWrites ==
    /\ writes < MaxWrites /\ fuzzy = NotRun
    /\ \E id \in RowIds :
          \/ \E row \in Rows :
                table' = [i \in DOMAIN table \cup {id} |-> IF i = id THEN row ELSE table[i]]
          \/ table' = [i \in DOMAIN table \ {id} |-> table[i]]
    /\ writes' = writes + 1
    /\ UNCHANGED <<raw, trgm, exact, fuzzy, past>>

DuplicatesOver == fuzzy # NotRun /\ UNCHANGED duplicatesVars

DuplicatesNext == CheckExactMatchDuplicates \/ CheckFuzzyMatchDuplicates \/ ClientWrites \/ DuplicatesOver

DuplicatesSpec == DuplicatesInit /\ [][DuplicatesNext]_duplicatesVars

-----------------------------------------------------------------------------
ListsFindings(result) == result \notin {NotRun, Error, NotAssessed}

\* Every variable has its type; a finding of the exact check is about at least
\* two rows, one of the fuzzy check about two fingerprints.
DuplicatesTypeOK ==
    /\ DOMAIN table \subseteq RowIds /\ raw \in RawConfigs /\ trgm \in BOOLEAN
    /\ writes \in 0..MaxWrites
    /\ ListsFindings(exact) => \A g \in exact : g.ids \subseteq RowIds /\ Cardinality(g.ids) > 1
    /\ ListsFindings(fuzzy) => \A pair \in fuzzy : Cardinality(pair) = 2

\* The identity the rule describes: the normalized fields, compared one by one.
Identity(row, rule) == [i \in DOMAIN rule |-> FoldLeft(Normalize, Coalesced(row[i]), rule[i])]

Unambiguous(t, rule) ==
    \A id \in DOMAIN t, i \in DOMAIN rule : Separator \notin ToSet(Identity(t[id], rule)[i])

\* As long as no normalized value has the separator in it, rows are reported
\* together exactly when their identities are equal field by field; joining
\* the fields and filtering the empty fingerprint loses nothing else (with one
\* field, rows without any identity are not reported).
GroupsAreIdentities ==
    ListsFindings(exact) /\ Unambiguous(past.table, past.rule) =>
        \A a, b \in DOMAIN past.table :
            LET identity == Identity(past.table[a], past.rule) IN
            a # b =>
                ((\E g \in exact : {a, b} \subseteq g.ids) <=>
                    /\ identity = Identity(past.table[b], past.rule)
                    /\ identity # <<<<>>>>)

\* In a table nobody writes to, two rows the checks consider alike are
\* reported by exactly one of them: by the exact check if the fingerprints are
\* equal, by the fuzzy one if they are merely similar and within the cap.
AlikeIsReportedOnce ==
    ListsFindings(exact) /\ ListsFindings(fuzzy) /\ writes = 0 =>
        LET Fp(id) == FingerprintOf(table[id], past.rule)
            alike(a, b) == Fp(a) # <<>> /\ Fp(b) # <<>> /\ Similar(Fp(a), Fp(b))
            capHit == Cardinality({Fp(id) : id \in DOMAIN table} \ {<<>>}) > MaxDistinct IN
        \A a, b \in DOMAIN table :
            a # b /\ alike(a, b) =>
                LET inExact == \E g \in exact : {a, b} \subseteq g.ids
                    inFuzzy == {Fp(a), Fp(b)} \in fuzzy IN
                /\ inExact # inFuzzy \/ (capHit /\ ~inExact /\ ~inFuzzy)
                /\ inExact <=> Fp(a) = Fp(b)

-----------------------------------------------------------------------------
(* What the docs say and the code does not do: this does not hold.         *)

\* queries.py:104: in the fuzzy check "rows sharing an identical fingerprint
\* are already covered by fetch_exact_match_duplicates".
AlreadyCovered ==
    ListsFindings(fuzzy) /\ ListsFindings(exact) =>
        \A a, b \in DOMAIN table :
            a # b /\ FingerprintOf(table[a], past.rule) = FingerprintOf(table[b], past.rule)
                  /\ FingerprintOf(table[a], past.rule) # <<>> =>
                \E g \in exact : {a, b} \subseteq g.ids
=============================================================================
