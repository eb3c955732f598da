--------------------------- MODULE MCFingerprint ---------------------------
(***************************************************************************)
(* Fingerprint for three rows of two columns: one value spelled in three   *)
(* ways, a similar one, the separator, and no value; identity rules of one *)
(* and two fields, and files with one defect each.                         *)
(***************************************************************************)
EXTENDS Fingerprint

MCUpper == <<"A">>
MCLower == <<"a">>
MCDigits == {"1", "2"}

MCRows ==
    {<<v, <<"1">>>> : v \in {<<"A", "1">>, <<"a", " ", "1">>, <<"a", "2">>, <<"|">>, NoText}}
    \cup {<<NoText, NoText>>, <<<<"A", "1">>, NoText>>}

\* A stand-in for trigram similarity: at least half of the characters shared.
MCSimilar(a, b) == 2 * Cardinality(ToSet(a) \cap ToSet(b)) >= Cardinality(ToSet(a) \cup ToSet(b))

File(keys, fields, threshold) == [parses |-> TRUE, keys |-> keys, fields |-> fields, threshold |-> threshold]
Field(steps) == [column |-> TRUE, normalize |-> steps]
All == RequiredKeys

MCRawConfigs ==
    {File(All, <<Field(<<"lowercase", "strip_whitespace">>)>>, TRUE),
     File(All, <<Field(<<>>), Field(<<"digits_only">>)>>, TRUE),
     File(All, <<Field(<<"strip_whitespace", "alphanumeric_only", "lowercase">>), Field(<<>>)>>, TRUE),
     File(All \ {"table"}, <<Field(<<>>)>>, TRUE),
     File(All, <<>>, TRUE),
     File(All, <<Field(<<>>), Field(<<"uppercase">>)>>, TRUE),
     File(All, <<[column |-> FALSE, normalize |-> <<>>]>>, TRUE),
     File(All, <<Field(<<>>)>>, FALSE),
     [parses |-> FALSE, keys |-> {}, fields |-> <<>>, threshold |-> FALSE]}
=============================================================================
