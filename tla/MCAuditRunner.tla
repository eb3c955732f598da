--------------------------- MODULE MCAuditRunner ---------------------------
(***************************************************************************)
(* Small instances of AuditRunner: three categories with checks, one per   *)
(* kind of applicability, and the out-of-scope category.                   *)
(***************************************************************************)
EXTENDS AuditRunner, TLC

CONSTANTS s11, s12, s21, s31    \* the slugs of the checks

MCNumChecks == <<2, 1, 1>>
MCApplicability == <<"none", "query", "config">>
MCInteractive == {<<1, 1>>}
MCSlug == (<<1, 1>> :> s11) @@ (<<1, 2>> :> s12) @@ (<<2, 1>> :> s21) @@ (<<3, 1>> :> s31)
MCBullet == (<<1, 1>> :> 1) @@ (<<1, 2>> :> 4) @@ (<<2, 1>> :> 1) @@ (<<3, 1>> :> 2)

\* Nothing found; one plain finding; one of two findings to attest.
MCFnResults == {<<>>, <<FALSE>>, <<TRUE, FALSE, TRUE>>}

Config(cs, ks, i, s, f) ==
    [categories |-> cs, checks |-> ks, interactive |-> i, step |-> s, fingerprint |-> f]

\* Full runs, a run of some categories, and runs filtered by slug and by id.
MCConfigs ==
    {Config(NoFilter, NoFilter, i, s, f) : i, s, f \in BOOLEAN}
    \cup {Config(cs, NoFilter, TRUE, FALSE, TRUE) : cs \in {{2}, {1, 3}}}
    \cup {Config(NoFilter, ks, TRUE, FALSE, TRUE) : ks \in {{s12, s21}, {<<1, 1>>}, {<<3, 1>>}}}

\* Small enough for the temporal properties.
MCFewConfigs ==
    {Config(NoFilter, NoFilter, TRUE, s, TRUE) : s \in BOOLEAN}
    \cup {Config({2, 3}, {s12, s31}, TRUE, FALSE, FALSE)}
=============================================================================
