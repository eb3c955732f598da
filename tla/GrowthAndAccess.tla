--------------------------- MODULE GrowthAndAccess ---------------------------
(***************************************************************************)
(* The categories Scale & Growth Readiness and Security & Access           *)
(* Boundaries (categories/scale_and_growth_readiness,                      *)
(* categories/security_and_access_boundaries), one after the other.  They  *)
(* share the question of row-level security: 07.03 reports tables without  *)
(* it, 08.02 those where it is on and does nothing, or not for the owner.  *)
(***************************************************************************)
EXTENDS Integers, Sequences, FiniteSets, Statements

CONSTANTS
    TableDef,       \* [Tables -> [partitioned, tenant, personal]]: its kind; whether a column's
                    \* name speaks of a tenant, of personal data
    GrowthStarts,
    SlowMean, VerySlowMean, \* SLOW_QUERY_MEAN_MS_THRESHOLD, _HIGH_SLOW_QUERY_MS
    MaxSlow, MaxLargest,    \* the LIMITs of those queries
    Pending, Raised, MaxChanges

\* A database: pg_stat_statements and what it has recorded; what is so of the
\* tables; the tables another session has locked and those on which the role
\* has a privilege of its own; roles; settings; who may read pg_hba.conf.
VARIABLES database, check, todo, partial, found, past, changes

Tables == DOMAIN TableDef
Plain == {t \in Tables : ~TableDef[t].partitioned}

\* What is known of each of them.
IsDatabase(db) ==
    /\ {"extension", "preloaded", "statements", "monitor", "tables", "locked", "privileged", "roles", "ssl", "pgaudit",
        "logStatement", "hba", "hbaPrivileges", "sessionEncryption"} \subseteq DOMAIN db
    /\ DOMAIN db.statements \subseteq AllStatements
    /\ DOMAIN db.tables = Tables
    /\ \A t \in Tables : {"bytes", "rls", "policies", "forced", "documented", "public"} \subseteq DOMAIN db.tables[t]

-----------------------------------------------------------------------------
(* Scale & Growth Readiness.                                               *)

\* Slower than the threshold, and of no statement that names these schemas.
Slow(db) ==
    {s \in Containing({}, {"pg_stat_statements", "pg_catalog", "information_schema"}, db) : db.statements[s].mean > SlowMean}
SlowQueries(db) ==
    {{<<"slow", s, IF db.statements[s].mean >= VerySlowMean THEN "high" ELSE "medium">> : s \in top} :
        top \in Top(MaxSlow, [s \in Slow(db) |-> db.statements[s].mean])}

\* pg_total_relation_size waits for locks until the lock timeout.
SizesRaise(db) == Plain \cap db.locked # {}
LargestTables(db) ==
    IF Plain = {} THEN {{}}
    ELSE {{<<"footprint", top>>} : top \in Top(MaxLargest, [t \in Plain |-> db.tables[t].bytes])}

\* information_schema.columns shows a column to who has SELECT, INSERT, UPDATE or
\* REFERENCES on it, be it as PUBLIC.
ColumnsShown(t, db) == t \in db.privileged \/ db.tables[t].public \cap {"SELECT", "INSERT", "UPDATE", "REFERENCES"} # {}

TenantColumnsWithoutRls(db) ==
    {<<"no-rls", t>> : t \in {u \in Plain : TableDef[u].tenant /\ ColumnsShown(u, db) /\ ~db.tables[u].rls}}

-----------------------------------------------------------------------------
(* Security & Access Boundaries.                                           *)

LoginSuperusers(db) == {r \in db.roles : r.login /\ r.super}
LoginSuperuserRoles(db) ==
    {<<"superuser", r.name>> : r \in LoginSuperusers(db)}
    \cup {<<"unlimited", r.name>> : r \in {q \in LoginSuperusers(db) : ~q.limited}}
SuperusersWithoutExpiration(db) == {<<"unexpiring", r.name>> : r \in {q \in db.roles : q.super /\ ~q.expires}}

WithoutPolicies(db) == {<<"no-policy", t>> : t \in {u \in Plain : db.tables[u].rls /\ ~db.tables[u].policies}}

WithoutForce(db) ==
    {<<"not-forced", t>> : t \in {u \in Plain : db.tables[u].rls /\ ~db.tables[u].forced /\ db.tables[u].policies}}

UndocumentedPii(db) ==
    {<<"undocumented", t>> : t \in {u \in Plain : TableDef[u].personal /\ ~db.tables[u].documented}}
SslSetting(db) == IF db.ssl THEN {} ELSE {<<"no-ssl">>}
PublicGrants(db) ==
    UNION {{<<"public", t, p>> : p \in db.tables[t].public} : t \in
        {u \in Tables : TableDef[u].personal /\ ColumnsShown(u, db)}}

AuditTrail(db) == IF db.pgaudit \/ db.logStatement THEN {} ELSE {<<"no-trail">>}

\* has_table_privilege is asked of the view; reading it takes the privilege to
\* call the function behind it as well.
HbaReadable(db) == "view" \in db.hbaPrivileges
HbaRaises(db) == ~({"view", "function"} \subseteq db.hbaPrivileges)
WeakRules(db) == {<<"rule", n, db.hba[n]>> : n \in {m \in DOMAIN db.hba : db.hba[m] \in {"trust", "password"}}}
PasswordEncryption(db) == IF db.sessionEncryption = "scram" THEN {} ELSE {<<"hashing">>}

-----------------------------------------------------------------------------
Checks == <<"slow-queries", "largest-tables", "tenant-columns-without-rls",
            "login-superuser-roles", "rls-enabled-without-policies", "undocumented-pii-and-ssl",
            "audit-trail-availability", "superuser-roles-without-expiration", "authentication-method-strength">>

Applicable(db) == TRUE

Queries(slug, db) ==
    CASE slug = "slow-queries" -> IF IsAvailable(db) THEN <<slug>> ELSE <<"not-assessed">>
      [] slug = "rls-enabled-without-policies" -> <<"policies", "force">>
      [] slug = "undocumented-pii-and-ssl" -> <<"undocumented", "ssl", "public">>
      [] slug = "authentication-method-strength" ->
             IF HbaReadable(db) THEN <<"rules", "encryption">> ELSE <<"not-assessed", "encryption">>
      [] OTHER -> <<slug>>

Answers(slug, query, db) ==
    CASE query = "slow-queries" -> IF ViewRaises(db) THEN {Raised} ELSE SlowQueries(db)
      [] query = "largest-tables" -> IF SizesRaise(db) THEN {Raised} ELSE LargestTables(db)
      [] OTHER ->
        {CASE query = "not-assessed" -> {<<"not-assessed">>}
           [] query = "tenant-columns-without-rls" -> TenantColumnsWithoutRls(db)
           [] query = "login-superuser-roles" -> LoginSuperuserRoles(db)
           [] query = "policies" -> WithoutPolicies(db)
           [] query = "force" -> WithoutForce(db)
           [] query = "undocumented" -> UndocumentedPii(db)
           [] query = "ssl" -> SslSetting(db)
           [] query = "public" -> PublicGrants(db)
           [] query = "audit-trail-availability" -> AuditTrail(db)
           [] query = "superuser-roles-without-expiration" -> SuperusersWithoutExpiration(db)
           [] query = "rules" -> IF HbaRaises(db) THEN Raised ELSE WeakRules(db)
           [] query = "encryption" -> PasswordEncryption(db)}

-----------------------------------------------------------------------------
\* What a finding may be.
Findings ==
    ({"slow"} \X AllStatements \X {"high", "medium"}) \cup ({"footprint"} \X SUBSET Plain)
    \cup ({"no-rls", "no-policy", "not-forced", "undocumented"} \X Tables)
    \cup {<<"not-assessed">>, <<"no-ssl">>, <<"no-trail">>, <<"hashing">>}
    \cup UNION {LoginSuperuserRoles(db) \cup SuperusersWithoutExpiration(db) \cup PublicGrants(db) \cup WeakRules(db) :
                    db \in GrowthStarts}

-----------------------------------------------------------------------------
(* The client: row-level security is switched, a policy created or dropped,*)
(* a table locked or released, the privilege on pg_hba_file_rules changed. *)

Changed(db) ==
    (UNION {{[db EXCEPT !.tables[t].rls = ~@], [db EXCEPT !.tables[t].policies = ~@]} : t \in Tables})
    \cup {[db EXCEPT !.locked = IF t \in @ THEN @ \ {t} ELSE @ \cup {t}] : t \in Plain}
    \cup {[db EXCEPT !.hbaPrivileges = {}], [db EXCEPT !.extension = ~@]}

INSTANCE CategoryChecks WITH Starts <- GrowthStarts

-----------------------------------------------------------------------------
\* The ways in which a table is not isolated.
Isolation == {"no-rls", "no-policy", "not-forced"}
Lacks(t, way, db) ==
    CASE way = "no-rls" -> ~db.tables[t].rls
      [] way = "no-policy" -> db.tables[t].rls /\ ~db.tables[t].policies
      [] way = "not-forced" -> db.tables[t].rls /\ db.tables[t].policies /\ ~db.tables[t].forced
AllIsolation == found["tenant-columns-without-rls"] \cup found["rls-enabled-without-policies"]
InTheWay(t) == {way \in Isolation : <<way, t>> \in AllIsolation}

\* The three ways in which a table is not isolated are told by three queries of
\* two categories.  A table is told for a way at some moment its, so for one way
\* only if nobody changes the database; and a plain table with a tenant's column
\* the role may see is told for the way it is not isolated in all the time.
IsolationIsExhaustive ==
    Told("tenant-columns-without-rls") /\ Told("rls-enabled-without-policies") => \A t \in Tables :
        /\ \A way \in InTheWay(t) : \E db \in Moments : Lacks(t, way, db)
        /\ Cardinality(InTheWay(t)) <= Cardinality(Moments)
        /\ t \in Plain /\ TableDef[t].tenant /\ (\A db \in Moments : ColumnsShown(t, db)) =>
              \A way \in Isolation : (\A db \in Moments : Lacks(t, way, db)) => way \in InTheWay(t)

\* What cannot be read is said to be unread or loses the one check that needed
\* it, and nothing else does: slow statements without the extension or its
\* library, sizes under a lock, rules without both privileges, or without the
\* one that was probed for by the time they are read.
GrowthIsLostToItsSources ==
    /\ found["slow-queries"] # Pending => ProbedHonestly(found["slow-queries"], Raised, Moments)
    /\ found["authentication-method-strength"] = Raised =>
          \E db \in Moments : HbaReadable(db) /\ \E later \in Moments : HbaRaises(later)
    /\ Told("authentication-method-strength") =>
          /\ \E db \in Moments : db.hbaPrivileges # {"view"}
          /\ <<"not-assessed">> \in found["authentication-method-strength"] => \E db \in Moments : ~HbaReadable(db)
          /\ (\A db \in Moments : ~HbaReadable(db)) => <<"not-assessed">> \in found["authentication-method-strength"]
    /\ \A slug \in Slugs : found[slug] = Raised =>
          \/ slug \in {"slow-queries", "authentication-method-strength"}
          \/ slug = "largest-tables" /\ \E db \in Moments : db.locked # {}

-----------------------------------------------------------------------------
(* What the docs say and the code does not do: none of these holds.        *)

\* scale queries.py:30-33: the "tool's own introspection queries" are kept out of
\* the slow ones by the schemas they name; most name them in constants, which
\* the recorded text does not have.
SlowIsTheApplications ==
    Told("slow-queries") => \A f \in found["slow-queries"] \ {<<"not-assessed">>} : ~ByAudit(f[2])

\* security queries.py:124: "PUBLIC grants on any table with a PII-shaped column"; one
\* of DELETE or TRUNCATE alone does not show the columns.
PublicGrantsAreSeen ==
    Steady /\ Told("undocumented-pii-and-ssl") => \A t \in Tables, p \in {"SELECT", "DELETE"} :
        TableDef[t].personal /\ p \in database.tables[t].public => <<"public", t, p>> \in found["undocumented-pii-and-ssl"]

\* security queries.py:7-10: 07.03 is about "tenant-shaped columns without RLS enabled";
\* a partitioned table's are left out.
TenantTablesAreSeen ==
    Steady /\ Told("tenant-columns-without-rls") => \A t \in Tables :
        TableDef[t].tenant /\ ColumnsShown(t, database) /\ ~database.tables[t].rls
        => <<"no-rls", t>> \in found["tenant-columns-without-rls"]

\* security queries.py:162: password_encryption "is a cluster-wide setting"; the value
\* read is that of the audit's session, which its role or database may have set.
EncryptionIsTheServers ==
    Steady /\ Told("authentication-method-strength") =>
        (<<"hashing">> \in found["authentication-method-strength"] <=> database.serverEncryption # "scram")
=============================================================================
