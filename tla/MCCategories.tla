---------------------------- MODULE MCCategories ----------------------------
(***************************************************************************)
(* Small databases for Categories: for each category the states in which   *)
(* its checks disagree with themselves, with each other or with the rows.  *)
(***************************************************************************)
EXTENDS TLC, Categories

-----------------------------------------------------------------------------
(* Schema Design: keys, privileges, a repeating group, texts.            *)

MCColumnDef ==
    LET Column(t, n, x, type) == [table |-> t, name |-> n, concept |-> x, type |-> type, bounded |-> FALSE]
        Sold(row, col) == Column("sales", <<"qty", row, col>>, "qty", "integer")
    IN  [customer |-> Column("customers", <<"id">>, "id", "integer"),
         code     |-> Column("customers", <<"code">>, "code", "text"),
         order    |-> Column("orders", <<"id">>, "id", "uuid"),
         buyer    |-> Column("orders", <<"customer", "id">>, "customerid", "integer"),
         created  |-> Column("orders", <<"created", "at">>, "createdat", "varchar"),
         price    |-> Column("items", <<"price">>, "price", "money"),
         of       |-> Column("items", <<"order", "id">>, "orderid", "uuid"),
         added    |-> Column("items", <<"createdAt">>, "createdat", "timestamp"),
         viewed   |-> Column("buyers", <<"customer", "id">>, "customerid", "integer"),
         q11 |-> Sold("1", "1"), q12 |-> Sold("1", "2"), q13 |-> Sold("1", "3"),
         q21 |-> Sold("2", "1"), q31 |-> Sold("3", "1"), q1t |-> Sold("1", "total")]

MCConstraintDef ==
    LET Constraint(name, t, kind, columns, parent) ==
            [name |-> name, table |-> t, kind |-> kind, columns |-> columns, parent |-> parent, cascade |-> kind = "f"]
    IN  [customers_pkey |-> Constraint("customers_pkey", "customers", "p", {"customer"}, "none"),
         orders_pkey    |-> Constraint("orders_pkey", "orders", "p", {"order"}, "none"),
         of_buyer       |-> Constraint("of_buyer", "orders", "f", {"buyer"}, "customers"),
         of_order       |-> Constraint("of_order", "items", "f", {"of"}, "orders"),
         unique_order   |-> Constraint("of_buyer", "items", "u", {"of"}, "none")]

MCViews == {"buyers"}
MCOwnedChildren == {<<"orders", "items">>}
MCNumbered == {"1", "2", "3"}

MCContents ==
    {"numeric" :> 9, "numeric" :> 10, "date" :> 9 @@ "prose" :> 1, "list" :> 10 @@ "prose" :> 2,
     "list" :> 12 @@ "prose" :> 2}

Sales == {"q11", "q12", "q13", "q21", "q31", "q1t"}
Others == DOMAIN MCColumnDef \ Sales
MCTables == {"customers", "orders", "items"}
Database(columns, constraints, privileged, unreadable, texts) ==
    [columns |-> columns, constraints |-> constraints, privileged |-> privileged, unreadable |-> unreadable,
     values |-> [c \in {"code", "created"} |-> texts]]
None == "numeric" :> 1

MCSchemaStarts ==
    {Database(columns, {}, {"sales"}, {}, None) : columns \in SUBSET Sales}
    \cup {Database(Others, constraints, privileged, {}, None) :
            constraints \in SUBSET DOMAIN MCConstraintDef, privileged \in {{}, {"orders"}, MCTables}}
    \cup {Database(Others, {}, {}, unreadable, texts) : unreadable \in {{}, {"customers"}}, texts \in MCContents}

-----------------------------------------------------------------------------
(* JSONB Governance: documents below, at and above the samples' sizes.   *)

MCDocumentDef == 
    [data |-> [table |-> "parts", mentions |-> {"data"}],
     meta_data |-> [table |-> "parts", mentions |-> {"data", "meta_data"}]]
MCConcept == [size_in |-> "sizein", sizeIn |-> "sizein", old |-> "old"]

Plain == "size_in" :> "number"
Spelt == "sizeIn" :> "string"
Typed == "size_in" :> "string"
Legacy == "size_in" :> "number" @@ "old" :> "string"

MCLoads ==
    {Plain :> 2, Plain :> 49 @@ Legacy :> 1, Plain :> 48 @@ Legacy :> 1, Plain :> 48 @@ Legacy :> 2,
     Plain :> 3 @@ Spelt :> 1, Plain :> 3 @@ Typed :> 1, Plain :> 52 @@ Typed :> 2,
     Plain :> 54 @@ Spelt :> 1, Plain :> 2 @@ NonObject :> 1, Plain :> 53 @@ NonObject :> 1}

MCJsonbStarts ==
    {[columns |-> columns, values |-> [data |-> load, meta_data |-> Plain :> 50 @@ Legacy :> 1],
      checks |-> checks, triggers |-> {}] :
        columns \in SUBSET {"data", "meta_data"}, load \in MCLoads, checks \in {{}, {"meta_data"}}}

-----------------------------------------------------------------------------
(* Lots: rows, links and statistics.                                     *)

MCTraceDef ==
    [lot_no      |-> [table |-> "lots", lot |-> TRUE, cert |-> FALSE, jsonb |-> FALSE],
     cert_id     |-> [table |-> "lots", lot |-> FALSE, cert |-> TRUE, jsonb |-> FALSE],
     certificate |-> [table |-> "papers", lot |-> FALSE, cert |-> TRUE, jsonb |-> TRUE],
     pages       |-> [table |-> "mtc", lot |-> FALSE, cert |-> FALSE, jsonb |-> FALSE],
     heat_number |-> [table |-> "heats", lot |-> TRUE, cert |-> FALSE, jsonb |-> FALSE]]
MCCertTables == {"mtc"}
MCMatViews == {"heats"}

Row(lot, cert) == [lot_no |-> lot, cert_id |-> cert]
Book == <<Row(1, Null), Row(1, 7), Row(2, Null), Row(2, Null), Row(3, Null), Row(3, 8), Row(3, Null), Row(Null, Null)>>
MCInserts == [t \in {"lots"} |-> {Row(2, Null), Row(4, Null)}]

TraceDatabase(columns, book, nulls, foreign, privileged, claimed, checks) ==
    [columns |-> columns, rows |-> [t \in {"lots", "heats"} |-> IF t = "lots" THEN book ELSE <<>>],
     live |-> [t \in {"lots", "heats"} |-> 20], nulls |-> [c \in {"lot_no", "heat_number"} |-> nulls],
     foreign |-> foreign, privileged |-> privileged, unique |-> claimed,
     invalid |-> claimed, checks |-> checks, triggers |-> {}]

Entries(s) ==
    LET chosen == SelectSeq([n \in DOMAIN Book |-> n], LAMBDA n : n \in s)
    IN  [n \in DOMAIN chosen |-> Book[chosen[n]]]
MCTraceStarts ==
    {TraceDatabase(DOMAIN MCTraceDef, Entries(s), Unknown, foreign, {}, {}, {}) :
        s \in SUBSET DOMAIN Book, foreign \in {{}, {"cert_id"}}}
    \cup {TraceDatabase(DOMAIN MCTraceDef, Book, Unknown, {"cert_id"}, privileged, {"lot_no"}, checks) :
            privileged \in {{}, {"lots"}}, checks \in {{}, {"certificate"}}}
    \cup {[TraceDatabase(DOMAIN MCTraceDef, Entries({1, 3, 5}), Unknown, {}, {}, {"lot_no"}, {}) EXCEPT !.invalid = {}]}
    \cup {TraceDatabase(columns, <<>>, nulls, {}, {}, {}, {}) :
            columns \in SUBSET DOMAIN MCTraceDef,
            nulls \in {Unknown, [nulls |-> 1, rows |-> 20], [nulls |-> 2, rows |-> 20]}}

-----------------------------------------------------------------------------
(* Storage Health: bloat, locks, slots and open transactions.            *)

MCRelationDef == [parts |-> [wide |-> TRUE, extended |-> TRUE], logs |-> [wide |-> TRUE, extended |-> FALSE]]
MCIndexDef == [parts_pkey |-> [table |-> "parts", btree |-> TRUE, partitioned |-> FALSE],
               parts_gin  |-> [table |-> "parts", btree |-> FALSE, partitioned |-> FALSE],
               days_pkey  |-> [table |-> "logs", btree |-> TRUE, partitioned |-> TRUE]]

\* Live rows of one byte, dead ones of width bytes.
Relation(live, dead, width, free, toast, seq) ==
    [live |-> live, dead |-> dead, liveBytes |-> live, deadBytes |-> dead * width, free |-> free, toast |-> toast,
     seq |-> seq, idx |-> 5, off |-> FALSE]
Quiet ==
    [installed |-> TRUE, callable |-> TRUE, locked |-> {}, standby |-> FALSE,
     tables |-> [parts |-> Relation(20, 0, 1, 0, 0, 0), logs |-> [Relation(0, 0, 1, 0, 0, 0) EXCEPT !.off = TRUE]],
     counted |-> [parts |-> [live |-> 20, dead |-> 0], logs |-> [live |-> 0, dead |-> 0]],
     indexes |-> "parts_pkey" :> [size |-> 10, density |-> 90] @@ "parts_gin" :> [size |-> 20, density |-> NaN],
     slots |-> {}, clock |-> 0, transactions |-> {}, monitor |-> TRUE]

Bloated ==
    {[Quiet EXCEPT !.installed = installed, !.tables["parts"] = Relation(live, dead, width, free, 0, 0),
                   !.counted["parts"] = IF analyzed THEN [live |-> live, dead |-> dead] ELSE @] :
        live \in {0, 20, 40}, dead \in {4, 8, 16}, width \in {1, 5}, free \in {0, 20},
        installed \in BOOLEAN, analyzed \in BOOLEAN}
Measurable ==
    {[Quiet EXCEPT !.indexes = IF partitioned THEN @ @@ "days_pkey" :> [size |-> 0, density |-> 90]
                               ELSE [@ EXCEPT !["parts_pkey"].density = density],
                   !.callable = callable, !.locked = locked] :
        density \in {60, 80, 90, NaN}, callable \in BOOLEAN, partitioned \in BOOLEAN,
        locked \in {{}, {"parts"}, {"parts_pkey"}}}
Toasted ==
    {[Quiet EXCEPT !.tables = [t \in DOMAIN @ |-> Relation(20, 0, 1, 0, toast, seq)]] : toast \in {0, 1}, seq \in {0, 10}}
Slot(name, active, retained) == [name |-> name, active |-> active, retained |-> retained, restart |-> TRUE]
Open(pid, ago) == [pid |-> pid, ago |-> ago]
Held ==
    {[Quiet EXCEPT !.standby = standby, !.clock = clock, !.slots = slots, !.transactions = transactions, !.monitor = monitor] :
        standby \in BOOLEAN, monitor \in BOOLEAN, clock \in {0, 40},
        slots \in {{}, {Slot("a", TRUE, 0)}, {Slot("b", TRUE, 1), Slot("c", FALSE, 0)}},
        transactions \in {{}, {Open(1, 31), Open(2, 30)}, {Open(3, -5), Open(4, 1)}}}

MCStorageStarts == Bloated \cup Measurable \cup Toasted \cup Held

-----------------------------------------------------------------------------
(* Statements: each way to search, paging, lookups.                        *)

MCStatementDef ==
    LET Searching(words, raw) == [words |-> {"WHERE", "@@"} \cup words, raw |-> raw]
    IN  [plain |-> Searching({}, FALSE), both |-> Searching({"@>"}, FALSE), ranked |-> Searching({"ts_rank("}, FALSE),
         rawly |-> Searching({"to_tsquery("}, TRUE),
         web |-> Searching({"to_tsquery(", "websearch_to_tsquery("}, FALSE),
         phrase |-> Searching({"to_tsquery("}, FALSE),
         paging |-> [words |-> {"WHERE", "OFFSET"}, raw |-> FALSE],
         lookup |-> [words |-> {"WHERE"}, raw |-> FALSE],
         loop   |-> [words |-> {"WHERE"}, raw |-> FALSE]]

\* The numbers of every statement, and the audit's own, which are always there.
Numbers(calls, count, mean) == [calls |-> calls, rows |-> count, mean |-> mean]
MCRecorded(statements) == [s \in statements |-> Numbers(500, IF s = "paging" THEN 5000 ELSE 500, 2000)]
MCOwn(calls) ==
    [s \in {"probe", "lookups", "offsets", "combination", "ranking", "parsing", "slow", "tenants"} |-> Numbers(calls, calls, 1)]
    @@ "sizes" :> Numbers(1, 10, 3000)

\* Samples of documents, of a column utc_offset, and of one that somebody has called "@@".
MCSamplingDef ==
    [documents |-> [joins |-> TRUE, names |-> {}], offsets_sample |-> [joins |-> FALSE, names |-> {"OFFSET"}],
     odd_sample |-> [joins |-> FALSE, names |-> {"@@"}]]
MCSampled(samples) == [s \in samples |-> Numbers(1, 1000, 1)]

\* Created and loaded, missing, not loaded; and with texts that cannot be read.
MCSources ==
    {[extension |-> TRUE, preloaded |-> TRUE, monitor |-> monitor] : monitor \in BOOLEAN}
    \cup {[extension |-> FALSE, preloaded |-> TRUE, monitor |-> TRUE], [extension |-> TRUE, preloaded |-> FALSE, monitor |-> TRUE]}

MCVectorDef ==
    [body     |-> [table |-> "docs", view |-> FALSE, generated |-> FALSE],
     body_old |-> [table |-> "docs", view |-> FALSE, generated |-> TRUE],
     shown    |-> [table |-> "docs_view", view |-> TRUE, generated |-> FALSE]]
MCIndexTexts ==
    [of_body |-> [table |-> "docs", columns |-> {"body"}, mentions |-> {"body"}],
     of_old  |-> [table |-> "docs", columns |-> {"body_old"}, mentions |-> {"body", "body_old"}]]

MCSearchStarts ==
    LET Start(columns, indexes, triggers, source, statements) ==
            source @@ [columns |-> columns, indexes |-> indexes, triggers |-> triggers,
                       statements |-> MCRecorded(statements \ DOMAIN MCSamplingDef)
                                      @@ MCSampled(statements \cap DOMAIN MCSamplingDef) @@ MCOwn(5)]
    IN  {Start(columns, indexes, triggers, source, {"rawly"}) :
            columns \in SUBSET DOMAIN MCVectorDef, indexes \in SUBSET DOMAIN MCIndexTexts, triggers \in {{}, {"docs"}},
            source \in {s \in MCSources : s.extension /\ s.preloaded /\ s.monitor}}
        \cup {Start({"body"}, {"of_body"}, {}, source, statements) :
            source \in MCSources, statements \in SUBSET {"plain", "both", "ranked", "rawly", "web", "odd_sample"}}
        \cup {Start({"body"}, {"of_body"}, {}, source, statements) :
            source \in MCSources, statements \in SUBSET {"plain", "rawly", "phrase", "documents"}}

-----------------------------------------------------------------------------
(* Activity: candidates, sessions of every age, who is watching.           *)

Session(pid, state, transaction, query) == [pid |-> pid, state |-> state, transaction |-> transaction, query |-> query]
MCSessions ==
    {{}, {Session(1, "idle in transaction", 6, 6), Session(2, "idle in transaction", 5, 1)},
     {Session(3, "active", 20, 16), Session(4, "active", 6, 6), Session(5, "active", 5, 5)},
     {Session(6, "idle in transaction", -2, -3), Session(7, "active", -1, -2), Session(8, "idle", -1, 20)}}
Vacuumed == [parts |-> [live |-> 20, dead |-> 4, vacuum |-> Never, autovacuum |-> 0]]

MCActivityStarts ==
    LET Start(source, statements, calls, sessions, background, clock, auto, log, tables) ==
            source @@ [statements |-> MCRecorded(statements \ DOMAIN MCSamplingDef)
                                      @@ MCSampled(statements \cap DOMAIN MCSamplingDef) @@ MCOwn(calls), sessions |-> sessions,
                       background |-> background, clock |-> clock, autoExplain |-> auto, logMinDuration |-> log,
                       tables |-> tables]
    IN  {Start(source, statements, calls, {}, 0, 0, TRUE, FALSE, Vacuumed) :
            source \in MCSources, calls \in {100, 101},
            statements \in SUBSET {"paging", "lookup", "loop"} \cup {{"paging", "documents", "offsets_sample"}, {"offsets_sample"}}}
        \cup {Start([extension |-> FALSE, preloaded |-> TRUE, monitor |-> monitor], {}, 1, sessions, background, clock,
                    FALSE, FALSE, Vacuumed) :
            monitor \in BOOLEAN, sessions \in MCSessions, background \in {0, 2}, clock \in {0, 10}}
        \cup {Start(source, {"paging"}, 1, {}, 0, 0, auto, log, [parts |-> [live |-> 20, dead |-> dead, vacuum |-> vacuum,
                                                                     autovacuum |-> Never]]) :
            source \in MCSources, auto \in BOOLEAN, log \in BOOLEAN, dead \in {3, 4}, vacuum \in {0, 20000, Never}}

-----------------------------------------------------------------------------
(* Growth and access: isolation, grants, sources that may be missing.      *)

MCTableDef ==
    [accounts |-> [partitioned |-> FALSE, tenant |-> TRUE, personal |-> TRUE],
     events   |-> [partitioned |-> TRUE, tenant |-> TRUE, personal |-> FALSE],
     notes    |-> [partitioned |-> FALSE, tenant |-> FALSE, personal |-> FALSE]]

Secured(rls, policies, forced, public) ==
    [rls |-> rls, policies |-> policies, forced |-> forced, public |-> public, documented |-> FALSE, bytes |-> 8]
Role(name, login, limited, expires) == [name |-> name, login |-> login, super |-> TRUE, limited |-> limited, expires |-> expires]

Guarded ==
    [extension |-> TRUE, preloaded |-> TRUE, monitor |-> TRUE, statements |-> MCOwn(1),
        tables |-> [t \in DOMAIN MCTableDef |-> Secured(TRUE, TRUE, TRUE, {})],
        locked |-> {}, privileged |-> DOMAIN MCTableDef, roles |-> {}, ssl |-> TRUE, pgaudit |-> FALSE, logStatement |-> TRUE,
        hbaPrivileges |-> {"view", "function"}, hba |-> <<"scram", "trust", "password">>,
        sessionEncryption |-> "scram", serverEncryption |-> "scram"]

MCGrowthStarts ==
    {[Guarded EXCEPT !.tables["accounts"] = Secured(rls, policies, forced, {}), !.privileged = privileged] :
        rls \in BOOLEAN, policies \in BOOLEAN, forced \in BOOLEAN, privileged \in {{}, {"accounts"}}}
    \cup {[Guarded EXCEPT !.tables["events"].rls = FALSE, !.tables["accounts"].public = public, !.privileged = {"events"},
                          !.ssl = FALSE, !.logStatement = FALSE] :
            public \in SUBSET {"SELECT", "DELETE"}}
    \cup {[Guarded EXCEPT !.hbaPrivileges = privileges, !.sessionEncryption = encryption] :
            privileges \in SUBSET {"view", "function"}, encryption \in {"scram", "md5"}}
    \cup {source @@ [Guarded EXCEPT !.statements = MCRecorded(statements) @@ MCOwn(1)] :
            source \in MCSources, statements \in SUBSET {"paging", "lookup"}}
    \cup {[Guarded EXCEPT !.roles = {Role("postgres", TRUE, limited, FALSE), Role("owner", FALSE, FALSE, expires)},
                          !.locked = locked] :
            limited \in BOOLEAN, expires \in BOOLEAN, locked \in {{}, {"notes"}}}

-----------------------------------------------------------------------------
(* Records: attempts to archive, comments and privileges of every kind.    *)

MCRecordDef ==
    LET Named(kind, migration, registry) == [kind |-> kind, migration |-> migration, registry |-> registry]
    IN  [parts           |-> Named("table", FALSE, FALSE),
         readings        |-> Named("partitioned", FALSE, FALSE),
         parts_view      |-> Named("view", FALSE, FALSE),
         migrations      |-> Named("table", TRUE, FALSE),
         schema_registry |-> Named("table", FALSE, TRUE)]
MCRecordColumns == [attributes |-> "parts", payload |-> "readings", attributes_shown |-> "parts_view"]

MCRecordStarts ==
    LET Kept(attempts, before, relations, comments, privileged, backups) ==
            [attempts |-> attempts, before |-> before, relations |-> relations, comments |-> comments,
             privileged |-> privileged, replicas |-> 0, backups |-> backups]
    IN  {Kept(attempts, before, {"parts"}, {}, {}, backups) :
            attempts \in UNION {[1..n -> {"archived", "failed"}] : n \in 0..MaxAttempts}, before \in BOOLEAN, backups \in 0..1}
        \cup {Kept(<<>>, FALSE, {"parts", "readings"} \cup relations, comments, privileged, 0) :
            relations \in SUBSET {"parts_view", "schema_registry"},
            comments \in SUBSET {"parts", "readings", "attributes", "payload"},
            privileged \in {{}, {"parts"}, DOMAIN MCRecordDef}}

-----------------------------------------------------------------------------
(* Statistics: a status column whose name is part of its neighbour's, and*)
(* an audit timestamp in another table.                                  *)

Column(t, text, status, audit, mentions) ==
    [table |-> t, text |-> text, status |-> status, audit |-> audit, key |-> FALSE, lookup |-> FALSE,
     mentions |-> mentions]

Timestamp == [created_at |-> Column("log", FALSE, FALSE, TRUE, {"created_at"})]
Statuses == [status |-> Column("orders", TRUE, TRUE, FALSE, {"status"}),
             order_status |-> Column("orders", TRUE, TRUE, FALSE, {"status", "order_status"})]
MCStatisticsDef == [c \in DOMAIN Timestamp \cup DOMAIN Statuses |->
            IF c \in DOMAIN Timestamp THEN Timestamp[c] ELSE Statuses[c]]

MCShapes == {[nulls |-> 0, distinct |-> 2], [nulls |-> 0, distinct |-> 20], [nulls |-> 12, distinct |-> 3],
             [nulls |-> 0, distinct |-> 200], [nulls |-> 200, distinct |-> 0]}

\* Of 200 rows, a sample of 20 shows all, some or none of the nulls there are,
\* and lets the values be estimated as fewer or more than there are.
MCSampleShapes ==
    {[nulls |-> 0, distinct |-> 2, once |-> 0], [nulls |-> 0, distinct |-> 16, once |-> 13],
     [nulls |-> 0, distinct |-> 20, once |-> 20], [nulls |-> 10, distinct |-> 2, once |-> 1],
     [nulls |-> 20, distinct |-> 0, once |-> 0]}
=============================================================================
