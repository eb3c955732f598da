---------------------------- MODULE SchemaDesign ----------------------------
(***************************************************************************)
(* The Schema Design & Normalization Boundaries category                   *)
(* (categories/schema_design_and_normalization_boundaries): its five       *)
(* checks over the columns and constraints of one schema, as a role with   *)
(* privileges on some of its tables sees them.                             *)
(*                                                                         *)
(* information_schema shows a column to whoever may read it, but a         *)
(* constraint only to the table's owner and to roles with a privilege      *)
(* other than SELECT on the table; pg_constraint shows it to all.          *)
(***************************************************************************)
EXTENDS Naturals, Sequences, FiniteSets, SequencesExt, Samples

CONSTANTS
    ColumnDef,      \* [Columns -> [table, name, concept, type, bounded]], a name being its tokens
    ConstraintDef,  \* [Constraints -> [name, table, kind, columns, parent, cascade]]
    Views,          \* the tables that are views
    OwnedChildren,  \* <<parent, child>>: tables whose names tell of an owned relationship
    Numbered,       \* the tokens that look like a number or a date
    SchemaStarts,
    ShapeLimit, MinShapeSample, \* TEXT_SHAPE_SAMPLE_LIMIT, MIN_SAMPLE_SIZE_FOR_SHAPE_CHECK
    Pending, Raised, MaxChanges

WellDefined ==
    /\ IsFiniteSet(DOMAIN ColumnDef)
    /\ \A c \in DOMAIN ColumnDef : ColumnDef[c].name \in Seq(STRING)
    \* A column's name is its own in its table.
    /\ \A c, d \in DOMAIN ColumnDef :
          ColumnDef[c].table = ColumnDef[d].table /\ ColumnDef[c].name = ColumnDef[d].name => c = d
    /\ \A k \in DOMAIN ConstraintDef :
          \A c \in ConstraintDef[k].columns : ColumnDef[c].table = ConstraintDef[k].table
    \* A primary key's or unique constraint's name is its index's, once in a
    \* schema; a foreign key's is only its table's.
    /\ \A j, k \in DOMAIN ConstraintDef :
          ConstraintDef[j].name = ConstraintDef[k].name /\ j # k =>
             /\ "f" \in {ConstraintDef[j].kind, ConstraintDef[k].kind}
             /\ ConstraintDef[j].table # ConstraintDef[k].table

\* A database: the columns and constraints there are, the tables the role may
\* do more with than SELECT, those it may not SELECT from, the texts' contents.
VARIABLES database, check, todo, partial, found, past, changes

Columns == DOMAIN ColumnDef
Constraints == DOMAIN ConstraintDef
Table(c) == ColumnDef[c].table
Type(c) == ColumnDef[c].type
Name(c) == ColumnDef[c].name

TextTypes == {"text", "varchar", "char"}
TextColumns(db) == {c \in db.columns : Type(c) \in TextTypes}

\* What is known of each of them.
IsDatabase(db) ==
    /\ {"columns", "constraints", "privileged", "values", "unreadable"} \subseteq DOMAIN db
    /\ db.columns \subseteq Columns /\ db.constraints \subseteq Constraints
    /\ TextColumns(db) \subseteq DOMAIN db.values /\ \A c \in TextColumns(db) : IsContents(db.values[c])

-----------------------------------------------------------------------------
(* 01.02: structured data stored as text.                                  *)

\* Nine tenths of the sampled values decide; none is of two shapes, as what passes
\* for a number or a date has no comma or semicolon.
Dominates(shape, sample) == BagIn(shape, sample) /\ 10 * sample[shape] >= 9 * Size(sample)

\* Numbers are looked for before dates, dates before lists.
TextShapes == {"numeric", "date", "list"}
Before(shape) == IF shape = "numeric" THEN {} ELSE IF shape = "date" THEN {"numeric"} ELSE {"numeric", "date"}

\* Mutation: however few the values.
ShapeOfAnySample(sample) ==
    {s \in TextShapes : Dominates(s, sample) /\ \A r \in Before(s) : ~Dominates(r, sample)}

ShapeOf(sample) ==
    {s \in TextShapes :
        /\ Size(sample) >= MinShapeSample
        /\ Dominates(s, sample) /\ \A r \in Before(s) : ~Dominates(r, sample)}

\* A column dropped since the listing, or that the role may not read, makes
\* its query raise.
SampleText(c, db) ==
    IF c \notin db.columns \/ Table(c) \in db.unreadable THEN {Raised}
    ELSE {{<<"shape", c, s>> : s \in ShapeOf(sample)} : sample \in Samples(db.values[c], ShapeLimit)}

VarcharWithoutLength(db) == {c \in db.columns : Type(c) = "varchar" /\ ~ColumnDef[c].bounded}
MoneyTypeUsage(db) == {c \in db.columns : Type(c) = "money"}

-----------------------------------------------------------------------------
(* 01.04: missing foreign keys, and cascades.                              *)

FkShaped(c) ==
    /\ Len(Name(c)) > 1 /\ Last(Name(c)) = "id"
    /\ Type(c) \in {"integer", "bigint", "smallint", "uuid"}

\* information_schema.table_constraints
Visible(db) == {k \in db.constraints : ConstraintDef[k].table \in db.privileged}

\* The columns key_column_usage pairs with a visible constraint of this kind:
\* the join is on the constraint's name and schema, not on its table.
KeyColumns(k, db) ==
    UNION {ConstraintDef[j].columns : j \in {i \in db.constraints : ConstraintDef[i].name = ConstraintDef[k].name}}
Keys(kind, db) == {k \in Visible(db) : ConstraintDef[k].kind = kind}

FkLikeColumnsWithoutFk(db) ==
    {c \in db.columns : FkShaped(c) /\ \A k \in Keys("f", db) : c \notin KeyColumns(k, db)}

UnexpectedCascades(db) ==
    {k \in db.constraints :
        /\ ConstraintDef[k].kind = "f" /\ ConstraintDef[k].cascade
        /\ <<ConstraintDef[k].parent, ConstraintDef[k].table>> \notin OwnedChildren}

-----------------------------------------------------------------------------
(* 01.05: schema drift, over all tables' columns of one concept.           *)

OfConcept(x, db) == {c \in db.columns : ColumnDef[c].concept = x}
DriftIn(columns) ==
    IF Cardinality({Type(c) : c \in columns}) > 1 THEN {"naming and type"}
    ELSE IF Cardinality({Name(c) : c \in columns}) > 1 THEN {"naming"} ELSE {}
SchemaDrift(db) ==
    UNION {{<<"drift", x, kind>> : kind \in DriftIn(OfConcept(x, db))} :
            x \in {ColumnDef[c].concept : c \in db.columns}}

-----------------------------------------------------------------------------
(* 01.06: primary keys.                                                    *)

BaseTables(db) == {Table(c) : c \in db.columns} \ Views

\* Mutation: any key will do.
TablesWithoutAnyKey(db) ==
    {t \in BaseTables(db) : \A k \in Visible(db) : ConstraintDef[k].table # t}

TablesWithoutPrimaryKey(db) ==
    {t \in BaseTables(db) : \A k \in Keys("p", db) : ConstraintDef[k].table # t}

PrimaryKeyColumnTypes(db) ==
    UNION {{<<ConstraintDef[k].table, Type(c)>> : c \in KeyColumns(k, db)} : k \in Keys("p", db)}

Family(type) ==
    CASE type = "uuid" -> "uuid"
      [] type \in {"integer", "bigint", "smallint"} -> "integer"
      [] OTHER -> "other"

MixedFamilies(db) ==
    LET rows == PrimaryKeyColumnTypes(db)
    IN  IF Cardinality({Family(row[2]) : row \in rows}) > 1 THEN {<<"mixed", rows>>} ELSE {}

-----------------------------------------------------------------------------
(* 01.07: repeating column groups.                                         *)

MinGroup == 3
Skeleton(c, position) == [Name(c) EXCEPT ![position] = "*"]

\* Columns of one table and type whose names differ from c's in this position only.
Group(c, position, db) ==
    {d \in db.columns :
        /\ Table(d) = Table(c) /\ Type(d) = Type(c) /\ Len(Name(d)) = Len(Name(c))
        /\ Skeleton(d, position) = Skeleton(c, position)}

Positions(db) == UNION {{<<c, p>> : p \in DOMAIN Name(c)} : c \in {d \in db.columns : Len(Name(d)) > 1}}

\* Mutation: one numbered token is enough.
AnyNumbered(group, position) == \E c \in group : Name(c)[position] \in Numbered

Enumerates(group, position) == \A c \in group : Name(c)[position] \in Numbered

RepeatingFamilies(db) ==
    {Group(x[1], x[2], db) : x \in
        {y \in Positions(db) : LET g == Group(y[1], y[2], db)
                               IN  Cardinality(g) >= MinGroup /\ Enumerates(g, y[2])}}

-----------------------------------------------------------------------------
Checks == <<"structured-data-stored-as-text", "missing-foreign-keys", "schema-drift",
            "primary-key-consistency", "repeating-column-groups">>

Queries(slug, db) ==
    CASE slug = "structured-data-stored-as-text" ->
            SetToSeq({<<"sample", c>> : c \in TextColumns(db)}) \o <<<<"varchar">>, <<"money">>>>
      [] slug = "missing-foreign-keys" -> <<<<"fk-like">>, <<"cascade">>>>
      [] slug = "primary-key-consistency" -> <<<<"no-key">>, <<"key-types">>>>
      [] OTHER -> <<<<slug>>>>

Answers(slug, query, db) ==
    IF query[1] = "sample" THEN SampleText(query[2], db)
    ELSE {CASE query[1] = "varchar" -> {<<"varchar", c>> : c \in VarcharWithoutLength(db)}
            [] query[1] = "money" -> {<<"money", c>> : c \in MoneyTypeUsage(db)}
            [] query[1] = "fk-like" -> {<<"no-fk", c>> : c \in FkLikeColumnsWithoutFk(db)}
            [] query[1] = "cascade" -> {<<"cascade", k>> : k \in UnexpectedCascades(db)}
            [] query[1] = "schema-drift" -> SchemaDrift(db)
            [] query[1] = "no-key" -> {<<"no-key", t>> : t \in TablesWithoutPrimaryKey(db)}
            [] query[1] = "key-types" -> MixedFamilies(db)
            [] query[1] = "repeating-column-groups" -> {<<"repeats", g>> : g \in RepeatingFamilies(db)}}

Applicable(db) == TRUE

-----------------------------------------------------------------------------
(* The client: a column is dropped with the constraints it is in, a        *)
(* constraint is added or dropped, a privilege granted or revoked.         *)

DropColumn(db) ==
    {[db EXCEPT !.columns = @ \ {c}, !.constraints = {k \in @ : c \notin ConstraintDef[k].columns}] : c \in db.columns}
DropConstraint(db) == {[db EXCEPT !.constraints = @ \ {k}] : k \in db.constraints}
Grant(db) == {[db EXCEPT !.privileged = @ \cup {t}] : t \in BaseTables(db)}
Changed(db) == DropColumn(db) \cup DropConstraint(db) \cup Grant(db)

INSTANCE CategoryChecks WITH Starts <- SchemaStarts

-----------------------------------------------------------------------------
KeyOn(c, kind, db) == \E k \in db.constraints : ConstraintDef[k].kind = kind /\ c \in ConstraintDef[k].columns
HasPrimaryKey(t, db) == \E k \in db.constraints : ConstraintDef[k].kind = "p" /\ ConstraintDef[k].table = t

\* What the category says about keys is true of the tables the role may do more
\* with than read, although it asks two catalogs and joins names: a column or
\* table it reports had no such key when it was asked about; and one that had
\* none all the time is reported, but for a column of which another key has the
\* name of a foreign key elsewhere.
KeyFindingsAreTrue ==
    /\ Told("missing-foreign-keys") => \A c \in Columns :
          /\ <<"no-fk", c>> \in found["missing-foreign-keys"] => \E db \in Moments :
                c \in db.columns /\ (Table(c) \in db.privileged => ~KeyOn(c, "f", db))
          /\ FkShaped(c) /\ (\A db \in Moments : c \in db.columns /\ ~KeyOn(c, "f", db)) =>
                \/ <<"no-fk", c>> \in found["missing-foreign-keys"]
                \/ \E db \in Moments : \E j, k \in db.constraints :
                      /\ c \in ConstraintDef[j].columns /\ ConstraintDef[k].kind = "f"
                      /\ ConstraintDef[j].name = ConstraintDef[k].name
                      /\ ConstraintDef[j].table # ConstraintDef[k].table
    /\ Told("primary-key-consistency") => \A t \in {Table(c) : c \in Columns} :
          /\ <<"no-key", t>> \in found["primary-key-consistency"] => \E db \in Moments :
                t \in BaseTables(db) /\ (t \in db.privileged => ~HasPrimaryKey(t, db))
          /\ (\A db \in Moments : t \in BaseTables(db) /\ ~HasPrimaryKey(t, db)) =>
                <<"no-key", t>> \in found["primary-key-consistency"]

\* Two columns are neighbours when one token tells their names apart.
Neighbours(c, d) ==
    /\ Table(c) = Table(d) /\ Type(c) = Type(d) /\ Len(Name(c)) = Len(Name(d)) /\ Len(Name(c)) > 1
    /\ Cardinality({p \in DOMAIN Name(c) : Name(c)[p] # Name(d)[p]}) = 1
Clique(s) == \A c, d \in s : c # d => Neighbours(c, d)
Varying(s) ==
    UNION {{Name(c)[p] : p \in {q \in DOMAIN Name(c) : \E d \in s : Name(d)[q] # Name(c)[q]}} : c \in s}

\* The reported families are the largest sets of at least three columns that
\* pairwise differ in one token, when every such token is numbered: each is
\* found from all its positions but reported once, and no two share two columns.
\* They are those of one moment, whatever is dropped meanwhile.
RepeatsAreExact ==
    Told("repeating-column-groups") => \E db \in Moments :
        LET cliques == {s \in SUBSET db.columns : Cardinality(s) >= MinGroup /\ Clique(s)}
            largest == {s \in cliques : \A r \in cliques : s \subseteq r => r = s}
            reported == {f[2] : f \in found["repeating-column-groups"]}
        IN  /\ reported = {s \in largest : Varying(s) \subseteq Numbered}
            /\ \A r, s \in reported : r # s => Cardinality(r \cap s) <= 1

Shaped(c, s, db) == Size(db.values[c]) >= MinShapeSample /\ Dominates(s, db.values[c])

\* What is said of texts; an exception is none of it.
Findings == ({"shape"} \X Columns \X TextShapes) \cup ({"varchar", "money"} \X Columns)

Unreadable(c, db) == c \in TextColumns(db) /\ Table(c) \in db.unreadable

\* A shape is reported of a column whose values, if the sample holds them all,
\* are nine tenths of that shape, and of each such column that stays; and the
\* check is lost, with what it found by the catalog alone, only to a column it
\* could not read or that was dropped after it had been listed.
ShapesAreTrue ==
    /\ Told("structured-data-stored-as-text") => \A c \in Columns :
          /\ \E db \in Moments : ~Unreadable(c, db)
          /\ \A s \in TextShapes :
                /\ <<"shape", c, s>> \in found["structured-data-stored-as-text"] => \E db \in Moments :
                      /\ c \in TextColumns(db) /\ ~Unreadable(c, db)
                      /\ Size(db.values[c]) <= ShapeLimit => Shaped(c, s, db)
                /\ (\A db \in Moments : /\ c \in TextColumns(db)
                                       /\ Size(db.values[c]) <= ShapeLimit /\ Shaped(c, s, db))
                      => <<"shape", c, s>> \in found["structured-data-stored-as-text"]
    /\ found["structured-data-stored-as-text"] = Raised =>
          \/ \E db \in Moments, c \in Columns : Unreadable(c, db)
          \/ \E b, d \in Moments : ~(TextColumns(b) \subseteq TextColumns(d))

-----------------------------------------------------------------------------
(* What the docs say and the code does not do: neither holds.              *)

\* queries.py:25-28: the columns reported "aren't covered by any declared FOREIGN
\* KEY constraint"; a read-only role, which "covers ~90% of checks" (cli.py:293),
\* is shown no constraint at all and reports every one.
DeclaredKeysAreSeen ==
    Steady /\ Told("missing-foreign-keys") =>
        \A c \in Columns : <<"no-fk", c>> \in found["missing-foreign-keys"] => ~KeyOn(c, "f", database)

\* checks.py:358: "flags any group of" such columns.  One more column of the
\* same pattern, as a total next to its months, hides the group.
AnyGroupIsFlagged ==
    Steady /\ Told("repeating-column-groups") =>
        \A s \in SUBSET database.columns :
            Cardinality(s) >= MinGroup /\ Clique(s) /\ Varying(s) \subseteq Numbered
            => \E f \in found["repeating-column-groups"] : s \subseteq f[2]
=============================================================================
