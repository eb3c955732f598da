----------------------- MODULE CatalogCategoriesProofs -----------------------
(***************************************************************************)
(* What an audit of Schema Design, of JSONB Structure & Governance, of     *)
(* Backup & Recovery with Documentation and of the statistics checks of    *)
(* Data Quality comes to: each one's part of the invariant, and that its   *)
(* properties follow.                                                      *)
(* They are those of Categories that are not in UsageCategories.           *)
(***************************************************************************)
EXTENDS Categories, FiniteSetTheorems, TLAPS

-----------------------------------------------------------------------------
(* Columns whose names repeat: a family, found from one of its columns and *)
(* a position, is a largest set of columns that pairwise differ in one     *)
(* token, and the other way round.                                         *)

LEMMA SameSet == ASSUME NEW S, NEW T, \A x : x \in S <=> x \in T PROVE S = T
  OBVIOUS

LEMMA MoreThanOne ==
    ASSUME NEW S, IsFiniteSet(S), ~(Cardinality(S) <= 1)
    PROVE  \E a, b \in S : a # b
<1>1. S # {}
  BY FS_EmptySet
<1>2. PICK a : a \in S
  BY <1>1
<1>3. Cardinality(S \ {a}) = Cardinality(S) - 1
  BY <1>2, FS_RemoveElement
<1>4. Cardinality(S) \in Nat
  BY FS_CardinalityType
<1>5. Cardinality(S \ {a}) # 0
  BY <1>3, <1>4
<1>6. S \ {a} # {}
  BY <1>5, FS_EmptySet
<1>. QED
  BY <1>2, <1>6

LEMMA ThreeAreMore ==
    ASSUME NEW S, IsFiniteSet(S), Cardinality(S) >= 3
    PROVE  \E a, b \in S : a # b
<1>1. Cardinality(S) \in Nat
  BY FS_CardinalityType
<1>2. ~(Cardinality(S) <= 1)
  BY <1>1
<1>. QED
  BY <1>2, MoreThanOne

LEMMA AtMostOne ==
    ASSUME NEW S, IsFiniteSet(S), \A a, b \in S : a = b
    PROVE  Cardinality(S) <= 1
  BY MoreThanOne

\* Two members are more than one.
LEMMA TwoAreMore == ASSUME NEW S, IsFiniteSet(S), NEW a \in S, NEW b \in S, a # b PROVE Cardinality(S) > 1
<1>1. Cardinality(S) \in Nat /\ Cardinality(S \ {a}) = Cardinality(S) - 1 /\ IsFiniteSet(S \ {a})
  BY FS_CardinalityType, FS_RemoveElement
<1>2. Cardinality(S \ {a}) # 0
  BY <1>1, FS_EmptySet
<1>3. Cardinality(S \ {a}) \in Nat
  BY <1>1, FS_CardinalityType
<1>. QED
  BY <1>1, <1>2, <1>3

\* What is more than one in a part is so in the whole.
LEMMA MoreInTheWhole ==
    ASSUME NEW S, NEW T, IsFiniteSet(T), S \subseteq T, Cardinality(S) > 1
    PROVE  \E a, b \in S : a # b
<1>1. IsFiniteSet(S)
  BY FS_Subset
<1>2. Cardinality(S) \in Nat
  BY <1>1, FS_CardinalityType
<1>. QED
  BY <1>1, <1>2, MoreThanOne

\* There are finitely many columns, each of a kind (its table and type) and with
\* a name, a sequence of tokens that is its own among the columns of its kind.
Named(C, kind, name) ==
    /\ IsFiniteSet(C) /\ \A c \in C : name[c] \in Seq(STRING)
    /\ \A c, d \in C : kind[c] = kind[d] /\ name[c] = name[d] => c = d

\* Columns of one kind whose names differ at this position at most, and do so there.
AlikeBut(kind, name, c, d, p) ==
    /\ kind[c] = kind[d] /\ Len(name[c]) = Len(name[d])
    /\ \A q \in DOMAIN name[c] : q # p => name[c][q] = name[d][q]
ApartAt(kind, name, c, d, p) ==
    AlikeBut(kind, name, c, d, p) /\ p \in DOMAIN name[c] /\ name[c][p] # name[d][p]

\* One token tells their names apart.
NextTo(kind, name, c, d) == Len(name[c]) > 1 /\ \E p : ApartAt(kind, name, c, d, p)

\* The columns of C like this one but at this position, and the families: those
\* of three columns at least that have tokens of N there.
Family(C, kind, name, c, p) == {d \in C : AlikeBut(kind, name, c, d, p)}
IsFamily(C, kind, name, N, g) ==
    \E c \in C : \E p \in DOMAIN name[c] :
        /\ Len(name[c]) > 1 /\ g = Family(C, kind, name, c, p)
        /\ Cardinality(g) >= 3 /\ \A d \in g : name[d][p] \in N

\* The largest sets of three columns at least that one token each tells apart.
Cliques(C, kind, name) ==
    {s \in SUBSET C : Cardinality(s) >= 3 /\ \A c, d \in s : c # d => NextTo(kind, name, c, d)}
Largest(C, kind, name) ==
    {s \in Cliques(C, kind, name) : \A r \in Cliques(C, kind, name) : s \subseteq r => r = s}
VariesIn(name, s, N) ==
    \A c, d \in s : \A q \in DOMAIN name[c] : name[c][q] # name[d][q] => name[c][q] \in N

\* A column's name is its own.
LEMMA AlikeIsApart ==
    ASSUME NEW C, NEW kind, NEW name, Named(C, kind, name), NEW c \in C, NEW d \in C, NEW p \in DOMAIN name[c],
           AlikeBut(kind, name, c, d, p), c # d
    PROVE  ApartAt(kind, name, c, d, p)
<1>1. name[c] \in Seq(STRING) /\ name[d] \in Seq(STRING) /\ name[c] # name[d]
  BY DEF AlikeBut, Named
<1>2. DOMAIN name[c] = DOMAIN name[d]
  BY <1>1 DEF AlikeBut
<1>3. CASE name[c][p] = name[d][p]
  <2>1. \A q \in DOMAIN name[c] : name[c][q] = name[d][q]
    BY <1>3 DEF AlikeBut
  <2>. QED
    BY <1>1, <1>2, <2>1
<1>. QED
  BY <1>3 DEF ApartAt

LEMMA AlikeTwice ==
    ASSUME NEW C, NEW kind, NEW name, Named(C, kind, name), NEW a \in C, NEW b \in C, NEW c \in C, NEW p,
           AlikeBut(kind, name, a, b, p)
    PROVE  /\ AlikeBut(kind, name, b, a, p) /\ DOMAIN name[a] = DOMAIN name[b]
           /\ AlikeBut(kind, name, a, c, p) => AlikeBut(kind, name, b, c, p)
           /\ AlikeBut(kind, name, b, c, p) => AlikeBut(kind, name, a, c, p)
<1>1. name[a] \in Seq(STRING) /\ name[b] \in Seq(STRING)
  BY DEF Named
<1>2. DOMAIN name[a] = DOMAIN name[b]
  BY <1>1 DEF AlikeBut
<1>. QED
  BY <1>2 DEF AlikeBut

\* What is apart from two columns at one token each is so where they are.
LEMMA ApartTogether ==
    ASSUME NEW C, NEW kind, NEW name, Named(C, kind, name), NEW a \in C, NEW b \in C, NEW c \in C, NEW p,
           ApartAt(kind, name, a, b, p), NextTo(kind, name, a, c), NextTo(kind, name, b, c)
    PROVE  AlikeBut(kind, name, a, c, p)
<1>1. PICK q : ApartAt(kind, name, a, c, q)
  BY DEF NextTo
<1>2. PICK r : ApartAt(kind, name, b, c, r)
  BY DEF NextTo
<1>3. DOMAIN name[a] = DOMAIN name[b]
  BY AlikeTwice DEF ApartAt
<1>4. q = p
  <2>1. SUFFICES ASSUME q # p PROVE FALSE
    OBVIOUS
  <2>2. name[b][p] # name[c][p]
    BY <1>1, <2>1 DEF ApartAt, AlikeBut
  <2>3. name[b][q] # name[c][q]
    BY <1>1, <2>1 DEF ApartAt, AlikeBut
  <2>. QED
    BY <1>1, <1>2, <1>3, <2>1, <2>2, <2>3 DEF ApartAt, AlikeBut
<1>. QED
  BY <1>1, <1>4 DEF ApartAt

\* The columns of a family are apart at its position.
LEMMA FamilyIsApart ==
    ASSUME NEW C, NEW kind, NEW name, Named(C, kind, name), NEW c \in C, NEW p \in DOMAIN name[c],
           NEW d \in Family(C, kind, name, c, p)
    PROVE  /\ d \in C /\ p \in DOMAIN name[d] /\ Len(name[d]) = Len(name[c])
           /\ \A e \in Family(C, kind, name, c, p) : d # e => ApartAt(kind, name, d, e, p)
           /\ Family(C, kind, name, d, p) = Family(C, kind, name, c, p)
<1>1. d \in C /\ AlikeBut(kind, name, c, d, p)
  BY DEF Family
<1>2. p \in DOMAIN name[d] /\ Len(name[d]) = Len(name[c])
  BY <1>1, AlikeTwice DEF AlikeBut
<1>3. ASSUME NEW e \in Family(C, kind, name, c, p), d # e PROVE ApartAt(kind, name, d, e, p)
  <2>1. e \in C /\ AlikeBut(kind, name, c, e, p)
    BY DEF Family
  <2>. QED
    BY <1>1, <1>2, <1>3, <2>1, AlikeTwice, AlikeIsApart
<1>4. \A e \in C : AlikeBut(kind, name, d, e, p) <=> AlikeBut(kind, name, c, e, p)
  BY <1>1, AlikeTwice
<1>5. Family(C, kind, name, d, p) = Family(C, kind, name, c, p)
  BY <1>4 DEF Family
<1>. QED
  BY <1>1, <1>2, <1>3, <1>5

\* A family is one of the largest such sets.
LEMMA FamilyIsLargest ==
    ASSUME NEW C, NEW kind, NEW name, Named(C, kind, name), NEW c \in C, NEW p \in DOMAIN name[c],
           Len(name[c]) > 1, Cardinality(Family(C, kind, name, c, p)) >= 3
    PROVE  Family(C, kind, name, c, p) \in Largest(C, kind, name)
<1>. DEFINE g == Family(C, kind, name, c, p)
<1>1. g \subseteq C /\ IsFiniteSet(g)
  BY FS_Subset DEF Family, Named
<1>2. \A d, e \in g : d # e => ApartAt(kind, name, d, e, p) /\ NextTo(kind, name, d, e)
  BY FamilyIsApart DEF NextTo
<1>3. g \in Cliques(C, kind, name)
  BY <1>1, <1>2 DEF Cliques
<1>4. ASSUME NEW r \in Cliques(C, kind, name), g \subseteq r, NEW x \in r PROVE x \in g
  <2>1. PICK a, b \in g : a # b
    BY <1>1, ThreeAreMore
  <2>2. x \in C /\ AlikeBut(kind, name, c, a, p)
    BY <2>1 DEF Cliques, Family
  <2>3. CASE x # a /\ x # b
    <3>1. NextTo(kind, name, a, x) /\ NextTo(kind, name, b, x)
      BY <1>4, <2>1, <2>3 DEF Cliques
    <3>2. AlikeBut(kind, name, a, x, p)
      BY <1>1, <1>2, <2>1, <2>2, <3>1, ApartTogether
    <3>3. AlikeBut(kind, name, c, x, p)
      BY <1>1, <2>1, <2>2, <3>2, AlikeTwice
    <3>. QED
      BY <2>2, <3>3 DEF Family
  <2>. QED
    BY <2>1, <2>3
<1>5. ASSUME NEW r \in Cliques(C, kind, name), g \subseteq r PROVE r = g
  <2>1. \A x : x \in r <=> x \in g
    BY <1>4, <1>5
  <2>. QED
    BY <2>1, SameSet
<1>. HIDE DEF g
<1>6. g \in Largest(C, kind, name)
  BY <1>3, <1>5 DEF Largest
<1>. QED
  BY <1>6 DEF g

\* One of the largest sets is a family.
LEMMA LargestIsFamily ==
    ASSUME NEW C, NEW kind, NEW name, Named(C, kind, name), NEW s \in Largest(C, kind, name)
    PROVE  \E c \in s : \E p : p \in DOMAIN name[c] /\ s = Family(C, kind, name, c, p) /\ Len(name[c]) > 1
<1>1. /\ s \subseteq C /\ Cardinality(s) >= 3 /\ \A c, d \in s : c # d => NextTo(kind, name, c, d)
      /\ \A r \in Cliques(C, kind, name) : s \subseteq r => r = s
  BY DEF Largest, Cliques
<1>2. IsFiniteSet(s) /\ IsFiniteSet(C)
  BY <1>1, FS_Subset DEF Named
<1>3. PICK a, b \in s : a # b
  BY <1>1, <1>2, ThreeAreMore
<1>4. PICK p : ApartAt(kind, name, a, b, p) /\ Len(name[a]) > 1
  BY <1>1, <1>3 DEF NextTo
<1>5. p \in DOMAIN name[a] /\ a \in C /\ b \in C
  BY <1>1, <1>4 DEF ApartAt
<1>6. ASSUME NEW x \in s PROVE x \in Family(C, kind, name, a, p)
  <2>1. x \in C
    BY <1>1
  <2>2. CASE x # a /\ x # b
    <3>1. NextTo(kind, name, a, x) /\ NextTo(kind, name, b, x)
      BY <1>1, <2>2
    <3>. QED
      BY <1>4, <1>5, <2>1, <3>1, ApartTogether DEF Family
  <2>3. AlikeBut(kind, name, a, a, p) /\ AlikeBut(kind, name, a, b, p)
    BY <1>4 DEF ApartAt, AlikeBut
  <2>. QED
    BY <2>1, <2>2, <2>3 DEF Family
<1>7. IsFiniteSet(Family(C, kind, name, a, p))
  BY <1>2, FS_Subset DEF Family
<1>8. Cardinality(s) <= Cardinality(Family(C, kind, name, a, p))
  BY <1>6, <1>7, FS_Subset
<1>9. Cardinality(s) \in Nat /\ Cardinality(Family(C, kind, name, a, p)) \in Nat
  BY <1>2, <1>7, FS_CardinalityType
<1>10. Family(C, kind, name, a, p) \in Cliques(C, kind, name)
  BY <1>1, <1>4, <1>5, <1>8, <1>9, FamilyIsLargest DEF Largest
<1>11. Family(C, kind, name, a, p) = s
  BY <1>1, <1>6, <1>10
<1>. QED
  BY <1>4, <1>5, <1>11

\* The tokens in which a family's columns differ are those at its position.
LEMMA FamilyVaries ==
    ASSUME NEW C, NEW kind, NEW name, Named(C, kind, name), NEW c \in C, NEW p \in DOMAIN name[c], NEW N,
           Cardinality(Family(C, kind, name, c, p)) >= 3
    PROVE  (\A d \in Family(C, kind, name, c, p) : name[d][p] \in N) <=> VariesIn(name, Family(C, kind, name, c, p), N)
<1>. DEFINE g == Family(C, kind, name, c, p)
<1>1. \A d, e \in g : d # e => ApartAt(kind, name, d, e, p)
  BY FamilyIsApart
<1>2. IsFiniteSet(g)
  BY FS_Subset DEF Family, Named
<1>3. PICK a, b \in g : a # b
  BY <1>2, ThreeAreMore
<1>. HIDE DEF g
<1>4. ASSUME NEW d \in g, NEW e \in g, NEW q \in DOMAIN name[d], name[d][q] # name[e][q] PROVE q = p
  BY <1>1, <1>4 DEF ApartAt, AlikeBut
<1>5. ASSUME NEW d \in g PROVE \E e \in g : p \in DOMAIN name[d] /\ name[d][p] # name[e][p]
  BY <1>1, <1>3 DEF ApartAt
<1>6. (\A d \in g : name[d][p] \in N) <=> VariesIn(name, g, N)
  BY <1>4, <1>5 DEF VariesIn
<1>. QED
  BY <1>6 DEF g

\* The families are the largest sets whose differing tokens are all in N, and no
\* two of them share two columns.
LEMMA FamiliesAreLargest ==
    ASSUME NEW C, NEW kind, NEW name, Named(C, kind, name), NEW N
    PROVE  /\ \A g : IsFamily(C, kind, name, N, g) <=> g \in Largest(C, kind, name) /\ VariesIn(name, g, N)
           /\ \A r, s : IsFamily(C, kind, name, N, r) /\ IsFamily(C, kind, name, N, s) /\ r # s
                           => Cardinality(r \cap s) <= 1
<1>1. ASSUME NEW g, IsFamily(C, kind, name, N, g) PROVE g \in Largest(C, kind, name) /\ VariesIn(name, g, N)
  BY <1>1, FamilyIsLargest, FamilyVaries DEF IsFamily
<1>2. ASSUME NEW g \in Largest(C, kind, name), VariesIn(name, g, N) PROVE IsFamily(C, kind, name, N, g)
  <2>1. PICK c, p : c \in g /\ p \in DOMAIN name[c] /\ g = Family(C, kind, name, c, p) /\ Len(name[c]) > 1
    BY LargestIsFamily
  <2>2. c \in C /\ Cardinality(g) >= 3
    BY <2>1 DEF Largest, Cliques
  <2>3. \A d \in g : name[d][p] \in N
    BY <1>2, <2>1, <2>2, FamilyVaries
  <2>. QED
    BY <2>1, <2>2, <2>3 DEF IsFamily
<1>3. ASSUME NEW r, NEW s, IsFamily(C, kind, name, N, r), IsFamily(C, kind, name, N, s), r # s
      PROVE  Cardinality(r \cap s) <= 1
  <2>1. PICK c, p : c \in C /\ p \in DOMAIN name[c] /\ r = Family(C, kind, name, c, p)
    BY <1>3 DEF IsFamily
  <2>2. PICK d, q : d \in C /\ q \in DOMAIN name[d] /\ s = Family(C, kind, name, d, q)
    BY <1>3 DEF IsFamily
  <2>3. ASSUME NEW a \in r \cap s, NEW b \in r \cap s, a # b PROVE FALSE
    <3>1. ApartAt(kind, name, a, b, p) /\ r = Family(C, kind, name, a, p)
      BY <2>1, <2>3, FamilyIsApart
    <3>2. ApartAt(kind, name, a, b, q) /\ s = Family(C, kind, name, a, q)
      BY <2>2, <2>3, FamilyIsApart
    <3>3. p = q
      BY <3>1, <3>2 DEF ApartAt, AlikeBut
    <3>. QED
      BY <1>3, <3>1, <3>2, <3>3
  <2>4. r \cap s \subseteq C /\ IsFiniteSet(C)
    BY <2>1 DEF Family, Named
  <2>5. IsFiniteSet(r \cap s)
    BY <2>4, FS_Subset
  <2>. QED
    BY <2>3, <2>5, AtMostOne
<1>. QED
  BY <1>1, <1>2, <1>3

-----------------------------------------------------------------------------
(* Schema Design.                                                          *)

\* The elements of a finite set can be listed, once each.
LEMMA SchemaListed ==
    ASSUME NEW S, IsFiniteSet(S)
    PROVE  /\ Schema!SetToSeq(S) \in Seq(S)
           /\ \A x \in S : \E i \in DOMAIN Schema!SetToSeq(S) : Schema!SetToSeq(S)[i] = x
           /\ \A i, j \in DOMAIN Schema!SetToSeq(S) : Schema!SetToSeq(S)[i] = Schema!SetToSeq(S)[j] => i = j
<1>1. Schema!Cardinality(S) = Cardinality(S)
  BY DEF Schema!Cardinality, Cardinality, Schema!IsFiniteSet, IsFiniteSet
<1>2. PICK n \in Nat : n = Cardinality(S) /\ ExistsBijection(1..n, S)
  BY FS_CardinalityType
<1>3. \E f \in [1..n -> S] : Schema!IsInjective(f)
  BY <1>2 DEF ExistsBijection, Bijection, Injection, IsInjective, Schema!IsInjective
<1>4. Schema!SetToSeq(S) \in [1..n -> S] /\ Schema!IsInjective(Schema!SetToSeq(S))
  BY <1>1, <1>2, <1>3 DEF Schema!SetToSeq
<1>5. Schema!SetToSeq(S) \in Injection(1..n, S)
  BY <1>4 DEF Injection, IsInjective, Schema!IsInjective
<1>6. Cardinality(1..n) = n
  BY <1>2, FS_Interval
<1>7. Schema!SetToSeq(S) \in Surjection(1..n, S)
  BY <1>2, <1>5, <1>6, FS_Injection
<1>. QED
  BY <1>2, <1>4, <1>7 DEF Surjection, Schema!IsInjective

\* The columns whose texts are sampled are finitely many.
LEMMA SchemaFinite ==
    ASSUME NEW db, Schema!IsDatabase(db) PROVE IsFiniteSet({<<"sample", c>> : c \in Schema!TextColumns(db)})
<1>. DEFINE columns == Schema!TextColumns(db)
            name == [c \in columns |-> <<"sample", c>>]
<1>1. IsFiniteSet(DOMAIN ColumnDef)
  BY DefinitionsAssumption DEF Schema!WellDefined, Schema!IsFiniteSet, IsFiniteSet
<1>2. columns \in SUBSET DOMAIN ColumnDef
  BY DEF Schema!TextColumns, Schema!IsDatabase, Schema!Columns
<1>3. name \in Surjection(columns, {<<"sample", c>> : c \in columns})
  BY DEF Surjection
<1>. QED
  BY <1>1, <1>2, <1>3, FS_Subset, FS_Surjection

SchemaLoop == INSTANCE CategoryChecksProofs WITH
    Checks <- Schema!Checks, Applicable <- Schema!Applicable, Queries <- Schema!Queries, Answers <- Schema!Answers,
    Starts <- SchemaStarts, Changed <- Schema!Changed

SchemaInv == SchemaLoop!LoopInv /\ \A db \in SchemaLoop!Moments : Schema!IsDatabase(db)

\* The category's steps and words are those of the loop.
LEMMA SchemaIsALoop ==
    /\ Schema!Next => SchemaLoop!Next
    /\ Schema!Moments = SchemaLoop!Moments
    /\ \A slug : Schema!Told(slug) <=> SchemaLoop!Told(slug)
<1>1. Schema!Next => SchemaLoop!Next
  BY DEF Schema!Next, SchemaLoop!Next, Schema!AskApplicability, SchemaLoop!AskApplicability,
     Schema!BeginCheck, SchemaLoop!BeginCheck, Schema!RunQuery, SchemaLoop!RunQuery, Schema!ReturnFindings,
     SchemaLoop!ReturnFindings, Schema!Change, SchemaLoop!Change, Schema!EndCheck, SchemaLoop!EndCheck,
     Schema!Over, SchemaLoop!Over, Schema!vars, SchemaLoop!vars, Schema!Running, SchemaLoop!Running,
     Schema!Current, SchemaLoop!Current
<1>. QED
  BY <1>1 DEF Schema!Moments, SchemaLoop!Moments, Schema!Told, SchemaLoop!Told

\* Its checks are listed once each.
LEMMA SchemaChecks ==
    /\ SchemaLoop!Distinct
    /\ SchemaLoop!Slugs = {"structured-data-stored-as-text", "missing-foreign-keys", "schema-drift",
      "primary-key-consistency", "repeating-column-groups"}
<1>1. Schema!Checks \in Seq({"structured-data-stored-as-text", "missing-foreign-keys", "schema-drift",
      "primary-key-consistency", "repeating-column-groups"})
  BY DEF Schema!Checks
<1>2. \A i, j \in DOMAIN Schema!Checks : Schema!Checks[i] = Schema!Checks[j] => i = j
  BY DEF Schema!Checks
<1>3. DOMAIN Schema!Checks = {1, 2, 3, 4, 5}
  BY DEF Schema!Checks
<1>4. SchemaLoop!Slugs = {Schema!Checks[i] : i \in DOMAIN Schema!Checks}
  BY DEF SchemaLoop!Slugs, SchemaLoop!Range
<1>5. SchemaLoop!Slugs = {"structured-data-stored-as-text", "missing-foreign-keys", "schema-drift",
      "primary-key-consistency", "repeating-column-groups"}
  BY <1>3, <1>4 DEF Schema!Checks
<1>. QED
  BY <1>1, <1>2, <1>5 DEF SchemaLoop!Distinct

\* A check's queries are a sequence.
LEMMA SchemaListings == ASSUME \A db \in SchemaLoop!Moments : Schema!IsDatabase(db) PROVE SchemaLoop!Listings
<1>1. ASSUME NEW slug, NEW db, Schema!IsDatabase(db) PROVE \E Q : Schema!Queries(slug, db) \in Seq(Q)
  <2>. DEFINE listed == {<<"sample", c>> : c \in Schema!TextColumns(db)}
              Q == listed \cup {<<"varchar">>, <<"money">>, <<"fk-like">>, <<"cascade">>, <<"no-key">>, <<"key-types">>, <<slug>>}
  <2>1. Schema!SetToSeq(listed) \in Seq(Q)
    BY <1>1, SchemaFinite, SchemaListed
  <2>. HIDE DEF listed
  <2>2. /\ Schema!SetToSeq(listed) \o <<<<"varchar">>, <<"money">>>> \in Seq(Q)
        /\ <<<<"fk-like">>, <<"cascade">>>> \in Seq(Q)
        /\ <<<<"no-key">>, <<"key-types">>>> \in Seq(Q)
        /\ <<<<slug>>>> \in Seq(Q)
    BY <2>1
  <2>3. Schema!Queries(slug, db) \in {Schema!SetToSeq(listed) \o <<<<"varchar">>, <<"money">>>>,
          <<<<"fk-like">>, <<"cascade">>>>, <<<<"no-key">>, <<"key-types">>>>, <<<<slug>>>>}
    BY Zenon DEF Schema!Queries, listed
  <2>. QED
    BY <2>2, <2>3
<1>. QED
  BY <1>1 DEF SchemaLoop!Listings

\* The client's changes make a database of a database.
LEMMA SchemaDatabases == ASSUME NEW db, Schema!IsDatabase(db), NEW later \in Schema!Changed(db) PROVE Schema!IsDatabase(later)
<1>1. ASSUME DOMAIN later = DOMAIN db, later.values = db.values, later.columns \subseteq db.columns,
             later.constraints \subseteq db.constraints
      PROVE  Schema!IsDatabase(later)
  BY <1>1 DEF Schema!IsDatabase, Schema!TextColumns
<1>2. ASSUME NEW c, later = [db EXCEPT !.columns = @ \ {c}, !.constraints = {k \in @ : c \notin ConstraintDef[k].columns}]
      PROVE  Schema!IsDatabase(later)
  BY <1>1, <1>2 DEF Schema!IsDatabase
<1>3. ASSUME NEW k, later = [db EXCEPT !.constraints = @ \ {k}] PROVE Schema!IsDatabase(later)
  BY <1>1, <1>3 DEF Schema!IsDatabase
<1>4. ASSUME NEW t, later = [db EXCEPT !.privileged = @ \cup {t}] PROVE Schema!IsDatabase(later)
  BY <1>1, <1>4 DEF Schema!IsDatabase
<1>. QED
  BY <1>2, <1>3, <1>4 DEF Schema!Changed, Schema!DropColumn, Schema!DropConstraint, Schema!Grant

\* The category's part of the invariant holds at first, and is kept.
LEMMA SchemaInit == ASSUME Schema!Init PROVE SchemaInv
<1>2. SchemaLoop!Init
  BY DEF Schema!Init, SchemaLoop!Init, Schema!Slugs, SchemaLoop!Slugs, Schema!Range, SchemaLoop!Range
<1>. QED
  BY <1>2, SchemaChecks, SchemaLoop!LoopInit, CatalogStartsAssumption DEF SchemaInv, SchemaLoop!Init, SchemaLoop!Moments

\* The loop's lemma, the listings and the databases give the step.
LEMMA SchemaStep == ASSUME SchemaInv, [Schema!Next]_<<machine, found, changes>> PROVE SchemaInv'
<1>1. [SchemaLoop!Next]_(SchemaLoop!vars)
  BY SchemaIsALoop DEF machine, SchemaLoop!vars
<1>2. SchemaLoop!LoopInv /\ \A db \in SchemaLoop!Moments : Schema!IsDatabase(db)
  BY <1>1 DEF SchemaInv
<1>3. SchemaLoop!LoopInv'
  BY <1>1, <1>2, SchemaLoop!LoopStep, SchemaChecks, SchemaListings, OutcomesAssumption
<1>4. database \in SchemaLoop!Moments
  BY DEF SchemaLoop!Moments
<1>5. SchemaLoop!Moments' \subseteq SchemaLoop!Moments \cup Schema!Changed(database)
  BY <1>1, SchemaLoop!MomentsGrow
<1>. QED
  BY <1>2, <1>3, <1>4, <1>5, SchemaDatabases DEF SchemaInv

\* What the checks of keys ask, and what that answers.
LEMMA SchemaQueries ==
    ASSUME NEW db
    PROVE  /\ Schema!Queries("missing-foreign-keys", db) = <<<<"fk-like">>, <<"cascade">>>>
           /\ Schema!Queries("primary-key-consistency", db) = <<<<"no-key">>, <<"key-types">>>>
           /\ \A slug : /\ Schema!Answers(slug, <<"fk-like">>, db) = {{<<"no-fk", c>> : c \in Schema!FkLikeColumnsWithoutFk(db)}}
                        /\ Schema!Answers(slug, <<"cascade">>, db) = {{<<"cascade", k>> : k \in Schema!UnexpectedCascades(db)}}
                        /\ Schema!Answers(slug, <<"no-key">>, db) = {{<<"no-key", t>> : t \in Schema!TablesWithoutPrimaryKey(db)}}
                        /\ Schema!Answers(slug, <<"key-types">>, db) = {Schema!MixedFamilies(db)}
<1>1. /\ Schema!Queries("missing-foreign-keys", db) = <<<<"fk-like">>, <<"cascade">>>>
      /\ Schema!Queries("primary-key-consistency", db) = <<<<"no-key">>, <<"key-types">>>>
  BY Zenon DEF Schema!Queries
<1>2. \A name : <<name>>[1] = name
  OBVIOUS
<1>3. ASSUME NEW slug PROVE Schema!Answers(slug, <<"fk-like">>, db) = {{<<"no-fk", c>> : c \in Schema!FkLikeColumnsWithoutFk(db)}}
  BY <1>2, Zenon DEF Schema!Answers
<1>4. ASSUME NEW slug PROVE Schema!Answers(slug, <<"cascade">>, db) = {{<<"cascade", k>> : k \in Schema!UnexpectedCascades(db)}}
  BY <1>2, Zenon DEF Schema!Answers
<1>5. ASSUME NEW slug PROVE Schema!Answers(slug, <<"no-key">>, db) = {{<<"no-key", t>> : t \in Schema!TablesWithoutPrimaryKey(db)}}
  BY <1>2, Zenon DEF Schema!Answers
<1>6. ASSUME NEW slug PROVE Schema!Answers(slug, <<"key-types">>, db) = {Schema!MixedFamilies(db)}
  BY <1>2, Zenon DEF Schema!Answers
<1>. QED
  BY <1>1, <1>3, <1>4, <1>5, <1>6

\* A check of keys tells what its first query answered, and something of another kind.
LEMMA SchemaFirstOfTwo ==
    ASSUME SchemaInv, NEW slug \in {"missing-foreign-keys", "primary-key-consistency"}, Schema!Told(slug)
    PROVE  \E m, n \in SchemaLoop!Moments :
              \E a \in Schema!Answers(slug, Schema!Queries(slug, m)[1], m), b \in Schema!Answers(slug, Schema!Queries(slug, m)[2], n) :
                 found[slug] = a \cup b
<1>1. slug \in SchemaLoop!Slugs /\ SchemaLoop!Told(slug) /\ SchemaLoop!LoopInv /\ SchemaLoop!Distinct
  BY SchemaChecks, SchemaIsALoop DEF SchemaInv
<1>2. \A db, d : Len(Schema!Queries(slug, db)) = 2 /\ Schema!Queries(slug, db) = Schema!Queries(slug, d)
  BY SchemaQueries
<1>3. PICK then, m, n \in SchemaLoop!Moments :
          \E a \in Schema!Answers(slug, Schema!Queries(slug, then)[1], m), b \in Schema!Answers(slug, Schema!Queries(slug, then)[2], n) :
             a # Raised /\ b # Raised /\ found[slug] = a \cup b
  BY <1>1, <1>2, SchemaLoop!ToldByTwoQueries
<1>4. Schema!Queries(slug, then) = Schema!Queries(slug, m)
  BY <1>2
<1>. QED
  BY <1>3, <1>4

\* What is said of foreign keys.
LEMMA SchemaForeignKeys ==
    ASSUME SchemaInv, Schema!Told("missing-foreign-keys"), NEW c \in Schema!Columns
    PROVE  /\ <<"no-fk", c>> \in found["missing-foreign-keys"] => \E db \in Schema!Moments :
                c \in db.columns /\ (Schema!Table(c) \in db.privileged => ~Schema!KeyOn(c, "f", db))
           /\ Schema!FkShaped(c) /\ (\A db \in Schema!Moments : c \in db.columns /\ ~Schema!KeyOn(c, "f", db)) =>
                \/ <<"no-fk", c>> \in found["missing-foreign-keys"]
                \/ \E db \in Schema!Moments : \E j, k \in db.constraints :
                      /\ c \in ConstraintDef[j].columns /\ ConstraintDef[k].kind = "f"
                      /\ ConstraintDef[j].name = ConstraintDef[k].name
                      /\ ConstraintDef[j].table # ConstraintDef[k].table
<1>1. PICK m, n \in Schema!Moments : found["missing-foreign-keys"] =
        {<<"no-fk", d>> : d \in Schema!FkLikeColumnsWithoutFk(m)} \cup {<<"cascade", k>> : k \in Schema!UnexpectedCascades(n)}
  BY SchemaFirstOfTwo, SchemaQueries, SchemaIsALoop
<1>2. <<"no-fk", c>> \in found["missing-foreign-keys"] <=> c \in Schema!FkLikeColumnsWithoutFk(m)
  BY <1>1
<1>3. m.constraints \subseteq Schema!Constraints
  BY SchemaIsALoop DEF SchemaInv, Schema!IsDatabase
<1>4. ASSUME c \in Schema!FkLikeColumnsWithoutFk(m), Schema!Table(c) \in m.privileged PROVE ~Schema!KeyOn(c, "f", m)
  <2>1. SUFFICES ASSUME NEW k \in m.constraints, ConstraintDef[k].kind = "f", c \in ConstraintDef[k].columns PROVE FALSE
    BY DEF Schema!KeyOn
  <2>2. k \in Schema!Keys("f", m) /\ c \in Schema!KeyColumns(k, m)
    BY <1>3, <1>4, <2>1, DefinitionsAssumption
       DEF Schema!Keys, Schema!Visible, Schema!KeyColumns, Schema!WellDefined, Schema!Table, Schema!Constraints
  <2>. QED
    BY <1>4, <2>2 DEF Schema!FkLikeColumnsWithoutFk
<1>5. ASSUME Schema!FkShaped(c), c \in m.columns, ~Schema!KeyOn(c, "f", m), c \notin Schema!FkLikeColumnsWithoutFk(m)
      PROVE  \E j, k \in m.constraints :
                /\ c \in ConstraintDef[j].columns /\ ConstraintDef[k].kind = "f"
                /\ ConstraintDef[j].name = ConstraintDef[k].name
                /\ ConstraintDef[j].table # ConstraintDef[k].table
  <2>1. PICK k \in Schema!Keys("f", m) : c \in Schema!KeyColumns(k, m)
    BY <1>5 DEF Schema!FkLikeColumnsWithoutFk
  <2>2. k \in m.constraints /\ ConstraintDef[k].kind = "f"
    BY <2>1 DEF Schema!Keys, Schema!Visible
  <2>3. PICK j \in m.constraints : ConstraintDef[j].name = ConstraintDef[k].name /\ c \in ConstraintDef[j].columns
    BY <2>1 DEF Schema!KeyColumns
  <2>4. j # k
    BY <1>5, <2>2, <2>3 DEF Schema!KeyOn
  <2>5. ConstraintDef[j].table # ConstraintDef[k].table
    BY <1>3, <2>2, <2>3, <2>4, DefinitionsAssumption DEF Schema!WellDefined, Schema!Constraints
  <2>. QED
    BY <2>2, <2>3, <2>5
<1>. QED
  BY <1>2, <1>4, <1>5 DEF Schema!FkLikeColumnsWithoutFk

\* What is said of primary keys.
LEMMA SchemaPrimaryKeys ==
    ASSUME SchemaInv, Schema!Told("primary-key-consistency"), NEW t
    PROVE  /\ <<"no-key", t>> \in found["primary-key-consistency"] => \E db \in Schema!Moments :
                t \in Schema!BaseTables(db) /\ (t \in db.privileged => ~Schema!HasPrimaryKey(t, db))
           /\ (\A db \in Schema!Moments : t \in Schema!BaseTables(db) /\ ~Schema!HasPrimaryKey(t, db)) =>
                <<"no-key", t>> \in found["primary-key-consistency"]
<1>1. PICK m, n \in Schema!Moments : found["primary-key-consistency"] =
        {<<"no-key", u>> : u \in Schema!TablesWithoutPrimaryKey(m)} \cup Schema!MixedFamilies(n)
  BY SchemaFirstOfTwo, SchemaQueries, SchemaIsALoop
<1>2. <<"no-key", t>> \notin Schema!MixedFamilies(n)
  BY DEF Schema!MixedFamilies
<1>3. <<"no-key", t>> \in found["primary-key-consistency"] <=> t \in Schema!TablesWithoutPrimaryKey(m)
  BY <1>1, <1>2
<1>4. ASSUME t \in Schema!TablesWithoutPrimaryKey(m), t \in m.privileged PROVE ~Schema!HasPrimaryKey(t, m)
  BY <1>4 DEF Schema!TablesWithoutPrimaryKey, Schema!HasPrimaryKey, Schema!Keys, Schema!Visible
<1>5. t \in Schema!BaseTables(m) /\ ~Schema!HasPrimaryKey(t, m) => t \in Schema!TablesWithoutPrimaryKey(m)
  BY DEF Schema!TablesWithoutPrimaryKey, Schema!HasPrimaryKey, Schema!Keys, Schema!Visible
<1>6. t \in Schema!TablesWithoutPrimaryKey(m) => t \in Schema!BaseTables(m)
  BY DEF Schema!TablesWithoutPrimaryKey
<1>. QED
  BY <1>3, <1>4, <1>5, <1>6

\* What the category says about keys is true of the tables the role may see the keys of.
LEMMA SchemaKeys == ASSUME SchemaInv PROVE Schema!KeyFindingsAreTrue
  BY SchemaForeignKeys, SchemaPrimaryKeys DEF Schema!KeyFindingsAreTrue

\* A schema's columns are such.
SchemaKind == [c \in Schema!Columns |-> <<Schema!Table(c), Schema!Type(c)>>]
SchemaName == [c \in Schema!Columns |-> Schema!Name(c)]

LEMMA ExceptIs ==
    \A f, p, v : [f EXCEPT ![p] = v] = [q \in DOMAIN f |-> IF q = p THEN v ELSE f[q]]
  OBVIOUS

LEMMA SchemaCounts == \A S : Schema!Cardinality(S) = Cardinality(S)
  BY DEF Schema!Cardinality, Cardinality, Schema!IsFiniteSet, IsFiniteSet

LEMMA SchemaNamed == Named(Schema!Columns, SchemaKind, SchemaName)
<1>1. IsFiniteSet(Schema!Columns)
  BY DefinitionsAssumption DEF Schema!WellDefined, Schema!Columns, Schema!IsFiniteSet, IsFiniteSet
<1>2. \A c \in Schema!Columns : SchemaName[c] \in Seq(STRING)
  BY DefinitionsAssumption DEF Schema!WellDefined, Schema!Name, Schema!Columns, SchemaName
<1>3. ASSUME NEW c \in Schema!Columns, NEW d \in Schema!Columns, SchemaKind[c] = SchemaKind[d], SchemaName[c] = SchemaName[d]
      PROVE  c = d
  <2>1. Schema!Table(c) = Schema!Table(d) /\ Schema!Name(c) = Schema!Name(d)
    BY <1>3 DEF SchemaKind, SchemaName
  <2>. QED
    BY <2>1, DefinitionsAssumption DEF Schema!WellDefined, Schema!Name, Schema!Table, Schema!Columns
<1>. QED
  BY <1>1, <1>2, <1>3 DEF Named

\* Two columns are neighbours when one token tells their names apart.
LEMMA SchemaApart ==
    ASSUME NEW c \in Schema!Columns, NEW d \in Schema!Columns
    PROVE  Schema!Neighbours(c, d) <=> NextTo(SchemaKind, SchemaName, c, d)
<1>. DEFINE S == {p \in DOMAIN Schema!Name(c) : Schema!Name(c)[p] # Schema!Name(d)[p]}
<1>1. Schema!Neighbours(c, d) <=>
        /\ Schema!Table(c) = Schema!Table(d) /\ Schema!Type(c) = Schema!Type(d)
        /\ Len(Schema!Name(c)) = Len(Schema!Name(d)) /\ Len(Schema!Name(c)) > 1 /\ Cardinality(S) = 1
  BY SchemaCounts DEF Schema!Neighbours
<1>2. Schema!Name(c) \in Seq(STRING)
  BY SchemaNamed DEF Named, SchemaName
<1>3. IsFiniteSet(S)
  <2>1. IsFiniteSet(1..Len(Schema!Name(c))) /\ S \subseteq 1..Len(Schema!Name(c))
    BY <1>2, FS_Interval
  <2>. QED
    BY <2>1, FS_Subset
<1>4. \A p : S = {p} <=> /\ p \in DOMAIN Schema!Name(c) /\ Schema!Name(c)[p] # Schema!Name(d)[p]
                         /\ \A q \in DOMAIN Schema!Name(c) : q # p => Schema!Name(c)[q] = Schema!Name(d)[q]
  OBVIOUS
<1>. HIDE DEF S
<1>5. Cardinality(S) = 1 <=> \E p : S = {p}
  BY <1>3, FS_Singleton
<1>6. SchemaKind[c] = SchemaKind[d] <=> Schema!Table(c) = Schema!Table(d) /\ Schema!Type(c) = Schema!Type(d)
  BY DEF SchemaKind
<1>7. SchemaName[c] = Schema!Name(c) /\ SchemaName[d] = Schema!Name(d)
  BY DEF SchemaName
<1>8. ASSUME NEW p, Len(Schema!Name(c)) > 1
      PROVE  ApartAt(SchemaKind, SchemaName, c, d, p) <=>
                /\ Schema!Table(c) = Schema!Table(d) /\ Schema!Type(c) = Schema!Type(d)
                /\ Len(Schema!Name(c)) = Len(Schema!Name(d)) /\ S = {p}
  <2>1. AlikeBut(SchemaKind, SchemaName, c, d, p) <=>
           /\ Schema!Table(c) = Schema!Table(d) /\ Schema!Type(c) = Schema!Type(d)
           /\ Len(Schema!Name(c)) = Len(Schema!Name(d))
           /\ \A q \in DOMAIN Schema!Name(c) : q # p => Schema!Name(c)[q] = Schema!Name(d)[q]
    BY <1>6, <1>7 DEF AlikeBut
  <2>2. S = {p} <=> /\ p \in DOMAIN Schema!Name(c) /\ Schema!Name(c)[p] # Schema!Name(d)[p]
                    /\ \A q \in DOMAIN Schema!Name(c) : q # p => Schema!Name(c)[q] = Schema!Name(d)[q]
    BY <1>4
  <2>. QED
    BY <1>7, <2>1, <2>2, Zenon DEF ApartAt
<1>9. NextTo(SchemaKind, SchemaName, c, d) <=>
         Len(Schema!Name(c)) > 1 /\ \E p : ApartAt(SchemaKind, SchemaName, c, d, p)
  BY <1>7 DEF NextTo
<1>. QED
  BY <1>1, <1>5, <1>8, <1>9, Zenon

\* A group has the columns whose skeletons are the same: that is a family.
LEMMA SchemaGroup ==
    ASSUME NEW db, db.columns \subseteq Schema!Columns, NEW c \in db.columns, NEW p \in DOMAIN Schema!Name(c)
    PROVE  Schema!Group(c, p, db) = Family(db.columns, SchemaKind, SchemaName, c, p)
<1>1. ASSUME NEW d \in db.columns, Len(Schema!Name(d)) = Len(Schema!Name(c))
      PROVE  Schema!Skeleton(d, p) = Schema!Skeleton(c, p)
                <=> \A q \in DOMAIN Schema!Name(c) : q # p => Schema!Name(c)[q] = Schema!Name(d)[q]
  <2>1. Schema!Name(c) \in Seq(STRING) /\ Schema!Name(d) \in Seq(STRING)
    BY SchemaNamed DEF Named, SchemaName
  <2>2. DOMAIN Schema!Name(c) = DOMAIN Schema!Name(d)
    BY <1>1, <2>1
  <2>3. /\ Schema!Skeleton(c, p) = [q \in DOMAIN Schema!Name(c) |-> IF q = p THEN "*" ELSE Schema!Name(c)[q]]
        /\ Schema!Skeleton(d, p) = [q \in DOMAIN Schema!Name(d) |-> IF q = p THEN "*" ELSE Schema!Name(d)[q]]
    BY ExceptIs DEF Schema!Skeleton
  <2>4. ASSUME Schema!Skeleton(d, p) = Schema!Skeleton(c, p), NEW q \in DOMAIN Schema!Name(c), q # p
        PROVE  Schema!Name(c)[q] = Schema!Name(d)[q]
    BY <2>2, <2>3, <2>4
  <2>. QED
    BY <2>2, <2>3, <2>4
<1>2. ASSUME NEW d \in db.columns
      PROVE  d \in Schema!Group(c, p, db) <=> AlikeBut(SchemaKind, SchemaName, c, d, p)
  <2>1. SchemaKind[c] = SchemaKind[d] <=> Schema!Table(d) = Schema!Table(c) /\ Schema!Type(d) = Schema!Type(c)
    BY DEF SchemaKind
  <2>2. SchemaName[c] = Schema!Name(c) /\ SchemaName[d] = Schema!Name(d)
    BY DEF SchemaName
  <2>. QED
    BY <1>1, <2>1, <2>2 DEF Schema!Group, AlikeBut
<1>3. \A d : d \in Schema!Group(c, p, db) <=> d \in Family(db.columns, SchemaKind, SchemaName, c, p)
  BY <1>2 DEF Schema!Group, Family
<1>. QED
  BY <1>3, SameSet

\* The families a schema has are those.
LEMMA SchemaFamilies ==
    ASSUME NEW db, db.columns \subseteq Schema!Columns, NEW g
    PROVE  g \in Schema!RepeatingFamilies(db) <=> IsFamily(db.columns, SchemaKind, SchemaName, Numbered, g)
<1>1. \A c, p : <<c, p>> \in Schema!Positions(db) <=>
         c \in db.columns /\ p \in DOMAIN Schema!Name(c) /\ Len(Schema!Name(c)) > 1
  BY DEF Schema!Positions
<1>2. \A x \in Schema!Positions(db) : \E c, p : x = <<c, p>>
  BY DEF Schema!Positions
<1>3. \A c, p : <<c, p>>[1] = c /\ <<c, p>>[2] = p
  OBVIOUS
<1>4. g \in Schema!RepeatingFamilies(db) <=> \E x \in Schema!Positions(db) :
         g = Schema!Group(x[1], x[2], db) /\ Cardinality(g) >= 3 /\ Schema!Enumerates(g, x[2])
  BY SchemaCounts DEF Schema!RepeatingFamilies, Schema!MinGroup
<1>5. \A c \in db.columns : SchemaName[c] = Schema!Name(c)
  BY DEF SchemaName
<1>6. \A p : g \subseteq db.columns => (Schema!Enumerates(g, p) <=> \A d \in g : SchemaName[d][p] \in Numbered)
  BY <1>5 DEF Schema!Enumerates
<1>7. ASSUME g \in Schema!RepeatingFamilies(db) PROVE IsFamily(db.columns, SchemaKind, SchemaName, Numbered, g)
  <2>1. PICK x \in Schema!Positions(db) :
           g = Schema!Group(x[1], x[2], db) /\ Cardinality(g) >= 3 /\ Schema!Enumerates(g, x[2])
    BY <1>4, <1>7
  <2>2. PICK c, p : x = <<c, p>>
    BY <1>2
  <2>3. c \in db.columns /\ p \in DOMAIN Schema!Name(c) /\ Len(Schema!Name(c)) > 1 /\ x[1] = c /\ x[2] = p
    BY <1>1, <1>3, <2>2
  <2>4. g = Family(db.columns, SchemaKind, SchemaName, c, p)
    BY <2>1, <2>3, SchemaGroup
  <2>5. g \subseteq db.columns
    BY <2>4 DEF Family
  <2>. QED
    BY <1>5, <1>6, <2>1, <2>3, <2>4, <2>5 DEF IsFamily
<1>8. ASSUME IsFamily(db.columns, SchemaKind, SchemaName, Numbered, g) PROVE g \in Schema!RepeatingFamilies(db)
  <2>1. PICK c, p :
           /\ c \in db.columns /\ p \in DOMAIN SchemaName[c] /\ Len(SchemaName[c]) > 1
           /\ g = Family(db.columns, SchemaKind, SchemaName, c, p)
           /\ Cardinality(g) >= 3 /\ \A d \in g : SchemaName[d][p] \in Numbered
    BY <1>8 DEF IsFamily
  <2>2. g = Schema!Group(c, p, db) /\ <<c, p>> \in Schema!Positions(db)
    BY <1>1, <1>5, <2>1, SchemaGroup
  <2>3. g \subseteq db.columns
    BY <2>1 DEF Family
  <2>4. Schema!Enumerates(g, p)
    BY <1>6, <2>1, <2>3
  <2>5. PICK x \in Schema!Positions(db) : x[1] = c /\ x[2] = p
    BY <1>3, <2>2
  <2>. QED
    BY <1>4, <2>1, <2>2, <2>4, <2>5
<1>. QED
  BY <1>7, <1>8

\* The sets the property speaks of are the largest.
SchemaLargest(db) ==
    LET cliques == {s \in SUBSET db.columns : Schema!Cardinality(s) >= Schema!MinGroup /\ Schema!Clique(s)}
        largest == {s \in cliques : \A r \in cliques : s \subseteq r => r = s}
    IN  {s \in largest : Schema!Varying(s) \subseteq Numbered}

LEMMA SchemaLargestIs ==
    ASSUME NEW db, db.columns \subseteq Schema!Columns, NEW s
    PROVE  s \in SchemaLargest(db) <=>
              s \in Largest(db.columns, SchemaKind, SchemaName) /\ VariesIn(SchemaName, s, Numbered)
<1>. DEFINE cliques == {r \in SUBSET db.columns : Schema!Cardinality(r) >= Schema!MinGroup /\ Schema!Clique(r)}
<1>1. ASSUME NEW r \in SUBSET db.columns
      PROVE  Schema!Clique(r) <=> \A c, d \in r : c # d => NextTo(SchemaKind, SchemaName, c, d)
  BY SchemaApart DEF Schema!Clique
<1>2. \A r : r \in cliques <=> r \in Cliques(db.columns, SchemaKind, SchemaName)
  BY <1>1, SchemaCounts DEF Cliques, Schema!MinGroup
<1>3. cliques = Cliques(db.columns, SchemaKind, SchemaName)
  BY <1>2, SameSet
<1>4. s \in SchemaLargest(db) <=> s \in {r \in cliques : \A t \in cliques : r \subseteq t => t = r} /\ Schema!Varying(s) \subseteq Numbered
  BY DEF SchemaLargest
<1>. HIDE DEF cliques
<1>5. s \in SchemaLargest(db) <=> s \in Largest(db.columns, SchemaKind, SchemaName) /\ Schema!Varying(s) \subseteq Numbered
  BY <1>3, <1>4 DEF Largest
<1>6. ASSUME s \in SUBSET db.columns PROVE Schema!Varying(s) \subseteq Numbered <=> VariesIn(SchemaName, s, Numbered)
  <2>1. \A c \in s : SchemaName[c] = Schema!Name(c)
    BY <1>6 DEF SchemaName
  <2>2. Schema!Varying(s) \subseteq Numbered <=>
           \A c, d \in s : \A q \in DOMAIN Schema!Name(c) : Schema!Name(d)[q] # Schema!Name(c)[q] => Schema!Name(c)[q] \in Numbered
    BY DEF Schema!Varying
  <2>. QED
    BY <2>1, <2>2 DEF VariesIn
<1>7. s \in Largest(db.columns, SchemaKind, SchemaName) => s \in SUBSET db.columns
  BY DEF Largest, Cliques
<1>. QED
  BY <1>5, <1>6, <1>7

\* What is found is so: no two of them share two columns.
LEMMA SchemaFamiliesAre ==
    ASSUME NEW db, db.columns \subseteq Schema!Columns
    PROVE  /\ Schema!RepeatingFamilies(db) = SchemaLargest(db)
           /\ \A r, s \in Schema!RepeatingFamilies(db) : r # s => Schema!Cardinality(r \cap s) <= 1
<1>1. Named(db.columns, SchemaKind, SchemaName)
  BY SchemaNamed, FS_Subset DEF Named
<1>2. ASSUME NEW g PROVE g \in Schema!RepeatingFamilies(db) <=> g \in SchemaLargest(db)
  <2>1. g \in Schema!RepeatingFamilies(db) <=> IsFamily(db.columns, SchemaKind, SchemaName, Numbered, g)
    BY SchemaFamilies
  <2>2. g \in SchemaLargest(db) <=>
           g \in Largest(db.columns, SchemaKind, SchemaName) /\ VariesIn(SchemaName, g, Numbered)
    BY SchemaLargestIs
  <2>. QED
    BY <1>1, <2>1, <2>2, FamiliesAreLargest
<1>3. ASSUME NEW r \in Schema!RepeatingFamilies(db), NEW s \in Schema!RepeatingFamilies(db), r # s
      PROVE  Cardinality(r \cap s) <= 1
  BY <1>1, <1>3, SchemaFamilies, FamiliesAreLargest
<1>. QED
  BY <1>2, <1>3, SameSet, SchemaCounts

\* The families reported are those of the moment of the one query.
LEMMA SchemaRepeats == ASSUME SchemaInv PROVE Schema!RepeatsAreExact
<1>. DEFINE slug == "repeating-column-groups"
<1>1. SUFFICES ASSUME Schema!Told(slug)
               PROVE  \E db \in Schema!Moments :
                         LET reported == {f[2] : f \in found[slug]}
                         IN  /\ reported = SchemaLargest(db)
                             /\ \A r, s \in reported : r # s => Schema!Cardinality(r \cap s) <= 1
  BY Zenon DEF Schema!RepeatsAreExact, SchemaLargest
<1>2. \A db : Schema!Queries(slug, db) = <<<<slug>>>>
  BY Zenon DEF Schema!Queries
<1>3. \A db : DOMAIN Schema!Queries(slug, db) = {1} /\ Len(Schema!Queries(slug, db)) = 1
  BY <1>2
<1>4. \A name : <<name>>[1] = name
  OBVIOUS
<1>5. \A db : Schema!Answers(slug, <<slug>>, db) = {{<<"repeats", g>> : g \in Schema!RepeatingFamilies(db)}}
  BY <1>4, Zenon DEF Schema!Answers
<1>6. SchemaLoop!LoopInv /\ SchemaLoop!Distinct /\ slug \in SchemaLoop!Slugs /\ found[slug] # Pending
  BY <1>1, SchemaChecks, SchemaIsALoop DEF SchemaInv, SchemaLoop!Told
<1>7. PICK now \in SchemaLoop!Moments : found[slug] = {<<"repeats", g>> : g \in Schema!RepeatingFamilies(now)}
  BY <1>2, <1>3, <1>5, <1>6, SchemaLoop!ByOneQuery
<1>8. {f[2] : f \in found[slug]} = Schema!RepeatingFamilies(now)
  <2>1. \A g : <<"repeats", g>>[2] = g
    OBVIOUS
  <2>2. ASSUME NEW g PROVE g \in {f[2] : f \in found[slug]} <=> g \in Schema!RepeatingFamilies(now)
    BY <1>7, <2>1, Zenon
  <2>. QED
    BY <2>2, Zenon
<1>9. now \in Schema!Moments /\ now.columns \subseteq Schema!Columns
  BY SchemaIsALoop DEF SchemaInv, Schema!IsDatabase
<1>. QED
  BY <1>8, <1>9, SchemaFamiliesAre

\* The rows of a column are finitely many, those of two kinds among them.
LEMMA SchemaRows ==
    ASSUME NEW bag, Schema!IsContents(bag)
    PROVE  /\ Schema!Size(bag) \in Nat
           /\ \A s, t \in DOMAIN bag : s # t => bag[s] + bag[t] <= Schema!Size(bag)
<1>. DEFINE D == DOMAIN bag
            Of(k) == {k} \X (1..bag[k])
            all == Schema!RowsIn(bag)
<1>0. \A S : (Schema!IsFiniteSet(S) <=> IsFiniteSet(S)) /\ Schema!Cardinality(S) = Cardinality(S)
  BY DEF Schema!Cardinality, Cardinality, Schema!IsFiniteSet, IsFiniteSet
<1>1. IsFiniteSet(D) /\ \A k \in D : bag[k] \in Nat
  BY <1>0 DEF Schema!IsContents, Schema!IsABag, Schema!BagToSet
<1>2. ASSUME NEW k \in D PROVE IsFiniteSet(Of(k)) /\ Cardinality(Of(k)) = bag[k]
  <2>1. IsFiniteSet({k}) /\ Cardinality({k}) = 1
    BY FS_Singleton
  <2>2. bag[k] \in Nat /\ 1 \in Int
    BY <1>1
  <2>3. IsFiniteSet(1..bag[k]) /\ Cardinality(1..bag[k]) = bag[k]
    BY <2>2, FS_Interval
  <2>4. IsFiniteSet(Of(k)) /\ Cardinality(Of(k)) = Cardinality({k}) * Cardinality(1..bag[k])
    BY <2>1, <2>3, FS_Product
  <2>. HIDE DEF Of
  <2>. QED
    BY <2>1, <2>2, <2>3, <2>4
<1>3. all = UNION {Of(k) : k \in D}
  BY DEF Schema!RowsIn, Schema!BagToSet
<1>. DEFINE of == [k \in D |-> Of(k)]
<1>4. IsFiniteSet({Of(k) : k \in D})
  <2>1. of \in Surjection(D, {Of(k) : k \in D})
    BY DEF Surjection
  <2>. QED
    BY <1>1, <2>1, FS_Surjection
<1>5. IsFiniteSet(all)
  <2>1. \A T \in {Of(k) : k \in D} : IsFiniteSet(T)
    BY <1>2
  <2>. QED
    BY <1>3, <1>4, <2>1, FS_UNION
<1>6. Schema!Size(bag) = Cardinality(all) /\ Cardinality(all) \in Nat
  BY <1>0, <1>5, FS_CardinalityType DEF Schema!Size
<1>7. ASSUME NEW s \in D, NEW t \in D, s # t PROVE bag[s] + bag[t] <= Cardinality(all)
  <2>1. Of(s) \cap Of(t) = {} /\ Of(s) \cup Of(t) \in SUBSET all
    BY <1>3, <1>7
  <2>2. Cardinality(Of(s) \cup Of(t)) = Cardinality(Of(s)) + Cardinality(Of(t)) - Cardinality(Of(s) \cap Of(t))
    BY <1>2, FS_Union
  <2>3. Cardinality(Of(s) \cap Of(t)) = 0
    BY <2>1, FS_EmptySet
  <2>4. Cardinality(Of(s) \cup Of(t)) <= Cardinality(all)
    BY <1>5, <2>1, FS_Subset
  <2>5. Cardinality(Of(s)) = bag[s] /\ Cardinality(Of(t)) = bag[t] /\ bag[s] \in Nat /\ bag[t] \in Nat
    BY <1>1, <1>2
  <2>. HIDE DEF Of, D, all
  <2>. QED
    BY <1>6, <2>2, <2>3, <2>4, <2>5
<1>. QED
  BY <1>6, <1>7

\* No two shapes have nine tenths of the values, so their order makes no difference.
LEMMA SchemaShape ==
    ASSUME NEW bag, Schema!IsContents(bag), NEW s \in Schema!TextShapes
    PROVE  s \in Schema!ShapeOf(bag) <=> Schema!Size(bag) >= MinShapeSample /\ Schema!Dominates(s, bag)
<1>1. ASSUME NEW t \in Schema!Before(s), Schema!Dominates(s, bag), Schema!Dominates(t, bag) PROVE FALSE
  <2>1. t # s
    BY <1>1 DEF Schema!Before, Schema!TextShapes
  <2>2. /\ s \in DOMAIN bag /\ t \in DOMAIN bag
        /\ 10 * bag[s] >= 9 * Schema!Size(bag) /\ 10 * bag[t] >= 9 * Schema!Size(bag)
    BY <1>1 DEF Schema!Dominates, Schema!BagIn, Schema!BagToSet
  <2>3. bag[s] \in Nat /\ bag[t] \in Nat /\ bag[s] > 0
    BY <2>2 DEF Schema!IsContents, Schema!IsABag
  <2>4. Schema!Size(bag) \in Nat /\ bag[s] + bag[t] <= Schema!Size(bag)
    BY <2>1, <2>2, SchemaRows
  <2>. QED
    BY <2>2, <2>3, <2>4
<1>. QED
  BY <1>1 DEF Schema!ShapeOf

\* What the check of texts asks, and what that answers.
LEMMA SchemaTextQueries ==
    ASSUME NEW db, Schema!IsDatabase(db)
    PROVE  LET asked == Schema!Queries("structured-data-stored-as-text", db)
           IN  /\ \A i \in DOMAIN asked : \/ \E c \in Schema!TextColumns(db) : asked[i] = <<"sample", c>>
                                         \/ asked[i] \in {<<"varchar">>, <<"money">>}
               /\ \A c \in Schema!TextColumns(db) : \E i \in DOMAIN asked : asked[i] = <<"sample", c>>
<1>. DEFINE listed == {<<"sample", c>> : c \in Schema!TextColumns(db)}
            sampled == Schema!SetToSeq(listed)
            others == <<<<"varchar">>, <<"money">>>>
<1>1. Schema!Queries("structured-data-stored-as-text", db) = sampled \o others
  BY Zenon DEF Schema!Queries
<1>2. sampled \in Seq(listed) /\ \A x \in listed : \E i \in DOMAIN sampled : sampled[i] = x
  BY SchemaFinite, SchemaListed
<1>3. /\ \A c \in Schema!TextColumns(db) : <<"sample", c>> \in listed
      /\ \A x \in listed : \E c \in Schema!TextColumns(db) : x = <<"sample", c>>
  OBVIOUS
<1>. HIDE DEF listed, sampled
<1>4. /\ \A i \in DOMAIN (sampled \o others) : (sampled \o others)[i] \in listed \cup {<<"varchar">>, <<"money">>}
      /\ \A i \in DOMAIN sampled : i \in DOMAIN (sampled \o others) /\ (sampled \o others)[i] = sampled[i]
  BY <1>2
<1>. QED
  BY <1>1, <1>2, <1>3, <1>4

\* What the query of a sample can be answered.
LEMMA SchemaSampleAnswers ==
    ASSUME NEW slug, NEW c, NEW now
    PROVE  Schema!Answers(slug, <<"sample", c>>, now) = Schema!SampleText(c, now)
<1>1. <<"sample", c>>[1] = "sample" /\ <<"sample", c>>[2] = c
  OBVIOUS
<1>. QED
  BY <1>1, Zenon DEF Schema!Answers

\* What the two listings of types can be answered.
LEMMA SchemaTextAnswers ==
    ASSUME NEW slug, NEW now
    PROVE  /\ Schema!Answers(slug, <<"varchar">>, now) = {{<<"varchar", c>> : c \in Schema!VarcharWithoutLength(now)}}
           /\ Schema!Answers(slug, <<"money">>, now) = {{<<"money", c>> : c \in Schema!MoneyTypeUsage(now)}}
<1>1. \A name : <<name>>[1] = name
  OBVIOUS
<1>2. Schema!Answers(slug, <<"varchar">>, now) = {{<<"varchar", c>> : c \in Schema!VarcharWithoutLength(now)}}
  BY <1>1, Zenon DEF Schema!Answers
<1>3. Schema!Answers(slug, <<"money">>, now) = {{<<"money", c>> : c \in Schema!MoneyTypeUsage(now)}}
  BY <1>1, Zenon DEF Schema!Answers
<1>. QED
  BY <1>2, <1>3, Zenon

\* What is sampled of a text, if anything is: shapes of it, those it has when it fits.
LEMMA SchemaTextSampled ==
    ASSUME NEW then, NEW c \in Schema!TextColumns(then), NEW now, Schema!IsDatabase(now),
           NEW answer \in Schema!SampleText(c, now)
    PROVE  \/ answer = Raised /\ (c \notin Schema!TextColumns(now) \/ Schema!Unreadable(c, now))
           \/ /\ c \in Schema!TextColumns(now) /\ ~Schema!Unreadable(c, now)
              /\ \A f \in answer : \E s \in Schema!TextShapes : f = <<"shape", c, s>>
              /\ Schema!Size(now.values[c]) <= ShapeLimit => \A s \in Schema!TextShapes :
                    <<"shape", c, s>> \in answer <=> Schema!Shaped(c, s, now)
<1>1. Schema!Type(c) \in Schema!TextTypes
  BY DEF Schema!TextColumns
<1>2. CASE c \notin now.columns \/ Schema!Table(c) \in now.unreadable
  BY <1>1, <1>2 DEF Schema!SampleText, Schema!TextColumns, Schema!Unreadable
<1>3. CASE ~(c \notin now.columns \/ Schema!Table(c) \in now.unreadable)
  <2>1. c \in Schema!TextColumns(now) /\ ~Schema!Unreadable(c, now)
    BY <1>1, <1>3 DEF Schema!TextColumns, Schema!Unreadable
  <2>2. PICK sample \in Schema!Samples(now.values[c], ShapeLimit) : answer = {<<"shape", c, s>> : s \in Schema!ShapeOf(sample)}
    BY <1>3 DEF Schema!SampleText
  <2>3. \A s \in Schema!TextShapes : <<"shape", c, s>> \in answer <=> s \in Schema!ShapeOf(sample)
    BY <2>2
  <2>4. \A f \in answer : \E s \in Schema!TextShapes : f = <<"shape", c, s>>
    BY <2>2 DEF Schema!ShapeOf
  <2>5. ASSUME Schema!Size(now.values[c]) <= ShapeLimit PROVE sample = now.values[c]
    BY <2>2, <2>5 DEF Schema!Samples
  <2>6. Schema!IsContents(now.values[c])
    BY <2>1 DEF Schema!IsDatabase
  <2>. QED
    BY <2>1, <2>3, <2>4, <2>5, <2>6, SchemaShape DEF Schema!Shaped
<1>. QED
  BY <1>2, <1>3

\* What is not raised is of the findings there are.
LEMMA SchemaTextFindings ==
    ASSUME NEW then, Schema!IsDatabase(then), NEW now, Schema!IsDatabase(now),
           NEW i \in DOMAIN Schema!Queries("structured-data-stored-as-text", then),
           NEW answer \in Schema!Answers("structured-data-stored-as-text",
                                         Schema!Queries("structured-data-stored-as-text", then)[i], now)
    PROVE  /\ answer # Raised => answer \subseteq Schema!Findings
           /\ answer = Raised => \E c \in Schema!TextColumns(then) : c \notin Schema!TextColumns(now) \/ Schema!Unreadable(c, now)
<1>. DEFINE query == Schema!Queries("structured-data-stored-as-text", then)[i]
<1>1. (\E c \in Schema!TextColumns(then) : query = <<"sample", c>>) \/ query \in {<<"varchar">>, <<"money">>}
  BY SchemaTextQueries
<1>2. now.columns \subseteq Schema!Columns /\ then.columns \subseteq Schema!Columns
  BY DEF Schema!IsDatabase
<1>3. /\ \A c \in Schema!Columns, s \in Schema!TextShapes : <<"shape", c, s>> \in Schema!Findings
      /\ \A c \in Schema!Columns : <<"varchar", c>> \in Schema!Findings /\ <<"money", c>> \in Schema!Findings
  BY DEF Schema!Findings
<1>. HIDE DEF query
<1>4. answer \in Schema!Answers("structured-data-stored-as-text", query, now)
  BY DEF query
<1>5. ASSUME NEW c \in Schema!TextColumns(then), query = <<"sample", c>>
      PROVE  /\ answer # Raised => answer \subseteq Schema!Findings
             /\ answer = Raised => c \notin Schema!TextColumns(now) \/ Schema!Unreadable(c, now)
  <2>1. answer \in Schema!SampleText(c, now)
    <3>1. Schema!Answers("structured-data-stored-as-text", <<"sample", c>>, now) = Schema!SampleText(c, now)
      BY SchemaSampleAnswers, Zenon
    <3>. QED
      BY <1>4, <1>5, <3>1, Zenon
  <2>2. c \in Schema!Columns
    BY <1>2 DEF Schema!TextColumns
  <2>3. ASSUME \A f \in answer : \E s \in Schema!TextShapes : f = <<"shape", c, s>> PROVE answer \subseteq Schema!Findings
    BY <1>3, <2>2, <2>3
  <2>. QED
    BY <2>1, <2>3, SchemaTextSampled, SampledOutcomesAssumption
<1>6. CASE query = <<"varchar">>
  <2>1. answer = {<<"varchar", c>> : c \in Schema!VarcharWithoutLength(now)}
    BY <1>4, <1>6, SchemaTextAnswers
  <2>2. answer \subseteq Schema!Findings
    BY <1>2, <1>3, <2>1 DEF Schema!VarcharWithoutLength
  <2>. QED
    BY <2>2, SampledOutcomesAssumption
<1>7. CASE query = <<"money">>
  <2>1. answer = {<<"money", c>> : c \in Schema!MoneyTypeUsage(now)}
    BY <1>4, <1>7, SchemaTextAnswers
  <2>2. answer \subseteq Schema!Findings
    BY <1>2, <1>3, <2>1 DEF Schema!MoneyTypeUsage
  <2>. QED
    BY <2>2, SampledOutcomesAssumption
<1>. QED
  BY <1>1, <1>5, <1>6, <1>7

\* Shapes are told as they are, of whichever rows the samples are.
LEMMA SchemaShapes == ASSUME SchemaInv PROVE Schema!ShapesAreTrue
<1>. DEFINE slug == "structured-data-stored-as-text"
<1>1. /\ SchemaLoop!LoopInv /\ SchemaLoop!Listings /\ SchemaLoop!Distinct /\ slug \in SchemaLoop!Slugs
      /\ Schema!Moments = SchemaLoop!Moments /\ \A db \in Schema!Moments : Schema!IsDatabase(db)
      /\ Schema!Told(slug) <=> SchemaLoop!Told(slug)
  BY SchemaChecks, SchemaIsALoop, SchemaListings DEF SchemaInv
<1>2. ASSUME Schema!Told(slug), NEW c \in Schema!Columns
      PROVE  /\ \E db \in Schema!Moments : ~Schema!Unreadable(c, db)
             /\ \A s \in Schema!TextShapes :
                   /\ <<"shape", c, s>> \in found[slug] => \E db \in Schema!Moments :
                         /\ c \in Schema!TextColumns(db) /\ ~Schema!Unreadable(c, db)
                         /\ Schema!Size(db.values[c]) <= ShapeLimit => Schema!Shaped(c, s, db)
                   /\ (\A db \in Schema!Moments : /\ c \in Schema!TextColumns(db)
                            /\ Schema!Size(db.values[c]) <= ShapeLimit /\ Schema!Shaped(c, s, db))
                         => <<"shape", c, s>> \in found[slug]
  <2>1. PICK then \in Schema!Moments :
             /\ \A f \in found[slug] : \E i \in DOMAIN Schema!Queries(slug, then), now \in Schema!Moments :
                  \E answer \in Schema!Answers(slug, Schema!Queries(slug, then)[i], now) :
                      answer # Raised /\ f \in answer /\ answer \subseteq found[slug]
             /\ \A i \in DOMAIN Schema!Queries(slug, then) : \E now \in Schema!Moments :
                  \E answer \in Schema!Answers(slug, Schema!Queries(slug, then)[i], now) :
                      answer # Raised /\ answer \subseteq found[slug]
    BY <1>1, <1>2, SchemaLoop!ToldByQueries
  <2>. DEFINE asked == Schema!Queries(slug, then)
  <2>2. /\ \A i \in DOMAIN asked : (\E d \in Schema!TextColumns(then) : asked[i] = <<"sample", d>>)
                                   \/ asked[i] \in {<<"varchar">>, <<"money">>}
        /\ \A d \in Schema!TextColumns(then) : \E i \in DOMAIN asked : asked[i] = <<"sample", d>>
    BY <1>1, SchemaTextQueries
  <2>. HIDE DEF asked
  \* Of a column that was listed there is an answer.
  <2>3. ASSUME c \in Schema!TextColumns(then)
        PROVE  \E now \in Schema!Moments : \E answer \in Schema!SampleText(c, now) :
                  answer # Raised /\ answer \subseteq found[slug]
    <3>1. PICK i \in DOMAIN asked : asked[i] = <<"sample", c>>
      BY <2>2, <2>3
    <3>2. PICK now \in Schema!Moments : \E answer \in Schema!Answers(slug, asked[i], now) :
             answer # Raised /\ answer \subseteq found[slug]
      BY <2>1 DEF asked
    <3>3. Schema!Answers(slug, <<"sample", c>>, now) = Schema!SampleText(c, now)
      BY SchemaSampleAnswers, Zenon
    <3>. QED
      BY <3>1, <3>2, <3>3
  <2>4. \E db \in Schema!Moments : ~Schema!Unreadable(c, db)
    BY <1>1, <2>3, SchemaTextSampled DEF Schema!Unreadable
  <2>5. ASSUME NEW s \in Schema!TextShapes, <<"shape", c, s>> \in found[slug]
        PROVE  \E db \in Schema!Moments :
                  /\ c \in Schema!TextColumns(db) /\ ~Schema!Unreadable(c, db)
                  /\ Schema!Size(db.values[c]) <= ShapeLimit => Schema!Shaped(c, s, db)
    <3>1. PICK i \in DOMAIN asked, now \in Schema!Moments :
             \E answer \in Schema!Answers(slug, asked[i], now) : answer # Raised /\ <<"shape", c, s>> \in answer
      BY <2>1, <2>5 DEF asked
    <3>2. PICK answer \in Schema!Answers(slug, asked[i], now) : answer # Raised /\ <<"shape", c, s>> \in answer
      BY <3>1
    <3>3. asked[i] # <<"varchar">> /\ asked[i] # <<"money">>
      <4>1. ASSUME asked[i] = <<"varchar">> PROVE FALSE
        <5>1. answer = {<<"varchar", d>> : d \in Schema!VarcharWithoutLength(now)}
          BY <3>2, <4>1, SchemaTextAnswers
        <5>. QED
          BY <3>2, <5>1
      <4>2. ASSUME asked[i] = <<"money">> PROVE FALSE
        <5>1. answer = {<<"money", d>> : d \in Schema!MoneyTypeUsage(now)}
          BY <3>2, <4>2, SchemaTextAnswers
        <5>. QED
          BY <3>2, <5>1
      <4>. QED
        BY <4>1, <4>2
    <3>4. PICK d \in Schema!TextColumns(then) : asked[i] = <<"sample", d>>
      BY <2>2, <3>3
    <3>5. Schema!Answers(slug, <<"sample", d>>, now) = Schema!SampleText(d, now)
      BY SchemaSampleAnswers, Zenon
    <3>6. answer \in Schema!SampleText(d, now)
      BY <3>2, <3>4, <3>5, Zenon
    <3>7. /\ d \in Schema!TextColumns(now) /\ ~Schema!Unreadable(d, now)
          /\ \A f \in answer : \E r \in Schema!TextShapes : f = <<"shape", d, r>>
          /\ Schema!Size(now.values[d]) <= ShapeLimit => \A r \in Schema!TextShapes :
                    <<"shape", d, r>> \in answer <=> Schema!Shaped(d, r, now)
      BY <1>1, <3>2, <3>6, SchemaTextSampled
    <3>8. d = c
      BY <3>2, <3>7
    <3>. QED
      BY <3>2, <3>7, <3>8
  <2>6. ASSUME NEW s \in Schema!TextShapes,
               \A db \in Schema!Moments : /\ c \in Schema!TextColumns(db)
                     /\ Schema!Size(db.values[c]) <= ShapeLimit /\ Schema!Shaped(c, s, db)
        PROVE  <<"shape", c, s>> \in found[slug]
    <3>1. PICK now \in Schema!Moments : \E answer \in Schema!SampleText(c, now) : answer # Raised /\ answer \subseteq found[slug]
      BY <2>3, <2>6
    <3>2. PICK answer \in Schema!SampleText(c, now) : answer # Raised /\ answer \subseteq found[slug]
      BY <3>1
    <3>3. <<"shape", c, s>> \in answer
      BY <1>1, <2>6, <3>2, SchemaTextSampled
    <3>. QED
      BY <3>2, <3>3
  <2>. QED
    BY <2>4, <2>5, <2>6
<1>3. ASSUME found[slug] = Raised
      PROVE  \/ \E db \in Schema!Moments, c \in Schema!Columns : Schema!Unreadable(c, db)
             \/ \E b, d \in Schema!Moments : ~(Schema!TextColumns(b) \subseteq Schema!TextColumns(d))
  <2>1. SchemaLoop!Complete(slug) => found[slug] \subseteq Schema!Findings
    <3>1. \A then \in SchemaLoop!Moments : DOMAIN Schema!Queries(slug, then) = 1..Len(Schema!Queries(slug, then))
      BY <1>1 DEF SchemaLoop!Listings
    <3>2. \A then, now \in SchemaLoop!Moments : \A i \in 1..Len(Schema!Queries(slug, then)) :
              \A answer \in Schema!Answers(slug, Schema!Queries(slug, then)[i], now) :
                 answer # Raised => answer \subseteq Schema!Findings
      BY <1>1, <3>1, SchemaTextFindings
    <3>. QED
      BY <3>2, SchemaLoop!CompleteWithin
  <2>2. SchemaLoop!MayRaise(slug)
    BY <1>1, <1>3, <2>1, SampledOutcomesAssumption, OutcomesAssumption, SchemaLoop!EndedIsExplained DEF SchemaLoop!Explained
  <2>3. PICK then \in Schema!Moments, now \in Schema!Moments : \E i \in DOMAIN Schema!Queries(slug, then) :
          Raised \in Schema!Answers(slug, Schema!Queries(slug, then)[i], now)
    BY <1>1, <2>2 DEF SchemaLoop!MayRaise
  <2>4. PICK c \in Schema!TextColumns(then) : c \notin Schema!TextColumns(now) \/ Schema!Unreadable(c, now)
    BY <1>1, <2>3, SchemaTextFindings
  <2>5. c \in Schema!Columns
    BY <1>1 DEF Schema!TextColumns, Schema!IsDatabase
  <2>. QED
    BY <2>4, <2>5
<1>. QED
  BY <1>2, <1>3 DEF Schema!ShapesAreTrue

-----------------------------------------------------------------------------
(* JSONB Structure & Governance.                                           *)

\* The columns can be listed, once each.
LEMMA JsonbListed ==
    ASSUME NEW S, IsFiniteSet(S)
    PROVE  /\ Jsonb!SetToSeq(S) \in Seq(S)
           /\ \A x \in S : \E i \in DOMAIN Jsonb!SetToSeq(S) : Jsonb!SetToSeq(S)[i] = x
           /\ \A i, j \in DOMAIN Jsonb!SetToSeq(S) : Jsonb!SetToSeq(S)[i] = Jsonb!SetToSeq(S)[j] => i = j
<1>1. Jsonb!Cardinality(S) = Cardinality(S)
  BY DEF Jsonb!Cardinality, Cardinality, Jsonb!IsFiniteSet, IsFiniteSet
<1>2. PICK n \in Nat : n = Cardinality(S) /\ ExistsBijection(1..n, S)
  BY FS_CardinalityType
<1>3. \E f \in [1..n -> S] : Jsonb!IsInjective(f)
  BY <1>2 DEF ExistsBijection, Bijection, Injection, IsInjective, Jsonb!IsInjective
<1>4. Jsonb!SetToSeq(S) \in [1..n -> S] /\ Jsonb!IsInjective(Jsonb!SetToSeq(S))
  BY <1>1, <1>2, <1>3 DEF Jsonb!SetToSeq
<1>5. Jsonb!SetToSeq(S) \in Injection(1..n, S)
  BY <1>4 DEF Injection, IsInjective, Jsonb!IsInjective
<1>6. Cardinality(1..n) = n
  BY <1>2, FS_Interval
<1>7. Jsonb!SetToSeq(S) \in Surjection(1..n, S)
  BY <1>2, <1>5, <1>6, FS_Injection
<1>. QED
  BY <1>2, <1>4, <1>7 DEF Surjection, Jsonb!IsInjective

JsonbLoop == INSTANCE CategoryChecksProofs WITH
    Checks <- Jsonb!Checks, Applicable <- Jsonb!Applicable, Queries <- Jsonb!Queries, Answers <- Jsonb!Answers,
    Starts <- JsonbStarts, Changed <- Jsonb!Changed

JsonbInv == JsonbLoop!LoopInv /\ \A db \in JsonbLoop!Moments : Jsonb!IsDatabase(db)

\* The category's steps and words are those of the loop.
LEMMA JsonbIsALoop ==
    /\ Jsonb!Next => JsonbLoop!Next
    /\ Jsonb!Moments = JsonbLoop!Moments
    /\ \A slug : Jsonb!Told(slug) <=> JsonbLoop!Told(slug)
<1>1. Jsonb!Next => JsonbLoop!Next
  BY DEF Jsonb!Next, JsonbLoop!Next, Jsonb!AskApplicability, JsonbLoop!AskApplicability,
     Jsonb!BeginCheck, JsonbLoop!BeginCheck, Jsonb!RunQuery, JsonbLoop!RunQuery, Jsonb!ReturnFindings,
     JsonbLoop!ReturnFindings, Jsonb!Change, JsonbLoop!Change, Jsonb!EndCheck, JsonbLoop!EndCheck,
     Jsonb!Over, JsonbLoop!Over, Jsonb!vars, JsonbLoop!vars, Jsonb!Running, JsonbLoop!Running,
     Jsonb!Current, JsonbLoop!Current
<1>. QED
  BY <1>1 DEF Jsonb!Moments, JsonbLoop!Moments, Jsonb!Told, JsonbLoop!Told

\* Its checks are listed once each.
LEMMA JsonbChecks ==
    /\ JsonbLoop!Distinct
    /\ JsonbLoop!Slugs = {"key-naming-drift", "key-type-inconsistency", "missing-validation-layer", "orphaned-legacy-keys"}
<1>1. Jsonb!Checks \in Seq({"key-naming-drift", "key-type-inconsistency", "missing-validation-layer", "orphaned-legacy-keys"})
  BY DEF Jsonb!Checks
<1>2. \A i, j \in DOMAIN Jsonb!Checks : Jsonb!Checks[i] = Jsonb!Checks[j] => i = j
  BY DEF Jsonb!Checks
<1>3. DOMAIN Jsonb!Checks = {1, 2, 3, 4}
  BY DEF Jsonb!Checks
<1>4. JsonbLoop!Slugs = {Jsonb!Checks[i] : i \in DOMAIN Jsonb!Checks}
  BY DEF JsonbLoop!Slugs, JsonbLoop!Range
<1>5. JsonbLoop!Slugs = {"key-naming-drift", "key-type-inconsistency", "missing-validation-layer", "orphaned-legacy-keys"}
  BY <1>3, <1>4 DEF Jsonb!Checks
<1>. QED
  BY <1>1, <1>2, <1>5 DEF JsonbLoop!Distinct

\* The category counts as everyone does.
LEMMA JsonbFinite == \A S : Jsonb!IsFiniteSet(S) <=> IsFiniteSet(S)
  BY DEF Jsonb!IsFiniteSet, IsFiniteSet

LEMMA JsonbCounts == \A S : Jsonb!Cardinality(S) = Cardinality(S)
  BY DEF Jsonb!Cardinality, Cardinality, Jsonb!IsFiniteSet, IsFiniteSet

\* A check's queries are a sequence.
LEMMA JsonbListings == ASSUME \A db \in JsonbLoop!Moments : Jsonb!IsDatabase(db) PROVE JsonbLoop!Listings
<1>1. ASSUME NEW slug, NEW db, Jsonb!IsDatabase(db) PROVE \E Q : Jsonb!Queries(slug, db) \in Seq(Q)
  <2>1. Jsonb!SetToSeq(db.columns) \in Seq(db.columns)
    BY <1>1, JsonbFinite, JsonbListed DEF Jsonb!IsDatabase
  <2>2. <<slug>> \in Seq({slug})
    OBVIOUS
  <2>3. Jsonb!Queries(slug, db) \in {<<slug>>, Jsonb!SetToSeq(db.columns)}
    BY Zenon DEF Jsonb!Queries
  <2>. QED
    BY <2>1, <2>2, <2>3
<1>. QED
  BY <1>1 DEF JsonbLoop!Listings

\* The client's changes make a database of a database.
LEMMA JsonbDatabases == ASSUME NEW db, Jsonb!IsDatabase(db), NEW later \in Jsonb!Changed(db) PROVE Jsonb!IsDatabase(later)
<1>1. CASE later \in Jsonb!Write(db)
  <2>1. PICK c \in db.columns, documents \in Loads : later = [db EXCEPT !.values[c] = documents]
    BY <1>1 DEF Jsonb!Write
  <2>2. Jsonb!IsDocuments(documents)
    BY LoadsAssumption
  <2>3. /\ DOMAIN later = DOMAIN db /\ later.columns = db.columns
        /\ later.values = [db.values EXCEPT ![c] = documents]
    BY <2>1 DEF Jsonb!IsDatabase
  <2>4. \A d \in db.columns : later.values[d] = IF d = c THEN documents ELSE db.values[d]
    BY <2>3 DEF Jsonb!IsDatabase
  <2>. QED
    BY <2>2, <2>3, <2>4 DEF Jsonb!IsDatabase
<1>2. CASE later \in Jsonb!DropColumn(db)
  <2>1. PICK c \in db.columns : later = [db EXCEPT !.columns = @ \ {c}, !.checks = @ \ {c}]
    BY <1>2 DEF Jsonb!DropColumn
  <2>2. /\ DOMAIN later = DOMAIN db /\ later.columns = db.columns \ {c} /\ later.values = db.values
    BY <2>1 DEF Jsonb!IsDatabase
  <2>3. IsFiniteSet(db.columns \ {c})
    BY JsonbFinite, FS_Subset DEF Jsonb!IsDatabase
  <2>. QED
    BY <2>2, <2>3, JsonbFinite DEF Jsonb!IsDatabase
<1>3. CASE later \in Jsonb!AddCheck(db)
  <2>1. PICK c \in db.columns : later = [db EXCEPT !.checks = @ \cup {c}]
    BY <1>3 DEF Jsonb!AddCheck
  <2>. QED
    BY <2>1 DEF Jsonb!IsDatabase
<1>4. CASE later \in Jsonb!AddTrigger(db)
  <2>1. PICK t : later = [db EXCEPT !.triggers = @ \cup {t}]
    BY <1>4 DEF Jsonb!AddTrigger
  <2>. QED
    BY <2>1 DEF Jsonb!IsDatabase
<1>. QED
  BY <1>1, <1>2, <1>3, <1>4 DEF Jsonb!Changed

\* The category's part of the invariant holds at first, and is kept.
LEMMA JsonbInit == ASSUME Jsonb!Init PROVE JsonbInv
<1>2. JsonbLoop!Init
  BY DEF Jsonb!Init, JsonbLoop!Init, Jsonb!Slugs, JsonbLoop!Slugs, Jsonb!Range, JsonbLoop!Range
<1>. QED
  BY <1>2, JsonbChecks, JsonbLoop!LoopInit, CatalogStartsAssumption DEF JsonbInv, JsonbLoop!Init, JsonbLoop!Moments

\* The loop's lemma, the listings and the databases give the step.
LEMMA JsonbStep == ASSUME JsonbInv, [Jsonb!Next]_<<machine, found, changes>> PROVE JsonbInv'
<1>1. [JsonbLoop!Next]_(JsonbLoop!vars)
  BY JsonbIsALoop DEF machine, JsonbLoop!vars
<1>2. JsonbLoop!LoopInv /\ \A db \in JsonbLoop!Moments : Jsonb!IsDatabase(db)
  BY <1>1 DEF JsonbInv
<1>3. JsonbLoop!LoopInv'
  BY <1>1, <1>2, JsonbLoop!LoopStep, JsonbChecks, JsonbListings, OutcomesAssumption
<1>4. database \in JsonbLoop!Moments
  BY DEF JsonbLoop!Moments
<1>5. JsonbLoop!Moments' \subseteq JsonbLoop!Moments \cup Jsonb!Changed(database)
  BY <1>1, JsonbLoop!MomentsGrow
<1>. QED
  BY <1>2, <1>3, <1>4, <1>5, JsonbDatabases DEF JsonbInv

\* A sample holds documents of the column, all of them where it is large enough.
LEMMA JsonbSamples ==
    ASSUME NEW bag, NEW sample \in Jsonb!Samples(bag, JsonbLimit)
    PROVE  /\ DOMAIN sample \subseteq DOMAIN bag
           /\ Jsonb!Size(bag) <= JsonbLimit => sample = bag
<1>1. CASE Jsonb!Size(bag) <= JsonbLimit
  BY <1>1 DEF Jsonb!Samples
<1>2. CASE ~(Jsonb!Size(bag) <= JsonbLimit)
  <2>1. PICK skipped : sample = Jsonb!Without(bag, skipped)
    BY <1>2 DEF Jsonb!Samples
  <2>. QED
    BY <1>2, <2>1 DEF Jsonb!Without, Jsonb!BagToSet
<1>. QED
  BY <1>1, <1>2

\* What is read of a sample was in the column, and all of it where the sample
\* is the column.
LEMMA JsonbReadings ==
    ASSUME NEW db, Jsonb!IsDatabase(db), NEW c \in db.columns, NEW sample \in Jsonb!Samples(db.values[c], JsonbLimit)
    PROVE  /\ Jsonb!HasNonObject(sample) => Jsonb!Failing(c, db)
           /\ Jsonb!Within(c, db) /\ Jsonb!Failing(c, db) => Jsonb!HasNonObject(sample)
           /\ \A x : <<"variants", c, x>> \in Jsonb!NamingVariants(c, sample) => Jsonb!VariantsIn(c, x, db)
           /\ \A x : Jsonb!Within(c, db) /\ Jsonb!VariantsIn(c, x, db) => <<"variants", c, x>> \in Jsonb!NamingVariants(c, sample)
           /\ \A k : <<"types", c, k>> \in Jsonb!KeyTypeInconsistencies(c, sample) => Jsonb!TypesIn(c, k, db)
           /\ \A k : Jsonb!Within(c, db) /\ Jsonb!TypesIn(c, k, db) => <<"types", c, k>> \in Jsonb!KeyTypeInconsistencies(c, sample)
           /\ Jsonb!Within(c, db) => Jsonb!RareKeys(c, sample) = Jsonb!RareKeys(c, db.values[c])
<1>. DEFINE bag == db.values[c]
<1>1. Jsonb!IsDocuments(bag) /\ DOMAIN sample \subseteq DOMAIN bag /\ (Jsonb!Within(c, db) => sample = bag)
  BY JsonbSamples DEF Jsonb!IsDatabase, Jsonb!Within
<1>2. /\ IsFiniteSet(DOMAIN bag) /\ IsFiniteSet(DOMAIN sample)
      /\ Jsonb!Documents(sample) \subseteq Jsonb!Documents(bag) /\ Jsonb!Keys(sample) \subseteq Jsonb!Keys(bag)
      /\ Jsonb!Keys(bag) \subseteq DOMAIN Concept /\ IsFiniteSet(DOMAIN Concept)
      /\ Jsonb!Documents(sample) \subseteq DOMAIN sample
  <2>1. IsFiniteSet(DOMAIN bag) /\ Jsonb!Keys(bag) \subseteq DOMAIN Concept /\ IsFiniteSet(DOMAIN Concept)
    BY <1>1, LoadsAssumption, JsonbFinite DEF Jsonb!IsDocuments, Jsonb!IsContents, Jsonb!BagToSet
  <2>2. IsFiniteSet(DOMAIN sample)
    BY <1>1, <2>1, FS_Subset
  <2>3. Jsonb!Documents(sample) \subseteq Jsonb!Documents(bag) /\ Jsonb!Documents(sample) \subseteq DOMAIN sample
    BY <1>1 DEF Jsonb!Documents, Jsonb!BagToSet
  <2>4. Jsonb!Keys(sample) \subseteq Jsonb!Keys(bag)
    BY <2>3 DEF Jsonb!Keys
  <2>. QED
    BY <2>1, <2>2, <2>3, <2>4
<1>. HIDE DEF bag
<1>3. /\ Jsonb!HasNonObject(sample) => Jsonb!Failing(c, db)
      /\ Jsonb!Within(c, db) /\ Jsonb!Failing(c, db) => Jsonb!HasNonObject(sample)
  BY <1>1 DEF Jsonb!HasNonObject, Jsonb!Failing, Jsonb!BagIn, Jsonb!BagToSet, bag
<1>4. ASSUME NEW x, <<"variants", c, x>> \in Jsonb!NamingVariants(c, sample) PROVE Jsonb!VariantsIn(c, x, db)
  <2>. DEFINE spelt == {k \in Jsonb!Keys(sample) : Concept[k] = x}
              all == {k \in Jsonb!Keys(bag) : Concept[k] = x}
  <2>1. Cardinality(spelt) > 1
    BY <1>4, JsonbCounts DEF Jsonb!NamingVariants
  <2>2. IsFiniteSet(DOMAIN Concept) /\ spelt \subseteq all /\ all \subseteq DOMAIN Concept
    BY <1>2
  <2>. HIDE DEF spelt, all
  <2>3. IsFiniteSet(all)
    BY <2>2, FS_Subset
  <2>4. PICK a, b \in spelt : a # b
    BY <2>1, <2>2, <2>3, MoreInTheWhole
  <2>5. Cardinality(all) > 1
    BY <2>2, <2>3, <2>4, TwoAreMore
  <2>. QED
    BY <2>5, JsonbCounts DEF Jsonb!VariantsIn, all, bag
<1>5. ASSUME NEW x, Jsonb!Within(c, db), Jsonb!VariantsIn(c, x, db)
      PROVE  <<"variants", c, x>> \in Jsonb!NamingVariants(c, sample)
  <2>1. sample = bag
    BY <1>1, <1>5
  <2>. DEFINE all == {k \in Jsonb!Keys(bag) : Concept[k] = x}
  <2>2. Jsonb!Cardinality(all) > 1
    BY <1>5 DEF Jsonb!VariantsIn, bag
  <2>3. IsFiniteSet(DOMAIN Concept) /\ all \subseteq DOMAIN Concept
    BY <1>2
  <2>. HIDE DEF all
  <2>4. PICK k : k \in all
    BY <2>2, <2>3, JsonbCounts, MoreInTheWhole
  <2>5. k \in Jsonb!Keys(bag) /\ Concept[k] = x
    BY <2>4 DEF all
  <2>. QED
    BY <2>1, <2>2, <2>5 DEF Jsonb!NamingVariants, all
<1>6. ASSUME NEW k, <<"types", c, k>> \in Jsonb!KeyTypeInconsistencies(c, sample) PROVE Jsonb!TypesIn(c, k, db)
  <2>. DEFINE having == {e \in Jsonb!Documents(sample) : k \in DOMAIN e}
              typed == [d \in having |-> d[k]]
  <2>1. Cardinality(Jsonb!TypesOf(k, sample)) > 1
    BY <1>6, JsonbCounts DEF Jsonb!KeyTypeInconsistencies
  <2>2. typed \in Surjection(having, Jsonb!TypesOf(k, sample))
    BY DEF Surjection, Jsonb!TypesOf
  <2>3. IsFiniteSet(having)
    BY <1>2, FS_Subset
  <2>4. IsFiniteSet(Jsonb!TypesOf(k, sample))
    BY <2>2, <2>3, FS_Surjection
  <2>5. PICK s, t \in Jsonb!TypesOf(k, sample) : s # t
    BY <2>1, <2>4, MoreInTheWhole
  <2>6. PICK d, e \in having : d[k] # e[k]
    BY <2>5 DEF Jsonb!TypesOf
  <2>. QED
    BY <1>2, <2>6 DEF Jsonb!TypesIn, bag
<1>7. ASSUME NEW k, Jsonb!Within(c, db), Jsonb!TypesIn(c, k, db)
      PROVE  <<"types", c, k>> \in Jsonb!KeyTypeInconsistencies(c, sample)
  <2>. DEFINE having == {e \in Jsonb!Documents(sample) : k \in DOMAIN e}
              typed == [d \in having |-> d[k]]
  <2>1. PICK d, e \in Jsonb!Documents(sample) : k \in DOMAIN d \cap DOMAIN e /\ d[k] # e[k]
    BY <1>1, <1>7 DEF Jsonb!TypesIn, bag
  <2>2. typed \in Surjection(having, Jsonb!TypesOf(k, sample))
    BY DEF Surjection, Jsonb!TypesOf
  <2>3. IsFiniteSet(having)
    BY <1>2, FS_Subset
  <2>4. IsFiniteSet(Jsonb!TypesOf(k, sample))
    BY <2>2, <2>3, FS_Surjection
  <2>5. d[k] \in Jsonb!TypesOf(k, sample) /\ e[k] \in Jsonb!TypesOf(k, sample)
    BY <2>1 DEF Jsonb!TypesOf
  <2>6. Cardinality(Jsonb!TypesOf(k, sample)) > 1
    BY <2>1, <2>4, <2>5, TwoAreMore
  <2>7. k \in Jsonb!Keys(sample)
    BY <2>1 DEF Jsonb!Keys
  <2>. QED
    BY <2>6, <2>7, JsonbCounts DEF Jsonb!KeyTypeInconsistencies
<1>8. Jsonb!Within(c, db) => Jsonb!RareKeys(c, sample) = Jsonb!RareKeys(c, db.values[c])
  BY <1>1 DEF bag
<1>. QED
  BY <1>3, <1>4, <1>5, <1>6, <1>7, <1>8

\* What a sampling check's query of a column answers.
LEMMA JsonbAnswers ==
    ASSUME NEW slug \in Jsonb!Sampling, NEW c, NEW now, NEW answer \in Jsonb!Answers(slug, c, now)
    PROVE  \/ c \notin now.columns /\ answer = Raised
           \/ /\ c \in now.columns
              /\ \E sample \in Jsonb!Samples(now.values[c], JsonbLimit) :
                    answer = IF Jsonb!HasNonObject(sample) THEN Raised ELSE Jsonb!Reading(slug, c, sample)
<1>1. slug # "missing-validation-layer"
  BY DEF Jsonb!Sampling
<1>. QED
  BY <1>1 DEF Jsonb!Answers

\* What each of them reads, and that it is no exception.
LEMMA JsonbReads ==
    ASSUME NEW db, Jsonb!IsDatabase(db), NEW c \in db.columns, NEW sample \in Jsonb!Samples(db.values[c], JsonbLimit)
    PROVE  /\ Jsonb!Reading("key-naming-drift", c, sample) = Jsonb!NamingVariants(c, sample)
           /\ Jsonb!Reading("key-type-inconsistency", c, sample) = Jsonb!KeyTypeInconsistencies(c, sample)
           /\ Jsonb!Reading("orphaned-legacy-keys", c, sample) = Jsonb!RareKeys(c, sample)
           /\ \A slug \in Jsonb!Sampling : /\ Jsonb!Reading(slug, c, sample) \subseteq Jsonb!Findings
                                           /\ \A f \in Jsonb!Reading(slug, c, sample) : f[2] = c
<1>1. /\ Jsonb!Reading("key-naming-drift", c, sample) = Jsonb!NamingVariants(c, sample)
      /\ Jsonb!Reading("key-type-inconsistency", c, sample) = Jsonb!KeyTypeInconsistencies(c, sample)
      /\ Jsonb!Reading("orphaned-legacy-keys", c, sample) = Jsonb!RareKeys(c, sample)
  BY Zenon DEF Jsonb!Reading
<1>0. c \in Jsonb!Columns /\ Jsonb!Keys(sample) \subseteq DOMAIN Concept
  BY JsonbSamples DEF Jsonb!IsDatabase, Jsonb!IsDocuments, Jsonb!Keys, Jsonb!Documents, Jsonb!BagToSet
<1>. DEFINE words == DOMAIN Concept \cup {Concept[k] : k \in DOMAIN Concept}
<1>2. ASSUME NEW f \in Jsonb!NamingVariants(c, sample) PROVE \E x \in words : f = <<"variants", c, x>>
  BY <1>0, <1>2 DEF Jsonb!NamingVariants
<1>3. ASSUME NEW f \in Jsonb!KeyTypeInconsistencies(c, sample) PROVE \E x \in words : f = <<"types", c, x>>
  BY <1>0, <1>3 DEF Jsonb!KeyTypeInconsistencies
<1>4. ASSUME NEW f \in Jsonb!RareKeys(c, sample) PROVE \E x \in words : f = <<"rare", c, x>>
  BY <1>0, <1>4 DEF Jsonb!RareKeys
<1>5. Jsonb!Findings = {"variants", "types", "rare"} \X Jsonb!Columns \X words
  BY DEF Jsonb!Findings
<1>. HIDE DEF words
<1>6. ASSUME NEW slug \in Jsonb!Sampling, NEW f \in Jsonb!Reading(slug, c, sample) PROVE f \in Jsonb!Findings /\ f[2] = c
  <2>1. \E x \in words, kind \in {"variants", "types", "rare"} : f = <<kind, c, x>>
    BY <1>1, <1>2, <1>3, <1>4, <1>6 DEF Jsonb!Sampling
  <2>. QED
    BY <1>0, <1>5, <2>1
<1>. QED
  BY <1>1, <1>6

\* What a sampling check tells of a column it listed is what it read of a sample of it.
LEMMA JsonbTold ==
    ASSUME JsonbInv, NEW slug \in Jsonb!Sampling, Jsonb!Told(slug)
    PROVE  \E then \in Jsonb!Moments :
              /\ \A f \in found[slug] : f[2] \in then.columns
              /\ \A c \in then.columns : \E now \in Jsonb!Moments :
                    /\ c \in now.columns
                    /\ \E sample \in Jsonb!Samples(now.values[c], JsonbLimit) :
                          ~Jsonb!HasNonObject(sample) /\ {f \in found[slug] : f[2] = c} = Jsonb!Reading(slug, c, sample)
<1>1. /\ JsonbLoop!LoopInv /\ JsonbLoop!Distinct /\ slug \in JsonbLoop!Slugs /\ JsonbLoop!Told(slug)
      /\ Jsonb!Moments = JsonbLoop!Moments /\ \A db \in Jsonb!Moments : Jsonb!IsDatabase(db)
  BY JsonbChecks, JsonbIsALoop DEF JsonbInv, Jsonb!Sampling
<1>2. PICK then \in Jsonb!Moments :
        JsonbLoop!Gathered(slug, Jsonb!Queries(slug, then), Len(Jsonb!Queries(slug, then)), found[slug], Jsonb!Moments)
  BY <1>1, JsonbLoop!EndedIsExplained DEF JsonbLoop!Told, JsonbLoop!Explained, JsonbLoop!Complete
<1>. DEFINE asked == Jsonb!SetToSeq(then.columns)
<1>3. Jsonb!Queries(slug, then) = asked
  BY Zenon DEF Jsonb!Queries, Jsonb!Sampling
<1>4. IsFiniteSet(then.columns)
  BY <1>1, JsonbFinite DEF Jsonb!IsDatabase
<1>5. /\ asked \in Seq(then.columns)
      /\ \A c \in then.columns : \E i \in DOMAIN asked : asked[i] = c
      /\ \A i, j \in DOMAIN asked : asked[i] = asked[j] => i = j
  BY <1>4, JsonbListed
<1>6. PICK answer \in [1..Len(asked) -> SUBSET found[slug]] :
        /\ found[slug] = UNION {answer[i] : i \in 1..Len(asked)}
        /\ \A i \in 1..Len(asked) :
              answer[i] # Raised /\ \E now \in Jsonb!Moments : answer[i] \in Jsonb!Answers(slug, asked[i], now)
  BY <1>2, <1>3 DEF JsonbLoop!Gathered
<1>. HIDE DEF asked
<1>. DEFINE place(c) == CHOOSE i \in DOMAIN asked : asked[i] = c
            reading == [c \in then.columns |-> answer[place(c)]]
<1>7. DOMAIN asked = 1..Len(asked) /\ \A i \in DOMAIN asked : asked[i] \in then.columns
  BY <1>5
<1>8. \A c \in then.columns : place(c) \in DOMAIN asked /\ asked[place(c)] = c
  BY <1>5
<1>9. \A i \in DOMAIN asked : place(asked[i]) = i
  BY <1>5, <1>7, <1>8
<1>. HIDE DEF place
<1>10. found[slug] = UNION {reading[c] : c \in then.columns}
  <2>1. \A i \in DOMAIN asked : asked[i] \in then.columns /\ reading[asked[i]] = answer[i]
    BY <1>7, <1>9
  <2>2. \A c \in then.columns : place(c) \in DOMAIN asked /\ reading[c] = answer[place(c)]
    BY <1>8
  <2>. HIDE DEF reading
  <2>3. ASSUME NEW f \in found[slug] PROVE \E c \in then.columns : f \in reading[c]
    BY <1>6, <1>7, <2>1, <2>3
  <2>4. ASSUME NEW c \in then.columns, NEW f \in reading[c] PROVE f \in found[slug]
    BY <1>6, <1>7, <2>2, <2>4
  <2>. QED
    BY <2>3, <2>4
<1>11. ASSUME NEW c \in then.columns
       PROVE  \E now \in Jsonb!Moments : /\ c \in now.columns
                 /\ \E sample \in Jsonb!Samples(now.values[c], JsonbLimit) :
                       ~Jsonb!HasNonObject(sample) /\ reading[c] = Jsonb!Reading(slug, c, sample)
  <2>1. reading[c] = answer[place(c)] /\ place(c) \in 1..Len(asked) /\ asked[place(c)] = c
    BY <1>7, <1>8
  <2>2. reading[c] # Raised
    BY <1>6, <2>1
  <2>3. PICK now \in Jsonb!Moments : reading[c] \in Jsonb!Answers(slug, c, now)
    BY <1>6, <2>1
  <2>. HIDE DEF reading
  <2>. QED
    BY <2>2, <2>3, JsonbAnswers
<1>. HIDE DEF reading
<1>12. ASSUME NEW c \in then.columns, NEW f \in reading[c] PROVE f[2] = c
  <2>1. PICK now \in Jsonb!Moments : /\ c \in now.columns
                 /\ \E sample \in Jsonb!Samples(now.values[c], JsonbLimit) : reading[c] = Jsonb!Reading(slug, c, sample)
    BY <1>11
  <2>2. PICK sample \in Jsonb!Samples(now.values[c], JsonbLimit) : reading[c] = Jsonb!Reading(slug, c, sample)
    BY <2>1
  <2>3. f \in Jsonb!Reading(slug, c, sample) /\ Jsonb!IsDatabase(now)
    BY <1>1, <1>12, <2>2
  <2>. QED
    BY <2>1, <2>3, JsonbReads
<1>13. \A c \in then.columns : {f \in found[slug] : f[2] = c} = reading[c]
  BY <1>10, <1>12
<1>14. \A f \in found[slug] : f[2] \in then.columns
  BY <1>10, <1>12
<1>. QED
  BY <1>11, <1>13, <1>14

\* A sampling check that raised met a document that is no object, or a column
\* that was gone.
LEMMA JsonbRaised ==
    ASSUME JsonbInv, NEW slug \in Jsonb!Sampling, found[slug] = Raised
    PROVE  \/ \E db \in Jsonb!Moments, c \in Jsonb!Columns : Jsonb!Failing(c, db)
           \/ \E b, d \in Jsonb!Moments : ~(b.columns \subseteq d.columns)
<1>1. /\ JsonbLoop!LoopInv /\ JsonbLoop!Listings /\ JsonbLoop!Distinct /\ slug \in JsonbLoop!Slugs /\ found[slug] # Pending
      /\ Jsonb!Moments = JsonbLoop!Moments /\ \A db \in Jsonb!Moments : Jsonb!IsDatabase(db)
  BY JsonbChecks, JsonbIsALoop, JsonbListings, OutcomesAssumption DEF JsonbInv, Jsonb!Sampling
<1>2. ASSUME NEW c, NEW now \in Jsonb!Moments, NEW answer \in Jsonb!Answers(slug, c, now)
      PROVE  answer # Raised => answer \subseteq Jsonb!Findings
  BY <1>1, <1>2, JsonbAnswers, JsonbReads
<1>3. ASSUME NEW then \in Jsonb!Moments, NEW i \in DOMAIN Jsonb!Queries(slug, then)
      PROVE  Jsonb!Queries(slug, then)[i] \in then.columns /\ then.columns \subseteq Jsonb!Columns
  <2>1. Jsonb!Queries(slug, then) = Jsonb!SetToSeq(then.columns)
    BY Zenon DEF Jsonb!Queries, Jsonb!Sampling
  <2>2. IsFiniteSet(then.columns) /\ then.columns \subseteq Jsonb!Columns
    BY <1>1, JsonbFinite DEF Jsonb!IsDatabase
  <2>. QED
    BY <1>3, <2>1, <2>2, JsonbListed
<1>4. JsonbLoop!Complete(slug) => found[slug] \subseteq Jsonb!Findings
  BY <1>1, <1>2, JsonbLoop!CompleteWithin
<1>5. JsonbLoop!MayRaise(slug)
  BY <1>1, <1>4, SampledOutcomesAssumption, JsonbLoop!EndedIsExplained DEF JsonbLoop!Explained
<1>6. PICK then \in Jsonb!Moments, now \in Jsonb!Moments : \E i \in DOMAIN Jsonb!Queries(slug, then) :
        Raised \in Jsonb!Answers(slug, Jsonb!Queries(slug, then)[i], now)
  BY <1>1, <1>5 DEF JsonbLoop!MayRaise
<1>7. PICK c \in then.columns : c \in Jsonb!Columns /\ Raised \in Jsonb!Answers(slug, c, now)
  BY <1>3, <1>6
<1>8. CASE c \notin now.columns
  BY <1>7, <1>8
<1>9. CASE c \in now.columns
  <2>1. PICK sample \in Jsonb!Samples(now.values[c], JsonbLimit) :
           Raised = IF Jsonb!HasNonObject(sample) THEN Raised ELSE Jsonb!Reading(slug, c, sample)
    BY <1>7, <1>9, JsonbAnswers
  <2>2. Jsonb!Reading(slug, c, sample) # Raised
    BY <1>1, <1>9, <2>1, JsonbReads, SampledOutcomesAssumption
  <2>. QED
    BY <1>1, <1>7, <1>9, <2>1, <2>2, JsonbReadings
<1>. QED
  BY <1>8, <1>9

\* What is said of a sample is so of the column, and what is lost is lost to it.
LEMMA JsonbSampled == ASSUME JsonbInv PROVE Jsonb!SampledFindingsAreTrue
<1>1. \A db \in Jsonb!Moments : Jsonb!IsDatabase(db)
  BY JsonbIsALoop DEF JsonbInv
<1>2. ASSUME NEW slug \in Jsonb!Sampling, Jsonb!Told(slug)
      PROVE  \E then \in Jsonb!Moments :
                /\ \A f \in found[slug] : f[2] \in then.columns
                /\ \A c \in then.columns : \E now \in Jsonb!Moments :
                      /\ c \in now.columns /\ Jsonb!IsDatabase(now)
                      /\ \E sample \in Jsonb!Samples(now.values[c], JsonbLimit) :
                            ~Jsonb!HasNonObject(sample) /\ {f \in found[slug] : f[2] = c} = Jsonb!Reading(slug, c, sample)
  BY <1>1, <1>2, JsonbTold
<1>3. /\ "key-naming-drift" \in Jsonb!Sampling /\ "key-type-inconsistency" \in Jsonb!Sampling
      /\ "orphaned-legacy-keys" \in Jsonb!Sampling
  BY DEF Jsonb!Sampling
<1>4. ASSUME NEW c \in Jsonb!Columns, Jsonb!Told("key-naming-drift"), NEW x
      PROVE  /\ <<"variants", c, x>> \in found["key-naming-drift"] => \E db \in Jsonb!Moments : Jsonb!VariantsIn(c, x, db)
             /\ (\A db \in Jsonb!Moments : Jsonb!VariantsIn(c, x, db) /\ Jsonb!Within(c, db)) =>
                   <<"variants", c, x>> \in found["key-naming-drift"]
  <2>. DEFINE of(d) == {f \in found["key-naming-drift"] : f[2] = d}
  <2>1. PICK then \in Jsonb!Moments :
                /\ \A f \in found["key-naming-drift"] : f[2] \in then.columns
                /\ \A d \in then.columns : \E now \in Jsonb!Moments :
                      /\ d \in now.columns /\ Jsonb!IsDatabase(now)
                      /\ \E sample \in Jsonb!Samples(now.values[d], JsonbLimit) :
                            of(d) = Jsonb!Reading("key-naming-drift", d, sample)
    BY <1>2, <1>3, <1>4
  <2>2. <<"variants", c, x>> \in found["key-naming-drift"] <=> <<"variants", c, x>> \in of(c)
    OBVIOUS
  <2>3. <<"variants", c, x>> \in found["key-naming-drift"] => c \in then.columns
    BY <2>1
  <2>. HIDE DEF of
  <2>4. ASSUME c \in then.columns
        PROVE  /\ <<"variants", c, x>> \in of(c) => \E db \in Jsonb!Moments : Jsonb!VariantsIn(c, x, db)
               /\ (\A db \in Jsonb!Moments : Jsonb!VariantsIn(c, x, db) /\ Jsonb!Within(c, db)) => <<"variants", c, x>> \in of(c)
    <3>1. PICK now \in Jsonb!Moments : /\ c \in now.columns /\ Jsonb!IsDatabase(now)
                      /\ \E sample \in Jsonb!Samples(now.values[c], JsonbLimit) :
                            of(c) = Jsonb!Reading("key-naming-drift", c, sample)
      BY <2>1, <2>4
    <3>2. PICK sample \in Jsonb!Samples(now.values[c], JsonbLimit) : of(c) = Jsonb!NamingVariants(c, sample)
      BY <3>1, JsonbReads
    <3>. QED
      BY <3>1, <3>2, JsonbReadings
  <2>5. (\A db \in Jsonb!Moments : Jsonb!VariantsIn(c, x, db) /\ Jsonb!Within(c, db)) => c \in then.columns
    BY DEF Jsonb!VariantsIn
  <2>. QED
    BY <2>2, <2>3, <2>4, <2>5
<1>5. ASSUME NEW c \in Jsonb!Columns, Jsonb!Told("key-type-inconsistency"), NEW k
      PROVE  /\ <<"types", c, k>> \in found["key-type-inconsistency"] => \E db \in Jsonb!Moments : Jsonb!TypesIn(c, k, db)
             /\ (\A db \in Jsonb!Moments : Jsonb!TypesIn(c, k, db) /\ Jsonb!Within(c, db)) =>
                   <<"types", c, k>> \in found["key-type-inconsistency"]
  <2>. DEFINE of(d) == {f \in found["key-type-inconsistency"] : f[2] = d}
  <2>1. PICK then \in Jsonb!Moments :
                /\ \A f \in found["key-type-inconsistency"] : f[2] \in then.columns
                /\ \A d \in then.columns : \E now \in Jsonb!Moments :
                      /\ d \in now.columns /\ Jsonb!IsDatabase(now)
                      /\ \E sample \in Jsonb!Samples(now.values[d], JsonbLimit) :
                            of(d) = Jsonb!Reading("key-type-inconsistency", d, sample)
    BY <1>2, <1>3, <1>5
  <2>2. <<"types", c, k>> \in found["key-type-inconsistency"] <=> <<"types", c, k>> \in of(c)
    OBVIOUS
  <2>3. <<"types", c, k>> \in found["key-type-inconsistency"] => c \in then.columns
    BY <2>1
  <2>. HIDE DEF of
  <2>4. ASSUME c \in then.columns
        PROVE  /\ <<"types", c, k>> \in of(c) => \E db \in Jsonb!Moments : Jsonb!TypesIn(c, k, db)
               /\ (\A db \in Jsonb!Moments : Jsonb!TypesIn(c, k, db) /\ Jsonb!Within(c, db)) => <<"types", c, k>> \in of(c)
    <3>1. PICK now \in Jsonb!Moments : /\ c \in now.columns /\ Jsonb!IsDatabase(now)
                      /\ \E sample \in Jsonb!Samples(now.values[c], JsonbLimit) :
                            of(c) = Jsonb!Reading("key-type-inconsistency", c, sample)
      BY <2>1, <2>4
    <3>2. PICK sample \in Jsonb!Samples(now.values[c], JsonbLimit) : of(c) = Jsonb!KeyTypeInconsistencies(c, sample)
      BY <3>1, JsonbReads
    <3>. QED
      BY <3>1, <3>2, JsonbReadings
  <2>5. (\A db \in Jsonb!Moments : Jsonb!TypesIn(c, k, db) /\ Jsonb!Within(c, db)) => c \in then.columns
    BY DEF Jsonb!TypesIn
  <2>. QED
    BY <2>2, <2>3, <2>4, <2>5
<1>6. ASSUME NEW c \in Jsonb!Columns, Jsonb!Told("orphaned-legacy-keys"),
             \A db \in Jsonb!Moments : c \in db.columns /\ Jsonb!Within(c, db)
      PROVE  \E db \in Jsonb!Moments :
                Jsonb!RareKeys(c, db.values[c]) = {f \in found["orphaned-legacy-keys"] : f[2] = c}
  <2>1. PICK now \in Jsonb!Moments : /\ c \in now.columns /\ Jsonb!IsDatabase(now)
            /\ \E sample \in Jsonb!Samples(now.values[c], JsonbLimit) :
                   {f \in found["orphaned-legacy-keys"] : f[2] = c} = Jsonb!Reading("orphaned-legacy-keys", c, sample)
    BY <1>2, <1>3, <1>6
  <2>2. PICK sample \in Jsonb!Samples(now.values[c], JsonbLimit) :
            {f \in found["orphaned-legacy-keys"] : f[2] = c} = Jsonb!RareKeys(c, sample)
    BY <2>1, JsonbReads
  <2>. QED
    BY <1>6, <2>1, <2>2, JsonbReadings
<1>7. ASSUME NEW slug \in Jsonb!Sampling, Jsonb!Told(slug), NEW c \in Jsonb!Columns,
             \A db \in Jsonb!Moments : Jsonb!Failing(c, db) /\ Jsonb!Within(c, db)
      PROVE  FALSE
  <2>1. \A db \in Jsonb!Moments : c \in db.columns
    BY <1>7 DEF Jsonb!Failing
  <2>2. PICK now \in Jsonb!Moments : /\ c \in now.columns /\ Jsonb!IsDatabase(now)
            /\ \E sample \in Jsonb!Samples(now.values[c], JsonbLimit) : ~Jsonb!HasNonObject(sample)
    BY <1>2, <1>7, <2>1
  <2>. QED
    BY <1>7, <2>2, JsonbReadings
<1>. QED
  BY <1>4, <1>5, <1>6, <1>7, JsonbRaised DEF Jsonb!SampledFindingsAreTrue

-----------------------------------------------------------------------------
(* Backup & Recovery and Documentation.                                    *)

RecordsLoop == INSTANCE CategoryChecksProofs WITH
    Checks <- Records!Checks, Applicable <- Records!Applicable, Queries <- Records!Queries, Answers <- Records!Answers,
    Starts <- RecordStarts, Changed <- Records!Changed

RecordsInv == RecordsLoop!LoopInv /\ \A db \in RecordsLoop!Moments : Records!IsDatabase(db)

\* The category's steps and words are those of the loop.
LEMMA RecordsIsALoop ==
    /\ Records!Next => RecordsLoop!Next
    /\ Records!Moments = RecordsLoop!Moments
    /\ \A slug : Records!Told(slug) <=> RecordsLoop!Told(slug)
<1>1. Records!Next => RecordsLoop!Next
  BY DEF Records!Next, RecordsLoop!Next, Records!AskApplicability, RecordsLoop!AskApplicability,
     Records!BeginCheck, RecordsLoop!BeginCheck, Records!RunQuery, RecordsLoop!RunQuery,
     Records!ReturnFindings, RecordsLoop!ReturnFindings, Records!Change, RecordsLoop!Change,
     Records!EndCheck, RecordsLoop!EndCheck, Records!Over, RecordsLoop!Over, Records!vars,
     RecordsLoop!vars, Records!Running, RecordsLoop!Running, Records!Current, RecordsLoop!Current
<1>. QED
  BY <1>1 DEF Records!Moments, RecordsLoop!Moments, Records!Told, RecordsLoop!Told

\* Its checks are listed once each.
LEMMA RecordsChecks ==
    /\ RecordsLoop!Distinct
    /\ RecordsLoop!Slugs = {"wal-archiving-failures", "wal-archiving-status-summary", "migration-tracking-table-absent",
      "replica-topology-absent", "table-documentation-coverage", "undocumented-jsonb-column-rationale",
      "jsonb-without-schema-registry"}
<1>1. Records!Checks \in Seq({"wal-archiving-failures", "wal-archiving-status-summary", "migration-tracking-table-absent",
      "replica-topology-absent", "table-documentation-coverage", "undocumented-jsonb-column-rationale",
      "jsonb-without-schema-registry"})
  BY DEF Records!Checks
<1>2. \A i, j \in DOMAIN Records!Checks : Records!Checks[i] = Records!Checks[j] => i = j
  BY DEF Records!Checks
<1>3. DOMAIN Records!Checks = {1, 2, 3, 4, 5, 6, 7}
  BY DEF Records!Checks
<1>4. RecordsLoop!Slugs = {Records!Checks[i] : i \in DOMAIN Records!Checks}
  BY DEF RecordsLoop!Slugs, RecordsLoop!Range
<1>5. RecordsLoop!Slugs = {"wal-archiving-failures", "wal-archiving-status-summary", "migration-tracking-table-absent",
      "replica-topology-absent", "table-documentation-coverage", "undocumented-jsonb-column-rationale",
      "jsonb-without-schema-registry"}
  BY <1>3, <1>4 DEF Records!Checks
<1>. QED
  BY <1>1, <1>2, <1>5 DEF RecordsLoop!Distinct

\* A check's queries are a sequence.
LEMMA RecordsListings == ASSUME \A db \in RecordsLoop!Moments : Records!IsDatabase(db) PROVE RecordsLoop!Listings
<1>1. \A q : <<q>> \in Seq({q})
  OBVIOUS
<1>. QED
  BY <1>1 DEF RecordsLoop!Listings, Records!Queries

\* The client's changes make a database of a database.
LEMMA RecordsDatabases == ASSUME NEW db, Records!IsDatabase(db), NEW later \in Records!Changed(db) PROVE Records!IsDatabase(later)
<1>1. ASSUME NEW outcome \in {"archived", "failed"}, later = [db EXCEPT !.attempts = Append(@, outcome)]
      PROVE  Records!IsDatabase(later)
  BY <1>1 DEF Records!IsDatabase
<1>2. CASE later = [db EXCEPT !.attempts = <<>>, !.before = @ \/ db.attempts # <<>>]
  BY <1>2 DEF Records!IsDatabase
<1>3. ASSUME NEW x, later = [db EXCEPT !.comments = Records!Flip(@, x)] PROVE Records!IsDatabase(later)
  BY <1>3 DEF Records!IsDatabase
<1>4. ASSUME NEW t, later = [db EXCEPT !.relations = Records!Flip(@, t), !.comments = @ \ Records!CommentsWith(t)]
      PROVE  Records!IsDatabase(later)
  BY <1>4 DEF Records!IsDatabase
<1>5. CASE later \in {[db EXCEPT !.replicas = 1 - @], [db EXCEPT !.backups = 1 - @]}
  BY <1>5 DEF Records!IsDatabase
<1>. QED
  BY <1>1, <1>2, <1>3, <1>4, <1>5 DEF Records!Changed

\* The category's part of the invariant holds at first, and is kept.
LEMMA RecordsInit == ASSUME Records!Init PROVE RecordsInv
<1>2. RecordsLoop!Init
  BY DEF Records!Init, RecordsLoop!Init, Records!Slugs, RecordsLoop!Slugs, Records!Range, RecordsLoop!Range
<1>. QED
  BY <1>2, RecordsChecks, RecordsLoop!LoopInit, CatalogStartsAssumption DEF RecordsInv, RecordsLoop!Init, RecordsLoop!Moments

\* The loop's lemma, the listings and the databases give the step.
LEMMA RecordsStep == ASSUME RecordsInv, [Records!Next]_<<machine, found, changes>> PROVE RecordsInv'
<1>1. [RecordsLoop!Next]_(RecordsLoop!vars)
  BY RecordsIsALoop DEF machine, RecordsLoop!vars
<1>2. RecordsLoop!LoopInv /\ \A db \in RecordsLoop!Moments : Records!IsDatabase(db)
  BY <1>1 DEF RecordsInv
<1>3. RecordsLoop!LoopInv'
  BY <1>1, <1>2, RecordsLoop!LoopStep, RecordsChecks, RecordsListings, OutcomesAssumption
<1>4. database \in RecordsLoop!Moments
  BY DEF RecordsLoop!Moments
<1>5. RecordsLoop!Moments' \subseteq RecordsLoop!Moments \cup Records!Changed(database)
  BY <1>1, RecordsLoop!MomentsGrow
<1>. QED
  BY <1>2, <1>3, <1>4, <1>5, RecordsDatabases DEF RecordsInv

\* What the checks ask and that answers.
LEMMA RecordsAnswers ==
    ASSUME NEW query, NEW db
    PROVE  /\ Records!Answers("wal-archiving-failures", query, db) = {Records!WalArchivingFailures(db)}
           /\ Records!Answers("wal-archiving-status-summary", query, db) = {Records!WalArchivingStatus(db)}
           /\ Records!Answers("table-documentation-coverage", query, db) = {Records!TableDocumentation(db)}
           /\ Records!Answers("undocumented-jsonb-column-rationale", query, db) = {Records!UndocumentedJsonb(db)}
           /\ Records!Answers("jsonb-without-schema-registry", query, db) = {Records!JsonbWithoutRegistry(db)}
<1>1. Records!Answers("wal-archiving-failures", query, db) = {Records!WalArchivingFailures(db)}
  BY Zenon DEF Records!Answers
<1>2. Records!Answers("wal-archiving-status-summary", query, db) = {Records!WalArchivingStatus(db)}
  BY Zenon DEF Records!Answers
<1>3. Records!Answers("table-documentation-coverage", query, db) = {Records!TableDocumentation(db)}
  BY Zenon DEF Records!Answers
<1>4. Records!Answers("undocumented-jsonb-column-rationale", query, db) = {Records!UndocumentedJsonb(db)}
  BY Zenon DEF Records!Answers
<1>5. Records!Answers("jsonb-without-schema-registry", query, db) = {Records!JsonbWithoutRegistry(db)}
  BY Zenon DEF Records!Answers
<1>. QED
  BY <1>1, <1>2, <1>3, <1>4, <1>5

\* A check that has come to an end found what its query answers of some moment.
LEMMA RecordsOutcome ==
    ASSUME RecordsInv, NEW slug \in RecordsLoop!Slugs, RecordsLoop!Explained(slug)
    PROVE  \E now \in RecordsLoop!Moments : found[slug] \in Records!Answers(slug, slug, now)
<1>1. \A db : Records!Queries(slug, db) = <<slug>>
  BY DEF Records!Queries
<1>2. \A db \in RecordsLoop!Moments : DOMAIN Records!Queries(slug, db) = {1} /\ Len(Records!Queries(slug, db)) = 1
  BY <1>1
<1>3. PICK then, now \in RecordsLoop!Moments : found[slug] \in Records!Answers(slug, Records!Queries(slug, then)[1], now)
  BY <1>2, RecordsLoop!ByOneQuery, RecordsChecks DEF RecordsInv, RecordsLoop!Explained
<1>. QED
  BY <1>1, <1>3

\* The categories' last check comes after those of what columns are for.
LEMMA RecordsOrder ==
    ASSUME RecordsInv, Records!Told("jsonb-without-schema-registry")
    PROVE  /\ RecordsLoop!Explained("table-documentation-coverage")
           /\ RecordsLoop!Explained("undocumented-jsonb-column-rationale")
           /\ RecordsLoop!Explained("jsonb-without-schema-registry")
<1>1. /\ {5, 6, 7} \subseteq DOMAIN Records!Checks /\ 5 < 7 /\ 6 < 7
      /\ Records!Checks[5] = "table-documentation-coverage"
      /\ Records!Checks[6] = "undocumented-jsonb-column-rationale"
      /\ Records!Checks[7] = "jsonb-without-schema-registry"
  BY DEF Records!Checks
<1>2. found["jsonb-without-schema-registry"] # Pending /\ "jsonb-without-schema-registry" \in RecordsLoop!Slugs
  BY RecordsChecks DEF Records!Told
<1>. QED
  BY <1>1, <1>2, RecordsLoop!InOrder, RecordsLoop!EndedIsExplained, RecordsChecks DEF RecordsInv

-----------------------------------------------------------------------------
(* WAL archiving, told twice.                                              *)

\* What a check has found or is finding.
Gathering(slug) ==
    IF Records!Told(slug) THEN found[slug]
    ELSE IF Records!Running /\ Records!Current = slug /\ partial # Pending THEN partial ELSE {}

\* Until the statistics are reset the failures found are still among those counted,
\* and those of the status.
WalInv ==
    ~database.before =>
        \A failures \in Gathering("wal-archiving-failures") :
            /\ failures[2] \in 1..Records!Count("failed", database)
            /\ \A status \in Gathering("wal-archiving-status-summary") : status # <<"none ever">> /\ status[4] >= failures[2]

\* Attempts are counted, and another only adds to the count.
LEMMA RecordsCount ==
    ASSUME NEW db, Records!IsDatabase(db), NEW outcome
    PROVE  /\ Records!Count(outcome, db) \in Nat
           /\ \A later \in Records!Changed(db) :
                ~later.before => ~db.before /\ Records!Count(outcome, db) <= Records!Count(outcome, later)
<1>. DEFINE Of(attempts) == {n \in DOMAIN attempts : attempts[n] = outcome}
<1>1. \A S : Records!Cardinality(S) = Cardinality(S)
  BY DEF Records!Cardinality, Cardinality
<1>2. ASSUME NEW attempts \in Seq({"archived", "failed"}) PROVE IsFiniteSet(Of(attempts))
  <2>1. Of(attempts) \subseteq 1..Len(attempts)
    OBVIOUS
  <2>. QED
    BY <2>1, FS_Interval, FS_Subset
<1>3. \A d : Records!Count(outcome, d) = Cardinality(Of(d.attempts))
  BY <1>1 DEF Records!Count
<1>. HIDE DEF Of
<1>4. db.attempts \in Seq({"archived", "failed"})
  BY DEF Records!IsDatabase
<1>5. Records!Count(outcome, db) \in Nat
  BY <1>2, <1>3, <1>4, FS_CardinalityType
<1>6. ASSUME NEW later \in Records!Changed(db), ~later.before
      PROVE  ~db.before /\ Records!Count(outcome, db) <= Records!Count(outcome, later)
  <2>1. CASE later.attempts = db.attempts /\ later.before = db.before
    BY <1>3, <1>5, <1>6, <2>1
  <2>2. ASSUME NEW another \in {"archived", "failed"}, later = [db EXCEPT !.attempts = Append(@, another)]
        PROVE  ~db.before /\ Records!Count(outcome, db) <= Records!Count(outcome, later)
    <3>1. later.attempts = Append(db.attempts, another) /\ (later.before <=> db.before)
      BY <2>2 DEF Records!IsDatabase
    <3>2. later.attempts \in Seq({"archived", "failed"}) /\ Of(db.attempts) \subseteq Of(later.attempts)
      BY <1>4, <2>2, <3>1 DEF Of
    <3>3. Cardinality(Of(db.attempts)) <= Cardinality(Of(later.attempts))
      BY <1>2, <3>2, FS_Subset
    <3>4. Records!Count(outcome, db) = Cardinality(Of(db.attempts)) /\ Records!Count(outcome, later) = Cardinality(Of(later.attempts))
      BY <1>3
    <3>. QED
      BY <1>6, <3>1, <3>3, <3>4
  <2>3. CASE later = [db EXCEPT !.attempts = <<>>, !.before = @ \/ db.attempts # <<>>]
    <3>1. later.attempts = <<>> /\ (later.before <=> db.before \/ db.attempts # <<>>)
      BY <2>3 DEF Records!IsDatabase
    <3>. QED
      BY <1>3, <1>5, <1>6, <3>1
  <2>4. ASSUME NEW x, later = [db EXCEPT !.comments = Records!Flip(@, x)]
        PROVE  later.attempts = db.attempts /\ later.before = db.before
    BY <2>4 DEF Records!IsDatabase
  <2>5. ASSUME NEW t, later = [db EXCEPT !.relations = Records!Flip(@, t), !.comments = @ \ Records!CommentsWith(t)]
        PROVE  later.attempts = db.attempts /\ later.before = db.before
    BY <2>5 DEF Records!IsDatabase
  <2>6. ASSUME later \in {[db EXCEPT !.replicas = 1 - @], [db EXCEPT !.backups = 1 - @]}
        PROVE  later.attempts = db.attempts /\ later.before = db.before
    BY <2>6 DEF Records!IsDatabase
  <2>. QED
    BY <2>1, <2>2, <2>3, <2>4, <2>5, <2>6 DEF Records!Changed
<1>. QED
  BY <1>5, <1>6

\* Before anything is asked, nothing is found.
LEMMA WalInit == ASSUME Records!Init PROVE WalInv
<1>1. Records!Slugs = RecordsLoop!Slugs
  BY DEF Records!Slugs, RecordsLoop!Slugs, Records!Range, RecordsLoop!Range
<1>. QED
  BY <1>1, RecordsChecks DEF Records!Init, WalInv, Gathering, Records!Told

\* What is gathered only grows by what the query that runs answers.
LEMMA WalGathered ==
    ASSUME RecordsInv, [Records!Next]_<<machine, found, changes>>, NEW slug \in RecordsLoop!Slugs
    PROVE  \/ Gathering(slug)' \subseteq Gathering(slug)
           \/ /\ database' = database /\ Records!Running /\ Records!Current = slug
              /\ \E answer \in Records!Answers(slug, slug, database) : Gathering(slug)' \subseteq Gathering(slug) \cup answer
<1>. USE DEF Gathering, Records!Told, Records!Running, Records!Current
<1>1. /\ slug \in DOMAIN found /\ \A i \in DOMAIN Records!Checks : check <= i => found[Records!Checks[i]] = Pending
      /\ ~Records!Running => partial = Pending
      /\ check \in Nat /\ DOMAIN Records!Checks \subseteq Nat
      /\ Records!Running => Records!Current \in DOMAIN found
  BY RecordsChecks DEF RecordsInv, RecordsLoop!LoopInv, RecordsLoop!Running, RecordsLoop!Slugs, RecordsLoop!Range, RecordsLoop!Distinct
<1>2. CASE Records!AskApplicability
  BY <1>1, <1>2 DEF Records!AskApplicability
<1>3. CASE Records!BeginCheck
  BY <1>3 DEF Records!BeginCheck
<1>4. CASE Records!RunQuery
  <2>1. PICK answer \in Records!Answers(Records!Current, Head(todo), database) :
          IF answer = Raised THEN Records!EndCheck(Raised)
          ELSE partial' = partial \cup answer /\ UNCHANGED <<database, check, found>>
    BY <1>4 DEF Records!RunQuery
  <2>2. CASE answer = Raised
    BY <1>1, <1>4, <2>1, <2>2 DEF Records!EndCheck, Records!RunQuery
  <2>3. CASE answer # Raised /\ slug # Records!Current
    BY <1>1, <1>4, <2>1, <2>3 DEF Records!RunQuery
  <2>4. CASE answer # Raised /\ slug = Records!Current
    <3>1. answer \in Records!Answers(slug, slug, database)
      BY <2>1, <2>4 DEF Records!Answers
    <3>2. Gathering(slug)' \subseteq Gathering(slug) \cup answer
      BY <1>4, <2>1, <2>4 DEF Records!RunQuery
    <3>. QED
      BY <1>4, <2>1, <2>4, <3>1, <3>2 DEF Records!RunQuery
  <2>. QED
    BY <2>2, <2>3, <2>4
<1>5. CASE Records!ReturnFindings
  <2>1. found[Records!Current] = Pending
    BY <1>1, <1>5 DEF Records!ReturnFindings
  <2>. QED
    BY <1>1, <1>5, <2>1 DEF Records!ReturnFindings, Records!EndCheck
<1>6. CASE Records!Change
  BY <1>6 DEF Records!Change
<1>7. CASE UNCHANGED <<machine, found, changes>>
  BY <1>7 DEF machine
<1>8. CASE Records!Over
  BY <1>8 DEF Records!Over, Records!vars
<1>. QED
  BY <1>2, <1>3, <1>4, <1>5, <1>6, <1>7, <1>8 DEF Records!Next

\* Whatever a query of one of the checks answers, the other's failures are counted.
LEMMA WalStep == ASSUME RecordsInv, WalInv, [Records!Next]_<<machine, found, changes>> PROVE WalInv'
<1>. DEFINE F == "wal-archiving-failures"
            S == "wal-archiving-status-summary"
<1>1. SUFFICES ASSUME ~database'.before
      PROVE  \A failures \in Gathering(F)' :
                /\ failures[2] \in 1..Records!Count("failed", database')
                /\ \A status \in Gathering(S)' : status # <<"none ever">> /\ status[4] >= failures[2]
  BY DEF WalInv, Records!Count
<1>2. database' = database \/ database' \in Records!Changed(database)
  BY DEF Records!Next, Records!AskApplicability, Records!BeginCheck, Records!RunQuery, Records!ReturnFindings,
     Records!EndCheck, Records!Change, Records!Over, Records!vars, machine
<1>3. Records!IsDatabase(database)
  BY DEF RecordsInv, RecordsLoop!Moments
<1>4. /\ ~database.before /\ Records!Count("failed", database) \in Nat
      /\ Records!Count("failed", database') \in Nat
      /\ Records!Count("failed", database) <= Records!Count("failed", database')
  BY <1>1, <1>2, <1>3, RecordsCount, RecordsDatabases
<1>5. \A failures \in Gathering(F) :
            /\ failures[2] \in 1..Records!Count("failed", database)
            /\ \A status \in Gathering(S) : status # <<"none ever">> /\ status[4] >= failures[2]
  BY <1>4 DEF WalInv
<1>6. F \in RecordsLoop!Slugs /\ S \in RecordsLoop!Slugs /\ F # S
  BY RecordsChecks
<1>7. CASE Gathering(F)' \subseteq Gathering(F) /\ Gathering(S)' \subseteq Gathering(S)
  <2>1. 1..Records!Count("failed", database) \subseteq 1..Records!Count("failed", database')
    BY <1>4
  <2>. QED
    BY <1>5, <1>7, <2>1
<1>8. CASE /\ database' = database /\ Records!Running /\ Records!Current = F
           /\ \E answer \in Records!Answers(F, F, database) : Gathering(F)' \subseteq Gathering(F) \cup answer
  <2>1. Gathering(F)' \subseteq Gathering(F) \cup Records!WalArchivingFailures(database)
    BY <1>8, RecordsAnswers
  <2>2. \A failures \in Records!WalArchivingFailures(database) : failures[2] \in 1..Records!Count("failed", database)
    BY <1>4 DEF Records!WalArchivingFailures
  <2>3. Gathering(S) = {}
    <3>1. /\ Records!Checks[2] = S /\ Records!Checks[1] = F /\ DOMAIN Records!Checks = 1..7
          /\ \A i \in 1..7 : Records!Checks[i] = F => i = 1
      BY DEF Records!Checks
    <3>2. check = 1
      BY <1>8, <3>1 DEF Records!Running, Records!Current
    <3>3. found[S] = Pending
      BY <3>1, <3>2 DEF RecordsInv, RecordsLoop!LoopInv
    <3>. QED
      BY <1>6, <1>8, <3>3 DEF Gathering, Records!Told
  <2>4. Gathering(S)' \subseteq Gathering(S)
    BY <1>6, <1>8, WalGathered
  <2>. QED
    BY <1>5, <1>8, <2>1, <2>2, <2>3, <2>4
<1>9. CASE /\ database' = database /\ Records!Running /\ Records!Current = S
           /\ \E answer \in Records!Answers(S, S, database) : Gathering(S)' \subseteq Gathering(S) \cup answer
  <2>1. Gathering(S)' \subseteq Gathering(S) \cup Records!WalArchivingStatus(database)
    BY <1>9, RecordsAnswers
  <2>2. Gathering(F)' \subseteq Gathering(F)
    BY <1>6, <1>9, WalGathered
  <2>3. ASSUME NEW failures \in Gathering(F), NEW status \in Records!WalArchivingStatus(database)
        PROVE  status # <<"none ever">> /\ status[4] >= failures[2]
    <3>1. failures[2] \in 1..Records!Count("failed", database)
      BY <1>5
    <3>2. Records!Count("failed", database) # 0
      BY <1>4, <3>1
    <3>3. \E time, n : status = <<"totals", time, n, Records!Count("failed", database)>>
      BY <3>2 DEF Records!WalArchivingStatus
    <3>. QED
      BY <1>4, <3>1, <3>3
  <2>. QED
    BY <1>5, <1>9, <2>1, <2>2, <2>3
<1>. QED
  BY <1>6, <1>7, <1>8, <1>9, WalGathered

\* Numbers up to a bound have a greatest.
LEMMA RecordsMax ==
    ASSUME NEW n \in Nat, NEW S \in SUBSET (0..n), S # {}
    PROVE  Records!Max(S) \in S /\ \A y \in S : Records!Max(S) >= y
<1>. DEFINE Above(x) == {y \in S : y > x}
            T == {Above(x) : x \in S}
<1>0. \A y \in S : y \in Int
  OBVIOUS
<1>1. IsFiniteSet(S)
  <2>1. IsFiniteSet(0..n)
    BY FS_Interval
  <2>. QED
    BY <2>1, FS_Subset
<1>2. T \subseteq FiniteSubsetsOf(S) /\ T # {}
  <2>1. T \subseteq SUBSET S /\ T # {}
    OBVIOUS
  <2>. QED
    BY <1>1, <2>1, FS_FiniteSubsetsOfFinite
<1>3. PICK least \in T : \A other \in T : ~(<<other, least>> \in StrictSubsetOrdering(S))
  BY <1>2, FS_StrictSubsetOrderingWellFounded, WFMin
<1>4. PICK x \in S : least = Above(x)
  OBVIOUS
<1>5. ASSUME NEW y \in S, y > x PROVE FALSE
  <2>1. Above(y) \subseteq Above(x) /\ y \in Above(x) /\ y \notin Above(y)
    <3>1. ASSUME NEW z \in S, z > y PROVE z > x
      <4>1. x \in Int /\ y \in Int /\ z \in Int
        BY <1>0
      <4>. QED
        BY <1>5, <3>1, <4>1
    <3>2. ~(y > y)
      <4>1. y \in Int
        BY <1>0
      <4>. QED
        BY <4>1
    <3>3. y \in Above(x) /\ y \notin Above(y)
      BY <1>5, <3>2, Zenon
    <3>. QED
      BY <3>1, <3>3, Zenon
  <2>2. Above(y) \in T /\ <<Above(y), Above(x)>> \in (SUBSET S) \X (SUBSET S)
    BY <1>5
  <2>. HIDE DEF Above
  <2>3. <<Above(y), Above(x)>> \in StrictSubsetOrdering(S)
    BY <2>1, <2>2 DEF StrictSubsetOrdering
  <2>. QED
    BY <1>3, <1>4, <2>2, <2>3
<1>6. x \in S /\ \A y \in S : x >= y
  BY <1>0, <1>5
<1>. QED
  BY <1>6 DEF Records!Max

\* The later of the last failure and the last success is the last attempt.
LEMMA RecordsLast ==
    ASSUME NEW db, Records!IsDatabase(db), Records!Count("failed", db) # 0
    PROVE  Records!LastTime("failed", db) > Records!LastTime("archived", db) <=> Records!Last(db.attempts) = "failed"
<1>. DEFINE n == Len(db.attempts)
            Of(outcome) == {i \in DOMAIN db.attempts : db.attempts[i] = outcome}
<1>1. db.attempts \in Seq({"archived", "failed"}) /\ n \in Nat /\ DOMAIN db.attempts = 1..n
  BY DEF Records!IsDatabase
<1>2. n # 0
  <2>1. SUFFICES ASSUME n = 0 PROVE FALSE
    OBVIOUS
  <2>2. Of("failed") = {}
    BY <1>1, <2>1
  <2>3. Records!Count("failed", db) = Records!Cardinality({})
    BY <2>2 DEF Records!Count
  <2>4. Records!Cardinality({}) = Cardinality({})
    BY DEF Records!Cardinality, Cardinality
  <2>. QED
    BY <2>3, <2>4, FS_EmptySet
<1>3. \A outcome : {0} \cup Of(outcome) \in SUBSET (0..n)
  BY <1>1
<1>4. ASSUME NEW outcome
      PROVE  /\ Records!LastTime(outcome, db) \in {0} \cup Of(outcome)
             /\ \A y \in {0} \cup Of(outcome) : Records!LastTime(outcome, db) >= y
  <2>. DEFINE times == {0} \cup Of(outcome)
  <2>1. times \in SUBSET (0..n) /\ times # {}
    BY <1>3
  <2>2. Records!LastTime(outcome, db) = Records!Max(times)
    BY DEF Records!LastTime
  <2>. HIDE DEF times
  <2>3. Records!Max(times) \in times /\ \A y \in times : Records!Max(times) >= y
    BY <1>1, <2>1, RecordsMax
  <2>. QED
    BY <2>2, <2>3 DEF times
<1>5. db.attempts[n] \in {"archived", "failed"} /\ n \in 1..n
  BY <1>1, <1>2
<1>6. Records!Last(db.attempts) = db.attempts[n]
  BY DEF Records!Last
<1>7. n \in Of(db.attempts[n])
  BY <1>1, <1>5
<1>8. \A outcome : outcome # db.attempts[n] => n \notin Of(outcome)
  OBVIOUS
<1>9. ASSUME NEW outcome PROVE Records!LastTime(outcome, db) \in 0..n
  BY <1>3, <1>4
<1>10. Records!LastTime(db.attempts[n], db) = n
  BY <1>1, <1>4, <1>7, <1>9
<1>11. ASSUME NEW outcome, outcome # db.attempts[n] PROVE Records!LastTime(outcome, db) < n
  BY <1>1, <1>2, <1>4, <1>8, <1>9, <1>11
<1>12. /\ Records!LastTime("failed", db) \in Nat /\ Records!LastTime("archived", db) \in Nat
       /\ db.attempts[n] = "failed" => Records!LastTime("failed", db) = n /\ Records!LastTime("archived", db) < n
       /\ db.attempts[n] # "failed" => Records!LastTime("archived", db) = n /\ Records!LastTime("failed", db) < n
  BY <1>1, <1>5, <1>9, <1>10, <1>11
<1>. HIDE DEF n
<1>. QED
  BY <1>1, <1>6, <1>12

\* What the two checks of WAL archiving say fits.
LEMMA RecordsArchiving ==
    ASSUME RecordsInv, WalInv, Records!Told("wal-archiving-failures"), Records!Told("wal-archiving-status-summary"),
           NEW failures \in found["wal-archiving-failures"], NEW status \in found["wal-archiving-status-summary"]
    PROVE  /\ ~database.before => status # <<"none ever">> /\ status[4] >= failures[2]
           /\ Records!Steady => status[4] = failures[2] /\ (failures[1] = "active" <=> Records!Last(database.attempts) = "failed")
<1>1. ~database.before => status # <<"none ever">> /\ status[4] >= failures[2]
  BY DEF WalInv, Gathering
<1>2. ASSUME Records!Steady
      PROVE  status[4] = failures[2] /\ (failures[1] = "active" <=> Records!Last(database.attempts) = "failed")
  <2>1. RecordsLoop!Moments = {database} /\ Records!IsDatabase(database)
    BY <1>2 DEF RecordsInv, Records!Steady, RecordsLoop!Moments
  <2>2. \A slug \in {"wal-archiving-failures", "wal-archiving-status-summary"} : slug \in RecordsLoop!Slugs /\ RecordsLoop!Explained(slug)
    BY RecordsChecks, RecordsLoop!EndedIsExplained DEF RecordsInv, Records!Told
  <2>3. failures \in Records!WalArchivingFailures(database) /\ status \in Records!WalArchivingStatus(database)
    BY <2>1, <2>2, RecordsOutcome, RecordsAnswers
  <2>4. /\ Records!Count("failed", database) # 0
        /\ failures = <<IF Records!LastTime("failed", database) > Records!LastTime("archived", database)
                        THEN "active" ELSE "historical", Records!Count("failed", database)>>
    BY <2>3 DEF Records!WalArchivingFailures
  <2>5. \E time, n : status = <<"totals", time, n, Records!Count("failed", database)>>
    BY <2>3, <2>4 DEF Records!WalArchivingStatus
  <2>. QED
    BY <2>1, <2>4, <2>5, RecordsLast
<1>. QED
  BY <1>1, <1>2

\* What backups, migrations and columns are said to be is so.
LEMMA RecordsToldTruly == ASSUME RecordsInv, WalInv PROVE Records!RecordsAreToldTruly
<1>1. ASSUME Records!Told("jsonb-without-schema-registry")
      PROVE  /\ \A f \in found["undocumented-jsonb-column-rationale"] :
                    \E db \in Records!Moments : f[2] \in Records!Shown(db) \ db.comments
             /\ (\A db \in Records!Moments : Records!Shown(db) # {}) /\ found["jsonb-without-schema-registry"] = {} =>
                    \E db \in Records!Moments : \E t \in Records!Tables(db) : RecordDef[t].registry
             /\ found["undocumented-jsonb-column-rationale"] = {} => \A c \in DOMAIN RecordColumns :
                    (\A db \in Records!Moments : c \in Records!Shown(db)) => \E db \in Records!Moments : c \in db.comments
             /\ found["table-documentation-coverage"] = {} /\ (\A db \in Records!Moments : Records!Tables(db) # {}) =>
                    \E db \in Records!Moments : Records!Tables(db) \cap db.comments # {}
  <2>1. \A slug \in {"table-documentation-coverage", "undocumented-jsonb-column-rationale", "jsonb-without-schema-registry"} :
          slug \in RecordsLoop!Slugs /\ RecordsLoop!Explained(slug)
    BY <1>1, RecordsOrder, RecordsChecks
  <2>2. PICK m \in Records!Moments : found["table-documentation-coverage"] = Records!TableDocumentation(m)
    BY <2>1, RecordsOutcome, RecordsAnswers, RecordsIsALoop
  <2>3. PICK n \in Records!Moments : found["undocumented-jsonb-column-rationale"] = Records!UndocumentedJsonb(n)
    BY <2>1, RecordsOutcome, RecordsAnswers, RecordsIsALoop
  <2>4. PICK o \in Records!Moments : found["jsonb-without-schema-registry"] = Records!JsonbWithoutRegistry(o)
    BY <2>1, RecordsOutcome, RecordsAnswers, RecordsIsALoop
  <2>5. \A f \in found["undocumented-jsonb-column-rationale"] : f[2] \in Records!Shown(n) \ n.comments
    BY <2>3 DEF Records!UndocumentedJsonb
  <2>6. found["undocumented-jsonb-column-rationale"] = {} => Records!Shown(n) \subseteq n.comments
    BY <2>3 DEF Records!UndocumentedJsonb
  <2>7. found["jsonb-without-schema-registry"] = {} /\ Records!Shown(o) # {} => \E t \in Records!Tables(o) : RecordDef[t].registry
    BY <2>4 DEF Records!JsonbWithoutRegistry
  <2>8. found["table-documentation-coverage"] = {} /\ Records!Tables(m) # {} => Records!Tables(m) \cap m.comments # {}
    BY <2>2 DEF Records!TableDocumentation
  <2>. QED
    BY <2>5, <2>6, <2>7, <2>8
<1>. QED
  BY <1>1, RecordsArchiving DEF Records!RecordsAreToldTruly

-----------------------------------------------------------------------------
(* The statistics checks of Data Quality.                                  *)

\* As long as nothing has changed since the first check, what was found is what
\* would be found now; rows and what columns hold are counted.
StatisticsInv ==
    /\ rows \in [Statistics!Tables -> Nat]
    /\ data \in [Statistics!Columns -> [nulls : Nat, distinct : Nat]]
    /\ DOMAIN found = Statistics!Range(Statistics!Checks)
    /\ steady =>
          /\ found["high-null"] \in {Pending, Statistics!HighNull}
          /\ found["never-null"] \in {Pending, Statistics!NeverNull}
          /\ found["near-unique"] \in {Pending, Statistics!NearUnique}
          /\ found["audit-timestamps"] \in {Pending, Statistics!AuditTimestamps}
          /\ found["low-cardinality"] \in {Pending, Statistics!LowCardinality}

\* The checks that are made.
LEMMA StatisticsChecks ==
    Statistics!Range(Statistics!Checks) =
          {"high-null", "near-unique", "never-null", "audit-timestamps", "low-cardinality", "missing-default"}
<1>1. DOMAIN Statistics!Checks = 1..6
  BY DEF Statistics!Checks
<1>2. 1..6 = {1, 2, 3, 4, 5, 6}
  OBVIOUS
<1>. QED
  BY <1>1, <1>2 DEF Statistics!Checks, Statistics!Range

\* The statistics' part of the invariant holds at first.
LEMMA StatisticsInit == ASSUME Statistics!Init PROVE StatisticsInv
  BY StatisticsChecks DEF Statistics!Init, Statistics!InitCatalog, StatisticsInv

\* A check finds what its query does, and leaves the others' findings.
LEMMA StatisticsCheck ==
    ASSUME StatisticsInv,
           \/ Statistics!CheckHighNullFraction \/ Statistics!CheckNearUnique \/ Statistics!CheckNeverNull
           \/ Statistics!CheckAuditTimestamps \/ Statistics!CheckLowCardinality \/ Statistics!CheckMissingDefault
    PROVE  StatisticsInv'
<1>1. /\ rows' = rows /\ data' = data /\ steady' = steady /\ stats' = stats /\ notNull' = notNull /\ unique' = unique /\ checked' = checked
  BY DEF Statistics!CheckHighNullFraction, Statistics!CheckNearUnique, Statistics!CheckNeverNull,
     Statistics!CheckAuditTimestamps, Statistics!CheckLowCardinality, Statistics!CheckMissingDefault,
     Statistics!Check, Statistics!catalog
<1>2. /\ Statistics!HighNull' = Statistics!HighNull /\ Statistics!NeverNull' = Statistics!NeverNull
      /\ Statistics!NearUnique' = Statistics!NearUnique /\ Statistics!AuditTimestamps' = Statistics!AuditTimestamps
      /\ Statistics!LowCardinality' = Statistics!LowCardinality
  BY <1>1 DEF Statistics!HighNull, Statistics!NeverNull, Statistics!NearUnique, Statistics!AuditTimestamps,
     Statistics!LowCardinality, Statistics!NullableColumns, Statistics!Assessable, Statistics!Live,
     Statistics!DistinctRatioReaches, Statistics!IsFraction, Statistics!Checked
<1>3. \E slug, columns :
        /\ found' = [found EXCEPT ![slug] = columns]
        /\ slug = "high-null" => columns = Statistics!HighNull
        /\ slug = "never-null" => columns = Statistics!NeverNull
        /\ slug = "near-unique" => columns = Statistics!NearUnique
        /\ slug = "audit-timestamps" => columns = Statistics!AuditTimestamps
        /\ slug = "low-cardinality" => columns = Statistics!LowCardinality
  <2>. DEFINE P(slug, columns) ==
        /\ found' = [found EXCEPT ![slug] = columns]
        /\ slug = "high-null" => columns = Statistics!HighNull
        /\ slug = "never-null" => columns = Statistics!NeverNull
        /\ slug = "near-unique" => columns = Statistics!NearUnique
        /\ slug = "audit-timestamps" => columns = Statistics!AuditTimestamps
        /\ slug = "low-cardinality" => columns = Statistics!LowCardinality
  <2>1. \/ P("high-null", Statistics!HighNull) \/ P("never-null", Statistics!NeverNull)
        \/ P("near-unique", Statistics!NearUnique) \/ P("audit-timestamps", Statistics!AuditTimestamps)
        \/ P("low-cardinality", Statistics!LowCardinality) \/ P("missing-default", Statistics!MissingDefault)
    BY DEF Statistics!CheckHighNullFraction, Statistics!CheckNearUnique, Statistics!CheckNeverNull,
       Statistics!CheckAuditTimestamps, Statistics!CheckLowCardinality, Statistics!CheckMissingDefault, Statistics!Check
  <2>. QED
    BY <2>1
<1>. QED
  BY <1>1, <1>2, <1>3, StatisticsChecks DEF StatisticsInv

\* A change leaves nothing to be still so, unless no check has run.
LEMMA StatisticsChange == ASSUME StatisticsInv, Statistics!Client PROVE StatisticsInv'
<1>1. Statistics!Change
  BY DEF Statistics!Client, Statistics!Load, Statistics!Analyze, Statistics!SetNotNull, Statistics!AddUnique,
     Statistics!AddDefault, Statistics!AddCheck
<1>2. rows' \in [Statistics!Tables -> Nat] /\ data' \in [Statistics!Columns -> [nulls : Nat, distinct : Nat]]
  <2>1. CASE rows' = rows /\ data' = data
    BY <2>1 DEF StatisticsInv
  <2>2. ASSUME NEW t \in Statistics!Tables, Statistics!Load(t) 
        PROVE  rows' \in [Statistics!Tables -> Nat] /\ data' \in [Statistics!Columns -> [nulls : Nat, distinct : Nat]]
    <3>. DEFINE loaded == {c \in Statistics!Columns : StatisticsDef[c].table = t}
    <3>1. PICK n \in Sizes, shapes \in [loaded -> Shapes] :
            /\ rows' = [rows EXCEPT ![t] = n]
            /\ data' = [c \in Statistics!Columns |-> IF c \in DOMAIN shapes THEN shapes[c] ELSE data[c]]
      BY <2>2 DEF Statistics!Load
    <3>2. n \in Nat /\ \A c \in loaded : shapes[c] \in [nulls : Nat, distinct : Nat]
      BY CountsAssumption
    <3>. HIDE DEF loaded
    <3>. QED
      BY <3>1, <3>2 DEF StatisticsInv
  <2>. QED
    BY <2>1, <2>2 DEF Statistics!Client, Statistics!Analyze, Statistics!SetNotNull, Statistics!AddUnique,
     Statistics!AddDefault, Statistics!AddCheck
<1>3. found' = found /\ (steady' => \A slug \in DOMAIN found : found[slug] = Pending)
  BY <1>1 DEF Statistics!Change
<1>. QED
  BY <1>2, <1>3, StatisticsChecks DEF StatisticsInv

\* The statistics' part of the invariant is kept.
LEMMA StatisticsStep == ASSUME StatisticsInv, [Statistics!Next]_<<catalog, found, changes>> PROVE StatisticsInv'
<1>1. CASE UNCHANGED <<catalog, found, changes>>
  BY <1>1 DEF catalog, StatisticsInv, Statistics!HighNull, Statistics!NeverNull, Statistics!NearUnique,
     Statistics!AuditTimestamps, Statistics!LowCardinality, Statistics!NullableColumns, Statistics!Assessable,
     Statistics!Live, Statistics!DistinctRatioReaches, Statistics!IsFraction, Statistics!Checked
<1>2. CASE Statistics!Over
  BY <1>1, <1>2 DEF Statistics!Over, Statistics!vars, catalog
<1>. QED
  BY <1>1, <1>2, StatisticsCheck, StatisticsChange DEF Statistics!Next

\* The estimator divides by a positive number; where no sampled value occurs
\* twice it comes to all rows.
LEMMA WeightIsPositive ==
    ASSUME NEW filled \in Nat \ {0}, NEW once \in 0..filled, NEW n \in Nat \ {0}, NEW size \in Nat \ {0}
    PROVE  (filled - once) * n + once * size \in Nat \ {0}
<1>1. \A a, b \in Nat \ {0} : a * b \in Nat \ {0}
  OBVIOUS
<1>2. (filled - once) * n \in Nat /\ once * size \in Nat
  <2>1. filled - once \in Nat /\ once \in Nat
    OBVIOUS
  <2>2. \A a, b \in Nat : a * b \in Nat
    OBVIOUS
  <2>. QED
    BY <2>1, <2>2
<1>3. CASE once = 0
  <2>1. filled * n \in Nat \ {0} /\ filled - once = filled
    BY <1>1, <1>3
  <2>2. once * size = 0
    BY <1>3
  <2>. QED
    BY <2>1, <2>2
<1>4. CASE once # 0
  <2>1. once \in Nat \ {0}
    BY <1>4
  <2>2. once * size \in Nat \ {0}
    BY <1>1, <2>1
  <2>. QED
    BY <1>2, <2>2
<1>. QED
  BY <1>3, <1>4

LEMMA EstimateIsNatural ==
    ASSUME NEW filled \in Nat, NEW seen \in Nat, NEW n \in Nat, NEW weight \in Nat \ {0}
    PROVE  (filled * seen * n) \div weight \in Nat
<1>1. filled * seen \in Nat
  OBVIOUS
<1>2. filled * seen * n \in Nat
  BY <1>1
<1>. QED
  BY <1>2

LEMMA NoneTwiceIsAllRows ==
    ASSUME NEW size \in Nat \ {0}, NEW n \in Nat
    PROVE  (size * size * n) \div ((size - size) * n + size * size) = n
<1>1. (size - size) * n + size * size = size * size
  OBVIOUS
<1>2. size * size \in Nat \ {0}
  OBVIOUS
<1>3. \A a \in Nat \ {0} : (a * n) \div a = n
  OBVIOUS
<1>. QED
  BY <1>1, <1>2, <1>3

\* What ANALYZE draws from the rows: their number, no nulls that are not there,
\* and what no sample can miss.
LEMMA StatisticsDrawn ==
    ASSUME StatisticsInv, NEW c \in Statistics!Columns, stats[c] \in Statistics!Drawn(c)
    PROVE  LET n == Statistics!Live(c) held == data[c] drawn == stats[c] IN
           /\ n \in Nat /\ held.nulls \in Nat /\ held.distinct \in Nat
           /\ drawn \in [rows : Nat, sampled : Nat, nulls : Nat, distinct : Nat]
           /\ drawn.nulls <= held.nulls
           /\ drawn.rows = n /\ drawn.sampled = (IF n <= SampleSize THEN n ELSE SampleSize)
           /\ n <= SampleSize => drawn.nulls = held.nulls /\ drawn.distinct = held.distinct
           /\ held.nulls = n => drawn.nulls = drawn.sampled
           /\ held.distinct = n => drawn.distinct = n
<1>. DEFINE n == Statistics!Live(c)
            held == data[c]
<1>1. n \in Nat /\ held.nulls \in Nat /\ held.distinct \in Nat
  BY DEF StatisticsInv, Statistics!Live, Statistics!Tables
<1>2. CASE n <= SampleSize
  <2>1. stats[c] = [rows |-> n, sampled |-> n, nulls |-> held.nulls, distinct |-> held.distinct]
    BY <1>2 DEF Statistics!Drawn
  <2>. QED
    BY <1>1, <1>2, <2>1
<1>3. CASE ~(n <= SampleSize)
  <2>1. PICK sample \in SampleShapes : 
          /\ Statistics!MayShow(sample, held, n)
          /\ stats[c] = [rows |-> n, sampled |-> SampleSize, nulls |-> sample.nulls, distinct |-> Statistics!Estimated(sample, n)]
    BY <1>3 DEF Statistics!Drawn
  <2>. HIDE DEF n, held
  <2>. DEFINE filled == SampleSize - sample.nulls
              quotient == (filled * sample.distinct * n) \div ((filled - sample.once) * n + sample.once * SampleSize)
  <2>2. /\ SampleSize \in Nat \ {0} /\ n > SampleSize /\ n \in Nat \ {0}
        /\ sample.nulls \in Nat /\ sample.distinct \in Nat /\ sample.once \in Nat
    BY <1>1, <1>3, CountsAssumption
  <2>3. /\ filled \in Nat /\ filled <= n - held.nulls /\ sample.nulls <= held.nulls
        /\ sample.distinct <= held.distinct /\ held.distinct - sample.distinct <= (n - held.nulls) - filled
        /\ sample.distinct = 0 <=> filled = 0
        /\ sample.once <= sample.distinct /\ 2 * (sample.distinct - sample.once) <= filled - sample.once
        /\ sample.once = sample.distinct => sample.once = filled
    BY <1>1, <2>1, <2>2 DEF Statistics!MayShow
  <2>4. Statistics!Estimated(sample, n) = IF filled = 0 THEN 0 ELSE quotient
    BY DEF Statistics!Estimated
  <2>5. Statistics!Estimated(sample, n) \in Nat
    <3>1. CASE filled = 0
      BY <2>4, <3>1
    <3>2. CASE filled # 0
      <4>1. filled \in Nat \ {0} /\ sample.once \in 0..filled
        BY <2>2, <2>3, <3>2
      <4>2. (filled - sample.once) * n + sample.once * SampleSize \in Nat \ {0}
        BY <2>2, <4>1, WeightIsPositive
      <4>3. quotient \in Nat
        BY <1>1, <2>2, <2>3, <4>2, EstimateIsNatural
      <4>. HIDE DEF quotient
      <4>. QED
        BY <2>4, <3>2, <4>3
    <3>. QED
      BY <3>1, <3>2
  <2>6. ASSUME held.nulls = n PROVE sample.nulls = SampleSize
    <3>1. filled <= 0 /\ filled \in Nat
      BY <1>1, <2>2, <2>3, <2>6
    <3>. QED
      BY <2>2, <3>1
  <2>7. ASSUME held.distinct = n PROVE Statistics!Estimated(sample, n) = n
    <3>1. filled = SampleSize /\ sample.distinct = SampleSize /\ sample.once = SampleSize
      <4>1. sample.distinct >= held.nulls + filled
        BY <1>1, <2>2, <2>3, <2>7
      <4>2. 2 * sample.distinct <= filled + sample.once
        BY <1>1, <2>2, <2>3
      <4>3. sample.once <= sample.distinct /\ filled \in Nat
        BY <2>3
      <4>. HIDE DEF filled
      <4>4. held.nulls = 0 /\ sample.distinct = filled /\ sample.once = filled
        BY <1>1, <2>2, <4>1, <4>2, <4>3
      <4>5. sample.nulls = 0
        BY <2>2, <2>3, <4>4
      <4>. QED
        BY <2>2, <4>4, <4>5 DEF filled
    <3>2. quotient = (SampleSize * SampleSize * n) \div ((SampleSize - SampleSize) * n + SampleSize * SampleSize)
      BY <3>1
    <3>3. quotient = n
      BY <1>1, <2>2, <3>2, NoneTwiceIsAllRows
    <3>. HIDE DEF quotient
    <3>. QED
      BY <2>2, <2>4, <3>1, <3>3
  <2>. QED
    BY <1>1, <1>3, <2>1, <2>2, <2>3, <2>5, <2>6, <2>7 DEF n, held
<1>. QED
  BY <1>2, <1>3

\* What was found of fresh statistics is so: of all rows that were sampled, and
\* of a larger table as far as a sample goes.
LEMMA StatisticsTruth == ASSUME StatisticsInv PROVE Statistics!FreshStatisticsTellTheTruth
<1>1. SUFFICES ASSUME NEW c \in Statistics!Columns, Statistics!Fresh(c)
               PROVE  LET held == data[c] IN
                 /\ Statistics!Live(c) <= SampleSize =>
                    /\ found["high-null"] # Pending =>
                          (c \in found["high-null"] <=> c \notin notNull /\ 2 * held.nulls >= Statistics!Live(c))
                    /\ found["never-null"] # Pending =>
                          (c \in found["never-null"] <=> c \notin notNull /\ 100 * held.nulls <= Statistics!Live(c))
                    /\ found["near-unique"] # Pending =>
                          (c \in found["near-unique"] <=> c \notin unique /\ 100 * held.distinct >= 98 * Statistics!Live(c))
                    /\ Statistics!Reported("low-cardinality", c) => held.distinct <= MaxDistinct
                 /\ Statistics!Reported("audit-timestamps", c) => held.nulls > 0
                 /\ Statistics!Reported("high-null", c) =>
                       c \notin notNull /\ (2 * held.nulls >= SampleSize \/ 2 * held.nulls >= Statistics!Live(c))
                 /\ Statistics!Reported("low-cardinality", c) => c \notin checked
                 /\ found["never-null"] # Pending /\ held.nulls = 0 => c \in found["never-null"] \cup notNull
                 /\ found["high-null"] # Pending /\ held.nulls = Statistics!Live(c) => c \in found["high-null"] \cup notNull
                 /\ found["near-unique"] # Pending /\ held.distinct = Statistics!Live(c) => c \in found["near-unique"] \cup unique
  BY DEF Statistics!FreshStatisticsTellTheTruth
<1>. DEFINE n == Statistics!Live(c)
            held == data[c]
            drawn == stats[c]
<1>2. stats[c] \in Statistics!Drawn(c) /\ steady /\ n >= MinRows
  BY <1>1 DEF Statistics!Fresh
<1>3. /\ n \in Nat /\ held.nulls \in Nat /\ held.distinct \in Nat
      /\ drawn \in [rows : Nat, sampled : Nat, nulls : Nat, distinct : Nat]
      /\ drawn.nulls <= held.nulls
      /\ drawn.rows = n /\ drawn.sampled = (IF n <= SampleSize THEN n ELSE SampleSize)
      /\ n <= SampleSize => drawn.nulls = held.nulls /\ drawn.distinct = held.distinct
      /\ held.nulls = n => drawn.nulls = drawn.sampled
      /\ held.distinct = n => drawn.distinct = n
  BY <1>2, StatisticsDrawn
<1>4. SampleSize \in Nat \ {0} /\ drawn # Unknown
  BY <1>3, CountsAssumption
<1>5. c \in Statistics!Assessable
  BY <1>2, <1>4 DEF Statistics!Assessable
<1>. HIDE DEF n, held, drawn
<1>6. c \in Statistics!HighNull <=> c \notin notNull /\ 100 * drawn.nulls >= 50 * drawn.sampled
  BY <1>5 DEF Statistics!HighNull, Statistics!NullableColumns, Statistics!HighNullPercent, drawn
<1>7. c \in Statistics!NeverNull <=> c \notin notNull /\ 100 * drawn.nulls <= drawn.sampled
  <2>1. c \in Statistics!NeverNull <=> c \notin notNull /\ 100 * drawn.nulls <= 1 * drawn.sampled
    BY <1>5 DEF Statistics!NeverNull, Statistics!NullableColumns, Statistics!NearZeroNullPercent, drawn
  <2>. QED
    BY <1>3, <2>1
<1>8. c \in Statistics!NearUnique <=> c \notin unique /\ 100 * drawn.distinct >= 98 * n
  BY <1>3, <1>5 DEF Statistics!NearUnique, Statistics!DistinctRatioReaches, Statistics!NearUniquePercent, n, drawn
<1>9. c \in Statistics!LowCardinality => drawn.distinct <= MaxDistinct /\ c \notin checked
  BY <1>3, <1>5, DefinitionsAssumption DEF Statistics!LowCardinality, Statistics!Checked, Statistics!OwnNames, drawn
<1>10. c \in Statistics!AuditTimestamps => drawn.nulls > 0
  BY DEF Statistics!AuditTimestamps, drawn
<1>11. /\ found["high-null"] \in {Pending, Statistics!HighNull}
       /\ found["never-null"] \in {Pending, Statistics!NeverNull}
       /\ found["near-unique"] \in {Pending, Statistics!NearUnique}
       /\ found["audit-timestamps"] \in {Pending, Statistics!AuditTimestamps}
       /\ found["low-cardinality"] \in {Pending, Statistics!LowCardinality}
  BY <1>2 DEF StatisticsInv
<1>12. n <= SampleSize =>
         /\ c \in Statistics!HighNull <=> c \notin notNull /\ 2 * held.nulls >= n
         /\ c \in Statistics!NeverNull <=> c \notin notNull /\ 100 * held.nulls <= n
         /\ c \in Statistics!NearUnique <=> c \notin unique /\ 100 * held.distinct >= 98 * n
         /\ c \in Statistics!LowCardinality => held.distinct <= MaxDistinct
  BY <1>3, <1>4, <1>6, <1>7, <1>8, <1>9
<1>13. /\ c \in Statistics!AuditTimestamps => held.nulls > 0
       /\ c \in Statistics!HighNull => c \notin notNull /\ (2 * held.nulls >= SampleSize \/ 2 * held.nulls >= n)
  BY <1>3, <1>4, <1>6, <1>10
<1>14. /\ held.nulls = 0 => c \in Statistics!NeverNull \cup notNull
       /\ held.nulls = n => c \in Statistics!HighNull \cup notNull
       /\ held.distinct = n => c \in Statistics!NearUnique \cup unique
  BY <1>3, <1>4, <1>6, <1>7, <1>8
<1>. QED
  BY <1>9, <1>11, <1>12, <1>13, <1>14 DEF Statistics!Reported, n, held

\* What a finding recommends settles it, whatever the catalog.
LEMMA StatisticsFixes == Statistics!FixesSettled
<1>1. SUFFICES ASSUME NEW c \in Statistics!Columns
               PROVE  /\ Statistics!SetNotNull(c) =>
                            /\ Statistics!HighNull' = Statistics!HighNull \ {c} /\ Statistics!NeverNull' = Statistics!NeverNull \ {c}
                            /\ Statistics!NearUnique' = Statistics!NearUnique /\ Statistics!LowCardinality' = Statistics!LowCardinality
                            /\ Statistics!MissingDefault' \ Statistics!MissingDefault \subseteq {c} \ default
                      /\ Statistics!AddUnique(c) => Statistics!NearUnique' = Statistics!NearUnique \ {c} /\ Statistics!NeverNull' = Statistics!NeverNull
                      /\ Statistics!AddDefault(c) =>
                            Statistics!MissingDefault' = Statistics!MissingDefault \ {c} /\ Statistics!NeverNull' = Statistics!NeverNull
                      /\ Statistics!AddCheck(c) => /\ c \notin Statistics!LowCardinality' /\ Statistics!LowCardinality' \subseteq Statistics!LowCardinality
                                                   /\ Statistics!NearUnique' = Statistics!NearUnique
  BY DEF Statistics!FixesSettled
<1>2. ASSUME rows' = rows, stats' = stats
      PROVE  /\ notNull' = notNull => Statistics!NeverNull' = Statistics!NeverNull
             /\ unique' = unique => Statistics!NearUnique' = Statistics!NearUnique
             /\ checked' = checked => Statistics!LowCardinality' = Statistics!LowCardinality
  BY <1>2 DEF Statistics!NeverNull, Statistics!NearUnique, Statistics!LowCardinality, Statistics!NullableColumns,
     Statistics!Assessable, Statistics!Live, Statistics!DistinctRatioReaches, Statistics!IsFraction, Statistics!Checked
<1>3. ASSUME Statistics!SetNotNull(c)
      PROVE  /\ Statistics!HighNull' = Statistics!HighNull \ {c} /\ Statistics!NeverNull' = Statistics!NeverNull \ {c}
             /\ Statistics!NearUnique' = Statistics!NearUnique /\ Statistics!LowCardinality' = Statistics!LowCardinality
             /\ Statistics!MissingDefault' \ Statistics!MissingDefault \subseteq {c} \ default
  <2>1. rows' = rows /\ stats' = stats /\ unique' = unique /\ checked' = checked /\ default' = default /\ notNull' = notNull \cup {c}
    BY <1>3 DEF Statistics!SetNotNull
  <2>2. Statistics!Assessable' = Statistics!Assessable
    BY <2>1 DEF Statistics!Assessable, Statistics!Live
  <2>3. Statistics!HighNull' = Statistics!HighNull \ {c} /\ Statistics!NeverNull' = Statistics!NeverNull \ {c}
    BY <2>1, <2>2 DEF Statistics!HighNull, Statistics!NeverNull, Statistics!NullableColumns
  <2>4. Statistics!MissingDefault' \ Statistics!MissingDefault \subseteq {c} \ default
    BY <2>1 DEF Statistics!MissingDefault
  <2>. QED
    BY <1>2, <2>1, <2>3, <2>4
<1>4. ASSUME Statistics!AddUnique(c)
      PROVE  Statistics!NearUnique' = Statistics!NearUnique \ {c} /\ Statistics!NeverNull' = Statistics!NeverNull
  <2>1. rows' = rows /\ stats' = stats /\ unique' = unique \cup {c} /\ notNull' = notNull
    BY <1>4 DEF Statistics!AddUnique
  <2>2. Statistics!Assessable' = Statistics!Assessable
    BY <2>1 DEF Statistics!Assessable, Statistics!Live
  <2>3. Statistics!NearUnique' = Statistics!NearUnique \ {c}
    BY <2>1, <2>2 DEF Statistics!NearUnique, Statistics!DistinctRatioReaches, Statistics!IsFraction, Statistics!Live
  <2>. QED
    BY <1>2, <2>1, <2>3
<1>5. ASSUME Statistics!AddDefault(c)
      PROVE  Statistics!MissingDefault' = Statistics!MissingDefault \ {c} /\ Statistics!NeverNull' = Statistics!NeverNull
  <2>1. rows' = rows /\ stats' = stats /\ notNull' = notNull /\ default' = default \cup {c}
    BY <1>5 DEF Statistics!AddDefault
  <2>. QED
    BY <1>2, <2>1 DEF Statistics!MissingDefault
<1>6. ASSUME Statistics!AddCheck(c)
      PROVE  /\ c \notin Statistics!LowCardinality' /\ Statistics!LowCardinality' \subseteq Statistics!LowCardinality
             /\ Statistics!NearUnique' = Statistics!NearUnique
  <2>1. rows' = rows /\ stats' = stats /\ unique' = unique /\ checked' = checked \cup {c}
    BY <1>6 DEF Statistics!AddCheck
  <2>2. Statistics!Assessable' = Statistics!Assessable
    BY <2>1 DEF Statistics!Assessable, Statistics!Live
  <2>3. Statistics!Checked(c)' /\ \A other \in Statistics!Columns : Statistics!Checked(other) => Statistics!Checked(other)'
    BY <2>1, DefinitionsAssumption DEF Statistics!Checked, Statistics!OwnNames
  <2>4. c \notin Statistics!LowCardinality' /\ Statistics!LowCardinality' \subseteq Statistics!LowCardinality
    BY <2>1, <2>2, <2>3 DEF Statistics!LowCardinality, Statistics!IsFraction, Statistics!Assessable
  <2>. QED
    BY <1>2, <2>1, <2>4
<1>. QED
  BY <1>3, <1>4, <1>5, <1>6
=============================================================================
