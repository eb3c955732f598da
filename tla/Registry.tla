------------------------------ MODULE Registry ------------------------------
(***************************************************************************)
(* Identity and displayed position of categories and checks (registry.py,  *)
(* the filters of runner.py and the list-checks command of cli.py).        *)
(*                                                                         *)
(* Maintainers add and remove category packages and checks and edit        *)
(* _CATEGORY_ORDER, each step a release of its own; an auditor looks at    *)
(* list-checks under one release, writes down a filter, and runs with it   *)
(* under a later one.                                                      *)
(***************************************************************************)
EXTENDS Naturals, Sequences, FiniteSets, SequencesExt

CONSTANTS
    Packages,       \* records [slug, checks], checks being records [slug, bullet]
    OutOfSync,      \* discover_categories raised ValueError
    NoFilter,       \* no --category, no --check
    MaxOrder,       \* the longest _CATEGORY_ORDER considered
    MaxReleases

\* Each package's own _CHECKS gives its bullets once each.
ASSUME BulletsAssumption == \A p \in Packages : \A k, j \in p.checks : k.bullet = j.bullet => k = j

\* There are finitely many packages to install.
ASSUME PackagesAssumption == IsFiniteSet(Packages)

VARIABLES
    installed,  \* the packages under categories/
    order,      \* _CATEGORY_ORDER
    noted,      \* what the auditor wrote down: [slugs, ids, numbers] filters, or NoFilter
    shown,      \* (history) the numbered categories list-checks showed then
    ran,        \* the checks the last run selected, OutOfSync, or NoFilter before it
    releases,
    sinceNoted  \* (history) the releases since the auditor looked

vars == <<installed, order, noted, shown, ran, releases, sinceNoted>>

-----------------------------------------------------------------------------
(* discover_categories.  A numbered category is [slug, number, checks].    *)

\* _stamp_category_numbers: list.index, so the first position counts.
StampCategoryNumbers(found, sequence) ==
    IF {p.slug : p \in found} # ToSet(sequence) THEN OutOfSync
    ELSE {[slug |-> p.slug, checks |-> p.checks,
           number |-> SelectInSeq(sequence, LAMBDA s : s = p.slug)] : p \in found}

DiscoverCategories == StampCategoryNumbers(installed, order)

\* Mutation: the bullet alone.
DisplayBullet(number, bullet) == <<0, bullet>>

\* The "NN.NN" id, as the pair it is written from.
DisplayCheckId(number, bullet) == <<number, bullet>>

\* Mutation: the displayed ids are looked at before the slugs.
MatchesIdOnly(check, id, filter) ==
    IF filter.slugs = {} /\ filter.ids = {} THEN TRUE ELSE id \in filter.ids

MatchesCheckFilter(check, id, filter) ==
    (filter.slugs = {} /\ filter.ids = {}) \/ check.slug \in filter.slugs \/ id \in filter.ids

MatchesCategoryFilter(category, filter) == filter.numbers = {} \/ category.number \in filter.numbers

\* The checks run_audit selects, with the category each belongs to.
Selected(found, filter) ==
    {s \in UNION {{<<c, k>> : k \in c.checks} : c \in found} :
        /\ MatchesCategoryFilter(s[1], filter)
        /\ MatchesCheckFilter(s[2], DisplayCheckId(s[1].number, s[2].bullet), filter)}

ChecksOf(selection) == {[category |-> s[1].slug, check |-> s[2].slug] : s \in selection}

-----------------------------------------------------------------------------
(* The maintainers: one edit a release.                                    *)

Release ==
    /\ releases < MaxReleases /\ releases' = releases + 1 /\ sinceNoted' = sinceNoted + 1
    /\ UNCHANGED <<noted, shown, ran>>

AddPackage(p) ==
    /\ \A q \in installed : q.slug # p.slug
    /\ installed' = installed \cup {p} /\ Release /\ UNCHANGED order
RemovePackage(p) ==
    /\ p \in installed /\ installed' = installed \ {p} /\ Release /\ UNCHANGED order
\* A package's next version: checks come and go.
ChangePackage(p) ==
    /\ \E q \in installed : q # p /\ q.slug = p.slug /\ installed' = (installed \ {q}) \cup {p}
    /\ Release /\ UNCHANGED order
InsertIntoOrder(slug) ==
    /\ Len(order) < MaxOrder
    /\ \E n \in 1..Len(order) + 1 : order' = InsertAt(order, n, slug)
    /\ Release /\ UNCHANGED installed
RemoveFromOrder ==
    /\ \E n \in DOMAIN order : order' = RemoveAt(order, n)
    /\ Release /\ UNCHANGED installed
\* "A one-line edit": a category is moved to another position.
MoveInOrder ==
    /\ \E n, k \in DOMAIN order : n # k /\ order' = InsertAt(RemoveAt(order, n), k, order[n])
    /\ Release /\ UNCHANGED installed

Maintainers ==
    \/ \E p \in Packages : AddPackage(p) \/ RemovePackage(p) \/ ChangePackage(p) \/ InsertIntoOrder(p.slug)
    \/ RemoveFromOrder \/ MoveInOrder

-----------------------------------------------------------------------------
(* The auditor.                                                            *)

\* list-checks, and the filter written down from it: some checks by slug, or
\* some by displayed id, or some categories by number.
ListChecks ==
    /\ noted = NoFilter /\ DiscoverCategories # OutOfSync
    /\ shown' = DiscoverCategories
    /\ LET slugs == {k.slug : k \in UNION {c.checks : c \in shown'}}
           ids == {DisplayCheckId(s[1].number, s[2].bullet) :
                     s \in Selected(shown', [slugs |-> {}, ids |-> {}, numbers |-> {}])}
       IN \/ \E S \in SUBSET slugs : S # {} /\ noted' = [slugs |-> S, ids |-> {}, numbers |-> {}]
          \/ \E id \in ids : noted' = [slugs |-> {}, ids |-> {id}, numbers |-> {}]
          \/ \E c \in shown' : noted' = [slugs |-> {}, ids |-> {}, numbers |-> {c.number}]
    /\ sinceNoted' = 0 /\ UNCHANGED <<installed, order, ran, releases>>

\* The run with the filter written down.
Run ==
    /\ noted # NoFilter /\ ran = NoFilter
    /\ ran' = IF DiscoverCategories = OutOfSync THEN OutOfSync ELSE Selected(DiscoverCategories, noted)
    /\ UNCHANGED <<installed, order, noted, shown, releases, sinceNoted>>

Over == (ran # NoFilter \/ releases = MaxReleases) /\ UNCHANGED vars

Init ==
    /\ installed \in SUBSET Packages
    /\ \A p, q \in installed : p.slug = q.slug => p = q
    /\ order \in SetToSeqs({p.slug : p \in installed})
    /\ noted = NoFilter /\ shown = {} /\ ran = NoFilter
    /\ releases = 0 /\ sinceNoted = 0

Next == (ran = NoFilter /\ Maintainers) \/ ListChecks \/ Run \/ Over

Spec == Init /\ [][Next]_vars

-----------------------------------------------------------------------------
Succeeded == ran \notin {NoFilter, OutOfSync}

\* Every variable has its type; what a run selects is installed.
TypeOK ==
    /\ installed \subseteq Packages /\ Len(order) <= MaxOrder /\ ToSet(order) \subseteq {p.slug : p \in Packages}
    /\ releases \in 0..MaxReleases /\ sinceNoted \in 0..MaxReleases
    /\ Succeeded => \A s \in ran : [slug |-> s[1].slug, checks |-> s[1].checks] \in installed

\* A filter of slugs means the same checks for ever: whatever was reordered,
\* added or removed since it was written down, the run selects just the checks
\* of those slugs that are still there.
SlugsAreStable ==
    Succeeded /\ noted.slugs # {} =>
        ChecksOf(ran) = UNION {{[category |-> p.slug, check |-> k.slug] : k \in {j \in p.checks : j.slug \in noted.slugs}}
                                  : p \in installed}

\* An id read off list-checks selects, in the same release, exactly the check
\* it was shown beside, and a run never shows two checks under one id.
IdsMeanWhatTheyShow ==
    Succeeded =>
        /\ \A s, z \in ran : DisplayCheckId(s[1].number, s[2].bullet) = DisplayCheckId(z[1].number, z[2].bullet) => s = z
        /\ noted.ids # {} /\ sinceNoted = 0 =>
              \E c \in shown : \E k \in c.checks :
                  ran = {<<c, k>>} /\ noted.ids = {DisplayCheckId(c.number, k.bullet)}

-----------------------------------------------------------------------------
(* What the docs say and the code does not do: none of these holds.        *)

\* README.md:197: "a loud ValueError at discovery if that list and the
\* discovered categories' slugs ever disagree": a run that succeeds has each
\* category in the order exactly once.
OrderIsExact == Succeeded => Len(order) = Cardinality(installed)

\* README.md:197: the slug is "the stable identity a check/category is referred
\* to by, in -k/-c filters": a filter of categories selects the checks of the
\* categories it was written down for, those still there.
CategoryFilterIsStable ==
    Succeeded /\ noted.numbers # {} =>
        {s.category : s \in ChecksOf(ran)} \subseteq {c.slug : c \in {d \in shown : d.number \in noted.numbers}}
=============================================================================
