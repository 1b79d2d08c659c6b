------------------------------ MODULE MCApply ------------------------------
(***************************************************************************)
(* Small schemas for the runs of Apply: two tables, two index names, and   *)
(* for each table the definitions between which every kind of change, and  *)
(* every change Diff refuses, occurs.                                      *)
(***************************************************************************)
EXTENDS Apply

Names4 == <<"a", "b", "ix", "iy">>

Text   == [name |-> "text", size |-> 0]
Bigint == [name |-> "bigint", size |-> 0]
Stamp  == [name |-> "timestamptz", size |-> 0]
Short  == [name |-> "varchar", size |-> 10]

Col(n, type) ==
  [name |-> n, type |-> type, nullable |-> TRUE, default |-> NoDefault, identity |-> ""]
NotNull(c)    == [c EXCEPT !.nullable = FALSE]
WithDef(c, d) == [c EXCEPT !.default = [expr |-> d, caps |-> FALSE, cast |-> FALSE]]

Id   == NotNull(Col("id", Bigint))
Note == Col("note", Text)

Tab(n, cols) ==
  [name |-> n, columns |-> cols, primaryKey |-> <<"id">>, uniques |-> <<>>,
   checks |-> <<>>, indexes |-> <<>>]
Idx(n, cols) == [name |-> n, columns |-> cols, include |-> <<>>, unique |-> FALSE]
Unique(i)    == [i EXCEPT !.unique = TRUE]
With(t, idxs) == [t EXCEPT !.indexes = idxs]

SmallCheck == [cond |-> "note in x,y", caps |-> FALSE, grouping |-> "flat", stored |-> FALSE]

\* Table a: the change of columns, constraints and indexes.
Narrow   == Tab("a", <<Id>>)
Plain    == Tab("a", <<Id, Note>>)
Stricter == Tab("a", <<Id, NotNull(Note)>>)
Retyped  == Tab("a", <<Id, Col("note", Short)>>)
Filled   == Tab("a", <<Id, WithDef(Note, "x"), NotNull(WithDef(Col("at", Stamp), "now()"))>>)
Keyless  == [Plain EXCEPT !.primaryKey = <<"note">>, !.columns = <<Id, NotNull(Note)>>]
Only     == [Plain EXCEPT !.uniques = <<<<"note">>>>]
Checked  == [Plain EXCEPT !.checks = <<SmallCheck>>]
OnNote   == With(Plain, <<Idx("ix", <<"note">>)>>)
OnBoth   == With(Plain, <<Idx("ix", <<"note", "id">>)>>)
Once     == With(Plain, <<Unique(Idx("ix", <<"note">>))>>)
Two      == With(Plain, <<Idx("ix", <<"id">>), Idx("iy", <<"note">>)>>)

\* Table b: an index that moves to it or away from it.
Other    == Tab("b", <<Id, Note>>)
Moved    == With(Other, <<Idx("ix", <<"note">>)>>)
MovedToo == With(Other, <<Unique(Idx("iy", <<"id">>))>>)

TablesA == {Narrow, Plain, Stricter, Retyped, Filled, Keyless, Only, Checked,
            OnNote, OnBoth, Once, Two}
TablesB == {Other, Moved, MovedToo}

\* An index name belongs to one table of a schema.
Disjoint(t, u) == Names(t.indexes) \cap Names(u.indexes) = {}

Schemas(as, bs) ==
  {<<>>} \cup {<<t>> : t \in as \cup bs}
         \cup {s \in {<<t, u>> : t \in as, u \in bs} : Disjoint(s[1], s[2])}

\* The catalog after schema s was created, its indexes built and rows stored.
CatalogOf(s) ==
  [tables  |-> [n \in Names(s) |-> [StoredAs(ByName(s, n)) EXCEPT !.rows = TRUE]],
   indexes |-> LET all == UNION {{[on |-> t.name, idx |-> i] : i \in ToSet(t.indexes)} :
                                   t \in ToSet(s)}
               IN  [n \in {x.idx.name : x \in all} |->
                      LET x == CHOOSE x \in all : x.idx.name = n
                      IN  [on |-> x.on, columns |-> x.idx.columns,
                           include |-> x.idx.include, unique |-> x.idx.unique,
                           state |-> "valid"]]]

NoHazards == {}

\* Every schema into every other.
AllSchemas   == Schemas(TablesA, TablesB)
SoloCatalogs == {CatalogOf(s) : s \in AllSchemas}
SoloDesired  == [{"ops"} -> AllSchemas]
SoloHazards  == {NoHazards, HazardTypes, {"INDEX_BUILD", "INDEX_DROPPED"}}

\* One operator that starts over after every crash, conflict and lost answer:
\* a migration with every category of statement in its plan.
Before == <<With(Plain, <<Idx("ix", <<"id">>)>>)>>
After  == <<With([Plain EXCEPT !.columns = <<Id, Note, Col("at", Stamp)>>],
                 <<Idx("ix", <<"note", "at">>)>>),
            With(Other, <<Unique(Idx("iy", <<"id">>))>>)>>
Leftover == Append(Before, MovedToo)

RerunCatalogs == {CatalogOf(s) : s \in {<<>>, Before, Leftover, After}}
RerunDesired  == [{"ops"} -> {After}]
AllHazards    == {HazardTypes}

\* Two operators, of one mind or not; an index name stays on its table.
PairSchemas  == {<<OnBoth>>, <<OnNote, Other>>, <<Two>>, <<Narrow, MovedToo>>}
PairCatalogs == {CatalogOf(s) : s \in {<<OnBoth>>, <<Narrow, MovedToo>>}}
PairDesired  == [{"ci", "ops"} -> PairSchemas]

\* Two operators of one mind; the index moves from table a to table b.
MoveCatalogs == {CatalogOf(<<OnNote, Other>>)}
MoveDesired  == {[p \in {"ci", "ops"} |-> <<Plain, Moved>>]}

\* Definitions that do not survive the round trip through the catalog.
Empty         == {CatalogOf(<<>>)}
Covering      == With(Plain, <<[Idx("ix", <<"id">>) EXCEPT !.include = <<"note">>]>>)
TableLevelKey == [Plain EXCEPT !.columns = <<Col("id", Bigint), Note>>]
IncludeDesired == {[p \in {"ops"} |-> <<Covering>>]}
KeyDesired     == {[p \in {"ops"} |-> <<TableLevelKey>>]}

\* Changes that compare equal.
Numbered == [Plain EXCEPT !.columns = <<[Id EXCEPT !.identity = "ALWAYS"], Note>>]
Loud     == [Plain EXCEPT !.columns =
               <<Id, [Note EXCEPT !.default = [expr |-> "x", caps |-> TRUE, cast |-> FALSE]]>>]
Quiet    == [Plain EXCEPT !.columns = <<Id, WithDef(Note, "x")>>]
Grouped(g) == [Plain EXCEPT !.checks = <<[SmallCheck EXCEPT !.cond = "p and q or r",
                                                            !.grouping = g]>>]
PlainCatalog    == {CatalogOf(<<Plain>>)}
IdentityDesired == {[p \in {"ops"} |-> <<Numbered>>]}
QuietCatalog    == {CatalogOf(<<Quiet>>)}
LoudDesired     == {[p \in {"ops"} |-> <<Loud>>]}
LeftCatalog     == {CatalogOf(<<Grouped("(p and q) or r")>>)}
RightDesired    == {[p \in {"ops"} |-> <<Grouped("p and (q or r)")>>]}

\* A number of retries the flag accepts.
Negative == -1

\* The schemas and catalogs of every run are such as the theorems about one
\* operator are stated for.
ASSUME HypothesesHold == WellPosed

=============================================================================
