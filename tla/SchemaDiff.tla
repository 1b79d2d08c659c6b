---------------------------- MODULE SchemaDiff ----------------------------
(***************************************************************************)
(* internal/schema: the schema model (model.go), the statements of a plan  *)
(* (plan.go, generate.go) and Diff (diff.go), which turns the live schema  *)
(* and the desired one into an ordered plan, or an error when the change   *)
(* is one Aurora DSQL has no statement for.                                *)
(*                                                                         *)
(* A schema is a sequence of tables. A primary key is the sequence of its  *)
(* columns, <<>> standing for nil; unique constraints are compared by      *)
(* their columns and check constraints by their expression, so constraint  *)
(* names are left out. A statement is a record instead of DDL text.        *)
(***************************************************************************)
EXTENDS Normalize, Sequences, FiniteSets, SequencesExt

Column == [name : STRING, type : Type, nullable : BOOLEAN, default : Default,
           identity : {"", "ALWAYS", "BY DEFAULT"}]
Index  == [name : STRING, columns : Seq(STRING), include : Seq(STRING),
           unique : BOOLEAN]
Table  == [name : STRING, columns : Seq(Column), primaryKey : Seq(STRING),
           uniques : Seq(Seq(STRING)), checks : Seq(Check), indexes : Seq(Index)]

HazardTypes == {"DELETES_DATA", "INDEX_BUILD", "INDEX_DROPPED", "CORRECTNESS"}

-----------------------------------------------------------------------------
(* Statements of a plan.                                                   *)

\* An identity column is written without its DEFAULT.
ColumnDef(c) == IF c.identity # "" THEN [c EXCEPT !.default = NoDefault] ELSE c

DropIndex(n, action) ==
  [op |-> "DropIndex", name |-> n, action |-> action, hazards |-> {"INDEX_DROPPED"}]
DropTable(n) ==
  [op |-> "DropTable", name |-> n, action |-> "-", hazards |-> {"DELETES_DATA"}]
CreateTable(t) ==
  [op |-> "CreateTable", name |-> t.name,
   table |-> [t EXCEPT !.columns = [i \in DOMAIN @ |-> ColumnDef(@[i])]],
   action |-> "+", hazards |-> {}]
AddColumn(t, c) ==
  [op |-> "AddColumn", name |-> t, column |-> ColumnDef(c), action |-> "~", hazards |-> {}]
CreateIndex(t, i, action) ==
  [op |-> "CreateIndex", name |-> i.name, on |-> t, index |-> i, action |-> action,
   hazards |-> {"INDEX_BUILD"}]

Statement ==
       [op : {"DropIndex"}, name : STRING, action : {"-", "+/-"},
        hazards : {{"INDEX_DROPPED"}}]
  \cup [op : {"DropTable"}, name : STRING, action : {"-"}, hazards : {{"DELETES_DATA"}}]
  \cup [op : {"CreateTable"}, name : STRING, table : Table, action : {"+"},
        hazards : {{}}]
  \cup [op : {"AddColumn"}, name : STRING, column : Column, action : {"~"},
        hazards : {{}}]
  \cup [op : {"CreateIndex"}, name : STRING, on : STRING, index : Index,
        action : {"+", "+/-"}, hazards : {{"INDEX_BUILD"}}]

-----------------------------------------------------------------------------
(* tableMap, columnMap and indexMap: by name, the last entry wins.         *)

Names(s) == {s[i].name : i \in DOMAIN s}

\* The entries of s in S, in order; SelectSeq is nothing the proofs can use.
Those(s, S) ==
  LET upto[i \in 0..Len(s)] == IF i = 0 THEN <<>>
                               ELSE IF s[i] \in S THEN Append(upto[i - 1], s[i]) ELSE upto[i - 1]
  IN  upto[Len(s)]

\* The entries of s whose name is not in N.
Unnamed(s, N) == Those(s, {x \in ToSet(s) : x.name \notin N})

ByName(s, n) ==
  s[CHOOSE i \in DOMAIN s : s[i].name = n /\ \A j \in DOMAIN s : s[j].name = n => j <= i]

-----------------------------------------------------------------------------
(* diffTable, the part that can fail.                                      *)

DroppedColumn(ct, dt) == ~(Names(ct.columns) \subseteq Names(dt.columns))

ChangedColumn(ct, dt) ==
  \E dc \in ToSet(dt.columns) :
    /\ dc.name \in Names(ct.columns)
    /\ LET cc == ByName(ct.columns, dc.name)
       IN  \/ NormalizeType(cc.type) # NormalizeType(dc.type)
           \/ cc.nullable # dc.nullable
           \/ normalizeDefault(cc.default) # normalizeDefault(dc.default)

diffPrimaryKey(ct, dt) == ct.primaryKey # dt.primaryKey

ChangedUnique(ct, dt) == ToSet(ct.uniques) # ToSet(dt.uniques)

CheckKeys(t) == {normalizeCheck(c) : c \in ToSet(t.checks)}

ChangedCheck(ct, dt) == CheckKeys(ct) # CheckKeys(dt)

Unsupported(ct, dt) ==
  \/ DroppedColumn(ct, dt)
  \/ ChangedColumn(ct, dt)
  \/ diffPrimaryKey(ct, dt)
  \/ ChangedUnique(ct, dt)
  \/ ChangedCheck(ct, dt)

-----------------------------------------------------------------------------
(* diffTable, the statements, by the category Diff files them under.       *)

indexKey(i) == <<i.columns, i.include, i.unique>>

Rebuilt(dt, ci) ==
  ci.name \in Names(dt.indexes) /\ indexKey(ci) # indexKey(ByName(dt.indexes, ci.name))

AddedColumns(ct, dt) ==
  LET new == Unnamed(dt.columns, Names(ct.columns))
  IN  [i \in DOMAIN new |-> AddColumn(dt.name, new[i])]

DroppedIndexes(ct, dt) ==
  LET gone == Those(ct.indexes,
                {ci \in ToSet(ct.indexes) : ci.name \notin Names(dt.indexes) \/ Rebuilt(dt, ci)})
  IN  [i \in DOMAIN gone |->
         DropIndex(gone[i].name, IF Rebuilt(dt, gone[i]) THEN "+/-" ELSE "-")]

\* Mutant: an index that is dropped for recreation is not created again.
CreatedIndexesNoRebuild(ct, dt) ==
  LET new == Unnamed(dt.indexes, Names(ct.indexes))
  IN  [i \in DOMAIN new |-> CreateIndex(dt.name, new[i], "+")]

\* Mutant: an index missing from a table that exists is not noticed.
CreatedIndexesNoNew(ct, dt) ==
  LET rebuilt == Those(ct.indexes, {ci \in ToSet(ct.indexes) : Rebuilt(dt, ci)})
  IN  [i \in DOMAIN rebuilt |->
         CreateIndex(dt.name, ByName(dt.indexes, rebuilt[i].name), "+/-")]

CreatedIndexes(ct, dt) ==
  LET rebuilt == Those(ct.indexes, {ci \in ToSet(ct.indexes) : Rebuilt(dt, ci)})
      new     == Unnamed(dt.indexes, Names(ct.indexes))
  IN  [i \in DOMAIN rebuilt |->
         CreateIndex(dt.name, ByName(dt.indexes, rebuilt[i].name), "+/-")]
      \o [i \in DOMAIN new |-> CreateIndex(dt.name, new[i], "+")]

NewTableIndexes(dt) ==
  [i \in DOMAIN dt.indexes |-> CreateIndex(dt.name, dt.indexes[i], "+")]

-----------------------------------------------------------------------------
(* Diff.                                                                   *)

DiffFails(current, desired) ==
  \E dt \in ToSet(desired) :
    dt.name \in Names(current) /\ Unsupported(ByName(current, dt.name), dt)

\* Mutant: the test for tables to drop is inverted.
DropOrdersInverted(current, desired) == SetToSeqs(Names(current) \cap Names(desired))

\* Tables to drop are found by ranging over a Go map: any order.
DropOrders(current, desired) == SetToSeqs(Names(current) \ Names(desired))

\* Mutant: indexes are created before the ones in their way are dropped.
AssembleCreateFirst(current, desired, drops) ==
  LET fresh   == Unnamed(desired, Names(current))
      altered == Those(desired, {dt \in ToSet(desired) : dt.name \in Names(current)})
      PerTable(Stmts(_, _)) ==
        FlattenSeq([i \in DOMAIN altered |->
                      Stmts(ByName(current, altered[i].name), altered[i])])
  IN  [i \in DOMAIN fresh |-> CreateTable(fresh[i])]
      \o PerTable(AddedColumns)
      \o FlattenSeq([i \in DOMAIN fresh |-> NewTableIndexes(fresh[i])])
      \o PerTable(CreatedIndexes)
      \o PerTable(DroppedIndexes)
      \o [i \in DOMAIN drops |-> DropTable(drops[i])]

Assemble(current, desired, drops) ==
  LET fresh   == Unnamed(desired, Names(current))
      altered == Those(desired, {dt \in ToSet(desired) : dt.name \in Names(current)})
      PerTable(Stmts(_, _)) ==
        FlattenSeq([i \in DOMAIN altered |->
                      Stmts(ByName(current, altered[i].name), altered[i])])
  IN  PerTable(DroppedIndexes)
      \o [i \in DOMAIN drops |-> DropTable(drops[i])]
      \o [i \in DOMAIN fresh |-> CreateTable(fresh[i])]
      \o PerTable(AddedColumns)
      \o FlattenSeq([i \in DOMAIN fresh |-> NewTableIndexes(fresh[i])])
      \o PerTable(CreatedIndexes)

\* Every plan Diff may return.
Diff(current, desired) ==
  {Assemble(current, desired, drops) : drops \in DropOrders(current, desired)}

-----------------------------------------------------------------------------
(* Schema files that say what they mean: nothing is defined twice, keys    *)
(* and indexes are over columns of their table, an identity column is NOT  *)
(* NULL and has no DEFAULT of its own.                                     *)

Distinct(s) == \A i, j \in DOMAIN s : s[i].name = s[j].name => i = j

WellFormedTable(t) ==
  /\ Distinct(t.columns)
  /\ Distinct(t.indexes)
  /\ ToSet(t.primaryKey) \subseteq Names(t.columns)
  /\ \A c \in ToSet(t.columns) :
       c.identity # "" => ~c.nullable /\ c.default = NoDefault
  /\ \A i \in ToSet(t.indexes) :
       ToSet(i.columns \o i.include) \subseteq Names(t.columns)

\* An index name belongs to one table.
IndexesApart(d) ==
  \A t, u \in ToSet(d) : t.name = u.name \/ Names(t.indexes) \cap Names(u.indexes) = {}

WellFormed(d) ==
  /\ Distinct(d)
  /\ \A t \in ToSet(d) : WellFormedTable(t)
  /\ IndexesApart(d)

=============================================================================
