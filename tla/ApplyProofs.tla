---------------------------- MODULE ApplyProofs ----------------------------
(***************************************************************************)
(* Proofs about module Apply, for every set of operators, every catalog    *)
(* and schema, every plan Diff may return and every value of the bounds.   *)
(***************************************************************************)
EXTENDS Apply, SchemaDiffProofs

-----------------------------------------------------------------------------
(* The catalog stays well typed under every DDL statement.                 *)

\* What the catalog stores for a column is a column.
LEMMA StoredColumnType ==
  ASSUME NEW c \in Column, NEW pk
  PROVE  Stored(c, pk) \in Column
<1>1. c.type \in Type /\ c.default \in Default /\ c.nullable \in BOOLEAN
  BY DEF Column
<1>2. format_type(c.type) \in Type
  <2>1. \A n \in TypeNames, k \in Nat :
          [c.type EXCEPT !.name = n] \in Type /\ [c.type EXCEPT !.name = n, !.size = k] \in Type
    BY <1>1 DEF Type
  <2>2. (IF c.type.size = 0 THEN 1 ELSE c.type.size) \in Nat
    BY <1>1 DEF Type
  <2>3. \/ \E n \in TypeNames : format_type(c.type) = [c.type EXCEPT !.name = n]
        \/ \E n \in TypeNames, k \in Nat :
             format_type(c.type) = [c.type EXCEPT !.name = n, !.size = k]
        \/ format_type(c.type) = c.type
    BY <1>1, <2>2 DEF format_type, TypeNames
  <2> QED
    BY <1>1, <2>1, <2>3
<1>3. (IF c.default = NoDefault THEN c.default ELSE [c.default EXCEPT !.cast = TRUE])
        \in Default
  BY <1>1 DEF Default
<1>4. (c.nullable /\ c.name \notin ToSet(pk) /\ c.identity = "") \in BOOLEAN
  OBVIOUS
<1> QED
  BY <1>2, <1>3, <1>4 DEF Stored, Column

LEMMA StoredColumnsType ==
  ASSUME NEW cols \in Seq(Column), NEW pk
  PROVE  [i \in DOMAIN cols |-> Stored(cols[i], pk)] \in Seq(Column)
<1>1. DOMAIN cols = 1..Len(cols) /\ Len(cols) \in Nat
  OBVIOUS
<1>2. \A i \in 1..Len(cols) : Stored(cols[i], pk) \in Column
  BY StoredColumnType
<1> QED
  BY <1>1, <1>2

\* What the catalog stores for a table is a stored table.
LEMMA StoredAsType ==
  ASSUME NEW t \in Table
  PROVE  StoredAs(t) \in StoredTable
<1>1. /\ t.columns \in Seq(Column)
      /\ t.primaryKey \in Seq(STRING)
      /\ t.uniques \in Seq(Seq(STRING))
      /\ t.checks \in Seq(Check)
  BY DEF Table
<1>2. [i \in DOMAIN t.columns |-> Stored(t.columns[i], t.primaryKey)] \in Seq(Column)
  BY <1>1, StoredColumnsType
<1>3. [i \in DOMAIN t.checks |-> [t.checks[i] EXCEPT !.stored = TRUE]] \in Seq(Check)
  <2>1. DOMAIN t.checks = 1..Len(t.checks) /\ Len(t.checks) \in Nat
    BY <1>1
  <2>2. \A i \in 1..Len(t.checks) : [t.checks[i] EXCEPT !.stored = TRUE] \in Check
    <3> SUFFICES ASSUME NEW i \in 1..Len(t.checks)
                 PROVE  [t.checks[i] EXCEPT !.stored = TRUE] \in Check
      OBVIOUS
    <3>1. t.checks[i] \in Check
      BY <1>1
    <3> QED
      BY <3>1 DEF Check
  <2> QED
    BY <2>1, <2>2
<1> QED
  BY <1>1, <1>2, <1>3 DEF StoredAs, StoredTable

\* A statement that commits leaves a well-typed catalog.
LEMMA ApplyDDLType ==
  ASSUME CatalogTypeOK, NEW stmt \in Statement, ApplyDDL(stmt)
  PROVE  CatalogTypeOK'
<1> USE DEF CatalogTypeOK
<1>1. CASE stmt.op = "CreateTable" /\ ApplyCreateTable(stmt)
  <2>1. stmt.name \in STRING /\ stmt.table \in Table
    BY <1>1 DEF Statement
  <2>2. StoredAs(stmt.table) \in StoredTable
    BY <2>1, StoredAsType
  <2> QED
    BY <1>1, <2>1, <2>2 DEF ApplyCreateTable, Put
<1>2. CASE stmt.op = "DropTable" /\ ApplyDropTable(stmt)
  BY <1>2 DEF ApplyDropTable, Restrict
<1>3. CASE stmt.op = "AddColumn" /\ ApplyAddColumn(stmt)
  <2>1. stmt.name \in STRING /\ stmt.column \in Column
    BY <1>3 DEF Statement
  <2>2. stmt.name \in DOMAIN tables
    BY <1>3 DEF ApplyDDL, Refused
  <2>3. Append(tables[stmt.name].columns, Stored(stmt.column, <<>>)) \in Seq(Column)
    BY <2>1, <2>2, StoredColumnType DEF StoredTable
  <2>4. [tables[stmt.name] EXCEPT !.columns = Append(@, Stored(stmt.column, <<>>))]
          \in StoredTable
    BY <2>2, <2>3 DEF StoredTable
  <2> QED
    BY <1>3, <2>2, <2>4 DEF ApplyAddColumn
<1>4. CASE stmt.op = "CreateIndex" /\ ApplyCreateIndex(stmt)
  <2>1. stmt.name \in STRING /\ stmt.on \in STRING /\ stmt.index \in Index
    BY <1>4 DEF Statement
  <2>2. [on |-> stmt.on, columns |-> stmt.index.columns, include |-> stmt.index.include,
         unique |-> stmt.index.unique, state |-> "building"] \in StoredIndex
    BY <2>1 DEF Index, StoredIndex
  <2> QED
    BY <1>4, <2>1, <2>2 DEF ApplyCreateIndex, Put
<1>5. CASE stmt.op = "DropIndex" /\ ApplyDropIndex(stmt)
  BY <1>5 DEF ApplyDropIndex, Restrict
<1> QED
  BY <1>1, <1>2, <1>3, <1>4, <1>5 DEF ApplyDDL

-----------------------------------------------------------------------------
(* What introspection has read is a schema at every moment, whatever other *)
(* runs do to the catalog between its queries.                             *)

LEMMA NormalizeTypeType ==
  ASSUME NEW t \in Type
  PROVE  NormalizeType(t) \in Type
<1>1. \A n \in TypeNames : [t EXCEPT !.name = n] \in Type
  BY DEF Type
<1>2. \A a \in DOMAIN typeAliases : typeAliases[a] \in TypeNames
  BY DEF typeAliases, TypeNames
<1>3. "varchar" \in TypeNames /\ "char" \in TypeNames
  BY DEF TypeNames
<1> QED
  BY <1>1, <1>2, <1>3 DEF NormalizeType

LEMMA introspectColumnsType ==
  ASSUME CatalogTypeOK, NEW t \in DOMAIN tables
  PROVE  introspectColumns(t) \in Seq(Column)
<1>1. PICK cols \in Seq(Column) : cols = tables[t].columns
  BY DEF CatalogTypeOK, StoredTable
<1>2. Len(cols) \in Nat /\ DOMAIN cols = 1..Len(cols)
  BY <1>1
<1> DEFINE read(c) == [c EXCEPT !.type = NormalizeType(@),
                                !.default = IF c.identity # "" THEN NoDefault ELSE @]
<1>3. \A c \in Column : read(c) \in Column
  BY NormalizeTypeType DEF Column, Default
<1>4. introspectColumns(t) = [i \in DOMAIN cols |-> read(cols[i])]
  BY <1>1 DEF introspectColumns
<1>5. \A i \in 1..Len(cols) : read(cols[i]) \in Column
  <2> HIDE DEF read
  <2> QED
    BY <1>2, <1>3
<1> HIDE DEF read
<1> QED
  BY <1>2, <1>4, <1>5

LEMMA introspectIndexesType ==
  ASSUME CatalogTypeOK, NEW t
  PROVE  introspectIndexes(t) \in Seq(Index)
<1> DEFINE here == {n \in DOMAIN indexes : indexes[n].on = t /\ indexes[n].state = "valid"}
<1>1. Those(Relnames, here) \in Seq(STRING \cap here)
  <2> HIDE DEF here
  <2> QED
    BY RelnamesAssumption, ThoseType
<1>2. PICK names \in Seq(STRING \cap here) : names = InRelnameOrder(here)
  BY <1>1 DEF InRelnameOrder
<1>3. Len(names) \in Nat /\ DOMAIN names = 1..Len(names)
  BY <1>2
<1>4. \A i \in 1..Len(names) : names[i] \in STRING /\ names[i] \in DOMAIN indexes
  BY <1>2, <1>3
<1>5. \A i \in 1..Len(names) : indexes[names[i]].unique \in BOOLEAN
  BY <1>4 DEF CatalogTypeOK, StoredIndex
<1>6. <<>> \in Seq(STRING)
  OBVIOUS
<1>7. \A i \in 1..Len(names) : [name |-> names[i], columns |-> <<>>, include |-> <<>>,
                                unique |-> indexes[names[i]].unique] \in Index
  BY <1>4, <1>5, <1>6 DEF Index
<1>8. introspectIndexes(t) = [i \in DOMAIN names |->
        [name |-> names[i], columns |-> <<>>, include |-> <<>>, unique |-> indexes[names[i]].unique]]
  BY <1>2 DEF introspectIndexes
<1> QED
  BY <1>3, <1>7, <1>8

LEMMA introspectIndexColumnsType ==
  ASSUME CatalogTypeOK, NEW n
  PROVE  introspectIndexColumns(n) \in Seq(STRING)
<1>1. CASE n \in DOMAIN indexes
  <2>1. indexes[n].columns \in Seq(STRING) /\ indexes[n].include \in Seq(STRING)
    BY <1>1 DEF CatalogTypeOK, StoredIndex
  <2> QED
    BY <1>1, <2>1, JoinedType DEF introspectIndexColumns
<1>2. CASE n \notin DOMAIN indexes
  <2>1. <<>> \in Seq(STRING)
    OBVIOUS
  <2> QED
    BY <1>2, <2>1 DEF introspectIndexColumns
<1> QED
  BY <1>1, <1>2

LEMMA ReplacedType ==
  ASSUME NEW A, NEW v \in Seq(A), NEW k, NEW w, k \in DOMAIN v => w \in A
  PROVE  [v EXCEPT ![k] = w] \in Seq(A)
<1> DEFINE e == [v EXCEPT ![k] = w]
<1>1. PICK n \in Nat : n = Len(v) /\ DOMAIN v = 1..n
  OBVIOUS
<1>2. \A i \in 1..n : e[i] \in A
  BY <1>1
<1>3. e = [i \in 1..n |-> e[i]]
  BY <1>1
<1> HIDE DEF e
<1>4. e \in Seq(A)
  BY <1>2, <1>3
<1> QED
  BY <1>4 DEF e

\* One entry of what was read, or one index of it, is replaced.
LEMMA EntryType ==
  ASSUME NEW v \in Seq(Table), NEW k
  PROVE  /\ \A f \in Seq(Index) : [v EXCEPT ![k].indexes = f] \in Seq(Table)
         /\ \A j, c : c \in Seq(STRING) => [v EXCEPT ![k].indexes[j].columns = c] \in Seq(Table)
         /\ \A t \in StoredTable : [v EXCEPT ![k].primaryKey = t.primaryKey,
                                             ![k].uniques = t.uniques,
                                             ![k].checks = t.checks] \in Seq(Table)
<1>1. k \in DOMAIN v => v[k] \in Table
  OBVIOUS
<1>2. ASSUME NEW f \in Seq(Index) PROVE [v EXCEPT ![k].indexes = f] \in Seq(Table)
  <2>1. k \in DOMAIN v => [v[k] EXCEPT !.indexes = f] \in Table
    BY <1>1 DEF Table
  <2> QED
    BY <2>1, ReplacedType
<1>3. ASSUME NEW j, NEW c, c \in Seq(STRING)
      PROVE  [v EXCEPT ![k].indexes[j].columns = c] \in Seq(Table)
  <2>1. k \in DOMAIN v => [v[k] EXCEPT !.indexes[j].columns = c] \in Table
    <3> SUFFICES ASSUME k \in DOMAIN v PROVE [v[k] EXCEPT !.indexes[j].columns = c] \in Table
      OBVIOUS
    <3>1. PICK idx \in Seq(Index) : idx = v[k].indexes
      BY <1>1 DEF Table
    <3>2. j \in DOMAIN idx => [idx[j] EXCEPT !.columns = c] \in Index
      <4>1. j \in DOMAIN idx => idx[j] \in Index
        BY <3>1
      <4> QED
        BY <1>3, <4>1 DEF Index
    <3>3. [idx EXCEPT ![j].columns = c] \in Seq(Index)
      BY <3>2, ReplacedType
    <3> QED
      BY <1>1, <3>1, <3>3 DEF Table
  <2> QED
    BY <2>1, ReplacedType
<1>4. ASSUME NEW t \in StoredTable
      PROVE  [v EXCEPT ![k].primaryKey = t.primaryKey,
                       ![k].uniques = t.uniques,
                       ![k].checks = t.checks] \in Seq(Table)
  <2>1. t.primaryKey \in Seq(STRING) /\ t.uniques \in Seq(Seq(STRING)) /\ t.checks \in Seq(Check)
    BY DEF StoredTable
  <2>2. [v EXCEPT ![k].primaryKey = t.primaryKey] \in Seq(Table)
    <3>1. k \in DOMAIN v => [v[k] EXCEPT !.primaryKey = t.primaryKey] \in Table
      BY <1>1, <2>1 DEF Table
    <3> QED
      BY <3>1, ReplacedType
  <2>3. PICK v1 \in Seq(Table) : v1 = [v EXCEPT ![k].primaryKey = t.primaryKey]
    BY <2>2
  <2>4. k \in DOMAIN v1 => v1[k] \in Table
    BY <2>3
  <2>5. [v1 EXCEPT ![k].uniques = t.uniques] \in Seq(Table)
    <3>1. k \in DOMAIN v1 => [v1[k] EXCEPT !.uniques = t.uniques] \in Table
      BY <2>1, <2>4 DEF Table
    <3> QED
      BY <3>1, ReplacedType
  <2>6. PICK v2 \in Seq(Table) : v2 = [v1 EXCEPT ![k].uniques = t.uniques]
    BY <2>5
  <2>7. k \in DOMAIN v2 => v2[k] \in Table
    BY <2>6
  <2>8. [v2 EXCEPT ![k].checks = t.checks] \in Seq(Table)
    <3>1. k \in DOMAIN v2 => [v2[k] EXCEPT !.checks = t.checks] \in Table
      BY <2>1, <2>7 DEF Table
    <3> QED
      BY <3>1, ReplacedType
  <2> QED
    BY <2>3, <2>6, <2>8
<1> QED
  BY <1>2, <1>3, <1>4

LEMMA ViewType ==
  ASSUME CatalogTypeOK, view \in [Operators -> Seq(Table)], NEW p \in Operators, Introspection(p)
  PROVE  view' \in [Operators -> Seq(Table)]
<1>1. <<>> \in Seq(Table)
  OBVIOUS
<1>2. CASE ListTables(p)
  BY <1>1, <1>2 DEF ListTables
<1>3. CASE ReadColumns(p)
  <2> DEFINE t == Head(todo[p])
             new == [name |-> t, columns |-> introspectColumns(t), primaryKey |-> <<>>,
                     uniques |-> <<>>, checks |-> <<>>, indexes |-> <<>>]
  <2>1. t \in DOMAIN tables /\ t \in STRING
    BY <1>3 DEF ReadColumns, CatalogTypeOK
  <2>2. /\ introspectColumns(t) \in Seq(Column)
        /\ <<>> \in Seq(STRING) /\ <<>> \in Seq(Seq(STRING)) /\ <<>> \in Seq(Check) /\ <<>> \in Seq(Index)
    BY <2>1, introspectColumnsType
  <2>3. new \in Table
    BY <2>1, <2>2 DEF Table
  <2>4. view' = [view EXCEPT ![p] = Append(@, new)]
    BY <1>3 DEF ReadColumns
  <2> HIDE DEF new
  <2> QED
    BY <2>3, <2>4
<1>4. CASE ReadConstraints(p)
  <2> DEFINE t == Head(todo[p])
  <2>1. tables[t] \in StoredTable
    BY <1>4 DEF ReadConstraints, CatalogTypeOK
  <2> DEFINE k == Len(view[p])
             w == [view[p] EXCEPT ![k].primaryKey = tables[t].primaryKey,
                                  ![k].uniques = tables[t].uniques,
                                  ![k].checks = tables[t].checks]
  <2>2. w \in Seq(Table)
    BY <2>1, EntryType
  <2>3. view' = [view EXCEPT ![p] = w]
    BY <1>4 DEF ReadConstraints
  <2> HIDE DEF w
  <2> QED
    BY <2>2, <2>3
<1>5. CASE TableVanished(p)
  BY <1>5 DEF TableVanished, introspectVars
<1>6. CASE ReadIndexes(p)
  BY <1>6, introspectIndexesType, EntryType DEF ReadIndexes
<1>7. CASE ReadIndexColumns(p)
  BY <1>7, introspectIndexColumnsType, EntryType DEF ReadIndexColumns
<1> QED
  BY <1>2, <1>3, <1>4, <1>5, <1>6, <1>7 DEF Introspection

-----------------------------------------------------------------------------
(* Type correctness.                                                       *)

LEMMA Bounds == MaxConflicts \in Nat /\ MaxFaults \in Nat /\ MaxBadBuilds \in Nat
BY ApplyAssumption

LEMMA EmptyPlan == <<>> \in Seq(Statement) /\ <<>> \in Seq(Table)
OBVIOUS

Faults == [conflicts : 0..MaxConflicts, crashes : 0..MaxFaults,
           badBuilds : 0..MaxBadBuilds]

\* Counting one more event below its bound.
LEMMA FaultsType ==
  ASSUME NEW f \in Faults
  PROVE  /\ f.conflicts < MaxConflicts => [f EXCEPT !.conflicts = @ + 1] \in Faults
         /\ f.crashes < MaxFaults => [f EXCEPT !.crashes = @ + 1] \in Faults
         /\ f.badBuilds < MaxBadBuilds => [f EXCEPT !.badBuilds = @ + 1] \in Faults
<1>1. \A n \in Nat : \A k \in 0..n : k < n => k + 1 \in 0..n
  OBVIOUS
<1>2. /\ f.conflicts < MaxConflicts => f.conflicts + 1 \in 0..MaxConflicts
      /\ f.crashes < MaxFaults => f.crashes + 1 \in 0..MaxFaults
      /\ f.badBuilds < MaxBadBuilds => f.badBuilds + 1 \in 0..MaxBadBuilds
  BY <1>1, Bounds DEF Faults
<1> QED
  BY <1>2 DEF Faults

LEMMA CounterType ==
  ASSUME NEW f \in [Operators -> Nat], NEW p \in Operators
  PROVE  [f EXCEPT ![p] = @ + 1] \in [Operators -> Nat] /\ [f EXCEPT ![p] = 0] \in [Operators -> Nat]
OBVIOUS

\* A commit keeps the types of everything it touches.
LEMMA CommitType ==
  ASSUME TypeOK, NEW p \in Operators, Sending(p), Commit(p)
  PROVE  /\ CatalogTypeOK'
         /\ executed' \in [Operators -> Seq(Statement)]
         /\ lost' \subseteq [by : Operators, table : STRING]
<1>1. Current(p) \in Statement
  BY DEF TypeOK, Sending, Current
<1>2. CatalogTypeOK'
  BY <1>1, ApplyDDLType DEF TypeOK, Commit
<1>3. executed' \in [Operators -> Seq(Statement)]
  BY <1>1 DEF TypeOK, Commit
<1>4. Current(p).name \in STRING
  BY <1>1 DEF Statement
<1>5. [by |-> p, table |-> Current(p).name] \in [by : Operators, table : STRING]
  BY <1>4
<1>6. lost' \subseteq [by : Operators, table : STRING]
  BY <1>5 DEF TypeOK, Commit
<1> QED
  BY <1>2, <1>3, <1>6

LEMMA InitType == Init => TypeOK
<1> SUFFICES ASSUME Init
             PROVE  TypeOK
  OBVIOUS
<1>1. CatalogTypeOK
  BY ApplyAssumption DEF Init, CatalogTypeOK
<1>2. allowed \in [Operators -> SUBSET HazardTypes]
  BY ApplyAssumption DEF Init
<1>3. faults \in [conflicts : 0..MaxConflicts, crashes : 0..MaxFaults,
                  badBuilds : 0..MaxBadBuilds]
  <2>1. 0 \in 0..MaxConflicts /\ 0 \in 0..MaxFaults /\ 0 \in 0..MaxBadBuilds
    BY Bounds
  <2>2. faults = [conflicts |-> 0, crashes |-> 0, badBuilds |-> 0]
    BY DEF Init
  <2> QED
    BY <2>1, <2>2
<1> QED
  BY <1>1, <1>2, <1>3, EmptyPlan DEF Init, TypeOK, Ended, Reading, Deciding, Executing, Errors

\* The steps of an operator that leave the catalog alone.
LEMMA QuietType ==
  ASSUME TypeOK, NEW p \in Operators,
         \/ Start(p) \/ Introspection(p) \/ DiffSchemas(p) \/ CheckHazards(p)
         \/ Confirm(p) \/ Decline(p) \/ StatementRefused(p) \/ StatementConflicts(p)
         \/ Retry(p) \/ Finish(p)
  PROVE  TypeOK'
<1>0. UNCHANGED dbVars => CatalogTypeOK'
  BY DEF TypeOK, CatalogTypeOK, dbVars
<1> USE DEF TypeOK, configVars, introspectVars, historyVars, dbVars, Goto, Fail,
            Ended, Reading, Deciding, Executing, Errors
<1>1. CASE Start(p)
  BY <1>0, <1>1, EmptyPlan DEF Start
<1>2. CASE Introspection(p)
  <2> USE DEF Introspecting, NextTable, TableRead
  <2>0. view' \in [Operators -> Seq(Table)]
    BY <1>2, ViewType
  <2>1. CASE ListTables(p)
    BY <1>0, <2>0, <2>1 DEF ListTables
  <2>2. CASE ReadColumns(p)
    BY <1>0, <2>0, <2>2 DEF ReadColumns
  <2>3. CASE ReadConstraints(p)
    BY <1>0, <2>0, <2>3 DEF ReadConstraints
  <2>4. CASE TableVanished(p)
    BY <1>0, <2>0, <2>4 DEF TableVanished
  <2>5. CASE ReadIndexes(p)
    BY <1>0, <2>0, <2>5 DEF ReadIndexes
  <2>6. CASE ReadIndexColumns(p)
    BY <1>0, <2>0, <2>6 DEF ReadIndexColumns
  <2> QED
    BY <1>2, <2>1, <2>2, <2>3, <2>4, <2>5, <2>6 DEF Introspection
<1>3. CASE DiffSchemas(p)
  <2>1. \A stmts \in Diff(view[p], desired[p]) : stmts \in Seq(Statement)
    <3>1. view[p] \in Seq(Table) /\ desired[p] \in Seq(Table)
      BY ApplyAssumption
    <3> QED
      BY <3>1, DiffDropsOnlyUndesired
  <2> QED
    <3>1. plan' \in [Operators -> Seq(Statement)]
      BY <1>3, <2>1 DEF DiffSchemas
    <3>2. /\ pc' \in [Operators -> Ended \cup Reading \cup Deciding \cup Executing]
          /\ error' \in [Operators -> Errors]
      BY <1>3 DEF DiffSchemas
    <3> QED
      BY <1>0, <1>3, <3>1, <3>2, EmptyPlan DEF DiffSchemas, Choosing
<1>4. CASE CheckHazards(p)
  BY <1>0, <1>4 DEF CheckHazards, Choosing
<1>5. CASE Confirm(p)
  BY <1>0, <1>5 DEF Confirm, Choosing
<1>6. CASE Decline(p)
  BY <1>0, <1>6 DEF Decline, Choosing
<1> USE DEF Running
<1>7. CASE StatementRefused(p)
  BY <1>0, <1>7 DEF StatementRefused
<1>8. CASE StatementConflicts(p)
  <2>1. faults' \in Faults
    BY <1>8, FaultsType DEF StatementConflicts, Faults
  <2> QED
    BY <1>0, <1>8, <2>1 DEF StatementConflicts, Faults
<1>9. CASE Retry(p)
  <2>1. attempt' \in [Operators -> Nat]
    BY <1>9, CounterType DEF Retry
  <2> QED
    BY <1>0, <1>9, <2>1 DEF Retry
<1>10. CASE Finish(p)
  BY <1>0, <1>10 DEF Finish
<1> QED
  BY <1>1, <1>2, <1>3, <1>4, <1>5, <1>6, <1>7, <1>8, <1>9, <1>10

\* The steps that may commit a statement.
LEMMA CommittingType ==
  ASSUME TypeOK, NEW p \in Operators,
         StatementSucceeds(p) \/ AnswerLost(p) \/ Crash(p)
  PROVE  TypeOK'
<1> USE DEF configVars, introspectVars, dbVars, Running, Fail, Completed,
            Ended, Reading, Deciding, Executing, Errors
<1>1. CASE StatementSucceeds(p)
  <2>1. pos' \in [Operators -> Nat] /\ attempt' \in [Operators -> Nat]
    BY <1>1, CounterType DEF StatementSucceeds, TypeOK
  <2>2. /\ CatalogTypeOK'
        /\ executed' \in [Operators -> Seq(Statement)]
        /\ lost' \subseteq [by : Operators, table : STRING]
    <3>1. CASE Sending(p)
      BY <1>1, <3>1, CommitType DEF StatementSucceeds
    <3>2. CASE ~Sending(p)
      BY <1>1, <3>2 DEF StatementSucceeds, TypeOK, CatalogTypeOK
    <3> QED
      BY <3>1, <3>2
  <2> QED
    BY <1>1, <2>1, <2>2 DEF StatementSucceeds, TypeOK
<1>2. faults.crashes < MaxFaults => [faults EXCEPT !.crashes = @ + 1] \in Faults
  BY FaultsType DEF TypeOK, Faults
<1>3. CASE AnswerLost(p)
  BY <1>2, <1>3, CommitType DEF AnswerLost, TypeOK, Faults
<1>4. CASE Crash(p)
  <2>1. /\ CatalogTypeOK'
        /\ executed' \in [Operators -> Seq(Statement)]
        /\ lost' \subseteq [by : Operators, table : STRING]
    <3>1. CASE UNCHANGED <<dbVars, executed, lost>>
      BY <3>1 DEF TypeOK, CatalogTypeOK
    <3>2. CASE Sending(p) /\ Commit(p)
      BY <3>2, CommitType
    <3> QED
      BY <1>4, <3>1, <3>2 DEF Crash
  <2> QED
    BY <1>2, <1>4, <2>1 DEF Crash, TypeOK, Faults
<1> QED
  BY <1>1, <1>3, <1>4

LEMMA StateType ==
  ASSUME NEW i \in StoredIndex, NEW state \in {"valid", "invalid"}
  PROVE  [i EXCEPT !.state = state] \in StoredIndex
BY DEF StoredIndex

LEMMA RowsType ==
  ASSUME NEW t \in StoredTable
  PROVE  [t EXCEPT !.rows = TRUE] \in StoredTable
BY DEF StoredTable

\* The steps of the cluster.
LEMMA ClusterType ==
  ASSUME TypeOK,
         \/ \E n \in DOMAIN indexes : BuildIndex(n) \/ BuildBreaks(n)
         \/ \E t \in DOMAIN tables : InsertRow(t)
  PROVE  TypeOK'
<1> USE DEF ClusterStep, configVars, introspectVars, runnerVars, historyVars
<1>1. CASE \E n \in DOMAIN indexes : BuildIndex(n)
  <2>1. CatalogTypeOK'
    <3>1. PICK n \in DOMAIN indexes : BuildSucceeds(n)
      BY <1>1 DEF BuildIndex
    <3>2. [indexes[n] EXCEPT !.state = "valid"] \in StoredIndex
      BY StateType DEF TypeOK, CatalogTypeOK
    <3> QED
      BY <3>1, <3>2 DEF BuildSucceeds, TypeOK, CatalogTypeOK
  <2> QED
    BY <1>1, <2>1 DEF BuildIndex, TypeOK
<1>2. CASE \E n \in DOMAIN indexes : BuildBreaks(n)
  <2>1. CatalogTypeOK'
    <3>1. PICK n \in DOMAIN indexes : BuildFails(n)
      BY <1>2 DEF BuildBreaks
    <3>2. [indexes[n] EXCEPT !.state = "invalid"] \in StoredIndex
      BY StateType DEF TypeOK, CatalogTypeOK
    <3> QED
      BY <3>1, <3>2 DEF BuildFails, TypeOK, CatalogTypeOK
  <2>2. faults' \in Faults
    BY <1>2, FaultsType DEF BuildBreaks, TypeOK, Faults
  <2> QED
    BY <1>2, <2>1, <2>2 DEF BuildBreaks, TypeOK, Faults
<1>3. CASE \E t \in DOMAIN tables : InsertRow(t)
  <2>1. CatalogTypeOK'
    BY <1>3, RowsType DEF InsertRow, Insert, TypeOK, CatalogTypeOK
  <2> QED
    BY <1>3, <2>1 DEF InsertRow, TypeOK
<1> QED
  BY <1>1, <1>2, <1>3

LEMMA StutterType == TypeOK /\ UNCHANGED vars => TypeOK'
BY DEF TypeOK, CatalogTypeOK, vars, dbVars, configVars, introspectVars, runnerVars,
       historyVars

LEMMA NextType == TypeOK /\ [Next]_vars => TypeOK'
<1> SUFFICES ASSUME TypeOK, Next
             PROVE  TypeOK'
  BY StutterType
<1>1. CASE \E p \in Operators :
             Start(p) \/ Proceed(p) \/ Decline(p) \/ AnswerLost(p) \/ Crash(p)
  BY <1>1, QuietType, CommittingType DEF Proceed, Execution
<1>2. CASE \/ \E n \in DOMAIN indexes : BuildIndex(n) \/ BuildBreaks(n)
           \/ \E t \in DOMAIN tables : InsertRow(t)
  BY <1>2, ClusterType
<1> QED
  BY <1>1, <1>2 DEF Next

\* The catalog, the runs and their histories keep their types, whatever
\* statements the operators send and however they fail.
THEOREM TypeCorrect == Spec => []TypeOK
BY InitType, NextType, PTL DEF Spec

-----------------------------------------------------------------------------
(* The inductive invariant: what a run knows about its plan.               *)

\* A plan that reaches the prompt is not empty, and every hazard of one that
\* passed CheckHazards stays allowed while it runs.
PlanInv ==
  \A p \in Operators :
    /\ pc[p] \in Deciding => plan[p] # <<>>
    /\ pc[p] \in {"confirm"} \cup Executing => Permitted(plan[p], allowed[p])

LEMMA InitPlan == Init => PlanInv
BY DEF Init, PlanInv, Deciding, Executing

LEMMA NextPlan == TypeOK /\ PlanInv /\ [Next]_vars => PlanInv'
<1> SUFFICES ASSUME TypeOK, PlanInv, [Next]_vars
             PROVE  PlanInv'
  OBVIOUS
<1> USE DEF PlanInv, Goto, Ended, Reading, Deciding, Executing
<1>a. /\ pc \in [Operators -> Ended \cup Reading \cup Deciding \cup Executing]
      /\ plan \in [Operators -> Seq(Statement)]
  BY DEF TypeOK
<1>1. CASE \E p \in Operators : Start(p)
  BY <1>1, <1>a DEF Start, configVars
<1>2. CASE \E p \in Operators : Introspection(p)
  <2>1. PICK p \in Operators : Introspection(p)
    BY <1>2
  <2>2. UNCHANGED <<plan, allowed>>
    BY <2>1 DEF Introspection, ListTables, ReadColumns, ReadConstraints, TableVanished,
                ReadIndexes, ReadIndexColumns, Introspecting, configVars
  <2>3. UNCHANGED pc \/ \E to \in Reading \cup {"failed"} : pc' = [pc EXCEPT ![p] = to]
    <3>1. CASE ListTables(p)
      BY <3>1 DEF ListTables, NextTable
    <3>2. CASE ReadColumns(p) \/ ReadConstraints(p) \/ TableVanished(p)
      BY <3>2 DEF ReadColumns, ReadConstraints, TableVanished
    <3>3. CASE ReadIndexes(p)
      BY <3>3 DEF ReadIndexes, TableRead, NextTable
    <3>4. CASE ReadIndexColumns(p)
      BY <3>4 DEF ReadIndexColumns, TableRead, NextTable
    <3> QED
      BY <2>1, <3>1, <3>2, <3>3, <3>4 DEF Introspection
  <2> QED
    BY <2>2, <2>3, <1>a
<1>3. CASE \E p \in Operators : DiffSchemas(p)
  BY <1>3, <1>a DEF DiffSchemas, Choosing, configVars
<1>4. CASE \E p \in Operators : CheckHazards(p)
  BY <1>4, <1>a DEF CheckHazards, Choosing, configVars
<1>5. CASE \E p \in Operators : Confirm(p) \/ Decline(p)
  BY <1>5, <1>a DEF Confirm, Decline, Choosing, configVars
<1>6. CASE \E p \in Operators :
             \/ StatementSucceeds(p) \/ StatementRefused(p) \/ StatementConflicts(p)
             \/ Retry(p) \/ AnswerLost(p) \/ Finish(p) \/ Crash(p)
  <2>1. PICK p \in Operators :
             \/ StatementSucceeds(p) \/ StatementRefused(p) \/ StatementConflicts(p)
             \/ Retry(p) \/ AnswerLost(p) \/ Finish(p) \/ Crash(p)
    BY <1>6
  <2>2. UNCHANGED <<plan, allowed>>
    BY <2>1 DEF StatementSucceeds, StatementRefused, StatementConflicts, Retry, AnswerLost,
                Finish, Crash, Running, configVars
  <2>3. \/ UNCHANGED pc
        \/ pc[p] \in Executing /\ \E to \in Executing \cup Ended : pc' = [pc EXCEPT ![p] = to]
        \/ pc' = [pc EXCEPT ![p] = "crashed"]
    BY <2>1 DEF StatementSucceeds, StatementRefused, StatementConflicts, Retry, AnswerLost,
                Finish, Crash, Sending
  <2> QED
    BY <2>2, <2>3, <1>a
<1>7. CASE \/ \E n \in DOMAIN indexes : BuildIndex(n) \/ BuildBreaks(n)
           \/ \E t \in DOMAIN tables : InsertRow(t)
  BY <1>7 DEF BuildIndex, BuildBreaks, InsertRow, ClusterStep, configVars, runnerVars
<1>8. CASE UNCHANGED vars
  BY <1>8 DEF vars, configVars, runnerVars
<1> QED
  BY <1>1, <1>2, <1>3, <1>4, <1>5, <1>6, <1>7, <1>8 DEF Next, Proceed, Execution

LEMMA LossChanges ==
  ASSUME [Next]_vars
  PROVE  UNCHANGED lost \/ \E p \in Operators : Sending(p) /\ Commit(p)
<1>1. CASE Next
  BY <1>1 DEF Next, Proceed, Introspection, Execution, Start, ListTables, ReadColumns,
     ReadConstraints, TableVanished, ReadIndexes, ReadIndexColumns, Introspecting,
     DiffSchemas, CheckHazards, Confirm, Decline, Choosing, StatementSucceeds,
     StatementRefused, StatementConflicts, Retry, AnswerLost, Finish,
     Crash, BuildIndex, BuildBreaks, InsertRow, ClusterStep, historyVars
<1> QED
  BY <1>1 DEF vars, historyVars

\* Only a run whose operator allows DELETES_DATA drops a table that has rows.
LEMMA NextDataLoss ==
  TypeOK /\ PlanInv /\ DataLossIsAllowed /\ [Next]_vars => DataLossIsAllowed'
<1> SUFFICES ASSUME TypeOK, PlanInv, DataLossIsAllowed, [Next]_vars
             PROVE  DataLossIsAllowed'
  OBVIOUS
<1>1. UNCHANGED allowed
  <2>1. CASE Next
    BY <2>1 DEF Next, Proceed, Introspection, Execution, Start, ListTables, ReadColumns,
       ReadConstraints, TableVanished, ReadIndexes, ReadIndexColumns, Introspecting,
       DiffSchemas, CheckHazards, Confirm, Decline, Choosing, StatementSucceeds,
       StatementRefused, StatementConflicts, Retry, AnswerLost, Finish,
       Crash, Running, BuildIndex, BuildBreaks, InsertRow, ClusterStep, configVars
  <2> QED
    BY <2>1 DEF vars, configVars
<1>2. CASE UNCHANGED lost
  BY <1>1, <1>2 DEF DataLossIsAllowed
<1>3. ASSUME NEW p \in Operators, Sending(p), Commit(p)
      PROVE  DataLossIsAllowed'
  <2>1. Current(p) \in Statement /\ Current(p).hazards \subseteq allowed[p]
    BY <1>3 DEF TypeOK, Sending, Current, PlanInv, Permitted, Executing
  <2>2. Current(p).op = "DropTable" => Current(p).hazards = {"DELETES_DATA"}
    BY <2>1 DEF Statement
  <2>3. \A l \in lost' : l \in lost \/ (l.by = p /\ Current(p).op = "DropTable")
    BY <1>3 DEF Commit
  <2> QED
    BY <1>1, <2>1, <2>2, <2>3 DEF DataLossIsAllowed
<1> QED
  BY <1>2, <1>3, LossChanges

\* No catalog, schema, failure or interleaving makes a run lose rows its
\* operator did not put at stake (runner.go, CheckHazards before Execute).
THEOREM NoUnapprovedLoss == Spec => []DataLossIsAllowed
<1>1. Init => DataLossIsAllowed
  BY DEF Init, DataLossIsAllowed
<1> QED
  BY <1>1, InitType, NextType, InitPlan, NextPlan, NextDataLoss, PTL DEF Spec

-----------------------------------------------------------------------------
(* A plan drops what its schema files do not define, and nothing else is   *)
(* dropped.                                                                *)

DropInv ==
  \A p \in Operators : \A i \in DOMAIN plan[p] :
    plan[p][i].op = "DropTable" => plan[p][i].name \notin Names(desired[p])

LEMMA SameDesires == [Next]_vars => UNCHANGED desired
<1>1. CASE Next
  BY <1>1 DEF Next, Proceed, Introspection, Execution, Start, ListTables, ReadColumns,
     ReadConstraints, TableVanished, ReadIndexes, ReadIndexColumns, Introspecting,
     DiffSchemas, CheckHazards, Confirm, Decline, Choosing, StatementSucceeds,
     StatementRefused, StatementConflicts, Retry, AnswerLost, Finish,
     Crash, Running, BuildIndex, BuildBreaks, InsertRow, ClusterStep, configVars
<1> QED
  BY <1>1 DEF vars, configVars

LEMMA PlanChanges ==
  ASSUME [Next]_vars
  PROVE  \/ UNCHANGED plan
         \/ \E p \in Operators : Start(p) \/ DiffSchemas(p)
<1>1. CASE Next
  BY <1>1 DEF Next, Proceed, Introspection, Execution, ListTables, ReadColumns,
     ReadConstraints, TableVanished, ReadIndexes, ReadIndexColumns, Introspecting,
     CheckHazards, Confirm, Decline, StatementSucceeds, StatementRefused,
     StatementConflicts, Retry, AnswerLost, Finish, Crash, Running, BuildIndex,
     BuildBreaks, InsertRow, ClusterStep, runnerVars
<1> QED
  BY <1>1 DEF vars, runnerVars

LEMMA NextDrop == TypeOK /\ DropInv /\ [Next]_vars => DropInv'
<1> SUFFICES ASSUME TypeOK, DropInv, [Next]_vars
             PROVE  DropInv'
  OBVIOUS
<1>1. desired' = desired
  BY SameDesires
<1>2. CASE UNCHANGED plan
  BY <1>1, <1>2 DEF DropInv
<1>3. ASSUME NEW p \in Operators, NEW stmts, plan' = [plan EXCEPT ![p] = stmts],
             \A i \in DOMAIN stmts : stmts[i].op = "DropTable" => stmts[i].name \notin Names(desired[p])
      PROVE  DropInv'
  BY <1>1, <1>3 DEF DropInv, TypeOK
<1>4. CASE \E p \in Operators : Start(p)
  <2>1. PICK p \in Operators : plan' = [plan EXCEPT ![p] = <<>>]
    BY <1>4 DEF Start
  <2>2. \A i \in DOMAIN <<>> : FALSE
    OBVIOUS
  <2> QED
    BY <1>3, <2>1, <2>2
<1>5. CASE \E p \in Operators : DiffSchemas(p)
  <2>1. PICK p \in Operators : DiffSchemas(p)
    BY <1>5
  <2>2. UNCHANGED plan \/ \E stmts \in Diff(view[p], desired[p]) : plan' = [plan EXCEPT ![p] = stmts]
    BY <2>1 DEF DiffSchemas
  <2>3. view[p] \in Seq(Table) /\ desired[p] \in Seq(Table)
    BY ApplyAssumption DEF TypeOK
  <2> QED
    <3>1. CASE UNCHANGED plan
      BY <1>2, <3>1
    <3>2. ASSUME NEW stmts \in Diff(view[p], desired[p]), plan' = [plan EXCEPT ![p] = stmts]
          PROVE  DropInv'
      <4>1. \A i \in DOMAIN stmts :
              stmts[i].op = "DropTable" => stmts[i].name \notin Names(desired[p])
        BY <2>3, DiffDropsOnlyUndesired
      <4> QED
        BY <1>3, <3>2, <4>1
    <3> QED
      BY <2>2, <3>1, <3>2
<1> QED
  BY <1>2, <1>4, <1>5, PlanChanges

LEMMA NextKept == TypeOK /\ DropInv /\ KeptTablesKeepRows /\ [Next]_vars => KeptTablesKeepRows'
<1> SUFFICES ASSUME TypeOK, DropInv, KeptTablesKeepRows, [Next]_vars
             PROVE  KeptTablesKeepRows'
  OBVIOUS
<1>1. desired' = desired
  BY SameDesires
<1>2. CASE UNCHANGED lost
  BY <1>1, <1>2 DEF KeptTablesKeepRows
<1>3. ASSUME NEW p \in Operators, Sending(p), Commit(p)
      PROVE  KeptTablesKeepRows'
  <2>1. Current(p).op = "DropTable" => Current(p).name \notin Names(desired[p])
    BY <1>3 DEF TypeOK, Sending, Current, DropInv
  <2>2. \A l \in lost' : \/ l \in lost
                         \/ /\ l.by = p /\ l.table = Current(p).name
                            /\ Current(p).op = "DropTable"
    BY <1>3 DEF Commit
  <2> QED
    BY <1>1, <2>1, <2>2 DEF KeptTablesKeepRows
<1> QED
  BY <1>2, <1>3, LossChanges

\* Whatever the live schema looks like while it is read query by query, a run
\* never drops, with its rows, a table its schema files define (diff.go, Diff).
THEOREM DesiredTablesKeepRows == Spec => []KeptTablesKeepRows
<1>1. Init => KeptTablesKeepRows /\ DropInv
  <2>1. \A i \in DOMAIN <<>> : FALSE
    OBVIOUS
  <2> QED
    BY <2>1 DEF Init, KeptTablesKeepRows, DropInv
<1> QED
  BY <1>1, InitType, NextType, NextDrop, NextKept, PTL DEF Spec

-----------------------------------------------------------------------------
(* Apply implements the contract of module Migration, when the number of   *)
(* retries is not negative: with --retries -1 a run reports success        *)
(* without having sent a statement. What a run has executed of its plan is *)
(* its inductive invariant.                                                *)

\* Nothing has been executed before the prompt; after it, exactly the
\* statements reported completed. The retry loop is never skipped.
RunInv ==
  \A p \in Operators :
    /\ pc[p] \in Reading \cup Deciding =>
         executed[p] = <<>> /\ pos[p] = 0 /\ attempt[p] = 0
    /\ pc[p] \in Executing =>
         /\ approved[p] = plan[p]
         /\ pos[p] <= Len(plan[p])
         /\ executed[p] = SubSeq(plan[p], 1, pos[p])
         /\ attempt[p] <= MaxRetries
    /\ pc[p] = "backoff" => attempt[p] < MaxRetries

LEMMA PrefixGrows ==
  ASSUME NEW S, NEW s \in Seq(S), NEW n \in Nat, n < Len(s)
  PROVE  /\ Append(SubSeq(s, 1, n), s[n + 1]) = SubSeq(s, 1, n + 1)
         /\ Len(SubSeq(s, 1, n)) = n
OBVIOUS

LEMMA WholePrefix ==
  ASSUME NEW S, NEW s \in Seq(S)
  PROVE  SubSeq(s, 1, Len(s)) = s
OBVIOUS

LEMMA InitRun == Init => RunInv
BY DEF Init, RunInv, Reading, Deciding, Executing

\* Introspection stays among its states or fails, and touches neither the
\* plan nor the history.
LEMMA IntrospectionStep ==
  ASSUME TypeOK, NEW p \in Operators, Introspection(p)
  PROVE  /\ pc[p] \in Reading
         /\ UNCHANGED pc \/ \E to \in Reading \cup {"failed"} : pc' = [pc EXCEPT ![p] = to]
         /\ UNCHANGED <<allowed, plan, pos, attempt, approved, executed>>
<1> USE DEF Goto, Introspecting, configVars, historyVars, Reading
<1>1. CASE ListTables(p)
  BY <1>1 DEF ListTables, NextTable
<1>2. CASE ReadColumns(p) \/ ReadConstraints(p) \/ TableVanished(p)
  BY <1>2 DEF ReadColumns, ReadConstraints, TableVanished
<1>3. CASE ReadIndexes(p)
  BY <1>3 DEF ReadIndexes, TableRead, NextTable
<1>4. CASE ReadIndexColumns(p)
  BY <1>4 DEF ReadIndexColumns, TableRead, NextTable
<1> QED
  BY <1>1, <1>2, <1>3, <1>4 DEF Introspection

LEMMA NextRun ==
  ASSUME MaxRetries \in Nat, TypeOK, RunInv, [Next]_vars
  PROVE  RunInv'
<1> USE DEF RunInv, Goto, Ended, Reading, Deciding, Executing
<1>a. /\ pc \in [Operators -> Ended \cup Reading \cup Deciding \cup Executing]
      /\ plan \in [Operators -> Seq(Statement)]
      /\ pos \in [Operators -> Nat]
      /\ attempt \in [Operators -> Nat]
      /\ approved \in [Operators -> Seq(Statement)]
      /\ executed \in [Operators -> Seq(Statement)]
  BY DEF TypeOK
<1>1. CASE \E p \in Operators : Start(p)
  <2>1. PICK p \in Operators : Start(p)
    BY <1>1
  <2>2. pc'[p] = "listTables" /\ executed'[p] = <<>> /\ pos'[p] = 0 /\ attempt'[p] = 0
    BY <2>1, <1>a DEF Start
  <2> QED
    BY <2>1, <2>2, <1>a DEF Start
<1>2. CASE \E p \in Operators : Introspection(p)
  BY <1>2, <1>a, IntrospectionStep
<1> USE DEF Choosing, Running
<1>3. CASE \E p \in Operators : DiffSchemas(p)
  BY <1>3, <1>a DEF DiffSchemas
<1>4. CASE \E p \in Operators : CheckHazards(p) \/ Decline(p)
  BY <1>4, <1>a DEF CheckHazards, Decline
<1>5. CASE \E p \in Operators : Confirm(p)
  <2>1. PICK p \in Operators : Confirm(p)
    BY <1>5
  <2>2. executed[p] = SubSeq(plan[p], 1, 0) /\ 0 <= Len(plan[p])
    BY <2>1, <1>a DEF Confirm
  <2> QED
    BY <2>1, <2>2, <1>a DEF Confirm
<1>6. CASE \E p \in Operators : StatementSucceeds(p)
  <2>1. PICK p \in Operators : StatementSucceeds(p)
    BY <1>6
  <2>2. Sending(p) /\ Commit(p)
    BY <2>1 DEF StatementSucceeds, Sending
  <2>3. executed'[p] = SubSeq(plan[p], 1, pos[p] + 1) /\ pos[p] + 1 <= Len(plan[p])
    BY <2>1, <2>2, <1>a, PrefixGrows DEF Sending, Commit, Current
  <2> QED
    BY <2>1, <2>2, <2>3, <1>a DEF StatementSucceeds, Sending, Commit, Completed
<1>7. CASE \E p \in Operators : StatementRefused(p) \/ StatementConflicts(p)
  BY <1>7, <1>a DEF StatementRefused, StatementConflicts, Sending
<1>8. CASE \E p \in Operators : Retry(p)
  BY <1>8, <1>a DEF Retry
<1>9. CASE \E p \in Operators : Finish(p)
  BY <1>9, <1>a DEF Finish
<1>10. CASE \E p \in Operators : AnswerLost(p) \/ Crash(p)
  <2>1. PICK p \in Operators : AnswerLost(p) \/ Crash(p)
    BY <1>10
  <2>2. /\ UNCHANGED <<plan, pos, attempt, approved>>
        /\ \E to \in {"failed", "crashed"} : pc' = [pc EXCEPT ![p] = to]
    BY <2>1 DEF AnswerLost, Crash
  <2>3. \A q \in Operators \ {p} : executed'[q] = executed[q]
    BY <2>1, <1>a DEF AnswerLost, Crash, Commit
  <2> QED
    BY <2>2, <2>3, <1>a
<1>11. CASE \/ \E n \in DOMAIN indexes : BuildIndex(n) \/ BuildBreaks(n)
            \/ \E t \in DOMAIN tables : InsertRow(t)
  BY <1>11 DEF BuildIndex, BuildBreaks, InsertRow, ClusterStep, runnerVars, historyVars
<1>12. CASE UNCHANGED vars
  BY <1>12 DEF vars, runnerVars, historyVars
<1> QED
  BY <1>1, <1>2, <1>3, <1>4, <1>5, <1>6, <1>7, <1>8, <1>9, <1>10, <1>11, <1>12
     DEF Next, Proceed, Execution

-----------------------------------------------------------------------------
(* Every step maps to a step of the contract or to none.                   *)

\* What moving one operator does to the phases.
LEMMA PhaseMove ==
  ASSUME NEW p \in Operators, NEW to, TypeOK, pc' = [pc EXCEPT ![p] = to]
  PROVE  phase' = [phase EXCEPT ![p] = PhaseOf(to)]
BY DEF TypeOK, phase

\* The phase of each state.
LEMMA Phases ==
  /\ \A s \in Reading \cup Deciding : PhaseOf(s) = "deciding"
  /\ \A s \in Executing : PhaseOf(s) = "running"
  /\ PhaseOf("applied") = "applied"
  /\ \A s \in Ended \ {"applied"} : PhaseOf(s) = "stopped"
BY DEF PhaseOf, Ended, Reading, Deciding, Executing

LEMMA InitRefines == Init => Contract!Init
<1> SUFFICES ASSUME Init
             PROVE  phase = [p \in Operators |-> "stopped"]
  BY DEF Init, Contract!Init
<1>1. \A p \in Operators : PhaseOf(pc[p]) = "stopped"
  BY Phases DEF Init, Ended
<1> QED
  BY <1>1 DEF phase

LEMMA NextRefines ==
  ASSUME MaxRetries \in Nat, TypeOK, PlanInv, RunInv, [Next]_vars
  PROVE  [Contract!Next]_(Contract!vars)
<1>a. /\ pc \in [Operators -> Ended \cup Reading \cup Deciding \cup Executing]
      /\ plan \in [Operators -> Seq(Statement)]
      /\ pos \in [Operators -> Nat]
      /\ approved \in [Operators -> Seq(Statement)]
      /\ executed \in [Operators -> Seq(Statement)]
      /\ \A p \in Operators : phase[p] = PhaseOf(pc[p])
  BY DEF TypeOK, phase
<1> USE DEF Contract!vars, Contract!Next, Contract!Move
<1>b. ASSUME UNCHANGED <<allowed, approved, executed>>, UNCHANGED phase
      PROVE  UNCHANGED Contract!vars
  BY <1>b
<1>1. ASSUME NEW p \in Operators, Start(p)
      PROVE  Contract!Begin(p)
  <2>1. phase[p] \in {"stopped", "applied"}
    BY <1>1, <1>a, Phases DEF Start, Ended
  <2>2. phase' = [phase EXCEPT ![p] = "deciding"]
    BY <1>1, PhaseMove, Phases DEF Start, Reading
  <2> QED
    BY <1>1, <2>1, <2>2 DEF Start, Contract!Begin, configVars
\* A step that moves an operator without executing or approving anything.
<1>2. ASSUME NEW p \in Operators, NEW to, pc' = [pc EXCEPT ![p] = to],
             UNCHANGED <<allowed, approved, executed>>,
             \/ PhaseOf(to) = PhaseOf(pc[p])
             \/ PhaseOf(pc[p]) \in {"deciding", "running"} /\ PhaseOf(to) = "stopped"
      PROVE  Contract!GiveUp(p) \/ Contract!Stop(p) \/ UNCHANGED Contract!vars
  <2>1. phase' = [phase EXCEPT ![p] = PhaseOf(to)]
    BY <1>2, PhaseMove
  <2>2. phase \in [Operators -> {"deciding", "running", "applied", "stopped"}]
    BY DEF phase, PhaseOf
  <2>3. CASE PhaseOf(to) = PhaseOf(pc[p])
    BY <1>2, <2>1, <2>2, <2>3, <1>a
  <2>4. CASE PhaseOf(pc[p]) = "deciding" /\ PhaseOf(to) = "stopped"
    BY <1>2, <2>1, <2>4, <1>a DEF Contract!GiveUp
  <2>5. CASE PhaseOf(pc[p]) = "running" /\ PhaseOf(to) = "stopped"
    BY <1>2, <2>1, <2>5, <1>a DEF Contract!Stop
  <2> QED
    BY <1>2, <2>3, <2>4, <2>5
<1>3. ASSUME NEW p \in Operators, Introspection(p)
      PROVE  [Contract!Next]_(Contract!vars)
  <2>1. CASE UNCHANGED pc
    BY <1>3, <2>1, IntrospectionStep DEF phase
  <2>2. CASE \E to \in Reading \cup {"failed"} : pc' = [pc EXCEPT ![p] = to]
    <3>1. PICK to \in Reading \cup {"failed"} : pc' = [pc EXCEPT ![p] = to]
      BY <2>2
    <3>2. PhaseOf(pc[p]) = "deciding" /\ PhaseOf(to) \in {"deciding", "stopped"}
      BY <1>3, IntrospectionStep, Phases DEF Ended
    <3> QED
      BY <1>2, <1>3, <3>1, <3>2, IntrospectionStep
  <2> QED
    BY <1>3, <2>1, <2>2, IntrospectionStep
<1>4. ASSUME NEW p \in Operators, DiffSchemas(p) \/ CheckHazards(p) \/ Decline(p)
      PROVE  [Contract!Next]_(Contract!vars)
  <2>1. PICK to \in Deciding \cup (Ended \ {"applied"}) : pc' = [pc EXCEPT ![p] = to]
    BY <1>4 DEF DiffSchemas, CheckHazards, Decline, Goto, Deciding, Ended
  <2>2. PhaseOf(pc[p]) = "deciding" /\ PhaseOf(to) \in {"deciding", "stopped"}
    BY <1>4, <2>1, Phases DEF DiffSchemas, CheckHazards, Decline, Goto, Reading, Deciding
  <2>3. UNCHANGED <<allowed, approved, executed>>
    BY <1>4 DEF DiffSchemas, CheckHazards, Decline, Choosing, configVars
  <2> QED
    BY <1>2, <2>1, <2>2, <2>3
<1>5. ASSUME NEW p \in Operators, Confirm(p)
      PROVE  Contract!Approve(p)
  <2>1. phase[p] = "deciding" /\ phase' = [phase EXCEPT ![p] = "running"]
    <3>1. pc[p] = "confirm" /\ pc' = [pc EXCEPT ![p] = "Execute"]
      BY <1>5 DEF Confirm, Goto
    <3>2. PhaseOf("confirm") = "deciding" /\ PhaseOf("Execute") = "running"
      BY Phases DEF Deciding, Executing
    <3> QED
      BY <3>1, <3>2, <1>a, PhaseMove
  <2>2. plan[p] # <<>> /\ Permitted(plan[p], allowed[p])
    BY <1>5 DEF Confirm, Goto, PlanInv, Deciding
  <2>3. approved' = [approved EXCEPT ![p] = plan[p]] /\ approved'[p] = plan[p]
    BY <1>5, <1>a DEF Confirm
  <2> QED
    BY <1>5, <2>1, <2>2, <2>3
       DEF Confirm, Choosing, configVars, Permitted, Contract!Approve
\* A statement is committed, whether or not the run gets to know it.
<1>6. ASSUME NEW p \in Operators, Sending(p), Commit(p), UNCHANGED <<allowed, approved>>,
             \/ UNCHANGED pc
             \/ \E to \in {"failed", "crashed"} : pc' = [pc EXCEPT ![p] = to]
      PROVE  Contract!ExecuteNext(p)
  <2>1. /\ executed[p] = SubSeq(plan[p], 1, pos[p])
        /\ approved[p] = plan[p]
    BY <1>6 DEF Sending, RunInv, Executing
  <2>2. Len(executed[p]) = pos[p] /\ pos[p] < Len(approved[p])
    BY <1>6, <2>1, <1>a, PrefixGrows DEF Sending
  <2>3. executed' = [executed EXCEPT ![p] = Append(@, approved[p][Len(@) + 1])]
    BY <1>6, <2>1, <2>2, <1>a DEF Commit, Current
  <2>4. phase[p] = "running"
    BY <1>6, <1>a, Phases DEF Sending, Executing
  <2>5. phase'[p] \in {"running", "stopped"} /\ phase' = [phase EXCEPT ![p] = phase'[p]]
    <3>1. CASE UNCHANGED pc
      BY <3>1, <2>4 DEF phase
    <3>2. CASE \E to \in {"failed", "crashed"} : pc' = [pc EXCEPT ![p] = to]
      BY <3>2, <1>a, PhaseMove, Phases DEF Ended, phase
    <3> QED
      BY <1>6, <3>1, <3>2
  <2> QED
    BY <1>6, <2>2, <2>3, <2>4, <2>5 DEF Contract!ExecuteNext
<1>7. ASSUME NEW p \in Operators,
             StatementRefused(p) \/ StatementConflicts(p) \/ Retry(p)
      PROVE  [Contract!Next]_(Contract!vars)
  <2>1. PICK to \in Executing \cup {"failed"} : pc' = [pc EXCEPT ![p] = to]
    BY <1>7 DEF StatementRefused, StatementConflicts, Retry, Goto, Executing
  <2>2. PhaseOf(pc[p]) = "running" /\ PhaseOf(to) \in {"running", "stopped"}
    BY <1>7, <2>1, Phases
       DEF StatementRefused, StatementConflicts, Retry, Sending, Goto, Executing, Ended
  <2>3. UNCHANGED <<allowed, approved, executed>>
    BY <1>7 DEF StatementRefused, StatementConflicts, Retry, Running, configVars
  <2> QED
    BY <1>2, <2>1, <2>2, <2>3
<1>8. ASSUME NEW p \in Operators, Finish(p)
      PROVE  Contract!Report(p)
  <2>1. phase[p] = "running" /\ phase' = [phase EXCEPT ![p] = "applied"]
    <3>1. pc[p] = "Execute" /\ pc' = [pc EXCEPT ![p] = "applied"]
      BY <1>8 DEF Finish, Goto
    <3>2. PhaseOf("Execute") = "running" /\ PhaseOf("applied") = "applied"
      BY Phases DEF Executing
    <3> QED
      BY <3>1, <3>2, <1>a, PhaseMove
  <2>2. executed[p] = approved[p]
    BY <1>8, <1>a, WholePrefix DEF Finish, Goto, RunInv, Executing
  <2> QED
    BY <1>8, <2>1, <2>2 DEF Finish, Running, configVars, Contract!Report
<1>9. ASSUME NEW p \in Operators, Crash(p)
       PROVE  [Contract!Next]_(Contract!vars)
  <2>1. /\ pc' = [pc EXCEPT ![p] = "crashed"]
        /\ UNCHANGED <<allowed, approved>>
        /\ UNCHANGED executed \/ (Sending(p) /\ Commit(p))
    BY <1>9 DEF Crash, Running, configVars
  <2>2. PhaseOf(pc[p]) \in {"deciding", "running"} /\ PhaseOf("crashed") = "stopped"
    BY <1>9, <1>a, Phases DEF Crash, Ended
  <2>3. CASE UNCHANGED executed
    BY <1>2, <2>1, <2>2, <2>3
  <2>4. CASE Sending(p) /\ Commit(p)
    BY <1>6, <2>1, <2>4
  <2> QED
    BY <2>1, <2>3, <2>4
<1>10. ASSUME NEW p \in Operators, StatementSucceeds(p) \/ AnswerLost(p)
       PROVE  Contract!ExecuteNext(p)
  <2>1. Sending(p) /\ Commit(p)
    BY <1>10 DEF StatementSucceeds, AnswerLost, Sending, RunInv, Executing
  <2> QED
    BY <1>6, <1>10, <2>1 DEF StatementSucceeds, AnswerLost, Running, configVars
<1>11. ASSUME \/ \E n \in DOMAIN indexes : BuildIndex(n) \/ BuildBreaks(n)
              \/ \E t \in DOMAIN tables : InsertRow(t)
       PROVE  UNCHANGED Contract!vars
  BY <1>11 DEF BuildIndex, BuildBreaks, InsertRow, ClusterStep, configVars, historyVars, phase
<1>12. ASSUME UNCHANGED vars
       PROVE  UNCHANGED Contract!vars
  BY <1>12 DEF vars, configVars, historyVars, phase
<1> QED
  BY <1>1, <1>3, <1>4, <1>5, <1>7, <1>8, <1>9, <1>10, <1>11, <1>12
     DEF Next, Proceed, Execution

\* However runs interleave, fail, die and start over, the cluster executes of
\* each run a prefix of the plan its operator agreed to, and all of it when
\* the run reports success (apply.go 83-107, runner.go Execute).
THEOREM ApplyImplementsContract == MaxRetries \in Nat /\ Spec => ContractSpec
<1>1. MaxRetries \in Nat /\ TypeOK /\ RunInv /\ [Next]_vars => RunInv'
  BY NextRun
<1>2. MaxRetries \in Nat /\ TypeOK /\ PlanInv /\ RunInv /\ [Next]_vars
        => [Contract!Next]_(Contract!vars)
  BY NextRefines
<1>3. MaxRetries \in Nat => [](MaxRetries \in Nat)
  OBVIOUS
<1> QED
  BY <1>1, <1>2, <1>3, InitType, NextType, InitPlan, NextPlan, InitRun, InitRefines, PTL
     DEF Spec, ContractSpec, Contract!Spec

=============================================================================
