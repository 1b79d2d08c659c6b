-------------------------- MODULE ApplyLoneProofs --------------------------
(***************************************************************************)
(* An operator that has the cluster to itself (modules Apply, Introspect,  *)
(* SchemaDiff): for every schema, every catalog it may start from, every   *)
(* order of the plan, any crashes, lost answers, conflicts and index       *)
(* builds, its plans are sound, its runs end in the schema it wants and    *)
(* another plan is empty. Two operators can disturb each other (the run    *)
(* apply_move).                                                            *)
(***************************************************************************)
EXTENDS ApplyProofs

-----------------------------------------------------------------------------
(* Types and columns: what the catalog prints of them, read again.         *)

\* The catalog prints the same type for a type and for its comparison form.
LEMMA PrintedAlike ==
  ASSUME NEW t \in Type
  PROVE  format_type(NormalizeType(t)) = format_type(t)
<1>1. CASE t.size # 0 /\ t.name = "character varying"
  <2>1. NormalizeType(t) = [t EXCEPT !.name = "varchar"]
    BY <1>1 DEF NormalizeType
  <2>2. PICK u : u = [t EXCEPT !.name = "varchar"]
    OBVIOUS
  <2>3. u.name = "varchar" /\ [u EXCEPT !.name = "character varying"] = [t EXCEPT !.name = "character varying"]
    BY <2>2 DEF Type
  <2>4. format_type(u) = [u EXCEPT !.name = "character varying"]
    BY <2>3 DEF format_type
  <2>5. format_type(t) = [t EXCEPT !.name = "character varying"]
    BY <1>1 DEF format_type
  <2> QED
    BY <2>1, <2>2, <2>3, <2>4, <2>5
<1>2. CASE t.size # 0 /\ t.name = "character"
  <2>1. NormalizeType(t) = [t EXCEPT !.name = "char"]
    BY <1>2 DEF NormalizeType
  <2>2. PICK u : u = [t EXCEPT !.name = "char"]
    OBVIOUS
  <2>3. u.name = "char" /\ u.size = t.size
        /\ [u EXCEPT !.name = "character", !.size = t.size] = [t EXCEPT !.name = "character", !.size = t.size]
    BY <2>2 DEF Type
  <2>4. format_type(u) = [u EXCEPT !.name = "character", !.size = IF u.size = 0 THEN 1 ELSE u.size]
    BY <2>3 DEF format_type
  <2>5. format_type(t) = [t EXCEPT !.name = "character", !.size = IF t.size = 0 THEN 1 ELSE t.size]
    BY <1>2 DEF format_type
  <2> QED
    BY <1>2, <2>1, <2>2, <2>3, <2>4, <2>5
<1>3. CASE t.size = 0 /\ t.name \in DOMAIN typeAliases
  <2>1. NormalizeType(t) = [t EXCEPT !.name = typeAliases[t.name]]
    BY <1>3 DEF NormalizeType
  <2>2. PICK u : u = [t EXCEPT !.name = typeAliases[t.name]]
    OBVIOUS
  <2>3. u.name = typeAliases[t.name] /\ \A n : [u EXCEPT !.name = n] = [t EXCEPT !.name = n]
    BY <2>2 DEF Type
  <2>4. t.name \in {"int", "int4", "int8", "int2", "float4", "float8", "float", "bool",
          "timestamp with time zone", "timestamp without time zone",
          "time with time zone", "time without time zone"}
    BY <1>3 DEF typeAliases
  <2>5. CASE t.name \in {"int", "int4"}
    <3>1. u.name = "integer"
      BY <2>3, <2>5 DEF typeAliases
    <3> QED
      BY <2>1, <2>2, <2>3, <2>5, <3>1 DEF format_type
  <2>6. CASE t.name = "int8"
    <3>1. u.name = "bigint"
      BY <2>3, <2>6 DEF typeAliases
    <3> QED
      BY <2>1, <2>2, <2>3, <2>6, <3>1 DEF format_type
  <2>7. CASE t.name = "int2"
    <3>1. u.name = "smallint"
      BY <2>3, <2>7 DEF typeAliases
    <3> QED
      BY <2>1, <2>2, <2>3, <2>7, <3>1 DEF format_type
  <2>8. CASE t.name = "float4"
    <3>1. u.name = "real"
      BY <2>3, <2>8 DEF typeAliases
    <3> QED
      BY <2>1, <2>2, <2>3, <2>8, <3>1 DEF format_type
  <2>9. CASE t.name \in {"float8", "float"}
    <3>1. u.name = "double precision"
      BY <2>3, <2>9 DEF typeAliases
    <3> QED
      BY <2>1, <2>2, <2>3, <2>9, <3>1 DEF format_type
  <2>10. CASE t.name = "bool"
    <3>1. u.name = "boolean"
      BY <2>3, <2>10 DEF typeAliases
    <3> QED
      BY <2>1, <2>2, <2>3, <2>10, <3>1 DEF format_type
  <2>11. CASE t.name = "timestamp with time zone"
    <3>1. u.name = "timestamptz"
      BY <2>3, <2>11 DEF typeAliases
    <3> QED
      BY <2>1, <2>2, <2>3, <2>11, <3>1 DEF format_type
  <2>12. CASE t.name = "timestamp without time zone"
    <3>1. u.name = "timestamp"
      BY <2>3, <2>12 DEF typeAliases
    <3> QED
      BY <2>1, <2>2, <2>3, <2>12, <3>1 DEF format_type
  <2>13. CASE t.name = "time with time zone"
    <3>1. u.name = "timetz"
      BY <2>3, <2>13 DEF typeAliases
    <3> QED
      BY <2>1, <2>2, <2>3, <2>13, <3>1 DEF format_type
  <2>14. CASE t.name = "time without time zone"
    <3>1. u.name = "time"
      BY <2>3, <2>14 DEF typeAliases
    <3> QED
      BY <2>1, <2>2, <2>3, <2>14, <3>1 DEF format_type
  <2> QED
    BY <2>4, <2>5, <2>6, <2>7, <2>8, <2>9, <2>10, <2>11, <2>12, <2>13, <2>14
<1>4. CASE /\ ~(t.size # 0 /\ t.name = "character varying")
           /\ ~(t.size # 0 /\ t.name = "character")
           /\ ~(t.size = 0 /\ t.name \in DOMAIN typeAliases)
  <2>1. NormalizeType(t) = t
    BY <1>4 DEF NormalizeType
  <2> QED
    BY <2>1
<1> QED
  BY <1>1, <1>2, <1>3, <1>4

\* What the catalog prints, it prints again.
LEMMA PrintedOnce ==
  ASSUME NEW t \in Type
  PROVE  format_type(format_type(t)) = format_type(t)
<1>1. PICK u : u = format_type(t)
  OBVIOUS
<1>2. \A n : u = [t EXCEPT !.name = n] => u.name = n /\ [u EXCEPT !.name = n] = u
  BY DEF Type
<1>3. \A n, k : u = [t EXCEPT !.name = n, !.size = k] =>
        u.name = n /\ u.size = k /\ [u EXCEPT !.name = n, !.size = k] = u
  BY DEF Type
<1>4. CASE t.name \in {"char", "character"}
  <2>1. u = [t EXCEPT !.name = "character", !.size = IF t.size = 0 THEN 1 ELSE t.size]
    BY <1>1, <1>4 DEF format_type
  <2>2. PICK k : k = (IF t.size = 0 THEN 1 ELSE t.size) /\ k # 0
    OBVIOUS
  <2>3. u.name = "character" /\ u.size = k /\ [u EXCEPT !.name = "character", !.size = k] = u
    BY <1>3, <2>1, <2>2
  <2>4. format_type(u) = [u EXCEPT !.name = "character", !.size = IF u.size = 0 THEN 1 ELSE u.size]
    BY <2>3 DEF format_type
  <2> QED
    BY <1>1, <2>2, <2>3, <2>4
<1>5. CASE t.name \notin {"char", "character"}
  <2>1. \/ u = t
        \/ \E n \in {"integer", "bigint", "smallint", "real", "double precision", "numeric",
                     "boolean", "character varying", "timestamp with time zone",
                     "timestamp without time zone", "time with time zone",
                     "time without time zone"} : u = [t EXCEPT !.name = n]
    BY <1>1, <1>5 DEF format_type
  <2>2. CASE u = t
    BY <1>1, <2>2
  <2>3. ASSUME NEW n \in {"integer", "bigint", "smallint", "real", "double precision", "numeric",
                     "boolean", "character varying", "timestamp with time zone",
                     "timestamp without time zone", "time with time zone",
                     "time without time zone"}, u = [t EXCEPT !.name = n]
        PROVE  format_type(u) = u
    <3>1. u.name = n /\ [u EXCEPT !.name = n] = u
      BY <1>2, <2>3
    <3>2. format_type(u) = [u EXCEPT !.name = n]
      BY <3>1 DEF format_type
    <3> QED
      BY <3>1, <3>2
  <2> QED
    BY <1>1, <2>1, <2>2, <2>3
<1> QED
  BY <1>4, <1>5

\* A type the catalog prints is the one printed for every type it equals.
LEMMA SameType ==
  ASSUME NEW s \in Type, NEW t \in Type, format_type(s) = s,
         NormalizeType(NormalizeType(s)) = NormalizeType(t)
  PROVE  s = format_type(t)
<1>1. NormalizeType(s) \in Type
  BY NormalizeTypeType
<1> QED
  BY <1>1, PrintedAlike

\* A column that Diff adds, or that a table is created with, is as wanted.
LEMMA CreatedColumn ==
  ASSUME NEW c \in Column, NEW pk
  PROVE  SameColumn(Stored(ColumnDef(c), pk), c, pk)
BY DEF SameColumn

\* A column that Diff adds to a table that is there.
LEMMA AddedColumn ==
  ASSUME NEW c \in Column, NEW pk, c.name \notin ToSet(pk)
  PROVE  SameColumn(Stored(ColumnDef(c), <<>>), c, pk)
<1>1. PICK w : w = ColumnDef(c)
  OBVIOUS
<1>2. w \in Column /\ w.name = c.name
  BY <1>1, ColumnDefType DEF ColumnDef, Column
<1>3. w.name \notin ToSet(<<>>) /\ w.name \notin ToSet(pk)
  BY <1>2, EmptyPaired
<1>4. Stored(w, <<>>) = Stored(w, pk)
  BY <1>3 DEF Stored
<1> QED
  BY <1>1, <1>4 DEF SameColumn

\* What the catalog stores for a column.
LEMMA StoredFields ==
  ASSUME NEW c \in Column, NEW pk
  PROVE  /\ Stored(c, pk).name = c.name
         /\ Stored(c, pk).type = format_type(c.type)
         /\ Stored(c, pk).nullable = (c.nullable /\ c.name \notin ToSet(pk) /\ c.identity = "")
         /\ Stored(c, pk).identity = c.identity
         /\ Stored(c, pk).default = IF c.default = NoDefault THEN NoDefault
                                    ELSE [c.default EXCEPT !.cast = TRUE]
BY DEF Stored, Column

\* A column of the cluster that Diff finds unchanged is as wanted.
AsRead(c) ==
  [c EXCEPT !.type = NormalizeType(@),
            !.default = IF c.identity # "" THEN NoDefault ELSE @]

\* What ChangedColumn of diff.go compares of a column.
Unchanged(cc, dc) ==
  /\ NormalizeType(cc.type) = NormalizeType(dc.type)
  /\ cc.nullable = dc.nullable
  /\ normalizeDefault(cc.default) = normalizeDefault(dc.default)

\* A column of the cluster that Diff finds unchanged is as wanted.
LEMMA UnchangedColumn ==
  ASSUME NEW sc \in Column, NEW dc \in Column, NEW pk, sc.name = dc.name,
         format_type(sc.type) = sc.type,
         sc.name \in ToSet(pk) => ~sc.nullable,
         sc.identity # "" => sc.default = NoDefault,
         dc.identity # "" => ~dc.nullable /\ dc.default = NoDefault,
         Unchanged(AsRead(sc), dc)
  PROVE  SameColumn(sc, dc, pk)
<1>1. /\ AsRead(sc).type = NormalizeType(sc.type)
      /\ AsRead(sc).nullable = sc.nullable
      /\ AsRead(sc).default = sc.default
  BY DEF AsRead, Column
<1>2. sc.type \in Type /\ dc.type \in Type /\ dc.nullable \in BOOLEAN /\ dc.default \in Default
      /\ sc.nullable \in BOOLEAN
  BY DEF Column
<1>3. sc.type = format_type(dc.type)
  BY <1>1, <1>2, SameType DEF Unchanged
<1>4. PICK w : w = ColumnDef(dc)
  OBVIOUS
<1>5. w = dc
  BY <1>4 DEF ColumnDef, Column
<1>6. PICK u : u = Stored(w, pk)
  OBVIOUS
<1>7. u.name = dc.name /\ u.type = format_type(dc.type)
  BY <1>5, <1>6, StoredFields
<1>8. u.nullable = (dc.nullable /\ dc.name \notin ToSet(pk) /\ dc.identity = "")
  BY <1>5, <1>6, StoredFields
<1>9. sc.nullable = u.nullable
  BY <1>1, <1>2, <1>8 DEF Unchanged
<1>10. normalizeDefault(u.default) = normalizeDefault(dc.default)
  <2>1. u.default = IF dc.default = NoDefault THEN NoDefault ELSE [dc.default EXCEPT !.cast = TRUE]
    BY <1>5, <1>6, StoredFields
  <2> QED
    BY <1>2, <2>1 DEF normalizeDefault, Default, NoDefault
<1>11. normalizeDefault(sc.default) = normalizeDefault(u.default)
  BY <1>1, <1>10 DEF Unchanged
<1> QED
  BY <1>3, <1>4, <1>6, <1>7, <1>9, <1>11 DEF SameColumn

\* A sequence that names things once is not longer than one that names them all.
LEMMA NotLonger ==
  ASSUME NEW A, NEW B, NEW s \in Seq(A), NEW t \in Seq(B), Distinct(t), Names(t) \subseteq Names(s)
  PROVE  Len(t) <= Len(s)
<1>1. \A n \in Nat : IsFiniteSet(1..n) /\ Cardinality(1..n) = n
  <2> SUFFICES ASSUME NEW n \in Nat PROVE IsFiniteSet(1..n) /\ Cardinality(1..n) = n
    OBVIOUS
  <2>1. 1 \in Int /\ n \in Int
    OBVIOUS
  <2>2. Cardinality(1..n) = (IF 1 > n THEN 0 ELSE n - 1 + 1) /\ IsFiniteSet(1..n)
    BY <2>1, FS_Interval
  <2>3. (IF 1 > n THEN 0 ELSE n - 1 + 1) = n
    OBVIOUS
  <2> QED
    BY <2>2, <2>3
<1>2. Len(s) \in Nat /\ Len(t) \in Nat
  OBVIOUS
<1>3. PICK f : f = [i \in 1..Len(t) |-> CHOOSE j \in 1..Len(s) : s[j].name = t[i].name]
  OBVIOUS
<1>4. \A i \in 1..Len(t) : f[i] \in 1..Len(s) /\ s[f[i]].name = t[i].name
  <2> SUFFICES ASSUME NEW i \in 1..Len(t)
               PROVE  f[i] \in 1..Len(s) /\ s[f[i]].name = t[i].name
    OBVIOUS
  <2>1. \E j \in 1..Len(s) : s[j].name = t[i].name
    <3>1. t[i].name \in Names(t)
      BY DEF Names
    <3>2. PICK j \in DOMAIN s : s[j].name = t[i].name
      BY <3>1 DEF Names
    <3> QED
      BY <3>2
  <2>2. f[i] = CHOOSE j \in 1..Len(s) : s[j].name = t[i].name
    BY <1>3
  <2> QED
    BY <2>1, <2>2
<1>5. f \in [1..Len(t) -> 1..Len(s)]
  BY <1>3, <1>4
<1>6. CASE Len(s) < Len(t)
  <2>1. \E i, j \in 1..Len(t) : i # j /\ f[i] = f[j]
    <3>1. /\ IsFiniteSet(1..Len(t)) /\ IsFiniteSet(1..Len(s))
          /\ Cardinality(1..Len(s)) < Cardinality(1..Len(t))
      BY <1>1, <1>2, <1>6
    <3> QED
      BY <1>5, <3>1, FS_PigeonHole
  <2>2. PICK i \in 1..Len(t), j \in 1..Len(t) : i # j /\ f[i] = f[j]
    BY <2>1
  <2>3. t[i].name = t[j].name
    BY <1>4, <2>2
  <2> QED
    BY <2>2, <2>3 DEF Distinct
<1> QED
  BY <1>2, <1>6

\* Two sequences that name the same things, each once, are of one length.
LEMMA SameLength ==
  ASSUME NEW A, NEW B, NEW s \in Seq(A), NEW t \in Seq(B), Distinct(s), Distinct(t),
         Names(s) = Names(t)
  PROVE  Len(s) = Len(t)
<1>1. Len(s) \in Nat /\ Len(t) \in Nat
  OBVIOUS
<1>2. Len(s) <= Len(t) /\ Len(t) <= Len(s)
  BY NotLonger
<1> QED
  BY <1>1, <1>2

-----------------------------------------------------------------------------
(* A run on its own: what is left of its plan fits the catalog.            *)

\* A catalog that is given: tables T and indexes X, well typed.
CatalogIs(T, X) ==
  /\ DOMAIN T \subseteq STRING
  /\ DOMAIN X \subseteq STRING
  /\ T \in [DOMAIN T -> StoredTable]
  /\ X \in [DOMAIN X -> StoredIndex]

\* The statement is about something that is there, or is still to come.
Possible(T, X, d, stmt) ==
  \/ \E n \in DOMAIN X, a \in {"-", "+/-"} : stmt = DropIndex(n, a)
  \/ \E t \in DOMAIN T \ Names(d) : stmt = DropTable(t)
  \/ \E dt \in ToSet(d) : stmt = CreateTable(dt) /\ dt.name \notin DOMAIN T
  \/ \E dt \in ToSet(d) : \E dc \in ToSet(dt.columns) :
       /\ stmt = AddColumn(dt.name, dc)
       /\ dt.name \in DOMAIN T
       /\ dc.name \notin Names(T[dt.name].columns)
  \/ \E dt \in ToSet(d) : \E di \in ToSet(dt.indexes), a \in {"+", "+/-"} :
       stmt = CreateIndex(dt.name, di, a)

\* The statements that drop index n.
Dropping(n) == {DropIndex(n, a) : a \in {"-", "+/-"}}
\* The statements that create index di of table dt.
Building(dt, di) == {CreateIndex(dt.name, di, a) : a \in {"+", "+/-"}}

\* Table st is dt but for the columns that the statements L add.
Conforms(st, dt, L) ==
  /\ st.primaryKey = dt.primaryKey
  /\ ToSet(st.uniques) = ToSet(dt.uniques)
  /\ CheckKeys(st) = CheckKeys(dt)
  /\ Names(st.columns) \subseteq Names(dt.columns)
  /\ \A dc \in ToSet(dt.columns) :
       \/ AddColumn(dt.name, dc) \in L
       \/ \E sc \in ToSet(st.columns) : SameColumn(sc, dc, dt.primaryKey)

\* The catalog is d but for what the statements L change.
Fits(T, X, d, L) ==
  /\ \A stmt \in L : Possible(T, X, d, stmt)
  /\ \A t \in DOMAIN T : t \in Names(d) \/ DropTable(t) \in L
  /\ \A dt \in ToSet(d) :
       CreateTable(dt) \in L \/ (dt.name \in DOMAIN T /\ Conforms(T[dt.name], dt, L))
  /\ \A n \in DOMAIN X :
       Own(X, n, d) \/ Dropping(n) \cap L # {} \/ DropTable(X[n].on) \in L
  /\ \A dt \in ToSet(d) : \A di \in ToSet(dt.indexes) :
       \/ Building(dt, di) \cap L # {}
       \/ IsIndex(X, di.name, dt.name, di) /\ Dropping(di.name) \cap L = {}

\* The first statement of those left, and the rest.
First(L, stmt, rest) ==
  /\ stmt \in L
  /\ rest \subseteq L
  /\ L \subseteq rest \cup {stmt}
  /\ \A s \in rest : <<stmt, s>> \in Before

\* All of it: the rest of the plan fits a catalog a run may meet.
Ready(T, X, d, L) == CatalogIs(T, X) /\ SoundCatalog(T, X, d) /\ Fits(T, X, d, L)

\* A schema that a run is made for.
Desirable(d) == d \in Seq(Table) /\ WellFormed(d) /\ Listed(d)

\* What schema d defines as table dt, it defines once.
DefinedOnce(d, dt) ==
  /\ dt \in Table /\ dt.name \in STRING
  /\ dt.name \in Names(d) /\ dt.name \in ToSet(Relnames)
  /\ WellFormedTable(dt)
  /\ \A c \in ToSet(dt.columns) : c \in Column /\ c.name \in Names(dt.columns)
  /\ \A i \in ToSet(dt.indexes) : i \in Index /\ i.name \in STRING /\ i.name \in ToSet(Relnames)
  /\ \A c, e \in ToSet(dt.columns) : c.name = e.name => c = e
  /\ \A du \in ToSet(d) : dt.name = du.name => dt = du
  /\ \A du \in ToSet(d) : \A i \in ToSet(dt.indexes), j \in ToSet(du.indexes) :
       i.name = j.name => dt = du /\ i = j

\* The tables of such a schema are defined once.
LEMMA DesiredIs ==
  ASSUME NEW d, Desirable(d), NEW dt \in ToSet(d)
  PROVE  DefinedOnce(d, dt)
<1>1. dt \in Table /\ dt.name \in STRING /\ dt.columns \in Seq(Column) /\ dt.indexes \in Seq(Index)
  <2>1. \A s \in Seq(Table) : \A t \in ToSet(s) : t \in Table
    BY DEF ToSet
  <2>2. dt \in Table
    BY <2>1 DEF Desirable
  <2> QED
    BY <2>2 DEF Table
<1>2. WellFormedTable(dt) /\ Distinct(dt.columns) /\ Distinct(dt.indexes)
  BY DEF Desirable, WellFormed, WellFormedTable
<1>3. dt.name \in Names(d)
  BY DEF ToSet, Names
<1>4. \A du \in ToSet(d) : dt.name = du.name => dt = du
  BY DEF Desirable, WellFormed, Distinct, ToSet
<1>5. \A c \in ToSet(dt.columns) : c \in Column /\ c.name \in Names(dt.columns)
  BY <1>1 DEF ToSet, Names
<1>6. \A i \in ToSet(dt.indexes) : i \in Index /\ i.name \in STRING /\ i.name \in Names(dt.indexes)
  <2>1. \A s \in Seq(Index) : \A i \in ToSet(s) : i \in Index /\ i.name \in Names(s)
    BY DEF ToSet, Names
  <2> QED
    BY <1>1, <2>1 DEF Index
<1>7. \A c, e \in ToSet(dt.columns) : c.name = e.name => c = e
  BY <1>2 DEF Distinct, ToSet
<1>8. dt.name \in ToSet(Relnames) /\ \A i \in ToSet(dt.indexes) : i.name \in ToSet(Relnames)
  BY <1>3, <1>6 DEF Desirable, Listed
<1>9. ASSUME NEW du \in ToSet(d), NEW i \in ToSet(dt.indexes), NEW j \in ToSet(du.indexes),
             i.name = j.name
      PROVE  dt = du /\ i = j
  <2>1. i.name \in Names(dt.indexes) /\ j.name \in Names(du.indexes)
    BY DEF ToSet, Names
  <2>2. dt.name = du.name
    BY <1>9, <2>1 DEF Desirable, WellFormed, IndexesApart
  <2>3. dt = du
    BY <1>4, <2>2
  <2>4. i = j
    BY <1>2, <1>9, <2>3 DEF Distinct, ToSet
  <2> QED
    BY <2>3, <2>4
<1> QED
  BY <1>1, <1>2, <1>3, <1>4, <1>5, <1>6, <1>7, <1>8, <1>9 DEF DefinedOnce

\* A statement of a plan, by its kind.
LEMMA KindsApart ==
  ASSUME NEW T, NEW X, NEW d, Desirable(d), NEW stmt, Possible(T, X, d, stmt)
  PROVE  /\ stmt.op = "DropIndex" => \E n \in DOMAIN X, a \in {"-", "+/-"} : stmt = DropIndex(n, a)
         /\ stmt.op = "DropTable" => \E t \in DOMAIN T \ Names(d) : stmt = DropTable(t)
         /\ stmt.op = "CreateTable" =>
              \E dt \in ToSet(d) : stmt = CreateTable(dt) /\ dt.name \notin DOMAIN T
         /\ stmt.op = "AddColumn" =>
              \E dt \in ToSet(d) : \E dc \in ToSet(dt.columns) :
                /\ stmt = AddColumn(dt.name, dc)
                /\ dt.name \in DOMAIN T
                /\ dc.name \notin Names(T[dt.name].columns)
         /\ stmt.op = "CreateIndex" =>
              \E dt \in ToSet(d) : \E di \in ToSet(dt.indexes), a \in {"+", "+/-"} :
                stmt = CreateIndex(dt.name, di, a)
         /\ stmt.op \in {"DropIndex", "DropTable", "CreateTable", "AddColumn", "CreateIndex"}
<1>1. \A dt \in ToSet(d) : \A c \in ToSet(dt.columns) : c \in Column
  BY DesiredIs DEF DefinedOnce
<1> QED
  BY <1>1, StatementsAre DEF Possible

\* What is left after a statement of one kind has nothing of an earlier kind.
LEMMA FirstKinds ==
  ASSUME NEW L, NEW stmt, NEW rest, First(L, stmt, rest)
  PROVE  /\ stmt.op \in {"DropTable", "CreateTable", "AddColumn", "CreateIndex"} =>
              \A s \in rest : s.op # "DropIndex"
         /\ stmt.op \in {"CreateTable", "AddColumn", "CreateIndex"} =>
              \A s \in rest : s.op # "DropTable"
         /\ stmt.op \in {"AddColumn", "CreateIndex"} => \A s \in rest : s.op # "CreateTable"
         /\ stmt.op = "CreateIndex" => \A s \in rest : s.op # "AddColumn"
         /\ \A s \in rest : ~SameTarget(stmt, s)
         /\ \A s \in L : s = stmt \/ s \in rest
<1>1. \A s \in rest : /\ stmt \in Statement /\ s \in Statement
                      /\ Rank(stmt) <= Rank(s) /\ ~SameTarget(stmt, s)
  BY DEF First, Before
<1>2. \A s \in Statement :
        /\ s.op = "DropIndex" => Rank(s) = 1
        /\ s.op = "DropTable" => Rank(s) = 2
        /\ s.op = "CreateTable" => Rank(s) = 3
        /\ s.op = "AddColumn" => Rank(s) = 4
        /\ s.op = "CreateIndex" => Rank(s) = 5
  BY DEF Rank
<1> QED
  BY <1>1, <1>2 DEF First

-----------------------------------------------------------------------------
(* Every statement that commits leaves a catalog the plan still fits.      *)

\* An index stays what it is when the indexes given up are others.
LEMMA OwnStays ==
  ASSUME NEW X, NEW X1, NEW d, NEW n \in DOMAIN X1, n \in DOMAIN X, X1[n] = X[n]
  PROVE  /\ Own(X, n, d) => Own(X1, n, d)
         /\ \A t, di : IsIndex(X, n, t, di) => IsIndex(X1, n, t, di)
BY DEF Own, IsIndex

\* Statements are told apart by their kind and by what they are about.
LEMMA Different ==
  ASSUME NEW stmt, NEW rest, NEW L, First(L, stmt, rest)
  PROVE  /\ \A n : stmt.op = "DropIndex" /\ stmt.name = n => Dropping(n) \cap rest = {}
         /\ \A n : stmt.op = "DropTable" /\ stmt.name = n => DropTable(n) \notin rest
         /\ \A dt : stmt.op = "CreateTable" /\ stmt.name = dt.name => CreateTable(dt) \notin rest
         /\ \A t : \A c \in Column : stmt.op = "AddColumn" /\ stmt.name = t /\ stmt.column.name = c.name =>
              AddColumn(t, c) \notin rest
         /\ \A n : stmt.op # "DropIndex" \/ stmt.name # n =>
              (Dropping(n) \cap L # {} => Dropping(n) \cap rest # {})
         /\ \A n : stmt.op # "DropTable" \/ stmt.name # n => (DropTable(n) \in L => DropTable(n) \in rest)
         /\ \A dt : stmt.op # "CreateTable" \/ stmt.name # dt.name =>
              (CreateTable(dt) \in L => CreateTable(dt) \in rest)
         /\ \A t : \A c \in Column : stmt.op # "AddColumn" \/ stmt.name # t \/ stmt.column.name # c.name =>
              (AddColumn(t, c) \in L => AddColumn(t, c) \in rest)
         /\ \A dt, di : stmt.op # "CreateIndex" \/ stmt.name # di.name =>
              (Building(dt, di) \cap L # {} => Building(dt, di) \cap rest # {})
<1>1. \A s \in rest : ~SameTarget(stmt, s)
  BY FirstKinds
<1>2. \A s \in L : s = stmt \/ s \in rest
  BY FirstKinds
<1>3. \A n : stmt.op = "DropIndex" /\ stmt.name = n => Dropping(n) \cap rest = {}
  BY <1>1, StatementsAre DEF Dropping, SameTarget
<1>4. \A n : stmt.op = "DropTable" /\ stmt.name = n => DropTable(n) \notin rest
  BY <1>1, StatementsAre DEF SameTarget
<1>5. \A dt : stmt.op = "CreateTable" /\ stmt.name = dt.name => CreateTable(dt) \notin rest
  BY <1>1, StatementsAre DEF SameTarget
<1>6. \A t : \A c \in Column : stmt.op = "AddColumn" /\ stmt.name = t /\ stmt.column.name = c.name =>
              AddColumn(t, c) \notin rest
  BY <1>1, StatementsAre DEF SameTarget
<1>7. \A n : stmt.op # "DropIndex" \/ stmt.name # n =>
              (Dropping(n) \cap L # {} => Dropping(n) \cap rest # {})
  BY <1>2, StatementsAre DEF Dropping
<1>8. \A n : stmt.op # "DropTable" \/ stmt.name # n => (DropTable(n) \in L => DropTable(n) \in rest)
  BY <1>2, StatementsAre
<1>9. \A dt : stmt.op # "CreateTable" \/ stmt.name # dt.name =>
              (CreateTable(dt) \in L => CreateTable(dt) \in rest)
  BY <1>2, StatementsAre
<1>10. \A t : \A c \in Column : stmt.op # "AddColumn" \/ stmt.name # t \/ stmt.column.name # c.name =>
              (AddColumn(t, c) \in L => AddColumn(t, c) \in rest)
  BY <1>2, StatementsAre
<1>11. \A dt, di : stmt.op # "CreateIndex" \/ stmt.name # di.name =>
              (Building(dt, di) \cap L # {} => Building(dt, di) \cap rest # {})
  BY <1>2, StatementsAre DEF Building
<1> QED
  BY <1>3, <1>4, <1>5, <1>6, <1>7, <1>8, <1>9, <1>10, <1>11

\* A table conforms as before when the columns still to be added are the same.
LEMMA ConformsStill ==
  ASSUME NEW st, NEW dt, NEW L, NEW rest, Conforms(st, dt, L),
         \A dc \in ToSet(dt.columns) : AddColumn(dt.name, dc) \in L => AddColumn(dt.name, dc) \in rest
  PROVE  Conforms(st, dt, rest)
BY DEF Conforms

\* DROP INDEX leaves a catalog that what is left of the plan fits.
LEMMA DropIndexFits ==
  ASSUME NEW T, NEW X, NEW d, Desirable(d), NEW L, Ready(T, X, d, L),
         NEW stmt, NEW rest, First(L, stmt, rest),
         stmt.op = "DropIndex", stmt.name \in DOMAIN X,
         NEW X1, X1 = Restrict(X, DOMAIN X \ {stmt.name})
  PROVE  Ready(T, X1, d, rest)
<1> DEFINE n == stmt.name
<1>1. DOMAIN X1 = DOMAIN X \ {n} /\ \A m \in DOMAIN X1 : X1[m] = X[m]
  BY DEF Restrict
<1>2. CatalogIs(T, X1)
  BY <1>1 DEF Ready, CatalogIs, Restrict
<1>3. SoundCatalog(T, X1, d)
  <2>1. \A m \in DOMAIN X1 : Own(X, m, d) => Own(X1, m, d)
    BY <1>1, OwnStays
  <2> QED
    BY <1>1, <2>1 DEF Ready, SoundCatalog
<1>4. \A s \in rest : Possible(T, X1, d, s)
  <2> SUFFICES ASSUME NEW s \in rest PROVE Possible(T, X1, d, s)
    OBVIOUS
  <2>1. Possible(T, X, d, s) /\ ~SameTarget(stmt, s)
    BY FirstKinds DEF First, Ready, Fits
  <2>2. ASSUME NEW m \in DOMAIN X, NEW a \in {"-", "+/-"}, s = DropIndex(m, a)
        PROVE  m \in DOMAIN X1
    BY <1>1, <2>1, <2>2, StatementsAre DEF SameTarget
  <2> QED
    BY <2>1, <2>2 DEF Possible
<1>5. \A t \in DOMAIN T : t \in Names(d) \/ DropTable(t) \in rest
  BY Different DEF Ready, Fits
<1>6. \A dt \in ToSet(d) :
        CreateTable(dt) \in rest \/ (dt.name \in DOMAIN T /\ Conforms(T[dt.name], dt, rest))
  <2>1. \A dt \in ToSet(d) : \A dc \in ToSet(dt.columns) :
          AddColumn(dt.name, dc) \in L => AddColumn(dt.name, dc) \in rest
    BY Different, DesiredIs DEF DefinedOnce
  <2> QED
    BY <2>1, ConformsStill, Different DEF Ready, Fits
<1>7. \A m \in DOMAIN X1 :
        Own(X1, m, d) \/ Dropping(m) \cap rest # {} \/ DropTable(X1[m].on) \in rest
  <2> SUFFICES ASSUME NEW m \in DOMAIN X1
               PROVE  Own(X1, m, d) \/ Dropping(m) \cap rest # {} \/ DropTable(X1[m].on) \in rest
    OBVIOUS
  <2>1. m # n /\ m \in DOMAIN X /\ X1[m] = X[m]
    BY <1>1
  <2>2. Own(X, m, d) \/ Dropping(m) \cap L # {} \/ DropTable(X[m].on) \in L
    BY <2>1 DEF Ready, Fits
  <2>3. Own(X, m, d) => Own(X1, m, d)
    BY <2>1, OwnStays
  <2> QED
    BY <2>1, <2>2, <2>3, Different
<1>8. \A dt \in ToSet(d) : \A di \in ToSet(dt.indexes) :
        \/ Building(dt, di) \cap rest # {}
        \/ IsIndex(X1, di.name, dt.name, di) /\ Dropping(di.name) \cap rest = {}
  <2> SUFFICES ASSUME NEW dt \in ToSet(d), NEW di \in ToSet(dt.indexes),
                      Building(dt, di) \cap rest = {}
               PROVE  IsIndex(X1, di.name, dt.name, di) /\ Dropping(di.name) \cap rest = {}
    OBVIOUS
  <2>1. IsIndex(X, di.name, dt.name, di) /\ Dropping(di.name) \cap L = {}
    BY Different DEF Ready, Fits
  <2>2. di.name # n
    <3>1. stmt \in L /\ Possible(T, X, d, stmt)
      BY DEF First, Ready, Fits
    <3>2. PICK m \in DOMAIN X, a \in {"-", "+/-"} : stmt = DropIndex(m, a)
      BY <3>1, KindsApart
    <3>3. stmt \in Dropping(n)
      BY <3>2, StatementsAre DEF Dropping
    <3> QED
      BY <2>1, <3>1, <3>3
  <2>3. di.name \in DOMAIN X1
    BY <1>1, <2>1, <2>2 DEF IsIndex
  <2> QED
    BY <1>1, <2>1, <2>3, OwnStays DEF First
<1> QED
  BY <1>2, <1>3, <1>4, <1>5, <1>6, <1>7, <1>8 DEF Ready, Fits

\* DROP TABLE, of a table that the schema files do not define.
LEMMA DropTableFits ==
  ASSUME NEW T, NEW X, NEW d, Desirable(d), NEW L, Ready(T, X, d, L),
         NEW stmt, NEW rest, First(L, stmt, rest), stmt.op = "DropTable",
         NEW T1, T1 = Restrict(T, DOMAIN T \ {stmt.name}),
         NEW X1, X1 = Restrict(X, {n \in DOMAIN X : X[n].on # stmt.name})
  PROVE  Ready(T1, X1, d, rest)
<1>1. DOMAIN T1 = DOMAIN T \ {stmt.name} /\ \A t \in DOMAIN T1 : T1[t] = T[t]
  BY DEF Restrict
<1>2. DOMAIN X1 = {n \in DOMAIN X : X[n].on # stmt.name} /\ \A m \in DOMAIN X1 : X1[m] = X[m]
  BY DEF Restrict
<1>3. stmt.name \notin Names(d)
  <2>1. Possible(T, X, d, stmt)
    BY DEF First, Ready, Fits
  <2>2. PICK t \in DOMAIN T \ Names(d) : stmt = DropTable(t)
    BY <2>1, KindsApart
  <2> QED
    BY <2>2, StatementsAre
<1>4. CatalogIs(T1, X1)
  BY <1>1, <1>2 DEF Ready, CatalogIs, Restrict
<1>5. SoundCatalog(T1, X1, d)
  <2>1. \A m \in DOMAIN X1 : Own(X, m, d) => Own(X1, m, d)
    BY <1>2, OwnStays
  <2> QED
    BY <1>1, <1>2, <2>1 DEF Ready, SoundCatalog
<1>6. \A s \in rest : Possible(T1, X1, d, s)
  <2> SUFFICES ASSUME NEW s \in rest PROVE Possible(T1, X1, d, s)
    OBVIOUS
  <2>1. Possible(T, X, d, s) /\ ~SameTarget(stmt, s) /\ s.op # "DropIndex"
    BY FirstKinds DEF First, Ready, Fits
  <2>2. ASSUME NEW t \in DOMAIN T \ Names(d), s = DropTable(t)
        PROVE  t \in DOMAIN T1
    BY <1>1, <2>1, <2>2, StatementsAre DEF SameTarget
  <2>3. \A dt \in ToSet(d) : dt.name \in Names(d)
    BY DesiredIs DEF DefinedOnce
  <2>4. \A dt \in ToSet(d) : dt.name \in DOMAIN T => dt.name \in DOMAIN T1 /\ T1[dt.name] = T[dt.name]
    BY <1>1, <1>3, <2>3
  <2>5. \A n, a : s # DropIndex(n, a)
    BY <2>1, StatementsAre
  <2> QED
    BY <1>1, <2>1, <2>2, <2>4, <2>5 DEF Possible
<1>7. \A t \in DOMAIN T1 : t \in Names(d) \/ DropTable(t) \in rest
  BY <1>1, Different DEF Ready, Fits
<1>8. \A dt \in ToSet(d) :
        CreateTable(dt) \in rest \/ (dt.name \in DOMAIN T1 /\ Conforms(T1[dt.name], dt, rest))
  <2>1. \A dt \in ToSet(d) : \A dc \in ToSet(dt.columns) :
          AddColumn(dt.name, dc) \in L => AddColumn(dt.name, dc) \in rest
    BY Different, DesiredIs DEF DefinedOnce
  <2>2. \A dt \in ToSet(d) : dt.name \in DOMAIN T => dt.name \in DOMAIN T1 /\ T1[dt.name] = T[dt.name]
    BY <1>1, <1>3, DesiredIs DEF DefinedOnce
  <2> SUFFICES ASSUME NEW dt \in ToSet(d), CreateTable(dt) \notin rest
               PROVE  dt.name \in DOMAIN T1 /\ Conforms(T1[dt.name], dt, rest)
    OBVIOUS
  <2>3. CreateTable(dt) \notin L
    BY Different
  <2>4. dt.name \in DOMAIN T /\ Conforms(T[dt.name], dt, L)
    BY <2>3 DEF Ready, Fits
  <2>5. Conforms(T[dt.name], dt, rest)
    BY <2>1, <2>4, ConformsStill
  <2> QED
    BY <2>2, <2>4, <2>5
<1>9. \A m \in DOMAIN X1 :
        Own(X1, m, d) \/ Dropping(m) \cap rest # {} \/ DropTable(X1[m].on) \in rest
  <2> SUFFICES ASSUME NEW m \in DOMAIN X1
               PROVE  Own(X1, m, d) \/ Dropping(m) \cap rest # {} \/ DropTable(X1[m].on) \in rest
    OBVIOUS
  <2>1. m \in DOMAIN X /\ X1[m] = X[m] /\ X[m].on # stmt.name
    BY <1>2
  <2>2. Own(X, m, d) \/ Dropping(m) \cap L # {} \/ DropTable(X[m].on) \in L
    BY <2>1 DEF Ready, Fits
  <2>3. Own(X, m, d) => Own(X1, m, d)
    BY <2>1, OwnStays
  <2> QED
    BY <2>1, <2>2, <2>3, Different
<1>10. \A dt \in ToSet(d) : \A di \in ToSet(dt.indexes) :
        \/ Building(dt, di) \cap rest # {}
        \/ IsIndex(X1, di.name, dt.name, di) /\ Dropping(di.name) \cap rest = {}
  <2> SUFFICES ASSUME NEW dt \in ToSet(d), NEW di \in ToSet(dt.indexes),
                      Building(dt, di) \cap rest = {}
               PROVE  IsIndex(X1, di.name, dt.name, di) /\ Dropping(di.name) \cap rest = {}
    OBVIOUS
  <2>1. IsIndex(X, di.name, dt.name, di) /\ Dropping(di.name) \cap L = {}
    BY Different DEF Ready, Fits
  <2>2. di.name \in DOMAIN X1
    <3>1. dt.name # stmt.name
      BY <1>3, DesiredIs DEF DefinedOnce
    <3> QED
      BY <1>2, <2>1, <3>1 DEF IsIndex
  <2> QED
    BY <1>2, <2>1, <2>2, OwnStays DEF First, IsIndex
<1> QED
  BY <1>4, <1>5, <1>6, <1>7, <1>8, <1>9, <1>10 DEF Ready, Fits

\* A column as it is stored for a definition that is well formed.
LEMMA StoredIsSound ==
  ASSUME NEW c \in Column, NEW pk, NEW sc, sc = Stored(ColumnDef(c), pk)
  PROVE  /\ sc.name = c.name
         /\ format_type(sc.type) = sc.type
         /\ c.name \in ToSet(pk) => ~sc.nullable
         /\ sc.identity # "" => sc.default = NoDefault
<1>1. PICK w \in Column : w = ColumnDef(c)
  BY ColumnDefType
<1>2. w.name = c.name /\ w.identity = c.identity /\ (w.identity # "" => w.default = NoDefault)
  BY <1>1 DEF ColumnDef, Column
<1>3. w.type \in Type
  BY <1>1 DEF Column
<1>4. /\ sc.name = w.name /\ sc.type = format_type(w.type) /\ sc.identity = w.identity
      /\ sc.nullable = (w.nullable /\ w.name \notin ToSet(pk) /\ w.identity = "")
      /\ w.default = NoDefault => sc.default = NoDefault
  BY <1>1, StoredFields
<1>5. format_type(sc.type) = sc.type
  BY <1>3, <1>4, PrintedOnce
<1> QED
  BY <1>2, <1>4, <1>5

\* What CREATE TABLE stores is the table the schema files define.
LEMMA CreatedTable ==
  ASSUME NEW dt \in Table, WellFormedTable(dt), NEW rest,
         NEW st, st = StoredAs(CreateTable(dt).table)
  PROVE  st \in StoredTable /\ SoundTable(st) /\ Conforms(st, dt, rest)
<1>1. PICK t : t = CreateTable(dt).table
  OBVIOUS
<1>2. t = [dt EXCEPT !.columns = [i \in DOMAIN dt.columns |-> ColumnDef(dt.columns[i])]]
  BY <1>1 DEF CreateTable
<1>3. t \in Table
  <2>1. CreateTable(dt) \in Statement /\ CreateTable(dt).op = "CreateTable"
    BY CreateTableType, StatementsAre
  <2> QED
    BY <1>1, <2>1 DEF Statement
<1>4. st \in StoredTable
  BY <1>1, <1>3, StoredAsType
<1>5. /\ t.columns = [i \in DOMAIN dt.columns |-> ColumnDef(dt.columns[i])]
      /\ t.primaryKey = dt.primaryKey /\ t.uniques = dt.uniques /\ t.checks = dt.checks
  BY <1>2 DEF Table
<1>6. /\ st.columns = [i \in DOMAIN t.columns |-> Stored(t.columns[i], t.primaryKey)]
      /\ st.primaryKey = dt.primaryKey /\ st.uniques = dt.uniques
      /\ st.checks = [i \in DOMAIN dt.checks |-> [dt.checks[i] EXCEPT !.stored = TRUE]]
  BY <1>1, <1>5 DEF StoredAs
<1>7. /\ DOMAIN st.columns = DOMAIN dt.columns
      /\ \A i \in DOMAIN dt.columns : st.columns[i] = Stored(ColumnDef(dt.columns[i]), dt.primaryKey)
  BY <1>5, <1>6
<1>8. \A i \in DOMAIN dt.columns : dt.columns[i] \in Column /\ dt.columns[i] \in ToSet(dt.columns)
  BY DEF Table, ToSet
<1>9. \A i \in DOMAIN st.columns :
        /\ st.columns[i].name = dt.columns[i].name
        /\ format_type(st.columns[i].type) = st.columns[i].type
        /\ dt.columns[i].name \in ToSet(dt.primaryKey) => ~st.columns[i].nullable
        /\ st.columns[i].identity # "" => st.columns[i].default = NoDefault
  <2> SUFFICES ASSUME NEW i \in DOMAIN dt.columns
               PROVE  /\ st.columns[i].name = dt.columns[i].name
                      /\ format_type(st.columns[i].type) = st.columns[i].type
                      /\ dt.columns[i].name \in ToSet(dt.primaryKey) => ~st.columns[i].nullable
                      /\ st.columns[i].identity # "" => st.columns[i].default = NoDefault
    BY <1>7
  <2>1. PICK c, sc, pk : c = dt.columns[i] /\ sc = st.columns[i] /\ pk = dt.primaryKey
    OBVIOUS
  <2>2. c \in Column /\ sc = Stored(ColumnDef(c), pk)
    BY <1>7, <1>8, <2>1
  <2>3. /\ sc.name = c.name
        /\ format_type(sc.type) = sc.type
        /\ c.name \in ToSet(pk) => ~sc.nullable
        /\ sc.identity # "" => sc.default = NoDefault
    BY <2>2, StoredIsSound
  <2> QED
    BY <2>1, <2>3
<1>10. Names(st.columns) = Names(dt.columns)
  BY <1>7, <1>9 DEF Names
<1>11. SoundTable(st)
  <2>1. Distinct(st.columns)
    <3>1. Distinct(dt.columns)
      BY DEF WellFormedTable
    <3> QED
      BY <1>7, <1>9, <3>1 DEF Distinct
  <2>2. ToSet(st.primaryKey) \subseteq Names(st.columns)
    BY <1>6, <1>10 DEF WellFormedTable
  <2>3. \A c \in ToSet(st.columns) : /\ format_type(c.type) = c.type
                                     /\ c.name \in ToSet(st.primaryKey) => ~c.nullable
                                     /\ c.identity # "" => c.default = NoDefault
    <3> SUFFICES ASSUME NEW i \in DOMAIN st.columns, NEW c, c = st.columns[i]
                 PROVE  /\ format_type(c.type) = c.type
                        /\ c.name \in ToSet(st.primaryKey) => ~c.nullable
                        /\ c.identity # "" => c.default = NoDefault
      BY DEF ToSet
    <3> QED
      BY <1>6, <1>9
  <2> QED
    BY <2>1, <2>2, <2>3 DEF SoundTable
<1>12. Conforms(st, dt, rest)
  <2>1. CheckKeys(st) = CheckKeys(dt)
    <3>1. DOMAIN st.checks = DOMAIN dt.checks
      BY <1>6
    <3>2. \A i \in DOMAIN dt.checks : normalizeCheck(st.checks[i]) = normalizeCheck(dt.checks[i])
      <4>1. \A i \in DOMAIN dt.checks : dt.checks[i] \in Check
        BY DEF Table
      <4> QED
        BY <1>6, <4>1 DEF normalizeCheck, Check
    <3> QED
      BY <3>1, <3>2 DEF CheckKeys, ToSet
  <2>2. ASSUME NEW dc \in ToSet(dt.columns)
        PROVE  \E sc \in ToSet(st.columns) : SameColumn(sc, dc, dt.primaryKey)
    <3>1. PICK i \in DOMAIN dt.columns : dc = dt.columns[i]
      BY DEF ToSet
    <3>2. SameColumn(st.columns[i], dc, dt.primaryKey)
      BY <1>7, <1>8, <3>1, CreatedColumn
    <3> QED
      BY <1>7, <3>2 DEF ToSet
  <2> QED
    BY <1>6, <1>10, <2>1, <2>2 DEF Conforms
<1> QED
  BY <1>4, <1>11, <1>12

\* CREATE TABLE, of a table that is not there.
LEMMA CreateTableFits ==
  ASSUME NEW T, NEW X, NEW d, Desirable(d), NEW L, Ready(T, X, d, L),
         NEW stmt, NEW rest, First(L, stmt, rest), stmt.op = "CreateTable",
         NEW T1, T1 = Put(T, stmt.name, StoredAs(stmt.table))
  PROVE  Ready(T1, X, d, rest)
<1>1. PICK dt0 \in ToSet(d) : stmt = CreateTable(dt0) /\ dt0.name \notin DOMAIN T
  <2>1. Possible(T, X, d, stmt)
    BY DEF First, Ready, Fits
  <2> QED
    BY <2>1, KindsApart
<1>2. stmt.name = dt0.name
  BY <1>1, StatementsAre
<1>3. PICK st : st = StoredAs(CreateTable(dt0).table)
  OBVIOUS
<1>4. /\ DOMAIN T1 = DOMAIN T \cup {dt0.name}
      /\ T1[dt0.name] = st
      /\ \A t \in DOMAIN T : T1[t] = T[t] /\ t # dt0.name
      /\ T1 = [t \in DOMAIN T1 |-> T1[t]]
  BY <1>1, <1>2, <1>3 DEF Put
<1>5. DefinedOnce(d, dt0)
  BY DesiredIs
<1>6. st \in StoredTable /\ SoundTable(st) /\ Conforms(st, dt0, rest)
  BY <1>3, <1>5, CreatedTable DEF DefinedOnce
<1>7. CatalogIs(T1, X)
  <2>1. \A t \in DOMAIN T1 : T1[t] \in StoredTable /\ t \in STRING
    BY <1>4, <1>5, <1>6 DEF Ready, CatalogIs, DefinedOnce
  <2> QED
    BY <1>4, <2>1 DEF Ready, CatalogIs
<1>8. SoundCatalog(T1, X, d)
  BY <1>4, <1>5, <1>6 DEF Ready, SoundCatalog, DefinedOnce
<1>9. \A s \in rest : Possible(T1, X, d, s)
  <2> SUFFICES ASSUME NEW s \in rest PROVE Possible(T1, X, d, s)
    OBVIOUS
  <2>1. Possible(T, X, d, s) /\ ~SameTarget(stmt, s)
    BY FirstKinds DEF First, Ready, Fits
  <2>2. ASSUME NEW dt \in ToSet(d), s = CreateTable(dt)
        PROVE  dt.name # dt0.name
    BY <1>1, <2>1, <2>2, StatementsAre DEF SameTarget
  <2> QED
    BY <1>4, <2>1, <2>2 DEF Possible
<1>10. \A t \in DOMAIN T1 : t \in Names(d) \/ DropTable(t) \in rest
  BY <1>4, <1>5, Different DEF Ready, Fits, DefinedOnce
<1>11. \A dt \in ToSet(d) :
        CreateTable(dt) \in rest \/ (dt.name \in DOMAIN T1 /\ Conforms(T1[dt.name], dt, rest))
  <2>1. \A dt \in ToSet(d) : \A dc \in ToSet(dt.columns) :
          AddColumn(dt.name, dc) \in L => AddColumn(dt.name, dc) \in rest
    BY Different, DesiredIs DEF DefinedOnce
  <2> SUFFICES ASSUME NEW dt \in ToSet(d), CreateTable(dt) \notin rest
               PROVE  dt.name \in DOMAIN T1 /\ Conforms(T1[dt.name], dt, rest)
    OBVIOUS
  <2>2. CASE dt = dt0
    BY <1>4, <1>6, <2>2
  <2>3. CASE dt # dt0
    <3>1. dt.name # dt0.name
      BY <1>5, <2>3 DEF DefinedOnce
    <3>2. CreateTable(dt) \notin L
      BY <1>2, <3>1, Different
    <3>3. dt.name \in DOMAIN T /\ Conforms(T[dt.name], dt, L)
      BY <3>2 DEF Ready, Fits
    <3>4. Conforms(T[dt.name], dt, rest)
      BY <2>1, <3>3, ConformsStill
    <3> QED
      BY <1>4, <3>3, <3>4
  <2> QED
    BY <2>2, <2>3
<1>12. \A m \in DOMAIN X :
        Own(X, m, d) \/ Dropping(m) \cap rest # {} \/ DropTable(X[m].on) \in rest
  BY Different DEF Ready, Fits
<1>13. \A dt \in ToSet(d) : \A di \in ToSet(dt.indexes) :
        \/ Building(dt, di) \cap rest # {}
        \/ IsIndex(X, di.name, dt.name, di) /\ Dropping(di.name) \cap rest = {}
  <2> SUFFICES ASSUME NEW dt \in ToSet(d), NEW di \in ToSet(dt.indexes),
                      Building(dt, di) \cap rest = {}
               PROVE  IsIndex(X, di.name, dt.name, di) /\ Dropping(di.name) \cap rest = {}
    OBVIOUS
  <2>1. Building(dt, di) \cap L = {}
    BY Different
  <2>2. IsIndex(X, di.name, dt.name, di) /\ Dropping(di.name) \cap L = {}
    BY <2>1 DEF Ready, Fits
  <2> QED
    BY <2>2 DEF First
<1> QED
  BY <1>7, <1>8, <1>9, <1>10, <1>11, <1>12, <1>13 DEF Ready, Fits

\* A table with one more column.
Extended(st, c) == [st EXCEPT !.columns = Append(@, Stored(ColumnDef(c), <<>>))]

\* It is sound still, and has the columns it had and the new one.
LEMMA AppendedColumn ==
  ASSUME NEW st \in StoredTable, SoundTable(st),
         NEW c \in Column, c.name \notin Names(st.columns)
  PROVE  /\ Extended(st, c) \in StoredTable
         /\ SoundTable(Extended(st, c))
         /\ ToSet(Extended(st, c).columns) = ToSet(st.columns) \cup {Stored(ColumnDef(c), <<>>)}
         /\ Names(Extended(st, c).columns) = Names(st.columns) \cup {c.name}
         /\ Extended(st, c).primaryKey = st.primaryKey
         /\ Extended(st, c).uniques = st.uniques
         /\ Extended(st, c).checks = st.checks
<1>0. PICK su, sc : su = Extended(st, c) /\ sc = Stored(ColumnDef(c), <<>>)
  OBVIOUS
<1>1. sc \in Column /\ sc.name = c.name
  BY <1>0, ColumnDefType, StoredColumnType, StoredIsSound
<1>2. st.columns \in Seq(Column)
  BY DEF StoredTable
<1>3. PICK cols \in Seq(Column) : cols = st.columns
  BY <1>2
<1>4. PICK more : more = Append(cols, sc)
  OBVIOUS
<1>5. /\ more \in Seq(Column) /\ Len(more) = Len(cols) + 1 /\ Len(cols) \in Nat
      /\ DOMAIN more = 1..Len(cols) + 1 /\ DOMAIN cols = 1..Len(cols)
      /\ more[Len(cols) + 1] = sc
      /\ \A i \in 1..Len(cols) : more[i] = cols[i]
  BY <1>1, <1>4
<1>6. \A i \in DOMAIN more : i \in DOMAIN cols \/ i = Len(cols) + 1
  BY <1>5
<1>7. /\ su.columns = more /\ su.primaryKey = st.primaryKey
      /\ su.uniques = st.uniques /\ su.checks = st.checks
  BY <1>0, <1>3, <1>4 DEF StoredTable, Extended
<1>8. su \in StoredTable
  BY <1>0, <1>3, <1>4, <1>5 DEF StoredTable, Extended
<1>9. ToSet(more) = ToSet(cols) \cup {sc}
  <2>1. PICK one : one = <<sc>>
    OBVIOUS
  <2>2. Append(cols, sc) = cols \o one /\ one \in Seq(Column) /\ ToSet(one) = {sc}
    BY <1>1, <2>1, AppendIsJoin
  <2> QED
    BY <1>4, <2>2, JoinedSet
<1>10. Names(more) = Names(cols) \cup {c.name}
  <2>1. \A n : n \in Names(more) <=> \E x \in ToSet(more) : x.name = n
    BY DEF Names, ToSet
  <2>2. \A n : n \in Names(cols) <=> \E x \in ToSet(cols) : x.name = n
    BY DEF Names, ToSet
  <2> QED
    BY <1>1, <1>9, <2>1, <2>2
<1>11. SoundTable(su)
  <2>1. Distinct(more)
    <3> SUFFICES ASSUME NEW i \in DOMAIN more, NEW j \in DOMAIN more, more[i].name = more[j].name
                 PROVE  i = j
      BY DEF Distinct
    <3>1. Distinct(cols)
      BY <1>3 DEF SoundTable
    <3>2. \A k \in DOMAIN cols : more[k] = cols[k] /\ cols[k].name # c.name
      BY <1>3, <1>5 DEF Names
    <3>3. CASE i \in DOMAIN cols /\ j \in DOMAIN cols
      BY <3>1, <3>2, <3>3 DEF Distinct
    <3>4. CASE i \in DOMAIN cols /\ j = Len(cols) + 1
      BY <1>1, <1>5, <3>2, <3>4
    <3>5. CASE j \in DOMAIN cols /\ i = Len(cols) + 1
      BY <1>1, <1>5, <3>2, <3>5
    <3> QED
      BY <1>6, <3>3, <3>4, <3>5
  <2>2. ToSet(su.primaryKey) \subseteq Names(su.columns)
    BY <1>3, <1>7, <1>10 DEF SoundTable
  <2>3. \A x \in ToSet(cols) : /\ format_type(x.type) = x.type
                               /\ x.name \in ToSet(st.primaryKey) => ~x.nullable
                               /\ x.identity # "" => x.default = NoDefault
    BY <1>3 DEF SoundTable
  <2>4. /\ format_type(sc.type) = sc.type
        /\ sc.identity # "" => sc.default = NoDefault
        /\ sc.name \notin ToSet(st.primaryKey)
    <3>1. PICK pk : pk = <<>>
      OBVIOUS
    <3>2. sc = Stored(ColumnDef(c), pk)
      BY <1>0, <3>1
    <3>3. format_type(sc.type) = sc.type /\ (sc.identity # "" => sc.default = NoDefault)
      BY <3>2, StoredIsSound
    <3>4. ToSet(st.primaryKey) \subseteq Names(st.columns)
      BY DEF SoundTable
    <3> QED
      BY <1>1, <3>3, <3>4
  <2> QED
    BY <1>7, <1>9, <2>1, <2>2, <2>3, <2>4 DEF SoundTable
<1> QED
  BY <1>0, <1>3, <1>7, <1>8, <1>9, <1>10, <1>11

\* ALTER TABLE ADD COLUMN.
LEMMA AddColumnFits ==
  ASSUME NEW T, NEW X, NEW d, Desirable(d), NEW L, Ready(T, X, d, L),
         NEW stmt, NEW rest, First(L, stmt, rest), stmt.op = "AddColumn",
         NEW T1, T1 = [T EXCEPT ![stmt.name].columns = Append(@, Stored(stmt.column, <<>>))]
  PROVE  Ready(T1, X, d, rest)
<1>0. PICK dt0 \in ToSet(d) :
        \E dc \in ToSet(dt0.columns) : /\ stmt = AddColumn(dt0.name, dc)
                                       /\ dt0.name \in DOMAIN T
                                       /\ dc.name \notin Names(T[dt0.name].columns)
  <2>1. Possible(T, X, d, stmt)
    BY DEF First, Ready, Fits
  <2> QED
    BY <2>1, KindsApart
<1>1. PICK dc0 \in ToSet(dt0.columns) : /\ stmt = AddColumn(dt0.name, dc0)
                                        /\ dt0.name \in DOMAIN T
                                        /\ dc0.name \notin Names(T[dt0.name].columns)
  BY <1>0
<1>2. DefinedOnce(d, dt0)
  BY DesiredIs
<1>3. dc0 \in Column
  BY <1>2 DEF DefinedOnce
<1>4. stmt.name = dt0.name /\ stmt.column = ColumnDef(dc0) /\ stmt.column.name = dc0.name
  BY <1>1, <1>3, StatementsAre DEF AddColumn
<1>5. PICK st, sc : st = T[dt0.name] /\ sc = Stored(ColumnDef(dc0), <<>>)
  OBVIOUS
<1>6. st \in StoredTable /\ SoundTable(st)
  BY <1>1, <1>5 DEF Ready, CatalogIs, SoundCatalog
<1>7. PICK su : su = Extended(st, dc0)
  OBVIOUS
<1>8. /\ su \in StoredTable /\ SoundTable(su)
      /\ ToSet(su.columns) = ToSet(st.columns) \cup {sc}
      /\ Names(su.columns) = Names(st.columns) \cup {dc0.name}
      /\ su.primaryKey = st.primaryKey /\ su.uniques = st.uniques /\ su.checks = st.checks
  <2>1. dc0.name \notin Names(st.columns)
    BY <1>1, <1>5
  <2> QED
    BY <1>3, <1>5, <1>6, <1>7, <2>1, AppendedColumn
<1>9. /\ DOMAIN T1 = DOMAIN T /\ T1[dt0.name] = su
      /\ \A t \in DOMAIN T : t # dt0.name => T1[t] = T[t]
      /\ T1 = [t \in DOMAIN T1 |-> T1[t]]
  BY <1>1, <1>4, <1>5, <1>7 DEF Extended
<1>10. CatalogIs(T1, X)
  <2>1. \A t \in DOMAIN T1 : T1[t] \in StoredTable
    BY <1>8, <1>9 DEF Ready, CatalogIs
  <2> QED
    BY <1>9, <2>1 DEF Ready, CatalogIs
<1>11. SoundCatalog(T1, X, d)
  <2>1. \A t \in DOMAIN T1 : SoundTable(T1[t])
    BY <1>8, <1>9 DEF Ready, SoundCatalog
  <2> QED
    BY <1>9, <2>1 DEF Ready, SoundCatalog
<1>12. \A s \in rest : Possible(T1, X, d, s)
  <2> SUFFICES ASSUME NEW s \in rest PROVE Possible(T1, X, d, s)
    OBVIOUS
  <2>1. Possible(T, X, d, s) /\ ~SameTarget(stmt, s)
    BY FirstKinds DEF First, Ready, Fits
  <2>2. ASSUME NEW dt \in ToSet(d), NEW dc \in ToSet(dt.columns), s = AddColumn(dt.name, dc),
               dt.name \in DOMAIN T, dc.name \notin Names(T[dt.name].columns)
        PROVE  dc.name \notin Names(T1[dt.name].columns)
    <3>1. dc \in Column
      BY DesiredIs DEF DefinedOnce
    <3>2. s.op = "AddColumn" /\ s.name = dt.name /\ s.column.name = dc.name
      BY <2>2, <3>1, StatementsAre
    <3>3. dt.name # dt0.name \/ dc.name # dc0.name
      BY <1>4, <2>1, <3>2 DEF SameTarget
    <3> QED
      BY <1>5, <1>8, <1>9, <2>2, <3>3
  <2> QED
    BY <1>9, <2>1, <2>2 DEF Possible
<1>13. \A t \in DOMAIN T1 : t \in Names(d) \/ DropTable(t) \in rest
  BY <1>9, Different DEF Ready, Fits
<1>14. \A dt \in ToSet(d) :
        CreateTable(dt) \in rest \/ (dt.name \in DOMAIN T1 /\ Conforms(T1[dt.name], dt, rest))
  <2> SUFFICES ASSUME NEW dt \in ToSet(d), CreateTable(dt) \notin rest
               PROVE  dt.name \in DOMAIN T1 /\ Conforms(T1[dt.name], dt, rest)
    OBVIOUS
  <2>1. CreateTable(dt) \notin L
    BY Different
  <2>2. dt.name \in DOMAIN T /\ Conforms(T[dt.name], dt, L)
    BY <2>1 DEF Ready, Fits
  <2>3. DefinedOnce(d, dt)
    BY DesiredIs
  <2>4. CASE dt = dt0
    <3>1. /\ st.primaryKey = dt.primaryKey /\ ToSet(st.uniques) = ToSet(dt.uniques)
          /\ CheckKeys(st) = CheckKeys(dt) /\ Names(st.columns) \subseteq Names(dt.columns)
      BY <1>5, <2>2, <2>4 DEF Conforms
    <3>2. CheckKeys(su) = CheckKeys(st)
      BY <1>8 DEF CheckKeys
    <3>3. Names(su.columns) \subseteq Names(dt.columns)
      BY <1>2, <1>8, <2>4, <3>1 DEF DefinedOnce
    <3>4. ASSUME NEW dc \in ToSet(dt.columns)
          PROVE  AddColumn(dt.name, dc) \in rest
                   \/ \E x \in ToSet(su.columns) : SameColumn(x, dc, dt.primaryKey)
      <4>1. CASE dc = dc0
        <5>1. dc0.name \notin ToSet(dt.primaryKey)
          BY <1>1, <1>5, <1>6, <3>1 DEF SoundTable
        <5>2. SameColumn(sc, dc, dt.primaryKey)
          BY <1>3, <1>5, <4>1, <5>1, AddedColumn
        <5> QED
          BY <1>8, <5>2
      <4>2. CASE dc # dc0
        <5>1. dc \in Column /\ dc.name # dc0.name
          BY <2>3, <2>4, <4>2 DEF DefinedOnce
        <5>2. AddColumn(dt.name, dc) \in L => AddColumn(dt.name, dc) \in rest
          BY <1>4, <5>1, Different
        <5> QED
          BY <1>5, <1>8, <2>2, <2>4, <5>2 DEF Conforms
      <4> QED
        BY <4>1, <4>2
    <3> QED
      BY <1>8, <1>9, <2>2, <2>4, <3>1, <3>2, <3>3, <3>4 DEF Conforms
  <2>5. CASE dt # dt0
    <3>1. dt.name # dt0.name
      BY <2>3, <2>5 DEF DefinedOnce
    <3>2. \A dc \in ToSet(dt.columns) : AddColumn(dt.name, dc) \in L => AddColumn(dt.name, dc) \in rest
      BY <1>4, <2>3, <3>1, Different DEF DefinedOnce
    <3>3. Conforms(T[dt.name], dt, rest)
      BY <2>2, <3>2, ConformsStill
    <3> QED
      BY <1>9, <2>2, <3>1, <3>3
  <2> QED
    BY <2>4, <2>5
<1>15. \A m \in DOMAIN X :
        Own(X, m, d) \/ Dropping(m) \cap rest # {} \/ DropTable(X[m].on) \in rest
  BY Different DEF Ready, Fits
<1>16. \A dt \in ToSet(d) : \A di \in ToSet(dt.indexes) :
        \/ Building(dt, di) \cap rest # {}
        \/ IsIndex(X, di.name, dt.name, di) /\ Dropping(di.name) \cap rest = {}
  <2> SUFFICES ASSUME NEW dt \in ToSet(d), NEW di \in ToSet(dt.indexes),
                      Building(dt, di) \cap rest = {}
               PROVE  IsIndex(X, di.name, dt.name, di) /\ Dropping(di.name) \cap rest = {}
    OBVIOUS
  <2>1. Building(dt, di) \cap L = {}
    BY Different
  <2>2. IsIndex(X, di.name, dt.name, di) /\ Dropping(di.name) \cap L = {}
    BY <2>1 DEF Ready, Fits
  <2> QED
    BY <2>2 DEF First
<1> QED
  BY <1>10, <1>11, <1>12, <1>13, <1>14, <1>15, <1>16 DEF Ready, Fits

\* CREATE INDEX, when there is no index of that name.
LEMMA CreateIndexFits ==
  ASSUME NEW T, NEW X, NEW d, Desirable(d), NEW L, Ready(T, X, d, L),
         NEW stmt, NEW rest, First(L, stmt, rest), stmt.op = "CreateIndex",
         stmt.name \notin DOMAIN X,
         NEW X1, X1 = Put(X, stmt.name,
                    [on |-> stmt.on, columns |-> stmt.index.columns,
                     include |-> stmt.index.include, unique |-> stmt.index.unique,
                     state |-> "building"])
  PROVE  Ready(T, X1, d, rest)
<1>0. PICK dt0 \in ToSet(d) :
        \E di \in ToSet(dt0.indexes), a \in {"+", "+/-"} : stmt = CreateIndex(dt0.name, di, a)
  <2>1. Possible(T, X, d, stmt)
    BY DEF First, Ready, Fits
  <2>2. stmt.op = "CreateIndex" =>
          \E dt \in ToSet(d) : \E di \in ToSet(dt.indexes), a \in {"+", "+/-"} :
            stmt = CreateIndex(dt.name, di, a)
    BY <2>1, StatementsAre, DesiredIs DEF Possible, DefinedOnce
  <2> QED
    BY <2>2
<1>1. PICK di0 \in ToSet(dt0.indexes), a \in {"+", "+/-"} : stmt = CreateIndex(dt0.name, di0, a)
  BY <1>0
<1>2. stmt.name = di0.name /\ stmt.on = dt0.name /\ stmt.index = di0
  BY <1>1, StatementsAre
<1>3. DefinedOnce(d, dt0)
  BY DesiredIs
<1>4. di0 \in Index /\ di0.name \in STRING /\ di0.name \in ToSet(Relnames) /\ dt0.name \in STRING
  BY <1>3 DEF DefinedOnce
<1>5. PICK si : si = [on |-> dt0.name, columns |-> di0.columns, include |-> di0.include,
                      unique |-> di0.unique, state |-> "building"]
  OBVIOUS
<1>6. si \in StoredIndex
  BY <1>4, <1>5 DEF Index, StoredIndex
<1>7. /\ DOMAIN X1 = DOMAIN X \cup {di0.name} /\ X1[di0.name] = si
      /\ \A n \in DOMAIN X : n # di0.name /\ X1[n] = X[n]
      /\ X1 = [n \in DOMAIN X1 |-> X1[n]]
  BY <1>2, <1>5 DEF Put
<1>8. IsIndex(X1, di0.name, dt0.name, di0)
  BY <1>5, <1>7 DEF IsIndex
<1>9. Own(X1, di0.name, d)
  BY <1>8 DEF Own
<1>10. \A s \in rest : s.op = "CreateIndex"
  <2>1. \A s \in rest : s.op \in {"DropIndex", "DropTable", "CreateTable", "AddColumn", "CreateIndex"}
    BY KindsApart DEF First, Ready, Fits
  <2> QED
    BY <2>1, FirstKinds
<1>11. \A s \in L : s.op = "CreateIndex"
  BY <1>10, FirstKinds
<1>12. dt0.name \in DOMAIN T
  <2>1. CreateTable(dt0) \notin L
    BY <1>11, StatementsAre
  <2> QED
    BY <2>1 DEF Ready, Fits
<1>13. CatalogIs(T, X1)
  <2>1. \A n \in DOMAIN X1 : X1[n] \in StoredIndex /\ n \in STRING
    BY <1>4, <1>6, <1>7 DEF Ready, CatalogIs
  <2> QED
    BY <1>7, <2>1 DEF Ready, CatalogIs
<1>14. \A m \in DOMAIN X : Own(X, m, d) => Own(X1, m, d)
  BY <1>7, OwnStays
<1>15. SoundCatalog(T, X1, d)
  <2>1. X1[di0.name].on \in DOMAIN T
    BY <1>5, <1>7, <1>12
  <2> QED
    BY <1>4, <1>7, <1>9, <1>14, <2>1 DEF Ready, SoundCatalog
<1>16. \A s \in rest : Possible(T, X1, d, s)
  <2>1. \A s \in rest : Possible(T, X, d, s)
    BY DEF First, Ready, Fits
  <2> QED
    BY <1>7, <2>1 DEF Possible
<1>17. \A t \in DOMAIN T : t \in Names(d) \/ DropTable(t) \in rest
  BY Different DEF Ready, Fits
<1>18. \A dt \in ToSet(d) :
        CreateTable(dt) \in rest \/ (dt.name \in DOMAIN T /\ Conforms(T[dt.name], dt, rest))
  <2> SUFFICES ASSUME NEW dt \in ToSet(d), CreateTable(dt) \notin rest
               PROVE  dt.name \in DOMAIN T /\ Conforms(T[dt.name], dt, rest)
    OBVIOUS
  <2>1. CreateTable(dt) \notin L
    BY Different
  <2>2. dt.name \in DOMAIN T /\ Conforms(T[dt.name], dt, L)
    BY <2>1 DEF Ready, Fits
  <2>3. \A dc \in ToSet(dt.columns) : AddColumn(dt.name, dc) \in L => AddColumn(dt.name, dc) \in rest
    BY Different, DesiredIs DEF DefinedOnce
  <2> QED
    BY <2>2, <2>3, ConformsStill
<1>19. \A m \in DOMAIN X1 :
        Own(X1, m, d) \/ Dropping(m) \cap rest # {} \/ DropTable(X1[m].on) \in rest
  <2> SUFFICES ASSUME NEW m \in DOMAIN X1, m # di0.name
               PROVE  Own(X1, m, d) \/ Dropping(m) \cap rest # {} \/ DropTable(X1[m].on) \in rest
    BY <1>9
  <2>1. m \in DOMAIN X /\ X1[m] = X[m]
    BY <1>7
  <2>2. Own(X, m, d) \/ Dropping(m) \cap L # {} \/ DropTable(X[m].on) \in L
    BY <2>1 DEF Ready, Fits
  <2> QED
    BY <1>14, <2>1, <2>2, Different
<1>20. \A dt \in ToSet(d) : \A di \in ToSet(dt.indexes) :
        \/ Building(dt, di) \cap rest # {}
        \/ IsIndex(X1, di.name, dt.name, di) /\ Dropping(di.name) \cap rest = {}
  <2> SUFFICES ASSUME NEW dt \in ToSet(d), NEW di \in ToSet(dt.indexes),
                      Building(dt, di) \cap rest = {}
               PROVE  IsIndex(X1, di.name, dt.name, di) /\ Dropping(di.name) \cap rest = {}
    OBVIOUS
  <2>1. Dropping(di.name) \cap rest = {}
    BY <1>10, StatementsAre DEF Dropping
  <2>2. CASE di.name = di0.name
    <3>1. dt = dt0 /\ di = di0
      BY <1>3, <2>2 DEF DefinedOnce
    <3> QED
      BY <1>8, <2>1, <3>1
  <2>3. CASE di.name # di0.name
    <3>1. Building(dt, di) \cap L = {}
      BY <1>2, <2>3, Different
    <3>2. IsIndex(X, di.name, dt.name, di)
      BY <3>1 DEF Ready, Fits
    <3>3. di.name \in DOMAIN X1 /\ di.name \in DOMAIN X /\ X1[di.name] = X[di.name]
      BY <1>7, <3>2 DEF IsIndex
    <3> QED
      BY <2>1, <3>2, <3>3, OwnStays
  <2> QED
    BY <2>2, <2>3
<1> QED
  BY <1>13, <1>15, <1>16, <1>17, <1>18, <1>19, <1>20 DEF Ready, Fits

-----------------------------------------------------------------------------
(* The end of a plan: a refusal is explained, a whole plan is the schema.  *)

\* A statement that commits leaves a catalog that the rest of the plan fits.
LEMMA CommitFits ==
  ASSUME NEW d, Desirable(d), NEW L, Ready(tables, indexes, d, L),
         NEW stmt, NEW rest, First(L, stmt, rest), ApplyDDL(stmt)
  PROVE  Ready(tables', indexes', d, rest)
<1>1. PICK T, X, T1, X1 : T = tables /\ X = indexes /\ T1 = tables' /\ X1 = indexes'
  OBVIOUS
<1>2. Ready(T, X, d, L)
  BY <1>1
<1>3. CASE stmt.op = "CreateTable" /\ ApplyCreateTable(stmt)
  <2>1. T1 = Put(T, stmt.name, StoredAs(stmt.table)) /\ X1 = X
    BY <1>1, <1>3 DEF ApplyCreateTable
  <2> QED
    BY <1>1, <1>2, <1>3, <2>1, CreateTableFits
<1>4. CASE stmt.op = "DropTable" /\ ApplyDropTable(stmt)
  <2>1. /\ T1 = Restrict(T, DOMAIN T \ {stmt.name})
        /\ X1 = Restrict(X, {n \in DOMAIN X : X[n].on # stmt.name})
    BY <1>1, <1>4 DEF ApplyDropTable
  <2> QED
    BY <1>1, <1>2, <1>4, <2>1, DropTableFits
<1>5. CASE stmt.op = "AddColumn" /\ ApplyAddColumn(stmt)
  <2>1. /\ T1 = [T EXCEPT ![stmt.name].columns = Append(@, Stored(stmt.column, <<>>))]
        /\ X1 = X
    BY <1>1, <1>5 DEF ApplyAddColumn
  <2>2. Ready(T1, X, d, rest)
    BY <1>2, <1>5, <2>1, AddColumnFits
  <2> QED
    BY <1>1, <2>1, <2>2
<1>6. CASE stmt.op = "CreateIndex" /\ ApplyCreateIndex(stmt)
  <2>1. /\ X1 = Put(X, stmt.name,
                    [on |-> stmt.on, columns |-> stmt.index.columns,
                     include |-> stmt.index.include, unique |-> stmt.index.unique,
                     state |-> "building"])
        /\ T1 = T
    BY <1>1, <1>6 DEF ApplyCreateIndex
  <2>2. stmt.name \notin DOMAIN X
    BY <1>1, <1>6 DEF ApplyDDL, Refused
  <2>3. Ready(T, X1, d, rest)
    BY <1>2, <1>6, <2>1, <2>2, CreateIndexFits
  <2> QED
    BY <1>1, <2>1, <2>3
<1>7. CASE stmt.op = "DropIndex" /\ ApplyDropIndex(stmt)
  <2>1. X1 = Restrict(X, DOMAIN X \ {stmt.name}) /\ T1 = T
    BY <1>1, <1>7 DEF ApplyDropIndex
  <2>2. stmt.name \in DOMAIN X
    BY <1>1, <1>7 DEF ApplyDDL, Refused
  <2> QED
    BY <1>1, <1>2, <1>7, <2>1, <2>2, DropIndexFits
<1> QED
  BY <1>3, <1>4, <1>5, <1>6, <1>7 DEF ApplyDDL

\* Why the cluster may refuse the statement that comes first.
Explained(stmt) ==
  \/ /\ stmt.op = "AddColumn"
     /\ stmt.name \in DOMAIN tables
     /\ Unfillable(stmt.name, stmt.column)
  \/ stmt.op = "CreateIndex" /\ SameIndex(stmt.name, stmt.on, stmt.index)

\* A statement that is refused, of a plan that fits, is one of the two.
LEMMA RefusalExplained ==
  ASSUME NEW d, Desirable(d), NEW L, Ready(tables, indexes, d, L),
         NEW stmt, NEW rest, First(L, stmt, rest), Refused(stmt)
  PROVE  Explained(stmt)
<1>1. PICK T, X : T = tables /\ X = indexes
  OBVIOUS
<1>2. Ready(T, X, d, L) /\ Possible(T, X, d, stmt)
  BY <1>1 DEF Ready, Fits, First
<1>3. CASE stmt.op = "DropIndex"
  <2>1. stmt.name \in DOMAIN X
    BY <1>2, <1>3, KindsApart, StatementsAre
  <2> QED
    BY <1>1, <1>3, <2>1 DEF Refused
<1>4. CASE stmt.op = "DropTable"
  <2>1. stmt.name \in DOMAIN T
    BY <1>2, <1>4, KindsApart, StatementsAre
  <2> QED
    BY <1>1, <1>4, <2>1 DEF Refused
<1>5. CASE stmt.op = "CreateTable"
  <2>1. stmt.name \notin DOMAIN T
    BY <1>2, <1>5, KindsApart, StatementsAre
  <2> QED
    BY <1>1, <1>5, <2>1 DEF Refused
<1>6. CASE stmt.op = "AddColumn"
  <2>1. PICK dt \in ToSet(d) :
          \E dc \in ToSet(dt.columns) : /\ stmt = AddColumn(dt.name, dc)
                                        /\ dt.name \in DOMAIN T
                                        /\ dc.name \notin Names(T[dt.name].columns)
    BY <1>2, <1>6, KindsApart
  <2>2. PICK dc \in ToSet(dt.columns) : /\ stmt = AddColumn(dt.name, dc)
                                        /\ dt.name \in DOMAIN T
                                        /\ dc.name \notin Names(T[dt.name].columns)
    BY <2>1
  <2>3. dc \in Column
    BY DesiredIs DEF DefinedOnce
  <2>4. stmt.name = dt.name /\ stmt.column.name = dc.name
    BY <2>2, <2>3, StatementsAre
  <2> QED
    BY <1>1, <1>6, <2>2, <2>4 DEF Refused, Explained
<1>7. CASE stmt.op = "CreateIndex"
  <2>1. PICK dt \in ToSet(d) :
          \E di \in ToSet(dt.indexes), a \in {"+", "+/-"} : stmt = CreateIndex(dt.name, di, a)
    BY <1>2, <1>7, StatementsAre, DesiredIs DEF Possible, DefinedOnce
  <2>2. PICK di \in ToSet(dt.indexes), a \in {"+", "+/-"} : stmt = CreateIndex(dt.name, di, a)
    BY <2>1
  <2>3. stmt.name = di.name /\ stmt.on = dt.name /\ stmt.index = di
    BY <2>2, StatementsAre
  <2>4. DefinedOnce(d, dt)
    BY DesiredIs
  <2>5. \A s \in rest : s.op = "CreateIndex"
    <3>1. \A s \in rest : s.op \in {"DropIndex", "DropTable", "CreateTable", "AddColumn", "CreateIndex"}
      BY <1>2, KindsApart DEF First, Ready, Fits
    <3> QED
      BY <1>7, <3>1, FirstKinds
  <2>6. \A s \in L : s.op = "CreateIndex"
    BY <1>7, <2>5, FirstKinds
  <2>7. dt.name \in DOMAIN T /\ Conforms(T[dt.name], dt, L)
    <3>1. CreateTable(dt) \notin L
      BY <2>6, StatementsAre
    <3> QED
      BY <1>2, <3>1 DEF Ready, Fits
  <2>8. Names(dt.columns) \subseteq Names(T[dt.name].columns)
    <3>1. PICK st : st = T[dt.name]
      OBVIOUS
    <3> SUFFICES ASSUME NEW n \in Names(dt.columns) PROVE n \in Names(st.columns)
      BY <3>1
    <3>2. PICK dc \in ToSet(dt.columns) : dc.name = n
      BY DEF Names, ToSet
    <3>3. dc \in Column
      BY <2>4 DEF DefinedOnce
    <3>4. AddColumn(dt.name, dc) \notin L
      BY <2>6, <3>3, StatementsAre
    <3>5. PICK sc \in ToSet(st.columns) : SameColumn(sc, dc, dt.primaryKey)
      BY <2>7, <3>1, <3>4 DEF Conforms
    <3>6. sc.name = n
      <4>1. ColumnDef(dc) \in Column /\ ColumnDef(dc).name = dc.name
        BY <3>3, ColumnDefType DEF ColumnDef, Column
      <4> QED
        BY <3>2, <3>5, <4>1, StoredFields DEF SameColumn
    <3> QED
      BY <3>6 DEF Names, ToSet
  <2>9. ToSet(di.columns \o di.include) \subseteq Names(dt.columns)
    BY <2>4 DEF DefinedOnce, WellFormedTable
  <2>10. di.name \in DOMAIN X
    BY <1>1, <1>7, <2>3, <2>7, <2>8, <2>9 DEF Refused
  <2>11. Own(X, di.name, d)
    <3>1. Dropping(di.name) \cap L = {} /\ DropTable(X[di.name].on) \notin L
      BY <2>6, StatementsAre DEF Dropping
    <3> QED
      BY <1>2, <2>10, <3>1 DEF Ready, Fits
  <2>12. IsIndex(X, di.name, dt.name, di)
    BY <2>4, <2>11 DEF Own, DefinedOnce
  <2> QED
    BY <1>1, <1>7, <2>3, <2>12 DEF Explained, SameIndex, IsIndex
<1> QED
  BY <1>2, <1>3, <1>4, <1>5, <1>6, <1>7, KindsApart

\* Matches, of a catalog that is given.
Meets(T, X, d) ==
  /\ DOMAIN T = Names(d)
  /\ DOMAIN X = UNION {Names(dt.indexes) : dt \in ToSet(d)}
  /\ \A dt \in ToSet(d) :
       /\ Len(T[dt.name].columns) = Len(dt.columns)
       /\ Conforms(T[dt.name], dt, {})
       /\ \A di \in ToSet(dt.indexes) : IsIndex(X, di.name, dt.name, di)

\* It is Matches, of the catalog as it is.
LEMMA MeetsIsMatches ==
  ASSUME NEW d, Meets(tables, indexes, d)
  PROVE  Matches(d)
BY DEF Meets, Matches, SameTable, SameIndex, IsIndex, Conforms

\* When nothing is left of the plan, the catalog is the desired schema.
LEMMA NothingLeft ==
  ASSUME NEW T, NEW X, NEW d, Desirable(d), Ready(T, X, d, {})
  PROVE  Meets(T, X, d)
<1>1. \A dt \in ToSet(d) : dt.name \in DOMAIN T /\ Conforms(T[dt.name], dt, {})
  BY DEF Ready, Fits
<1>2. DOMAIN T = Names(d)
  <2>1. Names(d) \subseteq DOMAIN T
    BY <1>1 DEF Names, ToSet
  <2> QED
    BY <2>1 DEF Ready, Fits
<1>3. \A dt \in ToSet(d) : \A di \in ToSet(dt.indexes) : IsIndex(X, di.name, dt.name, di)
  BY DEF Ready, Fits
<1>4. \A n : n \in DOMAIN X <=> \E dt \in ToSet(d) : n \in Names(dt.indexes)
  <2>1. \A dt \in ToSet(d) : \A n : n \in Names(dt.indexes) <=> \E di \in ToSet(dt.indexes) : di.name = n
    BY DEF Names, ToSet
  <2>2. \A n \in DOMAIN X : \E dt \in ToSet(d) : n \in Names(dt.indexes)
    BY <2>1 DEF Ready, Fits, Own
  <2> QED
    BY <1>3, <2>1, <2>2 DEF IsIndex
<1>5. DOMAIN X = UNION {Names(dt.indexes) : dt \in ToSet(d)}
  BY <1>4
<1>6. ASSUME NEW dt \in ToSet(d)
      PROVE  Len(T[dt.name].columns) = Len(dt.columns)
  <2>1. PICK st : st = T[dt.name]
    OBVIOUS
  <2>2. st \in StoredTable /\ SoundTable(st) /\ Conforms(st, dt, {})
    BY <1>1, <2>1 DEF Ready, CatalogIs, SoundCatalog
  <2>3. PICK s \in Seq(Column), t \in Seq(Column) : s = st.columns /\ t = dt.columns
    BY <2>2, DesiredIs DEF StoredTable, DefinedOnce, Table
  <2>4. Distinct(s) /\ Distinct(t)
    BY <2>2, <2>3, DesiredIs DEF SoundTable, DefinedOnce, WellFormedTable
  <2>5. Names(s) = Names(t)
    <3>1. Names(s) \subseteq Names(t)
      BY <2>2, <2>3 DEF Conforms
    <3> SUFFICES ASSUME NEW n \in Names(t) PROVE n \in Names(s)
      BY <3>1
    <3>2. PICK dc \in ToSet(dt.columns) : dc.name = n
      BY <2>3 DEF Names, ToSet
    <3>3. PICK sc \in ToSet(st.columns) : SameColumn(sc, dc, dt.primaryKey)
      BY <2>2 DEF Conforms
    <3>4. sc.name = n
      <4>1. dc \in Column
        BY DesiredIs DEF DefinedOnce
      <4>2. ColumnDef(dc) \in Column /\ ColumnDef(dc).name = dc.name
        BY <4>1, ColumnDefType DEF ColumnDef, Column
      <4> QED
        BY <3>2, <3>3, <4>2, StoredFields DEF SameColumn
    <3> QED
      BY <2>3, <3>4 DEF Names, ToSet
  <2> QED
    BY <2>1, <2>3, <2>4, <2>5, SameLength
<1> QED
  BY <1>1, <1>2, <1>3, <1>5, <1>6 DEF Meets

-----------------------------------------------------------------------------
(* What has been read of a catalog that holds still.                       *)

\* Table v of the live schema has been read from a catalog that is still so:
\* its columns, its constraints, its indexes and the columns of the first k.
ColumnsRead(T, v) ==
  /\ v.name \in DOMAIN T
  /\ v.columns = [i \in DOMAIN T[v.name].columns |-> AsRead(T[v.name].columns[i])]

\* Its constraints.
KeysRead(T, v) ==
  /\ v.primaryKey = T[v.name].primaryKey
  /\ v.uniques = T[v.name].uniques
  /\ v.checks = T[v.name].checks

\* Its indexes, all that are to be seen, and the columns of the first k.
IndexesRead(X, d, v, k) ==
  /\ Distinct(v.indexes)
  /\ \A j \in DOMAIN v.indexes :
       LET i == v.indexes[j]
       IN  /\ i.name \in DOMAIN X /\ X[i.name].on = v.name
           /\ i.include = <<>> /\ i.unique = X[i.name].unique
           /\ j <= k => i.columns = X[i.name].columns \o X[i.name].include
  /\ \A n \in DOMAIN X : X[n].on = v.name => n \in Names(v.indexes) \/ Own(X, n, d)

\* All of it.
TableIsRead(T, X, d, v) ==
  ColumnsRead(T, v) /\ KeysRead(T, v) /\ IndexesRead(X, d, v, Len(v.indexes))

\* An index of a table that has been read.
IndexIsRead(X, v, i) ==
  /\ i \in Index
  /\ i.name \in DOMAIN X /\ X[i.name].on = v.name
  /\ i.include = <<>> /\ i.unique = X[i.name].unique
  /\ i.columns = X[i.name].columns \o X[i.name].include

\* Every index of a table that has been read is one of the catalog's.
LEMMA IndexesOfRead ==
  ASSUME NEW T, NEW X, NEW d, NEW v \in Table, TableIsRead(T, X, d, v)
  PROVE  \A i \in ToSet(v.indexes) : IndexIsRead(X, v, i)
<1> SUFFICES ASSUME NEW i \in ToSet(v.indexes) PROVE IndexIsRead(X, v, i)
  OBVIOUS
<1>1. v.indexes \in Seq(Index)
  BY DEF Table
<1>2. PICK j \in DOMAIN v.indexes : i = v.indexes[j]
  BY DEF ToSet
<1>3. j <= Len(v.indexes) /\ i \in Index
  BY <1>1, <1>2
<1> QED
  BY <1>2, <1>3 DEF TableIsRead, IndexesRead, IndexIsRead

\* A column of a table that has been read.
LEMMA ColumnsOfRead ==
  ASSUME NEW T, NEW v \in Table, ColumnsRead(T, v),
         T[v.name] \in StoredTable
  PROVE  /\ Names(v.columns) = Names(T[v.name].columns)
         /\ \A cc \in ToSet(v.columns) : \E sc \in ToSet(T[v.name].columns) :
              cc = AsRead(sc) /\ sc.name = cc.name /\ sc \in Column
<1>1. PICK st : st = T[v.name]
  OBVIOUS
<1>2. st.columns \in Seq(Column) /\ v.columns = [i \in DOMAIN st.columns |-> AsRead(st.columns[i])]
  BY <1>1 DEF StoredTable, ColumnsRead
<1>3. \A i \in DOMAIN st.columns : st.columns[i] \in Column /\ st.columns[i] \in ToSet(st.columns)
  BY <1>2 DEF ToSet
<1>4. \A c \in Column : AsRead(c).name = c.name
  BY DEF AsRead, Column
<1>5. DOMAIN v.columns = DOMAIN st.columns
      /\ \A i \in DOMAIN st.columns : v.columns[i] = AsRead(st.columns[i])
                                      /\ v.columns[i].name = st.columns[i].name
  BY <1>2, <1>3, <1>4
<1>6. Names(v.columns) = Names(st.columns)
  BY <1>5 DEF Names
<1>7. \A cc \in ToSet(v.columns) : \E sc \in ToSet(st.columns) :
        cc = AsRead(sc) /\ sc.name = cc.name /\ sc \in Column
  BY <1>3, <1>5 DEF ToSet
<1> QED
  BY <1>1, <1>6, <1>7

\* A table that stays, and of which Diff supports every change, is as wanted
\* but for the columns it adds.
LEMMA StayingConforms ==
  ASSUME NEW T, NEW X, NEW d, Desirable(d), CatalogIs(T, X), SoundCatalog(T, X, d),
         NEW v \in Table, ColumnsRead(T, v), KeysRead(T, v),
         NEW dt \in ToSet(d), v.name = dt.name, ~Unsupported(v, dt),
         NEW L, \A c \in ToSet(dt.columns) :
                  c.name \notin Names(v.columns) => AddColumn(dt.name, c) \in L
  PROVE  dt.name \in DOMAIN T /\ Conforms(T[dt.name], dt, L)
<1>1. PICK st : st = T[v.name]
  OBVIOUS
<1>2. v.name \in DOMAIN T /\ st \in StoredTable /\ SoundTable(st)
  BY <1>1 DEF ColumnsRead, CatalogIs, SoundCatalog
<1>3. DefinedOnce(d, dt)
  BY DesiredIs
<1>4. /\ Names(v.columns) \subseteq Names(dt.columns)
      /\ v.primaryKey = dt.primaryKey /\ ToSet(v.uniques) = ToSet(dt.uniques)
      /\ CheckKeys(v) = CheckKeys(dt)
  BY DEF Unsupported, DroppedColumn, diffPrimaryKey, ChangedUnique, ChangedCheck
<1>5. Names(v.columns) = Names(st.columns)
      /\ \A cc \in ToSet(v.columns) : \E sc \in ToSet(st.columns) :
           cc = AsRead(sc) /\ sc.name = cc.name /\ sc \in Column
  BY <1>1, <1>2, ColumnsOfRead
<1>6. st.primaryKey = dt.primaryKey /\ ToSet(st.uniques) = ToSet(dt.uniques)
  BY <1>1, <1>4 DEF KeysRead
<1>7. CheckKeys(st) = CheckKeys(dt)
  BY <1>1, <1>4 DEF KeysRead, CheckKeys
<1>8. ASSUME NEW dc \in ToSet(dt.columns), AddColumn(dt.name, dc) \notin L
      PROVE  \E sc \in ToSet(st.columns) : SameColumn(sc, dc, dt.primaryKey)
  <2>1. dc.name \in Names(v.columns) /\ dc \in Column
    BY <1>3, <1>8 DEF DefinedOnce
  <2>2. PICK cc : cc = ByName(v.columns, dc.name)
    OBVIOUS
  <2>3. cc \in ToSet(v.columns) /\ cc.name = dc.name
    <3>1. v.columns \in Seq(Column)
      BY DEF Table
    <3> QED
      BY <2>1, <2>2, <3>1, ByNameIs
  <2>4. Unchanged(cc, dc)
    BY <2>1, <2>2 DEF Unsupported, ChangedColumn, Unchanged
  <2>5. PICK sc \in ToSet(st.columns) : cc = AsRead(sc) /\ sc.name = cc.name /\ sc \in Column
    BY <1>5, <2>3
  <2>6. /\ format_type(sc.type) = sc.type
        /\ sc.name \in ToSet(dt.primaryKey) => ~sc.nullable
        /\ sc.identity # "" => sc.default = NoDefault
    BY <1>2, <1>6 DEF SoundTable
  <2>7. dc.identity # "" => ~dc.nullable /\ dc.default = NoDefault
    BY <1>3 DEF DefinedOnce, WellFormedTable
  <2>8. PICK pk : pk = dt.primaryKey
    OBVIOUS
  <2>9. SameColumn(sc, dc, pk)
    BY <2>1, <2>3, <2>4, <2>5, <2>6, <2>7, <2>8, UnchangedColumn
  <2> QED
    BY <2>8, <2>9
<1> QED
  BY <1>1, <1>2, <1>4, <1>5, <1>6, <1>7, <1>8 DEF Conforms

\* The live schema a run has read, table by table, from a catalog that has
\* not changed since.
SchemaIsRead(T, X, d, live) ==
  /\ live \in Seq(Table)
  /\ Names(live) = DOMAIN T
  /\ \A v \in ToSet(live) : TableIsRead(T, X, d, v)

\* In a schema that has been read no index is met twice.
LEMMA ReadIsReadable ==
  ASSUME NEW T, NEW X, NEW d, NEW live, SchemaIsRead(T, X, d, live)
  PROVE  Readable(live)
<1>1. \A v \in ToSet(live) : v \in Table /\ TableIsRead(T, X, d, v)
  BY DEF SchemaIsRead, ToSet
<1>2. \A v \in ToSet(live) : Distinct(v.indexes)
  BY <1>1 DEF TableIsRead, IndexesRead
<1>3. \A v \in ToSet(live) : \A n \in Names(v.indexes) : X[n].on = v.name
  BY <1>1 DEF TableIsRead, IndexesRead, Names
<1>4. IndexesApart(live)
  <2> SUFFICES ASSUME NEW v \in ToSet(live), NEW w \in ToSet(live), NEW n,
                      n \in Names(v.indexes), n \in Names(w.indexes)
               PROVE  v.name = w.name
    BY DEF IndexesApart
  <2> QED
    BY <1>3
<1> QED
  BY <1>2, <1>4 DEF Readable

-----------------------------------------------------------------------------
(* The plan Diff makes of what has been read fits the catalog.             *)

\* A table that stays: what was read of it, and what the plan does to it.
StaysAs(T, X, d, live, v, dt) ==
  /\ v \in ToSet(live) /\ v \in Table /\ v.name = dt.name
  /\ TableIsRead(T, X, d, v)
  /\ ~Unsupported(v, dt)
  /\ \A w \in ToSet(live) : w.name = dt.name => w = v
  /\ ToSet(DroppedIndexes(v, dt)) =
       {DropIndex(ci.name, IF Rebuilt(dt, ci) THEN "+/-" ELSE "-") :
          ci \in {x \in ToSet(v.indexes) : x.name \notin Names(dt.indexes) \/ Rebuilt(dt, x)}}
  /\ ToSet(AddedColumns(v, dt)) =
       {AddColumn(dt.name, c) : c \in {x \in ToSet(dt.columns) : x.name \notin Names(v.columns)}}
  /\ ToSet(CreatedIndexes(v, dt)) =
       {CreateIndex(dt.name, ByName(dt.indexes, ci.name), "+/-") :
          ci \in {x \in ToSet(v.indexes) : Rebuilt(dt, x)}}
       \cup {CreateIndex(dt.name, di, "+") :
               di \in {x \in ToSet(dt.indexes) : x.name \notin Names(v.indexes)}}

\* A schema is read with every table once.
ReadOnce(T, X, d, live) == SchemaIsRead(T, X, d, live) /\ Distinct(live)

\* Every table that is in both schemas stays so.
LEMMA OldStays ==
  ASSUME NEW T, NEW X, NEW d, Desirable(d), NEW live, ReadOnce(T, X, d, live),
         ~DiffFails(live, d), NEW dt \in Altered(live, d)
  PROVE  StaysAs(T, X, d, live, Old(live, dt), dt)
<1>1. live \in Seq(Table) /\ Distinct(live)
  BY DEF SchemaIsRead, ReadOnce
<1>2. dt \in ToSet(d) /\ dt.name \in Names(live)
  BY DEF Altered
<1>3. PICK v : v = Old(live, dt)
  OBVIOUS
<1>4. v \in ToSet(live) /\ v.name = dt.name /\ \A w \in ToSet(live) : w.name = dt.name => w = v
  BY <1>1, <1>2, <1>3, ByNameIs DEF Old
<1>5. v \in Table /\ TableIsRead(T, X, d, v)
  BY <1>1, <1>4 DEF SchemaIsRead, ReadOnce, ToSet
<1>6. ~Unsupported(v, dt)
  BY <1>2, <1>3 DEF DiffFails, Old
<1>7. DefinedOnce(d, dt)
  BY <1>2, DesiredIs
<1>8. dt \in Table /\ Distinct(dt.columns) /\ Distinct(dt.indexes) /\ Distinct(v.indexes)
  BY <1>5, <1>7 DEF DefinedOnce, WellFormedTable, TableIsRead, IndexesRead
<1>9. PICK A, B, C : A = ToSet(DroppedIndexes(v, dt)) /\ B = ToSet(AddedColumns(v, dt))
                     /\ C = ToSet(CreatedIndexes(v, dt))
  OBVIOUS
<1>10. A = {DropIndex(ci.name, IF Rebuilt(dt, ci) THEN "+/-" ELSE "-") :
              ci \in {x \in ToSet(v.indexes) : x.name \notin Names(dt.indexes) \/ Rebuilt(dt, x)}}
  BY <1>5, <1>8, <1>9, DroppedIndexesAre
<1>11. B = {AddColumn(dt.name, c) : c \in {x \in ToSet(dt.columns) : x.name \notin Names(v.columns)}}
  BY <1>5, <1>8, <1>9, AddedColumnsAre
<1>12. C = {CreateIndex(dt.name, ByName(dt.indexes, ci.name), "+/-") :
              ci \in {x \in ToSet(v.indexes) : Rebuilt(dt, x)}}
           \cup {CreateIndex(dt.name, di, "+") :
                   di \in {x \in ToSet(dt.indexes) : x.name \notin Names(v.indexes)}}
  BY <1>5, <1>8, <1>9, CreatedIndexesAre
<1>13. StaysAs(T, X, d, live, v, dt)
  BY <1>4, <1>5, <1>6, <1>9, <1>10, <1>11, <1>12 DEF StaysAs
<1> QED
  BY <1>3, <1>13

\* What a plan has in it for a table that stays.
LEMMA PlanHas ==
  ASSUME NEW T, NEW X, NEW d, Desirable(d), NEW live, ReadOnce(T, X, d, live),
         ~DiffFails(live, d), NEW dt \in Altered(live, d),
         NEW v, v = Old(live, dt), NEW L, L = PlanOf(live, d)
  PROVE  /\ \A ci \in ToSet(v.indexes) :
              ci.name \notin Names(dt.indexes) \/ Rebuilt(dt, ci) => Dropping(ci.name) \cap L # {}
         /\ \A c \in ToSet(dt.columns) : c.name \notin Names(v.columns) => AddColumn(dt.name, c) \in L
         /\ \A di \in ToSet(dt.indexes) :
              di.name \notin Names(v.indexes) => Building(dt, di) \cap L # {}
         /\ \A di \in ToSet(dt.indexes), ci \in ToSet(v.indexes) :
              di.name = ci.name /\ Rebuilt(dt, ci) => Building(dt, di) \cap L # {}
<1>1. StaysAs(T, X, d, live, v, dt)
  BY OldStays
<1>2. /\ ToSet(DroppedIndexes(v, dt)) \subseteq L
      /\ ToSet(AddedColumns(v, dt)) \subseteq L
      /\ ToSet(CreatedIndexes(v, dt)) \subseteq L
  BY DEF PlanOf, DropsOf, AddsOf, RebuildsOf
<1>3. ASSUME NEW ci \in ToSet(v.indexes), ci.name \notin Names(dt.indexes) \/ Rebuilt(dt, ci)
      PROVE  Dropping(ci.name) \cap L # {}
  <2>1. PICK a : a = (IF Rebuilt(dt, ci) THEN "+/-" ELSE "-")
    OBVIOUS
  <2>2. DropIndex(ci.name, a) \in L
    BY <1>1, <1>2, <1>3, <2>1 DEF StaysAs
  <2> QED
    BY <2>1, <2>2 DEF Dropping
<1>4. ASSUME NEW c \in ToSet(dt.columns), c.name \notin Names(v.columns)
      PROVE  AddColumn(dt.name, c) \in L
  BY <1>1, <1>2, <1>4 DEF StaysAs
<1>5. ASSUME NEW di \in ToSet(dt.indexes), di.name \notin Names(v.indexes)
      PROVE  Building(dt, di) \cap L # {}
  <2>1. CreateIndex(dt.name, di, "+") \in L
    BY <1>1, <1>2, <1>5 DEF StaysAs
  <2> QED
    BY <2>1 DEF Building
<1>6. ASSUME NEW di \in ToSet(dt.indexes), NEW ci \in ToSet(v.indexes),
             di.name = ci.name, Rebuilt(dt, ci)
      PROVE  Building(dt, di) \cap L # {}
  <2>1. di = ByName(dt.indexes, ci.name)
    <3>1. dt \in Table /\ Distinct(dt.indexes)
      BY DesiredIs DEF DefinedOnce, WellFormedTable, Altered
    <3>2. dt.indexes \in Seq(Index) /\ ci.name \in Names(dt.indexes)
      BY <1>6, <3>1 DEF Table, Names, ToSet
    <3> QED
      BY <1>6, <3>1, <3>2, ByNameIs
  <2>2. CreateIndex(dt.name, di, "+/-") \in L
    BY <1>1, <1>2, <1>6, <2>1 DEF StaysAs
  <2> QED
    BY <2>2 DEF Building
<1> QED
  BY <1>3, <1>4, <1>5, <1>6

\* Why a plan drops an index.
LEMMA PlanDrops ==
  ASSUME NEW T, NEW X, NEW d, Desirable(d), NEW live, ReadOnce(T, X, d, live),
         ~DiffFails(live, d), NEW n, Dropping(n) \cap PlanOf(live, d) # {}
  PROVE  \E dt \in Altered(live, d) : \E ci \in ToSet(Old(live, dt).indexes) :
           n = ci.name /\ (ci.name \notin Names(dt.indexes) \/ Rebuilt(dt, ci))
<1>1. PICK a \in {"-", "+/-"} : DropIndex(n, a) \in PlanOf(live, d)
  BY DEF Dropping
<1>2. PICK s : s = DropIndex(n, a)
  OBVIOUS
<1>3. s.op = "DropIndex" /\ s.name = n
  BY <1>2, StatementsAre
<1>4. \A dt \in ToSet(d) : \A c \in ToSet(dt.columns) : c \in Column
  BY DesiredIs DEF DefinedOnce
<1>5. s \in DropsOf(live, d)
  <2>1. s \notin {DropTable(m) : m \in Names(live) \ Names(d)}
    BY <1>3, StatementsAre
  <2>2. s \notin {CreateTable(dt) : dt \in Fresh(live, d)}
    BY <1>3, StatementsAre
  <2>3. s \notin AddsOf(live, d)
    <3> SUFFICES ASSUME NEW dt \in Altered(live, d), s \in ToSet(AddedColumns(Old(live, dt), dt))
                 PROVE  FALSE
      BY DEF AddsOf
    <3>1. \E c \in ToSet(dt.columns) : s = AddColumn(dt.name, c)
      BY OldStays DEF StaysAs
    <3>2. dt \in ToSet(d)
      BY DEF Altered
    <3> QED
      BY <1>3, <1>4, <3>1, <3>2, StatementsAre
  <2>4. s \notin BuildsOf(live, d)
    <3> SUFFICES ASSUME NEW dt \in Fresh(live, d), s \in ToSet(NewTableIndexes(dt))
                 PROVE  FALSE
      BY DEF BuildsOf
    <3>1. dt \in Table /\ Distinct(dt.indexes)
      BY DesiredIs DEF Fresh, DefinedOnce, WellFormedTable
    <3>2. \E di \in ToSet(dt.indexes) : s = CreateIndex(dt.name, di, "+")
      BY <3>1, NewTableIndexesAre
    <3> QED
      BY <1>3, <3>2, StatementsAre
  <2>5. s \notin RebuildsOf(live, d)
    <3> SUFFICES ASSUME NEW dt \in Altered(live, d), s \in ToSet(CreatedIndexes(Old(live, dt), dt))
                 PROVE  FALSE
      BY DEF RebuildsOf
    <3>1. \E i, b : s = CreateIndex(dt.name, i, b)
      BY OldStays DEF StaysAs
    <3> QED
      BY <1>3, <3>1, StatementsAre
  <2> QED
    BY <1>1, <1>2, <2>1, <2>2, <2>3, <2>4, <2>5 DEF PlanOf
<1>6. PICK dt \in Altered(live, d) : s \in ToSet(DroppedIndexes(Old(live, dt), dt))
  BY <1>5 DEF DropsOf
<1>7. PICK v : v = Old(live, dt)
  OBVIOUS
<1>8. StaysAs(T, X, d, live, v, dt)
  BY <1>7, OldStays
<1>9. PICK ci \in {x \in ToSet(v.indexes) : x.name \notin Names(dt.indexes) \/ Rebuilt(dt, x)} :
        s = DropIndex(ci.name, IF Rebuilt(dt, ci) THEN "+/-" ELSE "-")
  BY <1>6, <1>7, <1>8 DEF StaysAs
<1>10. s.name = ci.name
  BY <1>9, StatementsAre
<1> QED
  BY <1>3, <1>7, <1>9, <1>10

\* Every statement of a plan is about something that is there.
LEMMA PlanIsPossible ==
  ASSUME NEW T, NEW X, NEW d, Desirable(d), CatalogIs(T, X), NEW live, ReadOnce(T, X, d, live),
         ~DiffFails(live, d), NEW s \in PlanOf(live, d)
  PROVE  Possible(T, X, d, s)
<1>1. Names(live) = DOMAIN T
  BY DEF ReadOnce, SchemaIsRead
<1>2. CASE s \in DropsOf(live, d)
  <2>1. PICK dt \in Altered(live, d) : s \in ToSet(DroppedIndexes(Old(live, dt), dt))
    BY <1>2 DEF DropsOf
  <2>2. PICK v : v = Old(live, dt)
    OBVIOUS
  <2>3. StaysAs(T, X, d, live, v, dt)
    BY <2>2, OldStays
  <2>4. PICK ci \in ToSet(v.indexes) :
          s = DropIndex(ci.name, IF Rebuilt(dt, ci) THEN "+/-" ELSE "-")
    BY <2>1, <2>2, <2>3 DEF StaysAs
  <2>5. ci.name \in DOMAIN X
    BY <2>3, IndexesOfRead DEF StaysAs, IndexIsRead
  <2>6. PICK a \in {"-", "+/-"} : s = DropIndex(ci.name, a)
    BY <2>4
  <2> QED
    BY <2>5, <2>6 DEF Possible
<1>3. CASE s \in {DropTable(n) : n \in Names(live) \ Names(d)}
  BY <1>1, <1>3 DEF Possible
<1>4. CASE s \in {CreateTable(dt) : dt \in Fresh(live, d)}
  BY <1>1, <1>4 DEF Possible, Fresh
<1>5. CASE s \in AddsOf(live, d)
  <2>1. PICK dt \in Altered(live, d) : s \in ToSet(AddedColumns(Old(live, dt), dt))
    BY <1>5 DEF AddsOf
  <2>2. PICK v : v = Old(live, dt)
    OBVIOUS
  <2>3. StaysAs(T, X, d, live, v, dt)
    BY <2>2, OldStays
  <2>4. PICK c \in ToSet(dt.columns) : s = AddColumn(dt.name, c) /\ c.name \notin Names(v.columns)
    BY <2>1, <2>2, <2>3 DEF StaysAs
  <2>5. v.name = dt.name /\ v \in Table /\ ColumnsRead(T, v)
    BY <2>3 DEF StaysAs, TableIsRead
  <2>6. dt.name \in DOMAIN T /\ T[v.name] \in StoredTable
    BY <2>5 DEF ColumnsRead, CatalogIs
  <2>7. Names(v.columns) = Names(T[v.name].columns)
    BY <2>5, <2>6, ColumnsOfRead
  <2>8. dt \in ToSet(d)
    BY DEF Altered
  <2> QED
    BY <2>4, <2>5, <2>6, <2>7, <2>8 DEF Possible
<1>6. CASE s \in BuildsOf(live, d)
  <2>1. PICK dt \in Fresh(live, d) : s \in ToSet(NewTableIndexes(dt))
    BY <1>6 DEF BuildsOf
  <2>2. dt \in Table /\ Distinct(dt.indexes) /\ dt \in ToSet(d)
    BY DesiredIs DEF Fresh, DefinedOnce, WellFormedTable
  <2>3. PICK di \in ToSet(dt.indexes) : s = CreateIndex(dt.name, di, "+")
    BY <2>1, <2>2, NewTableIndexesAre
  <2> QED
    BY <2>2, <2>3 DEF Possible
<1>7. CASE s \in RebuildsOf(live, d)
  <2>1. PICK dt \in Altered(live, d) : s \in ToSet(CreatedIndexes(Old(live, dt), dt))
    BY <1>7 DEF RebuildsOf
  <2>2. PICK v : v = Old(live, dt)
    OBVIOUS
  <2>3. StaysAs(T, X, d, live, v, dt)
    BY <2>2, OldStays
  <2>4. dt \in ToSet(d) /\ dt \in Table
    BY DesiredIs DEF Altered, DefinedOnce
  <2>5. CASE s \in {CreateIndex(dt.name, di, "+") :
                      di \in {x \in ToSet(dt.indexes) : x.name \notin Names(v.indexes)}}
    BY <2>4, <2>5 DEF Possible
  <2>6. CASE s \in {CreateIndex(dt.name, ByName(dt.indexes, ci.name), "+/-") :
                      ci \in {x \in ToSet(v.indexes) : Rebuilt(dt, x)}}
    <3>1. PICK ci \in ToSet(v.indexes) :
            s = CreateIndex(dt.name, ByName(dt.indexes, ci.name), "+/-") /\ Rebuilt(dt, ci)
      BY <2>6
    <3>2. ci.name \in Names(dt.indexes) /\ dt.indexes \in Seq(Index)
      BY <2>4, <3>1 DEF Rebuilt, Table
    <3>3. PICK di : di = ByName(dt.indexes, ci.name)
      OBVIOUS
    <3>4. di \in ToSet(dt.indexes)
      BY <3>2, <3>3, ByNameIs
    <3> QED
      BY <2>4, <3>1, <3>3, <3>4 DEF Possible
  <2> QED
    BY <2>1, <2>2, <2>3, <2>5, <2>6 DEF StaysAs
<1> QED
  BY <1>2, <1>3, <1>4, <1>5, <1>6, <1>7 DEF PlanOf

\* An index that has been read and is not rebuilt is the one that is wanted.
LEMMA KeptIndex ==
  ASSUME NEW T, NEW X, NEW d, Desirable(d), CatalogIs(T, X), SoundCatalog(T, X, d),
         NEW dt \in ToSet(d), NEW di \in ToSet(dt.indexes), NEW v, v.name = dt.name,
         NEW ci, IndexIsRead(X, v, ci), ci.name = di.name, ~Rebuilt(dt, ci)
  PROVE  IsIndex(X, di.name, dt.name, di)
<1>1. DefinedOnce(d, dt)
  BY DesiredIs
<1>2. di = ByName(dt.indexes, ci.name) /\ ci.name \in Names(dt.indexes)
  <2>1. dt.indexes \in Seq(Index) /\ Distinct(dt.indexes)
    BY <1>1 DEF DefinedOnce, WellFormedTable, Table
  <2>2. ci.name \in Names(dt.indexes)
    BY DEF Names, ToSet
  <2> QED
    BY <2>1, <2>2, ByNameIs
<1>3. ci.columns = di.columns /\ ci.include = di.include /\ ci.unique = di.unique
  BY <1>2 DEF Rebuilt, indexKey
<1>4. PICK x \in StoredIndex : x = X[di.name] /\ di.name \in DOMAIN X /\ x.on = dt.name
  BY DEF CatalogIs, IndexIsRead
<1>5. di.include = <<>> /\ x.unique = di.unique /\ x.columns \o x.include = di.columns
  BY <1>3, <1>4 DEF IndexIsRead
<1>6. CASE x.include = <<>>
  <2>1. x.columns \in Seq(STRING)
    BY DEF StoredIndex
  <2>2. \A s \in Seq(STRING) : s \o <<>> = s
    OBVIOUS
  <2>3. x.columns = di.columns
    BY <1>5, <1>6, <2>1, <2>2
  <2> QED
    BY <1>4, <1>5, <1>6, <2>3 DEF IsIndex
<1>7. CASE x.include # <<>>
  <2>1. Own(X, di.name, d)
    BY <1>4, <1>7 DEF SoundCatalog
  <2>2. IsIndex(X, di.name, dt.name, di)
    BY <1>1, <2>1 DEF Own, DefinedOnce
  <2> QED
    BY <2>2
<1> QED
  BY <1>6, <1>7

\* The plan that Diff makes of a schema read from the catalog fits the catalog.
LEMMA DiffFits ==
  ASSUME NEW T, NEW X, NEW d, Desirable(d), CatalogIs(T, X), SoundCatalog(T, X, d),
         NEW live, ReadOnce(T, X, d, live), ~DiffFails(live, d),
         NEW L, L = PlanOf(live, d)
  PROVE  Fits(T, X, d, L)
<1>1. Names(live) = DOMAIN T
  BY DEF ReadOnce, SchemaIsRead
<1>2. \A s \in L : Possible(T, X, d, s)
  BY PlanIsPossible
<1>3. \A t \in DOMAIN T : t \in Names(d) \/ DropTable(t) \in L
  BY <1>1 DEF PlanOf
<1>4. \A dt \in ToSet(d) : dt \in Fresh(live, d) \/ dt \in Altered(live, d)
  BY DEF Fresh, Altered
<1>5. ASSUME NEW dt \in ToSet(d)
      PROVE  CreateTable(dt) \in L \/ (dt.name \in DOMAIN T /\ Conforms(T[dt.name], dt, L))
  <2>1. CASE dt \in Fresh(live, d)
    BY <2>1 DEF PlanOf
  <2>2. CASE dt \in Altered(live, d)
    <3>1. PICK v : v = Old(live, dt)
      OBVIOUS
    <3>2. /\ v \in Table /\ v.name = dt.name /\ ColumnsRead(T, v) /\ KeysRead(T, v)
          /\ ~Unsupported(v, dt)
      BY <2>2, <3>1, OldStays DEF StaysAs, TableIsRead
    <3>3. \A c \in ToSet(dt.columns) : c.name \notin Names(v.columns) => AddColumn(dt.name, c) \in L
      BY <2>2, <3>1, PlanHas
    <3> QED
      BY <3>2, <3>3, StayingConforms
  <2> QED
    BY <1>4, <2>1, <2>2
<1>6. ASSUME NEW n \in DOMAIN X
      PROVE  Own(X, n, d) \/ Dropping(n) \cap L # {} \/ DropTable(X[n].on) \in L
  <2> SUFFICES ASSUME ~Own(X, n, d), X[n].on \in Names(d)
               PROVE  Dropping(n) \cap L # {}
    BY <1>3 DEF SoundCatalog
  <2>1. PICK dt \in ToSet(d) : dt.name = X[n].on
    BY DEF Names, ToSet
  <2>2. dt \in Altered(live, d)
    BY <1>1, <2>1 DEF Altered, SoundCatalog
  <2>3. PICK v : v = Old(live, dt)
    OBVIOUS
  <2>4. v \in Table /\ v.name = dt.name /\ TableIsRead(T, X, d, v)
    <3>1. StaysAs(T, X, d, live, v, dt)
      BY <2>2, <2>3, OldStays
    <3> QED
      BY <3>1 DEF StaysAs
  <2>5. n \in Names(v.indexes)
    BY <2>1, <2>4 DEF TableIsRead, IndexesRead
  <2>6. PICK ci \in ToSet(v.indexes) : ci.name = n
    BY <2>5 DEF Names, ToSet
  <2>7. IndexIsRead(X, v, ci)
    BY <2>4, IndexesOfRead
  <2>8. ci.name \notin Names(dt.indexes) \/ Rebuilt(dt, ci)
    <3> SUFFICES ASSUME ci.name \in Names(dt.indexes), ~Rebuilt(dt, ci) PROVE FALSE
      OBVIOUS
    <3>1. PICK di \in ToSet(dt.indexes) : di.name = ci.name
      BY DEF Names, ToSet
    <3>2. IsIndex(X, di.name, dt.name, di)
      BY <2>4, <2>7, <3>1, KeptIndex
    <3> QED
      BY <2>6, <3>1, <3>2 DEF Own
  <2> QED
    BY <2>2, <2>3, <2>6, <2>8, PlanHas
<1>7. ASSUME NEW dt \in ToSet(d), NEW di \in ToSet(dt.indexes), Building(dt, di) \cap L = {}
      PROVE  IsIndex(X, di.name, dt.name, di) /\ Dropping(di.name) \cap L = {}
  <2>1. dt \notin Fresh(live, d)
    <3> SUFFICES ASSUME dt \in Fresh(live, d) PROVE FALSE
      OBVIOUS
    <3>1. dt \in Table /\ Distinct(dt.indexes)
      BY DesiredIs DEF DefinedOnce, WellFormedTable
    <3>2. PICK A : A = ToSet(NewTableIndexes(dt))
      OBVIOUS
    <3>3. A = {CreateIndex(dt.name, i, "+") : i \in ToSet(dt.indexes)}
      BY <3>1, <3>2, NewTableIndexesAre
    <3>4. A \subseteq L
      BY <3>2 DEF PlanOf, BuildsOf
    <3>5. CreateIndex(dt.name, di, "+") \in L
      BY <3>3, <3>4
    <3> QED
      BY <1>7, <3>5 DEF Building
  <2>2. dt \in Altered(live, d)
    BY <1>4, <2>1
  <2>3. PICK v : v = Old(live, dt)
    OBVIOUS
  <2>4. /\ v \in Table /\ v.name = dt.name /\ TableIsRead(T, X, d, v)
        /\ v \in ToSet(live) /\ \A w \in ToSet(live) : w.name = dt.name => w = v
    <3>1. StaysAs(T, X, d, live, v, dt)
      BY <2>2, <2>3, OldStays
    <3> QED
      BY <3>1 DEF StaysAs
  <2>5. di.name \in Names(v.indexes)
    BY <1>7, <2>2, <2>3, PlanHas
  <2>6. PICK ci \in ToSet(v.indexes) : ci.name = di.name
    BY <2>5 DEF Names, ToSet
  <2>7. IndexIsRead(X, v, ci)
    BY <2>4, IndexesOfRead
  <2>8. ~Rebuilt(dt, ci)
    BY <1>7, <2>2, <2>3, <2>6, PlanHas
  <2>9. IsIndex(X, di.name, dt.name, di)
    BY <2>4, <2>6, <2>7, <2>8, KeptIndex
  <2>10. Dropping(di.name) \cap L = {}
    <3> SUFFICES ASSUME Dropping(di.name) \cap L # {} PROVE FALSE
      OBVIOUS
    <3>1. PICK du \in Altered(live, d) : \E cj \in ToSet(Old(live, du).indexes) :
             di.name = cj.name /\ (cj.name \notin Names(du.indexes) \/ Rebuilt(du, cj))
      BY PlanDrops
    <3>2. PICK w : w = Old(live, du)
      OBVIOUS
    <3>3. PICK cj \in ToSet(w.indexes) :
             di.name = cj.name /\ (cj.name \notin Names(du.indexes) \/ Rebuilt(du, cj))
      BY <3>1, <3>2
    <3>4. w \in Table /\ w.name = du.name /\ TableIsRead(T, X, d, w) /\ w \in ToSet(live)
      BY <3>2, OldStays DEF StaysAs
    <3>5. IndexIsRead(X, w, cj)
      BY <3>4, IndexesOfRead
    <3>6. du.name = dt.name
      BY <2>4, <2>6, <2>7, <3>3, <3>4, <3>5 DEF IndexIsRead
    <3>7. du = dt
      BY <3>6, DesiredIs DEF Altered, DefinedOnce
    <3>8. w = v
      BY <2>4, <3>4, <3>6
    <3>9. cj = ci
      BY <2>4, <2>6, <3>3, <3>8 DEF TableIsRead, IndexesRead, Distinct, ToSet
    <3>10. ci.name \in Names(dt.indexes)
      BY <2>6 DEF Names, ToSet
    <3> QED
      BY <2>8, <3>3, <3>7, <3>9, <3>10
  <2> QED
    BY <2>9, <2>10
<1> QED
  BY <1>2, <1>3, <1>5, <1>6, <1>7 DEF Fits

-----------------------------------------------------------------------------
(* The introspection, query by query.                                      *)

\* No entry twice.
OnceEach(s) == \A i, j \in DOMAIN s : s[i] = s[j] => i = j

\* The names of S that there are, each once.
LEMMA RelnamesKept ==
  ASSUME NEW S
  PROVE  /\ InRelnameOrder(S) \in Seq(STRING)
         /\ ToSet(InRelnameOrder(S)) = ToSet(Relnames) \cap S
         /\ OnceEach(InRelnameOrder(S))
<1>1. PICK R : R = {r \in STRING \X STRING : r[1] # r[2]}
  OBVIOUS
<1>2. Relnames \in Seq(STRING) /\ \A i, j \in DOMAIN Relnames : Relnames[i] = Relnames[j] => i = j
  BY RelnamesAssumption
<1>3. Paired(R, Relnames)
  <2>1. ASSUME NEW i \in DOMAIN Relnames, NEW j \in DOMAIN Relnames, i < j
        PROVE  <<Relnames[i], Relnames[j]>> \in R
    <3>1. Relnames[i] \in STRING /\ Relnames[j] \in STRING /\ i # j
      BY <1>2, <2>1
    <3> QED
      BY <1>1, <1>2, <3>1
  <2> QED
    BY <2>1 DEF Paired
<1>4. PICK u : u = InRelnameOrder(S)
  OBVIOUS
<1>5. ToSet(u) = ToSet(Relnames) \cap S /\ Paired(R, u)
  BY <1>2, <1>3, <1>4, ThoseKeeps DEF InRelnameOrder
<1>6. u \in Seq(STRING)
  <2>1. u \in Seq(STRING \cap S)
    BY <1>2, <1>4, ThoseType DEF InRelnameOrder
  <2> QED
    BY <2>1
<1>7. OnceEach(u)
  <2>1. \A i, j \in DOMAIN u : i < j => u[i] # u[j]
    BY <1>1, <1>5 DEF Paired
  <2>2. \A i, j \in DOMAIN u : i < j \/ j < i \/ i = j
    BY <1>6
  <2> QED
    BY <2>1, <2>2 DEF OnceEach
<1> QED
  BY <1>4, <1>5, <1>6, <1>7

\* How far the tables have been read: the first n entries of v are complete,
\* and the tables still left are the others.
ReadSoFar(T, X, d, left, v, n) ==
  /\ left \in Seq(STRING) /\ OnceEach(left)
  /\ v \in Seq(Table) /\ n \in 0..Len(v)
  /\ DOMAIN T = ToSet(left) \cup {v[i].name : i \in 1..n}
  /\ \A i \in 1..n : TableIsRead(T, X, d, v[i]) /\ v[i].name \notin ToSet(left)
  /\ \A i, j \in 1..n : v[i].name = v[j].name => i = j

\* The last entry of v is the table in hand, the first of those left.
InHand(T, X, d, left, v) ==
  /\ left # <<>> /\ v # <<>>
  /\ v[Len(v)].name = Head(left)
  /\ ReadSoFar(T, X, d, left, v, Len(v) - 1)
  /\ ColumnsRead(T, v[Len(v)])

\* What a run has read of a catalog that holds still, at each point of its
\* introspection.
Reads(T, X, d, where, left, v, k) ==
  /\ where = "introspectColumns" =>
       k = 0 /\ left # <<>> /\ ReadSoFar(T, X, d, left, v, Len(v))
  /\ where = "introspectConstraints" => k = 0 /\ InHand(T, X, d, left, v)
  /\ where = "introspectIndexes" =>
       k = 0 /\ InHand(T, X, d, left, v) /\ KeysRead(T, v[Len(v)])
  /\ where = "introspectIndexColumns" =>
       /\ InHand(T, X, d, left, v) /\ KeysRead(T, v[Len(v)])
       /\ IndexesRead(X, d, v[Len(v)], k)
       /\ k \in 0..Len(v[Len(v)].indexes) - 1
  /\ where = "Diff" => left = <<>> /\ ReadSoFar(T, X, d, left, v, Len(v))

\* Before the first table.
LEMMA NothingRead ==
  ASSUME NEW T, NEW X, NEW d, NEW left \in Seq(STRING), OnceEach(left), ToSet(left) = DOMAIN T
  PROVE  ReadSoFar(T, X, d, left, <<>>, 0)
<1>1. <<>> \in Seq(Table) /\ 0 \in 0..Len(<<>>) /\ 1..0 = {}
  OBVIOUS
<1> QED
  BY <1>1 DEF ReadSoFar

\* Entries that are not complete do not count.
LEMMA SameSoFar ==
  ASSUME NEW T, NEW X, NEW d, NEW left, NEW v, NEW n, ReadSoFar(T, X, d, left, v, n),
         NEW w \in Seq(Table), n <= Len(w), \A i \in 1..n : w[i] = v[i]
  PROVE  ReadSoFar(T, X, d, left, w, n)
<1>1. n \in 0..Len(w)
  BY DEF ReadSoFar
<1>2. {v[i].name : i \in 1..n} = {w[i].name : i \in 1..n}
  OBVIOUS
<1> QED
  BY <1>1, <1>2 DEF ReadSoFar

\* The first of those left, and the others.
LEMMA HeadAndTail ==
  ASSUME NEW s \in Seq(STRING), s # <<>>, OnceEach(s), NEW h, h = Head(s), NEW rest, rest = Tail(s)
  PROVE  /\ rest \in Seq(STRING) /\ OnceEach(rest)
         /\ h \notin ToSet(rest) /\ ToSet(s) = ToSet(rest) \cup {h}
<1>1. PICK n \in Nat : Len(s) = n + 1 /\ DOMAIN s = 1..n + 1
  <2>1. Len(s) \in Nat /\ Len(s) # 0 /\ DOMAIN s = 1..Len(s)
    OBVIOUS
  <2>2. Len(s) - 1 \in Nat /\ Len(s) = (Len(s) - 1) + 1
    BY <2>1
  <2> QED
    BY <2>1, <2>2
<1>2. rest \in Seq(STRING) /\ Len(rest) = n /\ DOMAIN rest = 1..n
  <2>1. Tail(s) \in Seq(STRING) /\ Len(Tail(s)) = Len(s) - 1
    OBVIOUS
  <2>2. rest \in Seq(STRING) /\ Len(rest) = n
    BY <1>1, <2>1
  <2> QED
    BY <2>2
<1>3. h = s[1] /\ \A i \in 1..n : rest[i] = s[i + 1]
  <2>1. h = s[1]
    OBVIOUS
  <2>2. \A i \in 1..n : rest[i] = s[i + 1]
    BY <1>1, <1>2
  <2> QED
    BY <2>1, <2>2
<1>4. \A i \in 1..n : i + 1 \in 1..n + 1 /\ i + 1 # 1
  BY <1>1
<1>5. OnceEach(rest)
  <2> SUFFICES ASSUME NEW i \in 1..n, NEW j \in 1..n, rest[i] = rest[j] PROVE i = j
    BY <1>2 DEF OnceEach
  <2>1. i + 1 = j + 1
    BY <1>1, <1>3, <1>4 DEF OnceEach
  <2> QED
    BY <2>1
<1>6. h \notin ToSet(rest)
  <2> SUFFICES ASSUME NEW i \in 1..n, h = rest[i] PROVE FALSE
    BY <1>2 DEF ToSet
  <2>1. 1 \in 1..n + 1
    BY <1>1
  <2>2. s[1] = s[i + 1]
    BY <1>3
  <2> QED
    BY <1>1, <1>4, <2>1, <2>2 DEF OnceEach
<1>7. \A j \in 1..n + 1 : j = 1 \/ \E i \in 1..n : j = i + 1
  <2> SUFFICES ASSUME NEW j \in 1..n + 1, j # 1 PROVE \E i \in 1..n : j = i + 1
    OBVIOUS
  <2>1. j - 1 \in 1..n /\ j = (j - 1) + 1
    BY <1>1
  <2> QED
    BY <2>1
<1>8. ToSet(s) = ToSet(rest) \cup {h}
  <2>1. ToSet(s) = {s[j] : j \in 1..n + 1} /\ ToSet(rest) = {rest[i] : i \in 1..n}
    BY <1>1, <1>2 DEF ToSet
  <2>2. ASSUME NEW j \in 1..n + 1 PROVE s[j] \in {rest[i] : i \in 1..n} \cup {h}
    BY <1>3, <1>7
  <2>3. ASSUME NEW i \in 1..n PROVE rest[i] \in {s[j] : j \in 1..n + 1}
    BY <1>3, <1>4
  <2>4. h \in {s[j] : j \in 1..n + 1}
    BY <1>1, <1>3
  <2> QED
    BY <2>1, <2>2, <2>3, <2>4
<1> QED
  BY <1>2, <1>5, <1>6, <1>8

\* The table in hand is complete.
LEMMA OneMore ==
  ASSUME NEW T, NEW X, NEW d, NEW left, NEW v, InHand(T, X, d, left, v),
         TableIsRead(T, X, d, v[Len(v)])
  PROVE  ReadSoFar(T, X, d, Tail(left), v, Len(v))
<1>1. left \in Seq(STRING) /\ left # <<>> /\ v \in Seq(Table) /\ v # <<>> /\ OnceEach(left)
  BY DEF InHand, ReadSoFar
<1>2. PICK m \in Nat : Len(v) = m + 1
  <2>1. Len(v) \in Nat /\ Len(v) > 0 /\ Len(v) = (Len(v) - 1) + 1 /\ Len(v) - 1 \in Nat
    BY <1>1
  <2> QED
    BY <2>1
<1>3. ReadSoFar(T, X, d, left, v, m)
  <2>1. Len(v) - 1 = m
    BY <1>2
  <2> QED
    BY <2>1 DEF InHand
<1>4. PICK rest : rest = Tail(left)
  OBVIOUS
<1>5. PICK h : h = Head(left)
  OBVIOUS
<1>6. rest \in Seq(STRING) /\ OnceEach(rest) /\ h \notin ToSet(rest) /\ ToSet(left) = ToSet(rest) \cup {h}
  BY <1>1, <1>4, <1>5, HeadAndTail
<1>7. v[m + 1].name = h
  BY <1>2, <1>5 DEF InHand
<1>8. 1..m + 1 = (1..m) \cup {m + 1}
  BY <1>2
<1>9. {v[i].name : i \in 1..m + 1} = {v[i].name : i \in 1..m} \cup {h}
  BY <1>7, <1>8
<1>10. DOMAIN T = ToSet(rest) \cup {v[i].name : i \in 1..m + 1}
  <2>1. DOMAIN T = ToSet(left) \cup {v[i].name : i \in 1..m}
    BY <1>3 DEF ReadSoFar
  <2> QED
    BY <1>6, <1>9, <2>1
<1>11. \A i \in 1..m + 1 : TableIsRead(T, X, d, v[i]) /\ v[i].name \notin ToSet(rest)
  <2>1. \A i \in 1..m : TableIsRead(T, X, d, v[i]) /\ v[i].name \notin ToSet(left)
    BY <1>3 DEF ReadSoFar
  <2> QED
    BY <1>2, <1>6, <1>7, <1>8, <2>1
<1>12. \A i, j \in 1..m + 1 : v[i].name = v[j].name => i = j
  <2>1. /\ \A i \in 1..m : v[i].name # h
        /\ \A i, j \in 1..m : v[i].name = v[j].name => i = j
    BY <1>3, <1>6 DEF ReadSoFar
  <2> QED
    BY <1>7, <1>8, <2>1
<1>13. m + 1 \in 0..m + 1
  BY <1>2
<1>14. ReadSoFar(T, X, d, rest, v, m + 1)
  BY <1>1, <1>2, <1>6, <1>10, <1>11, <1>12, <1>13 DEF ReadSoFar
<1> QED
  BY <1>2, <1>4, <1>14

\* With no table left, the schema has been read.
LEMMA AllRead ==
  ASSUME NEW T, NEW X, NEW d, NEW v, ReadSoFar(T, X, d, <<>>, v, Len(v))
  PROVE  ReadOnce(T, X, d, v)
<1>1. v \in Seq(Table) /\ DOMAIN v = 1..Len(v) /\ ToSet(<<>>) = {}
  BY DEF ReadSoFar, ToSet
<1>2. DOMAIN T = Names(v) /\ Distinct(v)
  BY <1>1 DEF ReadSoFar, Names, Distinct
<1>3. \A w \in ToSet(v) : TableIsRead(T, X, d, w)
  BY <1>1 DEF ReadSoFar, ToSet
<1> QED
  BY <1>1, <1>2, <1>3 DEF ReadOnce, SchemaIsRead

\* The last entry of v is replaced by e.
WithLast(v, e) == [v EXCEPT ![Len(v)] = e]

\* The entries before it stay.
LEMMA LastReplaced ==
  ASSUME NEW v \in Seq(Table), v # <<>>, NEW n, n = Len(v), NEW e \in Table,
         NEW w, w = [v EXCEPT ![n] = e]
  PROVE  /\ w \in Seq(Table) /\ Len(w) = n /\ w # <<>> /\ w[n] = e
         /\ \A i \in 1..n - 1 : w[i] = v[i]
<1>1. n \in Nat /\ n \in DOMAIN v /\ DOMAIN v = 1..n
  OBVIOUS
<1>2. w \in Seq(Table)
  BY ReplacedType
<1>3. DOMAIN w = 1..n /\ w[n] = e /\ \A i \in 1..n - 1 : w[i] = v[i]
  BY <1>1
<1>4. Len(w) = n
  BY <1>1, <1>2, <1>3
<1> QED
  BY <1>1, <1>2, <1>3, <1>4

\* The table in hand is read further: its name and its columns stay.
LEMMA InHandStays ==
  ASSUME NEW T, NEW X, NEW d, NEW left, NEW v, InHand(T, X, d, left, v), NEW n, n = Len(v),
         NEW e \in Table, e.name = v[n].name, e.columns = v[n].columns,
         NEW w, w = WithLast(v, e)
  PROVE  InHand(T, X, d, left, w) /\ Len(w) = n /\ w[Len(w)] = e
<1>1. n = Len(v)
  OBVIOUS
<1>2. v \in Seq(Table) /\ v # <<>> /\ ReadSoFar(T, X, d, left, v, n - 1)
  BY <1>1 DEF InHand, ReadSoFar
<1>3. /\ w \in Seq(Table) /\ Len(w) = n /\ w # <<>> /\ w[n] = e
      /\ \A i \in 1..n - 1 : w[i] = v[i]
  BY <1>1, <1>2, LastReplaced DEF WithLast
<1>4. n - 1 <= n
  BY <1>1, <1>2
<1>5. ReadSoFar(T, X, d, left, w, n - 1)
  <2>1. PICK m : m = n - 1
    OBVIOUS
  <2>2. ReadSoFar(T, X, d, left, v, m) /\ m <= Len(w) /\ \A i \in 1..m : w[i] = v[i]
    BY <1>2, <1>3, <1>4, <2>1
  <2>3. ReadSoFar(T, X, d, left, w, m)
    BY <1>3, <2>2, SameSoFar
  <2> QED
    BY <2>1, <2>3
<1>6. ColumnsRead(T, e)
  BY <1>1 DEF InHand, ColumnsRead
<1>7. e.name = Head(left) /\ left # <<>>
  BY <1>1 DEF InHand
<1> QED
  BY <1>1, <1>3, <1>5, <1>6, <1>7 DEF InHand

\* The columns of the next table have been read.
LEMMA TableEntered ==
  ASSUME NEW T, NEW X, NEW d, NEW left, left # <<>>, NEW v, ReadSoFar(T, X, d, left, v, Len(v)),
         NEW e \in Table, e.name = Head(left), ColumnsRead(T, e),
         NEW w, w = Append(v, e)
  PROVE  InHand(T, X, d, left, w)
<1>1. PICK n : n = Len(v)
  OBVIOUS
<1>2. v \in Seq(Table) /\ n \in Nat
  BY <1>1 DEF ReadSoFar
<1>3. w \in Seq(Table) /\ w # <<>> /\ Len(w) = n + 1 /\ w[n + 1] = e /\ \A i \in 1..n : w[i] = v[i]
  BY <1>1, <1>2
<1>4. n <= Len(w) /\ Len(w) - 1 = n
  BY <1>2, <1>3
<1>5. ReadSoFar(T, X, d, left, w, n)
  BY <1>1, <1>3, <1>4, SameSoFar
<1> QED
  BY <1>3, <1>4, <1>5 DEF InHand

\* The indexes of a table as they are found, their columns still to be read.
LEMMA IndexesFound ==
  ASSUME NEW d, SoundCatalog(tables, indexes, d), NEW e, NEW t, e.name = t,
         e.indexes = introspectIndexes(t)
  PROVE  IndexesRead(indexes, d, e, 0)
<1>1. PICK X : X = indexes
  OBVIOUS
<1>2. PICK S : S = {n \in DOMAIN X : X[n].on = t /\ X[n].state = "valid"}
  OBVIOUS
<1>3. PICK u : u = InRelnameOrder(S)
  OBVIOUS
<1>4. u \in Seq(STRING) /\ ToSet(u) = ToSet(Relnames) \cap S /\ OnceEach(u)
  BY <1>3, RelnamesKept
<1>5. PICK f : f = [i \in DOMAIN u |-> [name |-> u[i], columns |-> <<>>, include |-> <<>>,
                                         unique |-> X[u[i]].unique]]
  OBVIOUS
<1>6. e.indexes = f
  BY <1>1, <1>2, <1>3, <1>5 DEF introspectIndexes
<1>7. /\ DOMAIN f = DOMAIN u
      /\ \A i \in DOMAIN u : /\ f[i].name = u[i] /\ f[i].include = <<>>
                             /\ f[i].unique = X[u[i]].unique
                             /\ u[i] \in S
                             /\ i \in Nat /\ i # 0
  <2>1. \A i \in DOMAIN u : u[i] \in ToSet(u)
    BY DEF ToSet
  <2>2. \A i \in DOMAIN u : i \in Nat /\ i # 0
    BY <1>4
  <2> QED
    BY <1>4, <1>5, <2>1, <2>2
<1>8. Distinct(f)
  BY <1>4, <1>7 DEF Distinct, OnceEach
<1>9. \A j \in DOMAIN f :
        /\ f[j].name \in DOMAIN X /\ X[f[j].name].on = t
        /\ f[j].include = <<>> /\ f[j].unique = X[f[j].name].unique
        /\ ~(j <= 0)
  BY <1>2, <1>7
<1>10. ASSUME NEW n \in DOMAIN X, X[n].on = t
       PROVE  n \in Names(f) \/ Own(X, n, d)
  <2> SUFFICES ASSUME ~Own(X, n, d) PROVE n \in Names(f)
    OBVIOUS
  <2>1. n \in S /\ n \in ToSet(Relnames)
    BY <1>1, <1>2, <1>10 DEF SoundCatalog
  <2>2. PICK i \in DOMAIN u : u[i] = n
    BY <1>4, <2>1 DEF ToSet
  <2> QED
    BY <1>7, <2>2 DEF Names
<1> QED
  BY <1>1, <1>6, <1>8, <1>9, <1>10 DEF IndexesRead

\* The columns of one more index have been read.
WithColumns(f, j, c) == [f EXCEPT ![j].columns = c]
\* indkey holds the key columns and the INCLUDE columns.
AllColumns(x) == x.columns \o x.include
\* Entry e of the live schema with the columns of one more index.
IndexRead(X, e, k) ==
  WithColumns(e.indexes, k + 1, AllColumns(X[e.indexes[k + 1].name]))

\* One index more of the table in hand has been read.
LEMMA OneMoreIndex ==
  ASSUME NEW X, NEW d, NEW e \in Table, NEW k, IndexesRead(X, d, e, k),
         k \in 0..Len(e.indexes) - 1,
         NEW g, g.name = e.name, g.indexes = IndexRead(X, e, k)
  PROVE  IndexesRead(X, d, g, k + 1) /\ Len(g.indexes) = Len(e.indexes)
<1>1. PICK f \in Seq(Index) : f = e.indexes
  BY DEF Table
<1>a. PICK c : c = AllColumns(X[f[k + 1].name])
  OBVIOUS
<1>2. PICK h : g.indexes = h /\ h = [f EXCEPT ![k + 1].columns = c]
  BY <1>1, <1>a DEF IndexRead, WithColumns
<1>3. PICK n \in Nat : n = Len(f) /\ DOMAIN f = 1..n
  <2>1. f \in Seq(Index)
    BY <1>1
  <2> QED
    BY ONLY <2>1
<1>4. k \in Nat /\ k + 1 \in 1..n /\ k + 1 \in DOMAIN f
  <2>1. k \in 0..n - 1
    BY <1>1, <1>3
  <2> QED
    BY ONLY <1>3, <2>1
<1>5. \A j \in DOMAIN f : f[j] \in Index
  <2>1. f \in Seq(Index)
    BY <1>1
  <2> QED
    BY ONLY <2>1
<1>6. /\ DOMAIN h = 1..n
      /\ h[k + 1] = [f[k + 1] EXCEPT !.columns = c]
      /\ \A j \in 1..n : j # k + 1 => h[j] = f[j]
  BY <1>2, <1>3, <1>4
<1>7. /\ h[k + 1].name = f[k + 1].name /\ h[k + 1].include = f[k + 1].include
      /\ h[k + 1].unique = f[k + 1].unique /\ h[k + 1].columns = c
  BY <1>4, <1>5, <1>6 DEF Index
<1>8. \A j \in 1..n : h[j].name = f[j].name /\ h[j].include = f[j].include /\ h[j].unique = f[j].unique
  BY <1>6, <1>7
<1>9. Distinct(h) /\ Names(h) = Names(f)
  <2>1. Distinct(f)
    BY <1>1 DEF IndexesRead
  <2>2. Distinct(h)
    BY ONLY <1>3, <1>6, <1>8, <2>1 DEF Distinct
  <2>3. Names(h) = Names(f)
    <3>1. DOMAIN h = DOMAIN f /\ \A j \in DOMAIN f : h[j].name = f[j].name
      BY <1>3, <1>6, <1>8
    <3> QED
      BY ONLY <3>1 DEF Names
  <2> QED
    BY <2>2, <2>3
<1>10. ASSUME NEW j \in DOMAIN h
       PROVE  /\ h[j].name \in DOMAIN X /\ X[h[j].name].on = g.name
              /\ h[j].include = <<>> /\ h[j].unique = X[h[j].name].unique
              /\ j <= k + 1 => h[j].columns = X[h[j].name].columns \o X[h[j].name].include
  <2>1. /\ f[j].name \in DOMAIN X /\ X[f[j].name].on = g.name
        /\ f[j].include = <<>> /\ f[j].unique = X[f[j].name].unique
        /\ j <= k => f[j].columns = X[f[j].name].columns \o X[f[j].name].include
    BY <1>1, <1>3, <1>6 DEF IndexesRead
  <2>2. CASE j = k + 1
    BY <1>1, <1>a, <1>7, <2>1, <2>2 DEF AllColumns
  <2>3. CASE j # k + 1
    <3>1. h[j] = f[j]
      BY <1>6, <2>3
    <3>2. j <= k + 1 => j <= k
      BY ONLY <1>3, <1>4, <1>6, <1>10, <2>3
    <3> QED
      BY <2>1, <3>1, <3>2
  <2> QED
    BY <2>2, <2>3
<1>11. Len(h) = n
  <2>1. DOMAIN h = 1..n /\ n \in Nat
    BY <1>3, <1>6
  <2> QED
    BY ONLY <2>1
<1>12. \A m \in DOMAIN X : X[m].on = g.name => m \in Names(h) \/ Own(X, m, d)
  BY <1>1, <1>9 DEF IndexesRead
<1> QED
  BY <1>1, <1>2, <1>3, <1>9, <1>10, <1>11, <1>12 DEF IndexesRead

\* The next table, or Diff.
LEMMA NextRead ==
  ASSUME NEW T, NEW X, NEW d, NEW left, NEW v, ReadSoFar(T, X, d, left, v, Len(v))
  PROVE  Reads(T, X, d, NextTable(left), left, v, 0)
BY DEF Reads, NextTable

\* The table in hand is complete.
LEMMA TableComplete ==
  ASSUME NEW T, NEW X, NEW d, NEW left, NEW v, InHand(T, X, d, left, v),
         TableIsRead(T, X, d, v[Len(v)])
  PROVE  Reads(T, X, d, NextTable(Tail(left)), Tail(left), v, 0)
<1>1. PICK rest : rest = Tail(left)
  OBVIOUS
<1>2. ReadSoFar(T, X, d, rest, v, Len(v))
  BY <1>1, OneMore
<1> QED
  BY <1>1, <1>2, NextRead

\* The entry in hand is a table, the next of those there are.
LEMMA EntryInHand ==
  ASSUME NEW T, NEW X, NEW d, NEW left, NEW v, InHand(T, X, d, left, v)
  PROVE  /\ v \in Seq(Table) /\ v # <<>> /\ v[Len(v)] \in Table
         /\ Len(v) \in DOMAIN v
         /\ v[Len(v)].name = Head(left) /\ Head(left) \in DOMAIN T
         /\ ColumnsRead(T, v[Len(v)])
<1>1. v \in Seq(Table) /\ v # <<>>
  BY DEF InHand, ReadSoFar
<1>2. v[Len(v)] \in Table /\ Len(v) \in DOMAIN v
  BY <1>1
<1> QED
  BY <1>1, <1>2 DEF InHand, ColumnsRead

\* While nobody else changes the catalog, what a run reads of it stays right.
LEMMA ReadingGoesOn ==
  ASSUME TypeOK, DOMAIN todo = Operators, DOMAIN asked = Operators,
         NEW p \in Operators, Introspection(p),
         NEW d, SoundCatalog(tables, indexes, d),
         Reads(tables, indexes, d, pc[p], todo[p], view[p], asked[p])
  PROVE  Reads(tables, indexes, d, pc'[p], todo'[p], view'[p], asked'[p])
<1>1. PICK T, X, left, v, k : /\ T = tables /\ X = indexes
                              /\ left = todo[p] /\ v = view[p] /\ k = asked[p]
  OBVIOUS
<1>2. /\ DOMAIN pc = Operators /\ DOMAIN view = Operators /\ v \in Seq(Table)
      /\ \A n \in DOMAIN T : T[n] \in StoredTable
      /\ SoundCatalog(T, X, d) /\ Reads(T, X, d, pc[p], left, v, k)
  BY <1>1 DEF TypeOK, CatalogTypeOK
<1> USE DEF Goto, Introspecting
<1>3. CASE ListTables(p)
  <2>1. PICK l : l = listTables
    OBVIOUS
  <2>2. pc'[p] = NextTable(l) /\ todo'[p] = l /\ view'[p] = <<>> /\ asked'[p] = 0
    BY <1>2, <1>3, <2>1 DEF ListTables
  <2>3. l \in Seq(STRING) /\ OnceEach(l) /\ ToSet(l) = DOMAIN T
    <3>1. DOMAIN T \subseteq ToSet(Relnames)
      BY <1>2 DEF SoundCatalog
    <3> QED
      BY <1>1, <2>1, <3>1, RelnamesKept DEF listTables
  <2>4. ReadSoFar(T, X, d, l, <<>>, 0) /\ Len(<<>>) = 0
    BY <2>3, NothingRead
  <2>5. Reads(T, X, d, NextTable(l), l, <<>>, 0)
    BY <2>4, NextRead
  <2> QED
    BY <1>1, <2>2, <2>5
<1>4. CASE ReadColumns(p)
  <2>1. PICK t : t = Head(left)
    OBVIOUS
  <2>2. left # <<>> /\ k = 0 /\ ReadSoFar(T, X, d, left, v, Len(v))
    BY <1>2, <1>4 DEF ReadColumns, Reads
  <2>3. t \in DOMAIN T /\ t \in STRING
    BY <1>1, <1>4, <2>1 DEF ReadColumns, TypeOK, CatalogTypeOK
  <2>4. PICK e : e = [name |-> t, columns |-> introspectColumns(t), primaryKey |-> <<>>,
                      uniques |-> <<>>, checks |-> <<>>, indexes |-> <<>>]
    OBVIOUS
  <2>5. e \in Table
    <3>1. introspectColumns(t) \in Seq(Column)
      BY <1>1, <2>3, introspectColumnsType DEF TypeOK
    <3>2. <<>> \in Seq(STRING) /\ <<>> \in Seq(Seq(STRING)) /\ <<>> \in Seq(Check) /\ <<>> \in Seq(Index)
      OBVIOUS
    <3> QED
      BY <2>3, <2>4, <3>1, <3>2 DEF Table
  <2>6. ColumnsRead(T, e) /\ e.name = t
    BY <1>1, <2>3, <2>4 DEF ColumnsRead, introspectColumns, AsRead
  <2>7. PICK w : w = Append(v, e)
    OBVIOUS
  <2>8. InHand(T, X, d, left, w)
    BY <2>1, <2>2, <2>5, <2>6, <2>7, TableEntered
  <2>9. /\ pc'[p] = "introspectConstraints" /\ todo'[p] = left /\ view'[p] = w /\ asked'[p] = k
    BY <1>1, <1>2, <1>4, <2>1, <2>4, <2>7 DEF ReadColumns
  <2>10. Reads(T, X, d, "introspectConstraints", left, w, k)
    BY <2>2, <2>8 DEF Reads
  <2> QED
    BY <1>1, <2>9, <2>10
<1>5. CASE ReadConstraints(p)
  <2>1. k = 0 /\ InHand(T, X, d, left, v)
    BY <1>2, <1>5 DEF ReadConstraints, Reads
  <2>2. PICK n, t : n = Len(v) /\ t = Head(left)
    OBVIOUS
  <2>3. /\ v # <<>> /\ n \in DOMAIN v /\ v[n] \in Table /\ v[n].name = t /\ t \in DOMAIN T
    BY <2>1, <2>2, EntryInHand
  <2>4. PICK st \in StoredTable : st = T[t]
    BY <1>2, <2>3
  <2>5. PICK e : e = [v[n] EXCEPT !.primaryKey = st.primaryKey, !.uniques = st.uniques,
                                  !.checks = st.checks]
    OBVIOUS
  <2>6. /\ e \in Table /\ e.name = v[n].name /\ e.columns = v[n].columns
        /\ e.primaryKey = st.primaryKey /\ e.uniques = st.uniques /\ e.checks = st.checks
    BY <2>3, <2>5 DEF Table, StoredTable
  <2>7. PICK w : w = WithLast(v, e)
    OBVIOUS
  <2>8. InHand(T, X, d, left, w) /\ w[Len(w)] = e
    BY <2>1, <2>2, <2>6, <2>7, InHandStays
  <2>9. KeysRead(T, e)
    BY <2>3, <2>4, <2>6 DEF KeysRead
  <2>10. w = [v EXCEPT ![n].primaryKey = st.primaryKey, ![n].uniques = st.uniques,
                       ![n].checks = st.checks]
    BY <2>2, <2>3, <2>5, <2>7 DEF WithLast
  <2>11. /\ pc'[p] = "introspectIndexes" /\ todo'[p] = left /\ asked'[p] = k
         /\ view'[p] = [v EXCEPT ![n].primaryKey = st.primaryKey, ![n].uniques = st.uniques,
                                 ![n].checks = st.checks]
    BY <1>1, <1>2, <1>5, <2>2, <2>4 DEF ReadConstraints
  <2>12. Reads(T, X, d, "introspectIndexes", left, w, k)
    BY <2>1, <2>8, <2>9 DEF Reads
  <2> QED
    BY <1>1, <2>10, <2>11, <2>12
<1>6. CASE TableVanished(p)
  <2>1. pc'[p] = "failed"
    BY <1>2, <1>6 DEF TableVanished
  <2> QED
    BY <2>1 DEF Reads
<1>7. CASE ReadIndexes(p)
  <2>1. k = 0 /\ InHand(T, X, d, left, v) /\ KeysRead(T, v[Len(v)])
    BY <1>2, <1>7 DEF ReadIndexes, Reads
  <2>2. PICK n, t, f : n = Len(v) /\ t = Head(left) /\ f = introspectIndexes(t)
    OBVIOUS
  <2>3. /\ v # <<>> /\ n \in DOMAIN v /\ v[n] \in Table /\ v[n].name = t
        /\ ColumnsRead(T, v[n])
    BY <2>1, <2>2, EntryInHand
  <2>4. f \in Seq(Index)
    BY <2>2, introspectIndexesType DEF TypeOK
  <2>5. PICK e : e = [v[n] EXCEPT !.indexes = f]
    OBVIOUS
  <2>6. /\ e \in Table /\ e.name = v[n].name /\ e.columns = v[n].columns /\ e.indexes = f
        /\ e.primaryKey = v[n].primaryKey /\ e.uniques = v[n].uniques /\ e.checks = v[n].checks
    BY <2>3, <2>4, <2>5 DEF Table
  <2>7. PICK w : w = WithLast(v, e)
    OBVIOUS
  <2>8. InHand(T, X, d, left, w) /\ w[Len(w)] = e
    BY <2>1, <2>2, <2>6, <2>7, InHandStays
  <2>9. ColumnsRead(T, e) /\ KeysRead(T, e)
    BY <2>1, <2>2, <2>3, <2>6 DEF KeysRead, ColumnsRead
  <2>10. IndexesRead(X, d, e, 0)
    BY <1>1, <2>2, <2>3, <2>6, IndexesFound
  <2>11. w = [v EXCEPT ![n].indexes = f]
    BY <2>2, <2>3, <2>5, <2>7 DEF WithLast
  <2>12. view'[p] = w
    BY <1>1, <1>2, <1>7, <2>2, <2>11 DEF ReadIndexes
  <2>13. CASE f = <<>>
    <3>1. pc'[p] = NextTable(Tail(left)) /\ todo'[p] = Tail(left) /\ asked'[p] = 0
      BY <1>1, <1>2, <1>7, <2>2, <2>13 DEF ReadIndexes, TableRead
    <3>2. TableIsRead(T, X, d, w[Len(w)])
      BY <2>6, <2>8, <2>9, <2>10, <2>13 DEF TableIsRead
    <3>3. Reads(T, X, d, NextTable(Tail(left)), Tail(left), w, 0)
      BY <2>8, <3>2, TableComplete
    <3> QED
      BY <1>1, <2>12, <3>1, <3>3
  <2>14. CASE f # <<>>
    <3>1. pc'[p] = "introspectIndexColumns" /\ todo'[p] = left /\ asked'[p] = 0
      BY <1>1, <1>2, <1>7, <2>1, <2>2, <2>14 DEF ReadIndexes
    <3>2. 0 \in 0..Len(f) - 1
      BY ONLY <2>4, <2>14
    <3>3. Reads(T, X, d, "introspectIndexColumns", left, w, 0)
      BY <2>6, <2>8, <2>9, <2>10, <3>2 DEF Reads
    <3> QED
      BY <1>1, <2>12, <3>1, <3>3
  <2> QED
    BY <2>13, <2>14
<1>8. CASE ReadIndexColumns(p)
  <2>1. PICK n, e, f : n = Len(v) /\ e = v[n] /\ f = e.indexes
    OBVIOUS
  <2>2. /\ InHand(T, X, d, left, v) /\ KeysRead(T, e)
        /\ IndexesRead(X, d, e, k) /\ k \in 0..Len(f) - 1
    BY <1>2, <1>8, <2>1 DEF ReadIndexColumns, Reads
  <2>3. v # <<>> /\ n \in DOMAIN v /\ e \in Table /\ ColumnsRead(T, e)
    BY <2>1, <2>2, EntryInHand
  <2>4. f \in Seq(Index) /\ k \in Nat /\ k + 1 \in DOMAIN f
    <3>1. f \in Seq(Index)
      BY <2>1, <2>3 DEF Table
    <3>2. k \in 0..Len(f) - 1
      BY <2>2
    <3> QED
      BY ONLY <3>1, <3>2
  <2>5. PICK c : c = introspectIndexColumns(f[k + 1].name)
    OBVIOUS
  <2>6. c \in Seq(STRING) /\ c = X[f[k + 1].name].columns \o X[f[k + 1].name].include
    <3>1. f[k + 1].name \in DOMAIN X
      BY <2>1, <2>2, <2>4 DEF IndexesRead
    <3>2. c \in Seq(STRING)
      BY <2>5, introspectIndexColumnsType DEF TypeOK
    <3> QED
      BY <1>1, <2>5, <3>1, <3>2 DEF introspectIndexColumns
  <2>7. PICK h : h = WithColumns(f, k + 1, c)
    OBVIOUS
  <2>8. h \in Seq(Index)
    <3>1. [f[k + 1] EXCEPT !.columns = c] \in Index
      <4>1. f[k + 1] \in Index
        BY <2>4
      <4> QED
        BY <2>6, <4>1 DEF Index
    <3> QED
      BY <2>4, <2>7, <3>1, ReplacedType DEF WithColumns
  <2>9. PICK g : g = [e EXCEPT !.indexes = h]
    OBVIOUS
  <2>10. /\ g \in Table /\ g.name = e.name /\ g.columns = e.columns /\ g.indexes = h
         /\ g.primaryKey = e.primaryKey /\ g.uniques = e.uniques /\ g.checks = e.checks
    BY <2>3, <2>8, <2>9 DEF Table
  <2>11. PICK w : w = WithLast(v, g)
    OBVIOUS
  <2>12. InHand(T, X, d, left, w) /\ w[Len(w)] = g
    BY <2>1, <2>2, <2>10, <2>11, InHandStays
  <2>13. ColumnsRead(T, g) /\ KeysRead(T, g)
    BY <2>2, <2>3, <2>10 DEF KeysRead, ColumnsRead
  <2>14. IndexesRead(X, d, g, k + 1) /\ Len(h) = Len(f)
    <3>1. e \in Table /\ IndexesRead(X, d, e, k) /\ k \in 0..Len(e.indexes) - 1
      BY <2>1, <2>2, <2>3
    <3>2. h = IndexRead(X, e, k)
      BY <2>1, <2>6, <2>7 DEF IndexRead, AllColumns
    <3>3. g.name = e.name /\ g.indexes = IndexRead(X, e, k)
      BY <2>10, <3>2
    <3>4. IndexesRead(X, d, g, k + 1) /\ Len(g.indexes) = Len(e.indexes)
      BY ONLY <3>1, <3>3, OneMoreIndex
    <3> QED
      BY <2>1, <2>10, <3>4
  <2>15. view'[p] = w
    <3>1. view'[p] = [v EXCEPT ![n].indexes[k + 1].columns = c]
      BY <1>1, <1>2, <1>8, <2>1, <2>5 DEF ReadIndexColumns
    <3>2. w = [v EXCEPT ![n].indexes[k + 1].columns = c]
      BY <2>1, <2>3, <2>7, <2>9, <2>11 DEF WithLast, WithColumns
    <3> QED
      BY <3>1, <3>2
  <2>16. CASE k + 1 = Len(f)
    <3>1. pc'[p] = NextTable(Tail(left)) /\ todo'[p] = Tail(left) /\ asked'[p] = 0
      BY <1>1, <1>2, <1>8, <2>1, <2>16 DEF ReadIndexColumns, TableRead
    <3>2. TableIsRead(T, X, d, w[Len(w)])
      BY <2>10, <2>12, <2>13, <2>14, <2>16 DEF TableIsRead
    <3>3. Reads(T, X, d, NextTable(Tail(left)), Tail(left), w, 0)
      BY <2>12, <3>2, TableComplete
    <3> QED
      BY <1>1, <2>15, <3>1, <3>3
  <2>17. CASE k + 1 # Len(f)
    <3>1. pc'[p] = "introspectIndexColumns" /\ todo'[p] = left /\ asked'[p] = k + 1
      BY <1>1, <1>2, <1>8, <2>1, <2>17 DEF ReadIndexColumns
    <3>2. k + 1 \in 0..Len(h) - 1
      <4>1. Len(h) = Len(f) /\ f \in Seq(Index) /\ k + 1 \in DOMAIN f
        BY <2>4, <2>14
      <4> QED
        BY ONLY <2>4, <2>17, <4>1
    <3>3. Reads(T, X, d, "introspectIndexColumns", left, w, k + 1)
      BY <2>10, <2>12, <2>13, <2>14, <3>2 DEF Reads
    <3> QED
      BY <1>1, <2>15, <3>1, <3>3
  <2> QED
    BY <2>16, <2>17
<1> QED
  BY <1>3, <1>4, <1>5, <1>6, <1>7, <1>8 DEF Introspection

-----------------------------------------------------------------------------
(* What else happens in the cluster: rows come, and builds end.            *)

\* Catalogs T, X and T1, X1 define the same; rows may have come, and builds may
\* have ended.
Alike(T, X, T1, X1) ==
  /\ DOMAIN T1 = DOMAIN T
  /\ DOMAIN X1 = DOMAIN X
  /\ \A t \in DOMAIN T :
       /\ T1[t].columns = T[t].columns
       /\ T1[t].primaryKey = T[t].primaryKey
       /\ T1[t].uniques = T[t].uniques
       /\ T1[t].checks = T[t].checks
  /\ \A n \in DOMAIN X :
       /\ X1[n].on = X[n].on
       /\ X1[n].columns = X[n].columns
       /\ X1[n].include = X[n].include
       /\ X1[n].unique = X[n].unique
       /\ X[n].state = "valid" => X1[n].state = "valid"

\* Such catalogs have the same indexes,
LEMMA AlikeIndexes ==
  ASSUME NEW T, NEW X, NEW T1, NEW X1, Alike(T, X, T1, X1), NEW d
  PROVE  /\ \A n, t, di : IsIndex(X, n, t, di) <=> IsIndex(X1, n, t, di)
         /\ \A n : Own(X, n, d) <=> Own(X1, n, d)
<1>1. \A n, t, di : IsIndex(X, n, t, di) <=> IsIndex(X1, n, t, di)
  BY DEF Alike, IsIndex
<1>2. \A n : Own(X, n, d) <=> Own(X1, n, d)
  BY <1>1 DEF Own
<1> QED
  BY <1>1, <1>2

\* are sound together,
LEMMA AlikeSound ==
  ASSUME NEW T, NEW X, NEW T1, NEW X1, Alike(T, X, T1, X1), NEW d, SoundCatalog(T, X, d)
  PROVE  SoundCatalog(T1, X1, d)
<1>1. \A t \in DOMAIN T : SoundTable(T1[t])
  BY DEF Alike, SoundCatalog, SoundTable
<1> QED
  BY <1>1, AlikeIndexes DEF Alike, SoundCatalog

\* have tables that are as wanted together,
LEMMA AlikeConforms ==
  ASSUME NEW T, NEW X, NEW T1, NEW X1, Alike(T, X, T1, X1), NEW t \in DOMAIN T, NEW dt, NEW L,
         Conforms(T[t], dt, L)
  PROVE  Conforms(T1[t], dt, L)
BY DEF Alike, Conforms, CheckKeys

\* fit the rest of a plan together,
LEMMA AlikeFits ==
  ASSUME NEW T, NEW X, NEW T1, NEW X1, Alike(T, X, T1, X1), NEW d, NEW L, Fits(T, X, d, L)
  PROVE  Fits(T1, X1, d, L)
<1>1. \A stmt \in L : Possible(T1, X1, d, stmt)
  <2> SUFFICES ASSUME NEW stmt \in L, Possible(T, X, d, stmt) PROVE Possible(T1, X1, d, stmt)
    BY DEF Fits
  <2>1. DOMAIN T1 = DOMAIN T /\ DOMAIN X1 = DOMAIN X
        /\ \A t \in DOMAIN T : T1[t].columns = T[t].columns
    BY DEF Alike
  <2> QED
    BY <2>1 DEF Possible
<1>2. \A dt \in ToSet(d) : CreateTable(dt) \in L \/ (dt.name \in DOMAIN T1 /\ Conforms(T1[dt.name], dt, L))
  <2> SUFFICES ASSUME NEW dt \in ToSet(d), CreateTable(dt) \notin L
               PROVE  dt.name \in DOMAIN T1 /\ Conforms(T1[dt.name], dt, L)
    OBVIOUS
  <2>1. dt.name \in DOMAIN T /\ Conforms(T[dt.name], dt, L)
    BY DEF Fits
  <2>2. Conforms(T1[dt.name], dt, L)
    BY <2>1, AlikeConforms
  <2> QED
    BY <2>1, <2>2 DEF Alike
<1>3. \A n \in DOMAIN X1 : Own(X1, n, d) \/ Dropping(n) \cap L # {} \/ DropTable(X1[n].on) \in L
  BY AlikeIndexes DEF Fits, Alike
<1>4. /\ \A t \in DOMAIN T1 : t \in Names(d) \/ DropTable(t) \in L
      /\ \A dt \in ToSet(d) : \A di \in ToSet(dt.indexes) :
           \/ Building(dt, di) \cap L # {}
           \/ IsIndex(X1, di.name, dt.name, di) /\ Dropping(di.name) \cap L = {}
  BY AlikeIndexes DEF Fits, Alike
<1> QED
  BY <1>1, <1>2, <1>3, <1>4 DEF Fits

\* are the schema together,
LEMMA AlikeMeets ==
  ASSUME NEW T, NEW X, NEW T1, NEW X1, Alike(T, X, T1, X1), NEW d, Meets(T, X, d)
  PROVE  Meets(T1, X1, d)
<1>1. \A dt \in ToSet(d) : dt.name \in DOMAIN T
  BY DEF Meets, Names, ToSet
<1> QED
  BY <1>1, AlikeConforms, AlikeIndexes DEF Meets, Alike

\* and what has been read of one has been read of the other.
LEMMA AlikeReads ==
  ASSUME NEW T, NEW X, NEW T1, NEW X1, Alike(T, X, T1, X1), NEW d,
         NEW where, NEW left, NEW v, NEW k, Reads(T, X, d, where, left, v, k)
  PROVE  Reads(T1, X1, d, where, left, v, k)
<1>1. \A e : ColumnsRead(T, e) => ColumnsRead(T1, e)
  BY DEF ColumnsRead, Alike
<1>2. \A e : ColumnsRead(T, e) /\ KeysRead(T, e) => KeysRead(T1, e)
  BY DEF ColumnsRead, KeysRead, Alike
<1>3. \A e, j : IndexesRead(X, d, e, j) => IndexesRead(X1, d, e, j)
  BY AlikeIndexes DEF IndexesRead, Alike
<1>4. \A e : TableIsRead(T, X, d, e) => TableIsRead(T1, X1, d, e)
  BY <1>1, <1>2, <1>3 DEF TableIsRead
<1>5. \A l, w, n : ReadSoFar(T, X, d, l, w, n) => ReadSoFar(T1, X1, d, l, w, n)
  BY <1>4 DEF ReadSoFar, Alike
<1>6. \A l, w : InHand(T, X, d, l, w) => InHand(T1, X1, d, l, w)
  BY <1>1, <1>5 DEF InHand
<1>7. InHand(T, X, d, left, v) /\ KeysRead(T, v[Len(v)]) => KeysRead(T1, v[Len(v)])
  BY <1>2 DEF InHand
<1> QED
  BY <1>3, <1>5, <1>6, <1>7 DEF Reads

\* What the cluster does by itself leaves the catalog alike.
LEMMA ClusterAlike ==
  ASSUME CatalogTypeOK,
         \/ \E n \in DOMAIN indexes : BuildIndex(n) \/ BuildBreaks(n)
         \/ \E t \in DOMAIN tables : InsertRow(t)
  PROVE  /\ Alike(tables, indexes, tables', indexes')
         /\ \A t \in DOMAIN tables : tables[t].rows => tables'[t].rows
         /\ ClusterStep
<1>1. /\ \A t \in DOMAIN tables : tables[t] \in StoredTable
      /\ \A n \in DOMAIN indexes : indexes[n] \in StoredIndex
  BY DEF CatalogTypeOK
<1>2. CASE \E n \in DOMAIN indexes : BuildIndex(n) \/ BuildBreaks(n)
  <2>1. PICK n \in DOMAIN indexes : BuildIndex(n) \/ BuildBreaks(n)
    BY <1>2
  <2>2. PICK s \in {"valid", "invalid"} : indexes' = [indexes EXCEPT ![n].state = s]
    BY <2>1 DEF BuildIndex, BuildBreaks, BuildSucceeds, BuildFails
  <2>3. indexes[n].state = "building" /\ tables' = tables /\ ClusterStep
    BY <2>1 DEF BuildIndex, BuildBreaks, BuildSucceeds, BuildFails
  <2>4. Alike(tables, indexes, tables', indexes')
    BY <1>1, <2>2, <2>3 DEF Alike, StoredIndex
  <2> QED
    BY <2>3, <2>4
<1>3. CASE \E t \in DOMAIN tables : InsertRow(t)
  <2>1. PICK t \in DOMAIN tables : InsertRow(t)
    BY <1>3
  <2>2. tables' = [tables EXCEPT ![t].rows = TRUE] /\ indexes' = indexes /\ ClusterStep
    BY <2>1 DEF InsertRow, Insert
  <2>3. Alike(tables, indexes, tables', indexes')
    BY <1>1, <2>2 DEF Alike, StoredTable
  <2>4. \A u \in DOMAIN tables : tables[u].rows => tables'[u].rows
    BY <1>1, <2>2 DEF StoredTable
  <2> QED
    BY <2>2, <2>3, <2>4
<1> QED
  BY <1>2, <1>3

\* The statements of a plan that are left after the first k.
Left(stmts, k) == {stmts[i] : i \in k + 1..Len(stmts)}

\* What is left is part of the plan, and it is nothing at the end.
LEMMA LeftIs ==
  ASSUME NEW s \in Seq(Statement)
  PROVE  Left(s, 0) = ToSet(s) /\ Left(s, Len(s)) = {}
<1>1. PICK n \in Nat : n = Len(s) /\ DOMAIN s = 1..n
  OBVIOUS
<1>2. 0 + 1..n = 1..n /\ n + 1..n = {}
  BY <1>1
<1> QED
  BY <1>1, <1>2 DEF Left, ToSet

\* Of a plan in order, the statement at hand comes before those after it.
LEMMA LeftFirst ==
  ASSUME NEW s \in Seq(Statement), Paired(Before, s), NEW k \in Nat, k < Len(s)
  PROVE  First(Left(s, k), s[k + 1], Left(s, k + 1))
<1>1. PICK n \in Nat : n = Len(s) /\ DOMAIN s = 1..n
  OBVIOUS
<1>2. /\ k + 1 \in k + 1..n /\ k + 1 \in 1..n
      /\ \A i \in (k + 1) + 1..n : i \in k + 1..n /\ i \in 1..n /\ k + 1 < i
      /\ \A i \in k + 1..n : i = k + 1 \/ i \in (k + 1) + 1..n
  BY <1>1
<1>3. s[k + 1] \in Left(s, k) /\ Left(s, k + 1) \subseteq Left(s, k)
  BY <1>1, <1>2 DEF Left
<1>4. Left(s, k) \subseteq Left(s, k + 1) \cup {s[k + 1]}
  BY <1>1, <1>2 DEF Left
<1>5. \A u \in Left(s, k + 1) : <<s[k + 1], u>> \in Before
  BY <1>1, <1>2 DEF Left, Paired
<1> QED
  BY <1>3, <1>4, <1>5 DEF First

-----------------------------------------------------------------------------
(* The invariant of an operator that has the cluster to itself.            *)

\* The cluster is changed by one operator only, and by no other.
Lone == MaxRetries \in Nat /\ WellPosed /\ \E p : Operators = {p}

\* What is left of the plan fits the catalog, and before there is a plan, what
\* has been read of the catalog is what is there.
OwnRun(p) ==
  /\ SoundCatalog(tables, indexes, desired[p])
  /\ Reads(tables, indexes, desired[p], pc[p], todo[p], view[p], asked[p])
  /\ pc[p] \in Deciding \cup Executing =>
       /\ Paired(Before, plan[p])
       /\ Fits(tables, indexes, desired[p], Left(plan[p], pos[p]))
  /\ Settled(p) => Meets(tables, indexes, desired[p])
  /\ error[p] = "refused" => pc[p] = "failed" /\ Explained(plan[p][pos[p] + 1])

\* Of every operator there is.
LoneInv ==
  /\ DOMAIN todo = Operators /\ DOMAIN asked = Operators
  /\ \A p \in Operators : OwnRun(p)

\* Before and after the introspection there is nothing to be read.
LEMMA NotReading ==
  ASSUME NEW where, where \notin Reading \ {"listTables"}
  PROVE  \A T, X, d, left, v, k : Reads(T, X, d, where, left, v, k)
BY DEF Reads, Reading

\* What an operator wants is a schema that a run is made for.
LEMMA DesiredDesirable ==
  ASSUME TypeOK, WellPosed, NEW p \in Operators
  PROVE  Desirable(desired[p])
BY ApplyAssumption DEF TypeOK, WellPosed, Desirable

\* The catalog as it is, well typed.
LEMMA CatalogNow ==
  ASSUME CatalogTypeOK
  PROVE  CatalogIs(tables, indexes)
BY DEF CatalogTypeOK, CatalogIs

\* It holds before the first run.
LEMMA InitLone ==
  ASSUME Init, WellPosed
  PROVE  LoneInv
<1> SUFFICES ASSUME NEW p \in Operators PROVE OwnRun(p)
  BY DEF Init, LoneInv
<1>1. pc[p] = "idle" /\ error[p] = ""
  BY DEF Init
<1>2. SoundCatalog(tables, indexes, desired[p])
  BY DEF Init, WellPosed
<1>3. Reads(tables, indexes, desired[p], pc[p], todo[p], view[p], asked[p])
  BY <1>1, NotReading DEF Reading
<1> QED
  BY <1>1, <1>2, <1>3 DEF OwnRun, Deciding, Executing, Settled

\* The plan that has just been made.
LEMMA DiffRun ==
  ASSUME TypeOK, NEW p \in Operators, OwnRun(p), Desirable(desired[p]), DiffSchemas(p)
  PROVE  /\ pc'[p] \in Deciding =>
              /\ Paired(Before, plan'[p])
              /\ Fits(tables, indexes, desired[p], Left(plan'[p], 0))
         /\ pc'[p] = "upToDate" => Meets(tables, indexes, desired[p])
         /\ pc'[p] \in {"failed", "upToDate", "CheckHazards"}
         /\ error'[p] \in {"diff", error[p]}
<1>1. PICK T, X, d, v : T = tables /\ X = indexes /\ d = desired[p] /\ v = view[p]
  OBVIOUS
<1>2. /\ CatalogIs(T, X) /\ SoundCatalog(T, X, d) /\ Desirable(d)
      /\ DOMAIN pc = Operators /\ DOMAIN plan = Operators /\ DOMAIN error = Operators
  BY <1>1, CatalogNow DEF TypeOK, OwnRun
<1>3. ReadOnce(T, X, d, v)
  <2>1. ReadSoFar(T, X, d, <<>>, v, Len(v))
    BY <1>1 DEF OwnRun, Reads, DiffSchemas
  <2> QED
    BY <2>1, AllRead
<1>4. CASE DiffFails(v, d)
  BY <1>1, <1>2, <1>4 DEF DiffSchemas, Fail, Deciding
<1>5. CASE ~DiffFails(v, d)
  <2>1. PICK stmts \in Diff(v, d) :
          /\ plan'[p] = stmts
          /\ pc'[p] = IF stmts = <<>> THEN "upToDate" ELSE "CheckHazards"
    BY <1>1, <1>2, <1>5 DEF DiffSchemas
  <2>2. error' = error
    BY <1>1, <1>5 DEF DiffSchemas
  <2>3. v \in Seq(Table) /\ d \in Seq(Table) /\ WellFormed(d) /\ Readable(v)
    BY <1>2, <1>3, ReadIsReadable DEF ReadOnce, SchemaIsRead, Desirable
  <2>4. PICK L : L = PlanOf(v, d)
    OBVIOUS
  <2>5. ToSet(stmts) = L /\ Paired(Before, stmts)
    BY <2>3, <2>4, DiffInOrder
  <2>6. Fits(T, X, d, L)
    BY <1>2, <1>3, <1>5, <2>4, DiffFits
  <2>7. stmts \in Seq(Statement)
    BY <2>3, DiffDropsOnlyUndesired
  <2>8. Left(stmts, 0) = L
    BY <2>5, <2>7, LeftIs
  <2>9. CASE stmts = <<>>
    <3>1. L = {}
      BY <2>5, <2>9 DEF ToSet
    <3>2. Ready(T, X, d, {})
      BY <1>2, <2>6, <3>1 DEF Ready
    <3>3. Meets(T, X, d)
      BY <1>2, <3>2, NothingLeft
    <3> QED
      BY <1>1, <2>1, <2>2, <2>9, <3>3 DEF Deciding
  <2>10. CASE stmts # <<>>
    BY <1>1, <2>1, <2>2, <2>5, <2>6, <2>8, <2>10
  <2> QED
    BY <2>9, <2>10
<1> QED
  BY <1>4, <1>5

\* The next statement of the plan commits.
LEMMA CommitRun ==
  ASSUME TypeOK, NEW p \in Operators, OwnRun(p), Desirable(desired[p]), Sending(p), Commit(p)
  PROVE  /\ SoundCatalog(tables', indexes', desired[p])
         /\ Fits(tables', indexes', desired[p], Left(plan[p], pos[p] + 1))
<1>1. PICK s \in Seq(Statement) : s = plan[p]
  BY DEF TypeOK
<1>2. PICK k \in Nat : k = pos[p]
  BY DEF TypeOK
<1>3. PICK d : d = desired[p]
  OBVIOUS
<1>4. /\ k < Len(s) /\ Paired(Before, s) /\ Fits(tables, indexes, d, Left(s, k))
      /\ SoundCatalog(tables, indexes, d) /\ Desirable(d)
  BY <1>1, <1>2, <1>3 DEF OwnRun, Sending, Executing
<1>5. PICK L, rest, stmt : L = Left(s, k) /\ rest = Left(s, k + 1) /\ stmt = s[k + 1]
  OBVIOUS
<1>6. First(L, stmt, rest)
  BY <1>4, <1>5, LeftFirst
<1>7. Ready(tables, indexes, d, L)
  BY <1>4, <1>5, CatalogNow DEF Ready, TypeOK
<1>8. ApplyDDL(stmt)
  BY <1>1, <1>2, <1>5 DEF Commit, Current
<1>9. Ready(tables', indexes', d, rest)
  BY <1>4, <1>6, <1>7, <1>8, CommitFits
<1> QED
  BY <1>1, <1>2, <1>3, <1>5, <1>9 DEF Ready

\* The next statement of the plan is refused.
LEMMA RefusedRun ==
  ASSUME TypeOK, NEW p \in Operators, OwnRun(p), Desirable(desired[p]), Sending(p),
         Refused(Current(p))
  PROVE  Explained(plan[p][pos[p] + 1])
<1>1. PICK s \in Seq(Statement) : s = plan[p]
  BY DEF TypeOK
<1>2. PICK k \in Nat : k = pos[p]
  BY DEF TypeOK
<1>3. PICK d : d = desired[p]
  OBVIOUS
<1>4. /\ k < Len(s) /\ Paired(Before, s) /\ Fits(tables, indexes, d, Left(s, k))
      /\ SoundCatalog(tables, indexes, d) /\ Desirable(d)
  BY <1>1, <1>2, <1>3 DEF OwnRun, Sending, Executing
<1>5. PICK L, rest, stmt : L = Left(s, k) /\ rest = Left(s, k + 1) /\ stmt = s[k + 1]
  OBVIOUS
<1>6. First(L, stmt, rest)
  BY <1>4, <1>5, LeftFirst
<1>7. Ready(tables, indexes, d, L)
  BY <1>4, <1>5, CatalogNow DEF Ready, TypeOK
<1>8. Refused(stmt)
  BY <1>1, <1>2, <1>5 DEF Current
<1>9. Explained(stmt)
  BY <1>4, <1>6, <1>7, <1>8, RefusalExplained
<1> QED
  BY <1>1, <1>2, <1>5, <1>9

\* A step that leaves the catalog alone and touches neither the plan nor what
\* has been read of the catalog.
LEMMA MovedOn ==
  ASSUME TypeOK, NEW p \in Operators, OwnRun(p), UNCHANGED <<tables, indexes, desired, plan, pos>>,
         NEW to, pc'[p] = to,
         to \in Deciding \cup Executing => pc[p] \in Deciding \cup Executing,
         to \notin Reading, to \in {"applied", "upToDate"} => Meets(tables, indexes, desired[p]),
         error'[p] # "refused"
  PROVE  OwnRun(p)'
<1>1. Reads(tables', indexes', desired'[p], pc'[p], todo'[p], view'[p], asked'[p])
  BY NotReading
<1>2. SoundCatalog(tables', indexes', desired'[p])
  BY DEF OwnRun
<1>3. pc'[p] \in Deciding \cup Executing =>
       /\ Paired(Before, plan'[p])
       /\ Fits(tables', indexes', desired'[p], Left(plan'[p], pos'[p]))
  BY DEF OwnRun
<1>4. Settled(p)' => Meets(tables', indexes', desired'[p])
  BY DEF Settled
<1> QED
  BY <1>1, <1>2, <1>3, <1>4 DEF OwnRun

\* Every step of the operator keeps it.
LEMMA OwnStep ==
  ASSUME MaxRetries \in Nat, TypeOK, RunInv, DOMAIN todo = Operators, DOMAIN asked = Operators,
         NEW p \in Operators, OwnRun(p), Desirable(desired[p]), UNCHANGED desired,
         Start(p) \/ Proceed(p) \/ Decline(p) \/ AnswerLost(p) \/ Crash(p)
  PROVE  OwnRun(p)' /\ DOMAIN todo' = Operators /\ DOMAIN asked' = Operators
<1>a. /\ pc \in [Operators -> Ended \cup Reading \cup Deciding \cup Executing]
      /\ error \in [Operators -> Errors]
      /\ plan \in [Operators -> Seq(Statement)]
      /\ pos \in [Operators -> Nat]
  BY DEF TypeOK
<1>b. pc[p] # "failed" => error[p] # "refused"
  BY DEF OwnRun
<1>c. ~Start(p) => UNCHANGED <<todo, asked>> \/ Introspection(p)
  BY DEF Proceed, Execution, DiffSchemas, CheckHazards, Confirm, Decline, Choosing,
         StatementSucceeds, StatementRefused, StatementConflicts, Retry, Finish, AnswerLost,
         Crash, Running, introspectVars
<1>d. DOMAIN todo' = Operators /\ DOMAIN asked' = Operators
  <2>1. CASE Start(p)
    BY <2>1 DEF Start, introspectVars
  <2>2. CASE Introspection(p)
    BY <2>2 DEF Introspection, ListTables, ReadColumns, ReadConstraints, TableVanished,
                ReadIndexes, ReadIndexColumns, TableRead, introspectVars
  <2> QED
    BY <1>c, <2>1, <2>2
<1>1. CASE Start(p)
  <2>1. pc'[p] = "listTables" /\ error'[p] = ""
    BY <1>1, <1>a DEF Start
  <2>2. UNCHANGED <<tables, indexes>>
    BY <1>1 DEF Start, dbVars
  <2>3. Reads(tables', indexes', desired'[p], pc'[p], todo'[p], view'[p], asked'[p])
    BY <2>1, NotReading DEF Reading
  <2>4. SoundCatalog(tables', indexes', desired'[p])
    BY <2>2 DEF OwnRun
  <2> QED
    BY <1>d, <2>1, <2>3, <2>4 DEF OwnRun, Deciding, Executing, Settled
<1>2. CASE Introspection(p)
  <2>1. UNCHANGED <<tables, indexes>>
    BY <1>2 DEF Introspection, ListTables, ReadColumns, ReadConstraints, TableVanished,
                ReadIndexes, ReadIndexColumns, Introspecting, dbVars
  <2>2. error'[p] # "refused"
    <3>1. pc[p] # "failed"
      BY <1>2, IntrospectionStep DEF Reading
    <3>2. error' = error \/ error' = [error EXCEPT ![p] = "introspect"]
      BY <1>2 DEF Introspection, ListTables, ReadColumns, ReadConstraints, TableVanished,
                  ReadIndexes, ReadIndexColumns, Fail
    <3> QED
      BY <1>a, <1>b, <3>1, <3>2
  <2>3. pc'[p] \in Reading \cup {"failed"}
    BY <1>2, <1>a, IntrospectionStep
  <2>4. Reads(tables, indexes, desired[p], pc'[p], todo'[p], view'[p], asked'[p])
    BY <1>2, ReadingGoesOn DEF OwnRun
  <2>5. SoundCatalog(tables', indexes', desired'[p])
    BY <2>1 DEF OwnRun
  <2> QED
    BY <1>d, <2>1, <2>2, <2>3, <2>4, <2>5 DEF OwnRun, Reading, Deciding, Executing, Settled
<1>3. CASE DiffSchemas(p)
  <2>1. UNCHANGED <<tables, indexes, pos>> /\ pc[p] = "Diff"
    BY <1>3 DEF DiffSchemas, Choosing, dbVars
  <2>2. /\ pc'[p] \in Deciding =>
             /\ Paired(Before, plan'[p])
             /\ Fits(tables, indexes, desired[p], Left(plan'[p], 0))
        /\ pc'[p] = "upToDate" => Meets(tables, indexes, desired[p])
        /\ pc'[p] \in {"failed", "upToDate", "CheckHazards"}
        /\ error'[p] \in {"diff", error[p]}
    BY <1>3, DiffRun
  <2>3. pos[p] = 0
    BY <2>1 DEF RunInv, Reading
  <2>4. Reads(tables', indexes', desired'[p], pc'[p], todo'[p], view'[p], asked'[p])
    BY <2>2, NotReading DEF Reading
  <2>5. SoundCatalog(tables', indexes', desired'[p])
    BY <2>1 DEF OwnRun
  <2>6. error'[p] # "refused"
    BY <1>b, <2>1, <2>2
  <2>7. pc'[p] \in Deciding \cup Executing => pc'[p] \in Deciding
    BY <2>2 DEF Deciding, Executing
  <2>8. Fits(tables, indexes, desired[p], Left(plan'[p], 0)) =>
          Fits(tables', indexes', desired'[p], Left(plan'[p], pos'[p]))
    BY <2>1, <2>3
  <2>9. Settled(p)' => Meets(tables', indexes', desired'[p])
    BY <2>1, <2>2 DEF Settled
  <2> QED
    BY <1>d, <2>2, <2>4, <2>5, <2>6, <2>7, <2>8, <2>9 DEF OwnRun
<1>4. CASE CheckHazards(p) \/ Confirm(p) \/ Decline(p)
  <2>1. UNCHANGED <<tables, indexes, plan, pos, error>>
    BY <1>4 DEF CheckHazards, Confirm, Decline, Choosing, dbVars
  <2>2. PICK to \in {"confirm", "blocked", "Execute", "cancelled"} :
          pc[p] \in Deciding /\ pc'[p] = to
    BY <1>4, <1>a DEF CheckHazards, Confirm, Decline, Goto, Deciding
  <2>3. error'[p] # "refused"
    BY <1>b, <2>1, <2>2 DEF Deciding
  <2>4. to \notin Reading /\ to \notin {"applied", "upToDate"}
    BY DEF Reading
  <2>5. OwnRun(p)'
    BY <2>1, <2>2, <2>3, <2>4, MovedOn
  <2> QED
    BY <1>d, <2>5
<1>5. CASE StatementSucceeds(p)
  <2>1. Sending(p) /\ Commit(p)
    BY <1>5 DEF StatementSucceeds, Sending, RunInv, Executing
  <2>2. /\ UNCHANGED <<pc, error, plan>> /\ pos'[p] = pos[p] + 1 /\ pc[p] = "Execute"
    BY <1>5, <1>a DEF StatementSucceeds, Running, Completed
  <2>3. /\ SoundCatalog(tables', indexes', desired[p])
        /\ Fits(tables', indexes', desired[p], Left(plan[p], pos[p] + 1))
    BY <2>1, CommitRun
  <2>4. Paired(Before, plan[p])
    BY <2>2 DEF OwnRun, Executing
  <2>5. Reads(tables', indexes', desired'[p], pc'[p], todo'[p], view'[p], asked'[p])
    BY <2>2, NotReading DEF Reading
  <2>6. error'[p] # "refused"
    BY <1>b, <2>2
  <2>7. Fits(tables', indexes', desired'[p], Left(plan'[p], pos'[p]))
    BY <2>2, <2>3
  <2> QED
    BY <1>d, <2>2, <2>3, <2>4, <2>5, <2>6, <2>7 DEF OwnRun, Settled
<1>6. CASE StatementRefused(p)
  <2>1. Sending(p) /\ Refused(Current(p))
    BY <1>6 DEF StatementRefused
  <2>2. UNCHANGED <<tables, indexes, plan, pos>> /\ pc'[p] = "failed"
    BY <1>6, <1>a DEF StatementRefused, Running, dbVars
  <2>3. PICK stmt : stmt = plan[p][pos[p] + 1]
    OBVIOUS
  <2>4. Explained(stmt)
    BY <2>1, <2>3, RefusedRun
  <2>5. Explained(stmt)'
    BY <2>2, <2>4 DEF Explained, Unfillable, SameIndex, IsIndex
  <2>6. stmt = plan'[p][pos'[p] + 1]
    BY <2>2, <2>3
  <2>7. Explained(plan[p][pos[p] + 1])'
    BY <2>5, <2>6
  <2>8. Reads(tables', indexes', desired'[p], pc'[p], todo'[p], view'[p], asked'[p])
    BY <2>2, NotReading DEF Reading
  <2>9. SoundCatalog(tables', indexes', desired'[p])
    BY <2>2 DEF OwnRun
  <2> QED
    BY <1>d, <2>2, <2>7, <2>8, <2>9 DEF OwnRun, Deciding, Executing, Settled
<1>7. CASE StatementConflicts(p) \/ Retry(p)
  <2>1. UNCHANGED <<tables, indexes, plan, pos>>
    BY <1>7 DEF StatementConflicts, Retry, Running, dbVars
  <2>2. PICK to \in {"backoff", "failed", "Execute"} : pc[p] \in Executing /\ pc'[p] = to
    BY <1>7, <1>a DEF StatementConflicts, Retry, Sending, Goto, Executing
  <2>3. error'[p] \in {error[p], "conflict"}
    BY <1>7, <1>a DEF StatementConflicts, Retry, Fail
  <2>4. error'[p] # "refused"
    BY <1>b, <2>2, <2>3 DEF Executing
  <2>5. to \notin Reading /\ to \notin {"applied", "upToDate"}
    BY DEF Reading
  <2>6. OwnRun(p)'
    BY <2>1, <2>2, <2>4, <2>5, MovedOn
  <2> QED
    BY <1>d, <2>6
<1>8. CASE Finish(p)
  <2>1. UNCHANGED <<tables, indexes, plan, pos, error>>
    BY <1>8 DEF Finish, Running, dbVars
  <2>2. pc[p] = "Execute" /\ pc'[p] = "applied" /\ pos[p] = Len(plan[p])
    BY <1>8, <1>a DEF Finish, Goto
  <2>3. PICK T, X, d : T = tables /\ X = indexes /\ d = desired[p]
    OBVIOUS
  <2>4. PICK L : L = Left(plan[p], pos[p])
    OBVIOUS
  <2>5. L = {}
    <3>1. PICK s \in Seq(Statement) : s = plan[p]
      BY <1>a
    <3> QED
      BY <2>2, <2>4, <3>1, LeftIs
  <2>6. Ready(T, X, d, {})
    BY <2>2, <2>3, <2>4, <2>5, CatalogNow DEF OwnRun, Executing, Ready, TypeOK
  <2>7. Meets(T, X, d)
    BY <2>3, <2>6, NothingLeft
  <2>8. error'[p] # "refused"
    BY <1>b, <2>1, <2>2
  <2>9. "applied" \notin Reading /\ "applied" \notin Deciding \cup Executing
    BY DEF Reading, Deciding, Executing
  <2>10. OwnRun(p)'
    BY <2>1, <2>2, <2>3, <2>7, <2>8, <2>9, MovedOn
  <2> QED
    BY <1>d, <2>10
<1>9. CASE AnswerLost(p) \/ Crash(p)
  <2>1. pc'[p] \in {"failed", "crashed"} /\ pc[p] \notin Ended
    BY <1>9, <1>a DEF AnswerLost, Crash, Sending, Ended
  <2>2. error'[p] # "refused"
    <3>1. error'[p] \in {error[p], "answer lost"}
      BY <1>9, <1>a DEF AnswerLost, Crash, Fail
    <3> QED
      BY <1>b, <2>1, <3>1 DEF Ended
  <2>3. SoundCatalog(tables', indexes', desired'[p])
    <3>1. CASE UNCHANGED dbVars
      BY <3>1 DEF OwnRun, dbVars
    <3>2. CASE Sending(p) /\ Commit(p)
      BY <3>2, CommitRun
    <3> QED
      BY <1>9, <3>1, <3>2 DEF AnswerLost, Crash
  <2>4. Reads(tables', indexes', desired'[p], pc'[p], todo'[p], view'[p], asked'[p])
    BY <2>1, NotReading DEF Reading
  <2> QED
    BY <1>d, <2>1, <2>2, <2>3, <2>4 DEF OwnRun, Deciding, Executing, Settled
<1> QED
  BY <1>1, <1>2, <1>3, <1>4, <1>5, <1>6, <1>7, <1>8, <1>9 DEF Proceed, Execution

\* A refusal stays explained: rows only come, and definitions stay.
LEMMA StillExplained ==
  ASSUME Alike(tables, indexes, tables', indexes'),
         \A t \in DOMAIN tables : tables[t].rows => tables'[t].rows,
         NEW stmt, Explained(stmt)
  PROVE  Explained(stmt)'
<1>1. SameIndex(stmt.name, stmt.on, stmt.index) => SameIndex(stmt.name, stmt.on, stmt.index)'
  BY DEF SameIndex, IsIndex, Alike
<1>2. stmt.name \in DOMAIN tables /\ Unfillable(stmt.name, stmt.column)
        => stmt.name \in DOMAIN tables' /\ Unfillable(stmt.name, stmt.column)'
  BY DEF Unfillable, Alike
<1> QED
  BY <1>1, <1>2 DEF Explained

\* So does every step of the cluster.
LEMMA ClusterRun ==
  ASSUME TypeOK, NEW p \in Operators, OwnRun(p), UNCHANGED desired,
         \/ \E n \in DOMAIN indexes : BuildIndex(n) \/ BuildBreaks(n)
         \/ \E t \in DOMAIN tables : InsertRow(t)
  PROVE  OwnRun(p)' /\ UNCHANGED <<todo, asked>>
<1>1. /\ Alike(tables, indexes, tables', indexes')
      /\ \A t \in DOMAIN tables : tables[t].rows => tables'[t].rows
      /\ ClusterStep
  BY ClusterAlike DEF TypeOK
<1>2. UNCHANGED <<pc, error, todo, view, asked, plan, pos>>
  BY <1>1 DEF ClusterStep, introspectVars, runnerVars
<1>3. PICK T, X, T1, X1 : T = tables /\ X = indexes /\ T1 = tables' /\ X1 = indexes'
  OBVIOUS
<1>4. PICK d, where, left, v, k : /\ d = desired[p] /\ where = pc[p] /\ left = todo[p]
                                  /\ v = view[p] /\ k = asked[p]
  OBVIOUS
<1>5. Alike(T, X, T1, X1)
  BY <1>1, <1>3
<1>6. SoundCatalog(T1, X1, d)
  <2>1. SoundCatalog(T, X, d)
    BY <1>3, <1>4 DEF OwnRun
  <2> QED
    BY <1>5, <2>1, AlikeSound
<1>7. Reads(T1, X1, d, where, left, v, k)
  <2>1. Reads(T, X, d, where, left, v, k)
    BY <1>3, <1>4 DEF OwnRun
  <2> QED
    BY <1>5, <2>1, AlikeReads
<1>8. PICK L : L = Left(plan[p], pos[p])
  OBVIOUS
<1>9. pc[p] \in Deciding \cup Executing => Paired(Before, plan[p]) /\ Fits(T1, X1, d, L)
  <2>1. pc[p] \in Deciding \cup Executing => Paired(Before, plan[p]) /\ Fits(T, X, d, L)
    BY <1>3, <1>4, <1>8 DEF OwnRun
  <2> QED
    BY <1>5, <2>1, AlikeFits
<1>10. Settled(p) => Meets(T1, X1, d)
  <2>1. Settled(p) => Meets(T, X, d)
    BY <1>3, <1>4 DEF OwnRun
  <2> QED
    BY <1>5, <2>1, AlikeMeets
<1>11. PICK stmt : stmt = plan[p][pos[p] + 1]
  OBVIOUS
<1>12. error[p] = "refused" => pc[p] = "failed" /\ Explained(stmt)'
  <2>1. error[p] = "refused" => pc[p] = "failed" /\ Explained(stmt)
    BY <1>11 DEF OwnRun
  <2> QED
    BY <1>1, <2>1, StillExplained
<1>13. (error[p] = "refused")' => (pc[p] = "failed")' /\ Explained(plan[p][pos[p] + 1])'
  <2>1. stmt = plan'[p][pos'[p] + 1]
    BY <1>2, <1>11
  <2> QED
    BY <1>2, <1>12, <2>1
<1>14. SoundCatalog(tables', indexes', desired'[p])
  BY <1>3, <1>4, <1>6
<1>15. Reads(tables', indexes', desired'[p], pc'[p], todo'[p], view'[p], asked'[p])
  BY <1>2, <1>3, <1>4, <1>7
<1>16. pc'[p] \in Deciding \cup Executing =>
       /\ Paired(Before, plan'[p])
       /\ Fits(tables', indexes', desired'[p], Left(plan'[p], pos'[p]))
  BY <1>2, <1>3, <1>4, <1>8, <1>9
<1>17. Settled(p)' => Meets(tables', indexes', desired'[p])
  BY <1>2, <1>3, <1>4, <1>10 DEF Settled
<1> QED
  BY <1>2, <1>13, <1>14, <1>15, <1>16, <1>17 DEF OwnRun

\* So does every step.
LEMMA NextLone ==
  ASSUME Lone, TypeOK, RunInv, LoneInv, [Next]_vars
  PROVE  LoneInv'
<1>1. PICK p : Operators = {p}
  BY DEF Lone
<1>2. /\ p \in Operators /\ OwnRun(p) /\ UNCHANGED desired /\ Desirable(desired[p])
      /\ MaxRetries \in Nat /\ DOMAIN todo = Operators /\ DOMAIN asked = Operators
  BY <1>1, SameDesires, DesiredDesirable DEF Lone, LoneInv
<1>3. CASE Start(p) \/ Proceed(p) \/ Decline(p) \/ AnswerLost(p) \/ Crash(p)
  <2>1. OwnRun(p)' /\ DOMAIN todo' = Operators /\ DOMAIN asked' = Operators
    BY <1>2, <1>3, OwnStep
  <2> QED
    BY <1>1, <2>1 DEF LoneInv
<1>4. CASE \/ \E n \in DOMAIN indexes : BuildIndex(n) \/ BuildBreaks(n)
           \/ \E t \in DOMAIN tables : InsertRow(t)
  <2>1. OwnRun(p)' /\ UNCHANGED <<todo, asked>>
    BY <1>2, <1>4, ClusterRun
  <2> QED
    BY <1>1, <1>2, <2>1 DEF LoneInv
<1>5. CASE UNCHANGED vars
  <2>1. /\ UNCHANGED <<tables, indexes>> /\ UNCHANGED <<desired, pc, error, todo, view, asked>>
        /\ UNCHANGED <<plan, pos>>
    BY <1>5 DEF vars, dbVars, configVars, introspectVars, runnerVars
  <2>2. OwnRun(p)'
    <3>1. PICK stmt : stmt = plan[p][pos[p] + 1]
      OBVIOUS
    <3>2. Explained(stmt) => Explained(stmt)'
      BY <2>1 DEF Explained, Unfillable, SameIndex, IsIndex
    <3>3. stmt = plan'[p][pos'[p] + 1]
      BY <2>1, <3>1
    <3>4. error[p] = "refused" => Explained(plan[p][pos[p] + 1])'
      BY <1>2, <3>1, <3>2, <3>3 DEF OwnRun
    <3> QED
      BY <1>2, <2>1, <3>4 DEF OwnRun, Settled
  <2> QED
    BY <1>1, <1>2, <2>1, <2>2 DEF LoneInv
<1> QED
  BY <1>1, <1>3, <1>4, <1>5 DEF Next

\* It implies that refusals are explained,
LEMMA LoneOrder ==
  ASSUME LoneInv
  PROVE  OrderIsSound
<1> SUFFICES ASSUME NEW p \in Operators, error[p] = "refused", NEW stmt, stmt = plan[p][pos[p] + 1]
             PROVE  \/ stmt.op = "AddColumn" /\ Unfillable(stmt.name, stmt.column)
                    \/ stmt.op = "CreateIndex" /\ SameIndex(stmt.name, stmt.on, stmt.index)
  BY DEF OrderIsSound
<1>1. Explained(stmt)
  BY DEF LoneInv, OwnRun
<1> QED
  BY <1>1 DEF Explained

\* and that settled runs leave the desired schema.
LEMMA LoneSettled ==
  ASSUME LoneInv
  PROVE  SettledMatches
BY MeetsIsMatches DEF LoneInv, OwnRun, SettledMatches

\* An operator that has the cluster to itself, with schema files that define
\* nothing twice: whatever crashes, answers lost and index builds came before,
\* the cluster refuses a statement of its plan only for an index that is being
\* built already or a NOT NULL column the rows have no value for (diff.go Diff,
\* the order of the categories; runner.go Execute).
THEOREM LonePlansAreSound == Lone /\ Spec => []OrderIsSound
<1>1. Lone /\ Init => LoneInv
  BY InitLone DEF Lone
<1>2. Lone /\ TypeOK /\ RunInv /\ [Next]_vars => RunInv'
  BY NextRun DEF Lone
<1>3. Lone /\ TypeOK /\ RunInv /\ LoneInv /\ [Next]_vars => LoneInv'
  BY NextLone
<1>4. Lone => []Lone
  OBVIOUS
<1>5. LoneInv => OrderIsSound
  BY LoneOrder
<1> QED
  BY <1>1, <1>2, <1>3, <1>4, <1>5, InitType, NextType, InitRun, PTL DEF Spec

\* The same operator: when its run ends in "applied successfully" or "up to
\* date", and until it starts another, the catalog is its schema.
THEOREM LoneRunsSettle == Lone /\ Spec => []SettledMatches
<1>1. Lone /\ Init => LoneInv
  BY InitLone DEF Lone
<1>2. Lone /\ TypeOK /\ RunInv /\ [Next]_vars => RunInv'
  BY NextRun DEF Lone
<1>3. Lone /\ TypeOK /\ RunInv /\ LoneInv /\ [Next]_vars => LoneInv'
  BY NextLone
<1>4. Lone => []Lone
  OBVIOUS
<1>5. LoneInv => SettledMatches
  BY LoneSettled
<1> QED
  BY <1>1, <1>2, <1>3, <1>4, <1>5, InitType, NextType, InitRun, PTL DEF Spec

-----------------------------------------------------------------------------
(* A catalog that is the schema, all its indexes built, needs no plan.     *)

\* The comparison form of a type is its own comparison form.
LEMMA NormalizedOnce ==
  ASSUME NEW t \in Type
  PROVE  NormalizeType(NormalizeType(t)) = NormalizeType(t)
<1>1. \A a \in DOMAIN typeAliases : typeAliases[a] \notin DOMAIN typeAliases
  BY DEF typeAliases
<1>2. CASE t.size = 0 /\ t.name \in DOMAIN typeAliases
  <2>1. PICK n : n = typeAliases[t.name]
    OBVIOUS
  <2>2. PICK u : u = [t EXCEPT !.name = n]
    OBVIOUS
  <2>3. u.size = 0 /\ u.name = n /\ n \notin DOMAIN typeAliases
    BY <1>1, <1>2, <2>1, <2>2 DEF Type
  <2>4. NormalizeType(t) = u /\ NormalizeType(u) = u
    BY <1>2, <2>1, <2>2, <2>3 DEF NormalizeType
  <2> QED
    BY <2>4
<1>3. CASE t.size # 0
  <2>1. \A n : [t EXCEPT !.name = n].size # 0 /\ [t EXCEPT !.name = n].name = n
    BY <1>3 DEF Type
  <2> QED
    BY <1>3, <2>1 DEF NormalizeType
<1>4. CASE t.size = 0 /\ t.name \notin DOMAIN typeAliases
  BY <1>4 DEF NormalizeType
<1> QED
  BY <1>2, <1>3, <1>4

\* What the catalog prints of a column compares equal to its definition.
ColumnRoundTrips(dc, pk) ==
  /\ NormalizeType(format_type(dc.type)) = NormalizeType(dc.type)
  /\ dc.nullable = Stored(dc, pk).nullable

\* A column that is as wanted is found unchanged by Diff.
LEMMA WantedIsUnchanged ==
  ASSUME NEW sc \in Column, NEW dc \in Column, NEW pk, SameColumn(sc, dc, pk),
         ColumnRoundTrips(dc, pk),
         sc.identity # "" => sc.default = NoDefault,
         dc.identity # "" => dc.default = NoDefault
  PROVE  Unchanged(AsRead(sc), dc)
<1>1. /\ AsRead(sc).type = NormalizeType(sc.type)
      /\ AsRead(sc).nullable = sc.nullable
      /\ AsRead(sc).default = sc.default
  BY DEF AsRead, Column
<1>2. PICK w : w = ColumnDef(dc)
  OBVIOUS
<1>3. w = dc
  BY <1>2 DEF ColumnDef, Column
<1>4. PICK u : u = Stored(w, pk)
  OBVIOUS
<1>5. sc.type = u.type /\ sc.nullable = u.nullable
      /\ normalizeDefault(sc.default) = normalizeDefault(u.default)
  BY <1>2, <1>4 DEF SameColumn
<1>6. u.type = format_type(dc.type)
  BY <1>3, <1>4, StoredFields
<1>7. NormalizeType(AsRead(sc).type) = NormalizeType(dc.type)
  <2>1. sc.type \in Type
    BY DEF Column
  <2> QED
    BY <1>1, <1>5, <1>6, <2>1, NormalizedOnce DEF ColumnRoundTrips
<1>8. AsRead(sc).nullable = dc.nullable
  BY <1>1, <1>3, <1>4, <1>5 DEF ColumnRoundTrips
<1>9. normalizeDefault(u.default) = normalizeDefault(dc.default)
  <2>1. u.default = IF dc.default = NoDefault THEN NoDefault ELSE [dc.default EXCEPT !.cast = TRUE]
    BY <1>3, <1>4, StoredFields
  <2>2. dc.default \in Default
    BY DEF Column
  <2> QED
    BY <2>1, <2>2 DEF normalizeDefault, Default, NoDefault
<1> QED
  BY <1>1, <1>5, <1>7, <1>8, <1>9 DEF Unchanged

\* Diff finds nothing to refuse in a table that is as wanted.
LEMMA NothingUnsupported ==
  ASSUME NEW T, NEW X, NEW d, Desirable(d), CatalogIs(T, X), SoundCatalog(T, X, d),
         Meets(T, X, d), NEW dt \in ToSet(d),
         \A dc \in ToSet(dt.columns) : ColumnRoundTrips(dc, dt.primaryKey),
         NEW v \in Table, v.name = dt.name, ColumnsRead(T, v), KeysRead(T, v)
  PROVE  ~Unsupported(v, dt) /\ Names(v.columns) = Names(dt.columns)
<1>1. PICK st : st = T[dt.name]
  OBVIOUS
<1>2. /\ st \in StoredTable /\ SoundTable(st) /\ Conforms(st, dt, {})
  <2>1. dt.name \in DOMAIN T
    BY DEF ColumnsRead
  <2> QED
    BY <1>1, <2>1 DEF CatalogIs, SoundCatalog, Meets
<1>3. dt \in Table /\ \A c \in ToSet(dt.columns) : c \in Column
  BY DesiredIs DEF DefinedOnce
<1>4. Names(v.columns) = Names(st.columns)
  BY <1>1, <1>2, ColumnsOfRead
<1>5. \A cc \in ToSet(v.columns) : \E sc \in ToSet(st.columns) :
        cc = AsRead(sc) /\ sc.name = cc.name /\ sc \in Column
  BY <1>1, <1>2, ColumnsOfRead
<1>6. \A dc \in ToSet(dt.columns) : \E sc \in ToSet(st.columns) :
        SameColumn(sc, dc, dt.primaryKey) /\ sc.name = dc.name
  <2> SUFFICES ASSUME NEW dc \in ToSet(dt.columns)
               PROVE  \E sc \in ToSet(st.columns) :
                        SameColumn(sc, dc, dt.primaryKey) /\ sc.name = dc.name
    OBVIOUS
  <2>1. PICK sc \in ToSet(st.columns) : SameColumn(sc, dc, dt.primaryKey)
    BY <1>2 DEF Conforms
  <2>2. ColumnDef(dc) \in Column /\ ColumnDef(dc).name = dc.name
    BY <1>3, ColumnDefType DEF ColumnDef, Column
  <2> QED
    BY <2>1, <2>2, StoredFields DEF SameColumn
<1>7. Names(v.columns) = Names(dt.columns)
  <2>1. Names(st.columns) \subseteq Names(dt.columns)
    BY <1>2 DEF Conforms
  <2>2. Names(dt.columns) \subseteq Names(st.columns)
    <3> SUFFICES ASSUME NEW n \in Names(dt.columns) PROVE n \in Names(st.columns)
      OBVIOUS
    <3>1. PICK dc \in ToSet(dt.columns) : dc.name = n
      BY DEF Names, ToSet
    <3>2. PICK sc \in ToSet(st.columns) : sc.name = n
      BY <1>6, <3>1
    <3> QED
      BY <3>2 DEF Names, ToSet
  <2> QED
    BY <1>4, <2>1, <2>2
<1>8. ~ChangedColumn(v, dt)
  <2> SUFFICES ASSUME NEW dc \in ToSet(dt.columns), dc.name \in Names(v.columns),
                      NEW cc, cc = ByName(v.columns, dc.name)
               PROVE  Unchanged(cc, dc)
    BY DEF ChangedColumn, Unchanged
  <2>1. cc \in ToSet(v.columns) /\ cc.name = dc.name
    <3>1. v.columns \in Seq(Column)
      BY DEF Table
    <3> QED
      BY <3>1, ByNameIs
  <2>2. PICK sc \in ToSet(st.columns) : cc = AsRead(sc) /\ sc.name = dc.name /\ sc \in Column
    BY <1>5, <2>1
  <2>3. PICK so \in ToSet(st.columns) : SameColumn(so, dc, dt.primaryKey) /\ so.name = dc.name
    BY <1>6
  <2>4. so = sc
    BY <1>2, <2>2, <2>3 DEF SoundTable, Distinct, ToSet
  <2>5. sc.identity # "" => sc.default = NoDefault
    BY <1>2, <2>2 DEF SoundTable
  <2>6. dc \in Column /\ (dc.identity # "" => dc.default = NoDefault)
    BY <1>3, DesiredIs DEF DefinedOnce, WellFormedTable
  <2>7. SameColumn(sc, dc, dt.primaryKey) /\ ColumnRoundTrips(dc, dt.primaryKey)
    BY <2>3, <2>4
  <2>8. Unchanged(AsRead(sc), dc)
    BY <2>2, <2>5, <2>6, <2>7, WantedIsUnchanged
  <2> QED
    BY <2>2, <2>8
<1>9. v.primaryKey = dt.primaryKey /\ ToSet(v.uniques) = ToSet(dt.uniques)
  BY <1>1, <1>2 DEF KeysRead, Conforms
<1>10. CheckKeys(v) = CheckKeys(dt)
  BY <1>1, <1>2 DEF KeysRead, Conforms, CheckKeys
<1> QED
  BY <1>7, <1>8, <1>9, <1>10
     DEF Unsupported, DroppedColumn, diffPrimaryKey, ChangedUnique, ChangedCheck

\* Every index of table v is in what has been read of it.
AllIndexesRead(X, v) == \A n \in DOMAIN X : X[n].on = v.name => n \in Names(v.indexes)

\* Diff finds no index to drop, to create or to rebuild in a table that is as
\* wanted.
LEMMA IndexesAsWanted ==
  ASSUME NEW T, NEW X, NEW d, Desirable(d), CatalogIs(T, X), Meets(T, X, d),
         NEW dt \in ToSet(d), \A di \in ToSet(dt.indexes) : di.include = <<>>,
         NEW v \in Table, v.name = dt.name, TableIsRead(T, X, d, v), AllIndexesRead(X, v)
  PROVE  /\ Names(v.indexes) = Names(dt.indexes)
         /\ \A ci \in ToSet(v.indexes) : ~Rebuilt(dt, ci)
<1>1. \A di \in ToSet(dt.indexes) : IsIndex(X, di.name, dt.name, di)
  BY DEF Meets
<1>2. \A n \in DOMAIN X : \E du \in ToSet(d) : \E di \in ToSet(du.indexes) :
        di.name = n /\ IsIndex(X, n, du.name, di)
  <2> SUFFICES ASSUME NEW n \in DOMAIN X
               PROVE  \E du \in ToSet(d) : \E di \in ToSet(du.indexes) :
                        di.name = n /\ IsIndex(X, n, du.name, di)
    OBVIOUS
  <2>1. PICK du \in ToSet(d) : n \in Names(du.indexes)
    BY DEF Meets
  <2>2. PICK di \in ToSet(du.indexes) : di.name = n
    BY <2>1 DEF Names, ToSet
  <2> QED
    BY <2>2 DEF Meets
<1>3. DefinedOnce(d, dt)
  BY DesiredIs
<1>4. \A ci \in ToSet(v.indexes) :
        IndexIsRead(X, v, ci) /\ \E di \in ToSet(dt.indexes) :
          di.name = ci.name /\ IsIndex(X, ci.name, dt.name, di)
  <2> SUFFICES ASSUME NEW ci \in ToSet(v.indexes)
               PROVE  IndexIsRead(X, v, ci) /\ \E di \in ToSet(dt.indexes) :
                        di.name = ci.name /\ IsIndex(X, ci.name, dt.name, di)
    OBVIOUS
  <2>1. IndexIsRead(X, v, ci)
    BY IndexesOfRead
  <2>2. PICK du \in ToSet(d) : \E di \in ToSet(du.indexes) :
          di.name = ci.name /\ IsIndex(X, ci.name, du.name, di)
    BY <1>2, <2>1 DEF IndexIsRead
  <2>3. du.name = dt.name
    BY <2>1, <2>2 DEF IndexIsRead, IsIndex
  <2>4. du = dt
    BY <1>3, <2>3 DEF DefinedOnce
  <2> QED
    BY <2>1, <2>2, <2>4
<1>5. Names(v.indexes) = Names(dt.indexes)
  <2>1. ASSUME NEW n \in Names(v.indexes) PROVE n \in Names(dt.indexes)
    <3>1. PICK ci \in ToSet(v.indexes) : ci.name = n
      BY DEF Names, ToSet
    <3>2. PICK di \in ToSet(dt.indexes) : di.name = n
      BY <1>4, <3>1
    <3> QED
      BY <3>2 DEF Names, ToSet
  <2>2. ASSUME NEW n \in Names(dt.indexes) PROVE n \in Names(v.indexes)
    <3>1. PICK di \in ToSet(dt.indexes) : di.name = n
      BY DEF Names, ToSet
    <3> QED
      BY <1>1, <3>1 DEF IsIndex, AllIndexesRead
  <2> QED
    BY <2>1, <2>2
<1>6. ASSUME NEW ci \in ToSet(v.indexes) PROVE ~Rebuilt(dt, ci)
  <2>1. PICK di \in ToSet(dt.indexes) : di.name = ci.name /\ IsIndex(X, ci.name, dt.name, di)
    BY <1>4
  <2>2. di = ByName(dt.indexes, ci.name)
    <3>1. dt.indexes \in Seq(Index) /\ Distinct(dt.indexes)
      BY <1>3 DEF DefinedOnce, Table, WellFormedTable
    <3>2. ci.name \in Names(dt.indexes)
      BY <2>1 DEF Names, ToSet
    <3> QED
      BY <2>1, <3>1, <3>2, ByNameIs
  <2>3. IndexIsRead(X, v, ci)
    BY <1>4
  <2>4. X[ci.name] \in StoredIndex
    BY <2>3 DEF IndexIsRead, CatalogIs
  <2>5. PICK cols \in Seq(STRING) : cols = X[ci.name].columns
    BY <2>4 DEF StoredIndex
  <2>6. ci.columns = cols \o <<>>
    BY <2>1, <2>3, <2>5 DEF IndexIsRead, IsIndex
  <2>7. cols \o <<>> = cols
    BY ONLY <2>5
  <2>8. indexKey(ci) = indexKey(di)
    BY <2>1, <2>3, <2>5, <2>6, <2>7 DEF IndexIsRead, IsIndex, indexKey
  <2> QED
    BY <2>2, <2>8 DEF Rebuilt
<1> QED
  BY <1>5, <1>6

\* The catalog is schema d, and all of it has been read.
ReadInFull(T, X, d, live) ==
  /\ ReadOnce(T, X, d, live)
  /\ \A v \in ToSet(live) : AllIndexesRead(X, v)

\* RoundTrips of Apply, column by column.
AllRoundTrip(d) ==
  \A dt \in ToSet(d) :
    /\ \A dc \in ToSet(dt.columns) : ColumnRoundTrips(dc, dt.primaryKey)
    /\ \A di \in ToSet(dt.indexes) : di.include = <<>>

\* Then Diff succeeds, and a plan has nothing in it.
LEMMA NothingToDo ==
  ASSUME NEW T, NEW X, NEW d, Desirable(d), AllRoundTrip(d), CatalogIs(T, X),
         SoundCatalog(T, X, d), Meets(T, X, d), NEW live, ReadInFull(T, X, d, live)
  PROVE  ~DiffFails(live, d) /\ PlanOf(live, d) = {}
<1>1. live \in Seq(Table) /\ Names(live) = Names(d)
  BY DEF ReadInFull, ReadOnce, SchemaIsRead, Meets
<1>2. Fresh(live, d) = {} /\ Altered(live, d) = ToSet(d)
  <2>1. \A dt \in ToSet(d) : dt.name \in Names(d)
    BY DesiredIs DEF DefinedOnce
  <2> QED
    BY <1>1, <2>1 DEF Fresh, Altered
<1>3. ASSUME NEW dt \in ToSet(d), NEW v, v = Old(live, dt)
      PROVE  /\ v \in Table /\ v.name = dt.name
             /\ TableIsRead(T, X, d, v) /\ AllIndexesRead(X, v)
  <2>1. dt.name \in Names(live)
    BY <1>1, DesiredIs DEF DefinedOnce
  <2>2. v \in ToSet(live) /\ v.name = dt.name
    BY <1>1, <1>3, <2>1, ByNameIs DEF Old
  <2> QED
    BY <1>1, <2>2 DEF ReadInFull, ReadOnce, SchemaIsRead, ToSet
<1>4. ASSUME NEW dt \in ToSet(d), NEW v, v = Old(live, dt)
      PROVE  /\ ~Unsupported(v, dt)
             /\ Names(v.columns) = Names(dt.columns)
             /\ Names(v.indexes) = Names(dt.indexes)
             /\ \A ci \in ToSet(v.indexes) : ~Rebuilt(dt, ci)
  <2>1. /\ v \in Table /\ v.name = dt.name /\ TableIsRead(T, X, d, v) /\ AllIndexesRead(X, v)
        /\ ColumnsRead(T, v) /\ KeysRead(T, v)
    BY <1>3, <1>4 DEF TableIsRead
  <2>2. /\ \A dc \in ToSet(dt.columns) : ColumnRoundTrips(dc, dt.primaryKey)
        /\ \A di \in ToSet(dt.indexes) : di.include = <<>>
    BY DEF AllRoundTrip
  <2>3. ~Unsupported(v, dt) /\ Names(v.columns) = Names(dt.columns)
    BY <2>1, <2>2, NothingUnsupported
  <2>4. Names(v.indexes) = Names(dt.indexes) /\ \A ci \in ToSet(v.indexes) : ~Rebuilt(dt, ci)
    BY <2>1, <2>2, IndexesAsWanted
  <2> QED
    BY <2>3, <2>4
<1>5. ~DiffFails(live, d)
  BY <1>4 DEF DiffFails, Old
<1>6. ASSUME NEW dt \in ToSet(d), NEW v, v = Old(live, dt)
      PROVE  /\ ToSet(DroppedIndexes(v, dt)) = {}
             /\ ToSet(AddedColumns(v, dt)) = {}
             /\ ToSet(CreatedIndexes(v, dt)) = {}
  <2>1. StaysAs(T, X, d, live, v, dt)
    BY <1>2, <1>5, <1>6, OldStays DEF ReadInFull
  <2>2. /\ Names(v.columns) = Names(dt.columns)
        /\ Names(v.indexes) = Names(dt.indexes)
        /\ \A ci \in ToSet(v.indexes) : ~Rebuilt(dt, ci)
    BY <1>4, <1>6
  <2>3. PICK A, B, C : A = ToSet(DroppedIndexes(v, dt)) /\ B = ToSet(AddedColumns(v, dt))
                       /\ C = ToSet(CreatedIndexes(v, dt))
    OBVIOUS
  <2>4. {x \in ToSet(v.indexes) : x.name \notin Names(dt.indexes) \/ Rebuilt(dt, x)} = {}
    BY <2>2 DEF Names, ToSet
  <2>5. {x \in ToSet(dt.columns) : x.name \notin Names(v.columns)} = {}
    BY <2>2 DEF Names, ToSet
  <2>6. /\ {x \in ToSet(v.indexes) : Rebuilt(dt, x)} = {}
        /\ {x \in ToSet(dt.indexes) : x.name \notin Names(v.indexes)} = {}
    BY <2>2 DEF Names, ToSet
  <2>7. A = {}
    BY <2>1, <2>3, <2>4 DEF StaysAs
  <2>8. B = {}
    BY <2>1, <2>3, <2>5 DEF StaysAs
  <2>9. C = {}
    BY <2>1, <2>3, <2>6 DEF StaysAs
  <2> QED
    BY <2>3, <2>7, <2>8, <2>9
<1>7. DropsOf(live, d) = {} /\ AddsOf(live, d) = {} /\ RebuildsOf(live, d) = {}
  BY <1>2, <1>6 DEF DropsOf, AddsOf, RebuildsOf
<1>8. BuildsOf(live, d) = {}
  BY <1>2 DEF BuildsOf
<1>9. {DropTable(n) : n \in Names(live) \ Names(d)} = {}
  BY <1>1
<1>10. {CreateTable(dt) : dt \in Fresh(live, d)} = {}
  BY <1>2
<1> QED
  BY <1>5, <1>7, <1>8, <1>9, <1>10 DEF PlanOf

\* Then the only plan is the empty one.
LEMMA OnlyEmptyPlan ==
  ASSUME NEW d, Desirable(d), NEW live \in Seq(Table), Readable(live), PlanOf(live, d) = {}
  PROVE  Diff(live, d) = {<<>>}
<1>1. d \in Seq(Table) /\ WellFormed(d)
  BY DEF Desirable
<1>2. \A stmts \in Diff(live, d) : stmts = <<>>
  <2> SUFFICES ASSUME NEW stmts \in Diff(live, d) PROVE stmts = <<>>
    OBVIOUS
  <2>1. ToSet(stmts) = {}
    BY <1>1, DiffInOrder
  <2>2. stmts \in Seq(Statement)
    BY <1>1, DiffDropsOnlyUndesired
  <2>3. DOMAIN stmts = {}
    BY <2>1 DEF ToSet
  <2> QED
    BY ONLY <2>2, <2>3
<1>3. Diff(live, d) # {}
  <2>1. PICK S : S = Names(live) \ Names(d)
    OBVIOUS
  <2>2. S = {}
    <3>1. \A n \in S : DropTable(n) \in PlanOf(live, d)
      BY <2>1 DEF PlanOf
    <3> QED
      BY <3>1
  <2>3. <<>> \in DropOrders(live, d)
    <3>1. Cardinality({}) = 0
      BY FS_EmptySet
    <3>2. <<>> \in [1..0 -> {}]
      OBVIOUS
    <3>3. <<>> \in SetToSeqs({})
      BY <3>1, <3>2 DEF SetToSeqs
    <3> QED
      BY <2>1, <2>2, <3>3 DEF DropOrders
  <2> QED
    BY <2>3 DEF Diff
<1> QED
  BY <1>2, <1>3

-----------------------------------------------------------------------------

\* What a run would read now of one table.
LEMMA LiveTableType ==
  ASSUME CatalogTypeOK, NEW t \in DOMAIN tables
  PROVE  LiveTable(t) \in Table
<1>1. PICK idx \in Seq(Index) : idx = introspectIndexes(t)
  BY introspectIndexesType
<1>2. \A i \in DOMAIN idx :
        [idx[i] EXCEPT !.columns = introspectIndexColumns(idx[i].name)] \in Index
  <2> SUFFICES ASSUME NEW i \in DOMAIN idx,
                      NEW c, c = introspectIndexColumns(idx[i].name)
               PROVE  [idx[i] EXCEPT !.columns = c] \in Index
    OBVIOUS
  <2>1. c \in Seq(STRING) /\ idx[i] \in Index
    BY introspectIndexColumnsType
  <2> QED
    BY <2>1 DEF Index
<1>3. PICK full : full = [i \in DOMAIN idx |->
        [idx[i] EXCEPT !.columns = introspectIndexColumns(idx[i].name)]]
  OBVIOUS
<1>4. full \in Seq(Index)
  <2>1. full \in [1..Len(idx) -> Index] /\ Len(idx) \in Nat
    BY <1>2, <1>3
  <2> QED
    BY <2>1
<1>5. PICK cols, st : cols = introspectColumns(t) /\ st = tables[t]
  OBVIOUS
<1>6. cols \in Seq(Column) /\ t \in STRING /\ st \in StoredTable
  BY <1>5, introspectColumnsType DEF CatalogTypeOK
<1>7. LiveTable(t) = [name |-> t, columns |-> cols, primaryKey |-> st.primaryKey,
                      uniques |-> st.uniques, checks |-> st.checks, indexes |-> full]
  BY <1>1, <1>3, <1>5 DEF LiveTable
<1> QED
  BY <1>4, <1>6, <1>7 DEF Table, StoredTable

\* It has been read in full, when all indexes are built.
LEMMA LiveTableIsRead ==
  ASSUME CatalogTypeOK, NEW d, SoundCatalog(tables, indexes, d), AllBuilt,
         NEW t \in DOMAIN tables, NEW v, v = LiveTable(t)
  PROVE  TableIsRead(tables, indexes, d, v) /\ AllIndexesRead(indexes, v)
<1>1. v.name = t /\ v.columns = introspectColumns(t) /\ KeysRead(tables, v)
  BY DEF LiveTable, KeysRead
<1>2. ColumnsRead(tables, v)
  <2>1. introspectColumns(t) = [i \in DOMAIN tables[t].columns |-> AsRead(tables[t].columns[i])]
    BY DEF introspectColumns, AsRead
  <2> QED
    BY <1>1, <2>1 DEF ColumnsRead
<1>3. PICK X, idx : X = indexes /\ idx = introspectIndexes(t)
  OBVIOUS
<1>4. idx \in Seq(Index)
  BY <1>3, introspectIndexesType
<1>5. PICK e : e = [name |-> t, indexes |-> idx]
  OBVIOUS
<1>6. IndexesRead(X, d, e, 0)
  BY <1>3, <1>5, IndexesFound
<1>7. Distinct(idx) /\ \A j \in DOMAIN idx : /\ idx[j].name \in DOMAIN X /\ X[idx[j].name].on = t
                                             /\ idx[j].include = <<>>
                                             /\ idx[j].unique = X[idx[j].name].unique
  BY <1>5, <1>6 DEF IndexesRead
<1>8. PICK f : f = [i \in DOMAIN idx |->
                      [idx[i] EXCEPT !.columns = introspectIndexColumns(idx[i].name)]]
  OBVIOUS
<1>9. v.indexes = f
  BY <1>3, <1>8 DEF LiveTable
<1>10. /\ DOMAIN f = DOMAIN idx
       /\ \A i \in DOMAIN idx : /\ f[i].name = idx[i].name
                                /\ f[i].include = idx[i].include
                                /\ f[i].unique = idx[i].unique
                                /\ f[i].columns = introspectIndexColumns(idx[i].name)
  <2>1. \A i \in DOMAIN idx : idx[i] \in Index
    BY <1>4
  <2> QED
    BY <1>8, <2>1 DEF Index
<1>11. Names(f) = Names(idx) /\ Distinct(f)
  BY <1>7, <1>10 DEF Names, Distinct
<1>12. ASSUME NEW n \in DOMAIN X, X[n].on = t PROVE n \in Names(f)
  <2>1. PICK S : S = {m \in DOMAIN X : X[m].on = t /\ X[m].state = "valid"}
    OBVIOUS
  <2>2. n \in S /\ n \in ToSet(Relnames)
    BY <1>3, <1>12, <2>1 DEF AllBuilt, SoundCatalog
  <2>3. PICK u : u = InRelnameOrder(S)
    OBVIOUS
  <2>4. PICK i \in DOMAIN u : u[i] = n
    BY <2>2, <2>3, RelnamesKept DEF ToSet
  <2>5. idx = [k \in DOMAIN u |-> [name |-> u[k], columns |-> <<>>, include |-> <<>>,
                                    unique |-> X[u[k]].unique]]
    BY <1>3, <2>1, <2>3 DEF introspectIndexes
  <2>6. i \in DOMAIN idx /\ idx[i].name = n
    BY <2>4, <2>5
  <2> QED
    BY <1>11, <2>6 DEF Names
<1>13. \A i \in DOMAIN f : f[i].columns = X[f[i].name].columns \o X[f[i].name].include
  BY <1>3, <1>7, <1>10 DEF introspectIndexColumns
<1>14. IndexesRead(X, d, v, Len(v.indexes))
  <2>1. \A n \in DOMAIN X : X[n].on = t => n \in Names(f) \/ Own(X, n, d)
    BY <1>12
  <2>2. \A j \in DOMAIN f : /\ f[j].name \in DOMAIN X /\ X[f[j].name].on = t
                           /\ f[j].include = <<>>
                           /\ f[j].unique = X[f[j].name].unique
    BY <1>7, <1>10
  <2> QED
    BY <1>1, <1>9, <1>11, <1>13, <2>1, <2>2 DEF IndexesRead
<1> QED
  BY <1>1, <1>2, <1>3, <1>9, <1>12, <1>14 DEF TableIsRead, AllIndexesRead

\* What a run would read now of all tables.
LEMMA LiveSchemaIsRead ==
  ASSUME CatalogTypeOK, NEW d, SoundCatalog(tables, indexes, d), AllBuilt
  PROVE  ReadInFull(tables, indexes, d, LiveSchema)
<1>1. PICK u : u = listTables
  OBVIOUS
<1>2. u \in Seq(STRING) /\ ToSet(u) = DOMAIN tables /\ OnceEach(u)
  <2>1. DOMAIN tables \subseteq ToSet(Relnames)
    BY DEF SoundCatalog
  <2> QED
    BY <1>1, <2>1, RelnamesKept DEF listTables
<1>3. PICK s : s = LiveSchema
  OBVIOUS
<1>4. DOMAIN s = DOMAIN u /\ \A i \in DOMAIN u : s[i] = LiveTable(u[i]) /\ u[i] \in DOMAIN tables
  <2>1. \A i \in DOMAIN u : u[i] \in ToSet(u)
    BY DEF ToSet
  <2> QED
    BY <1>1, <1>2, <1>3, <2>1 DEF LiveSchema
<1>5. \A i \in DOMAIN u : s[i].name = u[i]
  BY <1>4 DEF LiveTable
<1>6. s \in Seq(Table)
  <2>1. \A i \in 1..Len(u) : s[i] \in Table
    BY <1>2, <1>4, LiveTableType
  <2>2. s = [i \in 1..Len(u) |-> s[i]] /\ Len(u) \in Nat
    BY <1>1, <1>2, <1>3 DEF LiveSchema
  <2> QED
    BY <2>1, <2>2
<1>7. Distinct(s)
  BY <1>2, <1>4, <1>5 DEF Distinct, OnceEach
<1>8. Names(s) = DOMAIN tables
  BY <1>2, <1>4, <1>5 DEF Names, ToSet
<1>9. \A v \in ToSet(s) : TableIsRead(tables, indexes, d, v) /\ AllIndexesRead(indexes, v)
  BY <1>4, LiveTableIsRead DEF ToSet
<1> QED
  BY <1>3, <1>6, <1>7, <1>8, <1>9 DEF ReadInFull, ReadOnce, SchemaIsRead

\* The same of all definitions.
LEMMA RoundTripsAll ==
  ASSUME NEW d, RoundTrips(d)
  PROVE  AllRoundTrip(d)
BY DEF RoundTrips, AllRoundTrip, ColumnRoundTrips

\* A catalog that is the schema, all built, needs no plan.
LEMMA MeetsIsUpToDate ==
  ASSUME CatalogTypeOK, NEW d, Desirable(d), RoundTrips(d), SoundCatalog(tables, indexes, d),
         Meets(tables, indexes, d), AllBuilt
  PROVE  UpToDate(d)
<1>1. PICK T, X, s : T = tables /\ X = indexes /\ s = LiveSchema
  OBVIOUS
<1>2. ReadInFull(T, X, d, s) /\ AllRoundTrip(d) /\ CatalogIs(T, X)
  BY <1>1, LiveSchemaIsRead, RoundTripsAll, CatalogNow
<1>3. ~DiffFails(s, d) /\ PlanOf(s, d) = {}
  BY <1>1, <1>2, NothingToDo
<1>4. s \in Seq(Table) /\ Readable(s)
  BY <1>2, ReadIsReadable DEF ReadInFull, ReadOnce, SchemaIsRead
<1> QED
  BY <1>1, <1>3, <1>4, OnlyEmptyPlan DEF UpToDate

\* The invariant implies that another plan is empty.
LEMMA LoneDrift ==
  ASSUME TypeOK, WellPosed, LoneInv
  PROVE  NoDrift
<1> SUFFICES ASSUME AllBuilt, NEW p \in Operators, Settled(p), RoundTrips(desired[p])
             PROVE  UpToDate(desired[p])
  BY DEF NoDrift
<1>1. Desirable(desired[p]) /\ CatalogTypeOK
  BY DesiredDesirable DEF TypeOK
<1>2. SoundCatalog(tables, indexes, desired[p]) /\ Meets(tables, indexes, desired[p])
  BY DEF LoneInv, OwnRun
<1> QED
  BY <1>1, <1>2, MeetsIsUpToDate

\* The same operator: once the indexes are built, another plan against the
\* catalog is empty, if the catalog prints what the schema files say in a form
\* that compares equal to it (normalize.go, introspect.go).
THEOREM LoneRunsDoNotDrift == Lone /\ Spec => []NoDrift
<1>1. Lone /\ Init => LoneInv
  BY InitLone DEF Lone
<1>2. Lone /\ TypeOK /\ RunInv /\ [Next]_vars => RunInv'
  BY NextRun DEF Lone
<1>3. Lone /\ TypeOK /\ RunInv /\ LoneInv /\ [Next]_vars => LoneInv'
  BY NextLone
<1>4. Lone => []Lone
  OBVIOUS
<1>5. Lone /\ TypeOK /\ LoneInv => NoDrift
  BY LoneDrift DEF Lone
<1> QED
  BY <1>1, <1>2, <1>3, <1>4, <1>5, InitType, NextType, InitRun, PTL DEF Spec

=============================================================================
