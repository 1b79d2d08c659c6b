------------------------------ MODULE Catalog ------------------------------
(***************************************************************************)
(* External: the Aurora DSQL cluster (or the PostgreSQL behind the proxy)  *)
(* as internal/schema and internal/runner use it. It executes one DDL      *)
(* statement at a time, refuses the ones that contradict its catalog, and  *)
(* builds indexes in the background after CREATE INDEX ASYNC has returned. *)
(***************************************************************************)
EXTENDS SchemaDiff, Functions

VARIABLES
  tables,   \* name -> stored table
  indexes   \* name -> stored index: its table, definition and build state

dbVars == <<tables, indexes>>

StoredTable == [columns : Seq(Column), primaryKey : Seq(STRING),
                uniques : Seq(Seq(STRING)), checks : Seq(Check), rows : BOOLEAN]
StoredIndex == [on : STRING, columns : Seq(STRING), include : Seq(STRING),
                unique : BOOLEAN, state : {"building", "valid", "invalid"}]

CatalogTypeOK ==
  /\ DOMAIN tables \subseteq STRING
  /\ DOMAIN indexes \subseteq STRING
  /\ tables \in [DOMAIN tables -> StoredTable]
  /\ indexes \in [DOMAIN indexes -> StoredIndex]

Put(f, k, v) == [x \in DOMAIN f \cup {k} |-> IF x = k THEN v ELSE f[x]]

-----------------------------------------------------------------------------
(* What the catalog stores and prints for a definition.                    *)

\* format_type(): the name the database prints for a declared type.
format_type(t) ==
  CASE t.name \in {"int", "int4", "integer"}        -> [t EXCEPT !.name = "integer"]
    [] t.name \in {"int8", "bigint"}                -> [t EXCEPT !.name = "bigint"]
    [] t.name \in {"int2", "smallint"}              -> [t EXCEPT !.name = "smallint"]
    [] t.name \in {"float4", "real"}                -> [t EXCEPT !.name = "real"]
    [] t.name \in {"float", "float8", "double precision"} ->
         [t EXCEPT !.name = "double precision"]
    [] t.name \in {"decimal", "numeric"}            -> [t EXCEPT !.name = "numeric"]
    [] t.name \in {"bool", "boolean"}               -> [t EXCEPT !.name = "boolean"]
    [] t.name \in {"varchar", "character varying"}  ->
         [t EXCEPT !.name = "character varying"]
    [] t.name \in {"char", "character"}             ->
         [t EXCEPT !.name = "character", !.size = IF @ = 0 THEN 1 ELSE @]
    [] t.name \in {"timestamptz", "timestamp with time zone"} ->
         [t EXCEPT !.name = "timestamp with time zone"]
    [] t.name \in {"timestamp", "timestamp without time zone"} ->
         [t EXCEPT !.name = "timestamp without time zone"]
    [] t.name \in {"timetz", "time with time zone"} ->
         [t EXCEPT !.name = "time with time zone"]
    [] t.name \in {"time", "time without time zone"} ->
         [t EXCEPT !.name = "time without time zone"]
    [] OTHER                                        -> t

\* A primary key or an identity makes its column NOT NULL; a literal default
\* is printed with its type.
Stored(c, primaryKey) ==
  [c EXCEPT !.type     = format_type(@),
            !.nullable = @ /\ c.name \notin ToSet(primaryKey) /\ c.identity = "",
            !.default  = IF @ = NoDefault THEN @ ELSE [@ EXCEPT !.cast = TRUE]]

StoredAs(t) ==
  [columns    |-> [i \in DOMAIN t.columns |-> Stored(t.columns[i], t.primaryKey)],
   primaryKey |-> t.primaryKey,
   uniques    |-> t.uniques,
   checks     |-> [i \in DOMAIN t.checks |-> [t.checks[i] EXCEPT !.stored = TRUE]],
   rows       |-> FALSE]

-----------------------------------------------------------------------------
(* DDL.                                                                    *)

\* A NOT NULL column without a value for the rows already there.
Unfillable(t, c) ==
  tables[t].rows /\ ~c.nullable /\ c.default = NoDefault /\ c.identity = ""

Refused(stmt) ==
  CASE stmt.op = "CreateTable" -> stmt.name \in DOMAIN tables
    [] stmt.op = "DropTable"   -> stmt.name \notin DOMAIN tables
    [] stmt.op = "AddColumn"   ->
         stmt.name \in DOMAIN tables =>
           \/ stmt.column.name \in Names(tables[stmt.name].columns)
           \/ Unfillable(stmt.name, stmt.column)
    [] stmt.op = "CreateIndex" ->
         \/ stmt.name \in DOMAIN indexes
         \/ stmt.on \in DOMAIN tables =>
              ~(ToSet(stmt.index.columns \o stmt.index.include)
                  \subseteq Names(tables[stmt.on].columns))
    [] stmt.op = "DropIndex"   -> stmt.name \notin DOMAIN indexes

ApplyCreateTable(stmt) ==
  /\ tables' = Put(tables, stmt.name, StoredAs(stmt.table))
  /\ UNCHANGED indexes

ApplyDropTable(stmt) ==
  /\ tables' = Restrict(tables, DOMAIN tables \ {stmt.name})
  /\ indexes' = Restrict(indexes, {n \in DOMAIN indexes : indexes[n].on # stmt.name})

ApplyAddColumn(stmt) ==
  /\ tables' = [tables EXCEPT ![stmt.name].columns = Append(@, Stored(stmt.column, <<>>))]
  /\ UNCHANGED indexes

ApplyCreateIndex(stmt) ==
  /\ indexes' = Put(indexes, stmt.name,
                    [on |-> stmt.on, columns |-> stmt.index.columns,
                     include |-> stmt.index.include, unique |-> stmt.index.unique,
                     state |-> "building"])
  /\ UNCHANGED tables

ApplyDropIndex(stmt) ==
  /\ indexes' = Restrict(indexes, DOMAIN indexes \ {stmt.name})
  /\ UNCHANGED tables

\* The statement commits.
ApplyDDL(stmt) ==
  /\ ~Refused(stmt)
  /\ \/ stmt.op = "CreateTable" /\ ApplyCreateTable(stmt)
     \/ stmt.op = "DropTable"   /\ ApplyDropTable(stmt)
     \/ stmt.op = "AddColumn"   /\ ApplyAddColumn(stmt)
     \/ stmt.op = "CreateIndex" /\ ApplyCreateIndex(stmt)
     \/ stmt.op = "DropIndex"   /\ ApplyDropIndex(stmt)

-----------------------------------------------------------------------------
(* What else happens in the cluster.                                       *)

BuildSucceeds(n) ==
  /\ indexes[n].state = "building"
  /\ indexes' = [indexes EXCEPT ![n].state = "valid"]
  /\ UNCHANGED tables

\* Only a unique build can fail, on duplicates in a table with rows.
BuildFails(n) ==
  /\ indexes[n].state = "building"
  /\ indexes[n].unique
  /\ tables[indexes[n].on].rows
  /\ indexes' = [indexes EXCEPT ![n].state = "invalid"]
  /\ UNCHANGED tables

\* The application stores the first row of a table.
Insert(t) ==
  /\ ~tables[t].rows
  /\ tables' = [tables EXCEPT ![t].rows = TRUE]
  /\ UNCHANGED indexes

=============================================================================
