---------------------------- MODULE Introspect ----------------------------
(***************************************************************************)
(* internal/schema/introspect.go: what each pg_catalog query of Introspect *)
(* returns for the catalog as it is when the query runs. The queries are   *)
(* separate statements outside any transaction; module Apply interleaves   *)
(* them with everything else that touches the catalog.                     *)
(***************************************************************************)
EXTENDS Catalog

CONSTANT Relnames   \* the relation names there are, in relname order

ASSUME RelnamesAssumption ==
  /\ Relnames \in Seq(STRING)
  /\ \A i, j \in DOMAIN Relnames : Relnames[i] = Relnames[j] => i = j

InRelnameOrder(S) == Those(Relnames, S)

-----------------------------------------------------------------------------

listTables == InRelnameOrder(DOMAIN tables)

\* NormalizeType on the printed type; an identity column's default (nextval)
\* is dropped.
introspectColumns(t) ==
  [i \in DOMAIN tables[t].columns |->
     LET c == tables[t].columns[i]
     IN  [c EXCEPT !.type    = NormalizeType(@),
                   !.default = IF c.identity # "" THEN NoDefault ELSE @]]

\* pg_index rows that are valid and do not back a constraint.
introspectIndexes(t) ==
  LET names == InRelnameOrder({n \in DOMAIN indexes :
                                 indexes[n].on = t /\ indexes[n].state = "valid"})
  IN  [i \in DOMAIN names |->
         [name |-> names[i], columns |-> <<>>, include |-> <<>>,
          unique |-> indexes[names[i]].unique]]

\* Mutant: the columns come in the table's order instead of indkey's.
introspectIndexColumnsByNumber(n) ==
  IF n \in DOMAIN indexes
  THEN Those([i \in DOMAIN tables[indexes[n].on].columns |->
                tables[indexes[n].on].columns[i].name],
             ToSet(indexes[n].columns))
  ELSE <<>>

\* indkey holds the key columns and the INCLUDE columns; an index that is gone
\* by now has no rows, which is not an error.
introspectIndexColumns(n) ==
  IF n \in DOMAIN indexes THEN indexes[n].columns \o indexes[n].include ELSE <<>>

-----------------------------------------------------------------------------
(* The same, with nothing in between: what a run would see now.            *)

LiveTable(t) ==
  [name       |-> t,
   columns    |-> introspectColumns(t),
   primaryKey |-> tables[t].primaryKey,
   uniques    |-> tables[t].uniques,
   checks     |-> tables[t].checks,
   indexes    |-> LET idx == introspectIndexes(t)
                  IN  [i \in DOMAIN idx |->
                         [idx[i] EXCEPT !.columns = introspectIndexColumns(idx[i].name)]]]

LiveSchema == [i \in DOMAIN listTables |-> LiveTable(listTables[i])]

=============================================================================
