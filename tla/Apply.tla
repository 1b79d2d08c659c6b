------------------------------- MODULE Apply -------------------------------
(***************************************************************************)
(* `deesql apply` (cli/apply.go) run by one or more operators against one  *)
(* cluster: planner.GeneratePlan introspects the live schema query by      *)
(* query and diffs it, runner.CheckHazards and the prompt decide whether   *)
(* the plan may run, runner.Execute sends its statements one by one and    *)
(* retries the ones that lose an OCC conflict (SQLSTATE 40001).            *)
(*                                                                         *)
(* The cluster goes on meanwhile: indexes build in the background, the     *)
(* application inserts rows, other operators run. A run may die at any     *)
(* point, the answer to a statement may be lost after it committed, and an *)
(* operator may start a run again: a run starts from nothing but the       *)
(* schema files and the live catalog.                                      *)
(***************************************************************************)
EXTENDS Introspect, Integers

CONSTANTS
  Operators,      \* who runs deesql apply
  Catalogs,       \* the catalogs a behaviour may start from
  Desired,        \* the parsed schema files of each operator: choices of
                  \* functions from Operators to schemas
  HazardChoices,  \* the values of --allow-hazards
  Forced,          \* the operators that pass --force
  MaxRetries,     \* --retries
  MaxConflicts,   \* bound: OCC conflicts in a behaviour
  MaxFaults,      \* bound: crashes and lost answers in a behaviour
  MaxBadBuilds    \* bound: index builds that fail

ASSUME ApplyAssumption ==
  /\ \A c \in Catalogs :
       /\ DOMAIN c.tables \subseteq STRING
       /\ DOMAIN c.indexes \subseteq STRING
       /\ c.tables \in [DOMAIN c.tables -> StoredTable]
       /\ c.indexes \in [DOMAIN c.indexes -> StoredIndex]
  /\ \A d \in Desired, p \in Operators : d[p] \in Seq(Table)
  /\ HazardChoices \subseteq SUBSET HazardTypes
  /\ Forced \subseteq Operators
  /\ MaxRetries \in Int
  /\ MaxConflicts \in Nat
  /\ MaxFaults \in Nat
  /\ MaxBadBuilds \in Nat

VARIABLES
  desired,    \* the schema the files of each operator parse to
  allowed,    \* the hazards each operator allows
  pc,         \* where the current run of each operator is
  error,      \* why the run failed
  todo,       \* tables the introspection has still to read
  view,       \* the live schema as far as it has been read
  asked,      \* indexes of the table in hand whose columns have been read
  plan,       \* Plan.Statements
  pos,        \* statements of the plan reported completed
  attempt,    \* attempts made at the next statement
  faults,     \* what the environment has done so far, for the bounds
  approved,   \* history: the plan the operator agreed to, <<>> before that
  executed,   \* history: the statements of this run that committed
  lost        \* history: [by, table] of each table dropped with its rows

configVars     == <<desired, allowed>>
introspectVars == <<todo, view, asked>>
runnerVars     == <<plan, pos, attempt>>
historyVars    == <<approved, executed, lost>>
vars == <<dbVars, configVars, pc, error, introspectVars, runnerVars, faults, historyVars>>

Ended == {"idle", "upToDate", "blocked", "cancelled", "failed", "applied", "crashed"}
Reading == {"listTables", "introspectColumns", "introspectConstraints",
            "introspectIndexes", "introspectIndexColumns", "Diff"}
Deciding == {"CheckHazards", "confirm"}
Executing == {"Execute", "backoff"}

Errors == {"", "introspect", "diff", "refused", "conflict", "answer lost"}

\* todo is left out: its shape matters to no proof.
TypeOK ==
  /\ CatalogTypeOK
  /\ desired \in Desired
  /\ allowed \in [Operators -> SUBSET HazardTypes]
  /\ pc \in [Operators -> Ended \cup Reading \cup Deciding \cup Executing]
  /\ error \in [Operators -> Errors]
  /\ view \in [Operators -> Seq(Table)]
  /\ plan \in [Operators -> Seq(Statement)]
  /\ pos \in [Operators -> Nat]
  /\ attempt \in [Operators -> Nat]
  /\ faults \in [conflicts : 0..MaxConflicts, crashes : 0..MaxFaults,
                 badBuilds : 0..MaxBadBuilds]
  /\ approved \in [Operators -> Seq(Statement)]
  /\ executed \in [Operators -> Seq(Statement)]
  /\ lost \subseteq [by : Operators, table : STRING]

Init ==
  /\ \E c \in Catalogs : tables = c.tables /\ indexes = c.indexes
  /\ desired \in Desired
  /\ allowed \in [Operators -> HazardChoices]
  /\ pc = [p \in Operators |-> "idle"]
  /\ error = [p \in Operators |-> ""]
  /\ todo = [p \in Operators |-> <<>>]
  /\ view = [p \in Operators |-> <<>>]
  /\ asked = [p \in Operators |-> 0]
  /\ plan = [p \in Operators |-> <<>>]
  /\ pos = [p \in Operators |-> 0]
  /\ attempt = [p \in Operators |-> 0]
  /\ faults = [conflicts |-> 0, crashes |-> 0, badBuilds |-> 0]
  /\ approved = [p \in Operators |-> <<>>]
  /\ executed = [p \in Operators |-> <<>>]
  /\ lost = {}

Goto(p, from, to) ==
  /\ pc[p] = from
  /\ pc' = [pc EXCEPT ![p] = to]

Fail(p, why) == error' = [error EXCEPT ![p] = why]

-----------------------------------------------------------------------------
(* A run starts: flags, schema files and the connection are in order.      *)

Start(p) ==
  /\ pc[p] \in Ended
  /\ pc' = [pc EXCEPT ![p] = "listTables"]
  /\ error' = [error EXCEPT ![p] = ""]
  /\ plan' = [plan EXCEPT ![p] = <<>>]
  /\ pos' = [pos EXCEPT ![p] = 0]
  /\ attempt' = [attempt EXCEPT ![p] = 0]
  /\ approved' = [approved EXCEPT ![p] = <<>>]
  /\ executed' = [executed EXCEPT ![p] = <<>>]
  /\ UNCHANGED <<dbVars, configVars, introspectVars, faults, lost>>

-----------------------------------------------------------------------------
(* Introspect.                                                             *)

Introspecting(p) ==
  UNCHANGED <<dbVars, configVars, plan, pos, attempt, faults, historyVars>>

NextTable(left) == IF left = <<>> THEN "Diff" ELSE "introspectColumns"

ListTables(p) ==
  /\ Goto(p, "listTables", NextTable(listTables))
  /\ todo' = [todo EXCEPT ![p] = listTables]
  /\ view' = [view EXCEPT ![p] = <<>>]
  /\ asked' = [asked EXCEPT ![p] = 0]
  /\ UNCHANGED error
  /\ Introspecting(p)

\* The table in hand is the first of todo; its entry is the last of view.
ReadColumns(p) ==
  LET t == Head(todo[p])
  IN  /\ Goto(p, "introspectColumns", "introspectConstraints")
      /\ t \in DOMAIN tables
      /\ view' = [view EXCEPT ![p] =
                    Append(@, [name |-> t, columns |-> introspectColumns(t),
                               primaryKey |-> <<>>, uniques |-> <<>>,
                               checks |-> <<>>, indexes |-> <<>>])]
      /\ UNCHANGED <<error, todo, asked>>
      /\ Introspecting(p)

ReadConstraints(p) ==
  LET t == Head(todo[p])
      k == Len(view[p])
  IN  /\ Goto(p, "introspectConstraints", "introspectIndexes")
      /\ t \in DOMAIN tables
      /\ view' = [view EXCEPT ![p][k].primaryKey = tables[t].primaryKey,
                              ![p][k].uniques = tables[t].uniques,
                              ![p][k].checks = tables[t].checks]
      /\ UNCHANGED <<error, todo, asked>>
      /\ Introspecting(p)

\* Both queries cast the table's name to regclass.
TableVanished(p) ==
  /\ pc[p] \in {"introspectColumns", "introspectConstraints"}
  /\ Head(todo[p]) \notin DOMAIN tables
  /\ pc' = [pc EXCEPT ![p] = "failed"]
  /\ Fail(p, "introspect")
  /\ UNCHANGED introspectVars
  /\ Introspecting(p)

\* The table is complete: the next one, or Diff.
TableRead(p, from) ==
  /\ Goto(p, from, NextTable(Tail(todo[p])))
  /\ todo' = [todo EXCEPT ![p] = Tail(@)]
  /\ asked' = [asked EXCEPT ![p] = 0]

ReadIndexes(p) ==
  LET found == introspectIndexes(Head(todo[p]))
  IN  /\ pc[p] = "introspectIndexes"
      /\ view' = [view EXCEPT ![p][Len(view[p])].indexes = found]
      /\ IF found = <<>>
         THEN TableRead(p, "introspectIndexes")
         ELSE /\ Goto(p, "introspectIndexes", "introspectIndexColumns")
              /\ UNCHANGED <<todo, asked>>
      /\ UNCHANGED error
      /\ Introspecting(p)

\* One query per index found.
ReadIndexColumns(p) ==
  LET last  == Len(view[p])
      found == view[p][last].indexes
      k     == asked[p] + 1
  IN  /\ pc[p] = "introspectIndexColumns"
      /\ view' = [view EXCEPT ![p][last].indexes[k].columns =
                    introspectIndexColumns(found[k].name)]
      /\ IF k = Len(found)
         THEN TableRead(p, "introspectIndexColumns")
         ELSE /\ asked' = [asked EXCEPT ![p] = k]
              /\ UNCHANGED <<pc, todo>>
      /\ UNCHANGED error
      /\ Introspecting(p)

-----------------------------------------------------------------------------
(* Diff, CheckHazards and the prompt.                                      *)

Choosing(p) ==
  UNCHANGED <<dbVars, configVars, todo, asked, pos, attempt, faults, executed, lost>>

DiffSchemas(p) ==
  /\ pc[p] = "Diff"
  /\ view' = [view EXCEPT ![p] = <<>>]
  /\ \/ /\ DiffFails(view[p], desired[p])
        /\ pc' = [pc EXCEPT ![p] = "failed"]
        /\ Fail(p, "diff")
        /\ UNCHANGED plan
     \/ /\ ~DiffFails(view[p], desired[p])
        /\ \E stmts \in Diff(view[p], desired[p]) :
             /\ plan' = [plan EXCEPT ![p] = stmts]
             /\ pc' = [pc EXCEPT ![p] = IF stmts = <<>> THEN "upToDate"
                                        ELSE "CheckHazards"]
        /\ UNCHANGED error
  /\ UNCHANGED approved
  /\ Choosing(p)

\* Mutant: one acceptable statement lets the whole plan through.
PermittedAny(stmts, hazards) ==
  \E i \in DOMAIN stmts : stmts[i].hazards \subseteq hazards

\* Every hazard of every statement must be in --allow-hazards.
Permitted(stmts, hazards) ==
  \A i \in DOMAIN stmts : stmts[i].hazards \subseteq hazards

CheckHazards(p) ==
  /\ Goto(p, "CheckHazards",
          IF Permitted(plan[p], allowed[p]) THEN "confirm" ELSE "blocked")
  /\ UNCHANGED <<error, view, plan, approved>>
  /\ Choosing(p)

Confirm(p) ==
  /\ Goto(p, "confirm", "Execute")      \* --force, or "y" at the prompt
  /\ approved' = [approved EXCEPT ![p] = plan[p]]
  /\ UNCHANGED <<error, view, plan>>
  /\ Choosing(p)

Decline(p) ==
  /\ p \notin Forced
  /\ Goto(p, "confirm", "cancelled")
  /\ UNCHANGED <<error, view, plan, approved>>
  /\ Choosing(p)

-----------------------------------------------------------------------------
(* Execute and executeWithRetry.                                           *)

Running(p) == UNCHANGED <<configVars, introspectVars, plan, approved>>

\* Statements of the plan are left, and the retry loop is entered.
Sending(p) ==
  /\ pc[p] = "Execute"
  /\ pos[p] < Len(plan[p])
  /\ attempt[p] <= MaxRetries

Current(p) == plan[p][pos[p] + 1]

\* The statement commits: the catalog changes and the history notes it.
Commit(p) ==
  /\ ApplyDDL(Current(p))
  /\ executed' = [executed EXCEPT ![p] = Append(@, Current(p))]
  /\ lost' = IF Current(p).op = "DropTable" /\ tables[Current(p).name].rows
             THEN lost \cup {[by |-> p, table |-> Current(p).name]}
             ELSE lost

\* executeWithRetry returns nil: "Statement %d completed".
Completed(p) ==
  /\ pos' = [pos EXCEPT ![p] = @ + 1]
  /\ attempt' = [attempt EXCEPT ![p] = 0]

\* It does so without an attempt when --retries is negative.
StatementSucceeds(p) ==
  /\ pc[p] = "Execute"
  /\ pos[p] < Len(plan[p])
  /\ IF Sending(p) THEN Commit(p) ELSE UNCHANGED <<dbVars, executed, lost>>
  /\ Completed(p)
  /\ UNCHANGED <<pc, error, faults>>
  /\ Running(p)

\* Mutant: the error is logged and the next statement is sent.
StatementRefusedIgnored(p) ==
  /\ Sending(p)
  /\ Refused(Current(p))
  /\ Completed(p)
  /\ UNCHANGED <<dbVars, pc, error, faults, executed, lost>>
  /\ Running(p)

\* An error that is not an OCC conflict ends the run.
StatementRefused(p) ==
  /\ Sending(p)
  /\ Refused(Current(p))
  /\ pc' = [pc EXCEPT ![p] = "failed"]
  /\ Fail(p, "refused")
  /\ UNCHANGED <<dbVars, pos, attempt, faults, executed, lost>>
  /\ Running(p)

\* SQLSTATE 40001: nothing was changed; wait and try again, or give up.
StatementConflicts(p) ==
  /\ Sending(p)
  /\ faults.conflicts < MaxConflicts
  /\ faults' = [faults EXCEPT !.conflicts = @ + 1]
  /\ IF attempt[p] < MaxRetries
     THEN /\ pc' = [pc EXCEPT ![p] = "backoff"]
          /\ UNCHANGED error
     ELSE /\ pc' = [pc EXCEPT ![p] = "failed"]
          /\ Fail(p, "conflict")
  /\ UNCHANGED <<dbVars, pos, attempt, executed, lost>>
  /\ Running(p)

\* Mutant: the attempts are counted down.
RetryCountingDown(p) ==
  /\ Goto(p, "backoff", "Execute")
  /\ attempt' = [attempt EXCEPT ![p] = @ - 1]
  /\ UNCHANGED <<dbVars, error, pos, faults, executed, lost>>
  /\ Running(p)

\* time.After(delay) fires; the loop's post statement runs.
Retry(p) ==
  /\ Goto(p, "backoff", "Execute")
  /\ attempt' = [attempt EXCEPT ![p] = @ + 1]
  /\ UNCHANGED <<dbVars, error, pos, faults, executed, lost>>
  /\ Running(p)

\* The connection breaks after the commit: the error has no 40001 in it.
AnswerLost(p) ==
  /\ Sending(p)
  /\ faults.crashes < MaxFaults
  /\ faults' = [faults EXCEPT !.crashes = @ + 1]
  /\ Commit(p)
  /\ pc' = [pc EXCEPT ![p] = "failed"]
  /\ Fail(p, "answer lost")
  /\ UNCHANGED <<pos, attempt>>
  /\ Running(p)

\* "Migration applied successfully."
Finish(p) ==
  /\ pos[p] = Len(plan[p])
  /\ Goto(p, "Execute", "applied")
  /\ UNCHANGED <<dbVars, error, pos, attempt, faults, executed, lost>>
  /\ Running(p)

-----------------------------------------------------------------------------
(* The process dies, between two steps or while a statement is in flight;  *)
(* the cluster may still commit that statement.                            *)

Crash(p) ==
  /\ pc[p] \notin Ended
  /\ faults.crashes < MaxFaults
  /\ faults' = [faults EXCEPT !.crashes = @ + 1]
  /\ pc' = [pc EXCEPT ![p] = "crashed"]
  /\ \/ UNCHANGED <<dbVars, executed, lost>>
     \/ Sending(p) /\ Commit(p)
  /\ UNCHANGED <<error, pos, attempt>>
  /\ Running(p)

-----------------------------------------------------------------------------
(* The cluster.                                                            *)

ClusterStep ==
  UNCHANGED <<configVars, pc, error, introspectVars, runnerVars, historyVars>>

BuildIndex(n) == BuildSucceeds(n) /\ UNCHANGED faults /\ ClusterStep

BuildBreaks(n) ==
  /\ faults.badBuilds < MaxBadBuilds
  /\ faults' = [faults EXCEPT !.badBuilds = @ + 1]
  /\ BuildFails(n)
  /\ ClusterStep

InsertRow(t) == Insert(t) /\ UNCHANGED faults /\ ClusterStep

-----------------------------------------------------------------------------

Introspection(p) ==
  \/ ListTables(p) \/ ReadColumns(p) \/ ReadConstraints(p) \/ TableVanished(p)
  \/ ReadIndexes(p) \/ ReadIndexColumns(p)

Execution(p) ==
  \/ StatementSucceeds(p) \/ StatementRefused(p) \/ StatementConflicts(p)
  \/ Retry(p) \/ Finish(p)

\* What the process does by itself once it has been started.
Proceed(p) ==
  \/ Introspection(p) \/ DiffSchemas(p) \/ CheckHazards(p) \/ Confirm(p)
  \/ Execution(p)

Next ==
  \/ \E p \in Operators :
       Start(p) \/ Proceed(p) \/ Decline(p) \/ AnswerLost(p) \/ Crash(p)
  \/ \E n \in DOMAIN indexes : BuildIndex(n) \/ BuildBreaks(n)
  \/ \E t \in DOMAIN tables : InsertRow(t)

Spec == Init /\ [][Next]_vars

\* A started process goes on, an operator whose run ended starts another and
\* agrees to its plan, an index that is being built gets done.
Fairness ==
  /\ \A p \in Operators : WF_vars(Start(p)) /\ WF_vars(Proceed(p))
  /\ \A k \in DOMAIN Relnames :
       WF_vars(Relnames[k] \in DOMAIN indexes /\ BuildIndex(Relnames[k]))

FairSpec == Spec /\ Fairness

-----------------------------------------------------------------------------
(* Correctness.                                                            *)

\* The catalog defines what creating schema d from nothing would define, up
\* to column order and to what Diff compares (not the identity of a column,
\* not the letter case or the parentheses of an expression). Whether an
\* index has been built does not matter.
SameColumn(sc, dc, pk) ==
  LET want == Stored(ColumnDef(dc), pk)
  IN  /\ sc.name = want.name
      /\ sc.type = want.type
      /\ sc.nullable = want.nullable
      /\ normalizeDefault(sc.default) = normalizeDefault(want.default)

SameTable(t, dt) ==
  /\ Len(tables[t].columns) = Len(dt.columns)
  /\ \A dc \in ToSet(dt.columns) :
       \E sc \in ToSet(tables[t].columns) : SameColumn(sc, dc, dt.primaryKey)
  /\ tables[t].primaryKey = dt.primaryKey
  /\ ToSet(tables[t].uniques) = ToSet(dt.uniques)
  /\ CheckKeys(tables[t]) = CheckKeys(dt)

\* Index n of the indexes X is index di of table t.
IsIndex(X, n, t, di) ==
  /\ n \in DOMAIN X
  /\ X[n].on = t
  /\ X[n].columns = di.columns
  /\ X[n].include = di.include
  /\ X[n].unique = di.unique

SameIndex(n, t, di) == IsIndex(indexes, n, t, di)

Matches(d) ==
  /\ DOMAIN tables = Names(d)
  /\ DOMAIN indexes = UNION {Names(dt.indexes) : dt \in ToSet(d)}
  /\ \A dt \in ToSet(d) :
       /\ SameTable(dt.name, dt)
       /\ \A di \in ToSet(dt.indexes) : SameIndex(di.name, dt.name, di)

Settled(p) == pc[p] \in {"applied", "upToDate"}

SameDesired == \A p, q \in Operators : desired[p] = desired[q]

\* When every operator wants the same schema and every last run ended in
\* "applied successfully" or "up to date", the catalog is that schema, however
\* their queries and statements were interleaved.
SettledMatches ==
  SameDesired /\ (\A p \in Operators : Settled(p))
    => \A p \in Operators : Matches(desired[p])

\* The cluster refuses a statement of a plan only for a NOT NULL column that
\* the rows of the table have no value for, or for an index that is already
\* there as the plan wants it (its build was not over when it was read). So
\* the order Diff gives the statements never makes one of them impossible.
OrderIsSound ==
  \A p \in Operators :
    error[p] = "refused" =>
      LET stmt == plan[p][pos[p] + 1]
      IN  \/ stmt.op = "AddColumn" /\ Unfillable(stmt.name, stmt.column)
          \/ stmt.op = "CreateIndex" /\ SameIndex(stmt.name, stmt.on, stmt.index)

\* What the catalog prints for a definition compares equal to the definition.
RoundTrips(d) ==
  \A dt \in ToSet(d) :
    /\ \A c \in ToSet(dt.columns) :
         /\ NormalizeType(format_type(c.type)) = NormalizeType(c.type)
         /\ c.nullable = Stored(c, dt.primaryKey).nullable
    /\ \A i \in ToSet(dt.indexes) : i.include = <<>>

\* What the schema files define has names that the catalog can list.
Listed(d) ==
  Names(d) \cup UNION {Names(t.indexes) : t \in ToSet(d)} \subseteq ToSet(Relnames)

\* Index n of the indexes X is one that schema d defines.
Own(X, n, d) ==
  \E dt \in ToSet(d) : \E di \in ToSet(dt.indexes) :
    di.name = n /\ IsIndex(X, n, dt.name, di)

\* A table as the database keeps it.
SoundTable(t) ==
  /\ Distinct(t.columns)
  /\ ToSet(t.primaryKey) \subseteq Names(t.columns)
  /\ \A c \in ToSet(t.columns) :
       /\ format_type(c.type) = c.type
       /\ c.name \in ToSet(t.primaryKey) => ~c.nullable
       /\ c.identity # "" => c.default = NoDefault

\* The catalog a run against schema d may meet: an index it cannot see for
\* what it is, unfinished or with INCLUDE columns, is one that d defines.
SoundCatalog(T, X, d) ==
  /\ DOMAIN T \cup DOMAIN X \subseteq ToSet(Relnames)
  /\ \A t \in DOMAIN T : SoundTable(T[t])
  /\ \A n \in DOMAIN X :
       /\ X[n].on \in DOMAIN T
       /\ X[n].state # "valid" \/ X[n].include # <<>> => Own(X, n, d)

\* The schema files and the catalogs a run is made for.
WellPosed ==
  \A d \in Desired, p \in Operators :
    /\ WellFormed(d[p]) /\ Listed(d[p])
    /\ \A c \in Catalogs : SoundCatalog(c.tables, c.indexes, d[p])

AllBuilt == \A n \in DOMAIN indexes : indexes[n].state = "valid"

UpToDate(d) == ~DiffFails(LiveSchema, d) /\ Diff(LiveSchema, d) = {<<>>}

\* Once the runs have settled and the indexes are built, another plan is empty.
NoDrift ==
  SameDesired /\ AllBuilt /\ (\A p \in Operators : Settled(p))
    => \A p \in Operators : RoundTrips(desired[p]) => UpToDate(desired[p])

\* tests/tools/Makefile:32, "plan: expect no drift": the same, whatever the
\* schema files define.
ExpectNoDrift ==
  AllBuilt => \A p \in Operators : Settled(p) => UpToDate(desired[p])

\* README.md:402-406, changes of a column that cannot be migrated are errors:
\* a schema reported up to date has the columns and checks its files define,
\* letter for letter.
UpToDateIsExact ==
  \A p \in Operators : pc[p] = "upToDate" =>
    \A dt \in ToSet(desired[p]) :
      /\ ToSet(tables[dt.name].columns) =
           {Stored(ColumnDef(c), dt.primaryKey) : c \in ToSet(dt.columns)}
      /\ ToSet(tables[dt.name].checks) = ToSet(StoredAs(dt).checks)

\* Rows are lost only in a run whose operator passed DELETES_DATA.
DataLossIsAllowed == \A l \in lost : "DELETES_DATA" \in allowed[l.by]

\* A run never drops, with its rows, a table its schema files define.
KeptTablesKeepRows == \A l \in lost : l.table \notin Names(desired[l.by])

\* Crashes, lost answers and conflicts are made good by running apply again:
\* from any point the catalog gets to the desired schema and stays there.
Converges == <>[](\A p \in Operators : Matches(desired[p]))

-----------------------------------------------------------------------------
(* Apply implements the contract of module Migration.                      *)

PhaseOf(where) ==
  CASE where \in Reading \cup Deciding -> "deciding"
    [] where \in Executing             -> "running"
    [] where = "applied"               -> "applied"
    [] OTHER                           -> "stopped"

phase == [p \in Operators |-> PhaseOf(pc[p])]

Contract == INSTANCE Migration
ContractSpec == Contract!Spec

=============================================================================
