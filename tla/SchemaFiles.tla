---------------------------- MODULE SchemaFiles ----------------------------
(***************************************************************************)
(* From --schema to a schema: resolveSchemaFiles and verifySchemaFiles     *)
(* (cli/helpers.go), CheckSQL (verify/verify.go) and Parse                 *)
(* (internal/schema/parse.go), as the commands verify, plan and apply run  *)
(* them, and as the library does, which does not verify.                   *)
(*                                                                         *)
(* A file is a sequence of declarations; its text is what the declarations *)
(* are written as, its meaning what the database would make of them.       *)
(***************************************************************************)
EXTENDS SchemaParse
LOCAL INSTANCE SequencesExt

CONSTANTS
  Disks,         \* what the disk may hold: functions from paths to what is there
  Arguments,     \* the values of --schema
  Callers        \* "verify", "plan" (and apply), "library"

ASSUME FilesAssumption ==
  /\ Callers \subseteq {"verify", "plan", "library"}
  /\ Arguments \subseteq Seq(STRING)
  /\ \A d \in Disks : \A p \in DOMAIN d : d[p].kind = "dir" => d[p].files \in Seq(STRING)

VARIABLES
  disk, caller,  \* chosen at the start
  phase,         \* "resolve", "verify", "read", "parse" or "ended"
  todo,          \* the arguments, files or statements still to be dealt with
  files,         \* resolved
  violations,    \* [file, line] of each line that breaks a rule
  stmts,         \* the statements read
  tableMap, tableOrder,
  outcome        \* why it ended

vars == <<disk, caller, phase, todo, files, violations, stmts, tableMap, tableOrder, outcome>>

-----------------------------------------------------------------------------
(* External: declarations, as an author writes them and as SQL means them. *)

\* A column [name, type, clauses], a clause [kind, words]; a table constraint
\* [kind, label, words], label the words of CONSTRAINT name.
ColumnText(c)  == <<c.name>> \o c.type \o FlattenSeq([k \in DOMAIN c.clauses |-> c.clauses[k].words])
ElementText(e) == IF "clauses" \in DOMAIN e THEN ColumnText(e) ELSE e.label \o e.words

Text(d) ==
  CASE d.kind = "table" ->
         <<"CREATE", "TABLE", d.name, "(", "nl">>
           \o FlattenSeq([k \in DOMAIN d.elements |->
                            ElementText(d.elements[k])
                              \o (IF k < Len(d.elements) THEN <<",", "nl">> ELSE <<"nl">>)])
           \o <<")", ";", "nl">>
    [] d.kind = "index" ->
         <<"CREATE">> \o (IF d.unique THEN <<"UNIQUE">> ELSE <<>>)
           \o <<"INDEX", "ASYNC", d.name, "ON", d.table, "(">> \o Listed(d.columns) \o <<")">>
           \o (IF d.include = <<>> THEN <<>> ELSE <<"INCLUDE", "(">> \o Listed(d.include) \o <<")">>)
           \o <<";", "nl">>
    [] OTHER -> d.words

FileText(file) == FlattenSeq([k \in DOMAIN file |-> Text(file[k])])

KindsOf(c) == {c.clauses[k].kind : k \in DOMAIN c.clauses}

\* The words of the clause of a kind, without its key words.
Value(c, kind, skip) ==
  LET k == SelectInSeq(c.clauses, LAMBDA x : x.kind = kind)
  IN  IF k = 0 THEN <<>> ELSE SubSeq(c.clauses[k].words, skip + 1, Len(c.clauses[k].words))

\* A column of a key is NOT NULL, and so is an identity.
ColumnMeaning(c, keyed) ==
  [name |-> c.name, type |-> Unglued(c.type),
   nullable |-> KindsOf(c) \cap {"not null", "primary key", "always", "by default"} = {} /\ ~keyed,
   default |-> Value(c, "default", 1),
   identity |-> CASE "always" \in KindsOf(c) -> "ALWAYS"
                  [] "by default" \in KindsOf(c) -> "BY DEFAULT"
                  [] OTHER -> ""]

\* Columns and constraints of a table, regardless of how the clauses of a
\* column are ordered and where constraints are written.
Meaning(d) ==
  LET columns     == SelectSeq(d.elements, LAMBDA e : "clauses" \in DOMAIN e)
      constraints == SelectSeq(d.elements, LAMBDA e : "clauses" \notin DOMAIN e)
      Inline(kind)  == {c \in ToSet(columns) : kind \in KindsOf(c)}
      Apart(kind)   == {e.of : e \in {e \in ToSet(constraints) : e.kind = kind}}
      Keyed_(c)     == \E of \in Apart("primary key") : <<c.name>> \in ToSet(of)
  IN  [name |-> d.name,
       columns |-> [k \in DOMAIN columns |-> ColumnMeaning(columns[k], Keyed_(columns[k]))],
       primaryKey |-> {<<<<c.name>>>> : c \in Inline("primary key")} \cup Apart("primary key"),
       uniques |-> {<<<<c.name>>>> : c \in Inline("unique")} \cup Apart("unique"),
       checks |-> {Value(c, "check", 1) : c \in Inline("check")} \cup Apart("check")]

\* What is not valid: a statement deesql does not take, an index before its table.
Invalid(ds) ==
  LET Early(k) == \A j \in 1..k - 1 : ~(ds[j].kind = "table" /\ ds[j].name = ds[k].table)
  IN  \E k \in DOMAIN ds : ds[k].kind = "other" \/ (ds[k].kind = "index" /\ Early(k))

\* The tables of a sequence of declarations with their indexes.
Declared(ds) ==
  LET tables == SelectSeq(ds, LAMBDA d : d.kind = "table")
      IndexesOf(n) ==
        LET on == SelectSeq(ds, LAMBDA d : d.kind = "index" /\ d.table = n)
        IN  [k \in DOMAIN on |-> [name |-> on[k].name, table |-> n, unique |-> on[k].unique,
                                  columns |-> on[k].columns, include |-> on[k].include]]
  IN  [k \in DOMAIN tables |->
         [table |-> Meaning(tables[k]), indexes |-> IndexesOf(tables[k].name)]]

-----------------------------------------------------------------------------

\* On the disk: a directory with its .sql files in order, a .sql file, another
\* file; a path that is not in its domain is missing.
Content == [p \in {p \in DOMAIN disk : disk[p].kind = "sql"} |-> disk[p].file]

TypeOK ==
  /\ caller \in Callers
  /\ phase \in {"resolve", "verify", "read", "parse", "ended"}
  /\ todo \in IF phase = "parse" THEN Seq(Seq(STRING)) ELSE Seq(STRING)
  /\ files \in Seq(STRING)
  /\ violations \subseteq [file : STRING, line : Nat]
  /\ stmts \in Seq(Seq(STRING))
  /\ tableOrder \in Seq(STRING) /\ DOMAIN tableMap = {tableOrder[k] : k \in DOMAIN tableOrder}
  /\ outcome \in {"", "no .sql file", "unreadable", "violations", "compatible", "unsupported",
                  "unknown table", "parsed"}

Init ==
  /\ disk \in Disks
  /\ caller \in Callers
  /\ \E args \in Arguments :
       IF caller = "library"
       THEN /\ \A k \in DOMAIN args : args[k] \in DOMAIN disk => disk[args[k]].kind # "dir"
            /\ phase = "read" /\ todo = args /\ files = args
       ELSE phase = "resolve" /\ todo = args /\ files = <<>>
  /\ violations = {} /\ stmts = <<>>
  /\ tableMap = [n \in {} |-> NewTable(n)] /\ tableOrder = <<>>
  /\ outcome = ""

Ends(why) == phase' = "ended" /\ outcome' = why /\ todo' = <<>>

-----------------------------------------------------------------------------
(* resolveSchemaFiles.                                                     *)

Matches(p) ==
  LET Is(kind) == p \in DOMAIN disk /\ disk[p].kind = kind
  IN  CASE Is("dir") -> disk[p].files
        [] Is("sql") -> <<p>>
        [] OTHER     -> <<>>

Resolve ==
  /\ phase = "resolve"
  /\ IF todo = <<>>
     THEN phase' = "verify" /\ todo' = files /\ UNCHANGED <<files, outcome>>
     ELSE IF Matches(Head(todo)) = <<>>
     THEN Ends("no .sql file") /\ UNCHANGED files
     ELSE /\ files' = files \o Matches(Head(todo))
          /\ todo' = Tail(todo)
          /\ UNCHANGED <<phase, outcome>>
  /\ UNCHANGED <<disk, caller, violations, stmts, tableMap, tableOrder>>

-----------------------------------------------------------------------------
(* CheckFiles and CheckSQL: line by line.                                  *)

\* Words that break a rule wherever they stand.
Banned ==
  {"TRUNCATE", "SERIAL", "SMALLSERIAL", "BIGSERIAL", "money", "xml", "cidr", "macaddr", "macaddr8",
   "point", "line", "lseg", "box", "path", "polygon", "circle", "tsvector", "tsquery", "int4range",
   "int8range", "numrange", "tsrange", "tstzrange", "daterange", "hstore", "jsonb", "json"}

\* Words in a row, one blank or more between them.
Phrases ==
  {<<"CREATE", w>> : w \in {"DATABASE", "EXTENSION", "TABLESPACE", "TYPE"}}
  \cup {<<"CREATE">> \o o \o <<w>> : o \in {<<>>, <<"OR", "REPLACE">>}, w \in {"TRIGGER", "PROCEDURE", "RULE"}}
  \cup {<<"CREATE">> \o g \o <<w, "TABLE">> :
          g \in {<<>>, <<"GLOBAL">>, <<"LOCAL">>}, w \in {"TEMP", "TEMPORARY"}}
  \cup {<<"CREATE", "UNLOGGED", "TABLE">>, <<"CREATE", "MATERIALIZED", "VIEW">>,
        <<"CREATE", "INDEX", "CONCURRENTLY">>, <<"CREATE", "UNIQUE", "INDEX", "CONCURRENTLY">>,
        <<"FOREIGN", "KEY">>, <<"INHERITS", "(">>, <<"INHERITS", "_(">>, <<")", "PARTITION", "BY">>,
        <<"EXCLUDE", "(">>, <<"EXCLUDE", "USING", "(">>}
  \cup {<<"USING", w>> : w \in {"hash", "gin", "gist", "brin", "spgist"}}
  \cup {<<"LANGUAGE", w>> :
          w \in {"plpgsql", "plv8", "plperl", "plpython", "plpython3u", "pltcl", "c"}}

Has(line, phrase) == \E n \in Positions(line, Head(phrase)) : StandAt(phrase, line, n)

References(line) == \E n \in 1..Len(line) - 1 : line[n] = "REFERENCES"

\* An index that is not ASYNC; one that is on the same line excuses it.
NotAsync(line) ==
  /\ Has(line, <<"CREATE", "INDEX">>) \/ Has(line, <<"CREATE", "UNIQUE", "INDEX">>)
  /\ ~(Has(line, <<"CREATE", "INDEX", "ASYNC">>) \/ Has(line, <<"CREATE", "UNIQUE", "INDEX", "ASYNC">>))

Breaks(line) ==
  \/ \E n \in DOMAIN line : line[n] \in Banned
  \/ \E p \in Phrases : Has(line, p)
  \/ References(line) \/ NotAsync(line)

CheckSQL(f) ==
  LET lines == Lines(FileText(Content[f]))
  IN  {[file |-> f, line |-> n] :
         n \in {n \in DOMAIN lines : ~IsComment(lines[n]) /\ Breaks(lines[n])}}

\* os.ReadFile fails: a path of the library that is no file, or the file has
\* gone since.
Unreadable ==
  /\ phase \in {"verify", "read"}
  /\ todo # <<>>
  /\ Ends("unreadable")
  /\ UNCHANGED <<disk, caller, files, violations, stmts, tableMap, tableOrder>>

Verify ==
  /\ phase = "verify"
  /\ todo # <<>>
  /\ violations' = violations \cup CheckSQL(Head(todo))
  /\ todo' = Tail(todo)
  /\ UNCHANGED <<disk, caller, phase, files, stmts, tableMap, tableOrder, outcome>>

\* Mutant: the plan is made in spite of violations.
VerifiedLeniently ==
  /\ phase = "verify"
  /\ todo = <<>>
  /\ IF caller = "verify"
     THEN Ends(IF violations = {} THEN "compatible" ELSE "violations")
     ELSE phase' = "read" /\ todo' = files /\ UNCHANGED outcome
  /\ UNCHANGED <<disk, caller, files, violations, stmts, tableMap, tableOrder>>

\* Every file has been verified.
Verified ==
  /\ phase = "verify"
  /\ todo = <<>>
  /\ IF caller = "verify" \/ violations # {}
     THEN Ends(IF violations = {} THEN "compatible" ELSE "violations")
     ELSE phase' = "read" /\ todo' = files /\ UNCHANGED outcome
  /\ UNCHANGED <<disk, caller, files, violations, stmts, tableMap, tableOrder>>

-----------------------------------------------------------------------------
(* Parse.                                                                  *)

\* Each file is read again.
ReadFile ==
  /\ phase = "read"
  /\ todo # <<>>
  /\ Head(todo) \in DOMAIN Content
  /\ stmts' = stmts \o splitStatements(FileText(Content[Head(todo)]))
  /\ todo' = Tail(todo)
  /\ UNCHANGED <<disk, caller, phase, files, violations, tableMap, tableOrder, outcome>>

AllRead ==
  /\ phase = "read"
  /\ todo = <<>>
  /\ phase' = "parse"
  /\ todo' = stmts
  /\ UNCHANGED <<disk, caller, files, violations, stmts, tableMap, tableOrder, outcome>>

ParseFrame == UNCHANGED <<disk, caller, files, violations, stmts>>

\* A second table of the same name takes the place of the first, and is
\* listed again.
ParseCreateTable ==
  /\ phase = "parse" /\ todo # <<>> /\ IsCreateTable(Head(todo))
  /\ LET t == Table(Head(todo))
     IN  IF t = Failed
         THEN Ends("unsupported") /\ UNCHANGED <<tableMap, tableOrder>>
         ELSE /\ tableMap' = [n \in DOMAIN tableMap \cup {t.name} |->
                                IF n = t.name THEN t ELSE tableMap[n]]
              /\ tableOrder' = Append(tableOrder, t.name)
              /\ todo' = Tail(todo)
              /\ UNCHANGED <<phase, outcome>>
  /\ ParseFrame

\* Mutant: an index is put on its table whether it is there or not.
ParseCreateIndexAnywhere ==
  /\ phase = "parse" /\ todo # <<>>
  /\ ~IsCreateTable(Head(todo))
  /\ IndexOf(Head(todo)) # <<>>
  /\ LET i == IndexOf(Head(todo))[1]
         t == IF i.table \in DOMAIN tableMap THEN tableMap[i.table] ELSE NewTable(i.table)
     IN  tableMap' = [n \in DOMAIN tableMap \cup {i.table} |->
                        IF n = i.table THEN [t EXCEPT !.indexes = Append(@, i)] ELSE tableMap[n]]
  /\ todo' = Tail(todo)
  /\ UNCHANGED <<phase, outcome, tableOrder>>
  /\ ParseFrame

ParseCreateIndex ==
  /\ phase = "parse" /\ todo # <<>>
  /\ ~IsCreateTable(Head(todo))
  /\ IndexOf(Head(todo)) # <<>>
  /\ LET i == IndexOf(Head(todo))[1]
     IN  IF i.table \notin DOMAIN tableMap
         THEN Ends("unknown table") /\ UNCHANGED tableMap
         ELSE /\ tableMap' = [tableMap EXCEPT ![i.table].indexes = Append(@, i)]
              /\ todo' = Tail(todo)
              /\ UNCHANGED <<phase, outcome>>
  /\ UNCHANGED tableOrder
  /\ ParseFrame

\* What the parser does not manage is skipped, what it does not know is an error.
ParseOther ==
  /\ phase = "parse" /\ todo # <<>>
  /\ ~IsCreateTable(Head(todo))
  /\ IndexOf(Head(todo)) = <<>>
  /\ IF IsSkipped(Head(todo))
     THEN todo' = Tail(todo) /\ UNCHANGED <<phase, outcome>>
     ELSE Ends("unsupported")
  /\ UNCHANGED <<tableMap, tableOrder>>
  /\ ParseFrame

AllParsed ==
  /\ phase = "parse" /\ todo = <<>>
  /\ Ends("parsed")
  /\ UNCHANGED <<tableMap, tableOrder>>
  /\ ParseFrame

ParseStatements == ParseCreateTable \/ ParseCreateIndex \/ ParseOther \/ AllParsed

Next == Resolve \/ Unreadable \/ Verify \/ Verified \/ ReadFile \/ AllRead \/ ParseStatements

Spec == Init /\ [][Next]_vars

-----------------------------------------------------------------------------
(* Correctness.                                                            *)

\* ParseOutput.Schema.
Schema == [k \in DOMAIN tableOrder |-> tableMap[tableOrder[k]]]

\* All there is to declare.
Declarations == FlattenSeq([k \in DOMAIN files |-> Content[files[k]]])

\* A table as parsed, names of constraints left out.
Understood(t) ==
  LET Of(s) == {s[k].of : k \in DOMAIN s}
  IN  [table |-> [name |-> t.name, columns |-> t.columns, primaryKey |-> Of(t.primaryKey),
                  uniques |-> Of(t.uniques), checks |-> Of(t.checks)],
       indexes |-> t.indexes]

\* The three places that cut SQL into statements agree with the database on
\* text that has comments on lines of their own and no semicolon in literals.
SplitsAlike ==
  \A f \in DOMAIN Content :
    LET text == FileText(Content[f])
        Stripped(parts) == NonEmpty([k \in DOMAIN parts |-> stripComments(parts[k])])
    IN  Plain(text) =>
          /\ splitStatements(text) = Reads(text)
          /\ splitSQL(text) = Reads(text)
          /\ Stripped(splitQuoted(text)) = Reads(text)

\* The schema is what the files declare, whatever the order of the clauses of
\* a column and the place of its constraints; nothing declared is lost and
\* nothing valid is turned down. Of files whose literals have as many closing
\* as opening parentheses (parseDefaultExpr counts those as well), that say NOT
\* NULL of identities and of the columns of a key (parseColumnDef does not know
\* it of itself), and that put a blank after the key words of a constraint with
\* a name (parseNamedConstraint splits at blanks).
FilesAreUnderstood ==
  /\ outcome = "parsed" => /\ ~Invalid(Declarations)
                           /\ [k \in DOMAIN Schema |-> Understood(Schema[k])] = Declared(Declarations)
  /\ outcome \in {"unsupported", "unknown table"} => Invalid(Declarations)

\* What generate.go writes for a table is read back as the same table: apply
\* executes what was parsed.
PrintedIsParsed ==
  \A k \in DOMAIN Schema :
    LET s == generateCreateTable(Schema[k])
    IN  IsCreateTable(s) /\ Table(s) = [Schema[k] EXCEPT !.indexes = <<>>]

\* No statement that breaks a rule gets into a plan, though the parser skips
\* the clauses it does not know: of files whose phrases are not broken over
\* lines, verification reading line by line and the parser statement by
\* statement.
NothingSlipsThrough ==
  outcome = "parsed" /\ caller = "plan" => \A k \in DOMAIN stmts : ~Breaks(stmts[k])

\* The files of a disk.
TextsOf(d) == {FileText(d[p].file) : p \in {p \in DOMAIN d : d[p].kind = "sql"}}

\* A text is a sequence of lexemes.
TextsAreWords == \A d \in Disks : TextsOf(d) \subseteq Seq(STRING)

\* The statements parsed are those of the files without their comments, where
\* the files have comments after columns too. parse_test.go:162: "comments are
\* stripped".
CommentsAreStripped ==
  outcome = "parsed" =>
    stmts = FlattenSeq([k \in DOMAIN files |-> Reads(FileText(Content[files[k]]))])

=============================================================================
