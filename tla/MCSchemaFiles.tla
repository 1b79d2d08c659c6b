--------------------------- MODULE MCSchemaFiles ---------------------------
(***************************************************************************)
(* Declarations and disks for the runs of SchemaFiles.                     *)
(***************************************************************************)
EXTENDS SchemaFiles

Clause_(kind, words) == [kind |-> kind, words |-> words]

NotNull    == Clause_("not null", <<"NOT", "NULL">>)
PrimaryKey == Clause_("primary key", <<"PRIMARY", "KEY">>)
Unique     == Clause_("unique", <<"UNIQUE">>)
Positive   == Clause_("check", <<"CHECK", "(", "x", ">", "0", ",", "1", ")">>)
Now        == Clause_("default", <<"DEFAULT", "now", "_(", ")", "::TEXT">>)
Sum3       == Clause_("default", <<"DEFAULT", "1", "+", "(", "2", ")">>)
Quote      == Clause_("default", <<"DEFAULT", "'", "NOT", "NULL", ",", "_(", ")", "'">>)
Bracket    == Clause_("default", <<"DEFAULT", "'", "_(", "'">>)
Null       == Clause_("null", <<"NULL">>)
Always     == Clause_("always", <<"GENERATED", "ALWAYS", "AS", "IDENTITY">>)
ByDefault  == Clause_("by default", <<"GENERATED", "BY", "DEFAULT", "AS", "IDENTITY", "(", "START", ")">>)

Types == {<<"TEXT">>, <<"VARCHAR", "_(", "10", ")">>, <<"NUMERIC", "(", "8", ",", "2", ")">>,
          <<"TIMESTAMP", "WITH", "TIME", "ZONE">>}

\* The clauses of a column, in every order.
Orders(S) == {p \in [1..Cardinality(S) -> S] : \A i, j \in DOMAIN p : i # j => p[i] # p[j]}
ClauseSets ==
  {S \in SUBSET {Null, NotNull, PrimaryKey, Unique, Positive, Now, Sum3, Quote, Always, ByDefault} :
     /\ Cardinality(S) <= 3
     /\ Cardinality(S \cap {Now, Sum3, Quote, Always, ByDefault}) <= 1
     /\ Null \in S => S \cap {NotNull, PrimaryKey, Always, ByDefault} = {}
     /\ S \cap {Always, ByDefault} # {} => S \cap {NotNull, PrimaryKey} # {}}

Column_(name, type, clauses) == [name |-> name, type |-> type, clauses |-> clauses]
Id    == Column_("id", <<"UUID">>, <<NotNull>>)
Plain_ == Column_("email", <<"TEXT">>, <<NotNull>>)

Columns == {Column_("x", <<"INTEGER">>, p) : p \in UNION {Orders(S) : S \in ClauseSets}}
           \cup {Column_("x", t, p) : t \in Types, p \in {<<>>, <<NotNull>>, <<Now, NotNull>>}}

Table_(name, elements) == [kind |-> "table", name |-> name, elements |-> elements]
Index_(name, table, unique, columns, include) ==
  [kind |-> "index", name |-> name, table |-> table, unique |-> unique, columns |-> columns,
   include |-> include]
Other(words)   == [kind |-> "other", words |-> words]
Skipped(words) == [kind |-> "skipped", words |-> words]
Remark(words)  == [kind |-> "comment", words |-> <<"--">> \o words \o <<"nl">>]

Apart(kind, label, key, words, of) ==
  [kind |-> kind, label |-> label, words |-> key \o words, of |-> of]
IdEmail == <<"(", "id", ",", "email", ")">>
NoBlank(words) == <<"_(">> \o Tail(words)
Condition == <<"(", "(", "id", ")", ">", "(", "0", ")", ")">>
Constraints ==
  {Apart("primary key", label, <<"PRIMARY", "KEY">>, IdEmail, <<<<"id">>, <<"email">>>>) :
     label \in {<<>>, <<"CONSTRAINT", "k">>}}
  \cup {Apart("unique", label, <<"UNIQUE">>, IdEmail, <<<<"id">>, <<"email">>>>) :
     label \in {<<>>, <<"CONSTRAINT", "u">>}}
  \cup {Apart("check", label, <<"CHECK">>, Condition, Condition) :
     label \in {<<>>, <<"CONSTRAINT", "c">>}}
  \cup {Apart("primary key", <<>>, <<"PRIMARY", "KEY">>, NoBlank(IdEmail), <<<<"id">>, <<"email">>>>),
        Apart("unique", <<>>, <<"UNIQUE">>, NoBlank(IdEmail), <<<<"id">>, <<"email">>>>),
        Apart("check", <<>>, <<"CHECK">>, NoBlank(Condition), Condition)}

\* One column of every kind; constraints before, between and after columns.
Tables ==
  {Table_("t", <<c>>) : c \in Columns}
  \cup {Table_("t", <<Id, Plain_, k>>) : k \in Constraints}
  \cup {Table_("t", <<k, Id, Plain_>>) : k \in Constraints}
  \cup {Table_("t", <<Id, k, Plain_>>) : k \in Constraints}

Foreign == Table_("t", <<Id, Column_("y", <<"UUID">>,
             <<Clause_("references", <<"REFERENCES", "u", "(", "id", ")">>)>>)>>)

ByEmail(table) == Index_("by_email", table, TRUE, <<<<"email">>>>, <<<<"id">>, <<"email">>>>)
ById(table)    == Index_("by_id", table, FALSE, <<<<"id">>, <<"email">>>>, <<>>)

Users == Table_("u", <<Id, Plain_>>)

\* Other files, beside that of the table.
Others ==
  {<<>>, <<Users, ByEmail("u"), ById("u")>>, <<ById("t"), Users>>, <<ById("u"), Users>>,
   <<Remark(<<"indexes">>), ByEmail("t"), Remark(<<"last">>), ById("t")>>,
   <<Skipped(<<"CREATE", "VIEW", "v", "AS", "SELECT", "1", ";", "nl">>), Users>>,
   <<Skipped(<<"GRANT", "SELECT", ";">>), Remark(<<"and">>), ById("t")>>,
   <<Other(<<"DROP", "TABLE", "t", ";">>)>>, <<Users, Other(<<"CREATE", "TRIGGER", "g", ";">>)>>,
   <<Users, Other(<<"CREATE", "INDEX", "i", "ON", "u", "(", "id", ")", ";", "nl">>)>>}

Sql(file) == [kind |-> "sql", file |-> file]
Disk(a, b) ==
  [p \in {"a.sql", "b.sql", "dir", "empty", "notes.txt"} |->
     CASE p = "a.sql"     -> Sql(a)
       [] p = "b.sql"     -> Sql(b)
       [] p = "dir"       -> [kind |-> "dir", files |-> <<"a.sql", "b.sql">>]
       [] p = "empty"     -> [kind |-> "dir", files |-> <<>>]
       [] p = "notes.txt" -> [kind |-> "other"]]

\* Every table beside two files of indexes; a few beside every file.
FewTables == {Table_("t", <<Id, Plain_>>), Foreign}
MixedDisks ==
  {Disk(<<t>>, <<ById("t")>>) : t \in Tables} \cup {Disk(<<t>>, b) : t \in FewTables, b \in Others}

MixedArguments ==
  {<<"dir">>, <<"b.sql", "a.sql">>, <<"a.sql">>, <<"empty">>, <<"a.sql", "notes.txt">>, <<"missing">>}

\* A comment after a column.
Commented ==
  Table_("t", <<Id, [name |-> "email", type |-> <<"TEXT", ",", "--", "work", "nl", "home", "TEXT">>,
                     clauses |-> <<>>]>>)
CommentedDisks == {Disk(<<Commented>>, b) : b \in Others}

\* A literal with one parenthesis, before another clause.
BracketDisks ==
  {Disk(<<Table_("t", <<Id, Column_("x", <<"TEXT">>, <<Bracket, NotNull>>)>>)>>, b) : b \in Others}

\* An identity, or the column of a key, of which NOT NULL is not said.
IdentityDisks == {Disk(<<Table_("t", <<Id, Column_("x", <<"BIGINT">>, <<Always>>)>>)>>, b) : b \in Others}
KeyDisks ==
  {Disk(<<Table_("t", <<Column_("id", <<"UUID">>, <<>>), Plain_, k>>)>>, b) : k \in Constraints, b \in Others}

\* A constraint with a name, and no blank before its parenthesis.
NoBlankDisks ==
  {Disk(<<Table_("t", <<Id, Plain_, Apart("unique", <<"CONSTRAINT", "u">>, <<"UNIQUE">>, NoBlank(IdEmail),
                                          <<<<"id">>, <<"email">>>>)>>)>>, b) : b \in Others}

\* The hypothesis of theorem OnlyCleanFilesPass holds of the disks of the run.
ASSUME Words == TextsAreWords
=============================================================================
