---------------------------- MODULE SchemaParse ----------------------------
(***************************************************************************)
(* internal/schema/parse.go, from one statement to a table or an index,    *)
(* and the text generate.go writes for a table. Regular expressions and    *)
(* string searches are translated to what they match of a sequence of      *)
(* lexemes; key words are in upper case, names in lower case.              *)
(***************************************************************************)
EXTENDS SqlText
LOCAL INSTANCE SequencesExt
LOCAL INSTANCE FiniteSetsExt

Open == {"(", "_("}

\* The result of what returns an error.
Failed == [name |-> "error"]

\* Parentheses open after position n, those in literals not counted.
Depth(s, n) ==
  LET Seen(ls) == {k \in 1..n : s[k] \in ls /\ ~Quoted(s, k)}
  IN  Cardinality(Seen(Open)) - Cardinality(Seen({")"}))

\* splitAtTopLevel, at commas.
Segments(s) ==
  Pieces(s, {n \in Positions(s, ",") : Depth(s, n) = 0 /\ ~Quoted(s, n)})

\* tokenizeColumnDef: blanks outside parentheses and quotes separate tokens.
Tokens(s) ==
  LET starts == {n \in DOMAIN s : n = 1 \/ /\ Depth(s, n - 1) = 0
                                           /\ ~Quoted(s, n)
                                           /\ s[n] \notin Glued}
      at     == InOrder(starts \cup {Len(s) + 1})
  IN  [k \in 1..Len(at) - 1 |-> SubSeq(s, at[k], at[k + 1] - 1)]

\* strings.HasPrefix on a segment: names that begin like the key word as well.
HasPrefix(seg, word) ==
  seg # <<>> /\ Head(seg) \in
    CASE word = "UNIQUE"     -> {"UNIQUE", "unique_code"}
      [] word = "CHECK"      -> {"CHECK", "check_in"}
      [] word = "CONSTRAINT" -> {"CONSTRAINT", "constraint_kind"}

\* From the first opening parenthesis to the last closing one; <<>> is none.
\* It begins anew: whether a blank was before it is forgotten.
Parenthesized(s) ==
  LET opens  == {n \in DOMAIN s : s[n] \in Open}
      closes == Positions(s, ")")
  IN  IF opens = {} \/ closes = {} \/ Max(closes \cup {0}) <= Min(opens \cup {Len(s)}) THEN <<>>
      ELSE <<"(">> \o SubSeq(s, Min(opens) + 1, Max(closes))

Inside(s) == SubSeq(s, 2, Len(s) - 1)

\* A name is a column of one lexeme; "name DESC" is a column as well.
parseColumnList(s) == NonEmpty(Pieces(s, Positions(s, ",")))

extractParenColumns(s) == parseColumnList(Inside(Parenthesized(s)))
extractParenExpr(s)    == IF Parenthesized(s) = <<>> THEN s ELSE Parenthesized(s)

-----------------------------------------------------------------------------
(* parseColumnDef: the clauses of a column.                                *)

TypeWords  == {<<"WITH">>, <<"WITHOUT">>, <<"PRECISION">>, <<"VARYING">>, <<"ZONE">>, <<"TIME">>}
ClauseEnds == {<<"NOT">>, <<"NULL">>, <<"PRIMARY">>, <<"UNIQUE">>, <<"CHECK">>, <<"GENERATED">>,
               <<"CONSTRAINT">>, <<"REFERENCES">>}

\* The first position after start whose token satisfies Stop, or the end.
NextAt(ts, start, Stop(_)) == Min({n \in start..Len(ts) : Stop(ts[n])} \cup {Len(ts) + 1})

\* The position after the type.
TypeEnd(ts) ==
  LET end == NextAt(ts, 3, LAMBDA t : t \notin TypeWords)
  IN  IF end <= Len(ts) /\ Head(ts[end]) \in Open THEN end + 1 ELSE end

Unglued(s) == [n \in DOMAIN s |-> IF s[n] = "_(" THEN "(" ELSE s[n]]

Follows(ts, n, words) ==
  \A k \in DOMAIN words : n + k \in DOMAIN ts /\ ts[n + k] = <<words[k]>>

\* parseIdentity: how many tokens after GENERATED belong to it.
IdentityWidth(ts, n, gen) ==
  LET from == n + (CASE gen = "ALWAYS" -> 1 [] gen = "BY DEFAULT" -> 2 [] OTHER -> 0)
      as   == IF Follows(ts, from, <<"AS">>) THEN 1 ELSE 0
  IN  from - n + as + (IF Follows(ts, from + as, <<"IDENTITY">>) THEN 1 ELSE 0)

Clause(kind, width, text) == [kind |-> kind, width |-> width, text |-> text]

\* Mutant: a default value is one token.
DefaultEndOneToken(ts, n) == Min({n + 2, Len(ts) + 1})

\* Parentheses open after the tokens from..to; here those in literals count.
RawDepth(ts, from, to) ==
  LET s == FlattenSeq(SubSeq(ts, from, to))
  IN  Cardinality({k \in DOMAIN s : s[k] \in Open}) - Cardinality(Positions(s, ")"))

\* parseDefaultExpr: up to the next key word outside parentheses.
DefaultEnd(ts, n) ==
  Min({k \in n + 1..Len(ts) : ts[k] \in ClauseEnds /\ RawDepth(ts, n + 1, k - 1) = 0}
        \cup {Len(ts) + 1})

\* extractCheckFromTokens: up to where the parentheses are closed.
CheckEnd(ts, n) ==
  Min({k \in n + 2..Len(ts) : RawDepth(ts, n + 1, k - 1) = 0} \cup {Len(ts) + 1})

Between(ts, n, end) == FlattenSeq(SubSeq(ts, n + 1, end - 1))

\* The clause that begins with token n; what begins none is ignored.
ClauseAt(ts, n) ==
  LET gen == CASE Follows(ts, n, <<"ALWAYS">>)        -> "ALWAYS"
               [] Follows(ts, n, <<"BY", "DEFAULT">>) -> "BY DEFAULT"
               [] OTHER                               -> ""
  IN CASE ts[n] = <<"NOT">> /\ Follows(ts, n, <<"NULL">>)    -> Clause("not null", 2, <<>>)
       [] ts[n] = <<"NULL">>                                 -> Clause("null", 1, <<>>)
       [] ts[n] = <<"DEFAULT">> ->
            Clause("default", DefaultEnd(ts, n) - n, Between(ts, n, DefaultEnd(ts, n)))
       [] ts[n] = <<"PRIMARY">> /\ Follows(ts, n, <<"KEY">>) -> Clause("primary key", 2, <<>>)
       [] ts[n] = <<"UNIQUE">>                               -> Clause("unique", 1, <<>>)
       [] ts[n] = <<"CHECK">> ->
            Clause("check", CheckEnd(ts, n) - n, Between(ts, n, CheckEnd(ts, n)))
       [] ts[n] = <<"GENERATED">> ->
            Clause(IF gen = "" THEN "ignored" ELSE "identity", 1 + IdentityWidth(ts, n, gen), <<gen>>)
       [] OTHER                                              -> Clause("ignored", 1, <<>>)

Clauses(ts) ==
  LET from[n \in 1..Len(ts) + 2] ==
        IF n > Len(ts) THEN <<>> ELSE <<ClauseAt(ts, n)>> \o from[n + ClauseAt(ts, n).width]
  IN  from[TypeEnd(ts)]

ApplyClause(c, clause) ==
  CASE clause.kind \in {"not null", "primary key"} -> [c EXCEPT !.nullable = FALSE]
    [] clause.kind = "null"                        -> [c EXCEPT !.nullable = TRUE]
    [] clause.kind = "default"                     -> [c EXCEPT !.default = clause.text]
    [] clause.kind = "identity"                    -> [c EXCEPT !.identity = Head(clause.text)]
    [] OTHER                                       -> c

\* The type is kept as written: NormalizeType, which parse.go applies to it, is
\* a matter of module Normalize.
parseColumnDef(ts) ==
  FoldLeft(ApplyClause,
           [name |-> Head(ts[1]), type |-> Unglued(FlattenSeq(SubSeq(ts, 2, TypeEnd(ts) - 1))),
            nullable |-> TRUE, default |-> <<>>, identity |-> ""],
           Clauses(ts))

-----------------------------------------------------------------------------
(* parseCreateTable. A constraint is its name and its columns, or its      *)
(* expression; a primary key is a sequence of at most one.                 *)

Constraint(name, of) == [name |-> name, of |-> of]

NewTable(name) ==
  [name |-> name, columns |-> <<>>, primaryKey |-> <<>>, uniques |-> <<>>, checks |-> <<>>,
   indexes |-> <<>>]

WithKey(t, name, cols)    == [t EXCEPT !.primaryKey = <<Constraint(name, cols)>>]
WithUnique(t, name, cols) == [t EXCEPT !.uniques = Append(@, Constraint(name, cols))]
WithCheck(t, name, expr)  == [t EXCEPT !.checks = Append(@, Constraint(name, expr))]

\* A column and the constraints written inline.
AddColumn(t, seg) ==
  LET ts  == Tokens(seg)
      col == parseColumnDef(ts)
      Inline(u, clause) ==
        CASE clause.kind = "primary key" -> WithKey(u, t.name \o "_pkey", <<<<col.name>>>>)
          [] clause.kind = "unique" -> WithUnique(u, t.name \o "_" \o col.name \o "_key", <<<<col.name>>>>)
          [] clause.kind = "check"  -> WithCheck(u, t.name \o "_" \o col.name \o "_check", clause.text)
          [] OTHER                  -> u
  IN  IF Len(ts) < 2 THEN Failed
      ELSE FoldLeft(Inline, [t EXCEPT !.columns = Append(@, col)], Clauses(ts))

\* A primary key or unique constraint wants columns in parentheses.
Keyed(seg, t) == IF Parenthesized(seg) = <<>> THEN Failed ELSE t

\* strings.Fields: the word is the n-th field of the segment, with a blank after it.
IsField(seg, n, word) == Len(seg) >= n /\ seg[n] = word /\ (Len(seg) > n => seg[n + 1] \notin Glued)

\* Key words are told among fields: UNIQUE(id) is none of them.
AddNamedConstraint(t, seg) ==
  LET name == seg[2]
      cols == extractParenColumns(seg)
  IN  CASE Len(seg) < 3 -> Failed
        [] IsField(seg, 3, "PRIMARY") /\ IsField(seg, 4, "KEY") -> Keyed(seg, WithKey(t, name, cols))
        [] IsField(seg, 3, "UNIQUE") -> Keyed(seg, WithUnique(t, name, cols))
        [] IsField(seg, 3, "CHECK")  -> WithCheck(t, name, extractParenExpr(seg))
        [] OTHER                     -> Failed

AddSegment(t, seg) ==
  LET cols == extractParenColumns(seg)
  IN  CASE t = Failed -> Failed
        [] Len(seg) > 1 /\ seg[1] = "PRIMARY" /\ seg[2] = "KEY" ->
             Keyed(seg, WithKey(t, t.name \o "_pkey", cols))
        [] HasPrefix(seg, "UNIQUE") ->
             Keyed(seg, WithUnique(t, FoldLeft(LAMBDA n, c : n \o "_" \o Head(c), t.name, cols) \o "_key", cols))
        [] HasPrefix(seg, "CHECK") -> WithCheck(t, t.name \o "_check", extractParenExpr(seg))
        [] HasPrefix(seg, "CONSTRAINT") -> AddNamedConstraint(t, seg)
        [] OTHER -> AddColumn(t, seg)

parseCreateTable(name, body) == FoldLeft(AddSegment, NewTable(name), Segments(body))

-----------------------------------------------------------------------------
(* parseStatements: which kind of statement it is.                         *)

\* createTableRe.
IsCreateTable(s) ==
  /\ Len(s) >= 5
  /\ SubSeq(s, 1, 2) = <<"CREATE", "TABLE">>
  /\ s[4] \in Open
  /\ s[Len(s)] = ")"

Table(s) == parseCreateTable(s[3], SubSeq(s, 5, Len(s) - 1))

\* createIndexRe; no closing parenthesis inside its lists.
IndexOf(s) ==
  LET u       == IF Len(s) > 1 /\ s[2] = "UNIQUE" THEN 1 ELSE 0
      closes  == Positions(s, ")")
      end     == IF closes = {} THEN 0 ELSE Min(closes)
      ending  == SubSeq(s, end + 1, Len(s))
      include == IF ending = <<>> THEN <<>> ELSE SubSeq(ending, 3, Len(ending) - 1)
  IN  IF /\ Len(s) > 8 + u
         /\ s[1] = "CREATE"
         /\ SubSeq(s, 2 + u, 3 + u) = <<"INDEX", "ASYNC">>
         /\ s[5 + u] = "ON" /\ s[7 + u] \in Open /\ end > 8 + u
         /\ \/ ending = <<>>
            \/ /\ Len(ending) > 3 /\ ending[1] = "INCLUDE" /\ ending[2] \in Open
               /\ Positions(ending, ")") = {Len(ending)}
      THEN <<[name |-> s[4 + u], table |-> s[6 + u], unique |-> u = 1,
              columns |-> parseColumnList(SubSeq(s, 8 + u, end - 1)),
              include |-> parseColumnList(include)]>>
      ELSE <<>>

\* skipRe.
IsSkipped(s) ==
  LET Objects == {"VIEW", "FUNCTION", "DOMAIN", "SEQUENCE", "ROLE", "SCHEMA"}
      object  == IF StandAt(<<"CREATE", "OR", "REPLACE">>, s, 1) THEN 4 ELSE 2
  IN  \/ Head(s) \in {"GRANT", "REVOKE"}
      \/ object <= Len(s) /\
           \/ Head(s) \in {"CREATE", "DROP"} /\ s[object] \in Objects
           \/ Head(s) = "CREATE" /\ StandAt(<<"RECURSIVE", "VIEW">>, s, object)
           \/ Head(s) = "ALTER" /\ s[object] \in {"VIEW", "SEQUENCE", "ROLE"}

-----------------------------------------------------------------------------
(* generate.go.                                                            *)

\* Sequences of lexemes, separated by commas.
Listed(parts) ==
  FlattenSeq([k \in DOMAIN parts |-> IF k = 1 THEN parts[k] ELSE <<",">> \o parts[k]])

InParens(s) == <<"(">> \o s \o <<")">>

\* Mutant: the default of an identity column is written as well.
generateColumnDefBoth(c) ==
  <<c.name>> \o c.type
    \o (IF c.nullable THEN <<>> ELSE <<"NOT", "NULL">>)
    \o (IF c.default # <<>> THEN <<"DEFAULT">> \o c.default ELSE <<>>)

generateColumnDef(c) ==
  <<c.name>> \o c.type
    \o (IF c.nullable THEN <<>> ELSE <<"NOT", "NULL">>)
    \o CASE c.identity = "ALWAYS"     -> <<"GENERATED", "ALWAYS", "AS", "IDENTITY">>
         [] c.identity = "BY DEFAULT" -> <<"GENERATED", "BY", "DEFAULT", "AS", "IDENTITY">>
         [] c.default # <<>>          -> <<"DEFAULT">> \o c.default
         [] OTHER                     -> <<>>

generateCreateTable(t) ==
  LET Named(k, kind, of) == <<"CONSTRAINT", k.name>> \o kind \o of
      Key(k)    == Named(k, <<"PRIMARY", "KEY">>, InParens(Listed(k.of)))
      Unique(k) == Named(k, <<"UNIQUE">>, InParens(Listed(k.of)))
      Checked(k) == Named(k, <<"CHECK">>, k.of)
      All(Def(_), s) == [k \in DOMAIN s |-> Def(s[k])]
  IN  <<"CREATE", "TABLE", t.name>> \o
        InParens(Listed(All(generateColumnDef, t.columns) \o All(Key, t.primaryKey)
                          \o All(Unique, t.uniques) \o All(Checked, t.checks)))

=============================================================================
