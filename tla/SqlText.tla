------------------------------ MODULE SqlText ------------------------------
(***************************************************************************)
(* How the program cuts SQL text into statements: splitStatements and      *)
(* stripComments of internal/schema/parse.go, splitSQL of cli/sql.go and   *)
(* splitStatements of internal/proxy/intercept.go, none of which reads SQL *)
(* as the database does.                                                   *)
(*                                                                         *)
(* A text is a sequence of lexemes: words, punctuation, "nl" for the end   *)
(* of a line, "--" and the quote "'". Blanks are left out; a lexeme in     *)
(* Glued has none before it.                                               *)
(***************************************************************************)
EXTENDS Naturals, Sequences, FiniteSets
LOCAL INSTANCE SequencesExt

Glued == {"_(", "::TEXT", "_ok"}

Positions(s, l) == {n \in DOMAIN s : s[n] = l}

InOrder(S) ==
  [k \in 1..Cardinality(S) |-> CHOOSE n \in S : Cardinality({m \in S : m < n}) = k - 1]

\* The pieces of s between the positions in cuts.
Pieces(s, cuts) ==
  LET c == InOrder(cuts \cup {0, Len(s) + 1})
  IN  [k \in 1..Len(c) - 1 |-> SubSeq(s, c[k] + 1, c[k + 1] - 1)]

\* The words stand in s from position n on.
StandAt(words, s, n) == \A k \in DOMAIN words : n + k - 1 \in DOMAIN s /\ s[n + k - 1] = words[k]

NonEmpty(parts) ==
  LET at == InOrder({k \in DOMAIN parts : parts[k] # <<>>})
  IN  [k \in DOMAIN at |-> parts[at[k]]]

Without(s, l)    == SelectSeq(s, LAMBDA x : x # l)
Lines(text)      == Pieces(text, Positions(text, "nl"))
IsComment(line)  == line # <<>> /\ Head(line) = "--"

-----------------------------------------------------------------------------

\* Mutant: only a part that starts with a comment loses it.
stripHead(part) == IF IsComment(part) THEN <<>> ELSE Without(part, "nl")

\* Lines that are comments go; the end of a line is a blank like others.
stripComments(part) == FlattenSeq(SelectSeq(Lines(part), LAMBDA l : ~IsComment(l)))

\* internal/schema: every semicolon ends a statement.
splitStatements(text) ==
  LET parts == Pieces(text, Positions(text, ";"))
  IN  NonEmpty([k \in DOMAIN parts |-> stripComments(parts[k])])

\* cli: blank lines go as well, which blanks were already.
splitSQL(text) == splitStatements(text)

\* Position n is inside a literal, or ends it.
Quoted(s, n) == Cardinality({k \in 1..n - 1 : s[k] = "'"}) % 2 = 1

\* internal/proxy: a semicolon in a literal ends nothing; comments stay.
splitQuoted(text) ==
  NonEmpty(Pieces(text, {n \in Positions(text, ";") : ~Quoted(text, n)}))

-----------------------------------------------------------------------------
(* External: SQL text as PostgreSQL reads it.                              *)

\* What the text is in after lexeme l, when it was in s before.
After(s, l) ==
  CASE s = "literal" -> IF l = "'" THEN "code" ELSE "literal"
    [] s = "comment" -> IF l = "nl" THEN "code" ELSE "comment"
    [] s = "code"    -> CASE l = "'" -> "literal" [] l = "--" -> "comment" [] OTHER -> "code"

\* What it is in before each of its positions.
Before(text) ==
  FoldLeft(LAMBDA states, l : Append(states, After(states[Len(states)], l)), <<"code">>, text)

\* The statements of a text.
Reads(text) ==
  LET in    == Before(text)
      seen  == [n \in DOMAIN text |->
                  IF in[n + 1] = "comment" \/ text[n] = "nl" THEN "nl" ELSE text[n]]
      parts == Pieces(seen, {n \in Positions(seen, ";") : in[n] = "code"})
  IN  NonEmpty([k \in DOMAIN parts |-> Without(parts[k], "nl")])

\* Comments have lines of their own, no semicolon and no quote; literals have
\* no semicolon and stay on their line.
Plain(text) ==
  LET in == Before(text)
  IN  \A n \in DOMAIN text :
        /\ in[n] = "code" /\ text[n] = "--" => n = 1 \/ text[n - 1] \in {"nl", ";"}
        /\ in[n] = "comment" => text[n] \notin {";", "'"}
        /\ in[n] = "literal" => text[n] \notin {";", "nl"}

=============================================================================
