----------------------------- MODULE Normalize -----------------------------
(***************************************************************************)
(* The comparison forms of internal/schema/normalize.go: how a column      *)
(* type, a DEFAULT expression and a CHECK expression are reduced before    *)
(* the parsed schema is compared with the live one.                        *)
(*                                                                         *)
(* Text is abstracted to what these functions keep and lose:               *)
(*   a type       [name, size]  size 0 is "no length given"                *)
(*   a default    [expr, caps, cast]  expr "" is "no default", caps says   *)
(*                the text has upper-case letters, cast that it carries a  *)
(*                trailing ::type                                          *)
(*   a check      [cond, caps, grouping, stored]  grouping is the shape of *)
(*                its parentheses, stored says it is spelled as the        *)
(*                database prints it (= ANY (ARRAY[...]), expanded BETWEEN,*)
(*                casts)                                                   *)
(***************************************************************************)
EXTENDS Naturals

TypeNames ==
  {"int", "int2", "int4", "int8", "integer", "bigint", "smallint",
   "float", "float4", "float8", "real", "double precision", "numeric", "decimal",
   "bool", "boolean", "text", "varchar", "character varying", "char", "character",
   "timestamptz", "timestamp with time zone", "timestamp",
   "timestamp without time zone", "timetz", "time with time zone", "time",
   "time without time zone", "date", "interval", "bytea", "uuid"}

Type    == [name : TypeNames, size : Nat]
Check   == [cond : STRING, caps : BOOLEAN, grouping : STRING, stored : BOOLEAN]

NoDefault == [expr |-> "", caps |-> FALSE, cast |-> FALSE]
Default   == [expr : STRING, caps : BOOLEAN, cast : BOOLEAN] \cup {NoDefault}

-----------------------------------------------------------------------------

typeAliases ==
  [a \in {"int", "int4", "int8", "int2", "float4", "float8", "float", "bool",
          "timestamp with time zone", "timestamp without time zone",
          "time with time zone", "time without time zone"} |->
     CASE a \in {"int", "int4"}               -> "integer"
       [] a = "int8"                          -> "bigint"
       [] a = "int2"                          -> "smallint"
       [] a = "float4"                        -> "real"
       [] a \in {"float8", "float"}           -> "double precision"
       [] a = "bool"                          -> "boolean"
       [] a = "timestamp with time zone"      -> "timestamptz"
       [] a = "timestamp without time zone"   -> "timestamp"
       [] a = "time with time zone"           -> "timetz"
       [] a = "time without time zone"        -> "time"]

\* The two regular expressions want a length, the alias table wants none.
NormalizeType(t) ==
  CASE t.size # 0 /\ t.name = "character varying" -> [t EXCEPT !.name = "varchar"]
    [] t.size # 0 /\ t.name = "character"         -> [t EXCEPT !.name = "char"]
    [] t.size = 0 /\ t.name \in DOMAIN typeAliases ->
         [t EXCEPT !.name = typeAliases[t.name]]
    [] OTHER                                      -> t

\* Mutant: trivial casts are kept.
normalizeDefaultWithCasts(d) == [d EXCEPT !.caps = FALSE]

\* ToLower, redundant parentheses and trivial casts are dropped.
normalizeDefault(d) == [d EXCEPT !.caps = FALSE, !.cast = FALSE]

\* ToLower, casts, = ANY (ARRAY[]), BETWEEN, then every parenthesis and bracket.
normalizeCheck(c) == c.cond

=============================================================================
