----------------------------- MODULE MCSession -----------------------------
(***************************************************************************)
(* Live schemas and scripts for the runs of Session.                       *)
(***************************************************************************)
EXTENDS Session

S(sql) == [sql |-> sql, hazards |-> {}]

SomeShapes  == {<<>>, <<0>>, <<2, 1>>}
SomeScripts == {<<>>, <<S("a")>>, <<S("a"), S("b"), S("c")>>}
OneShape    == {<<>>}

\* With a password the addresses share the timeout of one: this does not hold.
AnyHostEver == outcome = "unreachable" => up = {}
=============================================================================
