---------------------------- MODULE MCProxyRelay ----------------------------
(***************************************************************************)
(* Scripts of the clients in the runs of ProxyRelay.                       *)
(***************************************************************************)
EXTENDS ProxyRelay

Msg(type, sql) == [type |-> type, sql |-> sql]
Q(sql)   == <<Msg("Query", sql)>>
P(s)     == Msg("Parse", <<s>>)
B        == Msg("Bind", <<>>)
E        == Msg("Execute", <<>>)
S        == Msg("Sync", <<>>)
F        == Msg("Flush", <<>>)
X        == <<Msg("Terminate", <<>>)>>

Batch(s) == <<P(s), B, E, S>>

\* Simple and extended requests, supported or not, transactions among them.
MixedScripts ==
  {Q(<<"begin">>), Q(<<"commit">>), Q(<<"ddl">>), Q(<<"dml">>),
   Q(<<"begin", "create index async", "commit">>), Q(<<"select", "unsupported">>),
   Q(<<"create index concurrently">>),
   Batch("dml"), Batch("create index async"), Batch("unsupported"), X}

\* Transactions, none of whose statements is rejected.
SupportedScripts ==
  {Q(<<"begin">>), Q(<<"commit">>), Q(<<"ddl">>), Q(<<"dml">>), Q(<<"commit", "begin", "dml">>),
   Q(<<"begin", "ddl", "dml", "commit">>), Batch("ddl"), Batch("dml"), Batch("commit")}

AllScripts == MixedScripts \cup SupportedScripts

\* What a client may pipeline, and how it ends.
FewScripts == {Q(<<"select">>), Q(<<"unsupported">>), Batch("unsupported"), Batch("dml"), X}

\* Longer than what the streams hold, in both directions.
LongScripts == {Q(<<"select", "dml">>), Q(<<"unsupported">>), Batch("unsupported"),
                <<P("ddl"), B, E, F, P("select"), B, E, S>>, X}

\* A batch of two statements, the second of which is rejected.
TwoParses == {<<P("dml"), B, E, P("unsupported"), B, E, S>>}

\* Prepare a statement and wait for the answer before Sync.
FlushScripts == {<<P("unsupported"), F>>, <<S>>}

\* psql: one statement at a time, BEGIN in a transaction included.
SimpleScripts == {Q(<<"begin">>), Q(<<"ddl">>), Q(<<"dml">>), Q(<<"commit">>)}

\* A statement that was prepared once and is executed again.
PreparedScripts == {Q(<<"begin">>), Batch("ddl"), <<B, E, S>>, Q(<<"commit">>)}

\* Several statements outside a transaction block.
ImplicitScripts == {Q(<<"ddl", "dml">>)}

\* A transaction, one statement at a time, with one that is rejected.
RejectingScripts == SimpleScripts \cup {Q(<<"unsupported">>)}

\* An error of the backend is logged with the text that caused it. lastSQL is
\* shared (handler.go:483, 501, 560), and a client that pipelines may have had
\* its next text stored before the error of the one before is read.
ErrorsAreAttributed == \A l \in logged : l.sql = l.batch

=============================================================================
