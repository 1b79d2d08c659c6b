------------------------------ MODULE Postgres ------------------------------
(***************************************************************************)
(* External: one session of the PostgreSQL server behind the proxy, as far *)
(* as internal/proxy relies on it: it takes the messages of its connection *)
(* in order, runs their statements one by one, answers a Query with        *)
(* ReadyForQuery and an extended-protocol batch at its Sync, keeps replies *)
(* of a batch back until Sync or Flush, and skips to Sync after an error.  *)
(*                                                                         *)
(* SQL text is a sequence of statement kinds; a message carries the number *)
(* of the client's write it came with, and so does the reply to it.        *)
(***************************************************************************)
EXTENDS Naturals, Sequences

CONSTANT Capacity   \* messages in a stream at which a write to it blocks

ASSUME CapacityAssumption == Capacity \in Nat \ {0}

Statements == {"begin", "commit", "ddl", "dml", "select", "create index async",
               "create index concurrently", "unsupported"}

\* Only Query and Parse carry SQL text.
WithText    == {"Query", "Parse"}
WithoutText == {"Bind", "Execute", "Sync", "Flush", "Terminate"}
Message == [type : WithText, sql : Seq(Statements), batch : Nat]
      \cup [type : WithoutText, sql : {<<>>}, batch : Nat]
Reply   == [type : {"Complete", "Error", "Ready"}, status : {"I", "T", "E", "-"},
            batch : Nat]

VARIABLES
  toBackend,     \* stream from the proxy
  fromBackend,   \* stream to the proxy
  backendGone,   \* the session has ended
  block,         \* transaction block: "I" none, "T" open, "E" failed
  query,         \* the Query being run: the statements left and its batch
  prepared,      \* the unnamed prepared statement
  skipping,      \* after an error, until Sync
  held,          \* replies kept back until Sync or Flush
  work           \* the open transaction: how many DDL statements it has run,
                 \* whether it has DML, the batches these came with

sessionVars == <<backendGone, block, query, prepared, skipping, held, work>>
backendVars == <<toBackend, fromBackend, sessionVars>>

NoQuery == [sql |-> <<>>, batch |-> 0]
NoWork  == [ddl |-> 0, dml |-> FALSE, batches |-> {}]

BackendTypeOK ==
  /\ toBackend \in Seq(Message)
  /\ fromBackend \in Seq(Reply)
  /\ backendGone \in BOOLEAN
  /\ block \in {"I", "T", "E"}
  /\ query \in [sql : Seq(Statements), batch : Nat]
  /\ prepared \in Seq(Statements)
  /\ skipping \in BOOLEAN
  /\ held \in Seq(Reply)
  /\ work \in [ddl : Nat, dml : BOOLEAN, batches : SUBSET Nat]

BackendInit ==
  /\ toBackend = <<>> /\ fromBackend = <<>> /\ backendGone = FALSE
  /\ block = "I" /\ query = NoQuery /\ prepared = <<>>
  /\ skipping = FALSE /\ held = <<>> /\ work = NoWork

Complete(b)  == [type |-> "Complete", status |-> "-", batch |-> b]
Error(b)     == [type |-> "Error", status |-> "-", batch |-> b]
Ready(b, st) == [type |-> "Ready", status |-> st, batch |-> b]

Room(stream) == Len(stream) < Capacity

-----------------------------------------------------------------------------
(* One statement, whichever protocol it came by.                           *)

\* A failed transaction takes nothing but its end, CONCURRENTLY runs in no
\* transaction block, ASYNC is no PostgreSQL.
Runs(s, b) ==
  /\ block = "E" => s = "commit"
  /\ s = "create index concurrently" => block = "I"
  /\ s \notin {"create index async", "unsupported"}
  /\ block' = CASE s = "begin" -> "T" [] s = "commit" -> "I" [] OTHER -> block
  /\ work' = CASE s = "commit" -> NoWork
               [] s \in {"ddl", "create index concurrently"} ->
                    [work EXCEPT !.ddl = @ + 1, !.batches = @ \cup {b}]
               [] s = "dml" -> [work EXCEPT !.dml = TRUE, !.batches = @ \cup {b}]
               [] OTHER -> work

\* A statement may fail at run time and takes its transaction with it.
Fails(s) ==
  /\ s = "begin" => block = "E"
  /\ block' = CASE s = "commit" -> "I" [] block = "T" -> "E" [] OTHER -> block
  /\ work' = NoWork

-----------------------------------------------------------------------------
(* The session takes the next message or goes on with its Query.           *)

Take(type) ==
  /\ ~backendGone
  /\ query = NoQuery
  /\ toBackend # <<>>
  /\ Head(toBackend).type = type
  /\ toBackend' = Tail(toBackend)
  /\ UNCHANGED backendGone

TakeQuery ==
  /\ Take("Query")
  /\ query' = IF skipping THEN NoQuery
              ELSE [sql |-> Head(toBackend).sql, batch |-> Head(toBackend).batch]
  /\ fromBackend' = IF skipping THEN fromBackend ELSE fromBackend \o held
  /\ held' = IF skipping THEN held ELSE <<>>
  /\ UNCHANGED <<block, prepared, skipping, work>>

RunStatement ==
  LET s == Head(query.sql)
  IN  /\ ~backendGone
      /\ query # NoQuery /\ query.sql # <<>>
      /\ Room(fromBackend)
      /\ \/ /\ Runs(s, query.batch)
            /\ query' = [query EXCEPT !.sql = Tail(@)]
            /\ fromBackend' = Append(fromBackend, Complete(query.batch))
         \/ /\ Fails(s)
            /\ query' = [query EXCEPT !.sql = <<>>]
            /\ fromBackend' = Append(fromBackend, Error(query.batch))
      /\ UNCHANGED <<toBackend, backendGone, prepared, skipping, held>>

\* Outside a block what the Query has done is committed with it.
EndQuery ==
  /\ ~backendGone
  /\ query # NoQuery /\ query.sql = <<>>
  /\ Room(fromBackend)
  /\ fromBackend' = Append(fromBackend, Ready(query.batch, block))
  /\ query' = NoQuery
  /\ work' = IF block = "I" THEN NoWork ELSE work
  /\ UNCHANGED <<toBackend, backendGone, block, prepared, skipping, held>>

Answer(b) ==
  /\ held' = Append(held, Complete(b))
  /\ UNCHANGED skipping

Skip ==
  /\ skipping
  /\ UNCHANGED <<block, prepared, skipping, held, work>>

Refuse(s, b) ==
  /\ ~skipping
  /\ Fails(s)
  /\ held' = Append(held, Error(b))
  /\ skipping' = TRUE
  /\ UNCHANGED prepared

TakeParse ==
  LET m == Head(toBackend)
  IN  /\ Take("Parse")
      /\ \/ Skip
         \/ Refuse(Head(m.sql), m.batch)
         \/ /\ ~skipping
            /\ block = "E" => Head(m.sql) = "commit"
            /\ prepared' = m.sql
            /\ Answer(m.batch)
            /\ UNCHANGED <<block, work>>
      /\ UNCHANGED <<fromBackend, query>>

TakeBind ==
  /\ Take("Bind")
  /\ Skip \/ (~skipping /\ Answer(Head(toBackend).batch) /\ UNCHANGED <<block, prepared, work>>)
  /\ UNCHANGED <<fromBackend, query>>

TakeExecute ==
  LET b == Head(toBackend).batch
      s == IF prepared = <<>> THEN "unsupported" ELSE Head(prepared)
  IN  /\ Take("Execute")
      /\ \/ Skip
         \/ Refuse(s, b)
         \/ ~skipping /\ Runs(s, b) /\ Answer(b) /\ UNCHANGED prepared
      /\ UNCHANGED <<fromBackend, query>>

TakeSync ==
  /\ Take("Sync")
  /\ Room(fromBackend)
  /\ fromBackend' = fromBackend \o Append(held, Ready(Head(toBackend).batch, block))
  /\ held' = <<>>
  /\ skipping' = FALSE
  /\ work' = IF block = "I" THEN NoWork ELSE work
  /\ UNCHANGED <<block, query, prepared>>

TakeFlush ==
  /\ Take("Flush")
  /\ Room(fromBackend)
  /\ fromBackend' = fromBackend \o held
  /\ held' = <<>>
  /\ UNCHANGED <<block, query, prepared, skipping, work>>

EndSession ==
  /\ backendGone' = TRUE
  /\ UNCHANGED <<toBackend, fromBackend, block, query, prepared, skipping, held, work>>

TakeTerminate ==
  /\ ~backendGone /\ query = NoQuery
  /\ toBackend # <<>> /\ Head(toBackend).type = "Terminate"
  /\ EndSession

ServeNext ==
  \/ TakeQuery \/ RunStatement \/ EndQuery \/ TakeParse \/ TakeBind \/ TakeExecute
  \/ TakeSync \/ TakeFlush \/ TakeTerminate

=============================================================================
