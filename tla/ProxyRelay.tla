----------------------------- MODULE ProxyRelay -----------------------------
(***************************************************************************)
(* internal/proxy/handler.go, one connection after authentication: the     *)
(* goroutine clientToBackend inspects what the client sends and forwards   *)
(* it, or rejects it by itself; the goroutine backendToClient forwards the *)
(* replies. Both write to the client, they share lastSQL, and the first to *)
(* return closes both connections.                                         *)
(*                                                                         *)
(* A client sends a script in one write: a Query, or the messages of an    *)
(* extended-protocol batch. It keeps at most MaxInFlight requests for a    *)
(* ReadyForQuery open. Capacity bounds every stream a goroutine writes to, *)
(* so that its writes block.                                               *)
(***************************************************************************)
EXTENDS Postgres, FiniteSets
LOCAL INSTANCE FiniteSetsExt

CONSTANTS
  Scripts,       \* what the client may send in one write
  MaxBatches,    \* bound: writes of the client
  MaxInFlight,   \* requests the client leaves unanswered
  MindsStatus,   \* the client begins a transaction only when the status it
                 \* was last told is "I"
  MayBreak       \* the client may hang up and the backend may die

Unbatched == [type : WithText, sql : Seq(Statements)] \cup [type : WithoutText, sql : {<<>>}]

ASSUME RelayAssumption ==
  /\ Scripts \subseteq Seq(Unbatched)
  /\ MaxBatches \in Nat
  /\ MaxInFlight \in Nat
  /\ MindsStatus \in BOOLEAN
  /\ MayBreak \in BOOLEAN

VARIABLES
  fromClient,    \* stream from the client
  toClient,      \* stream to the client
  clientGone,    \* the client has closed its end
  closed,        \* closeAll has run
  up,            \* where clientToBackend is
  carried,       \* the message it has in hand
  tx,            \* its TxState
  lastSQL,       \* shared: the SQL text noted last, by batch; 0 is ""
  down,          \* where backendToClient is
  reply,         \* the message it has in hand
  sent,          \* history: writes of the client
  requests,      \* history: Query and Sync messages among them
  got,           \* history: the replies the client has read
  rejected,      \* history: batches with a statement that was rejected
  forwarded,     \* history: batches with SQL that was sent to the backend
  dropped,       \* history: batches of the messages that were discarded
  warned,        \* history: batches that raised a transaction warning
  logged         \* history: [batch, lastSQL] of each error logged

streamVars  == <<fromClient, toClient, clientGone, closed>>
upVars      == <<up, carried, tx>>
downVars    == <<down, reply>>
clientVars  == <<sent, requests, got>>
historyVars == <<rejected, forwarded, dropped, warned, logged>>
vars == <<backendVars, streamVars, upVars, lastSQL, downVars, clientVars, historyVars>>

NoMessage == [type |-> "Sync", sql |-> <<>>, batch |-> 0]
NoReply   == Complete(0)
TxState   == [InTx : BOOLEAN, HasDDL : BOOLEAN, HasDML : BOOLEAN]

TypeOK ==
  /\ BackendTypeOK
  /\ fromClient \in Seq(Message)
  /\ toClient \in Seq(Reply)
  /\ clientGone \in BOOLEAN
  /\ closed \in BOOLEAN
  /\ up \in {"receive", "forward", "sendError", "drainUntilSync", "returned"}
  /\ carried \in Message
  /\ tx \in TxState
  /\ lastSQL \in Nat
  /\ down \in {"receive", "forward", "returned"}
  /\ reply \in Reply
  /\ sent \in Nat
  /\ requests \in Nat
  /\ got \in Seq(Reply)
  /\ rejected \subseteq Nat
  /\ forwarded \subseteq Nat
  /\ dropped \subseteq Nat
  /\ warned \subseteq Nat
  /\ logged \subseteq [batch : Nat, sql : Nat]

Init ==
  /\ BackendInit
  /\ fromClient = <<>> /\ toClient = <<>> /\ clientGone = FALSE /\ closed = FALSE
  /\ up = "receive" /\ carried = NoMessage
  /\ tx = [InTx |-> FALSE, HasDDL |-> FALSE, HasDML |-> FALSE]
  /\ lastSQL = 0
  /\ down = "receive" /\ reply = NoReply
  /\ sent = 0 /\ requests = 0 /\ got = <<>>
  /\ rejected = {} /\ forwarded = {} /\ dropped = {} /\ warned = {} /\ logged = {}

-----------------------------------------------------------------------------
(* intercept.go.                                                           *)

\* The statements a rule matches; CREATE INDEX must say ASYNC.
Unsupported == {"unsupported", "create index concurrently"}

\* Mutant: only the first statement of the text is inspected.
CheckFirst(sql) == sql # <<>> /\ Head(sql) \in Unsupported

\* Some statement of the text breaks a rule.
Check(sql) == \E i \in DOMAIN sql : sql[i] \in Unsupported

\* Mutant: ASYNC is left out instead of replaced.
RewriteDropping(sql) ==
  [i \in DOMAIN sql |-> IF sql[i] = "create index async" THEN "create index" ELSE sql[i]]

Rewrite(sql) ==
  [i \in DOMAIN sql |-> IF sql[i] = "create index async" THEN "create index concurrently"
                        ELSE sql[i]]

IsDDL(s) == s \in {"ddl", "create index async"}
InState(inTx) == [InTx |-> inTx, HasDDL |-> FALSE, HasDML |-> FALSE]

\* Mutant: DML is not noted.
TrackTxNoDML(t, s) ==
  CASE s = "begin"            -> InState(TRUE)
    [] s = "commit"           -> InState(FALSE)
    [] t.InTx /\ IsDDL(s)     -> [t EXCEPT !.HasDDL = TRUE]
    [] OTHER                  -> t

\* The next TxState, and whether TrackTx returns a warning.
TrackTx(t, s) ==
  CASE s = "begin"            -> InState(TRUE)
    [] s = "commit"           -> InState(FALSE)
    [] t.InTx /\ IsDDL(s)     -> [t EXCEPT !.HasDDL = TRUE]
    [] t.InTx /\ s = "dml"    -> [t EXCEPT !.HasDML = TRUE]
    [] OTHER                  -> t

Warns(t, s) ==
  /\ t.InTx
  /\ \/ IsDDL(s) /\ (t.HasDDL \/ t.HasDML)
     \/ s = "dml" /\ t.HasDDL

\* The TxState before each statement of the text, and after the last.
TxAlong(t, sql) ==
  LET along[i \in 0..Len(sql)] == IF i = 0 THEN t ELSE TrackTx(along[i - 1], sql[i])
  IN  along

TrackAll(t, sql) == TxAlong(t, sql)[Len(sql)]
WarnsOf(t, sql)  == \E i \in DOMAIN sql : Warns(TxAlong(t, sql)[i - 1], sql[i])

-----------------------------------------------------------------------------
(* closeAll: cancel the context, close both connections, once.             *)

\* clientToBackend returns.
UpReturns ==
  /\ up' = "returned"
  /\ closed' = TRUE

DownReturns ==
  /\ down' = "returned"
  /\ closed' = TRUE

-----------------------------------------------------------------------------
(* clientToBackend.                                                        *)

UpFrame == UNCHANGED <<backendVars, clientGone, downVars, clientVars, logged>>

\* Receive returns a message; it may, even after closeAll, as long as the
\* context was not polled since.
Receive ==
  /\ up = "receive"
  /\ fromClient # <<>>
  /\ fromClient' = Tail(fromClient)

\* A Parse without text leaves the text before it.
Store(m) == lastSQL' = IF m.type = "Parse" /\ m.sql = <<>> THEN lastSQL ELSE m.batch

\* A Query or a Parse: lastSQL is stored, then Check decides.
Inspect ==
  LET m == Head(fromClient)
  IN  /\ Receive
      /\ m.type \in WithText
      /\ Store(m)
      /\ IF Check(m.sql)
         THEN /\ up' = "sendError"
              /\ carried' = m
              /\ rejected' = rejected \cup {m.batch}
              /\ UNCHANGED <<tx, warned>>
         ELSE /\ up' = "forward"
              /\ carried' = [m EXCEPT !.sql = Rewrite(m.sql)]
              /\ tx' = TrackAll(tx, m.sql)
              /\ warned' = IF WarnsOf(tx, m.sql) THEN warned \cup {m.batch} ELSE warned
              /\ UNCHANGED rejected
      /\ UNCHANGED <<toClient, closed, forwarded, dropped>>
      /\ UpFrame

\* Every other message is forwarded as it is.
PassOn ==
  /\ Receive
  /\ Head(fromClient).type \in WithoutText
  /\ up' = "forward"
  /\ carried' = Head(fromClient)
  /\ UNCHANGED <<toClient, closed, tx, lastSQL, rejected, forwarded, dropped, warned>>
  /\ UpFrame

\* backendConn.Write; after a Terminate clientToBackend returns.
Forward ==
  /\ up = "forward"
  /\ ~closed
  /\ Room(toBackend)
  /\ toBackend' = Append(toBackend, carried)
  /\ forwarded' = IF carried.sql # <<>> THEN forwarded \cup {carried.batch} ELSE forwarded
  /\ IF carried.type = "Terminate" THEN UpReturns ELSE up' = "receive" /\ UNCHANGED closed
  /\ UNCHANGED <<fromBackend, sessionVars, fromClient, toClient, clientGone, carried, tx,
                 lastSQL, downVars, clientVars, rejected, dropped, warned, logged>>

\* sendError: one write; whether it fails is ignored.
Rejecting(answer, next) ==
  /\ up = "sendError"
  /\ closed \/ clientGone \/ Room(toClient)
  /\ toClient' = IF closed \/ clientGone THEN toClient ELSE toClient \o answer
  /\ dropped' = dropped \cup {carried.batch}
  /\ up' = next
  /\ UNCHANGED <<fromClient, closed, carried, tx, lastSQL, rejected, forwarded, warned>>
  /\ UpFrame

\* Mutant: the rest of a rejected batch is forwarded.
SendErrorNoDrain ==
  Rejecting(<<Error(carried.batch), Ready(carried.batch, "I")>>, "receive")

\* Mutant: the error goes out without ReadyForQuery.
SendErrorOnly ==
  Rejecting(<<Error(carried.batch)>>,
            IF carried.type = "Parse" THEN "drainUntilSync" ELSE "receive")

SendError ==
  Rejecting(<<Error(carried.batch), Ready(carried.batch, "I")>>,
            IF carried.type = "Parse" THEN "drainUntilSync" ELSE "receive")

Draining(last) ==
  /\ up = "drainUntilSync"
  /\ fromClient # <<>>
  /\ fromClient' = Tail(fromClient)
  /\ dropped' = dropped \cup {Head(fromClient).batch}
  /\ up' = IF Head(fromClient).type = last THEN "receive" ELSE up
  /\ UNCHANGED <<toClient, closed, carried, tx, lastSQL, rejected, forwarded, warned>>
  /\ UpFrame

\* Mutant: the Sync that ends the batch is taken for another message.
DrainPastSync == Draining("Terminate")

DrainUntilSync == Draining("Sync")

\* The context is cancelled, the client is gone and read to the end, or the
\* write to the backend fails.
UpStops ==
  /\ \/ closed /\ up \in {"receive", "drainUntilSync", "forward"}
     \/ clientGone /\ fromClient = <<>> /\ up \in {"receive", "drainUntilSync"}
     \/ backendGone /\ up = "forward"
  /\ UpReturns
  /\ UNCHANGED <<fromClient, toClient, carried, tx, lastSQL, rejected, forwarded, dropped, warned>>
  /\ UpFrame

ClientToBackend ==
  Inspect \/ PassOn \/ Forward \/ SendError \/ DrainUntilSync \/ UpStops

-----------------------------------------------------------------------------
(* backendToClient.                                                        *)

DownFrame ==
  UNCHANGED <<toBackend, sessionVars, fromClient, clientGone, upVars, lastSQL, clientVars,
              rejected, forwarded, dropped, warned>>

\* An ErrorResponse is logged with the SQL text in lastSQL.
ReceiveReply ==
  /\ down = "receive"
  /\ fromBackend # <<>>
  /\ fromBackend' = Tail(fromBackend)
  /\ reply' = Head(fromBackend)
  /\ down' = "forward"
  /\ logged' = IF reply'.type = "Error"
               THEN logged \cup {[batch |-> reply'.batch, sql |-> lastSQL]} ELSE logged
  /\ UNCHANGED <<toClient, closed>>
  /\ DownFrame

ForwardReply ==
  /\ down = "forward"
  /\ ~closed
  /\ Room(toClient)
  /\ toClient' = Append(toClient, reply)
  /\ down' = "receive"
  /\ UNCHANGED <<fromBackend, closed, reply, logged>>
  /\ DownFrame

\* Mutant: it returns without closeAll.
DownStopsSilently ==
  /\ backendGone /\ fromBackend = <<>> /\ down = "receive"
  /\ down' = "returned"
  /\ UNCHANGED <<fromBackend, toClient, closed, reply, logged>>
  /\ DownFrame

\* The context is cancelled, the backend is gone and read to the end, or the
\* write to the client fails.
DownStops ==
  /\ \/ closed /\ down # "returned"
     \/ backendGone /\ fromBackend = <<>> /\ down = "receive"
     \/ clientGone /\ down = "forward"
  /\ DownReturns
  /\ UNCHANGED <<fromBackend, toClient, reply, logged>>
  /\ DownFrame

BackendToClient == ReceiveReply \/ ForwardReply \/ DownStops

-----------------------------------------------------------------------------
(* External: the client.                                                   *)

ClientFrame ==
  UNCHANGED <<backendVars, closed, upVars, lastSQL, downVars, historyVars>>

Asking(script) == Cardinality({i \in DOMAIN script : script[i].type \in {"Query", "Sync"}})
Answers == Cardinality({i \in DOMAIN got : got[i].type = "Ready"})

\* The status of the last ReadyForQuery.
Told ==
  LET ready == {i \in DOMAIN got : got[i].type = "Ready"}
  IN  IF ready = {} THEN "I" ELSE got[Max(ready)].status

Begins(script) == script[1].sql # <<>> /\ script[1].sql[1] = "begin"

ClientSends(script) ==
  /\ ~clientGone
  /\ ~closed
  /\ sent < MaxBatches
  /\ requests < Answers + MaxInFlight
  /\ MindsStatus /\ Begins(script) => Told = "I"
  /\ fromClient' = fromClient \o
       [i \in DOMAIN script |-> [type |-> script[i].type, sql |-> script[i].sql,
                                 batch |-> sent + 1]]
  /\ sent' = sent + 1
  /\ requests' = requests + Asking(script)
  /\ clientGone' = (\E i \in DOMAIN script : script[i].type = "Terminate")
  /\ UNCHANGED <<toClient, got>>
  /\ ClientFrame

ClientReads ==
  /\ ~clientGone
  /\ toClient # <<>>
  /\ got' = Append(got, Head(toClient))
  /\ toClient' = Tail(toClient)
  /\ UNCHANGED <<fromClient, clientGone, sent, requests>>
  /\ ClientFrame

ClientHangsUp ==
  /\ MayBreak
  /\ ~clientGone
  /\ clientGone' = TRUE
  /\ UNCHANGED <<fromClient, toClient, clientVars>>
  /\ ClientFrame

Elsewhere ==
  UNCHANGED <<streamVars, upVars, lastSQL, downVars, clientVars, historyVars>>

Serve       == ServeNext /\ Elsewhere
BackendDies == MayBreak /\ ~backendGone /\ EndSession /\ Elsewhere

-----------------------------------------------------------------------------

Next ==
  \/ ClientToBackend \/ BackendToClient \/ Serve \/ BackendDies
  \/ \E script \in Scripts : ClientSends(script)
  \/ ClientReads \/ ClientHangsUp

Spec == Init /\ [][Next]_vars

\* Both goroutines and the backend go on when they can, and a client reads
\* what it is sent; it need not send anything.
Fairness ==
  /\ WF_vars(ClientToBackend) /\ WF_vars(BackendToClient)
  /\ WF_vars(Serve) /\ WF_vars(ClientReads)

FairSpec == Spec /\ Fairness

-----------------------------------------------------------------------------
(* Correctness.                                                            *)

\* PostgreSQL is never sent a statement Aurora DSQL rejects, nor one that only
\* Aurora DSQL understands.
SupportedOnly ==
  \A i \in DOMAIN toBackend : \A k \in DOMAIN toBackend[i].sql :
    toBackend[i].sql[k] \notin {"unsupported", "create index async"}

\* Once a batch has been rejected nothing of it is sent to the backend.
RejectedBatchStops ==
  [][\A b \in rejected : toBackend' = Append(toBackend, carried) => carried.batch # b]_vars

\* Only messages of rejected batches are withheld from the backend.
NothingElseIsDropped == dropped \subseteq rejected

\* The client reads the replies to one batch after those to the one before,
\* though two goroutines write to it.
RepliesInOrder ==
  \A i \in 1..Len(got) - 1 : got[i].batch <= got[i + 1].batch

\* A ReadyForQuery answers a Query or a Sync: none comes unasked.
ReadyIsAsked == Answers <= requests

\* When the client has the answers to all it asked, the backend has nothing
\* more of it to do and no transaction open that the client did not begin.
AnsweredIsOver ==
  Answers = requests =>
    /\ \A i \in DOMAIN toBackend : toBackend[i].type = "Terminate"
    /\ query = NoQuery
    /\ held = <<>>
    /\ block = "I" => work = NoWork

\* README.md:307: a transaction that has run several DDL statements, or DDL
\* and DML, has been warned about. It is said of clients none of whose
\* statements was rejected: the status that sendError invents may make a client
\* begin a transaction that is open, and TrackTx then forgets what it has run.
MixIsWarned ==
  rejected = {} /\ (work.ddl > 1 \/ (work.ddl > 0 /\ work.dml)) =>
    work.batches \cap warned # {}

\* Every request is answered as long as the connection stands.
Answered == Answers < requests ~> (Answers = requests \/ closed \/ clientGone)

Stage == IF closed /\ up = "returned" /\ down = "returned" THEN "closed" ELSE "open"
Gone  == {p \in {"client", "server"} : IF p = "client" THEN clientGone ELSE backendGone}

Tunnelled == INSTANCE Tunnel WITH state <- Stage, gone <- Gone, reachable <- TRUE

\* The connection is a tunnel: it is closed when one side is gone, both
\* goroutines ending, and never while both sides are there.
IsTunnel == Tunnelled!Spec

=============================================================================
