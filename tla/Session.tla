------------------------------ MODULE Session ------------------------------
(***************************************************************************)
(* One process at work on a cluster: dsqlconn.Connect opens a pool of one  *)
(* connection, the catalog queries of internal/schema/introspect.go and    *)
(* the statements of execWithRetry (cli/sql.go) or executeWithRetry        *)
(* (internal/runner) share it. Commands are "sql", "plan", "apply" and     *)
(* "library": GeneratePlan and Apply of migrate/migrate.go on the pool of  *)
(* their caller. What a plan says is the matter of module Apply.           *)
(***************************************************************************)
EXTENDS Integers, Sequences, FiniteSets

CONSTANTS
  Commands,
  Hosts,        \* how many addresses the endpoint resolves to
  Shapes,       \* live schemas: for each table, how many indexes it has
  Scripts,      \* files of `sql`, plans of the others: sequences of Statement
  Errors,       \* what the text of a failed statement's error may be about
  MaxRetries,   \* --retries
  MaxDeaths     \* bound: how often the connection breaks

Statement == [sql : STRING, hazards : {{}}]

\* An error names SQLSTATE 40001, or has these characters in a value, or in the
\* number of a port.
ErrorTexts == {"conflict", "refused", "refusedWith40001", "lost", "lostWith40001"}

ASSUME SessionAssumption ==
  /\ Commands \subseteq {"sql", "plan", "apply", "library"}
  /\ Hosts \in Nat \ {0}
  /\ Shapes \subseteq Seq(Nat)
  /\ Scripts \subseteq Seq(Statement)
  /\ Errors \subseteq ErrorTexts
  /\ MaxRetries \in Int
  /\ MaxDeaths \in Nat

VARIABLES
  command, auth, \* chosen at the start; auth is "iam" or "password"
  up,            \* the addresses that answer
  shape,         \* the live schema
  pc,            \* "start", "dial", "ask", "read", "decide", "execute", "backoff", "ended"
  outcome,       \* why it ended
  token,         \* what the configuration of the pool holds: "none", "valid", "expired"
  host, budget,  \* the address to dial, the timeouts left of the total
  conn,          \* the pool: "none", "open", "dead" (the pool does not know yet)
  rows,          \* rows of its connection, "open" or "closed"
  todo, left,    \* queries to ask, the first one is asked; its rows not yet read
  read,          \* the rows read: [query, row]
  stmts,         \* what is to be executed, <<>> until that begins
  pos, attempt,  \* statements completed; attempts made at the next one
  executed,      \* history: the statements that committed
  deaths, context  \* connections broken; of the caller: "live" or "done"

configVars  == <<command, auth, up, shape>>
connectVars == <<token, host, budget>>
queryVars   == <<todo, left, read>>
execVars    == <<stmts, pos, attempt, executed>>
faultVars   == <<deaths, context>>
vars == <<configVars, connectVars, queryVars, execVars, faultVars, pc, outcome, conn, rows>>

Outcomes == {"none", "input", "unreachable", "denied", "introspect", "refused", "conflict", "lost",
             "cancelled", "stopped", "planned", "done"}

Query(of, on) == [of |-> of, on |-> on]

\* todo, left and read are left out: PlansFromWhole says what they are for.
TypeOK ==
  /\ command \in Commands /\ auth \in {"iam", "password"}
  /\ up \subseteq 1..Hosts
  /\ shape \in Shapes
  /\ pc \in {"start", "dial", "ask", "read", "decide", "execute", "backoff", "ended"}
  /\ outcome \in Outcomes
  /\ token \in {"none", "valid", "expired"}
  /\ host \in 1..Hosts + 1 /\ budget \in 0..Hosts
  /\ conn \in {"none", "open", "dead"} /\ rows \in {"closed", "open"}
  /\ stmts \in Seq(Statement)
  /\ pos \in Nat /\ attempt \in 0..(IF MaxRetries < 0 THEN 0 ELSE MaxRetries)
  /\ executed \in Seq(Statement)
  /\ deaths \in 0..MaxDeaths /\ context \in {"live", "done"}

Init ==
  /\ command \in Commands /\ auth \in {"iam", "password"}
  /\ up \in SUBSET (1..Hosts)
  /\ shape \in Shapes
  /\ pc = "start" /\ outcome = "none"
  /\ token = "none" /\ host = 1 /\ budget = 0
  /\ conn = "none" /\ rows = "closed"
  /\ todo = <<Query("tables", <<>>)>> /\ left = 0 /\ read = {}
  /\ stmts = <<>> /\ pos = 0 /\ attempt = 0 /\ executed = <<>>
  /\ deaths = 0 /\ context = "live"

\* Rows are closed by a deferred call, the pool as well, but that of the
\* library's caller.
Ends(why) ==
  /\ pc' = "ended" /\ outcome' = why
  /\ rows' = "closed"
  /\ conn' = IF command = "library" THEN conn ELSE "none"

Goes(to) == pc' = to /\ UNCHANGED outcome

-----------------------------------------------------------------------------
(* Connect.                                                                *)

\* Mutant: one timeout for all the addresses.
TotalTimeoutOnce == 1

\* With a token, Connect names the addresses itself and waits as long as all of
\* them may take. With a password it names the host, which the driver resolves,
\* and waits as long as one of them may take.
TotalTimeout == IF auth = "password" THEN 1 ELSE Hosts

\* Region, credentials, token and addresses, or a password and a port.
Prepare ==
  /\ pc = "start"
  /\ \/ /\ command # "library"
        /\ Goes("dial") /\ token' = "valid" /\ host' = 1 /\ budget' = TotalTimeout
        /\ UNCHANGED <<conn, rows>>
     \/ /\ command = "library"
        /\ Goes("ask") /\ token' = "valid"
        /\ UNCHANGED <<host, budget, conn, rows>>
     \/ /\ Ends("input")
        /\ UNCHANGED connectVars
  /\ UNCHANGED <<configVars, queryVars, execVars, faultVars>>

\* SELECT 1 is answered.
Connected ==
  /\ pc = "dial" /\ host \in up
  /\ conn' = "open"
  /\ IF command = "sql"
     THEN Goes("execute") /\ stmts' \in Scripts
     ELSE Goes("ask") /\ UNCHANGED stmts
  /\ UNCHANGED <<configVars, connectVars, queryVars, pos, attempt, executed, faultVars, rows>>

\* The role is unknown, or the password wrong: no other address is tried.
Denied ==
  /\ pc = "dial" /\ host \in up
  /\ Ends("denied")
  /\ UNCHANGED <<configVars, connectVars, queryVars, execVars, faultVars>>

\* An address refuses at once, or takes a timeout to be given up.
NoAnswer ==
  /\ pc = "dial" /\ host \notin up
  /\ budget' \in {budget, budget - 1}
  /\ host' = host + 1
  /\ IF host' > Hosts \/ budget' = 0
     THEN Ends("unreachable")
     ELSE Goes("dial") /\ UNCHANGED <<conn, rows>>
  /\ UNCHANGED <<configVars, token, queryVars, execVars, faultVars>>

-----------------------------------------------------------------------------
(* The pool. ask and execute want its connection, and wait for it as long  *)
(* as rows are open.                                                       *)

Executing == pc = "execute" /\ pos < Len(stmts) /\ attempt <= MaxRetries

Wants == (pc = "ask" \/ Executing) /\ rows = "closed"

\* database/sql dials again, with the token it was given once.
Redial ==
  /\ Wants /\ conn = "none"
  /\ IF token = "expired" THEN Ends("denied")
     ELSE IF up = {} THEN Ends("unreachable")
     ELSE conn' = "open" /\ UNCHANGED <<pc, outcome, rows>>
  /\ UNCHANGED <<configVars, connectVars, queryVars, execVars, faultVars>>

\* The broken connection is noticed before anything was sent: driver.ErrBadConn.
BadConn ==
  /\ Wants /\ conn = "dead"
  /\ conn' = "none"
  /\ UNCHANGED <<configVars, connectVars, queryVars, execVars, faultVars, pc, outcome, rows>>

\* It is noticed afterwards: the error is the caller's.
Gone ==
  /\ Wants /\ conn = "dead"
  /\ Ends(IF pc = "ask" THEN "introspect" ELSE "lost")
  /\ UNCHANGED <<configVars, connectVars, queryVars, execVars, faultVars>>

-----------------------------------------------------------------------------
(* Introspect: every query is read to its end before the next is asked.    *)

SeenOf(q) == Cardinality({r \in read : r.query = q})

\* The rows a query has.
Rows(q) ==
  CASE q.of = "tables"  -> Len(shape)
    [] q.of = "indexes" -> shape[q.on[1]]
    [] OTHER            -> 1

Listing(of, on, n) == [k \in 1..n |-> Query(of, Append(on, k))]

\* What introspectTable asks, table after table.
TableQueries == <<"columns", "constraints", "indexes">>

\* What is asked because of the rows of a query, before anything else.
Follow(q) ==
  CASE q.of = "tables" ->
         [i \in 1..3 * SeenOf(q) |-> Query(TableQueries[1 + ((i - 1) % 3)], <<1 + ((i - 1) \div 3)>>)]
    [] q.of = "indexes" -> Listing("index columns", q.on, SeenOf(q))
    [] OTHER -> <<>>

QueryFrame == UNCHANGED <<configVars, connectVars, execVars, faultVars>>

Ask ==
  /\ Wants /\ pc = "ask" /\ conn = "open"
  /\ Goes("read") /\ rows' = "open"
  /\ left' = Rows(Head(todo))
  /\ UNCHANGED <<todo, read, conn>>
  /\ QueryFrame

\* The query fails: a table vanished.
AskFails ==
  /\ Wants /\ pc = "ask" /\ conn = "open"
  /\ Ends("introspect")
  /\ UNCHANGED queryVars
  /\ QueryFrame

\* Mutant: the columns of an index are asked for as soon as its row is read.
ReadRowAsking ==
  /\ pc = "read" /\ left > 0
  /\ read' = read \cup {[query |-> Head(todo), row |-> left]}
  /\ left' = left - 1
  /\ IF Head(todo).of = "indexes"
     THEN Goes("ask") /\ todo' = <<Query("index columns", <<Head(todo).on[1], left>>)>> \o todo
     ELSE UNCHANGED <<pc, outcome, todo>>
  /\ UNCHANGED <<conn, rows>>
  /\ QueryFrame

ReadRow ==
  /\ pc = "read" /\ left > 0
  /\ read' = read \cup {[query |-> Head(todo), row |-> left]}
  /\ left' = left - 1
  /\ UNCHANGED <<pc, outcome, todo, conn, rows>>
  /\ QueryFrame

NextQuery ==
  /\ rows' = "closed"
  /\ todo' = Follow(Head(todo)) \o Tail(todo)
  /\ Goes(IF todo' = <<>> THEN "decide" ELSE "ask")
  /\ UNCHANGED <<left, read, conn>>
  /\ QueryFrame

\* rows.Next is false, rows.Err is nil.
ReadAll == pc = "read" /\ left = 0 /\ NextQuery

\* Mutant: rows.Err is not looked at.
ReadBreaksUnnoticed == pc = "read" /\ conn = "dead" /\ NextQuery

ReadBreaks ==
  /\ pc = "read" /\ conn = "dead"
  /\ Ends("introspect")
  /\ UNCHANGED queryVars
  /\ QueryFrame

\* plan prints; apply and the library execute a plan that is not empty, unless
\* Diff, the hazards or the operator are against it.
Decide ==
  /\ pc = "decide"
  /\ \/ /\ Ends(IF command = "plan" THEN "planned" ELSE "stopped")
        /\ UNCHANGED stmts
     \/ /\ command # "plan"
        /\ stmts' \in Scripts \ {<<>>}
        /\ Goes("execute") /\ UNCHANGED <<conn, rows>>
  /\ UNCHANGED <<configVars, connectVars, queryVars, pos, attempt, executed, faultVars>>

-----------------------------------------------------------------------------
(* execWithRetry and executeWithRetry.                                     *)

ExecFrame == UNCHANGED <<configVars, connectVars, queryVars, faultVars, stmts>>

Current == stmts[pos + 1]

Commit == executed' = Append(executed, Current)

Completed == pos' = pos + 1 /\ attempt' = 0

\* It does so without an attempt when --retries is negative.
StatementSucceeds ==
  /\ pc = "execute" /\ pos < Len(stmts)
  /\ IF Executing THEN Wants /\ conn = "open" /\ Commit ELSE UNCHANGED executed
  /\ Completed
  /\ UNCHANGED <<pc, outcome, conn, rows>>
  /\ ExecFrame

\* Mutant: a broken connection is worth another attempt.
isOCCErrorOrLost(e) == e # "refused"

\* strings.Contains(err.Error(), "40001")
isOCCError(e) == e \in {"conflict", "refusedWith40001", "lostWith40001"}

IsLoss(e) == e \in {"lost", "lostWith40001"}

OutcomeOf(e) ==
  IF IsLoss(e) THEN "lost" ELSE IF e = "conflict" THEN "conflict" ELSE "refused"

\* Mutant: one attempt more than there is room for in the loop.
WillRetryOnceMore(e) == isOCCError(e) /\ attempt <= MaxRetries

WillRetry(e) == isOCCError(e) /\ attempt < MaxRetries

\* An error comes back, or the connection breaks with the statement on its way.
StatementFails(e) ==
  /\ Executing /\ Wants /\ conn = "open"
  /\ \/ Commit /\ IsLoss(e)
     \/ UNCHANGED executed
  /\ IF WillRetry(e)
     THEN Goes("backoff") /\ conn' = (IF IsLoss(e) THEN "none" ELSE conn) /\ UNCHANGED rows
     ELSE Ends(OutcomeOf(e))
  /\ UNCHANGED <<pos, attempt>>
  /\ ExecFrame

\* time.After fires.
Retry ==
  /\ pc = "backoff"
  /\ Goes("execute") /\ attempt' = attempt + 1
  /\ UNCHANGED <<pos, executed, conn, rows>>
  /\ ExecFrame

Finish ==
  /\ pc = "execute" /\ pos = Len(stmts)
  /\ Ends("done")
  /\ UNCHANGED <<pos, attempt, executed>>
  /\ ExecFrame

\* ctx.Done() in the pause, in a query or in a statement, which may commit.
Cancelled ==
  /\ context = "done"
  /\ pc \in {"ask", "read", "execute", "backoff"}
  /\ Ends("cancelled")
  /\ UNCHANGED executed \/ (Executing /\ conn = "open" /\ Commit)
  /\ UNCHANGED <<pos, attempt>>
  /\ ExecFrame

-----------------------------------------------------------------------------
(* External: the network, the clock, the caller of the library.            *)

Unaware == UNCHANGED <<configVars, host, budget, queryVars, execVars, pc, outcome, rows>>

ConnectionDies ==
  /\ conn = "open" /\ deaths < MaxDeaths
  /\ conn' = "dead" /\ deaths' = deaths + 1
  /\ UNCHANGED <<token, context>>
  /\ Unaware

TokenExpires ==
  /\ auth = "iam" /\ token = "valid" /\ pc \notin {"dial", "ended"}
  /\ token' = "expired"
  /\ UNCHANGED <<conn, faultVars>>
  /\ Unaware

CancelContext ==
  /\ command = "library" /\ pc # "ended"
  /\ context' = "done"
  /\ UNCHANGED <<token, conn, deaths>>
  /\ Unaware

-----------------------------------------------------------------------------

Connecting    == Prepare \/ Connected \/ Denied \/ NoAnswer
Pooling       == Redial \/ BadConn \/ Gone
Introspecting == Ask \/ AskFails \/ ReadRow \/ ReadAll \/ ReadBreaks \/ Decide
Execution     == \/ StatementSucceeds \/ Retry \/ Finish \/ Cancelled
                 \/ \E e \in Errors : StatementFails(e)

Proceed == Connecting \/ Pooling \/ Introspecting \/ Execution

Next == Proceed \/ ConnectionDies \/ TokenExpires \/ CancelContext

Spec == Init /\ [][Next]_vars

\* The process goes on, and the cluster answers or the connection breaks.
FairSpec == Spec /\ WF_vars(Proceed)

-----------------------------------------------------------------------------
(* Correctness.                                                            *)

\* The endpoint is unreachable only if none of its addresses answers: those
\* that stay silent do not use up the time of those that follow. It is so with
\* a token. With a password an address that stays silent does, and that is the
\* only other way to call the endpoint unreachable.
AnyHostWillDo ==
  outcome = "unreachable" => up = {} \/ (auth = "password" /\ budget = 0 /\ host > 1)

\* What there is to ask, and the rows there are to read.
Tables       == Query("tables", <<>>)
OfTable(t)   == {Query(of, <<t>>) : of \in {"columns", "constraints", "indexes"}}
OfIndexes(t) == {Query("index columns", <<t, n>>) : n \in 1..shape[t]}
Queries      == {Tables} \cup UNION {OfTable(t) \cup OfIndexes(t) : t \in DOMAIN shape}
AllRows      == UNION {{[query |-> q, row |-> n] : n \in 1..Rows(q)} : q \in Queries}

\* A plan is made from the whole live schema or not at all, wherever the
\* connection breaks: a table whose row was not read would be created again.
PlansFromWhole ==
  command # "sql" /\ (pc \in {"decide", "execute", "backoff"} \/ outcome \in {"planned", "done"})
    => read = AllRows

\* runner.go:56, "Statements that fail with OCC conflicts (SQLSTATE 40001) are
\* retried": so a statement that committed is not sent again.
ExecutedOnce == Len(executed) <= Len(stmts) /\ executed = SubSeq(stmts, 1, Len(executed))

\* Whatever fails, the process comes to its end; it never waits for the
\* connection it holds itself.
EndsEventually == <>(pc = "ended")

-----------------------------------------------------------------------------
(* Session implements the contract of module Migration.                    *)

Run == {"run"}

phase ==
  IF pc \in {"execute", "backoff"} /\ stmts # <<>> THEN "running"
  ELSE IF pc \notin {"start", "ended"} THEN "deciding"
  ELSE IF outcome = "done" /\ stmts # <<>> THEN "applied" ELSE "stopped"

Contract == INSTANCE Migration WITH
  Operators <- Run,
  allowed   <- [p \in Run |-> {}],
  phase     <- [p \in Run |-> phase],
  approved  <- [p \in Run |-> stmts],
  executed  <- [p \in Run |-> executed]

\* The statements of a file or plan are executed in order, each at most once,
\* and success is reported when all have been: with conflicts, lost answers,
\* broken connections, an expired token and a cancelled context.
KeepsContract == Contract!Spec

=============================================================================
