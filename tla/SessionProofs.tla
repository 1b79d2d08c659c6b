--------------------------- MODULE SessionProofs ---------------------------
(***************************************************************************)
(* Proofs about Session, for any number of addresses, tables, statements   *)
(* and faults: its types, that one address that answers is enough, that a  *)
(* plan is made from the whole live schema, and the contract of module     *)
(* Migration.                                                              *)
(***************************************************************************)
EXTENDS Session, FiniteSetTheorems, FunctionTheorems, TLAPS

-----------------------------------------------------------------------------
(* The inductive invariant: where in the list of addresses Connect is, and *)
(* how far the statements are.                                             *)

\* The addresses tried so far do not answer, and there is a timeout left for
\* each of the others; with a password, for one of them.
DialInv ==
  /\ pc \in {"start", "dial"} => outcome = "none"
  /\ pc = "dial" => /\ host \in 1..Hosts /\ budget > 0
                    /\ auth = "iam" => budget >= Hosts - host + 1
                    /\ up \cap 1..host - 1 = {}

BackoffInv == pc = "backoff" => attempt < MaxRetries /\ stmts # <<>>

Inv == TypeOK /\ DialInv /\ BackoffInv /\ AnyHostWillDo

LEMMA InitInv == Init => Inv
BY SessionAssumption DEF Init, Inv, TypeOK, DialInv, BackoffInv, AnyHostWillDo, Outcomes, Statement

\* Without a timeout left there is no address left.
LEMMA LastTimeout ==
  \A a, h, b \in Int : b >= a - h + 1 /\ b = 0 => h > a
OBVIOUS

LEMMA ConnectingInv ==
  ASSUME Inv, Connecting
  PROVE  Inv'
<1> USE SessionAssumption
<1> USE DEF Inv, TypeOK, DialInv, BackoffInv, AnyHostWillDo, Goes, Ends, Outcomes, configVars,
            connectVars, queryVars, execVars, faultVars
<1>1. CASE Prepare
  <2>1. TotalTimeout \in 1..Hosts /\ (auth = "iam" => TotalTimeout = Hosts)
    BY DEF TotalTimeout
  <2>2. pc = "start" /\ UNCHANGED <<configVars, execVars, faultVars>>
    BY <1>1 DEF Prepare
  <2>3. CASE Goes("dial") /\ token' = "valid" /\ host' = 1 /\ budget' = TotalTimeout /\ UNCHANGED <<conn, rows>>
    <3>1. TypeOK'
      BY <2>1, <2>2, <2>3
    <3>2. DialInv'
      <4>1. host' \in 1..Hosts /\ budget' > 0 /\ up' \cap 1..host' - 1 = {}
        BY <2>1, <2>2, <2>3
      <4>2. auth' = "iam" => budget' >= Hosts - host' + 1
        BY <2>1, <2>2, <2>3
      <4>3. outcome' = "none"
        BY <2>2, <2>3
      <4> QED
        BY <4>1, <4>2, <4>3
    <3>3. BackoffInv' /\ AnyHostWillDo'
      BY <2>2, <2>3
    <3> QED
      BY <3>1, <3>2, <3>3
  <2>4. CASE Goes("ask") /\ token' = "valid" /\ UNCHANGED <<host, budget, conn, rows>>
    BY <2>2, <2>4
  <2>5. CASE Ends("input") /\ UNCHANGED connectVars
    BY <2>2, <2>5
  <2> QED
    BY <1>1, <2>3, <2>4, <2>5 DEF Prepare
<1>2. CASE Connected
  BY <1>2 DEF Connected
<1>3. CASE Denied
  BY <1>3 DEF Denied
<1>4. CASE NoAnswer
  <2>1. /\ host' = host + 1 /\ budget' \in {budget, budget - 1}
        /\ pc = "dial" /\ host \notin up /\ up' = up /\ auth' = auth
    BY <1>4 DEF NoAnswer
  <2>2. up \cap 1..host' - 1 = {} /\ host' > 1
    BY <2>1
  <2>3. /\ auth = "iam" => budget' >= Hosts - host' + 1
        /\ budget' \in 0..Hosts /\ host' \in 1..Hosts + 1
    BY <2>1
  <2>4. CASE host' > Hosts \/ budget' = 0
    <3>1. CASE auth = "iam" \/ host' > Hosts
      <4>1. Hosts \in Int /\ host' \in Int /\ budget' \in Int
        BY <2>3
      <4>2. auth = "iam" /\ budget' = 0 => host' > Hosts
        BY ONLY <2>3, <4>1, LastTimeout
      <4>3. host' > Hosts
        BY ONLY <3>1, <4>1, <4>2, <2>4
      <4>4. up = {}
        <5>1. up \subseteq 1..Hosts /\ up \cap 1..host' - 1 = {} /\ host' = Hosts + 1
          BY <2>1, <2>2, <2>3, <4>3
        <5> QED
          BY ONLY <5>1, SessionAssumption
      <4> QED
        BY <2>1, <2>3, <2>4, <4>4, <1>4 DEF NoAnswer
    <3>2. CASE auth = "password" /\ budget' = 0
      BY <2>1, <2>2, <2>3, <2>4, <3>2, <1>4 DEF NoAnswer
    <3> QED
      BY <2>4, <3>1, <3>2
  <2>5. CASE ~(host' > Hosts \/ budget' = 0)
    BY <2>1, <2>2, <2>3, <2>5, <1>4 DEF NoAnswer
  <2> QED
    BY <2>4, <2>5
<1> QED
  BY <1>1, <1>2, <1>3, <1>4 DEF Connecting

LEMMA PoolingInv ==
  ASSUME Inv, Pooling
  PROVE  Inv'
<1> USE DEF Inv, TypeOK, DialInv, BackoffInv, AnyHostWillDo, Goes, Ends, Outcomes, configVars,
            connectVars, queryVars, execVars, faultVars, Wants, Executing
<1>1. CASE Redial
  BY <1>1 DEF Redial
<1>2. CASE BadConn
  BY <1>2 DEF BadConn
<1>3. CASE Gone
  BY <1>3 DEF Gone
<1> QED
  BY <1>1, <1>2, <1>3 DEF Pooling

LEMMA IntrospectingInv ==
  ASSUME Inv, Introspecting
  PROVE  Inv'
<1> USE SessionAssumption
<1> USE DEF Inv, TypeOK, DialInv, BackoffInv, AnyHostWillDo, Goes, Ends, Outcomes, configVars,
            connectVars, queryVars, execVars, faultVars, QueryFrame, Wants, Executing
<1>1. CASE Ask \/ AskFails
  BY <1>1 DEF Ask, AskFails
<1>2. CASE ReadRow \/ ReadAll \/ ReadBreaks
  <2>1. /\ UNCHANGED <<configVars, connectVars, execVars, faultVars>>
        /\ pc' \in {"read", "decide", "ask", "ended"}
        /\ outcome' \in {outcome, "introspect"}
        /\ conn' \in {conn, "none"} /\ rows' \in {rows, "closed"}
    BY <1>2 DEF ReadRow, ReadAll, NextQuery, ReadBreaks
  <2> QED
    BY <2>1
<1>3. CASE Decide
  BY <1>3 DEF Decide
<1> QED
  BY <1>1, <1>2, <1>3 DEF Introspecting

LEMMA CommitType ==
  ASSUME TypeOK, Executing, Commit
  PROVE  executed' \in Seq(Statement)
BY DEF TypeOK, Executing, Commit, Current

LEMMA ExecutionInv ==
  ASSUME Inv, Execution
  PROVE  Inv'
<1> USE SessionAssumption
<1> USE DEF Inv, TypeOK, DialInv, BackoffInv, AnyHostWillDo, Goes, Ends, Outcomes, configVars,
            connectVars, queryVars, execVars, faultVars, ExecFrame
<1>1. CASE StatementSucceeds
  <2>1. executed' \in Seq(Statement)
    BY <1>1, CommitType DEF StatementSucceeds
  <2>2. /\ UNCHANGED <<configVars, connectVars, faultVars, stmts, pc, outcome, conn, rows>>
        /\ pc = "execute" /\ pos' = pos + 1 /\ attempt' = 0
    BY <1>1 DEF StatementSucceeds, Completed
  <2> QED
    BY <2>1, <2>2
<1>2. CASE Retry
  BY <1>2 DEF Retry
<1>3. CASE Finish
  BY <1>3 DEF Finish
<1>4. CASE Cancelled
  <2>1. executed' \in Seq(Statement)
    BY <1>4, CommitType DEF Cancelled
  <2> QED
    BY <2>1, <1>4 DEF Cancelled
<1>5. CASE \E e \in Errors : StatementFails(e)
  <2>1. PICK e \in Errors : StatementFails(e)
    BY <1>5
  <2>2. OutcomeOf(e) \in {"refused", "conflict", "lost"}
    BY DEF OutcomeOf
  <2>3. executed' \in Seq(Statement)
    BY <2>1, CommitType DEF StatementFails
  <2>4. stmts # <<>>
    BY <2>1 DEF StatementFails, Executing
  <2>5. CASE WillRetry(e)
    BY <2>1, <2>3, <2>4, <2>5 DEF StatementFails, WillRetry
  <2>6. CASE ~WillRetry(e)
    BY <2>1, <2>2, <2>3, <2>6 DEF StatementFails
  <2> QED
    BY <2>5, <2>6
<1> QED
  BY <1>1, <1>2, <1>3, <1>4, <1>5 DEF Execution

LEMMA NextInv ==
  ASSUME Inv, [Next]_vars
  PROVE  Inv'
<1>1. CASE ConnectionDies \/ TokenExpires \/ CancelContext
  <2>1. /\ UNCHANGED <<configVars, host, budget, execVars, pc, outcome, rows>>
        /\ token' \in {token, "expired"} /\ conn' \in {conn, "dead"}
        /\ deaths' = deaths \/ (deaths < MaxDeaths /\ deaths' = deaths + 1)
        /\ context' \in {context, "done"}
    BY <1>1 DEF ConnectionDies, TokenExpires, CancelContext, Unaware, faultVars
  <2> QED
    BY <2>1, SessionAssumption DEF configVars, execVars, Inv, TypeOK, DialInv, BackoffInv,
                                   AnyHostWillDo
<1>2. CASE UNCHANGED vars
  BY <1>2 DEF vars, configVars, connectVars, execVars, faultVars, Inv, TypeOK, DialInv, BackoffInv,
              AnyHostWillDo
<1> QED
  BY <1>1, <1>2, ConnectingInv, PoolingInv, IntrospectingInv, ExecutionInv DEF Next, Proceed

\* The variables keep their types; in particular an attempt is never made
\* beyond the loop of execWithRetry.
THEOREM TypeCorrect == Spec => []TypeOK
<1>1. Inv => TypeOK
  BY DEF Inv
<1> QED
  BY <1>1, InitInv, NextInv, PTL DEF Spec

\* With a token, Connect and the pool find any address that answers, whatever
\* the others do; with a password, unless one before it stays silent.
THEOREM OneHostIsEnough == Spec => []AnyHostWillDo
<1>1. Inv => AnyHostWillDo
  BY DEF Inv
<1> QED
  BY <1>1, InitInv, NextInv, PTL DEF Spec

-----------------------------------------------------------------------------
(* The contract, for retries that are not negative and errors of a broken  *)
(* connection that have no 40001 in them.                                  *)

SafeErrors == MaxRetries \in Nat /\ "lostWith40001" \notin Errors

\* What has been executed is what has been completed.
RunInv ==
  /\ pc # "ended" => outcome = "none"
  /\ pc \notin {"execute", "backoff", "ended"} => stmts = <<>> /\ executed = <<>> /\ pos = 0 /\ attempt = 0
  /\ pc \in {"execute", "backoff"} =>
       pos <= Len(stmts) /\ executed = SubSeq(stmts, 1, pos) /\ attempt <= MaxRetries

LEMMA PrefixGrows ==
  ASSUME NEW S, NEW s \in Seq(S), NEW n \in Nat, n < Len(s)
  PROVE  /\ Append(SubSeq(s, 1, n), s[n + 1]) = SubSeq(s, 1, n + 1)
         /\ Len(SubSeq(s, 1, n)) = n
OBVIOUS

LEMMA WholePrefix ==
  \A s \in Seq(Statement) :
    SubSeq(s, 1, Len(s)) = s /\ SubSeq(s, 1, 0) = <<>> /\ Len(s) \in Nat
OBVIOUS

\* The steps of the contract, as changes of the three variables it is mapped to.
Begins     == phase = "stopped" /\ phase' = "deciding" /\ stmts' = <<>> /\ executed' = <<>>
GivesUp    == phase = "deciding" /\ phase' = "stopped" /\ UNCHANGED <<stmts, executed>>
Approves   == phase = "deciding" /\ phase' = "running" /\ UNCHANGED executed
              /\ stmts' # <<>> /\ stmts' \in Seq(Statement)
Executes   == phase = "running" /\ phase' \in {"running", "stopped"} /\ UNCHANGED stmts
              /\ Len(executed) < Len(stmts)
              /\ executed' = Append(executed, stmts[Len(executed) + 1])
Stops      == phase = "running" /\ phase' = "stopped" /\ UNCHANGED <<stmts, executed>>
Reports    == phase = "running" /\ phase' = "applied" /\ UNCHANGED <<stmts, executed>>
              /\ executed = stmts
Stutters   == UNCHANGED <<phase, stmts, executed>>
AbstractStep == \/ Begins \/ GivesUp \/ Approves \/ Executes \/ Stops \/ Reports \/ Stutters

LEMMA AbstractStepRefines ==
  ASSUME AbstractStep
  PROVE  [Contract!Next]_(Contract!vars)
<1> USE DEF Contract!Next, Contract!Move, Contract!vars, Run
<1>1. CASE Begins
  BY <1>1 DEF Begins, Contract!Begin
<1>2. CASE GivesUp
  BY <1>2 DEF GivesUp, Contract!GiveUp
<1>3. CASE Approves
  <2>1. \A i \in DOMAIN stmts' : stmts'[i].hazards \subseteq {}
    <3>1. TAKE i \in DOMAIN stmts'
    <3>2. stmts'[i] \in Statement
      BY <1>3 DEF Approves
    <3> QED
      BY <3>2 DEF Statement
  <2> QED
    BY <1>3, <2>1 DEF Approves, Contract!Approve
<1>4. CASE Executes
  BY <1>4 DEF Executes, Contract!ExecuteNext
<1>5. CASE Stops
  BY <1>5 DEF Stops, Contract!Stop
<1>6. CASE Reports
  BY <1>6 DEF Reports, Contract!Report
<1>7. CASE Stutters
  BY <1>7 DEF Stutters
<1> QED
  BY <1>1, <1>2, <1>3, <1>4, <1>5, <1>6, <1>7 DEF AbstractStep

LEMMA InitContract == Init => RunInv /\ Contract!Init
BY DEF Init, RunInv, Contract!Init, phase, Run

LEMMA Numbers ==
  ASSUME SafeErrors, Inv
  PROVE  pos \in Nat /\ attempt \in Nat /\ stmts \in Seq(Statement) /\ Len(stmts) \in Nat
<1>1. pos \in Nat /\ stmts \in Seq(Statement)
  BY DEF Inv, TypeOK
<1>2. attempt \in Nat
  BY DEF Inv, TypeOK, SafeErrors
<1> QED
  BY <1>1, <1>2

\* Nothing is executed of a sequence that has just been chosen.
LEMMA NothingYet ==
  ASSUME NEW s \in Seq(Statement)
  PROVE  0 <= Len(s) /\ SubSeq(s, 1, 0) = <<>>
OBVIOUS

\* One lemma per group of steps: it keeps RunInv and is a step of the contract.
LEMMA ConnectingRefines ==
  ASSUME SafeErrors, Inv, RunInv, Connecting
  PROVE  RunInv' /\ AbstractStep
<1> USE DEF SafeErrors, RunInv, phase, Goes, Ends, configVars, connectVars, queryVars, execVars, faultVars,
            AbstractStep, Stutters
<1>1. CASE Prepare
  BY <1>1 DEF Prepare, Begins
<1>2. CASE Connected
  <2>1. stmts' = stmts \/ stmts' \in Seq(Statement)
    BY <1>2, SessionAssumption DEF Connected
  <2>2. 0 <= Len(stmts') /\ SubSeq(stmts', 1, 0) = <<>>
    BY <1>2, <2>1, NothingYet DEF Connected
  <2> QED
    BY <1>2, <2>1, <2>2 DEF Connected, Approves
<1>3. CASE Denied
  BY <1>3 DEF Denied, GivesUp
<1>4. CASE NoAnswer
  BY <1>4 DEF NoAnswer, GivesUp
<1> QED
  BY <1>1, <1>2, <1>3, <1>4 DEF Connecting

LEMMA PoolingRefines ==
  ASSUME SafeErrors, Inv, RunInv, Pooling
  PROVE  RunInv' /\ AbstractStep
<1> USE DEF SafeErrors, RunInv, phase, Ends, configVars, connectVars, queryVars, execVars, faultVars,
            AbstractStep, Stutters, Wants, Executing
<1>1. CASE Redial
  BY <1>1 DEF Redial, GivesUp, Stops
<1>2. CASE BadConn
  BY <1>2 DEF BadConn
<1>3. CASE Gone
  BY <1>3 DEF Gone, GivesUp, Stops
<1> QED
  BY <1>1, <1>2, <1>3 DEF Pooling

LEMMA IntrospectingRefines ==
  ASSUME SafeErrors, Inv, RunInv, Introspecting
  PROVE  RunInv' /\ AbstractStep
<1> USE DEF SafeErrors, RunInv, phase, Goes, Ends, configVars, connectVars, queryVars, execVars, faultVars,
            AbstractStep, Stutters, QueryFrame
<1>1. CASE Ask \/ AskFails
  BY <1>1 DEF Ask, AskFails, Wants, GivesUp
<1>2. CASE ReadRow \/ ReadAll
  <2>1. /\ UNCHANGED <<execVars, outcome>> /\ pc = "read" /\ pc' \in {"read", "ask", "decide"}
    BY <1>2 DEF ReadRow, ReadAll, NextQuery
  <2> QED
    BY <2>1
<1>3. CASE ReadBreaks
  BY <1>3 DEF ReadBreaks, GivesUp
<1>4. CASE Decide
  <2>1. CASE pc' = "ended"
    BY <1>4, <2>1 DEF Decide, GivesUp
  <2>2. CASE pc' # "ended"
    <3>1. stmts' \in Seq(Statement) /\ stmts' # <<>>
      BY <1>4, <2>2, SessionAssumption DEF Decide
    <3>2. 0 <= Len(stmts') /\ SubSeq(stmts', 1, 0) = <<>>
      BY ONLY <3>1, NothingYet
    <3> QED
      BY <1>4, <2>2, <3>1, <3>2 DEF Decide, Approves
  <2> QED
    BY <2>1, <2>2
<1> QED
  BY <1>1, <1>2, <1>3, <1>4 DEF Introspecting

\* A statement that commits is the one after those executed so far.
LEMMA CommitNext ==
  ASSUME Inv, RunInv, Executing, Commit
  PROVE  /\ executed' = SubSeq(stmts, 1, pos + 1) /\ pos + 1 <= Len(stmts)
         /\ Len(executed) < Len(stmts)
         /\ executed' = Append(executed, stmts[Len(executed) + 1])
         /\ phase = "running"
<1>1. stmts \in Seq(Statement) /\ pos \in Nat /\ pos < Len(stmts) /\ pc = "execute"
  BY DEF Inv, TypeOK, Executing
<1>2. executed = SubSeq(stmts, 1, pos) /\ executed' = Append(executed, stmts[pos + 1])
  BY <1>1 DEF RunInv, Commit, Current
<1> QED
  BY <1>1, <1>2, PrefixGrows DEF phase

LEMMA ExecutionRefines ==
  ASSUME SafeErrors, Inv, RunInv, Execution
  PROVE  RunInv' /\ AbstractStep
<1> USE DEF SafeErrors, RunInv, phase, Goes, Ends, configVars, connectVars, queryVars, execVars, faultVars,
            ExecFrame, AbstractStep, Stutters
<1>a. pos \in Nat /\ attempt \in Nat /\ stmts \in Seq(Statement) /\ Len(stmts) \in Nat
  BY Numbers
<1>1. CASE StatementSucceeds
  <2>1. Executing /\ Commit /\ Completed
    BY <1>1 DEF StatementSucceeds, Executing
  <2>2. UNCHANGED <<pc, outcome, stmts>> /\ pc = "execute"
    BY <1>1 DEF StatementSucceeds
  <2> QED
    BY <1>a, <2>1, <2>2, CommitNext DEF Completed, Executes
<1>2. CASE Retry
  BY <1>2, <1>a DEF Retry, Inv, BackoffInv
<1>3. CASE Finish
  BY <1>3, <1>a, WholePrefix DEF Finish, Reports, GivesUp
<1>4. CASE Cancelled
  <2>1. CASE UNCHANGED executed
    BY <1>4, <2>1 DEF Cancelled, Stops, GivesUp
  <2>2. CASE Executing /\ Commit
    BY <1>4, <2>2, CommitNext DEF Cancelled, Executes
  <2> QED
    BY <1>4, <2>1, <2>2 DEF Cancelled
<1>5. CASE \E e \in Errors : StatementFails(e)
  <2>1. PICK e \in Errors : StatementFails(e)
    BY <1>5
  <2>2. UNCHANGED <<stmts, pos, attempt>> /\ Executing /\ pc = "execute" /\ stmts # <<>>
    <3>1. UNCHANGED <<stmts, pos, attempt>> /\ Executing
      BY <2>1 DEF StatementFails
    <3> QED
      BY <3>1, <1>a DEF Executing
  <2>3. CASE WillRetry(e)
    <3>1. ~IsLoss(e)
      BY <2>3 DEF WillRetry, isOCCError, IsLoss
    <3>2. UNCHANGED executed /\ pc' = "backoff" /\ UNCHANGED outcome
      BY <2>1, <2>3, <3>1 DEF StatementFails
    <3> QED
      BY <2>2, <3>2
  <2>4. CASE ~WillRetry(e)
    <3>1. OutcomeOf(e) # "done"
      BY DEF OutcomeOf
    <3>2. CASE UNCHANGED executed
      BY <2>1, <2>2, <2>4, <3>1, <3>2 DEF StatementFails, Stops
    <3>3. CASE Commit
      BY <2>1, <2>2, <2>4, <3>1, <3>3, CommitNext DEF StatementFails, Executes
    <3> QED
      BY <2>1, <3>2, <3>3 DEF StatementFails
  <2> QED
    BY <2>3, <2>4
<1> QED
  BY <1>1, <1>2, <1>3, <1>4, <1>5 DEF Execution

LEMMA NextRefines ==
  ASSUME SafeErrors, Inv, RunInv, [Next]_vars
  PROVE  RunInv' /\ AbstractStep
<1>1. CASE ConnectionDies \/ TokenExpires \/ CancelContext \/ UNCHANGED vars
  <2>1. UNCHANGED <<pc, outcome, stmts, pos, attempt, executed>>
    BY <1>1 DEF ConnectionDies, TokenExpires, CancelContext, Unaware, execVars, vars
  <2> QED
    BY <2>1 DEF RunInv, AbstractStep, Stutters, phase
<1> QED
  BY <1>1, ConnectingRefines, PoolingRefines, IntrospectingRefines, ExecutionRefines
     DEF Next, Proceed

\* The statements are executed in order, each at most once, and success means
\* all of them.
THEOREM SessionKeepsContract ==
  ASSUME SafeErrors
  PROVE  Spec => KeepsContract
<1>1. Inv /\ RunInv /\ [Next]_vars => RunInv' /\ [Contract!Next]_(Contract!vars)
  BY NextRefines, AbstractStepRefines
<1> QED
  BY <1>1, InitInv, NextInv, InitContract, PTL DEF Spec, KeepsContract, Contract!Spec

-----------------------------------------------------------------------------
(* A plan is made from the whole live schema: every query there is to ask  *)
(* is due, has been answered in full, or will be due once one that is due  *)
(* has been answered.                                                      *)

Row(q, n) == [query |-> q, row |-> n]

Due(q)      == \E i \in DOMAIN todo : todo[i] = q
Answered(q) == \A n \in 1..Rows(q) : Row(q, n) \in read

\* Nothing is forgotten.
AllInHand ==
  /\ Due(Tables) \/ Answered(Tables)
  /\ \A t \in DOMAIN shape :
       /\ \A q \in OfTable(t) : Due(Tables) \/ Due(q) \/ Answered(q)
       /\ \A q \in OfIndexes(t) : Due(Tables) \/ Due(Query("indexes", <<t>>)) \/ Due(q) \/ Answered(q)

Planned == pc \in {"decide", "execute", "backoff"} \/ outcome \in {"planned", "done"}

ReadingInv ==
  /\ todo \in Seq(Queries)
  /\ read \subseteq AllRows
  /\ AllInHand
  /\ pc \in {"start", "dial", "ask", "read"} => todo # <<>>
  /\ pc = "read" => /\ left \in 0..Rows(Head(todo))
                    /\ \A n \in left + 1..Rows(Head(todo)) : Row(Head(todo), n) \in read
  /\ Planned => todo = <<>>

ReadInv == command # "sql" => ReadingInv

LEMMA QueryFields ==
  ASSUME NEW of, NEW on
  PROVE  Query(of, on).of = of /\ Query(of, on).on = on
BY DEF Query

LEMMA RowsType ==
  ASSUME shape \in Seq(Nat), NEW q \in Queries
  PROVE  Rows(q) \in Nat
<1>1. CASE q = Tables
  <2>1. q.of = "tables"
    BY <1>1, QueryFields DEF Tables
  <2> QED
    BY <2>1 DEF Rows
<1>2. ASSUME NEW t \in DOMAIN shape, q \in OfTable(t) PROVE Rows(q) \in Nat
  <2>1. q.on[1] = t /\ q.of \in {"columns", "constraints", "indexes"}
    BY <1>2, QueryFields DEF OfTable
  <2>2. shape[t] \in Nat
    OBVIOUS
  <2> QED
    BY <2>1, <2>2 DEF Rows
<1>3. ASSUME NEW t \in DOMAIN shape, q \in OfIndexes(t) PROVE Rows(q) \in Nat
  <2>1. PICK n \in 1..shape[t] : q = Query("index columns", <<t, n>>)
    BY <1>3 DEF OfIndexes
  <2>2. q.of = "index columns"
    BY <2>1, QueryFields
  <2> QED
    BY <2>2 DEF Rows
<1> QED
  BY <1>1, <1>2, <1>3 DEF Queries

LEMMA QueriesAre ==
  /\ Tables \in Queries
  /\ \A t \in DOMAIN shape : OfTable(t) \subseteq Queries /\ OfIndexes(t) \subseteq Queries
  /\ \A q \in Queries : \/ q = Tables
                        \/ \E t \in DOMAIN shape : q \in OfTable(t) \/ q \in OfIndexes(t)
<1>1. ASSUME NEW q
      PROVE  q \in Queries <=>
               \/ q = Tables
               \/ \E t \in DOMAIN shape : q \in OfTable(t) \cup OfIndexes(t)
  BY DEF Queries
<1> QED
  BY <1>1

LEMMA AllRowsAre ==
  /\ \A q \in Queries : \A n \in 1..Rows(q) : Row(q, n) \in AllRows
  /\ \A r \in AllRows : \E q \in Queries : \E n \in 1..Rows(q) : r = Row(q, n)
BY DEF AllRows, Row

\* The rows of one query that has been answered.
LEMMA CountRows ==
  ASSUME NEW q, NEW k \in Nat, NEW R, R = {Row(q, n) : n \in 1..k}
  PROVE  Cardinality(R) = k
<1> DEFINE f == [n \in 1..k |-> Row(q, n)]
<1>1. f \in [1..k -> R] /\ \A a, b \in 1..k : f[a] = f[b] => a = b
  BY DEF Row
<1>2. \A r \in R : \E n \in 1..k : f[n] = r
  OBVIOUS
<1>3. f \in Bijection(1..k, R)
  BY <1>1, <1>2, Fun_IsBij
<1>4. ExistsBijection(1..k, R)
  BY <1>3, Fun_ExistsBij
<1>5. IsFiniteSet(1..k) /\ Cardinality(1..k) = k
  BY FS_Interval
<1> QED
  BY <1>4, <1>5, FS_Bijection

LEMMA SeenAll ==
  ASSUME shape \in Seq(Nat), read \subseteq AllRows, NEW q \in Queries, Answered(q)
  PROVE  SeenOf(q) = Rows(q)
<1>1. {r \in read : r.query = q} = {Row(q, n) : n \in 1..Rows(q)}
  <2>1. ASSUME NEW r \in read, r.query = q PROVE r \in {Row(q, n) : n \in 1..Rows(q)}
    <3>1. PICK p \in Queries : \E n \in 1..Rows(p) : r = Row(p, n)
      BY AllRowsAre
    <3>2. p = q
      BY <2>1, <3>1 DEF Row
    <3> QED
      BY <3>1, <3>2
  <2>2. ASSUME NEW n \in 1..Rows(q) PROVE Row(q, n) \in read /\ Row(q, n).query = q
    BY DEF Answered, Row
  <2> QED
    BY <2>1, <2>2
<1> QED
  BY <1>1, CountRows, RowsType DEF SeenOf

\* What Follow adds is what has become due.
LEMMA FollowTables ==
  ASSUME shape \in Seq(Nat), SeenOf(Tables) = Len(shape)
  PROVE  /\ Follow(Tables) \in Seq(Queries)
         /\ \A t \in DOMAIN shape : \A q \in OfTable(t) :
              \E i \in DOMAIN Follow(Tables) : Follow(Tables)[i] = q
<1>0. Tables.of = "tables" /\ Len(shape) \in Nat /\ DOMAIN shape = 1..Len(shape)
  BY QueryFields DEF Tables
<1>1. PICK N \in Nat : N = Len(shape)
  BY <1>0
<1>2. Follow(Tables) = [i \in 1..3 * N |-> Query(TableQueries[1 + ((i - 1) % 3)], <<1 + ((i - 1) \div 3)>>)]
  BY <1>0, <1>1 DEF Follow
<1>3. TableQueries[1] = "columns" /\ TableQueries[2] = "constraints" /\ TableQueries[3] = "indexes"
  BY DEF TableQueries
<1>4. ASSUME NEW i \in 1..3 * N
      PROVE  Query(TableQueries[1 + ((i - 1) % 3)], <<1 + ((i - 1) \div 3)>>) \in Queries
  <2>1. 1 + ((i - 1) \div 3) \in 1..N /\ 1 + ((i - 1) % 3) \in 1..3
    OBVIOUS
  <2>2. TableQueries[1 + ((i - 1) % 3)] \in {"columns", "constraints", "indexes"}
    BY <1>3, <2>1
  <2> QED
    BY <1>0, <1>1, <2>1, <2>2, QueriesAre DEF OfTable
<1>5. ASSUME NEW t \in 1..N, NEW q \in OfTable(t)
      PROVE  \E i \in 1..3 * N : Query(TableQueries[1 + ((i - 1) % 3)], <<1 + ((i - 1) \div 3)>>) = q
  <2>1. PICK k \in 1..3 : q = Query(TableQueries[k], <<t>>)
    BY <1>3 DEF OfTable
  <2>2. PICK i \in 1..3 * N : i = 3 * t - 3 + k
    OBVIOUS
  <2>3. 1 + ((i - 1) % 3) = k /\ 1 + ((i - 1) \div 3) = t
    BY <2>2
  <2> QED
    BY <2>1, <2>3
<1>6. Follow(Tables) \in Seq(Queries)
  BY <1>2, <1>4
<1> QED
  BY <1>0, <1>1, <1>2, <1>5, <1>6

LEMMA FollowIndexes ==
  ASSUME shape \in Seq(Nat), NEW t \in DOMAIN shape, NEW q, q = Query("indexes", <<t>>), SeenOf(q) = shape[t]
  PROVE  /\ Follow(q) \in Seq(Queries)
         /\ \A p \in OfIndexes(t) : \E i \in DOMAIN Follow(q) : Follow(q)[i] = p
<1>0. q.of = "indexes" /\ q.on = <<t>> /\ shape[t] \in Nat
  BY QueryFields
<1>1. Follow(q) = [k \in 1..shape[t] |-> Query("index columns", Append(<<t>>, k))]
  BY <1>0 DEF Follow, Listing
<1>2. \A k \in 1..shape[t] : Append(<<t>>, k) = <<t, k>>
  <2>1. ASSUME NEW i \in Nat, NEW k \in Nat PROVE Append(<<i>>, k) = <<i, k>>
    <3>1. <<i>> \in Seq(Nat) /\ Len(<<i>>) = 1 /\ <<i>>[1] = i
      OBVIOUS
    <3>2. Append(<<i>>, k) \in Seq(Nat) /\ Len(Append(<<i>>, k)) = 2
      BY <3>1
    <3>3. Append(<<i>>, k)[1] = i /\ Append(<<i>>, k)[2] = k
      BY <3>1
    <3>4. Append(<<i>>, k) = [m \in 1..2 |-> Append(<<i>>, k)[m]]
      BY <3>2
    <3>5. <<i, k>> = [m \in 1..2 |-> <<i, k>>[m]]
      OBVIOUS
    <3>6. \A m \in 1..2 : Append(<<i>>, k)[m] = <<i, k>>[m]
      BY <3>3
    <3> QED
      BY <3>4, <3>5, <3>6
  <2>2. t \in Nat /\ \A k \in 1..shape[t] : k \in Nat
    BY <1>0
  <2> QED
    BY <2>1, <2>2
<1>3. Follow(q) = [k \in 1..shape[t] |-> Query("index columns", <<t, k>>)]
  BY <1>1, <1>2
<1>4. ASSUME NEW k \in 1..shape[t] PROVE Query("index columns", <<t, k>>) \in Queries
  <2>1. Query("index columns", <<t, k>>) \in OfIndexes(t)
    BY DEF OfIndexes
  <2> QED
    BY <2>1, QueriesAre
<1>5. Follow(q) \in Seq(Queries)
  <2>1. \A N \in Nat : \A S : \A f \in [1..N -> S] : f \in Seq(S)
    OBVIOUS
  <2>2. Follow(q) \in [1..shape[t] -> Queries]
    BY <1>3, <1>4
  <2> QED
    BY <1>0, <2>1, <2>2
<1> QED
  BY <1>3, <1>5 DEF OfIndexes


-----------------------------------------------------------------------------
(* The steps keep what is in hand.                                         *)

LEMMA SameSchema ==
  ASSUME shape' = shape
  PROVE  /\ Queries' = Queries /\ AllRows' = AllRows
         /\ \A q : Rows(q)' = Rows(q)
         /\ \A t : OfIndexes(t)' = OfIndexes(t)
BY DEF Queries, AllRows, Rows, OfIndexes

LEMMA InitRead == Init => ReadInv
<1> SUFFICES ASSUME Init PROVE ReadingInv
  BY DEF ReadInv
<1>1. todo = <<Tables>> /\ read = {} /\ pc = "start" /\ outcome = "none"
  BY DEF Init, Tables
<1>2. todo \in Seq(Queries) /\ todo # <<>>
  BY <1>1, QueriesAre
<1>3. Due(Tables)
  BY <1>1 DEF Due
<1> QED
  BY <1>1, <1>2, <1>3 DEF ReadingInv, AllInHand, Planned

\* A step that asks nothing and reads nothing.
LEMMA ReadKept ==
  ASSUME ReadInv, UNCHANGED <<command, shape, queryVars>>,
         pc' \in {"start", "dial", "ask", "read"} => pc \in {"start", "dial", "ask", "read"},
         pc' = "read" => pc = "read",
         command # "sql" /\ Planned' => Planned
  PROVE  ReadInv'
<1> SUFFICES ASSUME command # "sql" PROVE ReadingInv'
  BY DEF ReadInv
<1>1. ReadingInv
  BY DEF ReadInv
<1>2. todo' = todo /\ left' = left /\ read' = read /\ shape' = shape
  BY DEF queryVars
<1>3. \A q : (Due(q)' <=> Due(q)) /\ (Answered(q)' <=> Answered(q))
  BY <1>2, SameSchema DEF Due, Answered
<1>4. AllInHand'
  BY <1>1, <1>2, <1>3, SameSchema DEF ReadingInv, AllInHand
<1> QED
  BY <1>1, <1>2, <1>4, SameSchema DEF ReadingInv

LEMMA AskRead ==
  ASSUME TypeOK, ReadInv, Ask
  PROVE  ReadInv'
<1> SUFFICES ASSUME command # "sql" PROVE ReadingInv'
  BY DEF ReadInv, Ask, QueryFrame, configVars
<1>1. ReadingInv
  BY DEF ReadInv, Ask, QueryFrame, configVars
<1>2. /\ todo' = todo /\ read' = read /\ shape' = shape /\ left' = Rows(Head(todo))
      /\ pc = "ask" /\ pc' = "read" /\ outcome' = outcome
  BY DEF Ask, Goes, QueryFrame, configVars
<1>3. \A q : (Due(q)' <=> Due(q)) /\ (Answered(q)' <=> Answered(q))
  BY <1>2, SameSchema DEF Due, Answered
<1>4. AllInHand'
  BY <1>1, <1>2, <1>3, SameSchema DEF ReadingInv, AllInHand
<1>5. shape \in Seq(Nat) /\ Head(todo) \in Queries
  BY <1>1, <1>2, SessionAssumption DEF TypeOK, ReadingInv
<1>6. left' \in 0..Rows(Head(todo)) /\ left' + 1..Rows(Head(todo)) = {}
  BY <1>2, <1>5, RowsType
<1> QED
  BY <1>1, <1>2, <1>4, <1>6, SameSchema DEF ReadingInv, Planned

LEMMA ReadRowRead ==
  ASSUME TypeOK, ReadInv, ReadRow
  PROVE  ReadInv'
<1> SUFFICES ASSUME command # "sql" PROVE ReadingInv'
  BY DEF ReadInv, ReadRow, QueryFrame, configVars
<1>1. ReadingInv
  BY DEF ReadInv, ReadRow, QueryFrame, configVars
<1> DEFINE h == Head(todo)
<1>2. /\ todo' = todo /\ shape' = shape /\ left' = left - 1 /\ left > 0
      /\ read' = read \cup {Row(h, left)}
      /\ pc = "read" /\ pc' = "read" /\ outcome' = outcome
  BY DEF ReadRow, QueryFrame, configVars, Row
<1>3. shape \in Seq(Nat) /\ h \in Queries
  BY <1>1, <1>2, SessionAssumption DEF TypeOK, ReadingInv
<1>4. Rows(h) \in Nat /\ left \in 1..Rows(h) /\ \A n \in left + 1..Rows(h) : Row(h, n) \in read
  BY <1>1, <1>2, <1>3, RowsType DEF ReadingInv
<1>5. read' \subseteq AllRows
  BY <1>1, <1>2, <1>3, <1>4, AllRowsAre DEF ReadingInv
<1>6. \A q : (Due(q)' <=> Due(q)) /\ (Answered(q) => Answered(q)')
  BY <1>2, SameSchema DEF Due, Answered
<1>7. AllInHand'
  BY <1>1, <1>2, <1>6, SameSchema DEF ReadingInv, AllInHand
<1>8. left' \in 0..Rows(h) /\ \A n \in left' + 1..Rows(h) : Row(h, n) \in read'
  <2>1. left' \in 0..Rows(h)
    BY <1>2, <1>4
  <2>2. ASSUME NEW n \in left' + 1..Rows(h) PROVE Row(h, n) \in read'
    <3>1. n = left \/ n \in left + 1..Rows(h)
      BY <1>2, <1>4
    <3> QED
      BY <1>2, <1>4, <3>1
  <2> QED
    BY <2>1, <2>2
<1> QED
  BY <1>1, <1>2, <1>5, <1>7, <1>8, SameSchema DEF ReadingInv, Planned

\* What was due stays due or has been answered; what waited for the answer is due.
LEMMA FollowType ==
  ASSUME shape \in Seq(Nat), read \subseteq AllRows, NEW h \in Queries, Answered(h)
  PROVE  Follow(h) \in Seq(Queries)
<1>1. SeenOf(h) = Rows(h)
  BY SeenAll
<1>2. CASE h = Tables
  <2>1. Rows(h) = Len(shape)
    BY <1>2, QueryFields DEF Rows, Tables
  <2> QED
    BY <1>1, <1>2, <2>1, FollowTables
<1>3. ASSUME NEW t \in DOMAIN shape, h = Query("indexes", <<t>>) PROVE Follow(h) \in Seq(Queries)
  <2>1. Rows(h) = shape[t]
    BY <1>3, QueryFields DEF Rows
  <2> QED
    BY <1>1, <1>3, <2>1, FollowIndexes
<1>4. ASSUME h.of \in {"columns", "constraints", "index columns"} PROVE Follow(h) \in Seq(Queries)
  <2>1. Follow(h) = <<>>
    BY <1>4 DEF Follow
  <2>2. <<>> \in Seq(Queries)
    OBVIOUS
  <2> QED
    BY <2>1, <2>2
<1>5. ASSUME NEW t \in DOMAIN shape, h \in OfTable(t) \/ h \in OfIndexes(t)
      PROVE  h = Query("indexes", <<t>>) \/ h.of \in {"columns", "constraints", "index columns"}
  <2>1. CASE h \in OfTable(t)
    <3>1. PICK of \in {"columns", "constraints", "indexes"} : h = Query(of, <<t>>)
      BY <2>1 DEF OfTable
    <3>2. h.of = of
      BY <3>1, QueryFields
    <3> QED
      BY <3>1, <3>2
  <2>2. CASE h \in OfIndexes(t)
    <3>1. PICK n \in 1..shape[t] : h = Query("index columns", <<t, n>>)
      BY <2>2 DEF OfIndexes
    <3>2. h.of = "index columns"
      BY <3>1, QueryFields
    <3> QED
      BY <3>2
  <2> QED
    BY <1>5, <2>1, <2>2
<1> QED
  BY <1>2, <1>3, <1>4, <1>5, QueriesAre

LEMMA ReadAllRead ==
  ASSUME TypeOK, ReadInv, ReadAll
  PROVE  ReadInv'
<1> SUFFICES ASSUME command # "sql" PROVE ReadingInv'
  BY DEF ReadInv, ReadAll, NextQuery, QueryFrame, configVars
<1>1. ReadingInv
  BY DEF ReadInv, ReadAll, NextQuery, QueryFrame, configVars
<1> DEFINE h == Head(todo)
<1>2. /\ todo' = Follow(h) \o Tail(todo) /\ shape' = shape /\ read' = read /\ left = 0
      /\ pc = "read" /\ pc' = (IF todo' = <<>> THEN "decide" ELSE "ask") /\ outcome' = outcome
  BY DEF ReadAll, NextQuery, Goes, QueryFrame, configVars
<1>3. shape \in Seq(Nat) /\ todo \in Seq(Queries) /\ todo # <<>> /\ h \in Queries /\ read \subseteq AllRows
  BY <1>1, <1>2, SessionAssumption DEF TypeOK, ReadingInv
<1>4. Answered(h)
  BY <1>1, <1>2, <1>3, RowsType DEF ReadingInv, Answered
<1>5. Follow(h) \in Seq(Queries) /\ SeenOf(h) = Rows(h)
  BY <1>3, <1>4, FollowType, SeenAll
<1> HIDE DEF h
<1>6. ASSUME NEW q, \/ \E i \in DOMAIN Follow(h) : Follow(h)[i] = q
                    \/ Due(q) /\ q # h
      PROVE  Due(q)'
  <2>1. \A F, G \in Seq(Queries) : /\ DOMAIN (F \o G) = 1..Len(F) + Len(G)
                                   /\ \A i \in 1..Len(F) : (F \o G)[i] = F[i]
                                   /\ \A i \in 1..Len(G) : (F \o G)[Len(F) + i] = G[i]
    OBVIOUS
  <2>2. PICK F \in Seq(Queries) : F = Follow(h)
    BY <1>5
  <2>c. \A s \in Seq(Queries) : s # <<>> => Tail(s) \in Seq(Queries)
    OBVIOUS
  <2>d. Tail(todo) \in Seq(Queries)
    BY ONLY <1>3, <2>c, Zenon
  <2>3. PICK G \in Seq(Queries) : G = Tail(todo)
    BY <2>d
  <2>4. Len(F) \in Nat /\ Len(G) \in Nat /\ DOMAIN F = 1..Len(F) /\ todo' = F \o G
    BY <1>2, <2>2, <2>3
  <2>5. CASE \E i \in DOMAIN Follow(h) : Follow(h)[i] = q
    <3>1. PICK i \in 1..Len(F) : F[i] = q
      BY <2>2, <2>4, <2>5
    <3>2. (F \o G)[i] = q /\ i \in DOMAIN (F \o G)
      BY <2>1, <2>4, <3>1
    <3> QED
      BY <2>4, <3>2 DEF Due
  <2>6. CASE Due(q) /\ q # h
    <3>1. PICK i \in 1..Len(todo) : todo[i] = q
      BY <1>3, <2>6 DEF Due
    <3>2. i # 1
      BY <1>3, <2>6, <3>1 DEF h
    <3>3. i - 1 \in 1..Len(G) /\ G[i - 1] = q
      BY <1>3, <2>3, <3>1, <3>2
    <3>4. (F \o G)[Len(F) + (i - 1)] = q /\ Len(F) + (i - 1) \in DOMAIN (F \o G)
      BY <2>1, <2>4, <3>3
    <3> QED
      BY <2>4, <3>4 DEF Due
  <2> QED
    BY <1>6, <2>5, <2>6
<1>7. ASSUME NEW q, Due(q) \/ Answered(q) PROVE Due(q)' \/ Answered(q)'
  <2>1. Answered(q)' <=> Answered(q)
    BY <1>2, SameSchema DEF Answered
  <2> QED
    BY <1>4, <1>6, <1>7, <2>1
<1>8. ASSUME Due(Tables), ~Due(Tables)', NEW t \in DOMAIN shape, NEW q \in OfTable(t) PROVE Due(q)'
  <2>1. h = Tables
    BY <1>6, <1>8
  <2>2. SeenOf(Tables) = Len(shape)
    BY <1>5, <2>1, QueryFields DEF Rows, Tables
  <2> QED
    BY <1>3, <1>6, <2>1, <2>2, FollowTables
<1>9. ASSUME NEW t \in DOMAIN shape, Due(Query("indexes", <<t>>)), ~Due(Query("indexes", <<t>>))',
             NEW q \in OfIndexes(t) PROVE Due(q)'
  <2>1. h = Query("indexes", <<t>>)
    BY <1>6, <1>9
  <2>2. SeenOf(h) = shape[t]
    BY <1>5, <2>1, QueryFields DEF Rows
  <2> QED
    BY <1>3, <1>6, <2>1, <2>2, FollowIndexes
<1>10. AllInHand'
  <2>1. Due(Tables)' \/ Answered(Tables)'
    BY <1>1, <1>7 DEF ReadingInv, AllInHand
  <2>2. ASSUME NEW t \in DOMAIN shape, NEW q \in OfTable(t)
        PROVE  Due(Tables)' \/ Due(q)' \/ Answered(q)'
    BY <1>1, <1>7, <1>8 DEF ReadingInv, AllInHand
  <2>3. ASSUME NEW t \in DOMAIN shape, NEW q \in OfIndexes(t)
        PROVE  Due(Tables)' \/ Due(Query("indexes", <<t>>))' \/ Due(q)' \/ Answered(q)'
    <3>1. Query("indexes", <<t>>) \in OfTable(t)
      BY DEF OfTable
    <3>2. Due(Tables) \/ Due(Query("indexes", <<t>>)) \/ Due(q) \/ Answered(q)
      BY <1>1 DEF ReadingInv, AllInHand
    <3> QED
      BY <1>7, <1>8, <1>9, <3>1, <3>2
  <2> QED
    BY <1>2, <2>1, <2>2, <2>3, SameSchema DEF AllInHand
<1>11. todo' \in Seq(Queries)
  BY <1>2, <1>3, <1>5
<1>12. ~Planned
  BY <1>1, <1>3 DEF ReadingInv
<1> QED
  BY <1>1, <1>2, <1>3, <1>10, <1>11, <1>12, SameSchema DEF ReadingInv, Planned

LEMMA NextRead ==
  ASSUME TypeOK, ReadInv, [Next]_vars
  PROVE  ReadInv'
<1> USE DEF Goes, Ends, Planned, QueryFrame, ExecFrame, configVars, queryVars
<1>1. CASE Connecting
  BY <1>1, ReadKept DEF Connecting, Prepare, Connected, Denied, NoAnswer
<1>2. CASE Pooling
  BY <1>2, ReadKept DEF Pooling, Redial, BadConn, Gone
<1>3. CASE Ask \/ ReadRow \/ ReadAll
  BY <1>3, AskRead, ReadRowRead, ReadAllRead
<1>4. CASE AskFails \/ ReadBreaks \/ Decide
  BY <1>4, ReadKept DEF AskFails, ReadBreaks, Decide
<1>5. CASE Execution
  <2>1. ASSUME NEW e \in Errors, StatementFails(e) PROVE ReadInv'
    <3>1. OutcomeOf(e) \in {"refused", "conflict", "lost"}
      BY DEF OutcomeOf
    <3> QED
      BY <2>1, <3>1, ReadKept DEF StatementFails, Executing
  <2>2. CASE StatementSucceeds \/ Retry \/ Finish \/ Cancelled
    BY <2>2, ReadKept DEF StatementSucceeds, Retry, Finish, Cancelled
  <2> QED
    BY <1>5, <2>1, <2>2 DEF Execution
<1>6. CASE ConnectionDies \/ TokenExpires \/ CancelContext \/ UNCHANGED vars
  BY <1>6, ReadKept DEF ConnectionDies, TokenExpires, CancelContext, Unaware, vars
<1> QED
  BY <1>1, <1>2, <1>3, <1>4, <1>5, <1>6 DEF Next, Proceed, Introspecting

\* A plan is made from the whole live schema or not at all: when no query is
\* due any more, none has a row that was not read.
THEOREM PlansReadEverything == Spec => []PlansFromWhole
<1>1. Init => Inv /\ ReadInv
  BY InitInv, InitRead
<1>2. Inv /\ ReadInv /\ [Next]_vars => (Inv /\ ReadInv)'
  BY NextInv, NextRead DEF Inv
<1>3. ReadInv => PlansFromWhole
  <2> SUFFICES ASSUME ReadInv, command # "sql", Planned PROVE read = AllRows
    BY DEF PlansFromWhole, Planned
  <2>1. ReadingInv /\ todo = <<>>
    BY DEF ReadInv, ReadingInv
  <2>2. \A q : ~Due(q)
    BY <2>1 DEF Due
  <2>3. \A q \in Queries : Answered(q)
    BY <2>1, <2>2, QueriesAre DEF ReadingInv, AllInHand
  <2>4. AllRows \subseteq read
    BY <2>3, AllRowsAre DEF Answered
  <2> QED
    BY <2>1, <2>4 DEF ReadingInv
<1> QED
  BY <1>1, <1>2, <1>3, PTL DEF Spec

=============================================================================
