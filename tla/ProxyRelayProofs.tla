-------------------------- MODULE ProxyRelayProofs --------------------------
(***************************************************************************)
(* Proofs about module ProxyRelay, for every set of scripts a client may   *)
(* send, any pipelining and streams of any capacity.                       *)
(***************************************************************************)
EXTENDS ProxyRelay, FiniteSetTheorems, Induction, TLAPS
LOCAL INSTANCE SequenceTheorems
LOCAL INSTANCE FiniteSetsExt

\* Statements PostgreSQL is never to see.
Foreign == {"unsupported", "create index async"}

Clean(sql) == \A k \in DOMAIN sql : sql[k] \notin Foreign

CleanStream(s) == \A i \in DOMAIN s : Clean(s[i].sql)

\* The types of what is on its way to the backend.
MessagesOK ==
  /\ fromClient \in Seq(Message)
  /\ toBackend \in Seq(Message)
  /\ carried \in Message
  /\ sent \in Nat

\* What clientToBackend has in hand to forward has been checked and rewritten.
ForwardInv ==
  /\ MessagesOK
  /\ up = "forward" => Clean(carried.sql)
  /\ CleanStream(toBackend)

-----------------------------------------------------------------------------

\* Text that passes Check is clean once it is rewritten.
LEMMA RewriteCleans ==
  ASSUME NEW sql \in Seq(Statements), ~Check(sql)
  PROVE  Rewrite(sql) \in Seq(Statements) /\ Clean(Rewrite(sql))
<1>1. DOMAIN sql = 1..Len(sql) /\ Len(sql) \in Nat
  OBVIOUS
<1>2. \A i \in 1..Len(sql) : sql[i] \in Statements /\ sql[i] # "unsupported"
  <2>1. \A i \in 1..Len(sql) : sql[i] \notin Unsupported
    BY <1>1 DEF Check
  <2>2. \A i \in 1..Len(sql) : sql[i] \in Statements
    OBVIOUS
  <2> QED
    BY <2>1, <2>2 DEF Unsupported
<1>3. ASSUME NEW i \in 1..Len(sql)
      PROVE  Rewrite(sql)[i] \in Statements /\ Rewrite(sql)[i] \notin Foreign
  <2>1. Rewrite(sql)[i] = IF sql[i] = "create index async" THEN "create index concurrently"
                          ELSE sql[i]
    BY <1>1 DEF Rewrite
  <2> QED
    BY <1>2, <2>1 DEF Statements, Foreign
<1>4. DOMAIN Rewrite(sql) = 1..Len(sql) /\ Rewrite(sql) = [i \in 1..Len(sql) |-> Rewrite(sql)[i]]
  BY <1>1 DEF Rewrite
<1>5. Rewrite(sql) \in Seq(Statements)
  BY <1>1, <1>3, <1>4
<1> QED
  BY <1>3, <1>4, <1>5 DEF Clean

LEMMA AppendClean ==
  ASSUME NEW s \in Seq(Message), NEW m \in Message, CleanStream(s), Clean(m.sql)
  PROVE  Append(s, m) \in Seq(Message) /\ CleanStream(Append(s, m))
BY DEF CleanStream

LEMMA TailClean ==
  ASSUME NEW s \in Seq(Message), s # <<>>, CleanStream(s)
  PROVE  Tail(s) \in Seq(Message) /\ CleanStream(Tail(s))
BY DEF CleanStream

-----------------------------------------------------------------------------

LEMMA InitForward == Init => ForwardInv
<1> SUFFICES ASSUME Init
             PROVE  ForwardInv
  OBVIOUS
<1>1. NoMessage \in Message
  BY DEF NoMessage, Message, WithoutText
<1> QED
  BY <1>1 DEF Init, BackendInit, ForwardInv, MessagesOK, CleanStream

LEMMA NextForward == ForwardInv /\ [Next]_vars => ForwardInv'
<1> SUFFICES ASSUME ForwardInv, [Next]_vars
             PROVE  ForwardInv'
  OBVIOUS
<1>a. fromClient # <<>> => Head(fromClient) \in Message /\ Tail(fromClient) \in Seq(Message)
  BY DEF ForwardInv, MessagesOK
<1> USE DEF ForwardInv, MessagesOK
<1>1. CASE Inspect
  <2>1. UNCHANGED <<toBackend, sent>>
    BY <1>1 DEF Inspect, UpFrame, backendVars, clientVars
  <2>2. fromClient' \in Seq(Message) /\ Head(fromClient) \in Message
    BY <1>1, <1>a DEF Inspect, Receive
  <2>3. /\ Head(fromClient).type \in WithText
        /\ Head(fromClient).sql \in Seq(Statements)
    BY <1>1, <2>2 DEF Inspect, Message, WithText, WithoutText
  <2>4. CASE Check(Head(fromClient).sql)
    BY <1>1, <2>1, <2>2, <2>4 DEF Inspect
  <2>5. CASE ~Check(Head(fromClient).sql)
    <3>1. /\ carried' = [Head(fromClient) EXCEPT !.sql = Rewrite(Head(fromClient).sql)]
          /\ up' = "forward"
      BY <1>1, <2>5 DEF Inspect
    <3>2. carried' \in Message /\ Clean(carried'.sql)
      BY <2>2, <2>3, <2>5, <3>1, RewriteCleans DEF Message
    <3> QED
      BY <2>1, <2>2, <3>1, <3>2
  <2> QED
    BY <2>4, <2>5
<1>2. CASE PassOn
  <2>1. /\ UNCHANGED <<toBackend, sent>>
        /\ up' = "forward" /\ carried' = Head(fromClient)
        /\ fromClient' \in Seq(Message) /\ carried' \in Message
    BY <1>2, <1>a DEF PassOn, Receive, UpFrame, backendVars, clientVars
  <2>2. carried'.sql = <<>>
    BY <1>2, <1>a, <2>1 DEF PassOn, Receive, Message, WithText, WithoutText
  <2> QED
    BY <2>1, <2>2 DEF Clean
<1>3. CASE Forward
  <2>1. toBackend' \in Seq(Message) /\ CleanStream(toBackend')
    BY <1>3, AppendClean DEF Forward
  <2> QED
    BY <1>3, <2>1 DEF Forward, UpReturns, clientVars
<1>4. CASE SendError \/ DrainUntilSync \/ UpStops
  BY <1>4, <1>a DEF SendError, Rejecting, DrainUntilSync, Draining, UpStops, UpReturns,
                    UpFrame, backendVars, clientVars
<1>5. CASE BackendToClient
  BY <1>5 DEF BackendToClient, ReceiveReply, ForwardReply, DownStops, DownReturns, DownFrame,
              upVars, clientVars
<1>6. CASE Serve \/ BackendDies
  <2>1. UNCHANGED <<fromClient, carried, up, sent>>
    BY <1>6 DEF Serve, BackendDies, Elsewhere, streamVars, upVars, clientVars
  <2>2. UNCHANGED toBackend \/ (toBackend # <<>> /\ toBackend' = Tail(toBackend))
    BY <1>6 DEF Serve, BackendDies, ServeNext, EndSession, TakeQuery, RunStatement, EndQuery,
                TakeParse, TakeBind, TakeExecute, TakeSync, TakeFlush, TakeTerminate, Take
  <2>3. toBackend' \in Seq(Message) /\ CleanStream(toBackend')
    BY <2>2, TailClean
  <2> QED
    BY <2>1, <2>3
<1>7. CASE \E script \in Scripts : ClientSends(script)
  <2>1. PICK script \in Scripts : ClientSends(script)
    BY <1>7
  <2>2. script \in Seq(Unbatched)
    BY RelayAssumption
  <2>3. [i \in DOMAIN script |-> [type |-> script[i].type, sql |-> script[i].sql,
                                 batch |-> sent + 1]] \in Seq(Message)
    <3>1. DOMAIN script = 1..Len(script) /\ Len(script) \in Nat
      BY <2>2
    <3>2. \A i \in 1..Len(script) :
            [type |-> script[i].type, sql |-> script[i].sql, batch |-> sent + 1] \in Message
      BY <2>2 DEF Unbatched, Message, WithText, WithoutText
    <3> QED
      BY <3>1, <3>2
  <2>4. fromClient' \in Seq(Message) /\ sent' \in Nat
    BY <2>1, <2>3 DEF ClientSends
  <2> QED
    BY <2>1, <2>4 DEF ClientSends, ClientFrame, backendVars, upVars
<1>8. CASE ClientReads \/ ClientHangsUp
  BY <1>8 DEF ClientReads, ClientHangsUp, ClientFrame, backendVars, upVars, clientVars
<1>9. CASE UNCHANGED vars
  BY <1>9 DEF vars, backendVars, streamVars, upVars, clientVars
<1> QED
  BY <1>1, <1>2, <1>3, <1>4, <1>5, <1>6, <1>7, <1>8, <1>9 DEF Next, ClientToBackend

\* Nothing a rule matches, and no ASYNC, reaches PostgreSQL, whatever the
\* client sends and however the two goroutines interleave (handler.go 461-533).
THEOREM OnlySupportedForwarded == Spec => []SupportedOnly
<1>1. ForwardInv => SupportedOnly
  BY DEF ForwardInv, CleanStream, Clean, Foreign, SupportedOnly
<1> QED
  BY <1>1, InitForward, NextForward, PTL DEF Spec

-----------------------------------------------------------------------------
(* The relay is a tunnel, as far as safety goes: closeAll has a reason.    *)

Flags == closed \in BOOLEAN /\ clientGone \in BOOLEAN /\ backendGone \in BOOLEAN

\* Who says Terminate hangs up.
TerminateInv ==
  /\ \A i \in DOMAIN fromClient : fromClient[i].type = "Terminate" => clientGone = TRUE
  /\ carried.type = "Terminate" => clientGone = TRUE

CloseInv ==
  /\ Flags
  /\ closed = TRUE => clientGone = TRUE \/ backendGone = TRUE
  /\ up = "returned" \/ down = "returned" => closed = TRUE
  /\ TerminateInv

LEMMA InitClose == Init => CloseInv
<1> SUFFICES ASSUME Init PROVE CloseInv
  OBVIOUS
<1>1. Flags /\ closed = FALSE
  BY DEF Init, BackendInit, Flags
<1>2. up = "receive" /\ down = "receive" /\ carried.type = "Sync" /\ fromClient = <<>>
  BY DEF Init, NoMessage
<1> QED
  BY <1>1, <1>2 DEF CloseInv, TerminateInv

\* Nobody comes back, and a goroutine that has returned stays so.
LEMMA RelayStep ==
  ASSUME Flags, [Next]_vars
  PROVE  /\ Flags'
         /\ clientGone = TRUE => clientGone' = TRUE
         /\ backendGone = TRUE => backendGone' = TRUE
         /\ closed = TRUE => closed' = TRUE
         /\ up = "returned" => up' = "returned"
         /\ down = "returned" => down' = "returned"
<1> USE DEF Flags
<1>1. CASE Inspect \/ PassOn
  BY <1>1 DEF Inspect, PassOn, Receive, UpFrame, backendVars, sessionVars, downVars
<1>2. CASE Forward
  BY <1>2 DEF Forward, UpReturns, sessionVars, downVars
<1>3. CASE SendError \/ DrainUntilSync \/ UpStops
  BY <1>3 DEF SendError, Rejecting, DrainUntilSync, Draining, UpStops, UpReturns, UpFrame,
              backendVars, sessionVars, downVars
<1>4. CASE BackendToClient
  BY <1>4 DEF BackendToClient, ReceiveReply, ForwardReply, DownStops, DownReturns, DownFrame,
              sessionVars, upVars
<1>5. CASE Serve \/ BackendDies
  <2>1. UNCHANGED <<clientGone, closed, up, down>>
    BY <1>5 DEF Serve, BackendDies, Elsewhere, streamVars, upVars, downVars
  <2>2. backendGone' = backendGone \/ backendGone' = TRUE
    BY <1>5 DEF Serve, BackendDies, ServeNext, EndSession, TakeQuery, RunStatement, EndQuery,
                TakeParse, TakeBind, TakeExecute, TakeSync, TakeFlush, TakeTerminate, Take
  <2> QED
    BY <2>1, <2>2
<1>6. CASE (\E script \in Scripts : ClientSends(script)) \/ ClientReads \/ ClientHangsUp
  BY <1>6 DEF ClientSends, ClientReads, ClientHangsUp, ClientFrame, backendVars, sessionVars,
              upVars, downVars
<1>7. CASE UNCHANGED vars
  BY <1>7 DEF vars, backendVars, sessionVars, streamVars, upVars, downVars
<1> QED
  BY <1>1, <1>2, <1>3, <1>4, <1>5, <1>6, <1>7 DEF Next, ClientToBackend

\* Messages are taken from the front of the stream.
LEMMA TerminateTaken ==
  ASSUME TerminateInv, fromClient \in Seq(Message), fromClient # <<>>
  PROVE  /\ Head(fromClient).type = "Terminate" => clientGone = TRUE
         /\ \A i \in DOMAIN Tail(fromClient) :
              Tail(fromClient)[i].type = "Terminate" => clientGone = TRUE
BY DEF TerminateInv

LEMMA NextTerminate ==
  ASSUME ForwardInv, CloseInv, [Next]_vars
  PROVE  TerminateInv'
<1>a. fromClient \in Seq(Message) /\ carried \in Message /\ TerminateInv
  BY DEF ForwardInv, MessagesOK, CloseInv
<1>b. clientGone = TRUE => clientGone' = TRUE
  BY RelayStep DEF CloseInv
<1>1. CASE Inspect
  <2>1. /\ fromClient # <<>> /\ fromClient' = Tail(fromClient)
        /\ Head(fromClient).type \in WithText
    BY <1>1 DEF Inspect, Receive
  <2>2. Head(fromClient) \in Message
    BY <1>a, <2>1
  <2>3. carried'.type = Head(fromClient).type
    BY <1>1, <2>1, <2>2 DEF Inspect, Message
  <2>4. carried'.type # "Terminate"
    BY <2>1, <2>3 DEF WithText
  <2> QED
    BY <1>a, <1>b, <2>1, <2>4, TerminateTaken DEF TerminateInv
<1>2. CASE PassOn
  BY <1>2, <1>a, <1>b, TerminateTaken DEF PassOn, Receive, TerminateInv
<1>3. CASE DrainUntilSync
  BY <1>3, <1>a, <1>b, TerminateTaken DEF DrainUntilSync, Draining, TerminateInv
<1>4. ASSUME NEW script \in Scripts, ClientSends(script)
      PROVE  TerminateInv'
  <2>1. carried' = carried
    BY <1>4 DEF ClientSends, ClientFrame, upVars
  <2>2. script \in Seq(Unbatched)
    BY RelayAssumption
  <2>3. ASSUME NEW i \in DOMAIN fromClient', fromClient'[i].type = "Terminate"
        PROVE  clientGone' = TRUE
    <3> DEFINE new == [k \in DOMAIN script |-> [type |-> script[k].type, sql |-> script[k].sql,
                                                batch |-> sent + 1]]
    <3>1. /\ fromClient' = fromClient \o new
          /\ DOMAIN new = 1..Len(script) /\ new \in Seq({new[k] : k \in DOMAIN script})
      BY <1>4, <2>2 DEF ClientSends
    <3>2. \/ i \in DOMAIN fromClient /\ fromClient'[i] = fromClient[i]
          \/ \E k \in DOMAIN script : fromClient'[i] = new[k]
      <4> HIDE DEF new
      <4> QED
        BY <3>1, <2>2, <2>3, <1>a
    <3>3. CASE \E k \in DOMAIN script : fromClient'[i] = new[k]
      <4>1. \E k \in DOMAIN script : script[k].type = "Terminate"
        BY <2>3, <3>3
      <4> QED
        BY <4>1, <1>4 DEF ClientSends
    <3> QED
      BY <1>a, <1>b, <2>3, <3>2, <3>3 DEF TerminateInv
  <2> QED
    BY <1>a, <1>b, <2>1, <2>3 DEF TerminateInv
<1>5. CASE \/ Forward \/ SendError \/ UpStops \/ BackendToClient \/ Serve \/ BackendDies
           \/ ClientReads \/ ClientHangsUp \/ UNCHANGED vars
  <2>1. UNCHANGED <<fromClient, carried>>
    BY <1>5 DEF Forward, SendError, Rejecting, UpStops, UpFrame, BackendToClient, ReceiveReply,
         ForwardReply, DownStops, DownFrame, upVars, Serve, BackendDies, Elsewhere, streamVars,
         ClientReads, ClientHangsUp, ClientFrame, vars
  <2> QED
    BY <1>a, <1>b, <2>1 DEF TerminateInv
<1> QED
  BY <1>1, <1>2, <1>3, <1>4, <1>5 DEF Next, ClientToBackend

LEMMA NextClose == ForwardInv /\ CloseInv /\ [Next]_vars => CloseInv'
<1> SUFFICES ASSUME ForwardInv, CloseInv, [Next]_vars
             PROVE  CloseInv'
  OBVIOUS
<1>a. Flags /\ Flags' /\ TerminateInv'
  BY RelayStep, NextTerminate DEF CloseInv
<1>b. /\ clientGone = TRUE => clientGone' = TRUE
      /\ backendGone = TRUE => backendGone' = TRUE
      /\ closed = TRUE => closed' = TRUE
  BY RelayStep DEF CloseInv
<1>1. /\ closed' = closed \/ clientGone = TRUE \/ backendGone = TRUE
      /\ up' = "returned" => up = "returned" \/ closed' = TRUE
      /\ down' = "returned" => down = "returned" \/ closed' = TRUE
  <2>1. CASE Forward
    <3>1. CASE carried.type = "Terminate"
      BY <2>1, <3>1 DEF Forward, UpReturns, downVars, CloseInv, TerminateInv
    <3>2. CASE carried.type # "Terminate"
      BY <2>1, <3>2 DEF Forward, downVars
    <3> QED
      BY <3>1, <3>2
  <2>2. CASE Inspect \/ PassOn
    BY <2>2 DEF Inspect, PassOn, UpFrame, downVars
  <2>3. CASE SendError \/ DrainUntilSync
    BY <2>3 DEF SendError, Rejecting, DrainUntilSync, Draining, UpFrame, downVars
  <2>4. CASE UpStops
    BY <2>4 DEF UpStops, UpReturns, UpFrame, downVars, CloseInv, Flags
  <2>5. CASE ReceiveReply \/ ForwardReply
    BY <2>5 DEF ReceiveReply, ForwardReply, DownFrame, upVars
  <2>6. CASE DownStops
    BY <2>6 DEF DownStops, DownReturns, DownFrame, upVars, CloseInv, Flags
  <2>7. CASE \/ Serve \/ BackendDies \/ (\E script \in Scripts : ClientSends(script))
             \/ ClientReads \/ ClientHangsUp \/ UNCHANGED vars
    BY <2>7 DEF Serve, BackendDies, Elsewhere, ClientSends, ClientReads, ClientHangsUp, ClientFrame,
         vars, streamVars, upVars, downVars
  <2> QED
    BY <2>1, <2>2, <2>3, <2>4, <2>5, <2>6, <2>7 DEF Next, ClientToBackend, BackendToClient
<1> QED
  BY <1>a, <1>b, <1>1 DEF CloseInv

LEMMA InitTunnel == Init => Tunnelled!Init
<1> SUFFICES ASSUME Init PROVE Tunnelled!Init
  OBVIOUS
<1>1. up = "receive"
  BY DEF Init
<1>2. Stage = "open"
  BY <1>1 DEF Stage
<1>3. clientGone = FALSE /\ backendGone = FALSE
  BY DEF Init, BackendInit
<1>4. Gone = {}
  BY <1>3 DEF Gone
<1> QED
  BY <1>2, <1>4 DEF Tunnelled!Init

LEMMA NextTunnel == CloseInv /\ CloseInv' /\ [Next]_vars => [Tunnelled!Next]_(Tunnelled!vars)
<1> SUFFICES ASSUME CloseInv, CloseInv', [Next]_vars
             PROVE  [Tunnelled!Next]_(Tunnelled!vars)
  OBVIOUS
<1>1. Gone \subseteq Gone' /\ Gone' \in SUBSET Tunnelled!Parties
  BY RelayStep DEF Gone, CloseInv, Flags, Tunnelled!Parties
<1>2. CASE Stage' = Stage
  BY <1>1, <1>2 DEF Tunnelled!Next, Tunnelled!Goes
<1>3. CASE Stage' # Stage
  <2>1. Stage = "open" /\ Stage' = "closed" /\ closed' = TRUE
    BY <1>3, RelayStep DEF Stage, CloseInv, Flags
  <2>2. Gone' # {}
    BY <2>1 DEF CloseInv, Gone
  <2> QED
    BY <1>1, <2>1, <2>2 DEF Tunnelled!Next, Tunnelled!Close
<1> QED
  BY <1>2, <1>3

\* The safe half of IsTunnel, for any scripts and streams of any capacity: the
\* relay never closes a connection whose client and session are both there,
\* whatever is rejected or drained, and once closed it stays so.
THEOREM RelayIsTunnel == Spec => Tunnelled!SafeSpec
<1>1. Init => ForwardInv /\ CloseInv /\ Tunnelled!Init
  BY InitForward, InitClose, InitTunnel
<1>2. ForwardInv /\ CloseInv /\ [Next]_vars => (ForwardInv /\ CloseInv)'
  BY NextForward, NextClose
<1>3. CloseInv /\ CloseInv' /\ [Next]_vars => [Tunnelled!Next]_(Tunnelled!vars)
  BY NextTunnel
<1> QED
  BY <1>1, <1>2, <1>3, PTL DEF Spec, Tunnelled!SafeSpec

-----------------------------------------------------------------------------
(* A rejected batch is withheld as a whole, and nothing else is. This      *)
(* needs clients that keep to the protocol: a write of theirs is a Query,  *)
(* or ends in the only Sync it has.                                        *)

OneRequestAWrite ==
  \A script \in Scripts : \A i \in DOMAIN script :
    /\ script[i].type \in {"Query", "Sync"} => i = Len(script)
    /\ script[i].type = "Parse" => script[Len(script)].type = "Sync"

\* Batches come in order, a Query or a Sync is the last message of its batch,
\* and the batch of a Parse has a Sync after it.
Orderly(s) ==
  /\ \A i, j \in DOMAIN s : i < j => s[i].batch <= s[j].batch
  /\ \A i, j \in DOMAIN s : i < j /\ s[i].type \in {"Query", "Sync"} => s[i].batch < s[j].batch
  /\ \A i \in DOMAIN s : s[i].type = "Parse" =>
       \E k \in DOMAIN s : i < k /\ s[k].type = "Sync" /\ s[k].batch = s[i].batch

UpTo(s, n) == \A i \in DOMAIN s : s[i].batch <= n
Lacks(b, s) == \A i \in DOMAIN s : s[i].batch # b
After(b, s) == \A i \in DOMAIN s : b < s[i].batch

\* The rest of batch b is at the front of s.
RestOf(b, s) ==
  /\ \A i \in DOMAIN s : b <= s[i].batch
  /\ \E k \in DOMAIN s : s[k].type = "Sync" /\ s[k].batch = b

StreamInv == Orderly(fromClient) /\ UpTo(fromClient, sent)

\* What clientToBackend has in hand and is rejecting.
RejectInv ==
  /\ up \in {"sendError", "drainUntilSync"} => carried.batch \in rejected
  /\ up = "sendError" => carried.type \in WithText
  /\ up = "drainUntilSync" => carried.type = "Parse"
  /\ up = "sendError" /\ carried.type = "Query" => After(carried.batch, fromClient)
  /\ up \in {"sendError", "drainUntilSync"} /\ carried.type = "Parse" =>
       RestOf(carried.batch, fromClient)
  /\ up = "forward" => carried.batch \notin rejected

\* Nothing is left of a rejected batch, but of the one being rejected.
RestInv ==
  /\ \A b \in rejected : b \in Nat /\ b <= sent
  /\ up # "returned" =>
       \A b \in rejected :
         \/ up \in {"sendError", "drainUntilSync"} /\ b = carried.batch
         \/ Lacks(b, fromClient)

BatchInv == StreamInv /\ RejectInv /\ RestInv /\ dropped \subseteq rejected

LEMMA InitBatch == Init => BatchInv
BY DEF Init, BatchInv, StreamInv, RejectInv, RestInv, Orderly, UpTo

\* An orderly stream stays so when its first message is taken, and what is
\* known of the batch of that message.
LEMMA OrderlyTail ==
  ASSUME NEW s \in Seq(Message), s # <<>>, Orderly(s)
  PROVE  /\ Orderly(Tail(s))
         /\ Head(s).type \in {"Query", "Sync"} => After(Head(s).batch, Tail(s))
         /\ Head(s).type = "Parse" => RestOf(Head(s).batch, Tail(s))
         /\ \A i \in DOMAIN Tail(s) : Tail(s)[i].batch >= Head(s).batch
<1>0. /\ s \in Seq(Message) /\ Len(s) \in Nat \ {0} /\ DOMAIN s = 1..Len(s)
      /\ DOMAIN Tail(s) = 1..Len(s) - 1
      /\ \A i \in DOMAIN Tail(s) : i + 1 \in DOMAIN s /\ Tail(s)[i] = s[i + 1]
      /\ 1 \in DOMAIN s /\ Head(s) = s[1]
      /\ \A i \in DOMAIN s : s[i].batch \in Nat
  BY DEF Message
<1>1. /\ \A i, j \in DOMAIN Tail(s) : i < j => Tail(s)[i].batch <= Tail(s)[j].batch
      /\ \A i, j \in DOMAIN Tail(s) : i < j /\ Tail(s)[i].type \in {"Query", "Sync"} =>
           Tail(s)[i].batch < Tail(s)[j].batch
  <2>1. ASSUME NEW i \in DOMAIN Tail(s), NEW j \in DOMAIN Tail(s), i < j
        PROVE  i + 1 \in DOMAIN s /\ j + 1 \in DOMAIN s /\ i + 1 < j + 1
    BY <1>0, <2>1
  <2> QED
    BY <1>0, <2>1 DEF Orderly
<1>2. ASSUME NEW i \in DOMAIN s, s[i].type = "Parse"
      PROVE  \E k \in DOMAIN Tail(s) :
               i - 1 < k /\ Tail(s)[k].type = "Sync" /\ Tail(s)[k].batch = s[i].batch
  <2>1. PICK k \in DOMAIN s : i < k /\ s[k].type = "Sync" /\ s[k].batch = s[i].batch
    BY <1>2 DEF Orderly
  <2>2. k - 1 \in DOMAIN Tail(s) /\ Tail(s)[k - 1] = s[k] /\ i - 1 < k - 1
    BY <1>0, <2>1
  <2> QED
    BY <2>1, <2>2
<1>3. Orderly(Tail(s))
  <2>1. ASSUME NEW i \in DOMAIN Tail(s), Tail(s)[i].type = "Parse"
        PROVE  \E k \in DOMAIN Tail(s) :
                 i < k /\ Tail(s)[k].type = "Sync" /\ Tail(s)[k].batch = Tail(s)[i].batch
    <3>1. i + 1 \in DOMAIN s /\ s[i + 1] = Tail(s)[i] /\ (i + 1) - 1 = i
      BY <1>0
    <3> QED
      BY <1>2, <2>1, <3>1
  <2> QED
    BY <1>1, <2>1 DEF Orderly
<1>4. \A i \in DOMAIN Tail(s) : Tail(s)[i].batch >= Head(s).batch
  <2>1. ASSUME NEW i \in DOMAIN Tail(s) PROVE i + 1 \in DOMAIN s /\ 1 < i + 1
    BY <1>0
  <2> QED
    BY <1>0, <2>1 DEF Orderly
<1>5. Head(s).type \in {"Query", "Sync"} => After(Head(s).batch, Tail(s))
  <2>1. ASSUME NEW i \in DOMAIN Tail(s) PROVE i + 1 \in DOMAIN s /\ 1 < i + 1
    BY <1>0
  <2> QED
    BY <1>0, <2>1 DEF Orderly, After
<1>6. Head(s).type = "Parse" => RestOf(Head(s).batch, Tail(s))
  BY <1>0, <1>2, <1>4 DEF RestOf
<1> QED
  BY <1>3, <1>4, <1>5, <1>6

\* The first message of the rest of a batch is of the batch; unless it is the
\* Sync, the rest goes on behind it.
LEMMA RestTail ==
  ASSUME NEW s \in Seq(Message), s # <<>>, Orderly(s), NEW b \in Nat, RestOf(b, s)
  PROVE  /\ Head(s).batch = b
         /\ Head(s).type # "Sync" => RestOf(b, Tail(s))
         /\ Head(s).type = "Sync" => After(b, Tail(s))
<1>0. /\ Len(s) \in Nat \ {0} /\ DOMAIN s = 1..Len(s)
      /\ DOMAIN Tail(s) = 1..Len(s) - 1
      /\ \A i \in DOMAIN Tail(s) : i + 1 \in DOMAIN s /\ Tail(s)[i] = s[i + 1]
      /\ 1 \in DOMAIN s /\ Head(s) = s[1]
      /\ \A i \in DOMAIN s : s[i].batch \in Nat
  BY DEF Message
<1>1. PICK k \in DOMAIN s : s[k].type = "Sync" /\ s[k].batch = b
  BY DEF RestOf
<1>2. Head(s).batch = b
  <2>1. k = 1 \/ 1 < k
    BY <1>0
  <2>2. s[1].batch <= s[k].batch /\ b <= s[1].batch
    BY <1>0, <2>1 DEF Orderly, RestOf
  <2> QED
    BY <1>0, <1>1, <2>2
<1>3. ASSUME Head(s).type # "Sync" PROVE RestOf(b, Tail(s))
  <2>1. k - 1 \in DOMAIN Tail(s) /\ Tail(s)[k - 1] = s[k]
    BY <1>0, <1>1, <1>3
  <2> QED
    BY <1>0, <1>1, <2>1 DEF RestOf
<1> QED
  BY <1>2, <1>3, OrderlyTail

\* A write of the client is numbered with the batch it makes.
Numbered(script, b) ==
  [i \in DOMAIN script |-> [type |-> script[i].type, sql |-> script[i].sql, batch |-> b]]

LEMMA ConcatParts ==
  ASSUME NEW S, NEW T, NEW s \in Seq(S), NEW u \in Seq(T)
  PROVE  /\ DOMAIN (s \o u) = 1..(Len(s) + Len(u))
         /\ \A i \in 1..Len(s) : (s \o u)[i] = s[i]
         /\ \A i \in 1..Len(u) : (s \o u)[Len(s) + i] = u[i]
OBVIOUS

\* A write that keeps to the protocol extends an orderly stream.
LEMMA OrderlyConcat ==
  ASSUME OneRequestAWrite, NEW script \in Scripts,
         NEW s \in Seq(Message), Orderly(s),
         NEW n \in Nat, UpTo(s, n)
  PROVE  LET t == s \o Numbered(script, n + 1)
         IN  /\ Orderly(t)
             /\ UpTo(t, n + 1)
             /\ \A b \in Nat : b <= n /\ After(b, s) => After(b, t)
             /\ \A b \in Nat : b <= n /\ RestOf(b, s) => RestOf(b, t)
             /\ \A b \in Nat : b <= n /\ Lacks(b, s) => Lacks(b, t)
<1>a. PICK new : new = Numbered(script, n + 1)
  OBVIOUS
<1>b. PICK t : t = s \o new
  OBVIOUS
<1>0. /\ script \in Seq(Unbatched) /\ Len(script) \in Nat /\ DOMAIN script = 1..Len(script)
      /\ Len(s) \in Nat /\ DOMAIN s = 1..Len(s)
      /\ \A i \in DOMAIN s : s[i].batch \in Nat
  BY RelayAssumption DEF Message
<1>1. /\ DOMAIN new = 1..Len(script) /\ Len(new) = Len(script)
      /\ new \in Seq({new[i] : i \in DOMAIN script})
      /\ \A i \in DOMAIN new : new[i].batch = n + 1 /\ new[i].type = script[i].type
  BY <1>0, <1>a DEF Numbered
<1>2. /\ DOMAIN t = 1..(Len(s) + Len(script))
      /\ \A i \in 1..Len(s) : t[i] = s[i]
      /\ \A i \in 1..Len(script) : t[Len(s) + i] = new[i]
  <2>1. PICK T : new \in Seq(T)
    BY ONLY <1>1
  <2>2. /\ DOMAIN (s \o new) = 1..(Len(s) + Len(new))
        /\ \A i \in 1..Len(s) : (s \o new)[i] = s[i]
        /\ \A i \in 1..Len(new) : (s \o new)[Len(s) + i] = new[i]
    BY ONLY <2>1, s \in Seq(Message), ConcatParts
  <2>3. Len(new) = Len(script)
    BY ONLY <1>1
  <2> QED
    BY ONLY <1>b, <2>2, <2>3
<1>3. \A i \in DOMAIN t :
        \/ i \in DOMAIN s /\ t[i] = s[i]
        \/ i - Len(s) \in DOMAIN script /\ t[i] = new[i - Len(s)] /\ i \notin DOMAIN s
  <2>1. ASSUME NEW i \in DOMAIN t, i \notin DOMAIN s
        PROVE  i - Len(s) \in 1..Len(script) /\ Len(s) + (i - Len(s)) = i
    BY <1>0, <1>2, <2>1
  <2> QED
    BY <1>0, <1>2, <2>1
<1>4. UpTo(t, n + 1)
  BY <1>0, <1>1, <1>3 DEF UpTo
<1>5. \A i \in DOMAIN t : i \notin DOMAIN s => t[i].batch = n + 1 /\ t[i].type = script[i - Len(s)].type
  BY <1>0, <1>1, <1>3
<1>6. ASSUME NEW i \in DOMAIN t, NEW j \in DOMAIN t, i < j
      PROVE  /\ t[i].batch <= t[j].batch
             /\ t[i].type \in {"Query", "Sync"} => t[i].batch < t[j].batch
  <2>1. CASE j \in DOMAIN s
    <3>1. i \in DOMAIN s
      BY <1>0, <1>2, <1>6, <2>1
    <3> QED
      BY <1>2, <1>0, <1>6, <2>1, <3>1 DEF Orderly
  <2>2. CASE j \notin DOMAIN s /\ i \in DOMAIN s
    BY <1>0, <1>2, <1>5, <2>2 DEF UpTo
  <2>3. CASE i \notin DOMAIN s /\ j \notin DOMAIN s
    <3>1. /\ i - Len(s) \in DOMAIN script /\ j - Len(s) \in DOMAIN script
          /\ i - Len(s) < j - Len(s) /\ j - Len(s) <= Len(script)
      BY <1>0, <1>2, <1>3, <1>6, <2>3
    <3>2. i - Len(s) # Len(script)
      BY <1>0, <3>1
    <3>3. t[i].type \notin {"Query", "Sync"}
      BY <1>5, <2>3, <3>1, <3>2 DEF OneRequestAWrite
    <3> QED
      BY <1>5, <2>3, <3>3
  <2> QED
    BY <2>1, <2>2, <2>3
<1>7. ASSUME NEW i \in DOMAIN t, t[i].type = "Parse"
      PROVE  \E k \in DOMAIN t : i < k /\ t[k].type = "Sync" /\ t[k].batch = t[i].batch
  <2>1. CASE i \in DOMAIN s
    <3>1. PICK k \in DOMAIN s : i < k /\ s[k].type = "Sync" /\ s[k].batch = s[i].batch
      BY <1>0, <1>2, <1>7, <2>1 DEF Orderly
    <3>2. k \in DOMAIN t /\ t[k] = s[k] /\ t[i] = s[i]
      BY <1>0, <1>2, <2>1
    <3> QED
      BY <3>1, <3>2
  <2>2. CASE i \notin DOMAIN s
    <3>1. i - Len(s) \in DOMAIN script /\ script[i - Len(s)].type = "Parse"
      BY <1>3, <1>5, <1>7, <2>2
    <3>2. script[Len(script)].type = "Sync"
      BY <3>1 DEF OneRequestAWrite
    <3>3. i - Len(s) # Len(script)
      BY <3>1, <3>2
    <3> DEFINE k == Len(s) + Len(script)
    <3>4. k \in DOMAIN t /\ i < k /\ k \notin DOMAIN s /\ k - Len(s) = Len(script)
      BY <1>0, <1>2, <3>1, <3>3
    <3> QED
      BY <1>5, <2>2, <3>2, <3>4
  <2> QED
    BY <2>1, <2>2
<1>8. Orderly(t)
  BY <1>6, <1>7 DEF Orderly
<1>9. ASSUME NEW b \in Nat, b <= n
      PROVE  /\ After(b, s) => After(b, t)
             /\ RestOf(b, s) => RestOf(b, t)
             /\ Lacks(b, s) => Lacks(b, t)
  <2>1. b < n + 1
    BY <1>9
  <2>2. \A k \in DOMAIN s : k \in DOMAIN t /\ t[k] = s[k]
    BY <1>0, <1>2
  <2>3. After(b, s) => After(b, t)
    BY <1>3, <1>5, <2>1 DEF After
  <2>4. RestOf(b, s) => RestOf(b, t)
    <3>1. ASSUME NEW i \in DOMAIN t, RestOf(b, s) PROVE b <= t[i].batch
      <4>1. CASE i \in DOMAIN s
        BY <2>2, <3>1, <4>1 DEF RestOf
      <4>2. CASE i \notin DOMAIN s
        BY <1>5, <2>1, <4>2
      <4> QED
        BY <4>1, <4>2
    <3> QED
      BY <2>2, <3>1 DEF RestOf
  <2>5. Lacks(b, s) => Lacks(b, t)
    BY <1>3, <1>5, <2>1 DEF Lacks
  <2> QED
    BY <2>3, <2>4, <2>5
<1> QED
  BY <1>4, <1>8, <1>9, <1>a, <1>b

LEMMA SendBatch ==
  ASSUME OneRequestAWrite, ForwardInv, BatchInv, NEW script \in Scripts, ClientSends(script)
  PROVE  BatchInv'
<1>1. /\ fromClient' = fromClient \o Numbered(script, sent + 1)
      /\ sent' = sent + 1
      /\ UNCHANGED <<up, carried, rejected, dropped>>
  BY DEF ClientSends, ClientFrame, upVars, historyVars, Numbered
<1>2. sent \in Nat /\ fromClient \in Seq(Message) /\ carried \in Message
  BY DEF ForwardInv, MessagesOK
<1>3. /\ Orderly(fromClient')
      /\ UpTo(fromClient', sent + 1)
      /\ \A b \in Nat : b <= sent /\ After(b, fromClient) => After(b, fromClient')
      /\ \A b \in Nat : b <= sent /\ RestOf(b, fromClient) => RestOf(b, fromClient')
      /\ \A b \in Nat : b <= sent /\ Lacks(b, fromClient) => Lacks(b, fromClient')
  <2>1. Orderly(fromClient) /\ UpTo(fromClient, sent)
    BY DEF BatchInv, StreamInv
  <2> QED
    BY <1>1, <1>2, <2>1, OrderlyConcat
<1>4. StreamInv'
  BY <1>1, <1>3 DEF StreamInv
<1>5. RejectInv'
  <2>1. up \in {"sendError", "drainUntilSync"} => carried.batch \in Nat /\ carried.batch <= sent
    BY DEF BatchInv, RejectInv, RestInv
  <2>2. RejectInv
    BY DEF BatchInv
  <2> QED
    BY <1>1, <1>3, <2>1, <2>2 DEF RejectInv
<1>6. RestInv'
  <2>1. \A b \in rejected : b \in Nat /\ b <= sent
    BY DEF BatchInv, RestInv
  <2> QED
    BY <1>1, <1>2, <1>3, <2>1 DEF BatchInv, RestInv
<1> QED
  BY <1>1, <1>4, <1>5, <1>6 DEF BatchInv

LEMMA InspectBatch ==
  ASSUME ForwardInv, BatchInv, Inspect
  PROVE  BatchInv'
<1> DEFINE m == Head(fromClient)
<1>1. /\ up = "receive" /\ fromClient # <<>> /\ fromClient' = Tail(fromClient)
      /\ m.type \in WithText
      /\ dropped' = dropped /\ sent' = sent
      /\ \/ up' = "sendError" /\ carried' = m /\ rejected' = rejected \cup {m.batch}
         \/ /\ up' = "forward" /\ carried' = [m EXCEPT !.sql = Rewrite(m.sql)]
            /\ rejected' = rejected
  BY DEF Inspect, Receive, UpFrame, clientVars
<1>2. /\ fromClient \in Seq(Message) /\ sent \in Nat /\ m \in Message /\ m.batch \in Nat
      /\ 1 \in DOMAIN fromClient /\ m = fromClient[1]
      /\ \A i \in DOMAIN fromClient' : i + 1 \in DOMAIN fromClient /\ fromClient'[i] = fromClient[i + 1]
  <2>1. fromClient \in Seq(Message) /\ sent \in Nat
    BY DEF ForwardInv, MessagesOK
  <2> QED
    BY <1>1, <2>1 DEF Message
<1>3. carried'.type = m.type /\ carried'.batch = m.batch
  BY <1>1, <1>2 DEF Message
<1>4. /\ Orderly(fromClient')
      /\ m.type = "Query" => After(m.batch, fromClient')
      /\ m.type = "Parse" => RestOf(m.batch, fromClient')
  BY <1>1, <1>2, OrderlyTail DEF BatchInv, StreamInv
<1>5. StreamInv'
  BY <1>1, <1>2, <1>4 DEF BatchInv, StreamInv, UpTo
<1>6. m.batch <= sent /\ \A b \in rejected : Lacks(b, fromClient)
  BY <1>1, <1>2 DEF BatchInv, StreamInv, RestInv, UpTo
<1>7. m.batch \notin rejected
  BY <1>2, <1>6 DEF Lacks
<1>8. RejectInv'
  BY <1>1, <1>3, <1>4, <1>7 DEF RejectInv
<1>9. RestInv'
  BY <1>1, <1>2, <1>3, <1>6 DEF BatchInv, RestInv, Lacks
<1> QED
  BY <1>1, <1>5, <1>8, <1>9 DEF BatchInv

LEMMA PassOnBatch ==
  ASSUME ForwardInv, BatchInv, PassOn
  PROVE  BatchInv'
<1> DEFINE m == Head(fromClient)
<1>1. /\ up = "receive" /\ fromClient # <<>> /\ fromClient' = Tail(fromClient)
      /\ up' = "forward" /\ carried' = m
      /\ UNCHANGED <<dropped, rejected, sent>>
  BY DEF PassOn, Receive, UpFrame, clientVars
<1>2. /\ fromClient \in Seq(Message)
      /\ 1 \in DOMAIN fromClient /\ m = fromClient[1]
      /\ \A i \in DOMAIN fromClient' : i + 1 \in DOMAIN fromClient /\ fromClient'[i] = fromClient[i + 1]
  <2>1. fromClient \in Seq(Message)
    BY DEF ForwardInv, MessagesOK
  <2> QED
    BY <1>1, <2>1
<1>3. StreamInv'
  BY <1>1, <1>2, OrderlyTail DEF BatchInv, StreamInv, UpTo
<1>4. RejectInv'
  BY <1>1, <1>2 DEF BatchInv, RestInv, RejectInv, Lacks
<1>5. RestInv'
  BY <1>1, <1>2 DEF BatchInv, RestInv, Lacks
<1> QED
  BY <1>1, <1>3, <1>4, <1>5 DEF BatchInv

LEMMA SendErrorBatch ==
  ASSUME ForwardInv, BatchInv, SendError
  PROVE  BatchInv'
<1>1. /\ up = "sendError"
      /\ dropped' = dropped \cup {carried.batch}
      /\ up' = IF carried.type = "Parse" THEN "drainUntilSync" ELSE "receive"
      /\ UNCHANGED <<fromClient, carried, rejected, sent>>
  BY DEF SendError, Rejecting, UpFrame, clientVars
<1>2. carried.type \in {"Query", "Parse"} /\ carried.batch \in rejected /\ carried.batch \in Nat
  BY <1>1 DEF BatchInv, RejectInv, RestInv, WithText
<1>3. \A i \in DOMAIN fromClient : fromClient[i].batch \in Nat
  BY DEF ForwardInv, MessagesOK, Message
<1>4. CASE carried.type = "Query"
  <2>1. Lacks(carried.batch, fromClient)
    BY <1>1, <1>2, <1>3, <1>4 DEF BatchInv, RejectInv, After, Lacks
  <2> QED
    BY <1>1, <1>2, <1>4, <2>1 DEF BatchInv, StreamInv, RejectInv, RestInv
<1>5. CASE carried.type = "Parse"
  BY <1>1, <1>2, <1>5 DEF BatchInv, StreamInv, RejectInv, RestInv
<1> QED
  BY <1>2, <1>4, <1>5

LEMMA DrainBatch ==
  ASSUME ForwardInv, BatchInv, DrainUntilSync
  PROVE  BatchInv'
<1> DEFINE m == Head(fromClient)
<1>1. /\ up = "drainUntilSync" /\ fromClient # <<>> /\ fromClient' = Tail(fromClient)
      /\ dropped' = dropped \cup {m.batch}
      /\ up' = IF m.type = "Sync" THEN "receive" ELSE "drainUntilSync"
      /\ UNCHANGED <<carried, rejected, sent>>
  BY DEF DrainUntilSync, Draining, UpFrame, clientVars
<1>2. /\ fromClient \in Seq(Message)
      /\ \A i \in DOMAIN fromClient' : i + 1 \in DOMAIN fromClient /\ fromClient'[i] = fromClient[i + 1]
      /\ \A i \in DOMAIN fromClient' : fromClient'[i].batch \in Nat
  <2>1. fromClient \in Seq(Message)
    BY DEF ForwardInv, MessagesOK
  <2> QED
    BY <1>1, <2>1 DEF Message
<1>3. /\ carried.batch \in rejected /\ carried.batch \in Nat /\ carried.type = "Parse"
      /\ RestOf(carried.batch, fromClient) /\ Orderly(fromClient)
  BY <1>1 DEF BatchInv, StreamInv, RejectInv, RestInv
<1>4. /\ m.batch = carried.batch
      /\ m.type # "Sync" => RestOf(carried.batch, fromClient')
      /\ m.type = "Sync" => After(carried.batch, fromClient')
  BY <1>1, <1>2, <1>3, RestTail
<1>5. StreamInv'
  BY <1>1, <1>2, <1>3, OrderlyTail DEF BatchInv, StreamInv, UpTo
<1>6. m.type = "Sync" => Lacks(carried.batch, fromClient')
  BY <1>2, <1>3, <1>4 DEF After, Lacks
<1>7. RejectInv'
  BY <1>1, <1>3, <1>4 DEF RejectInv
<1>8. RestInv'
  BY <1>1, <1>2, <1>6 DEF BatchInv, RestInv, Lacks
<1> QED
  BY <1>1, <1>3, <1>4, <1>5, <1>7, <1>8 DEF BatchInv

LEMMA NextBatch == OneRequestAWrite /\ ForwardInv /\ BatchInv /\ [Next]_vars => BatchInv'
<1> SUFFICES ASSUME OneRequestAWrite, ForwardInv, BatchInv, [Next]_vars
             PROVE  BatchInv'
  OBVIOUS
<1>1. CASE Inspect \/ PassOn \/ SendError \/ DrainUntilSync
  BY <1>1, InspectBatch, PassOnBatch, SendErrorBatch, DrainBatch
<1>2. CASE \E script \in Scripts : ClientSends(script)
  BY <1>2, SendBatch
<1>3. CASE \/ Forward \/ UpStops \/ BackendToClient \/ Serve \/ BackendDies
           \/ ClientReads \/ ClientHangsUp \/ UNCHANGED vars
  <2>1. /\ UNCHANGED <<fromClient, sent, carried, rejected, dropped>>
        /\ up' = up \/ up' = "returned" \/ (up = "forward" /\ up' = "receive")
    BY <1>3 DEF Forward, UpReturns, UpStops, UpFrame, BackendToClient, ReceiveReply,
         ForwardReply, DownStops, DownFrame, upVars, Serve, BackendDies, Elsewhere, streamVars,
         clientVars, historyVars, ClientReads, ClientHangsUp, ClientFrame, vars
  <2> QED
    BY <2>1 DEF BatchInv, StreamInv, RejectInv, RestInv
<1> QED
  BY <1>1, <1>2, <1>3 DEF Next, ClientToBackend

\* A client that keeps to the protocol loses no message but those of the
\* batches it was told are rejected, however it pipelines them (handler.go
\* drainUntilSync stops at the right Sync).
THEOREM OnlyRejectedDropped ==
  ASSUME OneRequestAWrite
  PROVE  Spec => []NothingElseIsDropped
<1>1. Init => ForwardInv /\ BatchInv
  BY InitForward, InitBatch
<1>2. ForwardInv /\ BatchInv /\ [Next]_vars => (ForwardInv /\ BatchInv)'
  BY NextForward, NextBatch
<1>3. BatchInv => NothingElseIsDropped
  BY DEF BatchInv, NothingElseIsDropped
<1> QED
  BY <1>1, <1>2, <1>3, PTL DEF Spec

\* What is in hand to be forwarded is of no rejected batch, and nothing but
\* Forward adds to the stream.
LEMMA RejectedStep ==
  ASSUME ForwardInv, BatchInv, [Next]_vars, NEW b \in rejected,
         toBackend' = Append(toBackend, carried)
  PROVE  carried.batch # b
<1>1. toBackend \in Seq(Message) /\ carried \in Message
  BY DEF ForwardInv, MessagesOK
<1>2. Len(toBackend') = Len(toBackend) + 1
  BY <1>1
<1>3. CASE Forward
  BY <1>3 DEF Forward, BatchInv, RejectInv
<1>4. CASE ~Forward
  <2>1. CASE Serve \/ BackendDies
    <3>1. UNCHANGED toBackend \/ (toBackend # <<>> /\ toBackend' = Tail(toBackend))
      BY <2>1 DEF Serve, BackendDies, ServeNext, EndSession, TakeQuery, RunStatement, EndQuery,
                  TakeParse, TakeBind, TakeExecute, TakeSync, TakeFlush, TakeTerminate, Take
    <3> QED
      BY <1>1, <1>2, <3>1
  <2>2. CASE ~(Serve \/ BackendDies)
    <3>1. UNCHANGED toBackend
      BY <1>4, <2>2 DEF Next, ClientToBackend, Inspect, PassOn, SendError, Rejecting, DrainUntilSync,
         Draining, UpStops, UpFrame, BackendToClient, ReceiveReply, ForwardReply, DownStops, DownFrame,
         ClientSends, ClientReads, ClientHangsUp, ClientFrame, backendVars, vars
    <3> QED
      BY <1>1, <1>2, <3>1
  <2> QED
    BY <2>1, <2>2
<1> QED
  BY <1>3, <1>4

\* Once a statement of a batch has been rejected nothing more of the batch
\* reaches PostgreSQL, with any number of batches behind it.
THEOREM RejectedIsWithheld ==
  ASSUME OneRequestAWrite
  PROVE  Spec => RejectedBatchStops
<1>1. Init => ForwardInv /\ BatchInv
  BY InitForward, InitBatch
<1>2. ForwardInv /\ BatchInv /\ [Next]_vars => (ForwardInv /\ BatchInv)'
  BY NextForward, NextBatch
<1>3. ForwardInv /\ BatchInv /\ [Next]_vars =>
        [\A b \in rejected : toBackend' = Append(toBackend, carried) => carried.batch # b]_vars
  BY RejectedStep
<1> QED
  BY <1>1, <1>2, <1>3, PTL DEF Spec, RejectedBatchStops

-----------------------------------------------------------------------------
(* TrackTx, statement by statement.                                        *)

LEMMA TrackTxType == \A t \in TxState, s \in Statements : TrackTx(t, s) \in TxState
BY DEF TrackTx, TxState, InState, IsDDL

\* What the recursion of TxAlong defines, for a text of any length: a TxState
\* before each statement, each following from the one before.
LEMMA TxAlongDef ==
  ASSUME NEW t \in TxState, NEW sql \in Seq(Statements)
  PROVE  /\ TxAlong(t, sql) \in [0..Len(sql) -> TxState]
         /\ TxAlong(t, sql)[0] = t
         /\ \A i \in DOMAIN sql : TxAlong(t, sql)[i] = TrackTx(TxAlong(t, sql)[i - 1], sql[i])
<1>0. Len(sql) \in Nat /\ DOMAIN sql = 1..Len(sql) /\ \A i \in 1..Len(sql) : sql[i] \in Statements
  OBVIOUS
<1> DEFINE Upto(n, g) == /\ g \in [0..n -> TxState]
                         /\ g[0] = t
                         /\ \A i \in 1..n : g[i] = TrackTx(g[i - 1], sql[i])
           T == {n \in Nat : n <= Len(sql) => \E g : Upto(n, g)}
<1>1. 0 \in T
  <2>1. Upto(0, [i \in 0..0 |-> t])
    OBVIOUS
  <2> QED
    BY <2>1
<1>2. ASSUME NEW n \in Nat, n \in T PROVE n + 1 \in T
  <2> SUFFICES ASSUME n + 1 <= Len(sql) PROVE \E g : Upto(n + 1, g)
    BY <1>2
  <2>1. PICK g : Upto(n, g)
    BY <1>0, <1>2
  <2> DEFINE h == [i \in 0..n + 1 |-> IF i <= n THEN g[i] ELSE TrackTx(g[n], sql[n + 1])]
  <2>2. TrackTx(g[n], sql[n + 1]) \in TxState
    BY <1>0, <2>1, TrackTxType
  <2>3. h \in [0..n + 1 -> TxState] /\ h[0] = t
    BY <2>1, <2>2
  <2>4. \A i \in 1..n + 1 : h[i] = TrackTx(h[i - 1], sql[i])
    BY <2>1
  <2> QED
    BY <2>3, <2>4
<1>3. Len(sql) \in T
  <2> HIDE DEF T
  <2> QED
    BY <1>0, <1>1, <1>2, NatInductionOnSets
<1>4. PICK g : Upto(Len(sql), g)
  BY <1>0, <1>3
<1>5. g = [i \in 0..Len(sql) |-> IF i = 0 THEN t ELSE TrackTx(g[i - 1], sql[i])]
  BY <1>0, <1>4
<1> DEFINE F(f) == f = [i \in 0..Len(sql) |-> IF i = 0 THEN t ELSE TrackTx(f[i - 1], sql[i])]
<1>6. F(TxAlong(t, sql))
  BY <1>5 DEF TxAlong
<1>7. PICK f : f = TxAlong(t, sql)
  OBVIOUS
<1>8. /\ f = [i \in 0..Len(sql) |-> f[i]] /\ f[0] = t
      /\ \A i \in 1..Len(sql) : f[i] = TrackTx(f[i - 1], sql[i])
  <2>1. f = [i \in 0..Len(sql) |-> IF i = 0 THEN t ELSE TrackTx(f[i - 1], sql[i])]
    BY <1>6, <1>7
  <2> QED
    BY <1>0, <2>1
<1> DEFINE Typed == {n \in Nat : n <= Len(sql) => f[n] \in TxState}
<1>9. Len(sql) \in Nat /\ \A n \in Nat : n \in Typed
  <2>1. 0 \in Typed
    BY <1>8
  <2>2. ASSUME NEW n \in Nat, n \in Typed PROVE n + 1 \in Typed
    <3> SUFFICES ASSUME n + 1 <= Len(sql) PROVE f[n + 1] \in TxState
      OBVIOUS
    <3>1. f[n] \in TxState /\ n + 1 \in 1..Len(sql) /\ (n + 1) - 1 = n
      BY <1>0, <2>2
    <3> QED
      BY <1>0, <1>8, <3>1, TrackTxType
  <2> HIDE DEF Typed
  <2> QED
    BY <1>0, <2>1, <2>2, NatInductionOnSets
<1>10. f \in [0..Len(sql) -> TxState]
  BY <1>8, <1>9
<1> QED
  BY <1>0, <1>7, <1>8, <1>10

LEMMA TrackAllType ==
  ASSUME NEW t \in TxState, NEW sql \in Seq(Statements)
  PROVE  TrackAll(t, sql) \in TxState
<1>1. Len(sql) \in 0..Len(sql)
  OBVIOUS
<1> QED
  BY <1>1, TxAlongDef DEF TrackAll

-----------------------------------------------------------------------------
(* Types.                                                                  *)

RepliesOK ==
  /\ fromBackend \in Seq(Reply) /\ toClient \in Seq(Reply) /\ got \in Seq(Reply)
  /\ held \in Seq(Reply) /\ reply \in Reply

SessionOK ==
  /\ block \in {"I", "T", "E"}
  /\ query \in [sql : Seq(Statements), batch : Nat]
  /\ prepared \in Seq(Statements)
  /\ skipping \in BOOLEAN

WorkOK == work \in [ddl : Nat, dml : BOOLEAN, batches : SUBSET Nat]

HistoryOK ==
  /\ rejected \subseteq Nat /\ forwarded \subseteq Nat /\ dropped \subseteq Nat
  /\ warned \subseteq Nat /\ logged \subseteq [batch : Nat, sql : Nat]

PlacesOK ==
  /\ up \in {"receive", "forward", "sendError", "drainUntilSync", "returned"}
  /\ down \in {"receive", "forward", "returned"}

CountsOK == lastSQL \in Nat /\ requests \in Nat

LEMMA TypeParts ==
  TypeOK <=> /\ MessagesOK /\ Flags /\ RepliesOK /\ SessionOK /\ WorkOK /\ HistoryOK
             /\ PlacesOK /\ CountsOK /\ tx \in TxState
BY DEF TypeOK, BackendTypeOK, MessagesOK, Flags, RepliesOK, SessionOK, WorkOK, HistoryOK, PlacesOK, CountsOK

LEMMA ReplyTypes ==
  \A b \in Nat : /\ Complete(b) \in Reply /\ Error(b) \in Reply
                 /\ \A st \in {"I", "T", "E"} : Ready(b, st) \in Reply
BY DEF Complete, Error, Ready, Reply

\* Streams of replies stay so.
LEMMA ReplySeqs ==
  /\ \A s, t \in Seq(Reply) : s \o t \in Seq(Reply)
  /\ \A s \in Seq(Reply), m \in Reply : Append(s, m) \in Seq(Reply)
  /\ \A s \in Seq(Reply) : s # <<>> => Head(s) \in Reply /\ Tail(s) \in Seq(Reply)
  /\ <<>> \in Seq(Reply)
<1>1. ASSUME NEW s \in Seq(Reply), NEW t \in Seq(Reply) PROVE s \o t \in Seq(Reply)
  OBVIOUS
<1>2. ASSUME NEW s \in Seq(Reply), NEW m \in Reply PROVE Append(s, m) \in Seq(Reply)
  OBVIOUS
<1>3. ASSUME NEW s \in Seq(Reply), s # <<>> PROVE Head(s) \in Reply /\ Tail(s) \in Seq(Reply)
  BY <1>3
<1> QED
  BY <1>1, <1>2, <1>3

\* A message in front of the session.
LEMMA FrontType ==
  ASSUME MessagesOK, toBackend # <<>>
  PROVE  /\ Head(toBackend) \in Message
         /\ Head(toBackend).batch \in Nat /\ Head(toBackend).sql \in Seq(Statements)
<1>1. Head(toBackend) \in Message
  BY DEF MessagesOK
<1>2. <<>> \in Seq(Statements)
  OBVIOUS
<1>3. \A m \in Message : m.batch \in Nat /\ m.sql \in Seq(Statements)
  BY <1>2 DEF Message
<1> QED
  BY <1>1, <1>3

LEMMA InitRelayType == Init => TypeOK
<1> SUFFICES ASSUME Init PROVE TypeOK
  OBVIOUS
<1>1. MessagesOK /\ Flags
  BY InitForward, InitClose DEF ForwardInv, CloseInv
<1>2. RepliesOK
  <2>1. Complete(0) \in Reply
    BY ReplyTypes
  <2> QED
    BY <2>1 DEF Init, BackendInit, RepliesOK, NoReply
<1>3. SessionOK
  <2>1. <<>> \in Seq(Statements)
    OBVIOUS
  <2> QED
    BY <2>1 DEF Init, BackendInit, SessionOK, NoQuery
<1>4. WorkOK
  BY DEF Init, BackendInit, WorkOK, NoWork
<1>5. HistoryOK /\ PlacesOK /\ CountsOK
  BY DEF Init, HistoryOK, PlacesOK, CountsOK
<1>6. tx \in TxState
  BY DEF Init, TxState
<1> QED
  BY <1>1, <1>2, <1>3, <1>4, <1>5, <1>6, TypeParts

-----------------------------------------------------------------------------
(* What the session does to a transaction.                                 *)

LEMMA WorkTypes ==
  ASSUME WorkOK, block \in {"I", "T", "E"}, NEW s, NEW b \in Nat
  PROVE  /\ Runs(s, b) => block' \in {"I", "T", "E"} /\ WorkOK'
         /\ Fails(s) => block' \in {"I", "T", "E"} /\ WorkOK'
         /\ NoWork \in [ddl : Nat, dml : BOOLEAN, batches : SUBSET Nat]
<1>1. NoWork \in [ddl : Nat, dml : BOOLEAN, batches : SUBSET Nat]
  BY DEF NoWork
<1>2. ASSUME Runs(s, b) PROVE block' \in {"I", "T", "E"} /\ WorkOK'
  <2>1. block' \in {"I", "T", "E"}
    BY <1>2 DEF Runs
  <2>2. \/ work' = NoWork \/ work' = work
        \/ work' = [work EXCEPT !.ddl = @ + 1, !.batches = @ \cup {b}]
        \/ work' = [work EXCEPT !.dml = TRUE, !.batches = @ \cup {b}]
    BY <1>2 DEF Runs
  <2>3. ASSUME work' = [work EXCEPT !.ddl = @ + 1, !.batches = @ \cup {b}] PROVE WorkOK'
    <3>1. work.ddl + 1 \in Nat /\ work.batches \cup {b} \in SUBSET Nat /\ work.dml \in BOOLEAN
      BY DEF WorkOK
    <3>2. work' = [ddl |-> work.ddl + 1, dml |-> work.dml, batches |-> work.batches \cup {b}]
      BY <2>3 DEF WorkOK
    <3> QED
      BY <3>1, <3>2 DEF WorkOK
  <2>4. ASSUME work' = [work EXCEPT !.dml = TRUE, !.batches = @ \cup {b}] PROVE WorkOK'
    <3>1. work.ddl \in Nat /\ work.batches \cup {b} \in SUBSET Nat
      BY DEF WorkOK
    <3>2. work' = [ddl |-> work.ddl, dml |-> TRUE, batches |-> work.batches \cup {b}]
      BY <2>4 DEF WorkOK
    <3> QED
      BY <3>1, <3>2 DEF WorkOK
  <2>5. (work' = NoWork \/ work' = work) => WorkOK'
    BY <1>1 DEF WorkOK
  <2> QED
    BY <2>1, <2>2, <2>3, <2>4, <2>5
<1>3. ASSUME Fails(s) PROVE block' \in {"I", "T", "E"} /\ WorkOK'
  <2>1. block' \in {"I", "T", "E"}
    BY <1>3 DEF Fails
  <2> QED
    BY <1>1, <1>3, <2>1 DEF Fails, WorkOK
<1> QED
  BY <1>1, <1>2, <1>3

LEMMA ServeType ==
  ASSUME MessagesOK, RepliesOK, SessionOK, WorkOK, ServeNext \/ EndSession,
         UNCHANGED <<toClient, got, reply>>
  PROVE  RepliesOK' /\ SessionOK' /\ WorkOK'
<1>0. /\ fromBackend \in Seq(Reply) /\ held \in Seq(Reply) /\ <<>> \in Seq(Statements)
      /\ toClient' \in Seq(Reply) /\ got' \in Seq(Reply) /\ reply' \in Reply
      /\ block \in {"I", "T", "E"} /\ NoQuery \in [sql : Seq(Statements), batch : Nat]
      /\ query.sql \in Seq(Statements) /\ query.batch \in Nat
      /\ NoWork \in [ddl : Nat, dml : BOOLEAN, batches : SUBSET Nat]
      /\ \A m \in Seq(Statements), b \in Nat : [sql |-> m, batch |-> b] \in [sql : Seq(Statements), batch : Nat]
  BY DEF RepliesOK, SessionOK, NoQuery, NoWork
<1> DEFINE b == Head(toBackend).batch
<1>a. toBackend # <<>> => b \in Nat /\ Head(toBackend).sql \in Seq(Statements)
  BY FrontType
<1>1. CASE EndSession \/ TakeTerminate
  BY <1>0, <1>1 DEF EndSession, TakeTerminate, RepliesOK, SessionOK, WorkOK
<1>2. CASE TakeQuery
  <2>1. UNCHANGED <<block, prepared, skipping, work>>
    BY <1>2 DEF TakeQuery
  <2>2. query' \in [sql : Seq(Statements), batch : Nat]
    BY <1>0, <1>a, <1>2 DEF TakeQuery, Take
  <2>3. fromBackend' \in Seq(Reply) /\ held' \in Seq(Reply)
    BY <1>0, <1>2, ReplySeqs DEF TakeQuery
  <2> QED
    BY <1>0, <2>1, <2>2, <2>3 DEF RepliesOK, SessionOK, WorkOK
<1>3. CASE RunStatement
  <2>1. UNCHANGED <<prepared, skipping, held>>
    BY <1>3 DEF RunStatement
  <2>2. query' \in [sql : Seq(Statements), batch : Nat]
    <3>1. query.sql # <<>> => Tail(query.sql) \in Seq(Statements)
      BY <1>0
    <3>2. \/ query.sql # <<>> /\ query' = [query EXCEPT !.sql = Tail(query.sql)]
          \/ query' = [query EXCEPT !.sql = <<>>]
      BY <1>3 DEF RunStatement
    <3> QED
      BY <1>0, <3>1, <3>2 DEF SessionOK
  <2>3. fromBackend' \in Seq(Reply)
    <3>1. \/ fromBackend' = Append(fromBackend, Complete(query.batch))
          \/ fromBackend' = Append(fromBackend, Error(query.batch))
      BY <1>3 DEF RunStatement
    <3>2. Complete(query.batch) \in Reply /\ Error(query.batch) \in Reply
      BY <1>0, ReplyTypes
    <3>3. /\ Append(fromBackend, Complete(query.batch)) \in Seq(Reply)
          /\ Append(fromBackend, Error(query.batch)) \in Seq(Reply)
      BY <1>0, <3>2
    <3> QED
      BY <3>1, <3>3
  <2>4. block' \in {"I", "T", "E"} /\ WorkOK'
    BY <1>0, <1>3, WorkTypes DEF RunStatement
  <2> QED
    BY <1>0, <2>1, <2>2, <2>3, <2>4 DEF RepliesOK, SessionOK
<1>4. CASE EndQuery
  <2>1. fromBackend' \in Seq(Reply)
    BY <1>0, <1>4, ReplySeqs, ReplyTypes DEF EndQuery
  <2>2. WorkOK'
    BY <1>0, <1>4 DEF EndQuery, WorkOK
  <2> QED
    BY <1>0, <1>4, <2>1, <2>2 DEF EndQuery, RepliesOK, SessionOK
<1>5. ASSUME toBackend # <<>>, held' = Append(held, Complete(b)) \/ held' = Append(held, Error(b))
      PROVE  held' \in Seq(Reply)
  <2>1. Complete(b) \in Reply /\ Error(b) \in Reply
    BY <1>a, <1>5, ReplyTypes
  <2>2. Append(held, Complete(b)) \in Seq(Reply) /\ Append(held, Error(b)) \in Seq(Reply)
    BY <1>0, <2>1
  <2> QED
    BY <1>5, <2>2
<1>6. ASSUME NEW s, Refuse(s, b), toBackend # <<>>
      PROVE  /\ held' \in Seq(Reply) /\ block' \in {"I", "T", "E"} /\ WorkOK'
             /\ skipping' \in BOOLEAN /\ prepared' = prepared
  BY <1>0, <1>a, <1>5, <1>6, WorkTypes DEF Refuse
<1>7. ASSUME Skip
      PROVE  held' \in Seq(Reply) /\ WorkOK' /\ UNCHANGED <<block, prepared, skipping>>
  BY <1>0, <1>7 DEF Skip, WorkOK
<1>8. CASE TakeParse
  <2>0. toBackend # <<>> /\ UNCHANGED <<fromBackend, query>>
    BY <1>8 DEF TakeParse, Take
  <2>1. held' \in Seq(Reply) /\ WorkOK' /\ block' \in {"I", "T", "E"}
        /\ skipping' \in BOOLEAN /\ prepared' \in Seq(Statements)
    <3>1. CASE Skip
      BY <1>0, <3>1, <1>7 DEF SessionOK
    <3>2. CASE Refuse(Head(Head(toBackend).sql), b)
      BY <1>0, <2>0, <3>2, <1>6 DEF SessionOK
    <3>3. CASE prepared' = Head(toBackend).sql /\ Answer(b) /\ UNCHANGED <<block, work>>
      BY <1>0, <1>a, <2>0, <3>3, <1>5 DEF Answer, SessionOK, WorkOK
    <3> QED
      BY <1>8, <3>1, <3>2, <3>3 DEF TakeParse
  <2> QED
    BY <1>0, <2>0, <2>1 DEF RepliesOK, SessionOK
<1>9. CASE TakeBind
  <2>0. toBackend # <<>> /\ UNCHANGED <<fromBackend, query>>
    BY <1>9 DEF TakeBind, Take
  <2>1. held' \in Seq(Reply) /\ UNCHANGED <<block, prepared, skipping>> /\ WorkOK'
    BY <1>9, <2>0, <1>5, <1>7 DEF TakeBind, Answer, WorkOK
  <2> QED
    BY <1>0, <2>0, <2>1 DEF RepliesOK, SessionOK
<1>10. CASE TakeExecute
  <2>0. toBackend # <<>> /\ UNCHANGED <<fromBackend, query>>
    BY <1>10 DEF TakeExecute, Take
  <2>1. held' \in Seq(Reply) /\ WorkOK' /\ block' \in {"I", "T", "E"}
        /\ skipping' \in BOOLEAN /\ prepared' = prepared
    <3>1. CASE Skip
      BY <1>0, <3>1, <1>7 DEF SessionOK
    <3>2. CASE \E s : Refuse(s, b)
      BY <1>0, <2>0, <3>2, <1>6
    <3>3. CASE \E s : Runs(s, b) /\ Answer(b) /\ UNCHANGED prepared
      BY <1>0, <1>a, <2>0, <3>3, <1>5, WorkTypes DEF Answer, SessionOK
    <3> QED
      BY <1>10, <3>1, <3>2, <3>3 DEF TakeExecute
  <2> QED
    BY <1>0, <2>0, <2>1 DEF RepliesOK, SessionOK
<1>11. CASE TakeSync
  <2>0. /\ toBackend # <<>> /\ UNCHANGED <<block, query, prepared>>
        /\ held' = <<>> /\ skipping' = FALSE
        /\ fromBackend' = fromBackend \o Append(held, Ready(b, block))
        /\ work' = work \/ work' = NoWork
    BY <1>11 DEF TakeSync, Take
  <2>1. fromBackend' \in Seq(Reply) /\ held' \in Seq(Reply)
    BY <1>0, <1>a, <2>0, ReplySeqs, ReplyTypes
  <2> QED
    BY <1>0, <2>0, <2>1 DEF RepliesOK, SessionOK, WorkOK
<1>12. CASE TakeFlush
  <2>1. fromBackend' \in Seq(Reply) /\ held' \in Seq(Reply)
    BY <1>0, <1>12, ReplySeqs DEF TakeFlush
  <2> QED
    BY <1>0, <1>12, <2>1 DEF TakeFlush, RepliesOK, SessionOK, WorkOK
<1> QED
  BY <1>1, <1>2, <1>3, <1>4, <1>8, <1>9, <1>10, <1>11, <1>12 DEF ServeNext

LEMMA UpType ==
  ASSUME TypeOK, ClientToBackend
  PROVE  RepliesOK' /\ SessionOK' /\ WorkOK' /\ HistoryOK' /\ PlacesOK' /\ CountsOK' /\ tx' \in TxState
<1>0. MessagesOK /\ RepliesOK /\ SessionOK /\ WorkOK /\ HistoryOK /\ PlacesOK /\ CountsOK /\ tx \in TxState
  BY TypeParts
<1>1. SessionOK' /\ WorkOK' /\ UNCHANGED <<fromBackend, held, reply, got, requests, down, logged>>
  <2>1. UNCHANGED <<fromBackend, sessionVars, downVars, clientVars, logged>>
    BY DEF ClientToBackend, Inspect, PassOn, Forward, SendError, Rejecting, DrainUntilSync, Draining,
           UpStops, UpFrame, backendVars
  <2> QED
    BY <1>0, <2>1 DEF sessionVars, downVars, clientVars, SessionOK, WorkOK
<1>2. fromClient # <<>> => /\ Head(fromClient) \in Message /\ Head(fromClient).batch \in Nat
                           /\ Head(fromClient).sql \in Seq(Statements)
  <2>1. <<>> \in Seq(Statements)
    OBVIOUS
  <2>2. \A m \in Message : m.batch \in Nat /\ m.sql \in Seq(Statements)
    BY <2>1 DEF Message
  <2>3. fromClient # <<>> => Head(fromClient) \in Message
    BY <1>0 DEF MessagesOK
  <2> QED
    BY <2>2, <2>3
<1>3. carried.batch \in Nat
  BY <1>0 DEF MessagesOK, Message
<1>4. toClient' \in Seq(Reply)
  <2>1. \/ toClient' = toClient
        \/ toClient' = toClient \o <<Error(carried.batch), Ready(carried.batch, "I")>>
    BY DEF ClientToBackend, Inspect, PassOn, Forward, SendError, Rejecting, DrainUntilSync, Draining, UpStops
  <2>2. <<Error(carried.batch), Ready(carried.batch, "I")>> \in Seq(Reply)
    <3>1. Error(carried.batch) \in Reply /\ Ready(carried.batch, "I") \in Reply
      BY <1>3, ReplyTypes
    <3> QED
      BY ONLY <3>1
  <2> QED
    BY <1>0, <2>1, <2>2, ReplySeqs DEF RepliesOK
<1>5. RepliesOK'
  BY <1>0, <1>1, <1>4 DEF RepliesOK
<1>6. HistoryOK'
  <2>1. /\ rejected' = rejected \/ (fromClient # <<>> /\ rejected' = rejected \cup {Head(fromClient).batch})
        /\ warned' = warned \/ (fromClient # <<>> /\ warned' = warned \cup {Head(fromClient).batch})
        /\ forwarded' = forwarded \/ forwarded' = forwarded \cup {carried.batch}
        /\ \/ dropped' = dropped \/ dropped' = dropped \cup {carried.batch}
           \/ fromClient # <<>> /\ dropped' = dropped \cup {Head(fromClient).batch}
    BY DEF ClientToBackend, Inspect, PassOn, Forward, SendError, Rejecting, DrainUntilSync, Draining,
           UpStops, Receive
  <2> QED
    BY <1>0, <1>1, <1>2, <1>3, <2>1 DEF HistoryOK
<1>7. PlacesOK'
  <2>1. up' \in {"receive", "forward", "sendError", "drainUntilSync", "returned"}
    BY <1>0 DEF ClientToBackend, Inspect, PassOn, Forward, SendError, Rejecting, DrainUntilSync, Draining,
                UpStops, UpReturns, PlacesOK
  <2> QED
    BY <1>0, <1>1, <2>1 DEF PlacesOK
<1>8. CountsOK'
  <2>1. lastSQL' = lastSQL \/ (fromClient # <<>> /\ lastSQL' = Head(fromClient).batch)
    BY DEF ClientToBackend, Inspect, PassOn, Forward, SendError, Rejecting, DrainUntilSync, Draining,
           UpStops, Receive, Store
  <2> QED
    BY <1>0, <1>1, <1>2, <2>1 DEF CountsOK
<1>9. tx' \in TxState
  <2>1. tx' = tx \/ (fromClient # <<>> /\ tx' = TrackAll(tx, Head(fromClient).sql))
    BY DEF ClientToBackend, Inspect, PassOn, Forward, SendError, Rejecting, DrainUntilSync, Draining,
           UpStops, Receive
  <2> QED
    BY <1>0, <1>2, <2>1, TrackAllType
<1> QED
  BY <1>1, <1>5, <1>6, <1>7, <1>8, <1>9

LEMMA DownType ==
  ASSUME TypeOK, BackendToClient
  PROVE  RepliesOK' /\ SessionOK' /\ WorkOK' /\ HistoryOK' /\ PlacesOK' /\ CountsOK' /\ tx' \in TxState
<1>0. MessagesOK /\ RepliesOK /\ SessionOK /\ WorkOK /\ HistoryOK /\ PlacesOK /\ CountsOK /\ tx \in TxState
  BY TypeParts
<1>1. /\ SessionOK' /\ WorkOK' /\ CountsOK' /\ tx' \in TxState
      /\ UNCHANGED <<held, got, up, rejected, forwarded, dropped, warned>>
  <2>1. DownFrame
    BY DEF BackendToClient, ReceiveReply, ForwardReply, DownStops
  <2> QED
    BY <1>0, <2>1 DEF DownFrame, sessionVars, upVars, clientVars, SessionOK, WorkOK, CountsOK
<1>2. CASE ReceiveReply
  <2>1. /\ fromBackend # <<>> /\ fromBackend' = Tail(fromBackend) /\ reply' = Head(fromBackend)
        /\ down' = "forward" /\ toClient' = toClient
        /\ logged' = logged \/ logged' = logged \cup {[batch |-> reply'.batch, sql |-> lastSQL]}
    BY <1>2 DEF ReceiveReply
  <2>2. reply' \in Reply /\ fromBackend' \in Seq(Reply) /\ reply'.batch \in Nat
    BY <1>0, <2>1, ReplySeqs DEF RepliesOK, Reply
  <2> QED
    BY <1>0, <1>1, <2>1, <2>2 DEF RepliesOK, HistoryOK, PlacesOK, CountsOK
<1>3. CASE ForwardReply
  <2>1. toClient' \in Seq(Reply)
    BY <1>0, <1>3, ReplySeqs DEF ForwardReply, RepliesOK
  <2> QED
    BY <1>0, <1>1, <1>3, <2>1 DEF ForwardReply, RepliesOK, HistoryOK, PlacesOK
<1>4. CASE DownStops
  BY <1>0, <1>1, <1>4 DEF DownStops, DownReturns, RepliesOK, HistoryOK, PlacesOK
<1> QED
  BY <1>2, <1>3, <1>4 DEF BackendToClient

\* How many there are of the messages of a kind.
LEMMA CountType ==
  /\ \A s \in Seq(Reply) : Cardinality({i \in DOMAIN s : s[i].type = "Ready"}) \in Nat
  /\ \A s \in Seq(Unbatched) : Asking(s) \in Nat
<1>1. ASSUME NEW s \in Seq(Reply)
      PROVE  Cardinality({i \in DOMAIN s : s[i].type = "Ready"}) \in Nat
  <2>1. IsFiniteSet(1..Len(s))
    BY FS_Interval
  <2>2. {i \in DOMAIN s : s[i].type = "Ready"} \subseteq 1..Len(s)
    OBVIOUS
  <2> QED
    BY <2>1, <2>2, FS_Subset, FS_CardinalityType
<1>2. ASSUME NEW s \in Seq(Unbatched) PROVE Asking(s) \in Nat
  <2>1. IsFiniteSet(1..Len(s))
    BY FS_Interval
  <2>2. {i \in DOMAIN s : s[i].type \in {"Query", "Sync"}} \subseteq 1..Len(s)
    OBVIOUS
  <2> QED
    BY <2>1, <2>2, FS_Subset, FS_CardinalityType DEF Asking
<1> QED
  BY <1>1, <1>2

LEMMA ClientRelayType ==
  ASSUME TypeOK, (\E script \in Scripts : ClientSends(script)) \/ ClientReads \/ ClientHangsUp
  PROVE  RepliesOK' /\ SessionOK' /\ WorkOK' /\ HistoryOK' /\ PlacesOK' /\ CountsOK' /\ tx' \in TxState
<1>0. MessagesOK /\ RepliesOK /\ SessionOK /\ WorkOK /\ HistoryOK /\ PlacesOK /\ CountsOK /\ tx \in TxState
  BY TypeParts
<1>1. /\ SessionOK' /\ WorkOK' /\ HistoryOK' /\ PlacesOK' /\ tx' \in TxState
      /\ UNCHANGED <<lastSQL, fromBackend, held, reply>>
  <2>1. ClientFrame
    BY DEF ClientSends, ClientReads, ClientHangsUp
  <2> QED
    BY <1>0, <2>1 DEF ClientFrame, backendVars, sessionVars, upVars, downVars, historyVars, SessionOK,
                      WorkOK, HistoryOK, PlacesOK
<1>2. toClient' \in Seq(Reply) /\ got' \in Seq(Reply)
  <2>1. \/ UNCHANGED <<toClient, got>>
        \/ toClient # <<>> /\ toClient' = Tail(toClient) /\ got' = Append(got, Head(toClient))
    BY DEF ClientSends, ClientReads, ClientHangsUp, clientVars
  <2> QED
    BY <1>0, <2>1, ReplySeqs DEF RepliesOK
<1>3. requests' \in Nat
  <2>1. requests' = requests \/ \E script \in Scripts : requests' = requests + Asking(script)
    BY DEF ClientSends, ClientReads, ClientHangsUp, clientVars
  <2>2. \A script \in Scripts : Asking(script) \in Nat
    BY RelayAssumption, CountType
  <2> QED
    BY <1>0, <2>1, <2>2 DEF CountsOK
<1> QED
  BY <1>0, <1>1, <1>2, <1>3 DEF RepliesOK, CountsOK

LEMMA NextRelayType == TypeOK /\ ForwardInv /\ [Next]_vars => TypeOK'
<1> SUFFICES ASSUME TypeOK, ForwardInv, [Next]_vars PROVE TypeOK'
  OBVIOUS
<1>0. MessagesOK /\ Flags /\ RepliesOK /\ SessionOK /\ WorkOK /\ HistoryOK /\ PlacesOK /\ CountsOK /\ tx \in TxState
  BY TypeParts
<1>1. MessagesOK' /\ Flags'
  BY <1>0, NextForward, RelayStep DEF ForwardInv
<1>2. RepliesOK' /\ SessionOK' /\ WorkOK' /\ HistoryOK' /\ PlacesOK' /\ CountsOK' /\ tx' \in TxState
  <2>1. CASE UNCHANGED vars
    BY <1>0, <2>1 DEF vars, backendVars, sessionVars, streamVars, upVars, downVars, clientVars, historyVars,
                      RepliesOK, SessionOK, WorkOK, HistoryOK, PlacesOK, CountsOK
  <2>2. CASE Serve \/ BackendDies
    <3>1. Elsewhere /\ (ServeNext \/ EndSession)
      BY <2>2 DEF Serve, BackendDies
    <3>2. HistoryOK' /\ PlacesOK' /\ CountsOK' /\ tx' \in TxState /\ UNCHANGED <<toClient, got, reply>>
      BY <1>0, <3>1 DEF Elsewhere, streamVars, upVars, downVars, clientVars, historyVars, HistoryOK,
                        PlacesOK, CountsOK
    <3> QED
      BY <1>0, <3>1, <3>2, ServeType
  <2> QED
    BY <2>1, <2>2, UpType, DownType, ClientRelayType DEF Next
<1> QED
  BY <1>1, <1>2 DEF TypeOK, BackendTypeOK, MessagesOK, Flags, RepliesOK, SessionOK, WorkOK, HistoryOK,
                   PlacesOK, CountsOK

\* Every variable of the relay keeps its type, whatever clients send and
\* however the goroutines, the client and the session interleave: the TxState
\* of intercept.go and the replies that PostgreSQL holds back among them.
THEOREM TypeCorrect == Spec => []TypeOK
<1>1. Init => TypeOK /\ ForwardInv
  BY InitRelayType, InitForward
<1>2. TypeOK /\ ForwardInv /\ [Next]_vars => (TypeOK /\ ForwardInv)'
  BY NextRelayType, NextForward
<1> QED
  BY <1>1, <1>2, PTL DEF Spec

-----------------------------------------------------------------------------
(* What a client in lockstep with the relay can rely on, for any scripts,  *)
(* number of writes and capacity of the streams. Such a client waits for   *)
(* ReadyForQuery before it writes again, as psql and most drivers do. A    *)
(* client that does not finds replies overtaken by rejections (the run     *)
(* proxy_overtake).                                                        *)

(* Clients in lockstep. Every write of theirs asks for one ReadyForQuery   *)
(* (or is a Terminate) and they wait for it: a Query, or the messages of   *)
(* an extended-protocol batch, which ends in its only Sync, and none of    *)
(* whose messages but the first may be rejected.                           *)

ExtendedTypes == {"Parse", "Bind", "Execute", "Flush", "Sync"}

InLockstep ==
  /\ MaxInFlight = 1
  /\ \A script \in Scripts :
       \/ Len(script) = 1 /\ script[1].type \in {"Query", "Terminate"}
       \/ /\ Len(script) > 0
          /\ \A i \in DOMAIN script :
               /\ script[i].type \in ExtendedTypes
               /\ script[i].type = "Sync" <=> i = Len(script)
               /\ i > 1 => ~Check(script[i].sql)

-----------------------------------------------------------------------------
(* The inductive invariant: which phase the client's last write is in, and *)
(* what is then in each stream, in hand and at the backend. A write goes   *)
(* from Fresh to Answering through Refused, or through Half (a batch),     *)
(* InHand, AtBackend and Running (a Query); before and after it is Over.   *)

\* Replies or messages of the last write only; no ReadyForQuery; no end.
OfBatch(s) == \A i \in DOMAIN s : s[i].batch = sent
NoReady(s) == \A i \in DOMAIN s : s[i].type # "Ready"
Partial(s) == \A i \in DOMAIN s : s[i].type \in {"Parse", "Bind", "Execute", "Flush"}

\* The first m messages from the client are the rest of a rejected batch.
Drained(m) ==
  /\ m \in 0..Len(fromClient)
  /\ up = "drainUntilSync" => m > 0
  /\ up = "receive" => m = 0
  /\ m > 0 => fromClient[m].type = "Sync"
  /\ \A i \in 1..m - 1 : fromClient[i].type # "Sync"

\* From the k-th on they are what is left of the client's last batch.
AskedFrom(k) ==
  \A i \in k..Len(fromClient) :
    /\ fromClient[i].batch = sent
    /\ fromClient[i].type \in ExtendedTypes
    /\ fromClient[i].type = "Sync" <=> i = Len(fromClient)
    /\ ~Check(fromClient[i].sql)

\* After the first m there is nothing but, maybe, a last Terminate.
Ends(m) ==
  \/ Len(fromClient) = m
  \/ Len(fromClient) = m + 1 /\ fromClient[m + 1].type = "Terminate" /\ clientGone = TRUE

\* After the first m there is the last write, as a whole.
Opens(m) ==
  /\ m < Len(fromClient)
  /\ fromClient[m + 1].batch = sent
  /\ \/ fromClient[m + 1].type = "Query" /\ Len(fromClient) = m + 1
     \/ /\ fromClient[m + 1].type \in ExtendedTypes
        /\ fromClient[m + 1].type = "Sync" <=> Len(fromClient) = m + 1
        /\ AskedFrom(m + 2)

\* The session is between two requests.
BackendIdle ==
  /\ query = NoQuery /\ held = <<>> /\ skipping = FALSE
  /\ block = "I" => work = NoWork

\* No reply is on its way.
Quiet == fromBackend = <<>> /\ toClient = <<>> /\ down # "forward"

\* No ReadyForQuery is on its way.
Unanswered ==
  /\ NoReady(fromBackend) /\ NoReady(toClient)
  /\ down = "forward" => reply.type # "Ready"

\* Everything asked has been answered. What clientToBackend may still have to
\* do is drain a rejected batch, or pass on a Terminate.
Over ==
  /\ Answers = requests
  /\ BackendIdle /\ Quiet
  /\ \A i \in DOMAIN toBackend : toBackend[i].type = "Terminate"
  /\ toBackend # <<>> => clientGone = TRUE
  /\ up \in {"receive", "forward", "drainUntilSync", "returned"}
  /\ up = "forward" => carried.type = "Terminate" /\ clientGone = TRUE
  /\ \E m \in 0..Len(fromClient) : Drained(m) /\ Ends(m)

\* The client waits for one ReadyForQuery.
Pending == sent > 0 /\ requests = Answers + 1

\* Nothing of the last write has been received, maybe not even the rest of a
\* rejected batch before it.
Fresh ==
  /\ Pending
  /\ BackendIdle /\ Quiet /\ toBackend = <<>>
  /\ up \in {"receive", "drainUntilSync", "returned"}
  /\ \E m \in 0..Len(fromClient) : Drained(m) /\ Opens(m)

\* Its first message was rejected; the answer is not written yet.
Refused ==
  /\ Pending
  /\ BackendIdle /\ Quiet /\ toBackend = <<>>
  /\ up = "sendError"
  /\ carried.batch = sent
  /\ \/ carried.type = "Query" /\ fromClient = <<>>
     \/ carried.type = "Parse" /\ fromClient # <<>> /\ AskedFrom(1)

\* A batch has been received in part: its Sync is still in the stream.
Half ==
  /\ Pending
  /\ Unanswered
  /\ query = NoQuery
  /\ up \in {"receive", "forward", "returned"}
  /\ up = "forward" => carried.batch = sent /\ carried.type \in ExtendedTypes \ {"Sync"}
  /\ OfBatch(toBackend) /\ Partial(toBackend)
  /\ fromClient # <<>> /\ AskedFrom(1)

\* Its last message, a Sync or a Query, has been received and not forwarded.
InHand ==
  /\ Pending
  /\ Unanswered
  /\ query = NoQuery
  /\ fromClient = <<>>
  /\ up \in {"forward", "returned"}
  /\ carried.batch = sent
  /\ OfBatch(toBackend) /\ Partial(toBackend)
  /\ \/ carried.type = "Sync"
     \/ carried.type = "Query" /\ toBackend = <<>> /\ held = <<>> /\ skipping = FALSE

\* All of it has been forwarded, and the session has not come to its end.
AtBackend ==
  /\ Pending
  /\ Unanswered
  /\ query = NoQuery
  /\ fromClient = <<>>
  /\ up \in {"receive", "returned"}
  /\ OfBatch(toBackend) /\ toBackend # <<>>
  /\ \/ /\ \A i \in DOMAIN toBackend :
             /\ toBackend[i].type \in ExtendedTypes
             /\ toBackend[i].type = "Sync" <=> i = Len(toBackend)
     \/ Len(toBackend) = 1 /\ toBackend[1].type = "Query" /\ held = <<>> /\ skipping = FALSE

\* The session runs the statements of a Query.
Running ==
  /\ Pending
  /\ Unanswered
  /\ query # NoQuery /\ query.batch = sent
  /\ held = <<>> /\ skipping = FALSE
  /\ fromClient = <<>> /\ toBackend = <<>>
  /\ up \in {"receive", "returned"}

\* The ReadyForQuery is on its way, nothing follows it.
Answering ==
  /\ Pending
  /\ BackendIdle /\ toBackend = <<>>
  /\ up \in {"receive", "drainUntilSync", "returned"}
  /\ Drained(Len(fromClient))
  /\ \A i \in DOMAIN fromBackend : fromBackend[i].type = "Ready" => i = Len(fromBackend)
  /\ down = "forward" /\ reply.type = "Ready" => fromBackend = <<>>
  /\ \A i \in DOMAIN toClient : toClient[i].type = "Ready" =>
       i = Len(toClient) /\ fromBackend = <<>> /\ down # "forward"

Phases == Over \/ Fresh \/ Refused \/ Half \/ InHand \/ AtBackend \/ Running \/ Answering

\* Every reply on its way answers the last write.
ReplyInv ==
  /\ OfBatch(fromBackend) /\ OfBatch(toClient) /\ OfBatch(held)
  /\ NoReady(held)
  /\ down = "forward" => reply.batch = sent

\* The replies read answer it or earlier ones.
GotInv ==
  /\ RepliesInOrder
  /\ \A i \in DOMAIN got : got[i].batch <= sent

LockInv == ReplyInv /\ GotInv /\ Phases

-----------------------------------------------------------------------------
(* What follows when parts of the state stay the same.                     *)

LEMMA SameReplies ==
  ASSUME UNCHANGED <<sent, requests, got, toClient, fromBackend, held, query, skipping, block, work, down, reply>>
  PROVE  /\ BackendIdle => BackendIdle'
         /\ Quiet => Quiet'
         /\ Unanswered => Unanswered'
         /\ Pending => Pending'
         /\ Answers' = Answers
         /\ ReplyInv => ReplyInv'
         /\ GotInv => GotInv'
BY DEF BackendIdle, Quiet, Unanswered, Pending, Answers, ReplyInv, GotInv, NoReady, OfBatch, RepliesInOrder

LEMMA UpKeeps ==
  ASSUME Inspect \/ PassOn \/ DrainUntilSync \/ UpStops \/ Forward
  PROVE  /\ UNCHANGED <<sent, requests, got, toClient, fromBackend, held, query, skipping, block, work, down,
                        reply, clientGone, logged>>
         /\ ~Forward => toBackend' = toBackend
BY DEF Inspect, PassOn, DrainUntilSync, Draining, UpStops, Forward, UpFrame, backendVars, sessionVars,
       downVars, clientVars

\* The stream from the client, when its first message is taken.
LEMMA Front ==
  ASSUME NEW s \in Seq(Message), s # <<>>
  PROVE  /\ Len(s) \in Nat /\ Len(s) > 0 /\ s[1] = Head(s) /\ s[1] \in Message
         /\ Len(Tail(s)) = Len(s) - 1
         /\ \A i \in 1..Len(s) - 1 : Tail(s)[i] = s[i + 1]
         /\ Tail(s) \in Seq(Message)
         /\ Len(s) = 1 => Tail(s) = <<>>
OBVIOUS

LEMMA AskedTail ==
  ASSUME fromClient \in Seq(Message), fromClient # <<>>, fromClient' = Tail(fromClient), sent' = sent,
         NEW k \in Nat, k > 0, AskedFrom(k + 1)
  PROVE  AskedFrom(k)'
<1>1. ASSUME NEW i \in k..Len(fromClient')
      PROVE  /\ i + 1 \in k + 1..Len(fromClient) /\ fromClient'[i] = fromClient[i + 1]
             /\ i = Len(fromClient') <=> i + 1 = Len(fromClient)
  BY Front
<1> QED
  BY <1>1 DEF AskedFrom

\* What the goroutine finds in front when it is not draining.
LEMMA FrontOver ==
  ASSUME TypeOK, up = "receive", Over, fromClient # <<>>
  PROVE  fromClient[1].type = "Terminate" /\ Len(fromClient) = 1 /\ clientGone = TRUE
<1>1. Ends(0)
  BY DEF Over, Drained
<1>2. Len(fromClient) # 0
  BY Front DEF TypeOK
<1> QED
  BY <1>1, <1>2 DEF Ends

LEMMA FrontFresh ==
  ASSUME up = "receive", Fresh
  PROVE  /\ fromClient[1].batch = sent
         /\ \/ fromClient[1].type = "Query" /\ Len(fromClient) = 1
            \/ /\ fromClient[1].type \in ExtendedTypes
               /\ fromClient[1].type = "Sync" <=> Len(fromClient) = 1
               /\ AskedFrom(2)
<1>1. Opens(0)
  BY DEF Fresh, Drained
<1> QED
  BY <1>1 DEF Opens

\* Leaving the stream from the client alone keeps what is in it.
LEMMA SameStream ==
  ASSUME fromClient' = fromClient, up' = up, sent' = sent, clientGone' = clientGone
  PROVE  /\ \A m : Drained(m) => Drained(m)'
         /\ \A m : (AskedFrom(m) => AskedFrom(m)') /\ (Ends(m) => Ends(m)') /\ (Opens(m) => Opens(m)')
BY DEF Drained, AskedFrom, Ends, Opens

LEMMA InspectLock ==
  ASSUME TypeOK, LockInv, Inspect
  PROVE  LockInv'
<1> DEFINE m == Head(fromClient)
<1>0. fromClient \in Seq(Message) /\ fromClient # <<>> /\ fromClient' = Tail(fromClient)
      /\ up = "receive" /\ m.type \in WithText
  BY DEF TypeOK, Inspect, Receive, Store
<1>1. /\ UNCHANGED <<toBackend, sent, requests, got, toClient, fromBackend, held, query, skipping, block, work,
                     down, reply, clientGone, logged>>
      /\ BackendIdle => BackendIdle'
      /\ Quiet => Quiet'
      /\ Unanswered => Unanswered'
      /\ Pending => Pending'
      /\ ReplyInv' /\ GotInv'
  <2>1. UNCHANGED <<toBackend, sent, requests, got, toClient, fromBackend, held, query, skipping, block, work,
                    down, reply, clientGone, logged>>
    BY UpKeeps DEF Inspect, UpFrame, backendVars
  <2> QED
    BY <2>1, SameReplies DEF LockInv
<1>2. /\ m = fromClient[1] /\ m \in Message /\ Len(fromClient) \in Nat /\ Len(fromClient) > 0
      /\ Len(fromClient) = 1 => fromClient' = <<>>
      /\ Len(fromClient') = Len(fromClient) - 1
      /\ Len(fromClient) > 1 => fromClient' # <<>>
  BY <1>0, Front
<1>3. \/ Check(m.sql) /\ up' = "sendError" /\ carried' = m
      \/ ~Check(m.sql) /\ up' = "forward" /\ carried' = [m EXCEPT !.sql = Rewrite(m.sql)]
  BY DEF Inspect
<1>4. carried'.type = m.type /\ carried'.batch = m.batch
  BY <1>2, <1>3 DEF Message
<1>5. CASE Over
  <2>1. m.type = "Terminate"
    BY <1>0, <1>2, <1>5, FrontOver
  <2> QED
    BY <1>0, <2>1 DEF WithText
<1>6. CASE Fresh
  <2>1. /\ toBackend = <<>> /\ Pending /\ BackendIdle /\ Quiet
        /\ m.batch = sent
    BY <1>0, <1>2, <1>6, FrontFresh DEF Fresh
  <2>a. \/ m.type = "Query" /\ Len(fromClient) = 1
        \/ m.type = "Parse" /\ Len(fromClient) > 1 /\ AskedFrom(2)
    BY <1>0, <1>2, <1>6, FrontFresh DEF ExtendedTypes, WithText
  <2>3. CASE m.type = "Query" /\ Len(fromClient) = 1
    <3>1. CASE Check(m.sql)
      <4>1. Refused'
        BY <1>1, <1>2, <1>3, <1>4, <2>1, <2>3, <3>1 DEF Refused
      <4> QED
        BY <1>1, <4>1 DEF LockInv, Phases
    <3>2. CASE ~Check(m.sql)
      <4>1. InHand'
        BY <1>1, <1>2, <1>3, <1>4, <2>1, <2>3, <3>2 DEF InHand, BackendIdle, Quiet, Unanswered, NoReady,
           OfBatch, Partial
      <4> QED
        BY <1>1, <4>1 DEF LockInv, Phases
    <3> QED
      BY <3>1, <3>2
  <2>4. CASE m.type = "Parse" /\ Len(fromClient) > 1 /\ AskedFrom(2)
    <3>0. AskedFrom(1)' /\ fromClient' # <<>>
      BY <1>0, <1>1, <1>2, <2>4, AskedTail
    <3>1. CASE Check(m.sql)
      <4>1. Refused'
        BY <1>1, <1>2, <1>3, <1>4, <2>1, <2>4, <3>0, <3>1 DEF Refused
      <4> QED
        BY <1>1, <4>1 DEF LockInv, Phases
    <3>2. CASE ~Check(m.sql)
      <4>1. Half'
        BY <1>1, <1>2, <1>3, <1>4, <2>1, <2>4, <3>0, <3>2 DEF Half, BackendIdle, Quiet, Unanswered,
           NoReady, OfBatch, Partial, ExtendedTypes
      <4> QED
        BY <1>1, <4>1 DEF LockInv, Phases
    <3> QED
      BY <3>1, <3>2
  <2> QED
    BY <2>a, <2>3, <2>4
<1>7. CASE Half
  <2>1. m.batch = sent /\ ~Check(m.sql) /\ m.type = "Parse" /\ Len(fromClient) > 1
    <3>1. 1 \in 1..Len(fromClient) /\ fromClient[1] = m
      BY <1>2
    <3>2. /\ m.batch = sent /\ ~Check(m.sql) /\ m.type \in ExtendedTypes
          /\ m.type = "Sync" <=> 1 = Len(fromClient)
      BY <1>7, <3>1 DEF Half, AskedFrom
    <3>3. m.type = "Parse"
      BY <1>0, <3>2 DEF ExtendedTypes, WithText
    <3> QED
      BY <1>2, <3>2, <3>3
  <2>2. AskedFrom(1)' /\ fromClient' # <<>>
    <3>1. AskedFrom(2)
      BY <1>7 DEF Half, AskedFrom
    <3> QED
      BY <1>0, <1>1, <1>2, <1>7, <2>1, <3>1, AskedTail DEF Half
  <2>3. Half'
    BY <1>1, <1>3, <1>4, <1>7, <2>1, <2>2 DEF Half, OfBatch, Partial, ExtendedTypes
  <2> QED
    BY <1>1, <2>3 DEF LockInv, Phases
<1>8. CASE Answering
  <2>1. FALSE
    BY <1>0, <1>2, <1>8 DEF Answering, Drained
  <2> QED
    BY <2>1
<1>9. ~Refused /\ ~InHand /\ ~AtBackend /\ ~Running
  BY <1>0 DEF Refused, InHand, AtBackend, Running
<1> QED
  BY <1>5, <1>6, <1>7, <1>8, <1>9 DEF LockInv, Phases

LEMMA PassOnLock ==
  ASSUME TypeOK, LockInv, PassOn
  PROVE  LockInv'
<1> DEFINE m == Head(fromClient)
<1>0. /\ fromClient \in Seq(Message) /\ fromClient # <<>> /\ fromClient' = Tail(fromClient)
      /\ up = "receive" /\ m.type \in WithoutText
      /\ up' = "forward" /\ carried' = m
  BY DEF TypeOK, PassOn, Receive
<1>1. /\ UNCHANGED <<toBackend, sent, requests, got, toClient, fromBackend, held, query, skipping, block, work,
                     down, reply, clientGone, logged>>
      /\ BackendIdle => BackendIdle'
      /\ Quiet => Quiet'
      /\ Unanswered => Unanswered'
      /\ Pending => Pending'
      /\ Answers' = Answers
      /\ ReplyInv' /\ GotInv'
  <2>1. UNCHANGED <<toBackend, sent, requests, got, toClient, fromBackend, held, query, skipping, block, work,
                    down, reply, clientGone, logged>>
    BY UpKeeps DEF PassOn, UpFrame, backendVars
  <2> QED
    BY <2>1, SameReplies DEF LockInv
<1>2. /\ m = fromClient[1] /\ m \in Message /\ Len(fromClient) \in Nat /\ Len(fromClient) > 0
      /\ Len(fromClient) = 1 => fromClient' = <<>>
      /\ Len(fromClient') = Len(fromClient) - 1
      /\ Len(fromClient) > 1 => fromClient' # <<>>
      /\ 1 \in 1..Len(fromClient)
  <2>1. /\ Len(fromClient) \in Nat /\ Len(fromClient) > 0
        /\ fromClient[1] = Head(fromClient) /\ fromClient[1] \in Message
        /\ Len(Tail(fromClient)) = Len(fromClient) - 1
        /\ Len(fromClient) = 1 => Tail(fromClient) = <<>>
    BY ONLY <1>0, Front
  <2>2. Len(<<>>) = 0
    OBVIOUS
  <2> QED
    <3>1. fromClient' = Tail(fromClient) /\ m = fromClient[1]
      BY <1>0, <2>1
    <3>2. 1 \in 1..Len(fromClient) /\ (Len(fromClient) > 1 => Len(Tail(fromClient)) # 0)
      BY ONLY <2>1
    <3> HIDE DEF m
    <3> QED
      BY ONLY <2>1, <2>2, <3>1, <3>2
<1>5. CASE Over
  <2>1. m.type = "Terminate" /\ Len(fromClient) = 1 /\ clientGone = TRUE
    BY <1>0, <1>2, <1>5, FrontOver
  <2>2. fromClient' = <<>> /\ Drained(0)'
    BY <1>0, <1>2, <2>1 DEF Drained
  <2>3. Over'
    <3>1. \E n \in 0..Len(fromClient') : Drained(n)' /\ Ends(n)'
      <4>1. Len(fromClient') = 0 /\ 0 \in 0..Len(fromClient')
        BY <1>2, <2>1
      <4> QED
        BY <2>2, <4>1 DEF Ends
    <3>2. /\ Answers' = requests' /\ BackendIdle' /\ Quiet' /\ up' = "forward" /\ carried'.type = "Terminate"
          /\ clientGone' = TRUE /\ \A i \in DOMAIN toBackend' : toBackend'[i].type = "Terminate"
      BY <1>0, <1>1, <1>5, <2>1 DEF Over
    <3> QED
      BY <3>1, <3>2 DEF Over
  <2> QED
    BY <1>1, <2>3 DEF LockInv, Phases
<1>6. CASE Fresh
  <2>1. /\ m.batch = sent /\ m.type \in ExtendedTypes
        /\ m.type = "Sync" <=> Len(fromClient) = 1
        /\ AskedFrom(2)
    BY <1>0, <1>2, <1>6, FrontFresh DEF WithoutText
  <2>2. /\ toBackend = <<>> /\ Pending' /\ BackendIdle' /\ Unanswered'
    BY <1>0, <1>1, <1>2, <1>6, <2>1, FrontFresh DEF Fresh, Quiet, Unanswered, NoReady
  <2>3. query' = NoQuery /\ OfBatch(toBackend)' /\ Partial(toBackend)'
    BY <1>1, <2>2 DEF BackendIdle, OfBatch, Partial
  <2>4. CASE m.type = "Sync"
    <3>1. InHand'
      BY <1>0, <1>1, <1>2, <2>1, <2>2, <2>3, <2>4 DEF InHand
    <3> QED
      BY <1>1, <3>1 DEF LockInv, Phases
  <2>5. CASE m.type # "Sync"
    <3>1. AskedFrom(1)' /\ fromClient' # <<>>
      BY <1>0, <1>1, <1>2, <2>1, <2>5, AskedTail
    <3>2. Half'
      BY <1>0, <1>1, <2>1, <2>2, <2>3, <2>5, <3>1 DEF Half
    <3> QED
      BY <1>1, <3>2 DEF LockInv, Phases
  <2> QED
    BY <2>4, <2>5
<1>7. CASE Half
  <2>1. /\ m.batch = sent /\ m.type \in ExtendedTypes
        /\ m.type = "Sync" <=> 1 = Len(fromClient)
    BY <1>2, <1>7 DEF Half, AskedFrom
  <2>2. CASE m.type = "Sync"
    <3>1. fromClient' = <<>>
      BY <1>2, <2>1, <2>2
    <3>2. InHand'
      BY <1>0, <1>1, <1>7, <2>1, <2>2, <3>1 DEF Half, InHand, OfBatch, Partial
    <3> QED
      BY <1>1, <3>2 DEF LockInv, Phases
  <2>3. CASE m.type # "Sync"
    <3>1. AskedFrom(1)' /\ fromClient' # <<>>
      <4>1. AskedFrom(2)
        BY <1>7 DEF Half, AskedFrom
      <4> QED
        BY <1>0, <1>1, <1>2, <2>1, <2>3, <4>1, AskedTail
    <3>2. Half'
      BY <1>0, <1>1, <1>7, <2>1, <2>3, <3>1 DEF Half, OfBatch, Partial
    <3> QED
      BY <1>1, <3>2 DEF LockInv, Phases
  <2> QED
    BY <2>2, <2>3
<1>8. CASE Answering
  <2>1. FALSE
    BY <1>0, <1>2, <1>8 DEF Answering, Drained
  <2> QED
    BY <2>1
<1>9. ~Refused /\ ~InHand /\ ~AtBackend /\ ~Running
  BY <1>0 DEF Refused, InHand, AtBackend, Running
<1> QED
  BY <1>5, <1>6, <1>7, <1>8, <1>9 DEF LockInv, Phases

\* What is put behind the messages of a stream.
LEMMA Behind ==
  ASSUME NEW s \in Seq(Message), NEW m \in Message
  PROVE  /\ Len(Append(s, m)) = Len(s) + 1 /\ Append(s, m) # <<>> /\ Len(s) \in Nat
         /\ Append(s, m)[Len(s) + 1] = m
         /\ \A i \in 1..Len(s) : Append(s, m)[i] = s[i]
         /\ DOMAIN Append(s, m) = 1..Len(s) + 1 /\ DOMAIN s = 1..Len(s)
OBVIOUS

LEMMA ForwardLock ==
  ASSUME TypeOK, LockInv, Forward
  PROVE  LockInv'
<1>0. /\ toBackend \in Seq(Message) /\ carried \in Message
      /\ up = "forward" /\ toBackend' = Append(toBackend, carried)
      /\ UNCHANGED <<fromClient, carried, lastSQL>>
      /\ up' = IF carried.type = "Terminate" THEN "returned" ELSE "receive"
  BY DEF TypeOK, BackendTypeOK, Forward, UpReturns
<1>1. /\ UNCHANGED <<sent, requests, got, toClient, fromBackend, held, query, skipping, block, work,
                     down, reply, clientGone, logged>>
      /\ BackendIdle => BackendIdle'
      /\ Quiet => Quiet'
      /\ Unanswered => Unanswered'
      /\ Pending => Pending'
      /\ Answers' = Answers
      /\ ReplyInv' /\ GotInv'
  BY UpKeeps, SameReplies DEF LockInv
<1>2. /\ toBackend' # <<>> /\ Len(toBackend) \in Nat /\ Len(toBackend') = Len(toBackend) + 1
      /\ DOMAIN toBackend = 1..Len(toBackend) /\ DOMAIN toBackend' = 1..Len(toBackend) + 1
      /\ toBackend'[Len(toBackend) + 1] = carried
      /\ \A i \in 1..Len(toBackend) : toBackend'[i] = toBackend[i]
  BY <1>0, Behind
<1>3. CASE Over
  <2>1. carried.type = "Terminate" /\ clientGone = TRUE /\ up' = "returned"
    BY <1>0, <1>3 DEF Over
  <2>2. \A i \in DOMAIN toBackend' : toBackend'[i].type = "Terminate"
    BY <1>2, <1>3, <2>1 DEF Over
  <2>3. \E n \in 0..Len(fromClient') : Drained(n)' /\ Ends(n)'
    BY <1>0, <1>1, <1>3, <2>1 DEF Over, Drained, Ends
  <2>4. Over'
    <3>1. /\ Answers' = requests' /\ BackendIdle' /\ Quiet' /\ up' = "returned" /\ clientGone' = TRUE
      BY <1>1, <1>3, <2>1 DEF Over
    <3> QED
      BY <2>2, <2>3, <3>1 DEF Over
  <2> QED
    BY <1>1, <2>4 DEF LockInv, Phases
<1>4. CASE Half
  <2>1. carried.batch = sent /\ carried.type \in ExtendedTypes \ {"Sync"} /\ up' = "receive"
    BY <1>0, <1>4 DEF Half, ExtendedTypes
  <2>2. OfBatch(toBackend)' /\ Partial(toBackend)'
    <3>1. \A i \in DOMAIN toBackend' : (i \in DOMAIN toBackend /\ toBackend'[i] = toBackend[i]) \/ toBackend'[i] = carried
      BY <1>2
    <3> QED
      BY <1>1, <1>4, <2>1, <3>1 DEF Half, OfBatch, Partial, ExtendedTypes
  <2>3. Half'
    <3>1. AskedFrom(1)' /\ fromClient' # <<>>
      BY <1>0, <1>1, <1>4 DEF Half, AskedFrom
    <3> QED
      BY <1>0, <1>1, <1>4, <2>1, <2>2, <3>1 DEF Half
  <2> QED
    BY <1>1, <2>3 DEF LockInv, Phases
<1>5. CASE InHand
  <2>1. carried.batch = sent /\ carried.type \in {"Sync", "Query"} /\ up' = "receive"
    BY <1>0, <1>5 DEF InHand
  <2>2. OfBatch(toBackend)'
    <3>1. \A i \in DOMAIN toBackend' : (i \in DOMAIN toBackend /\ toBackend'[i] = toBackend[i]) \/ toBackend'[i] = carried
      BY <1>2
    <3> QED
      BY <1>1, <1>5, <2>1, <3>1 DEF InHand, OfBatch
  <2>3. \/ \A i \in DOMAIN toBackend' :
             /\ toBackend'[i].type \in ExtendedTypes
             /\ toBackend'[i].type = "Sync" <=> i = Len(toBackend')
        \/ Len(toBackend') = 1 /\ toBackend'[1].type = "Query" /\ held' = <<>> /\ skipping' = FALSE
    <3>1. CASE carried.type = "Sync"
      <4>1. \A i \in 1..Len(toBackend) :
              toBackend'[i].type \in {"Parse", "Bind", "Execute", "Flush"} /\ i # Len(toBackend')
        BY <1>2, <1>5 DEF InHand, Partial
      <4>2. \A i \in DOMAIN toBackend' : i \in 1..Len(toBackend) \/ i = Len(toBackend')
        BY <1>2
      <4> QED
        BY <1>2, <3>1, <4>1, <4>2 DEF ExtendedTypes
    <3>2. CASE carried.type = "Query"
      BY <1>1, <1>2, <1>5, <3>2 DEF InHand
    <3> QED
      BY <2>1, <3>1, <3>2
  <2>4. AtBackend'
    <3>1. Pending' /\ Unanswered' /\ query' = NoQuery /\ fromClient' = <<>>
      BY <1>0, <1>1, <1>5 DEF InHand
    <3> QED
      BY <1>2, <2>1, <2>2, <2>3, <3>1 DEF AtBackend
  <2> QED
    BY <1>1, <2>4 DEF LockInv, Phases
<1>6. ~Fresh /\ ~Refused /\ ~AtBackend /\ ~Running /\ ~Answering
  BY <1>0 DEF Fresh, Refused, AtBackend, Running, Answering
<1> QED
  BY <1>3, <1>4, <1>5, <1>6 DEF LockInv, Phases

\* The client's messages are drained up to the Sync.
LEMMA DrainTail ==
  ASSUME TypeOK, DrainUntilSync, NEW k \in 0..Len(fromClient), Drained(k)
  PROVE  /\ k > 0 /\ k - 1 \in 0..Len(fromClient') /\ Drained(k - 1)'
         /\ up' \in {"receive", "drainUntilSync"}
<1>0. /\ fromClient \in Seq(Message) /\ fromClient # <<>> /\ fromClient' = Tail(fromClient)
      /\ up = "drainUntilSync"
      /\ up' = IF fromClient[1].type = "Sync" THEN "receive" ELSE "drainUntilSync"
  BY DEF TypeOK, DrainUntilSync, Draining
<1>1. /\ Len(fromClient) \in Nat /\ Len(fromClient) > 0 /\ Len(fromClient') = Len(fromClient) - 1
      /\ \A i \in 1..Len(fromClient) - 1 : fromClient'[i] = fromClient[i + 1]
  BY <1>0, Front
<1>2. /\ k > 0 /\ fromClient[k].type = "Sync"
      /\ \A i \in 1..k - 1 : fromClient[i].type # "Sync"
  BY <1>0 DEF Drained
<1>3. fromClient[1].type = "Sync" <=> k = 1
  BY <1>1, <1>2
<1>4. k - 1 > 0 => fromClient'[k - 1].type = "Sync"
  BY <1>1, <1>2
<1>5. \A i \in 1..(k - 1) - 1 : fromClient'[i].type # "Sync"
  BY <1>1, <1>2
<1> QED
  BY <1>0, <1>1, <1>2, <1>3, <1>4, <1>5 DEF Drained

LEMMA DrainLock ==
  ASSUME TypeOK, LockInv, DrainUntilSync
  PROVE  LockInv'
<1>0. /\ fromClient \in Seq(Message) /\ fromClient # <<>> /\ fromClient' = Tail(fromClient)
      /\ up = "drainUntilSync" /\ UNCHANGED <<toBackend, lastSQL>>
  BY UpKeeps DEF TypeOK, DrainUntilSync, Draining, Forward
<1>1. /\ UNCHANGED <<sent, requests, got, toClient, fromBackend, held, query, skipping, block, work,
                     down, reply, clientGone, logged>>
      /\ BackendIdle => BackendIdle'
      /\ Quiet => Quiet'
      /\ Pending => Pending'
      /\ Answers' = Answers
      /\ ReplyInv' /\ GotInv'
  BY UpKeeps, SameReplies DEF LockInv
<1>2. /\ Len(fromClient) \in Nat /\ Len(fromClient) > 0 /\ Len(fromClient') = Len(fromClient) - 1
      /\ \A i \in 1..Len(fromClient) - 1 : fromClient'[i] = fromClient[i + 1]
  BY <1>0, Front
<1>3. CASE Over
  <2>1. PICK m \in 0..Len(fromClient) :
          /\ Drained(m)
          /\ \/ Len(fromClient) = m
             \/ Len(fromClient) = m + 1 /\ fromClient[m + 1].type = "Terminate" /\ clientGone = TRUE
    BY <1>3 DEF Over, Ends
  <2>2. /\ m > 0 /\ m - 1 \in 0..Len(fromClient') /\ Drained(m - 1)'
        /\ up' \in {"receive", "drainUntilSync"}
    BY <2>1, DrainTail
  <2>3. \/ Len(fromClient') = m - 1
        \/ /\ Len(fromClient') = (m - 1) + 1 /\ fromClient'[(m - 1) + 1].type = "Terminate"
           /\ clientGone' = TRUE
    BY <1>1, <1>2, <2>1, <2>2
  <2>4. Ends(m - 1)'
    BY <2>3 DEF Ends
  <2>5. Over'
    <3>1. /\ Answers' = requests' /\ BackendIdle' /\ Quiet'
          /\ \A i \in DOMAIN toBackend' : toBackend'[i].type = "Terminate"
          /\ toBackend' # <<>> => clientGone' = TRUE
      BY <1>0, <1>1, <1>3 DEF Over
    <3> QED
      BY <2>2, <2>4, <3>1 DEF Over
  <2> QED
    BY <1>1, <2>5 DEF LockInv, Phases
<1>4. CASE Fresh
  <2>1. PICK m \in 0..Len(fromClient) :
          Drained(m) /\ Opens(m)
    BY <1>4 DEF Fresh
  <2>2. /\ m > 0 /\ m - 1 \in 0..Len(fromClient') /\ Drained(m - 1)'
        /\ up' \in {"receive", "drainUntilSync"}
    BY <2>1, DrainTail
  <2>3. fromClient'[(m - 1) + 1] = fromClient[m + 1]
    BY <1>2, <2>1, <2>2 DEF Opens
  <2>4. AskedFrom(m + 2) => AskedFrom((m - 1) + 2)'
    <3>1. (m - 1) + 2 \in Nat /\ (m - 1) + 2 > 0 /\ m + 2 = ((m - 1) + 2) + 1
      BY <2>2
    <3> QED
      BY <1>0, <1>1, <3>1, AskedTail
  <2>5. Fresh'
    <3>1. Pending' /\ BackendIdle' /\ Quiet' /\ toBackend' = <<>>
      BY <1>0, <1>1, <1>4 DEF Fresh
    <3>2. Drained(m - 1)' /\ Opens(m - 1)'
      BY <1>1, <1>2, <2>1, <2>2, <2>3, <2>4 DEF Opens
    <3> QED
      BY <2>2, <3>1, <3>2 DEF Fresh
  <2> QED
    BY <1>1, <2>5 DEF LockInv, Phases
<1>5. CASE Answering
  <2>1. PICK k \in 0..Len(fromClient) : k = Len(fromClient) /\ Drained(k)
    BY <1>2, <1>5 DEF Answering
  <2>2. /\ Drained(k - 1)' /\ up' \in {"receive", "drainUntilSync"}
    BY <2>1, DrainTail
  <2>3. Drained(Len(fromClient))'
    <3>1. Len(fromClient') = k - 1
      BY <1>2, <2>1
    <3> QED
      BY <2>2, <3>1
  <2>4. Answering'
    BY <1>0, <1>1, <1>5, <2>2, <2>3 DEF Answering
  <2> QED
    BY <1>1, <2>4 DEF LockInv, Phases
<1>6. ~Refused /\ ~Half /\ ~InHand /\ ~AtBackend /\ ~Running
  BY <1>0 DEF Refused, Half, InHand, AtBackend, Running
<1> QED
  BY <1>3, <1>4, <1>5, <1>6 DEF LockInv, Phases

LEMMA UpStopsLock ==
  ASSUME TypeOK, LockInv, UpStops
  PROVE  LockInv'
<1>0. /\ up \in {"receive", "drainUntilSync", "forward"} /\ up' = "returned"
      /\ UNCHANGED <<fromClient, toBackend, carried, lastSQL>>
  BY DEF UpStops, UpReturns, UpFrame, backendVars
<1>1. /\ UNCHANGED <<sent, requests, got, toClient, fromBackend, held, query, skipping, block, work,
                     down, reply, clientGone, logged>>
      /\ BackendIdle => BackendIdle'
      /\ Quiet => Quiet'
      /\ Unanswered => Unanswered'
      /\ Pending => Pending'
      /\ Answers' = Answers
      /\ ReplyInv' /\ GotInv'
  BY UpKeeps, SameReplies DEF LockInv
<1>2. \A m : Drained(m) => Drained(m)'
  BY <1>0 DEF Drained
<1>3. \A m : /\ AskedFrom(m) => AskedFrom(m)'
             /\ Ends(m) => Ends(m)'
             /\ Opens(m) => Opens(m)'
  BY <1>0, <1>1 DEF AskedFrom, Ends, Opens
<1>4. Over => Over'
  <2> SUFFICES ASSUME Over PROVE Over'
    OBVIOUS
  <2>1. /\ Answers' = requests' /\ BackendIdle' /\ Quiet'
        /\ \A i \in DOMAIN toBackend' : toBackend'[i].type = "Terminate"
        /\ toBackend' # <<>> => clientGone' = TRUE
    BY <1>0, <1>1 DEF Over
  <2>2. \E m \in 0..Len(fromClient') : Drained(m)' /\ Ends(m)'
    BY <1>0, <1>1, <1>2, <1>3 DEF Over
  <2> QED
    BY <1>0, <2>1, <2>2 DEF Over
<1>5. Fresh => Fresh'
  <2> SUFFICES ASSUME Fresh PROVE Fresh'
    OBVIOUS
  <2>1. \E m \in 0..Len(fromClient') : Drained(m)' /\ Opens(m)'
    BY <1>0, <1>1, <1>2, <1>3 DEF Fresh
  <2> QED
    BY <1>0, <1>1, <2>1 DEF Fresh
<1>6. Half => Half'
  BY <1>0, <1>1, <1>3 DEF Half, OfBatch, Partial
<1>7. InHand => InHand'
  BY <1>0, <1>1 DEF InHand, OfBatch, Partial
<1>8. AtBackend => AtBackend'
  BY <1>0, <1>1 DEF AtBackend, OfBatch
<1>9. Running => Running'
  BY <1>0, <1>1 DEF Running
<1>10. Answering => Answering'
  BY <1>0, <1>1, <1>2 DEF Answering
<1>11. ~Refused
  BY <1>0 DEF Refused
<1> QED
  BY <1>1, <1>4, <1>5, <1>6, <1>7, <1>8, <1>9, <1>10, <1>11 DEF LockInv, Phases

\* The two replies of sendError, put behind a stream.
LEMMA RefusalBehind ==
  ASSUME NEW s \in Seq(Reply), NEW b \in Nat
  PROVE  LET r == s \o <<Error(b), Ready(b, "I")>>
         IN  /\ Len(s) \in Nat /\ Len(r) = Len(s) + 2 /\ DOMAIN r = 1..Len(s) + 2 /\ DOMAIN s = 1..Len(s)
             /\ \A i \in 1..Len(s) : r[i] = s[i]
             /\ r[Len(s) + 1] = Error(b)
             /\ r[Len(s) + 2] = Ready(b, "I")
OBVIOUS

LEMMA SendErrorLock ==
  ASSUME TypeOK, LockInv, SendError
  PROVE  LockInv'
<1>0. /\ fromClient \in Seq(Message) /\ toClient \in Seq(Reply) /\ carried \in Message
      /\ up = "sendError" /\ up' = IF carried.type = "Parse" THEN "drainUntilSync" ELSE "receive"
      /\ toClient' = toClient \/ toClient' = toClient \o <<Error(carried.batch), Ready(carried.batch, "I")>>
      /\ UNCHANGED <<toBackend, fromBackend, held, query, skipping, block, work, down, reply,
                     sent, requests, got, fromClient, lastSQL, logged>>
  BY DEF TypeOK, SendError, Rejecting, UpFrame, backendVars, sessionVars, downVars, clientVars
<1>1. Refused
  BY <1>0 DEF LockInv, Phases, Over, Fresh, Half, InHand, AtBackend, Running, Answering
<1>2. /\ Pending' /\ BackendIdle' /\ toBackend' = <<>>
      /\ GotInv' /\ fromBackend' = <<>> /\ down' # "forward"
      /\ OfBatch(fromBackend)' /\ OfBatch(held)' /\ NoReady(held)'
  BY <1>0, <1>1 DEF Refused, LockInv, Pending, Answers, BackendIdle, Quiet, GotInv, RepliesInOrder,
     ReplyInv, OfBatch, NoReady
<1>3. /\ OfBatch(toClient)'
      /\ \A i \in DOMAIN toClient' : toClient'[i].type = "Ready" => i = Len(toClient')
  <2>1. toClient = <<>> /\ carried.batch = sent /\ sent \in Nat
    BY <1>0, <1>1 DEF Refused, Quiet, TypeOK
  <2>2. CASE toClient' = toClient
    BY <2>1, <2>2 DEF OfBatch
  <2>3. CASE toClient' = toClient \o <<Error(carried.batch), Ready(carried.batch, "I")>>
    <3>1. /\ DOMAIN toClient' = 1..2 /\ Len(toClient') = 2
          /\ toClient'[1] = Error(sent) /\ toClient'[2] = Ready(sent, "I")
      <4>1. Len(toClient) = 0
        BY <2>1
      <4> QED
        BY <1>0, <2>1, <2>3, <4>1, RefusalBehind
    <3> QED
      BY <1>0, <3>1 DEF OfBatch, Error, Ready
  <2> QED
    BY <1>0, <2>2, <2>3
<1>4. Drained(Len(fromClient))'
  <2>1. CASE carried.type = "Query"
    BY <1>0, <1>1, <2>1 DEF Refused, Drained
  <2>2. CASE carried.type = "Parse"
    <3>1. fromClient # <<>> /\ AskedFrom(1) /\ Len(fromClient) \in Nat /\ Len(fromClient) > 0
      BY <1>0, <1>1, <2>2, Front DEF Refused
    <3> QED
      BY <1>0, <2>2, <3>1 DEF AskedFrom, Drained
  <2> QED
    BY <1>1, <2>1, <2>2 DEF Refused
<1>5. Answering'
  BY <1>0, <1>2, <1>3, <1>4 DEF Answering
<1>6. ReplyInv'
  BY <1>2, <1>3 DEF ReplyInv
<1> QED
  BY <1>2, <1>5, <1>6 DEF LockInv, Phases

-----------------------------------------------------------------------------
(* backendToClient.                                                        *)

LEMMA DownKeeps ==
  ASSUME DownFrame
  PROVE  /\ UNCHANGED <<toBackend, held, query, skipping, block, work, fromClient, clientGone, up, carried,
                        lastSQL, sent, requests, got>>
         /\ BackendIdle => BackendIdle'
         /\ Pending => Pending'
         /\ GotInv => GotInv'
         /\ \A m : Drained(m) => Drained(m)'
         /\ Half /\ Unanswered' => Half'
         /\ InHand /\ Unanswered' => InHand'
         /\ AtBackend /\ Unanswered' => AtBackend'
         /\ Running /\ Unanswered' => Running'
<1>1. UNCHANGED <<toBackend, held, query, skipping, block, work, fromClient, clientGone, up, carried,
                  lastSQL, sent, requests, got>>
  BY DEF DownFrame, sessionVars, upVars, clientVars
<1>2. (BackendIdle => BackendIdle') /\ (Pending => Pending') /\ (GotInv => GotInv')
  BY <1>1 DEF BackendIdle, Pending, Answers, GotInv, RepliesInOrder
<1>3. \A m : Drained(m) => Drained(m)'
  BY <1>1 DEF Drained
<1>4. Half /\ Unanswered' => Half'
  BY <1>1, <1>2 DEF Half, OfBatch, Partial, AskedFrom
<1>5. InHand /\ Unanswered' => InHand'
  BY <1>1, <1>2 DEF InHand, OfBatch, Partial
<1>6. AtBackend /\ Unanswered' => AtBackend'
  BY <1>1, <1>2 DEF AtBackend, OfBatch
<1>7. Running /\ Unanswered' => Running'
  BY <1>1, <1>2 DEF Running
<1> QED
  BY <1>1, <1>2, <1>3, <1>4, <1>5, <1>6, <1>7

LEMMA ReplyFront ==
  ASSUME NEW s \in Seq(Reply), s # <<>>
  PROVE  /\ Len(s) \in Nat /\ Len(s) > 0 /\ s[1] = Head(s) /\ s[1] \in Reply
         /\ DOMAIN s = 1..Len(s) /\ DOMAIN Tail(s) = 1..Len(s) - 1
         /\ Len(Tail(s)) = Len(s) - 1
         /\ \A i \in 1..Len(s) - 1 : Tail(s)[i] = s[i + 1]
         /\ Len(s) = 1 => Tail(s) = <<>>
OBVIOUS

LEMMA ReplyBehind ==
  ASSUME NEW s \in Seq(Reply), NEW r \in Reply
  PROVE  /\ Len(s) \in Nat /\ Len(Append(s, r)) = Len(s) + 1
         /\ Append(s, r)[Len(s) + 1] = r
         /\ \A i \in 1..Len(s) : Append(s, r)[i] = s[i]
         /\ DOMAIN Append(s, r) = 1..Len(s) + 1 /\ DOMAIN s = 1..Len(s)
OBVIOUS

LEMMA ReceiveReplyLock ==
  ASSUME TypeOK, LockInv, ReceiveReply
  PROVE  LockInv'
<1>0. /\ fromBackend \in Seq(Reply) /\ fromBackend # <<>> /\ fromBackend' = Tail(fromBackend)
      /\ down = "receive" /\ down' = "forward" /\ reply' = Head(fromBackend)
      /\ toClient' = toClient /\ DownFrame
  BY DEF TypeOK, BackendTypeOK, ReceiveReply
<1>1. /\ UNCHANGED <<toBackend, held, query, skipping, block, work, fromClient, clientGone, up, carried,
                        lastSQL, sent, requests, got>>
      /\ GotInv'
  BY <1>0, DownKeeps DEF LockInv
<1>2. /\ Len(fromBackend) \in Nat /\ Len(fromBackend) > 0 /\ fromBackend[1] = reply'
      /\ DOMAIN fromBackend = 1..Len(fromBackend) /\ DOMAIN fromBackend' = 1..Len(fromBackend) - 1
      /\ Len(fromBackend') = Len(fromBackend) - 1
      /\ \A i \in 1..Len(fromBackend) - 1 : fromBackend'[i] = fromBackend[i + 1]
      /\ Len(fromBackend) = 1 => fromBackend' = <<>>
  BY <1>0, ReplyFront
<1>3. ~Over /\ ~Fresh /\ ~Refused
  BY <1>0 DEF Over, Fresh, Refused, Quiet
<1>5. ReplyInv'
  <2>0. sent' = sent /\ OfBatch(fromBackend)
    BY <1>1 DEF LockInv, ReplyInv
  <2>1. OfBatch(fromBackend)' /\ reply'.batch = sent
    <3>1. \A i \in 1..Len(fromBackend) : fromBackend[i].batch = sent
      BY <1>2, <2>0 DEF OfBatch
    <3>2. \A i \in 1..Len(fromBackend) - 1 : i + 1 \in 1..Len(fromBackend)
      BY <1>2
    <3>3. \A i \in DOMAIN fromBackend' : fromBackend'[i].batch = sent'
      BY <1>2, <2>0, <3>1, <3>2
    <3> QED
      BY <1>2, <2>0, <3>1, <3>3 DEF OfBatch
  <2> QED
    BY <1>0, <1>1, <2>1 DEF LockInv, ReplyInv, OfBatch, NoReady
<1>7. Unanswered => Unanswered'
  BY <1>0, <1>2 DEF Unanswered, NoReady
<1>8. CASE Answering
  <2>1. \A i \in DOMAIN fromBackend' : fromBackend'[i].type = "Ready" => i = Len(fromBackend')
    BY <1>2, <1>8 DEF Answering
  <2>2. down' = "forward" /\ reply'.type = "Ready" => fromBackend' = <<>>
    BY <1>2, <1>8 DEF Answering
  <2>3. \A i \in DOMAIN toClient' : toClient'[i].type # "Ready"
    BY <1>0, <1>8 DEF Answering
  <2>4. Pending' /\ BackendIdle' /\ toBackend' = <<>>
    BY <1>0, <1>1, <1>8, DownKeeps DEF Answering
  <2>5. Drained(Len(fromClient))' /\ up' \in {"receive", "drainUntilSync", "returned"}
    BY <1>0, <1>1, <1>8, DownKeeps DEF Answering
  <2>6. Answering'
    BY <2>1, <2>2, <2>3, <2>4, <2>5 DEF Answering
  <2> QED
    BY <1>1, <1>5, <2>6 DEF LockInv, Phases
<1>9. CASE Half \/ InHand \/ AtBackend \/ Running
  <2>1. Unanswered
    BY <1>9 DEF Half, InHand, AtBackend, Running
  <2>2. Half' \/ InHand' \/ AtBackend' \/ Running'
    BY <1>0, <1>7, <1>9, <2>1, DownKeeps
  <2> QED
    BY <1>1, <1>5, <2>2 DEF LockInv, Phases
<1> QED
  BY <1>3, <1>8, <1>9 DEF LockInv, Phases

LEMMA ForwardReplyLock ==
  ASSUME TypeOK, LockInv, ForwardReply
  PROVE  LockInv'
<1>0. /\ toClient \in Seq(Reply) /\ reply \in Reply /\ toClient' = Append(toClient, reply)
      /\ down = "forward" /\ down' = "receive"
      /\ UNCHANGED <<fromBackend, reply, logged>> /\ DownFrame
  BY DEF TypeOK, ForwardReply
<1>1. /\ UNCHANGED <<toBackend, held, query, skipping, block, work, fromClient, clientGone, up, carried,
                        lastSQL, sent, requests, got>>
      /\ GotInv'
  BY <1>0, DownKeeps DEF LockInv
<1>2. /\ Len(toClient) \in Nat /\ Len(toClient') = Len(toClient) + 1
      /\ toClient'[Len(toClient) + 1] = reply
      /\ \A i \in 1..Len(toClient) : toClient'[i] = toClient[i]
      /\ DOMAIN toClient' = 1..Len(toClient) + 1 /\ DOMAIN toClient = 1..Len(toClient)
  BY <1>0, ReplyBehind
<1>a. \A i \in DOMAIN toClient' : \/ i \in DOMAIN toClient /\ toClient'[i] = toClient[i]
                                  \/ i = Len(toClient') /\ toClient'[i] = reply
  BY <1>2
<1>3. ~Over /\ ~Fresh /\ ~Refused
  BY <1>0 DEF Over, Fresh, Refused, Quiet
<1>5. ReplyInv'
  <2>1. OfBatch(toClient)'
    BY <1>0, <1>1, <1>a DEF LockInv, ReplyInv, OfBatch
  <2> QED
    BY <1>0, <1>1, <2>1 DEF LockInv, ReplyInv, OfBatch, NoReady
<1>7. Unanswered => Unanswered'
  BY <1>0, <1>a DEF Unanswered, NoReady
<1>8. CASE Answering
  <2>1. \A i \in DOMAIN fromBackend' : fromBackend'[i].type = "Ready" => i = Len(fromBackend')
    BY <1>0, <1>8 DEF Answering
  <2>2. ASSUME NEW i \in DOMAIN toClient', toClient'[i].type = "Ready"
        PROVE  i = Len(toClient') /\ fromBackend' = <<>>
    BY <1>0, <1>a, <1>8, <2>2 DEF Answering
  <2>4. Pending' /\ BackendIdle' /\ toBackend' = <<>>
    BY <1>0, <1>1, <1>8, DownKeeps DEF Answering
  <2>5. Drained(Len(fromClient))' /\ up' \in {"receive", "drainUntilSync", "returned"}
    BY <1>0, <1>1, <1>8, DownKeeps DEF Answering
  <2>6. Answering'
    BY <1>0, <2>1, <2>2, <2>4, <2>5 DEF Answering
  <2> QED
    BY <1>1, <1>5, <2>6 DEF LockInv, Phases
<1>9. CASE Half \/ InHand \/ AtBackend \/ Running
  <2>1. Unanswered
    BY <1>9 DEF Half, InHand, AtBackend, Running
  <2>2. Half' \/ InHand' \/ AtBackend' \/ Running'
    BY <1>0, <1>7, <1>9, <2>1, DownKeeps
  <2> QED
    BY <1>1, <1>5, <2>2 DEF LockInv, Phases
<1> QED
  BY <1>3, <1>8, <1>9 DEF LockInv, Phases

LEMMA DownStopsLock ==
  ASSUME TypeOK, LockInv, DownStops
  PROVE  LockInv'
<1>0. /\ down' = "returned" /\ UNCHANGED <<fromBackend, toClient, reply, logged>> /\ DownFrame
  BY DEF DownStops, DownReturns
<1>1. /\ UNCHANGED <<toBackend, held, query, skipping, block, work, fromClient, clientGone, up, carried,
                        lastSQL, sent, requests, got>>
      /\ GotInv' /\ ReplyInv'
      /\ Unanswered => Unanswered'
      /\ Quiet => Quiet'
      /\ BackendIdle => BackendIdle'
      /\ Pending => Pending'
      /\ Answers' = Answers
      /\ \A m : Drained(m) => Drained(m)'
      /\ \A m : (AskedFrom(m) => AskedFrom(m)') /\ (Ends(m) => Ends(m)') /\ (Opens(m) => Opens(m)')
  <2>1. /\ UNCHANGED <<toBackend, held, query, skipping, block, work, fromClient, clientGone, up, carried,
                        lastSQL, sent, requests, got>>
        /\ GotInv' /\ (BackendIdle => BackendIdle') /\ (Pending => Pending')
        /\ \A m : Drained(m) => Drained(m)'
    BY <1>0, DownKeeps DEF LockInv
  <2>2. ReplyInv'
    BY <1>0, <2>1 DEF LockInv, ReplyInv, OfBatch, NoReady
  <2>3. (Unanswered => Unanswered') /\ (Quiet => Quiet') /\ Answers' = Answers
    BY <1>0, <2>1 DEF Unanswered, NoReady, Quiet, Answers
  <2>4. \A m : (AskedFrom(m) => AskedFrom(m)') /\ (Ends(m) => Ends(m)') /\ (Opens(m) => Opens(m)')
    BY <2>1, SameStream
  <2> QED
    BY <2>1, <2>2, <2>3, <2>4
<1>2. CASE Over
  <2>1. /\ Answers' = requests' /\ BackendIdle' /\ Quiet'
        /\ \A i \in DOMAIN toBackend' : toBackend'[i].type = "Terminate"
        /\ toBackend' # <<>> => clientGone' = TRUE
        /\ up' \in {"receive", "forward", "drainUntilSync", "returned"}
        /\ up' = "forward" => carried'.type = "Terminate" /\ clientGone' = TRUE
    BY <1>1, <1>2 DEF Over
  <2>2. \E m \in 0..Len(fromClient') : Drained(m)' /\ Ends(m)'
    BY <1>1, <1>2 DEF Over
  <2>3. Over'
    BY <2>1, <2>2 DEF Over
  <2> QED
    BY <1>1, <2>3 DEF LockInv, Phases
<1>3. CASE Fresh
  <2>1. \E m \in 0..Len(fromClient') : Drained(m)' /\ Opens(m)'
    BY <1>1, <1>3 DEF Fresh
  <2>2. Fresh'
    BY <1>1, <1>3, <2>1 DEF Fresh
  <2> QED
    BY <1>1, <2>2 DEF LockInv, Phases
<1>4. CASE Refused
  <2>1. Refused'
    BY <1>1, <1>4 DEF Refused
  <2> QED
    BY <1>1, <2>1 DEF LockInv, Phases
<1>5. CASE Half \/ InHand \/ AtBackend \/ Running
  <2>1. Unanswered'
    BY <1>1, <1>5 DEF Half, InHand, AtBackend, Running
  <2>2. Half' \/ InHand' \/ AtBackend' \/ Running'
    BY <1>0, <1>5, <2>1, DownKeeps
  <2> QED
    BY <1>1, <2>2 DEF LockInv, Phases
<1>6. CASE Answering
  <2>1. Answering'
    BY <1>0, <1>1, <1>6 DEF Answering
  <2> QED
    BY <1>1, <2>1 DEF LockInv, Phases
<1> QED
  BY <1>2, <1>3, <1>4, <1>5, <1>6 DEF LockInv, Phases

-----------------------------------------------------------------------------
(* The backend's session.                                                  *)

LEMMA ReplyConcat ==
  ASSUME NEW s \in Seq(Reply), NEW r \in Seq(Reply)
  PROVE  /\ Len(s) \in Nat /\ Len(r) \in Nat /\ Len(s \o r) = Len(s) + Len(r)
         /\ DOMAIN (s \o r) = 1..Len(s) + Len(r) /\ DOMAIN s = 1..Len(s) /\ DOMAIN r = 1..Len(r)
         /\ \A i \in 1..Len(s) : (s \o r)[i] = s[i]
         /\ \A i \in Len(s) + 1..Len(s) + Len(r) : (s \o r)[i] = r[i - Len(s)]
         /\ \A i \in DOMAIN (s \o r) : \/ i \in DOMAIN s /\ (s \o r)[i] = s[i]
                                       \/ i - Len(s) \in DOMAIN r /\ (s \o r)[i] = r[i - Len(s)]
OBVIOUS

LEMMA ElsewhereKeeps ==
  ASSUME Elsewhere
  PROVE  /\ UNCHANGED <<fromClient, toClient, clientGone, up, carried, lastSQL, down, reply, sent, requests,
                        got, logged>>
         /\ Pending => Pending'
         /\ GotInv => GotInv'
         /\ Answers' = Answers
         /\ \A m : Drained(m) => Drained(m)'
         /\ \A m : (AskedFrom(m) => AskedFrom(m)') /\ (Ends(m) => Ends(m)') /\ (Opens(m) => Opens(m)')
         /\ Unanswered /\ NoReady(fromBackend)' => Unanswered'
<1>1. UNCHANGED <<fromClient, toClient, clientGone, up, carried, lastSQL, down, reply, sent, requests,
                  got, logged>>
  BY DEF Elsewhere, streamVars, upVars, downVars, clientVars, historyVars
<1>2. /\ \A m : Drained(m) => Drained(m)'
      /\ \A m : (AskedFrom(m) => AskedFrom(m)') /\ (Ends(m) => Ends(m)') /\ (Opens(m) => Opens(m)')
  BY <1>1, SameStream
<1> QED
  BY <1>1, <1>2 DEF Pending, GotInv, RepliesInOrder, Answers, Unanswered, NoReady

\* A session that ends leaves everything else as it is.
LEMMA EndSessionLock ==
  ASSUME LockInv, EndSession, Elsewhere
  PROVE  LockInv'
<1>1. /\ UNCHANGED <<toBackend, fromBackend, block, query, skipping, held, work>>
      /\ UNCHANGED <<fromClient, toClient, clientGone, up, carried, lastSQL, down, reply, sent, requests,
                     got, logged>>
  BY ElsewhereKeeps DEF EndSession
<1>2. /\ GotInv' /\ ReplyInv'
      /\ Unanswered => Unanswered'
      /\ Quiet => Quiet'
      /\ BackendIdle => BackendIdle'
      /\ Pending => Pending'
      /\ Answers' = Answers
      /\ \A m : Drained(m) => Drained(m)'
      /\ \A m : (AskedFrom(m) => AskedFrom(m)') /\ (Ends(m) => Ends(m)') /\ (Opens(m) => Opens(m)')
  <2>1. /\ GotInv' /\ (Pending => Pending') /\ Answers' = Answers
        /\ \A m : Drained(m) => Drained(m)'
        /\ \A m : (AskedFrom(m) => AskedFrom(m)') /\ (Ends(m) => Ends(m)') /\ (Opens(m) => Opens(m)')
    BY ElsewhereKeeps DEF LockInv
  <2>2. ReplyInv' /\ (Unanswered => Unanswered') /\ (Quiet => Quiet') /\ (BackendIdle => BackendIdle')
    BY <1>1 DEF LockInv, ReplyInv, OfBatch, NoReady, Unanswered, Quiet, BackendIdle
  <2> QED
    BY <2>1, <2>2
<1>3. Over => Over'
  <2> SUFFICES ASSUME Over PROVE Over'
    OBVIOUS
  <2>1. \E m \in 0..Len(fromClient') : Drained(m)' /\ Ends(m)'
    BY <1>1, <1>2 DEF Over
  <2>2. /\ Answers' = requests' /\ BackendIdle' /\ Quiet'
        /\ \A i \in DOMAIN toBackend' : toBackend'[i].type = "Terminate"
        /\ toBackend' # <<>> => clientGone' = TRUE
        /\ up' \in {"receive", "forward", "drainUntilSync", "returned"}
        /\ up' = "forward" => carried'.type = "Terminate" /\ clientGone' = TRUE
    BY <1>1, <1>2 DEF Over
  <2> QED
    BY <2>1, <2>2 DEF Over
<1>4. Fresh => Fresh'
  <2> SUFFICES ASSUME Fresh PROVE Fresh'
    OBVIOUS
  <2>1. \E m \in 0..Len(fromClient') : Drained(m)' /\ Opens(m)'
    BY <1>1, <1>2 DEF Fresh
  <2> QED
    BY <1>1, <1>2, <2>1 DEF Fresh
<1>5. Refused => Refused'
  BY <1>1, <1>2 DEF Refused
<1>6. Half => Half'
  BY <1>1, <1>2 DEF Half, OfBatch, Partial
<1>7. InHand => InHand'
  BY <1>1, <1>2 DEF InHand, OfBatch, Partial
<1>8. AtBackend => AtBackend'
  BY <1>1, <1>2 DEF AtBackend, OfBatch
<1>9. Running => Running'
  BY <1>1, <1>2 DEF Running
<1>10. Answering => Answering'
  BY <1>1, <1>2 DEF Answering
<1> QED
  BY <1>2, <1>3, <1>4, <1>5, <1>6, <1>7, <1>8, <1>9, <1>10 DEF LockInv, Phases

\* The session takes a message of a batch that is not its end.
LEMMA BatchStep ==
  ASSUME TypeOK, ReplyInv, OfBatch(toBackend), sent' = sent,
         TakeParse \/ TakeBind \/ TakeExecute \/ TakeFlush
  PROVE  /\ toBackend # <<>> /\ toBackend' = Tail(toBackend) /\ query' = query
         /\ OfBatch(fromBackend)' /\ OfBatch(held)' /\ NoReady(held)'
         /\ NoReady(fromBackend) => NoReady(fromBackend)'
         /\ toBackend[1].type # "Sync"
<1> DEFINE b == Head(toBackend).batch
<1>0. toBackend \in Seq(Message) /\ fromBackend \in Seq(Reply) /\ held \in Seq(Reply) /\ sent \in Nat
  BY DEF TypeOK, BackendTypeOK
<1>1. toBackend # <<>> /\ toBackend' = Tail(toBackend) /\ query' = query /\ Head(toBackend).type # "Sync"
  BY DEF TakeParse, TakeBind, TakeExecute, TakeFlush, Take
<1>2. b = sent /\ toBackend[1].type # "Sync"
  <2>1. 1 \in DOMAIN toBackend /\ toBackend[1] = Head(toBackend)
    BY <1>0, <1>1
  <2> QED
    BY <1>1, <2>1 DEF OfBatch
<1>3. CASE TakeFlush
  <2>1. fromBackend' = fromBackend \o held /\ held' = <<>>
    BY <1>3 DEF TakeFlush
  <2>2. \A i \in DOMAIN fromBackend' : \/ i \in DOMAIN fromBackend /\ fromBackend'[i] = fromBackend[i]
                                       \/ i - Len(fromBackend) \in DOMAIN held
                                          /\ fromBackend'[i] = held[i - Len(fromBackend)]
    BY <1>0, <2>1, ReplyConcat
  <2>3. OfBatch(fromBackend)' /\ (NoReady(fromBackend) => NoReady(fromBackend)')
    BY <2>2 DEF ReplyInv, OfBatch, NoReady
  <2> QED
    BY <1>1, <1>2, <2>1, <2>3 DEF OfBatch, NoReady
<1>4. CASE TakeParse \/ TakeBind \/ TakeExecute
  <2>1. /\ fromBackend' = fromBackend
        /\ \/ held' = held
           \/ held' = Append(held, Complete(b))
           \/ held' = Append(held, Error(b))
    BY <1>4 DEF TakeParse, TakeBind, TakeExecute, Skip, Refuse, Answer
  <2>2. /\ Complete(b) \in Reply /\ Complete(b).batch = sent /\ Complete(b).type # "Ready"
        /\ Error(b) \in Reply /\ Error(b).batch = sent /\ Error(b).type # "Ready"
    BY <1>0, <1>2 DEF Complete, Error, Reply
  <2>3. ASSUME NEW r \in Reply, held' = Append(held, r), r.batch = sent, r.type # "Ready"
        PROVE  OfBatch(held)' /\ NoReady(held)'
    <3>1. \A i \in DOMAIN held' : (i \in DOMAIN held /\ held'[i] = held[i]) \/ held'[i] = r
      BY <1>0, <2>3, ReplyBehind
    <3> QED
      BY <2>3, <3>1 DEF ReplyInv, OfBatch, NoReady
  <2>4. OfBatch(held)' /\ NoReady(held)'
    <3>1. CASE held' = held
      BY <3>1 DEF ReplyInv, OfBatch, NoReady
    <3> QED
      BY <2>1, <2>2, <2>3, <3>1
  <2> QED
    BY <1>1, <1>2, <2>1, <2>4 DEF ReplyInv, OfBatch, NoReady
<1> QED
  BY <1>3, <1>4

LEMMA MessageTail ==
  ASSUME NEW s \in Seq(Message), s # <<>>
  PROVE  /\ Len(s) \in Nat /\ Len(s) > 0 /\ s[1] = Head(s)
         /\ DOMAIN s = 1..Len(s) /\ DOMAIN Tail(s) = 1..Len(s) - 1
         /\ \A i \in 1..Len(s) - 1 : Tail(s)[i] = s[i + 1]
         /\ Len(Tail(s)) = Len(s) - 1
         /\ Len(s) > 1 => Tail(s) # <<>>
<1>1. /\ Len(s) \in Nat /\ Len(s) > 0 /\ s[1] = Head(s)
      /\ DOMAIN s = 1..Len(s) /\ DOMAIN Tail(s) = 1..Len(s) - 1
      /\ \A i \in 1..Len(s) - 1 : Tail(s)[i] = s[i + 1]
      /\ Len(Tail(s)) = Len(s) - 1
  OBVIOUS
<1>2. Len(s) > 1 => Len(Tail(s)) # 0
  BY <1>1
<1>3. PICK n : n = Tail(s)
  OBVIOUS
<1>4. n = <<>> => Len(n) = 0
  OBVIOUS
<1> QED
  BY <1>1, <1>2, <1>3, <1>4

LEMMA TakeBatchLock ==
  ASSUME TypeOK, LockInv, TakeParse \/ TakeBind \/ TakeExecute \/ TakeFlush, Elsewhere
  PROVE  LockInv'
<1>0. toBackend \in Seq(Message) /\ toBackend # <<>> /\ query = NoQuery
      /\ Head(toBackend).type \in {"Parse", "Bind", "Execute", "Flush"}
  BY DEF TypeOK, BackendTypeOK, TakeParse, TakeBind, TakeExecute, TakeFlush, Take
<1>1. /\ Len(toBackend) \in Nat /\ Len(toBackend) > 0 /\ toBackend[1] = Head(toBackend)
      /\ DOMAIN toBackend = 1..Len(toBackend)
      /\ DOMAIN Tail(toBackend) = 1..Len(toBackend) - 1
      /\ \A i \in 1..Len(toBackend) - 1 : Tail(toBackend)[i] = toBackend[i + 1]
      /\ Len(Tail(toBackend)) = Len(toBackend) - 1
      /\ Len(toBackend) > 1 => Tail(toBackend) # <<>>
  BY <1>0, MessageTail
<1>2. ~Over /\ ~Fresh /\ ~Refused /\ ~Running /\ ~Answering
  BY <1>0, <1>1 DEF Over, Fresh, Refused, Running, Answering
<1>3. OfBatch(toBackend) /\ Unanswered /\ Pending
  BY <1>2 DEF LockInv, Phases, Half, InHand, AtBackend
<1>4. /\ UNCHANGED <<fromClient, toClient, clientGone, up, carried, lastSQL, down, reply, sent, requests,
                     got, logged>>
      /\ Pending' /\ GotInv' /\ Answers' = Answers
      /\ AskedFrom(1) => AskedFrom(1)'
  BY <1>3, ElsewhereKeeps DEF LockInv
<1>5. /\ toBackend' = Tail(toBackend) /\ query' = query
      /\ OfBatch(fromBackend)' /\ OfBatch(held)' /\ NoReady(held)'
      /\ NoReady(fromBackend)'
  BY <1>3, <1>4, BatchStep DEF LockInv, Unanswered
<1>6. Unanswered'
  BY <1>3, <1>5, ElsewhereKeeps
<1>7. ReplyInv'
  BY <1>4, <1>5 DEF LockInv, ReplyInv, OfBatch
<1>8. OfBatch(toBackend)' /\ (Partial(toBackend) => Partial(toBackend)')
  BY <1>1, <1>3, <1>4, <1>5 DEF OfBatch, Partial
<1>9. CASE Half
  <2>1. Half'
    BY <1>0, <1>3, <1>4, <1>5, <1>6, <1>8, <1>9 DEF Half
  <2> QED
    BY <1>4, <1>7, <2>1 DEF LockInv, Phases
<1>10. CASE InHand
  <2>1. InHand'
    BY <1>0, <1>3, <1>4, <1>5, <1>6, <1>8, <1>10 DEF InHand
  <2> QED
    BY <1>4, <1>7, <2>1 DEF LockInv, Phases
<1>11. CASE AtBackend
  <2>1. \A i \in DOMAIN toBackend : /\ toBackend[i].type \in ExtendedTypes
                                    /\ toBackend[i].type = "Sync" <=> i = Len(toBackend)
    BY <1>0, <1>1, <1>11 DEF AtBackend
  <2>2. Len(toBackend) > 1
    BY <1>0, <1>1, <2>1
  <2>3. toBackend' # <<>> /\ \A i \in DOMAIN toBackend' : /\ toBackend'[i].type \in ExtendedTypes
                                                          /\ toBackend'[i].type = "Sync" <=> i = Len(toBackend')
    BY <1>1, <1>5, <2>1, <2>2
  <2>4. AtBackend'
    BY <1>0, <1>3, <1>4, <1>5, <1>6, <1>8, <1>11, <2>3 DEF AtBackend
  <2> QED
    BY <1>4, <1>7, <2>4 DEF LockInv, Phases
<1> QED
  BY <1>2, <1>9, <1>10, <1>11 DEF LockInv, Phases

LEMMA TakeSyncLock ==
  ASSUME TypeOK, LockInv, TakeSync, Elsewhere
  PROVE  LockInv'
<1> DEFINE ready == Ready(Head(toBackend).batch, block)
<1>0. /\ toBackend \in Seq(Message) /\ toBackend # <<>> /\ query = NoQuery /\ query' = query
      /\ Head(toBackend).type = "Sync" /\ toBackend' = Tail(toBackend)
      /\ fromBackend' = fromBackend \o Append(held, ready)
      /\ held' = <<>> /\ skipping' = FALSE /\ block' = block
      /\ work' = IF block = "I" THEN NoWork ELSE work
      /\ fromBackend \in Seq(Reply) /\ held \in Seq(Reply) /\ sent \in Nat /\ block \in {"I", "T", "E"}
  BY DEF TypeOK, BackendTypeOK, TakeSync, Take
<1>1. /\ Len(toBackend) \in Nat /\ Len(toBackend) > 0 /\ toBackend[1] = Head(toBackend)
      /\ DOMAIN toBackend = 1..Len(toBackend) /\ 1 \in DOMAIN toBackend
      /\ Len(toBackend) = 1 => Tail(toBackend) = <<>>
  BY <1>0, Front, MessageTail
<1>2. AtBackend
  <2>1. ~Over /\ ~Fresh /\ ~Refused /\ ~Running /\ ~Answering
    BY <1>0, <1>1 DEF Over, Fresh, Refused, Running, Answering
  <2>2. ~Half /\ ~InHand
    BY <1>0, <1>1 DEF Half, InHand, Partial
  <2> QED
    BY <2>1, <2>2 DEF LockInv, Phases
<1>3. Len(toBackend) = 1 /\ toBackend' = <<>> /\ Head(toBackend).batch = sent
  BY <1>0, <1>1, <1>2 DEF AtBackend, OfBatch
<1>4. /\ UNCHANGED <<fromClient, toClient, clientGone, up, carried, lastSQL, down, reply, sent, requests,
                     got, logged>>
      /\ Pending' /\ GotInv'
  BY <1>2, ElsewhereKeeps DEF LockInv, AtBackend
<1>5. /\ ready \in Reply /\ ready.batch = sent /\ ready.type = "Ready"
  BY <1>0, <1>3 DEF Ready, Reply
<1>6. /\ Append(held, ready) \in Seq(Reply) /\ Len(Append(held, ready)) = Len(held) + 1
      /\ Append(held, ready)[Len(held) + 1] = ready
      /\ \A i \in 1..Len(held) : Append(held, ready)[i] = held[i]
      /\ DOMAIN Append(held, ready) = 1..Len(held) + 1 /\ DOMAIN held = 1..Len(held) /\ Len(held) \in Nat
  <2>1. Append(held, ready) \in Seq(Reply)
    BY <1>0, <1>5
  <2> QED
    BY <1>0, <1>5, <2>1, ReplyBehind
<1>7. /\ Len(fromBackend) \in Nat /\ DOMAIN fromBackend = 1..Len(fromBackend)
      /\ Len(fromBackend') = Len(fromBackend) + Len(held) + 1
      /\ DOMAIN fromBackend' = 1..Len(fromBackend) + Len(held) + 1
      /\ \A i \in 1..Len(fromBackend) : fromBackend'[i] = fromBackend[i]
      /\ \A i \in Len(fromBackend) + 1..Len(fromBackend) + Len(held) + 1 :
            fromBackend'[i] = Append(held, ready)[i - Len(fromBackend)]
  <2>1. PICK h \in Seq(Reply) : h = Append(held, ready)
    BY <1>6
  <2> QED
    BY <1>0, <1>6, <2>1, ReplyConcat
<1>8. \A i \in DOMAIN fromBackend' :
        \/ i \in DOMAIN fromBackend /\ fromBackend'[i] = fromBackend[i]
        \/ i - Len(fromBackend) \in DOMAIN held /\ fromBackend'[i] = held[i - Len(fromBackend)]
        \/ i = Len(fromBackend') /\ fromBackend'[i] = ready
  BY <1>6, <1>7
<1>9. ReplyInv'
  <2>1. OfBatch(fromBackend)'
    BY <1>4, <1>5, <1>8 DEF LockInv, ReplyInv, OfBatch
  <2> QED
    BY <1>0, <1>4, <2>1 DEF LockInv, ReplyInv, OfBatch, NoReady
<1>10. \A i \in DOMAIN fromBackend' : fromBackend'[i].type = "Ready" => i = Len(fromBackend')
  BY <1>2, <1>8 DEF LockInv, ReplyInv, AtBackend, Unanswered, NoReady
<1>11. Answering'
  <2>1. BackendIdle' /\ up' \in {"receive", "returned"}
    BY <1>0, <1>2, <1>4 DEF BackendIdle, AtBackend
  <2>2. Drained(Len(fromClient))'
    BY <1>2, <1>4 DEF AtBackend, Drained
  <2>3. /\ down' = "forward" => reply'.type # "Ready"
        /\ \A i \in DOMAIN toClient' : toClient'[i].type # "Ready"
    BY <1>2, <1>4 DEF AtBackend, Unanswered, NoReady
  <2> QED
    BY <1>3, <1>4, <1>10, <2>1, <2>2, <2>3 DEF Answering
<1> QED
  BY <1>4, <1>9, <1>11 DEF LockInv, Phases

LEMMA TakeQueryLock ==
  ASSUME TypeOK, LockInv, TakeQuery, Elsewhere
  PROVE  LockInv'
<1>0. /\ toBackend \in Seq(Message) /\ toBackend # <<>> /\ query = NoQuery
      /\ Head(toBackend).type = "Query" /\ toBackend' = Tail(toBackend)
      /\ query' = IF skipping THEN NoQuery
                  ELSE [sql |-> Head(toBackend).sql, batch |-> Head(toBackend).batch]
      /\ fromBackend' = IF skipping THEN fromBackend ELSE fromBackend \o held
      /\ held' = IF skipping THEN held ELSE <<>>
      /\ UNCHANGED <<block, skipping, work>>
      /\ fromBackend \in Seq(Reply) /\ sent \in Nat
  BY DEF TypeOK, BackendTypeOK, TakeQuery, Take
<1>1. /\ Len(toBackend) \in Nat /\ Len(toBackend) > 0 /\ toBackend[1] = Head(toBackend)
      /\ DOMAIN toBackend = 1..Len(toBackend) /\ 1 \in DOMAIN toBackend
      /\ Len(toBackend) = 1 => Tail(toBackend) = <<>>
  BY <1>0, Front, MessageTail
<1>2. AtBackend
  <2>1. ~Over /\ ~Fresh /\ ~Refused /\ ~Running /\ ~Answering
    BY <1>0, <1>1 DEF Over, Fresh, Refused, Running, Answering
  <2>2. ~Half /\ ~InHand
    BY <1>0, <1>1 DEF Half, InHand, Partial
  <2> QED
    BY <2>1, <2>2 DEF LockInv, Phases
<1>3. /\ Len(toBackend) = 1 /\ toBackend' = <<>> /\ Head(toBackend).batch = sent
      /\ held = <<>> /\ skipping = FALSE /\ sent > 0
  BY <1>0, <1>1, <1>2 DEF AtBackend, OfBatch, ExtendedTypes, Pending
<1>4. /\ UNCHANGED <<fromClient, toClient, clientGone, up, carried, lastSQL, down, reply, sent, requests,
                     got, logged>>
      /\ Pending' /\ GotInv'
  BY <1>2, ElsewhereKeeps DEF LockInv, AtBackend
<1>5. fromBackend' = fromBackend /\ held' = <<>> /\ skipping' = FALSE
  BY <1>0, <1>3
<1>6. query'.batch = sent /\ query' # NoQuery
  <2>1. query' = [sql |-> Head(toBackend).sql, batch |-> sent]
    BY <1>0, <1>3
  <2> QED
    BY <1>3, <2>1 DEF NoQuery
<1>7. ReplyInv' /\ Unanswered'
  BY <1>2, <1>4, <1>5 DEF LockInv, ReplyInv, OfBatch, NoReady, AtBackend, Unanswered
<1>8. Running'
  BY <1>2, <1>3, <1>4, <1>5, <1>6, <1>7 DEF AtBackend, Running
<1> QED
  BY <1>4, <1>7, <1>8 DEF LockInv, Phases

LEMMA RunStatementLock ==
  ASSUME TypeOK, LockInv, RunStatement, Elsewhere
  PROVE  LockInv'
<1>0. /\ query \in [sql : Seq(Statements), batch : Nat] /\ query # NoQuery /\ query.sql # <<>>
      /\ \/ /\ query' = [query EXCEPT !.sql = Tail(query.sql)]
            /\ fromBackend' = Append(fromBackend, Complete(query.batch))
         \/ /\ query' = [query EXCEPT !.sql = <<>>]
            /\ fromBackend' = Append(fromBackend, Error(query.batch))
      /\ UNCHANGED <<toBackend, skipping, held>>
      /\ fromBackend \in Seq(Reply) /\ sent \in Nat
  BY DEF TypeOK, BackendTypeOK, RunStatement
<1>2. Running
  BY <1>0 DEF LockInv, Phases, Over, Fresh, Refused, Half, InHand, AtBackend, Answering, BackendIdle
<1>3. query'.batch = sent /\ query' # NoQuery /\ query.batch = sent
  <2>1. query'.batch = query.batch
    BY <1>0
  <2> QED
    BY <1>0, <1>2, <2>1 DEF Running, Pending, NoQuery
<1>4. /\ UNCHANGED <<fromClient, toClient, clientGone, up, carried, lastSQL, down, reply, sent, requests,
                     got, logged>>
      /\ Pending' /\ GotInv'
  BY <1>2, ElsewhereKeeps DEF LockInv, Running
<1>5. PICK r \in Reply : r.batch = sent /\ r.type # "Ready" /\ fromBackend' = Append(fromBackend, r)
  BY <1>0, <1>3 DEF Complete, Error, Reply
<1>6. \A i \in DOMAIN fromBackend' :
        (i \in DOMAIN fromBackend /\ fromBackend'[i] = fromBackend[i]) \/ fromBackend'[i] = r
  BY <1>0, <1>5, ReplyBehind
<1>7. ReplyInv' /\ NoReady(fromBackend)'
  BY <1>0, <1>2, <1>4, <1>5, <1>6 DEF LockInv, ReplyInv, OfBatch, NoReady, Running, Unanswered
<1>8. Unanswered'
  BY <1>2, <1>7, ElsewhereKeeps DEF Running
<1>9. Running'
  BY <1>0, <1>2, <1>3, <1>4, <1>8 DEF Running
<1> QED
  BY <1>4, <1>7, <1>9 DEF LockInv, Phases

LEMMA EndQueryLock ==
  ASSUME TypeOK, LockInv, EndQuery, Elsewhere
  PROVE  LockInv'
<1> DEFINE ready == Ready(query.batch, block)
<1>0. /\ query # NoQuery /\ query' = NoQuery
      /\ fromBackend' = Append(fromBackend, ready)
      /\ work' = IF block = "I" THEN NoWork ELSE work
      /\ UNCHANGED <<toBackend, block, skipping, held>>
      /\ fromBackend \in Seq(Reply) /\ sent \in Nat /\ block \in {"I", "T", "E"}
  BY DEF TypeOK, BackendTypeOK, EndQuery
<1>2. Running
  BY <1>0 DEF LockInv, Phases, Over, Fresh, Refused, Half, InHand, AtBackend, Answering, BackendIdle
<1>4. /\ UNCHANGED <<fromClient, toClient, clientGone, up, carried, lastSQL, down, reply, sent, requests,
                     got, logged>>
      /\ Pending' /\ GotInv'
  BY <1>2, ElsewhereKeeps DEF LockInv, Running
<1>5. ready \in Reply /\ ready.batch = sent
  BY <1>0, <1>2 DEF Ready, Reply, Running
<1>6. /\ \A i \in DOMAIN fromBackend' :
            \/ i \in DOMAIN fromBackend /\ fromBackend'[i] = fromBackend[i]
            \/ i = Len(fromBackend') /\ fromBackend'[i] = ready
  BY <1>0, <1>5, ReplyBehind
<1>7. ReplyInv'
  <2>1. OfBatch(fromBackend)'
    BY <1>4, <1>5, <1>6 DEF LockInv, ReplyInv, OfBatch
  <2> QED
    BY <1>0, <1>4, <2>1 DEF LockInv, ReplyInv, OfBatch, NoReady
<1>8. Answering'
  <2>1. /\ BackendIdle' /\ up' \in {"receive", "returned"}
        /\ toBackend' = <<>>
    BY <1>0, <1>2, <1>4 DEF BackendIdle, Running
  <2>2. Drained(Len(fromClient))'
    BY <1>2, <1>4 DEF Running, Drained
  <2>3. /\ down' = "forward" => reply'.type # "Ready"
        /\ \A i \in DOMAIN toClient' : toClient'[i].type # "Ready"
        /\ \A i \in DOMAIN fromBackend' : fromBackend'[i].type = "Ready" => i = Len(fromBackend')
    BY <1>2, <1>4, <1>6 DEF Running, Unanswered, NoReady
  <2> QED
    BY <1>4, <2>1, <2>2, <2>3 DEF Answering
<1> QED
  BY <1>4, <1>7, <1>8 DEF LockInv, Phases

LEMMA ServeLock ==
  ASSUME TypeOK, LockInv, Serve \/ BackendDies
  PROVE  LockInv'
<1>1. CASE TakeTerminate /\ Elsewhere
  BY <1>1, EndSessionLock DEF TakeTerminate
<1>2. CASE BackendDies
  BY <1>2, EndSessionLock DEF BackendDies
<1> QED
  BY <1>1, <1>2, TakeBatchLock, TakeSyncLock, TakeQueryLock, RunStatementLock, EndQueryLock DEF Serve, ServeNext

-----------------------------------------------------------------------------
(* The client.                                                             *)

LEMMA ClientKeeps ==
  ASSUME ClientFrame
  PROVE  UNCHANGED <<toBackend, fromBackend, held, query, skipping, block, work, up, carried, lastSQL, down,
                     reply, logged>>
BY DEF ClientFrame, backendVars, sessionVars, upVars, downVars, historyVars

LEMMA HangUpLock ==
  ASSUME LockInv, ClientHangsUp
  PROVE  LockInv'
<1>1. /\ UNCHANGED <<toBackend, fromBackend, held, query, skipping, block, work, up, carried, lastSQL, down,
                     reply, logged, fromClient, toClient, sent, requests, got>>
      /\ clientGone' = TRUE
  BY ClientKeeps DEF ClientHangsUp, clientVars
<1>2. /\ GotInv' /\ ReplyInv'
      /\ Unanswered => Unanswered'
      /\ Quiet => Quiet'
      /\ BackendIdle => BackendIdle'
      /\ Pending => Pending'
      /\ Answers' = Answers
      /\ \A m : Drained(m) => Drained(m)'
      /\ \A m : (AskedFrom(m) => AskedFrom(m)') /\ (Ends(m) => Ends(m)') /\ (Opens(m) => Opens(m)')
  <2>1. GotInv' /\ ReplyInv' /\ Answers' = Answers
    BY <1>1 DEF LockInv, GotInv, RepliesInOrder, ReplyInv, OfBatch, NoReady, Answers
  <2>2. /\ Unanswered => Unanswered'
        /\ Quiet => Quiet'
        /\ BackendIdle => BackendIdle'
        /\ Pending => Pending'
    BY <1>1 DEF Unanswered, NoReady, Quiet, BackendIdle, Pending, Answers
  <2>3. /\ \A m : Drained(m) => Drained(m)'
        /\ \A m : (AskedFrom(m) => AskedFrom(m)') /\ (Ends(m) => Ends(m)') /\ (Opens(m) => Opens(m)')
    BY <1>1 DEF Drained, AskedFrom, Ends, Opens
  <2> QED
    BY <2>1, <2>2, <2>3
<1>3. Over => Over'
  <2> SUFFICES ASSUME Over PROVE Over'
    OBVIOUS
  <2>1. \E m \in 0..Len(fromClient') : Drained(m)' /\ Ends(m)'
    BY <1>1, <1>2 DEF Over
  <2>2. /\ Answers' = requests' /\ BackendIdle' /\ Quiet'
        /\ \A i \in DOMAIN toBackend' : toBackend'[i].type = "Terminate"
        /\ toBackend' # <<>> => clientGone' = TRUE
        /\ up' \in {"receive", "forward", "drainUntilSync", "returned"}
        /\ up' = "forward" => carried'.type = "Terminate" /\ clientGone' = TRUE
    BY <1>1, <1>2 DEF Over
  <2> QED
    BY <2>1, <2>2 DEF Over
<1>4. Fresh => Fresh'
  <2> SUFFICES ASSUME Fresh PROVE Fresh'
    OBVIOUS
  <2>1. \E m \in 0..Len(fromClient') : Drained(m)' /\ Opens(m)'
    BY <1>1, <1>2 DEF Fresh
  <2> QED
    BY <1>1, <1>2, <2>1 DEF Fresh
<1>5. Refused => Refused'
  BY <1>1, <1>2 DEF Refused
<1>6. Half => Half'
  BY <1>1, <1>2 DEF Half, OfBatch, Partial
<1>7. InHand => InHand'
  BY <1>1, <1>2 DEF InHand, OfBatch, Partial
<1>8. AtBackend => AtBackend'
  BY <1>1, <1>2 DEF AtBackend, OfBatch
<1>9. Running => Running'
  BY <1>1, <1>2 DEF Running
<1>10. Answering => Answering'
  BY <1>1, <1>2 DEF Answering
<1> QED
  BY <1>2, <1>3, <1>4, <1>5, <1>6, <1>7, <1>8, <1>9, <1>10 DEF LockInv, Phases

\* One more reply is read: Answers counts the ReadyForQuerys.
LEMMA AnswersCount ==
  ASSUME got \in Seq(Reply), NEW r \in Reply, got' = Append(got, r)
  PROVE  Answers' = IF r.type = "Ready" THEN Answers + 1 ELSE Answers
<1> DEFINE Readies(s) == {i \in DOMAIN s : s[i].type = "Ready"}
           n == Len(got) + 1
<1>1. /\ Len(got) \in Nat /\ DOMAIN got = 1..Len(got) /\ DOMAIN got' = 1..n
      /\ got'[n] = r /\ \A i \in 1..Len(got) : got'[i] = got[i]
  BY ReplyBehind
<1>2. Readies(got') = IF r.type = "Ready" THEN Readies(got) \cup {n} ELSE Readies(got)
  BY <1>1
<1>3. n \notin Readies(got)
  BY <1>1
<1>4. IsFiniteSet(Readies(got))
  <2>1. IsFiniteSet(1..Len(got))
    BY <1>1, FS_Interval
  <2>2. Readies(got) \subseteq 1..Len(got)
    BY <1>1
  <2> QED
    BY <2>1, <2>2, FS_Subset
<1>5. Answers = Cardinality(Readies(got)) /\ Answers' = Cardinality(Readies(got'))
  BY DEF Answers
<1> QED
  <2> HIDE DEF Readies
  <2> QED
    BY <1>2, <1>3, <1>4, <1>5, FS_AddElement

LEMMA ClientReadsLock ==
  ASSUME TypeOK, LockInv, ClientReads
  PROVE  LockInv'
<1> DEFINE r == Head(toClient)
<1>0. /\ toClient \in Seq(Reply) /\ got \in Seq(Reply) /\ sent \in Nat /\ requests \in Nat
      /\ toClient # <<>> /\ got' = Append(got, r) /\ toClient' = Tail(toClient)
      /\ UNCHANGED <<toBackend, fromBackend, held, query, skipping, block, work, up, carried, lastSQL, down,
                     reply, logged, fromClient, clientGone, sent, requests>>
  BY ClientKeeps DEF TypeOK, ClientReads
<1>1. /\ Len(toClient) \in Nat /\ Len(toClient) > 0 /\ toClient[1] = r /\ r \in Reply
      /\ DOMAIN toClient = 1..Len(toClient) /\ DOMAIN toClient' = 1..Len(toClient) - 1
      /\ Len(toClient') = Len(toClient) - 1
      /\ \A i \in 1..Len(toClient) - 1 : toClient'[i] = toClient[i + 1]
      /\ Len(toClient) = 1 => toClient' = <<>>
  BY <1>0, ReplyFront
<1>2. /\ Len(got) \in Nat /\ Len(got') = Len(got) + 1 /\ DOMAIN got' = 1..Len(got) + 1
      /\ got'[Len(got) + 1] = r /\ \A i \in 1..Len(got) : got'[i] = got[i] /\ got[i].batch \in Nat
      /\ DOMAIN got = 1..Len(got)
  <2>1. \A i \in 1..Len(got) : got[i] \in Reply
    BY <1>0
  <2> QED
    BY <1>0, <1>1, <2>1, ReplyBehind DEF Reply
<1>3. r.batch = sent
  BY <1>1 DEF LockInv, ReplyInv, OfBatch
<1>4. Answers' = IF r.type = "Ready" THEN Answers + 1 ELSE Answers
  BY <1>0, <1>1, AnswersCount
<1>5. GotInv'
  <2>1. \A i \in DOMAIN got' : got'[i].batch <= sent'
    <3>1. \A i \in 1..Len(got) : got'[i].batch <= sent'
      BY <1>0, <1>2 DEF LockInv, GotInv
    <3>2. got'[Len(got) + 1].batch <= sent'
      BY <1>0, <1>2, <1>3
    <3> QED
      BY <1>2, <3>1, <3>2
  <2>2. \A i \in 1..Len(got') - 1 : got'[i].batch <= got'[i + 1].batch
    <3>1. \A i \in 1..Len(got) - 1 : got'[i].batch <= got'[i + 1].batch
      BY <1>2 DEF LockInv, GotInv, RepliesInOrder
    <3>2. Len(got) > 0 => got'[Len(got)].batch <= got'[Len(got) + 1].batch
      <4>1. got'[Len(got) + 1].batch = sent
        BY <1>2, <1>3
      <4>2. Len(got) > 0 => got'[Len(got)].batch <= sent
        <5> SUFFICES ASSUME Len(got) > 0 PROVE got'[Len(got)].batch <= sent
          OBVIOUS
        <5>1. Len(got) \in DOMAIN got'
          BY <1>2
        <5>2. got'[Len(got)].batch <= sent'
          BY <2>1, <5>1
        <5> QED
          BY <1>0, <5>2
      <4> QED
        BY <4>1, <4>2
    <3> QED
      BY <1>2, <3>1, <3>2
  <2> QED
    BY <2>1, <2>2 DEF GotInv, RepliesInOrder
<1>6. ReplyInv'
  <2>1. OfBatch(toClient)'
    BY <1>0, <1>1 DEF LockInv, ReplyInv, OfBatch
  <2> QED
    BY <1>0, <2>1 DEF LockInv, ReplyInv, OfBatch, NoReady
<1>7. BackendIdle => BackendIdle'
  BY <1>0 DEF BackendIdle
<1>8. \A m : /\ Drained(m) => Drained(m)'
             /\ AskedFrom(m) => AskedFrom(m)'
  BY <1>0 DEF Drained, AskedFrom, Ends, Opens
<1>9. ~Over /\ ~Fresh /\ ~Refused
  BY <1>0 DEF Over, Fresh, Refused, Quiet
<1>10. CASE Half \/ InHand \/ AtBackend \/ Running
  <2>1. Unanswered /\ Pending
    BY <1>10 DEF Half, InHand, AtBackend, Running
  <2>2. Unanswered' /\ Pending'
    <3>1. r.type # "Ready" /\ NoReady(toClient)'
      BY <1>1, <2>1 DEF Unanswered, NoReady
    <3> QED
      BY <1>0, <1>4, <2>1, <3>1 DEF Unanswered, NoReady, Pending
  <2>3. Half => Half'
    BY <1>0, <1>8, <2>2 DEF Half, OfBatch, Partial
  <2>4. InHand => InHand'
    BY <1>0, <2>2 DEF InHand, OfBatch, Partial
  <2>5. AtBackend => AtBackend'
    BY <1>0, <2>2 DEF AtBackend, OfBatch
  <2>6. Running => Running'
    BY <1>0, <2>2 DEF Running
  <2> QED
    BY <1>5, <1>6, <1>10, <2>3, <2>4, <2>5, <2>6 DEF LockInv, Phases
<1>11. CASE Answering
  <2>1. CASE r.type = "Ready"
    <3>1. Len(toClient) = 1 /\ toClient' = <<>> /\ fromBackend = <<>> /\ down # "forward"
      BY <1>1, <1>11, <2>1 DEF Answering
    <3>2. Answers' = requests'
      BY <1>0, <1>4, <1>11, <2>1 DEF Answering, Pending
    <3>3. \E m \in 0..Len(fromClient') : Drained(m)' /\ Ends(m)'
      <4>1. PICK m \in 0..Len(fromClient) : m = Len(fromClient) /\ Drained(m)
        BY <1>11 DEF Answering, Drained
      <4> QED
        BY <1>0, <1>8, <4>1 DEF Ends
    <3>4. Over'
      BY <1>0, <1>7, <1>11, <3>1, <3>2, <3>3 DEF Over, Answering, Quiet
    <3> QED
      BY <1>5, <1>6, <3>4 DEF LockInv, Phases
  <2>2. CASE r.type # "Ready"
    <3>1. Pending'
      BY <1>0, <1>4, <1>11, <2>2 DEF Answering, Pending
    <3>2. \A i \in DOMAIN toClient' : toClient'[i].type = "Ready" =>
             i = Len(toClient') /\ fromBackend' = <<>> /\ down' # "forward"
      BY <1>0, <1>1, <1>11 DEF Answering
    <3>3. Drained(Len(fromClient))'
      BY <1>0, <1>8, <1>11 DEF Answering
    <3>4. Answering'
      BY <1>0, <1>7, <1>11, <3>1, <3>2, <3>3 DEF Answering
    <3> QED
      BY <1>5, <1>6, <3>4 DEF LockInv, Phases
  <2> QED
    BY <2>1, <2>2
<1> QED
  BY <1>9, <1>10, <1>11 DEF LockInv, Phases

\* What a script of a client in lockstep asks for: one ReadyForQuery, or
\* nothing when it is a Terminate.
LEMMA AskingOnce ==
  ASSUME InLockstep, NEW script \in Scripts
  PROVE  /\ script \in Seq(Unbatched) /\ Len(script) \in Nat /\ Len(script) > 0
         /\ DOMAIN script = 1..Len(script)
         /\ Asking(script) = IF script[1].type = "Terminate" THEN 0 ELSE 1
         /\ (\E i \in DOMAIN script : script[i].type = "Terminate")
              <=> Len(script) = 1 /\ script[1].type = "Terminate"
<1> DEFINE asking == {i \in DOMAIN script : script[i].type \in {"Query", "Sync"}}
<1>1. script \in Seq(Unbatched)
  BY RelayAssumption
<1>2. Len(script) \in Nat /\ DOMAIN script = 1..Len(script)
  BY <1>1
<1>3. CASE Len(script) = 1 /\ script[1].type = "Terminate"
  <2>1. asking = {}
    BY <1>2, <1>3
  <2>2. Asking(script) = 0
    BY <2>1, FS_EmptySet DEF Asking
  <2> QED
    BY <1>1, <1>2, <1>3, <2>2
<1>4. CASE Len(script) = 1 /\ script[1].type = "Query"
  <2>1. asking = {1}
    BY <1>2, <1>4
  <2>2. Asking(script) = 1
    BY <2>1, FS_Singleton DEF Asking
  <2> QED
    BY <1>1, <1>2, <1>4, <2>2
<1>5. CASE /\ Len(script) > 0
           /\ \A i \in DOMAIN script : /\ script[i].type \in ExtendedTypes
                                       /\ script[i].type = "Sync" <=> i = Len(script)
  <2>1. asking = {Len(script)}
    BY <1>2, <1>5 DEF ExtendedTypes
  <2>2. Asking(script) = 1
    BY <2>1, FS_Singleton DEF Asking
  <2> QED
    BY <1>1, <1>2, <1>5, <2>2 DEF ExtendedTypes
<1> QED
  BY <1>3, <1>4, <1>5 DEF InLockstep

\* What a write leaves in the stream from the client.
LEMMA WrittenBehind ==
  ASSUME NEW s \in Seq(Message), NEW script \in Seq(Unbatched), NEW n \in Nat
  PROVE  LET t == s \o Numbered(script, n)
         IN  /\ Len(s) \in Nat /\ Len(script) \in Nat /\ Len(t) = Len(s) + Len(script)
             /\ DOMAIN t = 1..Len(t)
             /\ \A i \in 1..Len(s) : t[i] = s[i]
             /\ \A i \in 1..Len(script) : /\ t[Len(s) + i].type = script[i].type
                                          /\ t[Len(s) + i].sql = script[i].sql
                                          /\ t[Len(s) + i].batch = n
<1>0. Len(s) \in Nat /\ Len(script) \in Nat /\ DOMAIN script = 1..Len(script)
  OBVIOUS
<1>1. PICK new : new = Numbered(script, n)
  OBVIOUS
<1>2. /\ DOMAIN new = 1..Len(script) /\ Len(new) = Len(script)
      /\ new \in Seq({new[i] : i \in DOMAIN script})
      /\ \A i \in 1..Len(script) : /\ new[i].type = script[i].type
                                   /\ new[i].sql = script[i].sql
                                   /\ new[i].batch = n
  BY <1>0, <1>1 DEF Numbered
<1>3. PICK T : new \in Seq(T)
  BY <1>2
<1>4. /\ DOMAIN (s \o new) = 1..(Len(s) + Len(new))
      /\ \A i \in 1..Len(s) : (s \o new)[i] = s[i]
      /\ \A i \in 1..Len(new) : (s \o new)[Len(s) + i] = new[i]
      /\ Len(s \o new) = Len(s) + Len(new)
  BY <1>3, ConcatParts
<1> QED
  BY <1>0, <1>1, <1>2, <1>4

LEMMA ClientSendsLock ==
  ASSUME InLockstep, TypeOK, LockInv, NEW script \in Scripts, ClientSends(script)
  PROVE  LockInv'
<1>0. /\ fromClient \in Seq(Message) /\ sent \in Nat /\ requests \in Nat /\ clientGone = FALSE
      /\ requests < Answers + 1
      /\ fromClient' = fromClient \o Numbered(script, sent + 1)
      /\ sent' = sent + 1
      /\ requests' = requests + Asking(script)
      /\ clientGone' = (\E i \in DOMAIN script : script[i].type = "Terminate")
      /\ UNCHANGED <<toClient, got, toBackend, fromBackend, held, query, skipping, block, work, up, carried,
                     lastSQL, down, reply, logged>>
  BY ClientKeeps DEF TypeOK, ClientSends, InLockstep, Numbered
<1>1. /\ script \in Seq(Unbatched) /\ Len(script) \in Nat /\ Len(script) > 0
      /\ DOMAIN script = 1..Len(script)
      /\ Asking(script) = IF script[1].type = "Terminate" THEN 0 ELSE 1
      /\ clientGone' = TRUE <=> Len(script) = 1 /\ script[1].type = "Terminate"
  BY <1>0, AskingOnce
<1>2. Over
  <2>1. Pending => FALSE
    BY <1>0 DEF Pending
  <2> QED
    BY <2>1 DEF LockInv, Phases, Fresh, Refused, Half, InHand, AtBackend, Running, Answering
<1>3. toBackend = <<>> /\ up # "forward" /\ Drained(Len(fromClient))
  BY <1>0, <1>2 DEF Over, Ends
<1>4. /\ Len(fromClient) \in Nat /\ Len(fromClient') = Len(fromClient) + Len(script)
      /\ \A i \in 1..Len(fromClient) : fromClient'[i] = fromClient[i]
      /\ \A i \in 1..Len(script) : /\ fromClient'[Len(fromClient) + i].type = script[i].type
                                   /\ fromClient'[Len(fromClient) + i].sql = script[i].sql
                                   /\ fromClient'[Len(fromClient) + i].batch = sent'
  <2>1. PICK n \in Nat : n = sent + 1
    BY <1>0
  <2> QED
    BY <1>0, <1>1, <2>1, WrittenBehind
<1>5. PICK m \in Nat : /\ m = Len(fromClient) /\ Drained(m) /\ m \in 0..Len(fromClient)
                       /\ m \in 0..Len(fromClient') /\ m < Len(fromClient')
  BY <1>1, <1>3, <1>4
<1>6. Drained(m)'
  BY <1>0, <1>4, <1>5 DEF Drained
<1>7. /\ BackendIdle' /\ Quiet' /\ ReplyInv' /\ Answers' = Answers
  <2>1. BackendIdle' /\ Quiet' /\ Answers' = Answers
    BY <1>0, <1>2 DEF Over, BackendIdle, Quiet, Answers, LockInv
  <2> QED
    BY <2>1 DEF BackendIdle, Quiet, ReplyInv, OfBatch, NoReady
<1>8. GotInv'
  <2>1. \A i \in DOMAIN got : got[i].batch <= sent => got[i].batch <= sent + 1
    <3>1. \A i \in DOMAIN got : got[i].batch \in Nat
      <4>1. got \in Seq(Reply)
        BY DEF TypeOK
      <4>2. \A i \in DOMAIN got : got[i] \in Reply
        BY <4>1
      <4> QED
        BY <4>2 DEF Reply
    <3> QED
      BY <1>0, <3>1
  <2> QED
    BY <1>0, <2>1 DEF LockInv, GotInv, RepliesInOrder
<1>9. CASE script[1].type = "Terminate"
  <2>1. Len(script) = 1 /\ clientGone' = TRUE
    <3>1. 1 \in DOMAIN script
      BY <1>1
    <3> QED
      BY <1>9, <1>1, <3>1 DEF InLockstep, ExtendedTypes
  <2>2. Len(fromClient') = m + 1 /\ fromClient'[m + 1].type = "Terminate"
    BY <1>4, <1>5, <1>9, <2>1
  <2>3. requests' = Answers'
    BY <1>0, <1>1, <1>2, <1>7, <1>9 DEF Over
  <2>4. Over'
    <3>1. \E k \in 0..Len(fromClient') : Drained(k)' /\ Ends(k)'
      BY <1>5, <1>6, <2>1, <2>2 DEF Ends
    <3> QED
      BY <1>0, <1>2, <1>3, <1>7, <2>1, <2>3, <3>1 DEF Over
  <2> QED
    BY <1>7, <1>8, <2>4 DEF LockInv, Phases
<1>10. CASE script[1].type # "Terminate"
  <2>1. Pending'
    BY <1>0, <1>1, <1>2, <1>7, <1>10 DEF Over, Pending
  <2>2. fromClient'[m + 1].batch = sent' /\ fromClient'[m + 1].type = script[1].type
        /\ fromClient'[m + 1].sql = script[1].sql
    BY <1>1, <1>4, <1>5
  <2>3. \/ script[1].type = "Query" /\ Len(fromClient') = m + 1
        \/ /\ script[1].type \in ExtendedTypes
           /\ script[1].type = "Sync" <=> Len(fromClient') = m + 1
           /\ AskedFrom(m + 2)'
    <3>1. CASE Len(script) = 1 /\ script[1].type \in {"Query", "Terminate"}
      BY <1>4, <1>5, <1>10, <3>1
    <3>2. CASE /\ Len(script) > 0
               /\ \A i \in DOMAIN script :
                    /\ script[i].type \in ExtendedTypes
                    /\ script[i].type = "Sync" <=> i = Len(script)
                    /\ i > 1 => ~Check(script[i].sql)
      <4>1. ASSUME NEW i \in m + 2..Len(fromClient')
            PROVE  /\ fromClient'[i].batch = sent'
                   /\ fromClient'[i].type \in ExtendedTypes
                   /\ fromClient'[i].type = "Sync" <=> i = Len(fromClient')
                   /\ ~Check(fromClient'[i].sql)
        <5>1. /\ i - m \in 1..Len(script) /\ i - m > 1 /\ i = Len(fromClient) + (i - m)
              /\ i - m = Len(script) <=> i = Len(fromClient')
          <6>1. Len(fromClient') = m + Len(script) /\ m \in Nat /\ Len(script) \in Nat /\ m = Len(fromClient)
            BY <1>1, <1>4, <1>5
          <6>2. i \in Nat /\ i >= m + 2 /\ i <= m + Len(script)
            BY <6>1
          <6> QED
            BY <6>1, <6>2
        <5>2. PICK k \in 1..Len(script) : k = i - m /\ k > 1 /\ i = Len(fromClient) + k
          BY <5>1
        <5>3. /\ fromClient'[i].batch = sent' /\ fromClient'[i].type = script[k].type
              /\ fromClient'[i].sql = script[k].sql
          BY <1>4, <5>2
        <5> QED
          BY <1>1, <3>2, <5>1, <5>2, <5>3
      <4>2. AskedFrom(m + 2)'
        BY <4>1 DEF AskedFrom
      <4>3. /\ script[1].type \in ExtendedTypes
            /\ script[1].type = "Sync" <=> Len(script) = 1
        BY <1>1, <3>2
      <4> QED
        BY <1>1, <1>4, <1>5, <4>2, <4>3
    <3> QED
      BY <3>1, <3>2 DEF InLockstep
  <2>4. Fresh'
    <3>1. \E k \in 0..Len(fromClient') : Drained(k)' /\ Opens(k)'
      <4>2. Opens(m)'
        BY <1>5, <2>2, <2>3 DEF Opens
      <4> QED
        BY <1>5, <1>6, <4>2
    <3> QED
      BY <1>0, <1>2, <1>3, <1>7, <2>1, <3>1 DEF Fresh, Over
  <2> QED
    BY <1>7, <1>8, <2>4 DEF LockInv, Phases
<1> QED
  BY <1>9, <1>10

-----------------------------------------------------------------------------

LEMMA UpLock ==
  ASSUME TypeOK, LockInv, ClientToBackend
  PROVE  LockInv'
BY InspectLock, PassOnLock, ForwardLock, SendErrorLock, DrainLock, UpStopsLock DEF ClientToBackend

LEMMA DownLock ==
  ASSUME TypeOK, LockInv, BackendToClient
  PROVE  LockInv'
BY ReceiveReplyLock, ForwardReplyLock, DownStopsLock DEF BackendToClient

LEMMA StutterLock ==
  ASSUME LockInv, UNCHANGED vars
  PROVE  LockInv'
<1>1. UNCHANGED <<fromClient, toClient, clientGone, up, carried, lastSQL, down, reply, sent, requests, got,
                  logged, toBackend, fromBackend, block, query, skipping, held, work>>
  BY DEF vars, backendVars, sessionVars, streamVars, upVars, downVars, clientVars, historyVars
<1>2. /\ Over => Over'
      /\ Fresh => Fresh'
  <2>1. /\ \A m : Drained(m) => Drained(m)'
        /\ \A m : (AskedFrom(m) => AskedFrom(m)') /\ (Ends(m) => Ends(m)') /\ (Opens(m) => Opens(m)')
    BY <1>1, SameStream
  <2> QED
    BY <1>1, <2>1 DEF Over, Fresh, Answers, BackendIdle, Quiet, Pending
<1>3. /\ Refused => Refused'
      /\ Half => Half'
      /\ InHand => InHand'
  BY <1>1 DEF Refused, Half, InHand, Answers, BackendIdle, Quiet, AskedFrom, Pending, Unanswered, NoReady,
     OfBatch, Partial
<1>4. /\ AtBackend => AtBackend'
      /\ Running => Running'
      /\ Answering => Answering'
  BY <1>1 DEF AtBackend, Running, Answering, Answers, BackendIdle, Drained, Pending, Unanswered, NoReady, OfBatch
<1>5. ReplyInv' /\ GotInv'
  BY <1>1 DEF LockInv, ReplyInv, OfBatch, NoReady, GotInv, RepliesInOrder
<1> QED
  BY <1>2, <1>3, <1>4, <1>5 DEF LockInv, Phases

LEMMA InitLock == Init => LockInv
<1> SUFFICES ASSUME Init PROVE LockInv
  OBVIOUS
<1>1. BackendIdle /\ Quiet
  BY DEF Init, BackendInit, BackendIdle, Quiet
<1>2. Answers = requests
  <2>1. {i \in DOMAIN got : got[i].type = "Ready"} = {}
    BY DEF Init
  <2> QED
    BY <2>1, FS_EmptySet DEF Answers, Init
<1>3. Drained(0) /\ Len(fromClient) = 0
  BY DEF Init, Drained
<1>4. Over
  <2>1. \E m \in 0..Len(fromClient) : Drained(m) /\ Ends(m)
    BY <1>3 DEF Ends
  <2> QED
    BY <1>1, <1>2, <2>1 DEF Over, Init, BackendInit
<1>5. ReplyInv /\ GotInv
  BY DEF Init, BackendInit, ReplyInv, OfBatch, NoReady, GotInv, RepliesInOrder
<1> QED
  BY <1>4, <1>5 DEF LockInv, Phases

LEMMA NextLock ==
  ASSUME InLockstep
  PROVE  TypeOK /\ LockInv /\ [Next]_vars => LockInv'
BY UpLock, DownLock, ServeLock, ClientSendsLock, ClientReadsLock, HangUpLock, StutterLock DEF Next

LEMMA LockstepInvariant ==
  ASSUME InLockstep
  PROVE  Spec => [](TypeOK /\ LockInv)
<1>1. Init => TypeOK /\ ForwardInv /\ LockInv
  BY InitRelayType, InitForward, InitLock
<1>2. TypeOK /\ ForwardInv /\ LockInv /\ [Next]_vars => (TypeOK /\ ForwardInv /\ LockInv)'
  BY NextRelayType, NextForward, NextLock
<1> QED
  BY <1>1, <1>2, PTL DEF Spec

\* To such a client no reply overtakes another, although sendError and
\* backendToClient both write to it (handler.go 486, 505, 568).
THEOREM LockstepOrder ==
  ASSUME InLockstep
  PROVE  Spec => []RepliesInOrder
<1>1. LockInv => RepliesInOrder
  BY DEF LockInv, GotInv
<1> QED
  BY <1>1, LockstepInvariant, PTL

\* It never reads a ReadyForQuery it did not ask for: the one that sendError
\* adds to a rejection stands for the one the backend is not asked for, the
\* Sync of the batch being drained.
THEOREM LockstepAsked ==
  ASSUME InLockstep
  PROVE  Spec => []ReadyIsAsked
<1>1. TypeOK /\ LockInv => ReadyIsAsked
  <2> SUFFICES ASSUME TypeOK, LockInv PROVE ReadyIsAsked
    OBVIOUS
  <2>1. Answers \in Nat /\ requests \in Nat
    BY CountType DEF TypeOK, Answers
  <2>2. Pending \/ Answers = requests
    BY DEF LockInv, Phases, Over, Fresh, Refused, Half, InHand, AtBackend, Running, Answering
  <2> QED
    BY <2>1, <2>2 DEF Pending, ReadyIsAsked
<1> QED
  BY <1>1, LockstepInvariant, PTL

\* When it has its answer the backend has nothing more of the request to do,
\* holds no reply back and, outside a transaction block, no work: whatever the
\* relay rejected, nothing of it is half done.
THEOREM LockstepOver ==
  ASSUME InLockstep
  PROVE  Spec => []AnsweredIsOver
<1>1. TypeOK /\ LockInv => AnsweredIsOver
  <2> SUFFICES ASSUME TypeOK, LockInv, Answers = requests PROVE Over
    BY DEF Over, BackendIdle, AnsweredIsOver
  <2>1. ~Pending
    BY CountType DEF TypeOK, Answers, Pending
  <2> QED
    BY <2>1 DEF LockInv, Phases, Fresh, Refused, Half, InHand, AtBackend, Running, Answering
<1> QED
  BY <1>1, LockstepInvariant, PTL

-----------------------------------------------------------------------------
(* The transaction warnings of intercept.go, for clients in lockstep: the  *)
(* TxState that TrackTx keeps by reading statements on their way to the    *)
(* session says enough of the transaction the session is in.               *)
(*                                                                         *)
(* Clients whose transactions the proxy can follow. They begin one when    *)
(* they were told none is open; a batch prepares one statement and         *)
(* executes it; a text of several statements changes nothing but between   *)
(* a BEGIN of its own and the COMMIT. Each condition is needed: a BEGIN in *)
(* an open transaction clears the TxState, a statement is read when it is  *)
(* prepared and not when it is executed again, and a text outside a block  *)
(* is one transaction that the TxState does not know.                      *)

Changes(s) == s \in {"ddl", "dml", "create index async", "create index concurrently"}

\* Where the text is at its i-th statement, a transaction it began is open.
Opened(sql, i) ==
  \E j \in 1..i - 1 : sql[j] = "begin" /\ \A k \in j + 1..i - 1 : sql[k] # "commit"

\* A BEGIN is the first statement or follows a COMMIT.
Alternates(sql) == \A i \in DOMAIN sql : sql[i] = "begin" => i = 1 \/ sql[i - 1] = "commit"

Encloses(sql) == \A i \in DOMAIN sql : Changes(sql[i]) => Opened(sql, i)

ClearText(sql) == Alternates(sql) /\ (Len(sql) = 1 \/ Encloses(sql))

ClearBatch(script) ==
  /\ \A i \in DOMAIN script : script[i].type = "Parse" <=> i = 1
  /\ Len(script[1].sql) = 1
  /\ \E k \in DOMAIN script : \A i \in DOMAIN script : script[i].type = "Execute" <=> i = k

ClearTransactions ==
  /\ MindsStatus = TRUE
  /\ \A script \in Scripts :
       \/ script[1].type = "Terminate"
       \/ script[1].type = "Query" /\ ClearText(script[1].sql)
       \/ ClearBatch(script)

-----------------------------------------------------------------------------
(* What the session has not taken yet, and what it has still to run of     *)
(* the text that TrackTx has seen.                                         *)

InOrder(ahead, place, hand, behind) ==
  ahead \o (IF place = "forward" THEN <<hand>> ELSE <<>>) \o (IF place = "returned" THEN <<>> ELSE behind)

Line == InOrder(toBackend, up, carried, fromClient)

Unseen == toBackend = <<>> /\ up # "forward"

TextAhead(l) == l # <<>> /\ l[1].type \in WithText
Executes(l)  == \E i \in DOMAIN l : l[i].type = "Execute"

\* No text but in front, and one Execute at most.
Single(l) ==
  /\ \A i \in DOMAIN l : l[i].type \in WithText => i = 1
  /\ \A i, j \in DOMAIN l : l[i].type = "Execute" /\ l[j].type = "Execute" => i = j

Pended(l) ==
  IF query # NoQuery THEN query.sql
  ELSE IF TextAhead(l) THEN (IF Unseen THEN <<>> ELSE l[1].sql)
  ELSE IF skipping = FALSE /\ Executes(l) THEN prepared ELSE <<>>

\* A statement as it was before Rewrite.
Unwritten(s) == IF s = "create index concurrently" THEN "create index async" ELSE s

\* The TxState t says what the open transaction has run.
Tracks(t) ==
  block = "T" => t.InTx /\ (work.ddl > 0 => t.HasDDL) /\ (work.dml => t.HasDML)

\* From a TxState that says what the transaction has run, TrackTx has come
\* through the statements still to run to the one it is in, with a warning
\* where one was due.
Ahead(sql) ==
  \E a \in [0..Len(sql) -> TxState] :
    /\ Tracks(a[0])
    /\ \A i \in DOMAIN sql : a[i] = TrackTx(a[i - 1], Unwritten(sql[i]))
    /\ \A i \in DOMAIN sql : Warns(a[i - 1], Unwritten(sql[i])) => sent \in warned
    /\ up # "returned" => a[Len(sql)] = tx

\* What the text may be, for the block it is in.
Fits(sql) ==
  /\ Alternates(sql)
  /\ block # "I" => \A i \in DOMAIN sql :
       /\ sql[i] = "begin" => i > 1
       /\ Changes(sql[i]) /\ (\E j \in 1..i - 1 : sql[j] = "commit") => Opened(sql, i)
  /\ block = "I" => Len(sql) = 1 \/ Encloses(sql)
  /\ block = "I" /\ sql # <<>> => work = NoWork

Due(sql) == Ahead(sql) /\ Fits(sql)

TextInv(l) ==
  TextAhead(l) =>
    /\ skipping = FALSE
    /\ Fits(l[1].sql)
    /\ l[1].type = "Parse" => Len(l[1].sql) = 1 /\ (up # "returned" => Executes(l))

LineInv(l) ==
  /\ Single(l)
  /\ TextInv(l)
  /\ \A sql \in {Pended(l)} : Due(sql)
  /\ query = NoQuery /\ skipping = FALSE /\ Executes(l) /\ ~TextAhead(l) => Len(prepared) = 1

\* Replies on their way to the client say what the block is now.
StatusInv ==
  /\ \A i \in DOMAIN fromBackend : fromBackend[i].type = "Ready" => fromBackend[i].status = block
  /\ \A i \in DOMAIN toClient : toClient[i].type = "Ready" => toClient[i].status = block
  /\ down = "forward" /\ reply.type = "Ready" => reply.status = block
  /\ Answers = requests => Told = block

Mixed == work.ddl > 1 \/ (work.ddl > 0 /\ work.dml)

MixOK == Mixed => work.batches \cap warned # {}

TrackInv ==
  rejected = {} =>
    /\ up \notin {"sendError", "drainUntilSync"}
    /\ \A l \in {Line} : LineInv(l)
    /\ StatusInv
    /\ MixOK

-----------------------------------------------------------------------------
(* The text: a statement that runs and the rest of it.                     *)

LEMMA TailText ==
  ASSUME NEW sql \in Seq(Statements), sql # <<>>
  PROVE  /\ Tail(sql) \in Seq(Statements)
         /\ Len(sql) \in Nat /\ Len(sql) > 0
         /\ Len(Tail(sql)) = Len(sql) - 1
         /\ \A i \in DOMAIN Tail(sql) : i + 1 \in DOMAIN sql /\ i \in Nat /\ i > 0 /\ Tail(sql)[i] = sql[i + 1]
         /\ sql[1] = Head(sql) /\ 1 \in DOMAIN sql /\ Head(sql) \in Statements
         /\ DOMAIN sql = 1..Len(sql)
OBVIOUS

LEMMA OpenedTail ==
  ASSUME NEW sql \in Seq(Statements), sql # <<>>, NEW i \in DOMAIN Tail(sql), Opened(sql, i + 1),
         sql[1] # "begin" \/ \E j \in 1..i - 1 : Tail(sql)[j] = "commit"
  PROVE  Opened(Tail(sql), i)
<1>1. PICK j \in 1..i : sql[j] = "begin" /\ \A k \in j + 1..i : sql[k] # "commit"
  BY TailText DEF Opened
<1>2. j # 1
  <2>1. ASSUME NEW l \in 1..i - 1, Tail(sql)[l] = "commit", j = 1 PROVE FALSE
    <3>1. l \in DOMAIN Tail(sql) /\ sql[l + 1] = "commit" /\ l + 1 \in j + 1..i
      BY <2>1, TailText
    <3> QED
      BY <1>1, <3>1
  <2> QED
    BY <1>1, <2>1
<1>3. j - 1 \in 1..i - 1 /\ Tail(sql)[j - 1] = "begin"
  BY <1>1, <1>2, TailText
<1>4. \A k \in (j - 1) + 1..i - 1 : Tail(sql)[k] # "commit"
  <2> TAKE k \in (j - 1) + 1..i - 1
  <2>1. k \in DOMAIN Tail(sql) /\ k + 1 \in j + 1..i
    BY <1>1, TailText
  <2> QED
    BY <1>1, <2>1, TailText
<1> QED
  BY <1>3, <1>4 DEF Opened

LEMMA FitsEmpty == Fits(<<>>)
BY DEF Fits, Alternates, Encloses

LEMMA FitsOn ==
  ASSUME NEW sql \in Seq(Statements), sql # <<>>, Fits(sql), block \in {"I", "T", "E"},
         NEW b, Runs(Head(sql), b)
  PROVE  Fits(Tail(sql))'
<1> DEFINE t == Tail(sql)
           s == Head(sql)
<1>0. /\ Alternates(sql)
      /\ block # "I" => \A i \in DOMAIN sql :
           /\ sql[i] = "begin" => i > 1
           /\ Changes(sql[i]) /\ (\E j \in 1..i - 1 : sql[j] = "commit") => Opened(sql, i)
      /\ block = "I" => Len(sql) = 1 \/ Encloses(sql)
      /\ block = "I" => work = NoWork
  BY DEF Fits
<1>1. Alternates(t)
  <2> SUFFICES ASSUME NEW i \in DOMAIN t, t[i] = "begin", i # 1 PROVE t[i - 1] = "commit"
    BY DEF Alternates
  <2>1. sql[i + 1] = "begin" /\ i + 1 # 1 /\ (i + 1) - 1 = i /\ i + 1 \in DOMAIN sql
    BY TailText
  <2>2. sql[i] = "commit"
    BY <1>0, <2>1 DEF Alternates
  <2>3. i - 1 \in DOMAIN t
    BY TailText
  <2> QED
    BY <2>2, <2>3, TailText
<1>2. s = "begin" => block = "I"
  BY <1>0, TailText
<1>3. s # "commit" => ~(t # <<>> /\ t[1] = "begin")
  <2> SUFFICES ASSUME t # <<>>, t[1] = "begin" PROVE s = "commit"
    OBVIOUS
  <2>1. 2 \in DOMAIN sql /\ sql[2] = "begin"
    BY TailText
  <2>2. 2 - 1 = 1 /\ 2 # 1
    OBVIOUS
  <2>3. sql[1] = "commit"
    BY <1>0, <2>1, <2>2 DEF Alternates
  <2> QED
    BY <2>3, TailText
<1>4. ASSUME block' # "I", NEW i \in DOMAIN t
      PROVE  /\ t[i] = "begin" => i > 1
             /\ Changes(t[i]) /\ (\E j \in 1..i - 1 : t[j] = "commit") => Opened(t, i)
  <2>1. s # "commit"
    BY <1>4 DEF Runs
  <2>2. t[i] = "begin" => i > 1
    BY <1>3, <2>1, TailText
  <2>3. ASSUME Changes(t[i]), NEW j \in 1..i - 1, t[j] = "commit" PROVE Opened(t, i)
    <3>1. Changes(sql[i + 1]) /\ i + 1 \in DOMAIN sql /\ j + 1 \in 1..(i + 1) - 1 /\ sql[j + 1] = "commit"
      BY <2>3, TailText
    <3>2. Opened(sql, i + 1)
      <4>1. CASE block = "I"
        <5>1. Len(sql) # 1
          BY <3>1, TailText
        <5> QED
          BY <1>0, <3>1, <4>1, <5>1 DEF Encloses
      <4>2. CASE block # "I"
        BY <1>0, <3>1, <4>2
      <4> QED
        BY <4>1, <4>2
    <3> QED
      BY <2>3, <3>2, OpenedTail
  <2> QED
    BY <2>2, <2>3
<1>5. ASSUME block' = "I" PROVE (Len(t) = 1 \/ Encloses(t)) /\ (t # <<>> => work' = NoWork)
  <2>1. s # "begin"
    BY <1>5 DEF Runs
  <2>2. ASSUME NEW i \in DOMAIN t, Changes(t[i]) PROVE Opened(t, i)
    <3>1. Changes(sql[i + 1]) /\ i + 1 \in DOMAIN sql /\ Len(sql) # 1
      BY <2>2, TailText
    <3>2. Opened(sql, i + 1)
      <4>1. CASE block = "I"
        BY <1>0, <3>1, <4>1 DEF Encloses
      <4>2. CASE block # "I"
        <5>1. s = "commit"
          BY <1>5, <4>2, <2>1 DEF Runs
        <5>2. 1 \in 1..(i + 1) - 1 /\ sql[1] = "commit"
          BY <5>1, TailText
        <5> QED
          BY <1>0, <3>1, <4>2, <5>2
      <4> QED
        BY <4>1, <4>2
    <3> QED
      BY <2>1, <3>2, OpenedTail, TailText
  <2>3. t # <<>> => work' = NoWork
    <3> SUFFICES ASSUME t # <<>>, s # "commit" PROVE work' = NoWork
      BY DEF Runs
    <3>1. block = "I" /\ work = NoWork
      BY <1>0, <1>5, <2>1 DEF Runs
    <3>2. Len(sql) # 1
      BY TailText
    <3>3. ~Changes(s)
      <4> SUFFICES ASSUME Changes(s) PROVE FALSE
        OBVIOUS
      <4>1. Opened(sql, 1)
        BY <1>0, <3>1, <3>2, TailText DEF Encloses
      <4> QED
        BY <4>1 DEF Opened
    <3> QED
      BY <3>1, <3>3 DEF Runs, Changes
  <2> QED
    BY <2>2, <2>3 DEF Encloses
<1> QED
  BY <1>1, <1>4, <1>5 DEF Fits

-----------------------------------------------------------------------------
(* The TxState: what it says of the transaction stays true of it.          *)

LEMMA StepTracks ==
  ASSUME NEW t \in TxState, Tracks(t), NEW s \in Statements, NEW b, Runs(s, b),
         WorkOK, block \in {"I", "T", "E"},
         block = "I" => work = NoWork, s = "begin" => block = "I"
  PROVE  Tracks(TrackTx(t, Unwritten(s)))'
<1> USE DEF TxState, Statements, NoWork
<1>1. SUFFICES ASSUME block' = "T"
               PROVE  /\ TrackTx(t, Unwritten(s)).InTx
                      /\ work'.ddl > 0 => TrackTx(t, Unwritten(s)).HasDDL
                      /\ work'.dml => TrackTx(t, Unwritten(s)).HasDML
  BY DEF Tracks
<1>2. s # "commit" /\ s # "create index concurrently" /\ Unwritten(s) = s
  BY <1>1 DEF Runs, Unwritten
<1>3. CASE s = "begin"
  BY <1>2, <1>3 DEF Runs, TrackTx, InState, WorkOK
<1>4. CASE s # "begin"
  <2>1. block = "T" /\ t.InTx /\ (work.ddl > 0 => t.HasDDL) /\ (work.dml => t.HasDML)
    BY <1>1, <1>2, <1>4 DEF Runs, Tracks
  <2>2. CASE s = "ddl"
    BY <2>1, <2>2, <1>2 DEF Runs, TrackTx, IsDDL, WorkOK
  <2>3. CASE s = "dml"
    BY <2>1, <2>3, <1>2 DEF Runs, TrackTx, IsDDL, WorkOK
  <2>4. CASE s \notin {"ddl", "dml"}
    BY <1>2, <1>4, <2>1, <2>4 DEF Runs, TrackTx, IsDDL, WorkOK
  <2> QED
    BY <2>2, <2>3, <2>4
<1> QED
  BY <1>3, <1>4

LEMMA StepWarns ==
  ASSUME NEW t \in TxState, Tracks(t), NEW s \in Statements, Runs(s, sent),
         WorkOK, block \in {"I", "T", "E"}, block = "I" => work = NoWork,
         MixOK,
         Warns(t, Unwritten(s)) => sent \in warned, warned' = warned
  PROVE  MixOK'
<1> SUFFICES ASSUME Mixed' PROVE work'.batches \cap warned # {}
  BY DEF MixOK
<1>1. s # "commit"
  <2>1. s = "commit" => work' = NoWork
    BY DEF Runs
  <2> QED
    BY <2>1 DEF Mixed, NoWork
<1>2. CASE s \in {"ddl", "create index concurrently"}
  <2>1. /\ work'.ddl = work.ddl + 1 /\ work'.dml = work.dml
        /\ work'.batches = work.batches \cup {sent}
    BY <1>2 DEF Runs, WorkOK
  <2>2. block = "T" \/ work = NoWork
    BY <1>2 DEF Runs
  <2>3. block = "T"
    BY <2>1, <2>2 DEF Mixed, NoWork
  <2>4. s = "ddl" /\ Unwritten(s) = "ddl"
    BY <1>2, <2>3 DEF Runs, Unwritten
  <2>5. t.InTx /\ (t.HasDDL \/ t.HasDML)
    BY <2>1, <2>3 DEF Tracks, Mixed, WorkOK
  <2> QED
    BY <2>1, <2>4, <2>5 DEF Warns, IsDDL
<1>3. CASE s = "dml"
  <2>1. /\ work'.ddl = work.ddl /\ work'.dml = TRUE
        /\ work'.batches = work.batches \cup {sent}
    BY <1>3 DEF Runs, WorkOK
  <2>2. block = "T" \/ work = NoWork
    BY <1>3 DEF Runs
  <2>3. block = "T"
    BY <2>1, <2>2 DEF Mixed, NoWork
  <2>4. Unwritten(s) = "dml"
    BY <1>3 DEF Unwritten
  <2>5. t.InTx /\ t.HasDDL
    BY <2>1, <2>3 DEF Tracks, Mixed, WorkOK
  <2> QED
    BY <1>3, <2>1, <2>4, <2>5 DEF Warns
<1>4. CASE s \notin {"commit", "ddl", "create index concurrently", "dml"}
  BY <1>4 DEF Runs, Mixed, MixOK
<1> QED
  BY <1>1, <1>2, <1>3, <1>4

\* A statement of the text that runs.
LEMMA AheadOn ==
  ASSUME NEW sql \in Seq(Statements), sql # <<>>, Ahead(sql), Fits(sql), Runs(Head(sql), sent),
         WorkOK, block \in {"I", "T", "E"}, UNCHANGED <<tx, up, warned, sent>>,
         MixOK
  PROVE  /\ \A rest \in {Tail(sql)} : Ahead(rest)' /\ Fits(rest)'
         /\ MixOK'
<1>1. PICK a \in [0..Len(sql) -> TxState] :
        /\ Tracks(a[0])
        /\ \A i \in DOMAIN sql : a[i] = TrackTx(a[i - 1], Unwritten(sql[i]))
        /\ \A i \in DOMAIN sql : Warns(a[i - 1], Unwritten(sql[i])) => sent \in warned
        /\ up # "returned" => a[Len(sql)] = tx
  BY DEF Ahead
<1>2. /\ 0 \in 0..Len(sql) /\ 1 \in DOMAIN sql /\ a[0] \in TxState /\ sql[1] = Head(sql)
      /\ Head(sql) \in Statements /\ 1 - 1 = 0
  BY <1>1, TailText
<1>3. /\ a[1] = TrackTx(a[0], Unwritten(Head(sql)))
      /\ Warns(a[0], Unwritten(Head(sql))) => sent \in warned
  <2> DEFINE s == Head(sql)
  <2>1. a[1] = TrackTx(a[1 - 1], Unwritten(sql[1])) /\ (Warns(a[1 - 1], Unwritten(sql[1])) => sent \in warned)
    BY <1>1, <1>2
  <2> QED
    BY <1>2, <2>1
<1>4. (block = "I" => work = NoWork) /\ (Head(sql) = "begin" => block = "I")
  BY <1>2 DEF Fits
<1>5. Tracks(a[1])'
  <2>1. Tracks(TrackTx(a[0], Unwritten(Head(sql))))'
    BY <1>1, <1>2, <1>4, StepTracks
  <2> QED
    BY <1>3, <2>1 DEF Tracks
<1>6. MixOK'
  BY <1>1, <1>2, <1>3, <1>4, StepWarns
<1> DEFINE b == [i \in 0..Len(sql) - 1 |-> a[i + 1]]
<1>7. b \in [0..Len(Tail(sql)) -> TxState] /\ b[0] = a[1] /\ b[Len(Tail(sql))] = a[Len(sql)]
  BY <1>1, TailText
<1>8. ASSUME NEW i \in DOMAIN Tail(sql)
      PROVE  /\ b[i] = TrackTx(b[i - 1], Unwritten(Tail(sql)[i]))
             /\ Warns(b[i - 1], Unwritten(Tail(sql)[i])) => sent \in warned
  <2>1. i + 1 \in DOMAIN sql /\ b[i] = a[i + 1] /\ b[i - 1] = a[(i + 1) - 1] /\ Tail(sql)[i] = sql[i + 1]
    BY TailText
  <2> QED
    BY <1>1, <2>1
<1>9. Ahead(Tail(sql))'
  <2>1. Tracks(b[0])'
    BY <1>5, <1>7 DEF Tracks
  <2> HIDE DEF b
  <2> QED
    BY <1>1, <1>7, <1>8, <2>1 DEF Ahead
<1> QED
  BY <1>6, <1>9, FitsOn

\* One that fails takes the rest of the text with it.
LEMMA AheadFails ==
  ASSUME NEW s, Fails(s), tx \in TxState, UNCHANGED <<tx, up>>, block \in {"I", "T", "E"}
  PROVE  Ahead(<<>>)' /\ Fits(<<>>)' /\ ~Mixed'
<1>1. block' # "T"
  BY DEF Fails
<1>2. Tracks(tx)'
  BY <1>1 DEF Tracks
<1>3. ASSUME NEW sql, sql = <<>> PROVE Ahead(sql)'
  <2> DEFINE a == [i \in 0..0 |-> tx]
  <2>1. Len(sql) = 0 /\ \A i \in DOMAIN sql : FALSE
    BY <1>3
  <2>2. a \in [0..Len(sql) -> TxState] /\ a[0] = tx /\ a[Len(sql)] = tx
    BY <2>1
  <2>3. Tracks(a[0])'
    BY <1>2, <2>2 DEF Tracks
  <2> HIDE DEF a
  <2> QED
    BY <2>1, <2>2, <2>3 DEF Ahead
<1>4. Ahead(<<>>)'
  BY <1>3
<1>5. Fits(<<>>)'
  BY DEF Fits, Alternates, Encloses
<1>6. ~Mixed'
  BY DEF Fails, Mixed, NoWork
<1> QED
  BY <1>4, <1>5, <1>6

\* Nothing that matters changes.
LEMMA AheadStays ==
  ASSUME UNCHANGED <<block, work, tx, sent, warned>>, up' = "returned" \/ (up # "returned" /\ up' # "returned")
         \/ up' = up
  PROVE  \A sql : (Ahead(sql) => Ahead(sql)') /\ (Fits(sql) => Fits(sql)')
<1>1. \A t : Tracks(t) => Tracks(t)'
  BY DEF Tracks
<1>2. ASSUME NEW sql, Ahead(sql) PROVE Ahead(sql)'
  BY <1>1, <1>2 DEF Ahead
<1>3. ASSUME NEW sql, Fits(sql) PROVE Fits(sql)'
  BY <1>3 DEF Fits
<1> QED
  BY <1>2, <1>3

\* What clientToBackend has taken with it when it returned will not run.
LEMMA AheadGone ==
  ASSUME up' = "returned"
  PROVE  Ahead(<<>>)' /\ Fits(<<>>)'
<1> DEFINE t == [InTx |-> TRUE, HasDDL |-> TRUE, HasDML |-> TRUE]
<1>1. t \in TxState /\ Tracks(t)'
  BY DEF TxState, Tracks
<1>2. ASSUME NEW sql, sql = <<>> PROVE Ahead(sql)'
  <2> DEFINE a == [i \in 0..0 |-> t]
  <2>1. Len(sql) = 0 /\ \A i \in DOMAIN sql : FALSE
    BY <1>2
  <2>2. a \in [0..Len(sql) -> TxState] /\ a[0] = t
    BY <1>1, <2>1
  <2>3. Tracks(a[0])'
    BY <1>1, <2>2 DEF Tracks
  <2> HIDE DEF a
  <2> QED
    BY <2>1, <2>2, <2>3 DEF Ahead
<1>3. Fits(<<>>)'
  BY DEF Fits, Alternates, Encloses
<1> QED
  BY <1>2, <1>3

LEMMA RewriteText ==
  ASSUME NEW sql \in Seq(Statements)
  PROVE  /\ Rewrite(sql) \in Seq(Statements) /\ Len(Rewrite(sql)) = Len(sql) /\ DOMAIN Rewrite(sql) = DOMAIN sql
         /\ \A i \in DOMAIN sql : /\ Rewrite(sql)[i] = "begin" <=> sql[i] = "begin"
                                  /\ Rewrite(sql)[i] = "commit" <=> sql[i] = "commit"
                                  /\ Changes(Rewrite(sql)[i]) <=> Changes(sql[i])
                                  /\ ~Check(sql) => Unwritten(Rewrite(sql)[i]) = sql[i]
         /\ sql = <<>> <=> Rewrite(sql) = <<>>
<1>1. Len(sql) \in Nat /\ DOMAIN sql = 1..Len(sql) /\ \A i \in DOMAIN sql : sql[i] \in Statements
  OBVIOUS
<1>2. \A i \in DOMAIN sql : Rewrite(sql)[i] = IF sql[i] = "create index async" THEN "create index concurrently"
                                               ELSE sql[i]
  BY DEF Rewrite
<1>3. Rewrite(sql) \in [1..Len(sql) -> Statements]
  BY <1>1 DEF Rewrite, Statements
<1>4. Rewrite(sql) \in Seq(Statements) /\ Len(Rewrite(sql)) = Len(sql) /\ DOMAIN Rewrite(sql) = DOMAIN sql
  BY <1>1, <1>3
<1>5. \A i \in DOMAIN sql : ~Check(sql) => sql[i] # "create index concurrently"
  BY DEF Check, Unsupported
<1>6. sql = <<>> <=> Rewrite(sql) = <<>>
  BY <1>4
<1> QED
  BY <1>2, <1>4, <1>5, <1>6 DEF Changes, Unwritten

LEMMA RewriteFits ==
  ASSUME NEW sql \in Seq(Statements), Fits(sql)
  PROVE  Fits(Rewrite(sql))
<1> DEFINE r == Rewrite(sql)
<1>1. /\ Len(r) = Len(sql) /\ DOMAIN r = DOMAIN sql /\ DOMAIN sql = 1..Len(sql) /\ Len(sql) \in Nat
      /\ \A i \in DOMAIN sql : /\ r[i] = "begin" <=> sql[i] = "begin"
                               /\ r[i] = "commit" <=> sql[i] = "commit"
                               /\ Changes(r[i]) <=> Changes(sql[i])
      /\ sql = <<>> <=> r = <<>>
  BY RewriteText
<1> HIDE DEF r
<1>2. \A i \in DOMAIN sql : Opened(sql, i) => Opened(r, i)
  BY <1>1 DEF Opened
<1>3. Alternates(r)
  <2> SUFFICES ASSUME NEW i \in DOMAIN r, r[i] = "begin", i # 1 PROVE r[i - 1] = "commit"
    BY DEF Alternates
  <2>1. sql[i - 1] = "commit" /\ i - 1 \in DOMAIN sql
    BY <1>1 DEF Fits, Alternates
  <2> QED
    BY <1>1, <2>1
<1>4. Encloses(sql) => Encloses(r)
  BY <1>1, <1>2 DEF Encloses
<1>5. block # "I" => \A i \in DOMAIN r :
        /\ r[i] = "begin" => i > 1
        /\ Changes(r[i]) /\ (\E j \in 1..i - 1 : r[j] = "commit") => Opened(r, i)
  <2> SUFFICES ASSUME block # "I", NEW i \in DOMAIN r
               PROVE  /\ r[i] = "begin" => i > 1
                      /\ Changes(r[i]) /\ (\E j \in 1..i - 1 : r[j] = "commit") => Opened(r, i)
    OBVIOUS
  <2>1. /\ sql[i] = "begin" => i > 1
        /\ Changes(sql[i]) /\ (\E j \in 1..i - 1 : sql[j] = "commit") => Opened(sql, i)
    BY <1>1 DEF Fits
  <2>2. \A j \in 1..i - 1 : j \in DOMAIN sql
    BY <1>1
  <2> QED
    BY <1>1, <1>2, <2>1, <2>2
<1> QED
  BY <1>1, <1>3, <1>4, <1>5 DEF Fits, r

\* clientToBackend has taken a text that Check lets through.
LEMMA AheadInspected ==
  ASSUME NEW sql \in Seq(Statements), ~Check(sql), Ahead(<<>>), tx \in TxState,
         UNCHANGED <<block, work, sent>>, up # "returned",
         tx' = TrackAll(tx, sql),
         warned' = IF WarnsOf(tx, sql) THEN warned \cup {sent} ELSE warned
  PROVE  \A r \in {Rewrite(sql)} : Ahead(r)'
<1>1. Tracks(tx)
  <2>1. PICK e : e = <<>>
    OBVIOUS
  <2>2. Len(e) = 0
    BY <2>1
  <2> QED
    BY <2>1, <2>2 DEF Ahead
<1>2. PICK a : a = TxAlong(tx, sql)
  OBVIOUS
<1>3. /\ a \in [0..Len(sql) -> TxState]
      /\ a[0] = tx
      /\ \A i \in DOMAIN sql : a[i] = TrackTx(a[i - 1], sql[i])
  BY <1>2, TxAlongDef
<1>4. PICK r : r = Rewrite(sql)
  OBVIOUS
<1>5. Len(r) = Len(sql) /\ DOMAIN r = DOMAIN sql /\ \A i \in DOMAIN sql : Unwritten(r[i]) = sql[i]
  BY <1>4, RewriteText
<1>6. a[Len(r)] = tx'
  BY <1>2, <1>5 DEF TrackAll
<1>7. ASSUME NEW i \in DOMAIN r, Warns(a[i - 1], Unwritten(r[i])) PROVE sent' \in warned'
  BY <1>2, <1>5, <1>7 DEF WarnsOf
<1>8. Tracks(a[0])'
  BY <1>1, <1>3 DEF Tracks
<1>9. \A i \in DOMAIN r : a[i] = TrackTx(a[i - 1], Unwritten(r[i]))
  BY <1>3, <1>5
<1>10. a \in [0..Len(r) -> TxState]
  BY <1>3, <1>5
<1>11. Ahead(r)'
  BY <1>6, <1>7, <1>8, <1>9, <1>10 DEF Ahead
<1> QED
  BY <1>4, <1>11

-----------------------------------------------------------------------------
(* The line of messages from the client to the session.                    *)

Joins(s, a, b, c) == s = a \o b \o c

Parts(s, a, b, c) ==
  /\ s \in Seq(Message) /\ Len(s) \in Nat /\ DOMAIN s = 1..Len(s)
  /\ Len(a) \in Nat /\ Len(b) \in Nat /\ Len(c) \in Nat
  /\ Len(s) = Len(a) + Len(b) + Len(c)
  /\ \A i \in DOMAIN s :
       s[i] = IF i <= Len(a) THEN a[i]
              ELSE IF i <= Len(a) + Len(b) THEN b[i - Len(a)] ELSE c[i - (Len(a) + Len(b))]

LEMMA Joined ==
  ASSUME NEW a \in Seq(Message), NEW b \in Seq(Message), NEW c \in Seq(Message), NEW s, Joins(s, a, b, c)
  PROVE  Parts(s, a, b, c)
<1>1. PICK d : d = a \o b
  OBVIOUS
<1>2. /\ d \in Seq(Message) /\ Len(d) = Len(a) + Len(b) /\ Len(a) \in Nat /\ Len(b) \in Nat /\ Len(c) \in Nat
      /\ \A i \in 1..Len(d) : d[i] = IF i <= Len(a) THEN a[i] ELSE b[i - Len(a)]
  BY <1>1
<1>3. /\ s = d \o c /\ s \in Seq(Message) /\ Len(s) = Len(d) + Len(c) /\ DOMAIN s = 1..Len(s)
      /\ \A i \in 1..Len(s) : s[i] = IF i <= Len(d) THEN d[i] ELSE c[i - Len(d)]
  BY <1>1, <1>2 DEF Joins
<1> QED
  BY <1>2, <1>3 DEF Parts

\* clientToBackend takes a message in hand.
Received(s, t, a, m, n, c) == s = InOrder(a, "receive", m, c) /\ t = InOrder(a, "forward", n, Tail(c))

LEMMA OrderReceived ==
  ASSUME NEW a \in Seq(Message), NEW m \in Message, NEW n \in Message, NEW c \in Seq(Message), c # <<>>,
         NEW s, NEW t, Received(s, t, a, m, n, c)
  PROVE  /\ s \in Seq(Message) /\ t \in Seq(Message)
         /\ Len(t) = Len(s) /\ Len(a) + 1 \in DOMAIN s /\ Len(a) \in Nat
         /\ s[Len(a) + 1] = Head(c) /\ t[Len(a) + 1] = n
         /\ \A i \in DOMAIN s : i # Len(a) + 1 => t[i] = s[i]
<1>1. PICK d, x, y : d = Tail(c) /\ x = <<Head(c)>> /\ y = <<n>>
  OBVIOUS
<1>2. /\ d \in Seq(Message) /\ x \in Seq(Message) /\ y \in Seq(Message) /\ Len(x) = 1 /\ Len(y) = 1
      /\ x[1] = Head(c) /\ y[1] = n /\ 1 \in 1..Len(x) /\ 1 \in 1..Len(y)
  BY <1>1
<1>3. c = x \o d
  BY <1>1
<1>4. s = a \o c
  BY DEF InOrder, Received
<1>5. Joins(s, a, x, d)
  <2>1. (a \o x) \o d = a \o (x \o d)
    BY <1>1, <1>2, ConcatAssociative
  <2> QED
    BY <1>3, <1>4, <2>1 DEF Joins
<1>6. Joins(t, a, y, d)
  BY <1>1 DEF InOrder, Joins, Received
<1>7. Parts(s, a, x, d) /\ Parts(t, a, y, d)
  BY <1>2, <1>5, <1>6, Joined
<1>8. /\ s \in Seq(Message) /\ t \in Seq(Message)
      /\ Len(t) = Len(s) /\ DOMAIN t = DOMAIN s /\ Len(a) + 1 \in DOMAIN s /\ Len(a) \in Nat
  BY <1>2, <1>7 DEF Parts
<1>9. s[Len(a) + 1] = Head(c) /\ t[Len(a) + 1] = n
  <2>1. (Len(a) + 1) - Len(a) = 1 /\ Len(a) + 1 <= Len(a) + 1 /\ ~(Len(a) + 1 <= Len(a))
    BY <1>8
  <2> QED
    BY <1>2, <1>7, <1>8, <2>1 DEF Parts
<1>10. ASSUME NEW i \in DOMAIN s, i # Len(a) + 1 PROVE t[i] = s[i]
  <2>1. CASE i <= Len(a)
    BY <1>7, <1>8, <2>1 DEF Parts
  <2>2. CASE ~(i <= Len(a))
    <3>1. i \in Nat /\ ~(i <= Len(a) + Len(x)) /\ ~(i <= Len(a) + Len(y))
      BY <1>2, <1>7, <1>10, <2>2 DEF Parts
    <3>2. s[i] = d[i - (Len(a) + Len(x))] /\ t[i] = d[i - (Len(a) + Len(y))]
      BY <1>7, <1>8, <2>2, <3>1 DEF Parts
    <3> QED
      BY <1>2, <3>2
  <2> QED
    BY <2>1, <2>2
<1> QED
  BY <1>8, <1>9, <1>10

\* It forwards it and goes on.
LEMMA OrderForwarded ==
  ASSUME NEW a \in Seq(Message), NEW m \in Message, NEW n \in Message, NEW c \in Seq(Message)
  PROVE  InOrder(Append(a, m), "receive", n, c) = InOrder(a, "forward", m, c)
<1>1. Append(a, m) = a \o <<m>>
  BY AppendIsConcat
<1>2. InOrder(Append(a, m), "receive", n, c) = a \o <<m>> \o <<>> \o c
  BY <1>1 DEF InOrder
<1>3. a \o <<m>> \in Seq(Message)
  OBVIOUS
<1>4. a \o <<m>> \o <<>> = a \o <<m>>
  BY <1>3, ConcatEmptySeq
<1> QED
  BY <1>2, <1>4 DEF InOrder

\* It returns: what it has not forwarded is lost.
Returned(s, t, a, u, m, c) == s = InOrder(a, u, m, c) /\ t = InOrder(a, "returned", m, c)

LEMMA OrderReturned ==
  ASSUME NEW a \in Seq(Message), NEW u, NEW m \in Message, NEW c \in Seq(Message),
         NEW s, NEW t, Returned(s, t, a, u, m, c)
  PROVE  /\ t = a /\ t \in Seq(Message) /\ s \in Seq(Message) /\ Len(t) <= Len(s)
         /\ Len(t) \in Nat /\ Len(s) \in Nat /\ DOMAIN t = 1..Len(t) /\ DOMAIN s = 1..Len(s)
         /\ \A i \in DOMAIN t : i \in DOMAIN s /\ t[i] = s[i]
<1>1. t = a
  BY DEF Returned, InOrder
<1>2. PICK x, y : x = (IF u = "forward" THEN <<m>> ELSE <<>>) /\ y = (IF u = "returned" THEN <<>> ELSE c)
  OBVIOUS
<1>a. x \in Seq(Message) /\ y \in Seq(Message) /\ Joins(s, a, x, y)
  BY <1>2 DEF Returned, InOrder, Joins
<1>3. Parts(s, a, x, y)
  BY <1>a, Joined
<1> QED
  BY <1>1, <1>3 DEF Parts

\* The session takes the first one.
Taken(s, t, a, u, m, c) == s = InOrder(a, u, m, c) /\ t = InOrder(Tail(a), u, m, c)

LEMMA OrderTaken ==
  ASSUME NEW a \in Seq(Message), a # <<>>, NEW u, NEW m \in Message, NEW c \in Seq(Message),
         NEW s, NEW t, Taken(s, t, a, u, m, c)
  PROVE  /\ s \in Seq(Message) /\ t \in Seq(Message) /\ DOMAIN t = 1..Len(t) /\ DOMAIN s = 1..Len(s)
         /\ Len(t) = Len(s) - 1 /\ s[1] = Head(a) /\ 1 \in DOMAIN s /\ Len(s) \in Nat
         /\ \A i \in DOMAIN t : i + 1 \in DOMAIN s /\ t[i] = s[i + 1] /\ i \in Nat /\ i > 0
<1>1. PICK b : b = Tail(a)
  OBVIOUS
<1>2. /\ a[1] = Head(a) /\ Len(a) \in Nat /\ Len(a) > 0 /\ b \in Seq(Message) /\ Len(b) = Len(a) - 1
      /\ \A i \in 1..Len(b) : b[i] = a[i + 1]
  BY <1>1, Front
<1>a. PICK x, y : x = (IF u = "forward" THEN <<m>> ELSE <<>>) /\ y = (IF u = "returned" THEN <<>> ELSE c)
  OBVIOUS
<1>3. x \in Seq(Message) /\ y \in Seq(Message) /\ Joins(s, a, x, y) /\ Joins(t, b, x, y)
  BY <1>1, <1>a DEF Taken, InOrder, Joins
<1>4. Parts(s, a, x, y) /\ Parts(t, b, x, y)
  BY <1>2, <1>3, Joined
<1>5. /\ s \in Seq(Message) /\ t \in Seq(Message) /\ DOMAIN t = 1..Len(t) /\ DOMAIN s = 1..Len(s)
      /\ Len(t) = Len(s) - 1 /\ 1 \in DOMAIN s /\ Len(s) \in Nat
      /\ \A i \in DOMAIN t : i + 1 \in DOMAIN s /\ i \in Nat /\ i > 0
  BY <1>2, <1>4 DEF Parts
<1>6. s[1] = Head(a)
  <2>1. 1 <= Len(a)
    BY <1>2
  <2> QED
    BY <1>2, <1>4, <1>5, <2>1 DEF Parts
<1>7. ASSUME NEW i \in DOMAIN t PROVE t[i] = s[i + 1]
  <2>0. i \in Nat /\ i + 1 \in DOMAIN s /\ Len(x) \in Nat
    BY <1>4, <1>5, <1>7 DEF Parts
  <2>1. CASE i <= Len(b)
    <3>1. i + 1 <= Len(a) /\ i \in 1..Len(b)
      BY <1>2, <1>5, <1>7, <2>0, <2>1
    <3> QED
      BY <1>2, <1>4, <1>7, <2>0, <2>1, <3>1 DEF Parts
  <2>2. CASE ~(i <= Len(b)) /\ i <= Len(b) + Len(x)
    <3>1. ~(i + 1 <= Len(a)) /\ i + 1 <= Len(a) + Len(x) /\ (i + 1) - Len(a) = i - Len(b)
      BY <1>2, <2>0, <2>2
    <3>2. t[i] = x[i - Len(b)] /\ s[i + 1] = x[(i + 1) - Len(a)]
      BY <1>4, <1>7, <2>0, <2>2, <3>1 DEF Parts
    <3> QED
      BY <3>1, <3>2
  <2>3. CASE ~(i <= Len(b)) /\ ~(i <= Len(b) + Len(x))
    <3>1. ~(i + 1 <= Len(a)) /\ ~(i + 1 <= Len(a) + Len(x))
          /\ (i + 1) - (Len(a) + Len(x)) = i - (Len(b) + Len(x))
      BY <1>2, <2>0, <2>3
    <3>2. t[i] = y[i - (Len(b) + Len(x))] /\ s[i + 1] = y[(i + 1) - (Len(a) + Len(x))]
      BY <1>4, <1>7, <2>0, <2>3, <3>1 DEF Parts
    <3> QED
      BY <3>1, <3>2
  <2> QED
    BY <2>1, <2>2, <2>3
<1> QED
  BY <1>5, <1>6, <1>7

-----------------------------------------------------------------------------
(* The invariant, taken apart and put together.                            *)

LEMMA LineParts ==
  ASSUME NEW l, l = Line, TrackInv, rejected = {}
  PROVE  up \notin {"sendError", "drainUntilSync"} /\ LineInv(l) /\ StatusInv /\ MixOK
BY DEF TrackInv

LEMMA LineNext ==
  ASSUME NEW k, k = Line', LineInv(k)', StatusInv', MixOK', up' \notin {"sendError", "drainUntilSync"}
  PROVE  TrackInv'
BY DEF TrackInv

LEMMA LineSettled ==
  ASSUME NEW k, NEW p, p = Pended(k)', Single(k), TextInv(k)', Due(p)',
         query' = NoQuery /\ skipping' = FALSE /\ Executes(k) /\ ~TextAhead(k) => Len(prepared') = 1
  PROVE  LineInv(k)'
BY DEF LineInv

LEMMA StatusStays ==
  ASSUME UNCHANGED <<fromBackend, toClient, down, reply, requests, got, block>>, StatusInv
  PROVE  StatusInv'
<1>1. Answers' = Answers /\ Told' = Told
  BY DEF Answers, Told
<1> QED
  BY <1>1 DEF StatusInv

LEMMA MixStays ==
  ASSUME UNCHANGED <<work, warned>>, MixOK
  PROVE  MixOK'
BY DEF MixOK, Mixed

LEMMA DueStays ==
  ASSUME UNCHANGED <<block, work, tx, sent, warned>>, up' = "returned" \/ (up # "returned" /\ up' # "returned")
         \/ up' = up, NEW sql, Due(sql)
  PROVE  Due(sql)'
BY AheadStays DEF Due

LEMMA DueGone ==
  ASSUME up' = "returned", NEW sql, sql = <<>>
  PROVE  Due(sql)'
BY AheadGone DEF Due

\* Nothing happens to the line, to the session or to the TxState.
LEMMA LineStays ==
  ASSUME NEW l, l = Line, LineInv(l), Line' = l,
         UNCHANGED <<block, work, tx, sent, warned, query, skipping, prepared>>,
         up' = up \/ (up # "returned" /\ up' # "returned"),
         TextAhead(l) => (Unseen' <=> Unseen)
  PROVE  LineInv(l)'
<1>1. PICK p : p = Pended(l)
  OBVIOUS
<1>2. p = Pended(l)'
  BY <1>1 DEF Pended
<1>3. Due(p)'
  BY <1>1, DueStays DEF LineInv
<1>4. TextInv(l)'
  <2> SUFFICES ASSUME TextAhead(l)
               PROVE  /\ skipping' = FALSE /\ Fits(l[1].sql)'
                      /\ l[1].type = "Parse" => Len(l[1].sql) = 1 /\ (up' # "returned" => Executes(l))
    BY DEF TextInv
  <2>1. /\ skipping = FALSE /\ Fits(l[1].sql)
        /\ l[1].type = "Parse" => Len(l[1].sql) = 1 /\ (up # "returned" => Executes(l))
    BY DEF LineInv, TextInv
  <2> QED
    BY <2>1, AheadStays
<1> QED
  BY <1>2, <1>3, <1>4, LineSettled DEF LineInv

-----------------------------------------------------------------------------
(* clientToBackend.                                                        *)

\* What it finds when it takes a message.
LEMMA FrontPhase ==
  ASSUME TypeOK, LockInv, up = "receive", fromClient # <<>>, fromClient[1].type # "Terminate"
  PROVE  query = NoQuery /\ fromClient[1].batch = sent
<1>1. fromClient \in Seq(Message) /\ 1 \in 1..Len(fromClient) /\ Len(fromClient) \in Nat /\ Len(fromClient) # 0
  BY Front DEF TypeOK
<1>2. ~Over
  BY FrontOver
<1>3. ~Refused /\ ~InHand /\ ~AtBackend /\ ~Running
  BY DEF Refused, InHand, AtBackend, Running
<1>4. ~Answering
  BY <1>1 DEF Answering, Drained
<1>5. CASE Fresh
  BY <1>5, FrontFresh DEF Fresh, BackendIdle
<1>6. CASE Half
  BY <1>1, <1>6 DEF Half, AskedFrom
<1> QED
  BY <1>2, <1>3, <1>4, <1>5, <1>6 DEF LockInv, Phases

LEMMA InspectTrack ==
  ASSUME TypeOK, TypeOK', LockInv, TrackInv, Inspect
  PROVE  TrackInv'
<1> DEFINE m == Head(fromClient)
<1>0. /\ up = "receive" /\ fromClient # <<>> /\ fromClient' = Tail(fromClient) /\ m.type \in WithText
      /\ UNCHANGED <<toBackend, sent, requests, got, toClient, fromBackend, query, skipping, prepared, block,
                     work, down, reply>>
  BY DEF Inspect, Receive, UpFrame, backendVars, sessionVars, downVars, clientVars
<1>1. /\ fromClient \in Seq(Message) /\ toBackend \in Seq(Message) /\ carried \in Message /\ carried' \in Message
      /\ tx \in TxState /\ sent \in Nat
  BY DEF TypeOK, BackendTypeOK
<1>2. m = fromClient[1] /\ m \in Message /\ m.type # "Terminate" /\ m.sql \in Seq(Statements)
  <2>1. m = fromClient[1] /\ m \in Message
    BY <1>0, <1>1, Front
  <2> QED
    BY <1>0, <2>1 DEF Message, WithText, WithoutText
<1>3. query = NoQuery /\ m.batch = sent
  BY <1>0, <1>2, FrontPhase
<1> SUFFICES ASSUME rejected' = {} PROVE TrackInv'
  BY DEF TrackInv
<1>4. /\ rejected = {} /\ ~Check(m.sql) /\ up' = "forward" /\ carried' = [m EXCEPT !.sql = Rewrite(m.sql)]
      /\ tx' = TrackAll(tx, m.sql)
      /\ warned' = IF WarnsOf(tx, m.sql) THEN warned \cup {sent} ELSE warned
  <2>1. CASE Check(m.sql)
    BY <2>1 DEF Inspect
  <2>2. CASE ~Check(m.sql)
    BY <1>3, <2>2 DEF Inspect
  <2> QED
    BY <2>1, <2>2
<1>5. carried'.type = m.type /\ carried'.sql = Rewrite(m.sql)
  BY <1>2, <1>4 DEF Message
<1>6. PICK l, k : l = Line /\ k = Line'
  OBVIOUS
<1>7. Received(l, k, toBackend, carried, carried', fromClient)
  BY <1>0, <1>4, <1>6 DEF Line, Received
<1>8. /\ l \in Seq(Message) /\ k \in Seq(Message) /\ Len(k) = Len(l)
      /\ Len(toBackend) + 1 \in DOMAIN l /\ Len(toBackend) \in Nat
      /\ l[Len(toBackend) + 1] = m /\ k[Len(toBackend) + 1] = carried'
      /\ \A i \in DOMAIN l : i # Len(toBackend) + 1 => k[i] = l[i]
  BY <1>0, <1>1, <1>7, OrderReceived
<1>9. LineInv(l) /\ StatusInv /\ MixOK
  BY <1>4, <1>6, LineParts
<1>10. Len(toBackend) = 0
  BY <1>0, <1>8, <1>9 DEF LineInv, Single
<1>11. toBackend = <<>> /\ l[1] = m /\ k[1] = carried' /\ 1 \in DOMAIN l /\ DOMAIN k = DOMAIN l
       /\ \A i \in DOMAIN l : k[i].type = l[i].type
  BY <1>1, <1>5, <1>8, <1>10
<1>12. TextAhead(l) /\ TextAhead(k)
  BY <1>0, <1>5, <1>8, <1>11 DEF TextAhead
<1>13. Single(k) /\ (Executes(l) => Executes(k))
  BY <1>9, <1>11 DEF LineInv, Single, Executes
<1>14. /\ skipping = FALSE /\ Fits(m.sql) /\ (m.type = "Parse" => Len(m.sql) = 1 /\ Executes(l))
       /\ Pended(l) = <<>>
  BY <1>0, <1>3, <1>9, <1>11, <1>12 DEF LineInv, TextInv, Pended, Unseen
<1>15. PICK r : r = Rewrite(m.sql)
  OBVIOUS
<1>16. r \in Seq(Statements) /\ Len(r) = Len(m.sql)
  BY <1>2, <1>15, RewriteText
<1>17. Fits(r)'
  <2>1. Fits(r)
    BY <1>2, <1>14, <1>15, RewriteFits
  <2> QED
    BY <1>0, <2>1 DEF Fits
<1>18. Ahead(r)'
  <2>1. Ahead(<<>>)
    BY <1>9, <1>14 DEF LineInv, Due
  <2> QED
    BY <1>0, <1>1, <1>2, <1>4, <1>15, <2>1, AheadInspected
<1>19. r = Pended(k)'
  BY <1>0, <1>3, <1>4, <1>5, <1>11, <1>12, <1>15 DEF Pended, Unseen
<1>20. TextInv(k)'
  BY <1>0, <1>5, <1>11, <1>13, <1>14, <1>15, <1>16, <1>17 DEF TextInv
<1>21. LineInv(k)'
  BY <1>12, <1>13, <1>17, <1>18, <1>19, <1>20, LineSettled DEF Due
<1>22. StatusInv'
  BY <1>0, <1>9, StatusStays
<1>23. MixOK'
  BY <1>0, <1>4, <1>9 DEF MixOK, Mixed
<1> QED
  BY <1>4, <1>6, <1>21, <1>22, <1>23, LineNext

LEMMA PassOnTrack ==
  ASSUME TypeOK, TypeOK', TrackInv, PassOn
  PROVE  TrackInv'
<1> DEFINE m == Head(fromClient)
<1>0. /\ up = "receive" /\ up' = "forward" /\ fromClient # <<>> /\ fromClient' = Tail(fromClient)
      /\ carried' = m /\ m.type \in WithoutText
      /\ UNCHANGED <<toBackend, sent, requests, got, toClient, fromBackend, query, skipping, prepared, block,
                     work, down, reply, tx, warned, rejected>>
  BY DEF PassOn, Receive, UpFrame, backendVars, sessionVars, downVars, clientVars
<1>1. /\ fromClient \in Seq(Message) /\ toBackend \in Seq(Message) /\ carried \in Message /\ carried' \in Message
  BY DEF TypeOK, BackendTypeOK
<1> SUFFICES ASSUME rejected = {} PROVE TrackInv'
  BY <1>0 DEF TrackInv
<1>2. PICK l, k : l = Line /\ k = Line'
  OBVIOUS
<1>3. Received(l, k, toBackend, carried, carried', fromClient)
  BY <1>0, <1>2 DEF Line, Received
<1>4. /\ l \in Seq(Message) /\ k \in Seq(Message) /\ Len(k) = Len(l)
      /\ Len(toBackend) + 1 \in DOMAIN l /\ Len(toBackend) \in Nat
      /\ l[Len(toBackend) + 1] = m /\ k[Len(toBackend) + 1] = carried'
      /\ \A i \in DOMAIN l : i # Len(toBackend) + 1 => k[i] = l[i]
  BY <1>0, <1>1, <1>3, OrderReceived
<1>5. k = l
  <2>1. \A i \in 1..Len(l) : k[i] = l[i]
    BY <1>0, <1>4
  <2> QED
    BY <1>4, <2>1
<1>6. LineInv(l) /\ StatusInv /\ MixOK
  BY <1>2, LineParts
<1>7. TextAhead(l) => (Unseen' <=> Unseen)
  <2>1. CASE toBackend = <<>>
    <3>1. Len(toBackend) = 0
      BY <2>1
    <3>2. l[1] = m
      BY <1>4, <3>1
    <3> QED
      BY <1>0, <3>2 DEF TextAhead, WithText, WithoutText
  <2>2. CASE toBackend # <<>>
    BY <1>0, <2>2 DEF Unseen
  <2> QED
    BY <2>1, <2>2
<1>8. LineInv(l)'
  BY <1>0, <1>2, <1>5, <1>6, <1>7, LineStays
<1> QED
  BY <1>0, <1>2, <1>5, <1>6, <1>8, StatusStays, MixStays, LineNext

\* It returns: what the session has of the line is all that is left of it.
LEMMA LineReturned ==
  ASSUME TypeOK, TypeOK', NEW l, l = Line, LineInv(l), up' = "returned",
         NEW k, k = Line', Len(k) <= Len(l), k \in Seq(Message), l \in Seq(Message),
         \A i \in DOMAIN k : i \in DOMAIN l /\ k[i] = l[i],
         k # <<>> => toBackend' # <<>> /\ ~Unseen,
         UNCHANGED <<block, work, tx, sent, warned, query, skipping, prepared>>
  PROVE  LineInv(k)'
<1>1. Single(k) /\ (Executes(k) => Executes(l))
  BY DEF LineInv, Single, Executes
<1>2. k # <<>> => 1 \in DOMAIN k /\ k[1] = l[1] /\ l # <<>>
  <2> SUFFICES ASSUME k # <<>> PROVE 1 \in DOMAIN k /\ l # <<>>
    OBVIOUS
  <2>1. Len(k) \in Nat /\ Len(k) > 0 /\ 1 \in DOMAIN k
    BY Front
  <2>2. l # <<>>
    BY <2>1
  <2> QED
    BY <2>1, <2>2
<1>3. TextAhead(k) => TextAhead(l) /\ l[1] = k[1]
  BY <1>2 DEF TextAhead
<1>4. TextInv(k)'
  <2> SUFFICES ASSUME TextAhead(k)
               PROVE  skipping' = FALSE /\ Fits(k[1].sql)' /\ (k[1].type = "Parse" => Len(k[1].sql) = 1)
    BY DEF TextInv
  <2>1. skipping = FALSE /\ Fits(l[1].sql) /\ (l[1].type = "Parse" => Len(l[1].sql) = 1)
    BY <1>3 DEF LineInv, TextInv
  <2> QED
    BY <1>3, <2>1, AheadStays
<1>5. PICK p, q : p = Pended(l) /\ q = Pended(k)'
  OBVIOUS
<1>6. q = p \/ q = <<>>
  <2>1. CASE query # NoQuery
    BY <1>5, <2>1 DEF Pended
  <2>2. CASE query = NoQuery /\ TextAhead(k)
    BY <1>3, <1>5, <2>2 DEF Pended, TextAhead, Unseen
  <2>3. CASE query = NoQuery /\ ~TextAhead(k) /\ skipping = FALSE /\ Executes(k)
    <3>1. k # <<>> /\ ~TextAhead(l)
      <4>1. k # <<>>
        BY <2>3 DEF Executes
      <4> QED
        BY <1>2, <2>3, <4>1 DEF TextAhead
    <3> QED
      BY <1>1, <1>5, <2>3, <3>1 DEF Pended
  <2>4. CASE query = NoQuery /\ ~TextAhead(k) /\ ~(skipping = FALSE /\ Executes(k))
    BY <1>5, <2>4 DEF Pended
  <2> QED
    BY <2>1, <2>2, <2>3, <2>4
<1>7. Due(q)'
  BY <1>5, <1>6, DueStays, DueGone DEF LineInv
<1>8. query' = NoQuery /\ skipping' = FALSE /\ Executes(k) /\ ~TextAhead(k) => Len(prepared') = 1
  <2>1. Executes(k) /\ ~TextAhead(k) => ~TextAhead(l)
    BY <1>2 DEF Executes, TextAhead
  <2> QED
    BY <1>1, <2>1 DEF LineInv
<1> QED
  BY <1>1, <1>4, <1>5, <1>7, <1>8, LineSettled

LEMMA ForwardTrack ==
  ASSUME TypeOK, TypeOK', TrackInv, Forward
  PROVE  TrackInv'
<1>0. /\ up = "forward" /\ toBackend' = Append(toBackend, carried)
      /\ IF carried.type = "Terminate" THEN up' = "returned" ELSE up' = "receive"
      /\ UNCHANGED <<fromClient, carried, sent, requests, got, toClient, fromBackend, query, skipping, prepared,
                     block, work, down, reply, tx, warned, rejected>>
  BY DEF Forward, UpReturns, sessionVars, downVars, clientVars
<1>1. /\ fromClient \in Seq(Message) /\ toBackend \in Seq(Message) /\ toBackend' \in Seq(Message)
      /\ carried \in Message
  BY DEF TypeOK, BackendTypeOK
<1> SUFFICES ASSUME rejected = {} PROVE TrackInv'
  BY <1>0 DEF TrackInv
<1>2. PICK l, k : l = Line /\ k = Line'
  OBVIOUS
<1>3. LineInv(l) /\ StatusInv /\ MixOK
  BY <1>2, LineParts
<1>4. toBackend' # <<>> /\ ~Unseen /\ ~Unseen'
  BY <1>0, <1>1, Behind DEF Unseen
<1>5. l = InOrder(toBackend, "forward", carried, fromClient)
  BY <1>0, <1>2 DEF Line
<1>6. l = InOrder(toBackend', "receive", carried, fromClient)
  BY <1>0, <1>1, <1>5, OrderForwarded
<1>7. LineInv(k)'
  <2>1. CASE up' = "receive"
    <3>1. k = l /\ Line' = l
      BY <1>0, <1>2, <1>6, <2>1 DEF Line
    <3>2. up # "returned" /\ up' # "returned" /\ (Unseen' <=> Unseen)
      BY <1>0, <1>4, <2>1
    <3>3. LineInv(l)'
      BY <1>0, <1>2, <1>3, <3>1, <3>2, LineStays
    <3> QED
      BY <3>1, <3>3
  <2>2. CASE up' = "returned"
    <3>1. Returned(l, k, toBackend', "receive", carried, fromClient)
      BY <1>0, <1>2, <1>6, <2>2 DEF Line, Returned
    <3>2. /\ k \in Seq(Message) /\ l \in Seq(Message) /\ Len(k) <= Len(l)
          /\ \A i \in DOMAIN k : i \in DOMAIN l /\ k[i] = l[i]
      BY <1>1, <3>1, OrderReturned
    <3> QED
      BY <1>0, <1>2, <1>3, <1>4, <2>2, <3>2, LineReturned
  <2> QED
    BY <1>0, <2>1, <2>2
<1> QED
  BY <1>0, <1>2, <1>3, <1>7, StatusStays, MixStays, LineNext

LEMMA UpStopsTrack ==
  ASSUME TypeOK, TypeOK', TrackInv, UpStops
  PROVE  TrackInv'
<1>0. /\ up' = "returned"
      /\ UNCHANGED <<fromClient, toBackend, carried, sent, requests, got, toClient, fromBackend, query, skipping,
                     prepared, block, work, down, reply, tx, warned, rejected>>
  BY DEF UpStops, UpReturns, UpFrame, backendVars, sessionVars, downVars, clientVars
<1>1. fromClient \in Seq(Message) /\ toBackend \in Seq(Message) /\ carried \in Message
  BY DEF TypeOK, BackendTypeOK
<1> SUFFICES ASSUME rejected = {} PROVE TrackInv'
  BY <1>0 DEF TrackInv
<1>2. PICK l, k : l = Line /\ k = Line'
  OBVIOUS
<1>3. LineInv(l) /\ StatusInv /\ MixOK
  BY <1>2, LineParts
<1>4. Returned(l, k, toBackend, up, carried, fromClient)
  BY <1>0, <1>2 DEF Line, Returned
<1>5. /\ k \in Seq(Message) /\ l \in Seq(Message) /\ Len(k) <= Len(l) /\ k = toBackend
      /\ \A i \in DOMAIN k : i \in DOMAIN l /\ k[i] = l[i]
  BY <1>1, <1>4, OrderReturned
<1>6. k # <<>> => toBackend' # <<>> /\ ~Unseen
  BY <1>0, <1>5 DEF Unseen
<1>7. LineInv(k)'
  BY <1>0, <1>2, <1>3, <1>5, <1>6, LineReturned
<1> QED
  BY <1>0, <1>2, <1>3, <1>7, StatusStays, MixStays, LineNext

LEMMA RejectTrack ==
  ASSUME TrackInv, SendError \/ DrainUntilSync
  PROVE  TrackInv'
<1>1. up \in {"sendError", "drainUntilSync"} /\ rejected' = rejected
  BY DEF SendError, Rejecting, DrainUntilSync, Draining
<1> QED
  BY <1>1 DEF TrackInv

LEMMA UpTrack ==
  ASSUME TypeOK, TypeOK', LockInv, TrackInv, ClientToBackend
  PROVE  TrackInv'
BY InspectTrack, PassOnTrack, ForwardTrack, RejectTrack, UpStopsTrack DEF ClientToBackend

-----------------------------------------------------------------------------
(* backendToClient: the replies keep their status.                         *)

LEMMA ReceiveReplyStatus ==
  ASSUME TypeOK, StatusInv, ReceiveReply
  PROVE  StatusInv'
<1>1. /\ fromBackend \in Seq(Reply) /\ fromBackend # <<>> /\ fromBackend' = Tail(fromBackend)
      /\ reply' = Head(fromBackend) /\ UNCHANGED <<toClient, block, requests, got>>
  BY DEF TypeOK, BackendTypeOK, ReceiveReply, DownFrame, sessionVars, clientVars
<1>2. /\ Len(fromBackend) \in Nat /\ Len(fromBackend) > 0 /\ fromBackend[1] = reply'
      /\ DOMAIN fromBackend = 1..Len(fromBackend) /\ DOMAIN fromBackend' = 1..Len(fromBackend) - 1
      /\ \A i \in 1..Len(fromBackend) - 1 : fromBackend'[i] = fromBackend[i + 1]
  BY <1>1, ReplyFront
<1>3. \A i \in DOMAIN fromBackend' : fromBackend'[i].type = "Ready" => fromBackend'[i].status = block'
  BY <1>1, <1>2 DEF StatusInv
<1>4. reply'.type = "Ready" => reply'.status = block'
  BY <1>1, <1>2 DEF StatusInv
<1>5. Answers' = Answers /\ Told' = Told
  BY <1>1 DEF Answers, Told
<1> QED
  BY <1>1, <1>3, <1>4, <1>5 DEF StatusInv

LEMMA ForwardReplyStatus ==
  ASSUME TypeOK, StatusInv, ForwardReply
  PROVE  StatusInv'
<1>1. /\ toClient \in Seq(Reply) /\ reply \in Reply /\ toClient' = Append(toClient, reply)
      /\ down = "forward" /\ down' = "receive"
      /\ UNCHANGED <<fromBackend, reply, block, requests, got>>
  BY DEF TypeOK, ForwardReply, DownFrame, sessionVars, clientVars
<1>2. \A i \in DOMAIN toClient' : (i \in DOMAIN toClient /\ toClient'[i] = toClient[i]) \/ toClient'[i] = reply
  BY <1>1, ReplyBehind
<1>3. \A i \in DOMAIN toClient' : toClient'[i].type = "Ready" => toClient'[i].status = block'
  BY <1>1, <1>2 DEF StatusInv
<1>4. Answers' = Answers /\ Told' = Told
  BY <1>1 DEF Answers, Told
<1> QED
  BY <1>1, <1>3, <1>4 DEF StatusInv

LEMMA DownStopsStatus ==
  ASSUME StatusInv, DownStops
  PROVE  StatusInv'
<1>1. down' = "returned" /\ UNCHANGED <<fromBackend, toClient, reply, block, requests, got>>
  BY DEF DownStops, DownReturns, DownFrame, sessionVars, clientVars
<1>2. Answers' = Answers /\ Told' = Told
  BY <1>1 DEF Answers, Told
<1> QED
  BY <1>1, <1>2 DEF StatusInv

LEMMA DownTrack ==
  ASSUME TypeOK, TrackInv, BackendToClient
  PROVE  TrackInv'
<1>1. UNCHANGED <<toBackend, fromClient, up, carried, sent, query, skipping, prepared, block, work, tx, warned,
                  rejected>>
  BY DEF BackendToClient, ReceiveReply, ForwardReply, DownStops, DownFrame, sessionVars, upVars, clientVars
<1> SUFFICES ASSUME rejected = {} PROVE TrackInv'
  BY <1>1 DEF TrackInv
<1>2. PICK l : l = Line
  OBVIOUS
<1>3. LineInv(l) /\ StatusInv /\ MixOK /\ up \notin {"sendError", "drainUntilSync"}
  BY <1>2, LineParts
<1>4. Line' = l /\ (Unseen' <=> Unseen)
  BY <1>1, <1>2 DEF Line, Unseen
<1>5. LineInv(l)'
  BY <1>1, <1>2, <1>3, <1>4, LineStays
<1>6. StatusInv'
  BY <1>3, ReceiveReplyStatus, ForwardReplyStatus, DownStopsStatus DEF BackendToClient
<1> QED
  BY <1>1, <1>3, <1>4, <1>5, <1>6, MixStays, LineNext

-----------------------------------------------------------------------------
(* The session.                                                            *)

\* A client that waits has not its answer.
LEMMA PendingOpen ==
  ASSUME TypeOK', Pending'
  PROVE  requests' # Answers'
<1>1. PICK g : g = got'
  OBVIOUS
<1>2. g \in Seq(Reply)
  BY <1>1 DEF TypeOK
<1>3. Answers' = Cardinality({i \in DOMAIN g : g[i].type = "Ready"})
  BY <1>1 DEF Answers
<1>4. Answers' \in Nat
  BY <1>2, <1>3, CountType
<1>5. PICK n : n = Answers'
  OBVIOUS
<1>6. n \in Nat /\ requests' = n + 1
  BY <1>4, <1>5 DEF Pending
<1>7. requests' # n
  BY <1>6
<1> QED
  BY <1>5, <1>7

\* While the client waits and no ReadyForQuery is on its way there is no
\* status to be told.
LEMMA StatusUntold ==
  ASSUME TypeOK', Unanswered', Pending'
  PROVE  StatusInv'
<1>1. requests' # Answers'
  BY PendingOpen
<1> QED
  BY <1>1 DEF StatusInv, Unanswered, NoReady

LEMMA SessionEnds ==
  ASSUME TrackInv, Elsewhere, EndSession
  PROVE  TrackInv'
<1>1. UNCHANGED <<toBackend, fromClient, up, carried, sent, query, skipping, prepared, block, work, tx, warned,
                  rejected, fromBackend, toClient, down, reply, requests, got>>
  BY DEF Elsewhere, EndSession, streamVars, upVars, downVars, clientVars, historyVars
<1> SUFFICES ASSUME rejected = {} PROVE TrackInv'
  BY <1>1 DEF TrackInv
<1>2. PICK l : l = Line
  OBVIOUS
<1>3. LineInv(l) /\ StatusInv /\ MixOK /\ up \notin {"sendError", "drainUntilSync"}
  BY <1>2, LineParts
<1>4. Line' = l /\ (Unseen' <=> Unseen)
  BY <1>1, <1>2 DEF Line, Unseen
<1>5. LineInv(l)'
  BY <1>1, <1>2, <1>3, <1>4, LineStays
<1> QED
  BY <1>1, <1>3, <1>4, <1>5, StatusStays, MixStays, LineNext

\* What a step of the session leaves alone.
LEMMA ServeKeeps ==
  ASSUME Elsewhere
  PROVE  /\ UNCHANGED <<fromClient, up, carried, sent, tx, warned, rejected, toClient, down, reply, requests, got>>
         /\ Answers' = Answers /\ Told' = Told
<1>1. UNCHANGED <<fromClient, up, carried, sent, tx, warned, rejected, toClient, down, reply, requests, got>>
  BY DEF Elsewhere, streamVars, upVars, downVars, clientVars, historyVars
<1> QED
  BY <1>1 DEF Answers, Told

\* It takes a message.
LEMMA LineTaken ==
  ASSUME TypeOK, Elsewhere, NEW l, l = Line, NEW k, k = Line', toBackend # <<>>, toBackend' = Tail(toBackend)
  PROVE  /\ l \in Seq(Message) /\ k \in Seq(Message) /\ DOMAIN k = 1..Len(k) /\ DOMAIN l = 1..Len(l)
         /\ Len(k) = Len(l) - 1 /\ l[1] = Head(toBackend) /\ 1 \in DOMAIN l /\ Len(l) \in Nat /\ l # <<>>
         /\ \A i \in DOMAIN k : i + 1 \in DOMAIN l /\ k[i] = l[i + 1] /\ i \in Nat /\ i > 0
         /\ Single(l) => /\ Single(k) /\ ~TextAhead(k)
                         /\ Head(toBackend).type = "Execute" => ~Executes(k)
                         /\ Head(toBackend).type # "Execute" => (Executes(k) <=> Executes(l))
<1>1. Taken(l, k, toBackend, up, carried, fromClient)
  BY ServeKeeps DEF Line, Taken
<1>2. /\ l \in Seq(Message) /\ k \in Seq(Message) /\ DOMAIN k = 1..Len(k) /\ DOMAIN l = 1..Len(l)
      /\ Len(k) = Len(l) - 1 /\ l[1] = Head(toBackend) /\ 1 \in DOMAIN l /\ Len(l) \in Nat
      /\ \A i \in DOMAIN k : i + 1 \in DOMAIN l /\ k[i] = l[i + 1] /\ i \in Nat /\ i > 0
  <2>1. toBackend \in Seq(Message) /\ carried \in Message /\ fromClient \in Seq(Message)
    BY DEF TypeOK, BackendTypeOK
  <2> QED
    BY <1>1, <2>1, OrderTaken
<1>3. l # <<>>
  BY <1>2
<1>4. ASSUME Single(l) PROVE Single(k) /\ ~TextAhead(k)
  <2>1. \A i \in DOMAIN k : k[i].type \notin WithText
    <3> TAKE i \in DOMAIN k
    <3>1. i + 1 \in DOMAIN l /\ k[i] = l[i + 1] /\ i + 1 # 1
      BY <1>2
    <3> QED
      BY <1>4, <3>1 DEF Single
  <2>2. \A i, j \in DOMAIN k : k[i].type = "Execute" /\ k[j].type = "Execute" => i = j
    <3> TAKE i, j \in DOMAIN k
    <3>1. /\ i + 1 \in DOMAIN l /\ k[i] = l[i + 1] /\ j + 1 \in DOMAIN l /\ k[j] = l[j + 1]
          /\ i + 1 = j + 1 => i = j
      BY <1>2
    <3> QED
      BY <1>4, <3>1 DEF Single
  <2>3. k # <<>> => 1 \in DOMAIN k
    BY <1>2, Front
  <2> QED
    BY <2>1, <2>2, <2>3 DEF Single, TextAhead
<1>5. ASSUME Single(l), Head(toBackend).type = "Execute" PROVE ~Executes(k)
  <2> SUFFICES ASSUME NEW i \in DOMAIN k PROVE k[i].type # "Execute"
    BY DEF Executes
  <2>1. i + 1 \in DOMAIN l /\ k[i] = l[i + 1] /\ i + 1 # 1
    BY <1>2
  <2> QED
    BY <1>2, <1>5, <2>1 DEF Single
<1>6. ASSUME Head(toBackend).type # "Execute" PROVE Executes(k) <=> Executes(l)
  <2>1. ASSUME NEW i \in DOMAIN l, l[i].type = "Execute" PROVE Executes(k)
    <3>1. i - 1 \in DOMAIN k /\ (i - 1) + 1 = i
      BY <1>2, <1>6, <2>1
    <3> QED
      BY <1>2, <2>1, <3>1 DEF Executes
  <2>2. Executes(k) => Executes(l)
    BY <1>2 DEF Executes
  <2> QED
    BY <2>1, <2>2 DEF Executes
<1> QED
  BY <1>2, <1>3, <1>4, <1>5, <1>6

\* What it is in the middle of then.
LEMMA TakePhase ==
  ASSUME TypeOK, LockInv, Elsewhere, toBackend # <<>>, Head(toBackend).type # "Terminate"
  PROVE  /\ Pending' /\ Head(toBackend).batch = sent /\ sent > 0
         /\ NoReady(fromBackend) /\ NoReady(held)
         /\ NoReady(fromBackend)' => Unanswered'
         /\ Head(toBackend).type = "Sync" => Len(toBackend) = 1 /\ fromClient = <<>> /\ up \in {"receive", "returned"}
<1>0. toBackend \in Seq(Message)
  BY DEF TypeOK, BackendTypeOK
<1>1. toBackend[1] = Head(toBackend) /\ 1 \in DOMAIN toBackend /\ DOMAIN toBackend = 1..Len(toBackend)
  BY <1>0, MessageTail
<1>2. Half \/ InHand \/ AtBackend
  BY <1>1 DEF LockInv, Phases, Over, Fresh, Refused, Running, Answering
<1>3. Pending /\ Unanswered /\ OfBatch(toBackend)
  BY <1>2 DEF Half, InHand, AtBackend
<1>4. Head(toBackend).type = "Sync" => Len(toBackend) = 1 /\ fromClient = <<>> /\ up \in {"receive", "returned"}
  <2> SUFFICES ASSUME Head(toBackend).type = "Sync"
               PROVE  Len(toBackend) = 1 /\ fromClient = <<>> /\ up \in {"receive", "returned"}
    OBVIOUS
  <2>1. ~Half /\ ~InHand
    BY <1>1 DEF Half, InHand, Partial
  <2> QED
    BY <1>1, <1>2, <2>1 DEF AtBackend
<1> QED
  BY <1>1, <1>3, <1>4, ElsewhereKeeps DEF LockInv, ReplyInv, Unanswered, OfBatch, Pending

LEMMA NoReadyBehind ==
  ASSUME NEW s \in Seq(Reply), NEW r \in Seq(Reply), NoReady(s), NoReady(r)
  PROVE  NoReady(s \o r)
<1>1. \A i \in DOMAIN (s \o r) : \/ i \in DOMAIN s /\ (s \o r)[i] = s[i]
                                 \/ i - Len(s) \in DOMAIN r /\ (s \o r)[i] = r[i - Len(s)]
  BY ReplyConcat
<1> QED
  BY <1>1 DEF NoReady

LEMMA TakeQueryTrack ==
  ASSUME TypeOK, TypeOK', LockInv, TrackInv, TakeQuery, Elsewhere
  PROVE  TrackInv'
<1> DEFINE m == Head(toBackend)
<1>0. /\ query = NoQuery /\ toBackend # <<>> /\ toBackend' = Tail(toBackend) /\ m.type = "Query"
      /\ query' = IF skipping THEN NoQuery ELSE [sql |-> m.sql, batch |-> m.batch]
      /\ fromBackend' = IF skipping THEN fromBackend ELSE fromBackend \o held
      /\ UNCHANGED <<block, prepared, skipping, work>>
  BY DEF TakeQuery, Take
<1>1. /\ UNCHANGED <<fromClient, up, carried, sent, tx, warned, rejected, toClient, down, reply, requests, got>>
      /\ fromBackend \in Seq(Reply) /\ held \in Seq(Reply)
  BY ServeKeeps DEF TypeOK, BackendTypeOK
<1> SUFFICES ASSUME rejected = {} PROVE TrackInv'
  BY <1>1 DEF TrackInv
<1>2. PICK l, k : l = Line /\ k = Line'
  OBVIOUS
<1>3. LineInv(l) /\ StatusInv /\ MixOK /\ up \notin {"sendError", "drainUntilSync"}
  BY <1>2, LineParts
<1>4. l[1] = m /\ l # <<>> /\ Single(k) /\ ~TextAhead(k)
  BY <1>0, <1>2, <1>3, LineTaken DEF LineInv
<1>5. TextAhead(l)
  BY <1>0, <1>4 DEF TextAhead, WithText
<1>6. skipping = FALSE
  BY <1>3, <1>5 DEF LineInv, TextInv
<1>7. m.batch = sent /\ sent > 0 /\ Pending' /\ NoReady(fromBackend) /\ NoReady(held)
      /\ (NoReady(fromBackend)' => Unanswered')
  BY <1>0, TakePhase
<1>8. query' = [sql |-> m.sql, batch |-> m.batch] /\ query' # NoQuery
  BY <1>0, <1>6, <1>7 DEF NoQuery, TypeOK
<1>9. PICK p : p = m.sql
  OBVIOUS
<1>10. p = Pended(l) /\ p = Pended(k)'
  BY <1>0, <1>4, <1>5, <1>8, <1>9 DEF Pended, Unseen
<1>11. Due(p)'
  BY <1>0, <1>1, <1>3, <1>10, DueStays DEF LineInv
<1>12. LineInv(k)'
  BY <1>4, <1>8, <1>10, <1>11, LineSettled DEF TextInv
<1>13. NoReady(fromBackend)'
  BY <1>0, <1>1, <1>7, NoReadyBehind
<1> QED
  BY <1>0, <1>1, <1>2, <1>3, <1>7, <1>12, <1>13, StatusUntold, MixStays, LineNext

\* In the middle of a Query there is no line.
LEMMA RunningLine ==
  ASSUME LockInv, query # NoQuery
  PROVE  /\ Line = <<>> /\ toBackend = <<>> /\ query.batch = sent /\ sent > 0 /\ Pending /\ Unanswered
         /\ fromClient = <<>> /\ up \in {"receive", "returned"}
<1>1. Running
  BY DEF LockInv, Phases, Over, Fresh, Refused, Half, InHand, AtBackend, Answering, BackendIdle
<1> QED
  BY <1>1 DEF Running, Pending, Line, InOrder

LEMMA EmptyLine ==
  ASSUME NEW k, k = <<>>
  PROVE  Single(k) /\ ~TextAhead(k) /\ ~Executes(k)
BY DEF Single, TextAhead, Executes

LEMMA RunStatementTrack ==
  ASSUME TypeOK, TypeOK', LockInv, TrackInv, RunStatement, Elsewhere
  PROVE  TrackInv'
<1> DEFINE s == Head(query.sql)
<1>0. /\ query # NoQuery /\ query.sql # <<>> /\ UNCHANGED <<toBackend, prepared, skipping, held>>
      /\ \/ /\ Runs(s, query.batch)
            /\ query' = [query EXCEPT !.sql = Tail(@)]
            /\ fromBackend' = Append(fromBackend, Complete(query.batch))
         \/ /\ Fails(s)
            /\ query' = [query EXCEPT !.sql = <<>>]
            /\ fromBackend' = Append(fromBackend, Error(query.batch))
  BY DEF RunStatement
<1>1. /\ UNCHANGED <<fromClient, up, carried, sent, tx, warned, rejected, toClient, down, reply, requests, got>>
      /\ fromBackend \in Seq(Reply) /\ sent \in Nat /\ WorkOK /\ block \in {"I", "T", "E"} /\ tx \in TxState
      /\ query \in [sql : Seq(Statements), batch : Nat]
  BY ServeKeeps DEF TypeOK, BackendTypeOK, WorkOK
<1> SUFFICES ASSUME rejected = {} PROVE TrackInv'
  BY <1>1 DEF TrackInv
<1>2. /\ Line = <<>> /\ toBackend = <<>> /\ query.batch = sent /\ sent > 0 /\ Pending /\ Unanswered
      /\ fromClient = <<>> /\ up \in {"receive", "returned"}
  BY <1>0, RunningLine
<1>3. PICK k : k = Line' /\ k = Line /\ k = <<>>
  BY <1>0, <1>1, <1>2 DEF Line
<1>4. LineInv(k) /\ MixOK
  BY <1>3, LineParts
<1>5. PICK p, q : p = query.sql /\ q = query'.sql
  OBVIOUS
<1>6. query' # NoQuery /\ p \in Seq(Statements) /\ p # <<>>
  BY <1>0, <1>1, <1>2, <1>5 DEF NoQuery
<1>7. p = Pended(k) /\ q = Pended(k)'
  BY <1>0, <1>5, <1>6 DEF Pended
<1>8. Due(p)
  BY <1>4, <1>7 DEF LineInv
<1>9. Due(q)' /\ MixOK'
  <2>1. CASE Runs(s, query.batch) /\ query' = [query EXCEPT !.sql = Tail(@)]
    <3>1. q = Tail(p) /\ Runs(Head(p), sent)
      BY <1>1, <1>2, <1>5, <2>1
    <3> QED
      BY <1>1, <1>4, <1>6, <1>8, <3>1, AheadOn DEF Due
  <2>2. CASE Fails(s) /\ query' = [query EXCEPT !.sql = <<>>]
    <3>1. q = <<>>
      BY <1>1, <1>5, <2>2
    <3>2. Ahead(<<>>)' /\ Fits(<<>>)' /\ ~Mixed'
      BY <1>1, <2>2, AheadFails
    <3> QED
      BY <3>1, <3>2 DEF Due, MixOK
  <2> QED
    BY <1>0, <2>1, <2>2
<1>10. LineInv(k)'
  BY <1>3, <1>6, <1>7, <1>9, EmptyLine, LineSettled DEF TextInv
<1>11. Pending' /\ Unanswered'
  <2>1. PICK r \in Reply : fromBackend' = Append(fromBackend, r) /\ r.type # "Ready"
    <3>1. /\ Complete(query.batch) \in Reply /\ Complete(query.batch).type # "Ready"
          /\ Error(query.batch) \in Reply /\ Error(query.batch).type # "Ready"
      BY <1>1, ReplyTypes DEF Complete, Error
    <3> QED
      BY <1>0, <3>1
  <2>2. NoReady(fromBackend)'
    BY <1>1, <1>2, <2>1, ReplyBehind DEF Unanswered, NoReady
  <2> QED
    BY <1>2, <2>2, ElsewhereKeeps
<1> QED
  BY <1>1, <1>2, <1>3, <1>9, <1>10, <1>11, StatusUntold, LineNext

\* Outside a block what was done is committed.
LEMMA DueCommitted ==
  ASSUME block' = block, work' = IF block = "I" THEN NoWork ELSE work, UNCHANGED <<tx, sent, warned, up>>,
         NEW sql, Due(sql), MixOK
  PROVE  Due(sql)' /\ MixOK'
<1>1. \A t : Tracks(t) => Tracks(t)'
  BY DEF Tracks
<1>2. Ahead(sql)'
  BY <1>1 DEF Due, Ahead
<1>3. Fits(sql)'
  BY DEF Due, Fits
<1>4. MixOK'
  BY DEF MixOK, Mixed, NoWork
<1> QED
  BY <1>2, <1>3, <1>4 DEF Due

\* The status that goes out is the block's.
LEMMA StatusSent ==
  ASSUME TypeOK, TypeOK', StatusInv, NEW s \in Seq(Reply), NoReady(s), NEW b \in Nat,
         fromBackend' = fromBackend \o Append(s, Ready(b, block)), Pending',
         UNCHANGED <<toClient, down, reply, block>>
  PROVE  StatusInv'
<1>0. /\ Ready(b, block) \in Reply /\ Ready(b, block).status = block
      /\ fromBackend \in Seq(Reply) /\ Append(s, Ready(b, block)) \in Seq(Reply)
  BY ReplyTypes DEF Ready, TypeOK, BackendTypeOK
<1>1. PICK t \in Seq(Reply) : t = Append(s, Ready(b, block))
  BY <1>0
<1>2. \A i \in DOMAIN t : t[i].type = "Ready" => t[i].status = block
  BY <1>0, <1>1, ReplyBehind DEF NoReady
<1>3. \A i \in DOMAIN fromBackend' : \/ i \in DOMAIN fromBackend /\ fromBackend'[i] = fromBackend[i]
                                     \/ i - Len(fromBackend) \in DOMAIN t
                                        /\ fromBackend'[i] = t[i - Len(fromBackend)]
  BY <1>0, <1>1, ReplyConcat
<1>4. \A i \in DOMAIN fromBackend' : fromBackend'[i].type = "Ready" => fromBackend'[i].status = block'
  BY <1>2, <1>3 DEF StatusInv
<1>5. requests' # Answers'
  BY PendingOpen
<1> QED
  BY <1>4, <1>5 DEF StatusInv

LEMMA EndQueryTrack ==
  ASSUME TypeOK, TypeOK', LockInv, TrackInv, EndQuery, Elsewhere
  PROVE  TrackInv'
<1>0. /\ query # NoQuery /\ query.sql = <<>> /\ query' = NoQuery
      /\ fromBackend' = Append(fromBackend, Ready(query.batch, block))
      /\ work' = IF block = "I" THEN NoWork ELSE work
      /\ UNCHANGED <<toBackend, block, prepared, skipping, held>>
  BY DEF EndQuery
<1>1. /\ UNCHANGED <<fromClient, up, carried, sent, tx, warned, rejected, toClient, down, reply, requests, got>>
      /\ fromBackend \in Seq(Reply) /\ sent \in Nat /\ block \in {"I", "T", "E"} /\ query.batch \in Nat
  BY ServeKeeps DEF TypeOK, BackendTypeOK
<1> SUFFICES ASSUME rejected = {} PROVE TrackInv'
  BY <1>1 DEF TrackInv
<1>2. /\ Line = <<>> /\ toBackend = <<>> /\ Pending /\ Unanswered
      /\ fromClient = <<>> /\ up \in {"receive", "returned"}
  BY <1>0, RunningLine
<1>3. PICK k : k = Line' /\ k = Line /\ k = <<>>
  BY <1>0, <1>1, <1>2 DEF Line
<1>4. LineInv(k) /\ MixOK /\ StatusInv
  BY <1>3, LineParts
<1>5. PICK p : p = <<>>
  OBVIOUS
<1>6. p = Pended(k) /\ p = Pended(k)'
  BY <1>0, <1>3, <1>5, EmptyLine DEF Pended
<1>7. Due(p)' /\ MixOK'
  BY <1>0, <1>1, <1>4, <1>6, DueCommitted DEF LineInv
<1>8. LineInv(k)'
  BY <1>3, <1>6, <1>7, EmptyLine, LineSettled DEF TextInv
<1>9. Pending'
  BY <1>2, ElsewhereKeeps
<1>10. StatusInv'
  <2>0. PICK n : n = <<>>
    OBVIOUS
  <2>1. n = <<>> /\ n \in Seq(Reply) /\ NoReady(n)
    BY <2>0 DEF NoReady
  <2>2. Append(fromBackend, Ready(query.batch, block)) = fromBackend \o Append(n, Ready(query.batch, block))
    <3>1. PICK r \in Reply : r = Ready(query.batch, block)
      BY <1>1, ReplyTypes
    <3>2. Append(n, r) = <<r>>
      BY <2>1
    <3>3. Append(fromBackend, r) = fromBackend \o <<r>>
      BY <1>1, AppendIsConcat
    <3> QED
      BY <3>1, <3>2, <3>3
  <2> QED
    BY <1>0, <1>1, <1>4, <1>9, <2>1, <2>2, StatusSent
<1> QED
  BY <1>1, <1>2, <1>3, <1>7, <1>8, <1>10, LineNext

LEMMA TakeSyncTrack ==
  ASSUME TypeOK, TypeOK', LockInv, TrackInv, TakeSync, Elsewhere
  PROVE  TrackInv'
<1> DEFINE m == Head(toBackend)
<1>0. /\ query = NoQuery /\ query' = query /\ toBackend # <<>> /\ toBackend' = Tail(toBackend)
      /\ m.type = "Sync" /\ fromBackend' = fromBackend \o Append(held, Ready(m.batch, block))
      /\ skipping' = FALSE /\ work' = IF block = "I" THEN NoWork ELSE work
      /\ UNCHANGED <<block, prepared>>
  BY DEF TakeSync, Take
<1>1. /\ UNCHANGED <<fromClient, up, carried, sent, tx, warned, rejected, toClient, down, reply, requests, got>>
      /\ held \in Seq(Reply) /\ toBackend \in Seq(Message) /\ sent \in Nat
  BY ServeKeeps DEF TypeOK, BackendTypeOK
<1> SUFFICES ASSUME rejected = {} PROVE TrackInv'
  BY <1>1 DEF TrackInv
<1>2. /\ Pending' /\ m.batch = sent /\ NoReady(held)
      /\ Len(toBackend) = 1 /\ fromClient = <<>> /\ up \in {"receive", "returned"}
  BY <1>0, TakePhase
<1>3. PICK l, k : l = Line /\ k = Line'
  OBVIOUS
<1>4. k = <<>>
  <2>1. toBackend' = <<>>
    BY <1>0, <1>1, <1>2, Front
  <2> QED
    BY <1>1, <1>2, <1>3, <2>1 DEF Line, InOrder
<1>5. LineInv(l) /\ StatusInv /\ MixOK
  BY <1>3, LineParts
<1>6. ~TextAhead(l) /\ ~Executes(l)
  <2>1. l[1] = m /\ (Executes(k) <=> Executes(l))
    BY <1>0, <1>3, <1>5, LineTaken DEF LineInv
  <2> QED
    BY <1>0, <1>4, <2>1, EmptyLine DEF TextAhead, WithText
<1>7. PICK p : p = <<>>
  OBVIOUS
<1>8. p = Pended(l) /\ p = Pended(k)'
  BY <1>0, <1>4, <1>6, <1>7, EmptyLine DEF Pended
<1>9. Due(p)' /\ MixOK'
  BY <1>0, <1>1, <1>5, <1>8, DueCommitted DEF LineInv
<1>10. LineInv(k)'
  BY <1>4, <1>8, <1>9, EmptyLine, LineSettled DEF TextInv
<1>11. StatusInv'
  BY <1>0, <1>1, <1>2, <1>5, StatusSent
<1> QED
  BY <1>1, <1>2, <1>3, <1>9, <1>10, <1>11, LineNext

\* It takes a message of a batch without text, and runs nothing.
LEMMA TakePlainTrack ==
  ASSUME TypeOK, TypeOK', LockInv, TrackInv, TakeBind \/ TakeFlush, Elsewhere
  PROVE  TrackInv'
<1> DEFINE m == Head(toBackend)
<1>0. /\ query = NoQuery /\ query' = query /\ toBackend # <<>> /\ toBackend' = Tail(toBackend)
      /\ m.type \in {"Bind", "Flush"} /\ (fromBackend' = fromBackend \/ fromBackend' = fromBackend \o held)
      /\ UNCHANGED <<block, prepared, work, skipping>>
  BY DEF TakeBind, TakeFlush, Take, Skip, Answer
<1>1. /\ UNCHANGED <<fromClient, up, carried, sent, tx, warned, rejected, toClient, down, reply, requests, got>>
      /\ held \in Seq(Reply) /\ fromBackend \in Seq(Reply)
  BY ServeKeeps DEF TypeOK, BackendTypeOK
<1> SUFFICES ASSUME rejected = {} PROVE TrackInv'
  BY <1>1 DEF TrackInv
<1>2. Pending' /\ NoReady(fromBackend) /\ NoReady(held) /\ (NoReady(fromBackend)' => Unanswered')
  BY <1>0, TakePhase
<1>3. PICK l, k : l = Line /\ k = Line'
  OBVIOUS
<1>4. LineInv(l) /\ StatusInv /\ MixOK /\ up \notin {"sendError", "drainUntilSync"}
  BY <1>3, LineParts
<1>5. l[1] = m /\ (Executes(k) <=> Executes(l)) /\ Single(k) /\ ~TextAhead(k)
  BY <1>0, <1>3, <1>4, LineTaken DEF LineInv
<1>6. ~TextAhead(l)
  BY <1>0, <1>5 DEF TextAhead, WithText
<1>7. PICK p : p = Pended(l)
  OBVIOUS
<1>8. p = Pended(k)'
  BY <1>0, <1>5, <1>6, <1>7 DEF Pended
<1>9. Due(p)'
  BY <1>0, <1>1, <1>4, <1>7, DueStays DEF LineInv
<1>10. query' = NoQuery /\ skipping' = FALSE /\ Executes(k) /\ ~TextAhead(k) => Len(prepared') = 1
  BY <1>0, <1>4, <1>5, <1>6 DEF LineInv
<1>11. LineInv(k)'
  BY <1>5, <1>8, <1>9, <1>10, LineSettled DEF TextInv
<1>12. NoReady(fromBackend)'
  BY <1>0, <1>1, <1>2, NoReadyBehind
<1> QED
  BY <1>0, <1>1, <1>2, <1>3, <1>4, <1>11, <1>12, StatusUntold, MixStays, LineNext

LEMMA TakeParseTrack ==
  ASSUME TypeOK, TypeOK', LockInv, TrackInv, TakeParse, Elsewhere
  PROVE  TrackInv'
<1> DEFINE m == Head(toBackend)
<1>0. /\ query = NoQuery /\ query' = query /\ toBackend # <<>> /\ toBackend' = Tail(toBackend)
      /\ m.type = "Parse" /\ fromBackend' = fromBackend
      /\ \/ skipping
         \/ Fails(Head(m.sql)) /\ skipping' = TRUE /\ prepared' = prepared
         \/ prepared' = m.sql /\ UNCHANGED <<block, work, skipping>>
  BY DEF TakeParse, Take, Skip, Refuse, Answer
<1>1. /\ UNCHANGED <<fromClient, up, carried, sent, tx, warned, rejected, toClient, down, reply, requests, got>>
      /\ tx \in TxState /\ block \in {"I", "T", "E"}
  BY ServeKeeps DEF TypeOK, BackendTypeOK
<1> SUFFICES ASSUME rejected = {} PROVE TrackInv'
  BY <1>1 DEF TrackInv
<1>2. Pending' /\ NoReady(fromBackend) /\ (NoReady(fromBackend)' => Unanswered')
  BY <1>0, TakePhase
<1>3. PICK l, k : l = Line /\ k = Line'
  OBVIOUS
<1>4. LineInv(l) /\ StatusInv /\ MixOK /\ up \notin {"sendError", "drainUntilSync"}
  BY <1>3, LineParts
<1>5. l[1] = m /\ l # <<>> /\ (Executes(k) <=> Executes(l)) /\ Single(k) /\ ~TextAhead(k)
  BY <1>0, <1>3, <1>4, LineTaken DEF LineInv
<1>6. TextAhead(l)
  BY <1>0, <1>5 DEF TextAhead, WithText
<1>7. skipping = FALSE /\ Len(m.sql) = 1 /\ (up # "returned" => Executes(l))
  BY <1>0, <1>4, <1>5, <1>6 DEF LineInv, TextInv
<1>8. PICK p, q : p = Pended(l) /\ q = Pended(k)'
  OBVIOUS
<1>9. p = m.sql
  BY <1>0, <1>5, <1>6, <1>8 DEF Pended, Unseen
<1>10. CASE Fails(Head(m.sql)) /\ skipping' = TRUE
  <2>1. q = <<>>
    BY <1>0, <1>5, <1>8, <1>10 DEF Pended
  <2>2. Ahead(<<>>)' /\ Fits(<<>>)' /\ ~Mixed'
    BY <1>1, <1>10, AheadFails
  <2>3. Due(q)' /\ MixOK'
    BY <2>1, <2>2 DEF Due, MixOK
  <2>4. LineInv(k)'
    BY <1>5, <1>8, <1>10, <2>3, LineSettled DEF TextInv
  <2> QED
    BY <1>0, <1>1, <1>2, <1>3, <1>4, <2>3, <2>4, StatusUntold, LineNext
<1>11. CASE prepared' = m.sql /\ UNCHANGED <<block, work, skipping>>
  <2>1. q = p \/ (q = <<>> /\ up' = "returned")
    BY <1>0, <1>1, <1>5, <1>7, <1>8, <1>9, <1>11 DEF Pended
  <2>2. Due(q)'
    BY <1>1, <1>4, <1>8, <1>11, <2>1, DueStays, DueGone DEF LineInv
  <2>3. LineInv(k)'
    BY <1>5, <1>7, <1>8, <1>11, <2>2, LineSettled DEF TextInv
  <2> QED
    BY <1>0, <1>1, <1>2, <1>3, <1>4, <1>11, <2>3, StatusUntold, MixStays, LineNext
<1> QED
  BY <1>0, <1>7, <1>10, <1>11

LEMMA TakeExecuteTrack ==
  ASSUME TypeOK, TypeOK', LockInv, TrackInv, TakeExecute, Elsewhere
  PROVE  TrackInv'
<1> DEFINE m == Head(toBackend)
           s == IF prepared = <<>> THEN "unsupported" ELSE Head(prepared)
<1>0. /\ query = NoQuery /\ query' = query /\ toBackend # <<>> /\ toBackend' = Tail(toBackend)
      /\ m.type = "Execute" /\ fromBackend' = fromBackend /\ prepared' = prepared
      /\ \/ skipping /\ UNCHANGED <<block, work, skipping>>
         \/ Fails(s) /\ skipping' = TRUE
         \/ ~skipping /\ Runs(s, m.batch) /\ skipping' = skipping
  BY DEF TakeExecute, Take, Skip, Refuse, Answer
<1>1. /\ UNCHANGED <<fromClient, up, carried, sent, tx, warned, rejected, toClient, down, reply, requests, got>>
      /\ tx \in TxState /\ block \in {"I", "T", "E"} /\ WorkOK /\ prepared \in Seq(Statements)
      /\ skipping \in BOOLEAN
  BY ServeKeeps DEF TypeOK, BackendTypeOK, WorkOK
<1> SUFFICES ASSUME rejected = {} PROVE TrackInv'
  BY <1>1 DEF TrackInv
<1>2. Pending' /\ m.batch = sent /\ NoReady(fromBackend) /\ (NoReady(fromBackend)' => Unanswered')
  BY <1>0, TakePhase
<1>3. PICK l, k : l = Line /\ k = Line'
  OBVIOUS
<1>4. LineInv(l) /\ StatusInv /\ MixOK /\ up \notin {"sendError", "drainUntilSync"}
  BY <1>3, LineParts
<1>5. l[1] = m /\ l # <<>> /\ 1 \in DOMAIN l /\ ~Executes(k) /\ Single(k) /\ ~TextAhead(k)
  BY <1>0, <1>3, <1>4, LineTaken DEF LineInv
<1>6. ~TextAhead(l) /\ Executes(l)
  BY <1>0, <1>5 DEF TextAhead, WithText, Executes
<1>7. PICK p, q : p = Pended(l) /\ q = <<>>
  OBVIOUS
<1>8. q = Pended(k)'
  BY <1>0, <1>5, <1>7 DEF Pended
<1>9. Due(q)' /\ MixOK'
  <2>1. CASE skipping /\ UNCHANGED <<block, work, skipping>>
    <3>1. q = p
      BY <1>0, <1>6, <1>7, <2>1 DEF Pended
    <3> QED
      BY <1>1, <1>4, <1>7, <2>1, <3>1, DueStays, MixStays DEF LineInv
  <2>2. CASE Fails(s)
    <3>1. PICK t : t = s /\ Fails(t)
      BY <2>2
    <3>2. Ahead(<<>>)' /\ Fits(<<>>)' /\ ~Mixed'
      BY <1>1, <3>1, AheadFails
    <3> QED
      BY <1>7, <3>2 DEF Due, MixOK
  <2>3. CASE ~skipping /\ Runs(s, m.batch)
    <3>1. p = prepared /\ Len(prepared) = 1
      BY <1>0, <1>1, <1>4, <1>6, <1>7, <2>3 DEF Pended, LineInv
    <3>2. p \in Seq(Statements) /\ p # <<>> /\ Tail(p) = <<>>
      <4>1. p \in Seq(Statements) /\ p # <<>>
        BY <1>1, <3>1
      <4>2. PICK t : t = Tail(p)
        OBVIOUS
      <4>3. t \in Seq(Statements) /\ Len(t) = 0
        BY <3>1, <4>1, <4>2, TailText
      <4>4. t = <<>>
        BY <4>3
      <4> QED
        BY <4>1, <4>2, <4>4
    <3>3. Runs(Head(p), sent)
      BY <1>2, <2>3, <3>1, <3>2
    <3>4. Due(p)
      BY <1>4, <1>7 DEF LineInv
    <3>5. Due(Tail(p))' /\ MixOK'
      BY <1>1, <1>4, <3>2, <3>3, <3>4, AheadOn DEF Due
    <3> QED
      BY <1>7, <3>2, <3>5
  <2> QED
    BY <1>0, <2>1, <2>2, <2>3
<1>10. LineInv(k)'
  BY <1>5, <1>8, <1>9, LineSettled DEF TextInv
<1> QED
  BY <1>0, <1>1, <1>2, <1>3, <1>4, <1>9, <1>10, StatusUntold, LineNext

LEMMA ServeTrack ==
  ASSUME TypeOK, TypeOK', LockInv, TrackInv, Serve \/ BackendDies
  PROVE  TrackInv'
<1>1. CASE BackendDies \/ (TakeTerminate /\ Elsewhere)
  BY <1>1, SessionEnds DEF BackendDies, TakeTerminate
<1> QED
  BY <1>1, TakeQueryTrack, RunStatementTrack, EndQueryTrack, TakeParseTrack, TakePlainTrack, TakeExecuteTrack,
     TakeSyncTrack DEF Serve, ServeNext

-----------------------------------------------------------------------------
(* The client.                                                             *)

LEMMA ToldLast ==
  ASSUME got \in Seq(Reply), NEW r \in Reply, got' = Append(got, r), r.type = "Ready"
  PROVE  Told' = r.status
<1>1. PICK g : g = got'
  OBVIOUS
<1>2. PICK n : n = Len(got) + 1
  OBVIOUS
<1>3. /\ n \in Nat /\ n > 0 /\ DOMAIN g = 1..n /\ g[n] = r
  BY <1>1, <1>2, ReplyBehind
<1>4. PICK ready : ready = {i \in DOMAIN g : g[i].type = "Ready"}
  OBVIOUS
<1>5. n \in ready /\ \A i \in ready : i \in Nat /\ n >= i
  BY <1>3, <1>4
<1>6. Max(ready) = n
  <2>1. PICK x : x = CHOOSE y \in ready : \A z \in ready : y >= z
    OBVIOUS
  <2>2. x \in ready /\ \A z \in ready : x >= z
    BY <1>5, <2>1
  <2>3. x = n
    BY <1>3, <1>5, <2>2
  <2> QED
    BY <2>1, <2>3 DEF Max
<1>7. Told' = IF ready = {} THEN "I" ELSE g[Max(ready)].status
  BY <1>1, <1>4 DEF Told
<1> QED
  BY <1>3, <1>5, <1>6, <1>7

\* What the client does but write leaves the line alone.
LEMMA ClientLine ==
  ASSUME TrackInv, rejected = {}, ClientFrame, UNCHANGED <<fromClient, sent>>, StatusInv => StatusInv'
  PROVE  TrackInv'
<1>1. UNCHANGED <<toBackend, up, carried, query, skipping, prepared, block, work, tx, warned, rejected>>
  BY DEF ClientFrame, backendVars, sessionVars, upVars, historyVars
<1>2. PICK l : l = Line
  OBVIOUS
<1>3. LineInv(l) /\ StatusInv /\ MixOK /\ up \notin {"sendError", "drainUntilSync"}
  BY <1>2, LineParts
<1>4. Line' = l /\ (Unseen' <=> Unseen)
  BY <1>1, <1>2 DEF Line, Unseen
<1>5. LineInv(l)'
  BY <1>1, <1>2, <1>3, <1>4, LineStays
<1> QED
  BY <1>1, <1>3, <1>4, <1>5, MixStays, LineNext

LEMMA ClientReadsTrack ==
  ASSUME TypeOK, TypeOK', LockInv, TrackInv, ClientReads
  PROVE  TrackInv'
<1> DEFINE r == Head(toClient)
<1>0. /\ toClient \in Seq(Reply) /\ toClient # <<>> /\ toClient' = Tail(toClient)
      /\ got \in Seq(Reply) /\ got' = Append(got, r) /\ sent' = sent /\ requests' = requests
      /\ fromClient' = fromClient /\ ClientFrame
      /\ UNCHANGED <<fromBackend, down, reply, block, rejected>>
  BY DEF TypeOK, ClientReads, ClientFrame, backendVars, sessionVars, downVars, historyVars
<1> SUFFICES ASSUME rejected = {} PROVE TrackInv'
  BY <1>0 DEF TrackInv
<1>1. /\ toClient[1] = r /\ r \in Reply /\ 1 \in DOMAIN toClient
      /\ DOMAIN toClient = 1..Len(toClient) /\ DOMAIN toClient' = 1..Len(toClient) - 1
      /\ \A i \in 1..Len(toClient) - 1 : toClient'[i] = toClient[i + 1] /\ i + 1 \in DOMAIN toClient
  BY <1>0, ReplyFront
<1>2. Pending
  BY <1>0 DEF LockInv, Phases, Over, Quiet, Fresh, Refused, Half, InHand, AtBackend, Running, Answering
<1>3. ASSUME StatusInv PROVE StatusInv'
  <2>1. \A i \in DOMAIN toClient' : toClient'[i].type = "Ready" => toClient'[i].status = block'
    BY <1>0, <1>1, <1>3 DEF StatusInv
  <2>2. Answers' = requests' => Told' = block'
    <3>1. CASE r.type = "Ready"
      BY <1>0, <1>1, <1>3, <3>1, ToldLast DEF StatusInv
    <3>2. CASE r.type # "Ready"
      <4>1. Answers' = Answers
        BY <1>0, <1>1, <3>2, AnswersCount
      <4>2. Pending'
        BY <1>0, <1>2, <4>1 DEF Pending
      <4> QED
        BY <4>2, PendingOpen
    <3> QED
      BY <3>1, <3>2
  <2> QED
    BY <1>0, <1>3, <2>1, <2>2 DEF StatusInv
<1> QED
  BY <1>0, <1>3, ClientLine

LEMMA HangsUpTrack ==
  ASSUME TrackInv, ClientHangsUp
  PROVE  TrackInv'
<1>1. /\ ClientFrame /\ UNCHANGED <<fromClient, sent, fromBackend, toClient, down, reply, requests, got, block,
                                    rejected>>
  BY DEF ClientHangsUp, ClientFrame, clientVars, backendVars, sessionVars, downVars, historyVars
<1> SUFFICES ASSUME rejected = {} PROVE TrackInv'
  BY <1>1 DEF TrackInv
<1> QED
  BY <1>1, StatusStays, ClientLine

\* A client writes when the line is empty.
LEMMA LineWritten ==
  ASSUME InLockstep, TypeOK, LockInv, CloseInv, up \notin {"sendError", "drainUntilSync"},
         NEW script \in Scripts, ClientSends(script)
  PROVE  /\ Over /\ up = "receive" /\ toBackend = <<>> /\ fromClient = <<>> /\ Line = <<>>
         /\ fromClient' = Numbered(script, sent + 1)
<1>0. /\ fromClient \in Seq(Message) /\ clientGone = FALSE /\ closed = FALSE /\ requests < Answers + 1
      /\ sent \in Nat /\ requests \in Nat /\ fromClient' = fromClient \o Numbered(script, sent + 1)
  BY DEF TypeOK, ClientSends, InLockstep, Numbered
<1>1. Over
  <2>1. Pending => FALSE
    BY <1>0 DEF Pending
  <2> QED
    BY <2>1 DEF LockInv, Phases, Fresh, Refused, Half, InHand, AtBackend, Running, Answering
<1>2. toBackend = <<>> /\ up = "receive" /\ Drained(Len(fromClient))
  BY <1>0, <1>1 DEF Over, Ends, CloseInv
<1>3. fromClient = <<>>
  BY <1>0, <1>2 DEF Drained
<1>4. Line = <<>>
  BY <1>2, <1>3 DEF Line, InOrder
<1>5. fromClient' = Numbered(script, sent + 1)
  <2>1. script \in Seq(Unbatched)
    BY RelayAssumption
  <2>2. PICK n : n = Numbered(script, sent + 1)
    OBVIOUS
  <2>3. PICK T : n \in Seq(T)
    <3>1. n \in Seq({n[i] : i \in DOMAIN script})
      BY <2>1, <2>2 DEF Numbered
    <3> QED
      BY <3>1
  <2>4. <<>> \o n = n
    BY <2>3
  <2> QED
    BY <1>0, <1>3, <2>2, <2>4
<1> QED
  BY <1>1, <1>2, <1>3, <1>4, <1>5

\* What the proxy can follow of a script.
LEMMA ClearScript ==
  ASSUME InLockstep, ClearTransactions, NEW script \in Scripts
  PROVE  /\ script \in Seq(Unbatched) /\ 1 \in DOMAIN script /\ script[1].sql \in Seq(Statements)
         /\ \A i \in DOMAIN script : script[i].type \in WithText => i = 1
         /\ \A i, j \in DOMAIN script : script[i].type = "Execute" /\ script[j].type = "Execute" => i = j
         /\ script[1].type \in WithText => ClearText(script[1].sql)
         /\ script[1].type = "Parse" =>
              Len(script[1].sql) = 1 /\ \E i \in DOMAIN script : script[i].type = "Execute"
         /\ script[1].type \in WithText \/ \A i \in DOMAIN script : script[i].type # "Execute"
<1>0. script \in Seq(Unbatched) /\ 1 \in DOMAIN script /\ script[1].sql \in Seq(Statements)
  <2>1. script \in Seq(Unbatched) /\ 1 \in DOMAIN script
    BY AskingOnce
  <2>2. PICK m \in Unbatched : m = script[1]
    BY <2>1
  <2>3. m.sql \in Seq(Statements) \/ m.sql = <<>>
    BY DEF Unbatched
  <2>4. <<>> \in Seq(Statements)
    OBVIOUS
  <2> QED
    BY <2>1, <2>2, <2>3, <2>4
<1>1. CASE Len(script) = 1 /\ script[1].type \in {"Query", "Terminate"}
  <2>1. DOMAIN script = {1}
    BY <1>0, <1>1
  <2>2. script[1].type = "Query" => ClearText(script[1].sql)
    BY <1>0, <1>1 DEF ClearTransactions, ClearBatch
  <2> QED
    BY <1>0, <1>1, <2>1, <2>2 DEF WithText
<1>2. CASE \A i \in DOMAIN script : script[i].type \in ExtendedTypes
  <2>1. ClearBatch(script)
    BY <1>0, <1>2 DEF ClearTransactions, ExtendedTypes
  <2>2. script[1].type = "Parse" /\ Len(script[1].sql) = 1
    BY <1>0, <2>1 DEF ClearBatch
  <2>3. ClearText(script[1].sql)
    <3>1. PICK sql : sql = script[1].sql
      OBVIOUS
    <3>2. DOMAIN sql = 1..1 /\ Len(sql) = 1
      BY <1>0, <2>2, <3>1
    <3> QED
      BY <3>1, <3>2 DEF ClearText, Alternates
  <2> QED
    BY <1>0, <1>2, <2>1, <2>2, <2>3 DEF ClearBatch, ExtendedTypes, WithText
<1> QED
  BY <1>1, <1>2 DEF InLockstep

\* Nothing runs, and no text is seen, as the client writes.
LEMMA EmptyStays ==
  ASSUME UNCHANGED <<block, work, tx, up>>, Due(<<>>)
  PROVE  Due(<<>>)'
<1>1. PICK sql : sql = <<>>
  OBVIOUS
<1>2. Len(sql) = 0 /\ \A i \in DOMAIN sql : FALSE
  BY <1>1
<1>3. PICK a \in [0..Len(sql) -> TxState] : Tracks(a[0]) /\ (up # "returned" => a[Len(sql)] = tx)
  BY <1>1 DEF Due, Ahead
<1>4. Tracks(a[0])'
  BY <1>3 DEF Tracks
<1>5. Ahead(sql)'
  BY <1>2, <1>3, <1>4 DEF Ahead
<1> QED
  BY <1>1, <1>5, FitsEmpty DEF Due, Fits, Alternates, Encloses

\* The text a client writes fits the block: it minds what it was told.
LEMMA WrittenFits ==
  ASSUME NEW script, NEW sql \in Seq(Statements), sql = script[1].sql, ClearText(sql),
         Begins(script) => block = "I", BackendIdle, UNCHANGED <<block, work>>
  PROVE  Fits(sql)'
<1>1. DOMAIN sql = 1..Len(sql) /\ Len(sql) \in Nat
  OBVIOUS
<1>2. ASSUME block' # "I", NEW i \in DOMAIN sql
      PROVE  /\ sql[i] = "begin" => i > 1
             /\ Changes(sql[i]) /\ (\E j \in 1..i - 1 : sql[j] = "commit") => Opened(sql, i)
  <2>1. sql[1] # "begin" \/ sql = <<>>
    BY <1>2 DEF Begins
  <2>2. sql[i] = "begin" => i > 1
    BY <1>1, <2>1
  <2>3. CASE Len(sql) = 1
    BY <1>1, <2>2, <2>3
  <2>4. CASE Encloses(sql)
    BY <2>2, <2>4 DEF Encloses
  <2> QED
    BY <2>3, <2>4 DEF ClearText
<1> QED
  BY <1>2 DEF Fits, ClearText, BackendIdle

LEMMA ClientSendsTrack ==
  ASSUME InLockstep, ClearTransactions, TypeOK, TypeOK', LockInv, CloseInv, TrackInv,
         NEW script \in Scripts, ClientSends(script)
  PROVE  TrackInv'
<1>0. /\ UNCHANGED <<toBackend, fromBackend, query, skipping, prepared, block, work, up, carried, tx, down, reply,
                     toClient, got, rejected, warned>>
      /\ requests' = requests + Asking(script) /\ sent \in Nat /\ requests \in Nat
      /\ Begins(script) => Told = "I"
  BY DEF TypeOK, ClientSends, ClientFrame, backendVars, sessionVars, upVars, downVars, historyVars,
         ClearTransactions
<1> SUFFICES ASSUME rejected = {} PROVE TrackInv'
  BY <1>0 DEF TrackInv
<1>1. PICK l : l = Line
  OBVIOUS
<1>2. LineInv(l) /\ StatusInv /\ MixOK /\ up \notin {"sendError", "drainUntilSync"}
  BY <1>1, LineParts
<1>3. /\ Over /\ up = "receive" /\ toBackend = <<>> /\ fromClient = <<>> /\ l = <<>>
      /\ fromClient' = Numbered(script, sent + 1)
  BY <1>1, <1>2, LineWritten
<1>4. /\ script \in Seq(Unbatched) /\ 1 \in DOMAIN script
      /\ \A i \in DOMAIN script : script[i].type \in WithText => i = 1
      /\ \A i, j \in DOMAIN script : script[i].type = "Execute" /\ script[j].type = "Execute" => i = j
      /\ script[1].type \in WithText => ClearText(script[1].sql)
      /\ script[1].type = "Parse" =>
           Len(script[1].sql) = 1 /\ \E i \in DOMAIN script : script[i].type = "Execute"
      /\ Asking(script) = IF script[1].type = "Terminate" THEN 0 ELSE 1
  BY ClearScript, AskingOnce
<1>5. PICK k : k = Line'
  OBVIOUS
<1>6. /\ DOMAIN k = DOMAIN script /\ k # <<>>
      /\ \A i \in DOMAIN k : k[i].type = script[i].type /\ k[i].sql = script[i].sql
  <2>1. PICK n : n = Numbered(script, sent + 1)
    OBVIOUS
  <2>2. PICK T : n \in Seq(T)
    <3>1. n \in Seq({n[i] : i \in DOMAIN script})
      BY <1>4, <2>1 DEF Numbered
    <3> QED
      BY <3>1
  <2>3. k = <<>> \o n \o <<>> \/ k = <<>> \o <<>> \o n
    BY <1>0, <1>3, <1>5, <2>1 DEF Line, InOrder
  <2>4. k = n
    BY <2>2, <2>3
  <2>5. DOMAIN n = DOMAIN script /\ \A i \in DOMAIN n : n[i].type = script[i].type /\ n[i].sql = script[i].sql
    BY <1>4, <2>1 DEF Numbered
  <2> QED
    BY <1>4, <2>4, <2>5
<1>7. BackendIdle /\ block = Told /\ Quiet /\ Answers = requests
  BY <1>2, <1>3 DEF Over, StatusInv
<1>8. Single(k)
  BY <1>4, <1>6 DEF Single
<1>9. TextInv(k)'
  <2> SUFFICES ASSUME TextAhead(k)
               PROVE  /\ skipping' = FALSE /\ Fits(k[1].sql)'
                      /\ k[1].type = "Parse" => Len(k[1].sql) = 1 /\ (up' # "returned" => Executes(k))
    BY DEF TextInv
  <2>1. k[1].type = script[1].type /\ k[1].sql = script[1].sql /\ script[1].type \in WithText
    BY <1>4, <1>6 DEF TextAhead
  <2>2. PICK sql : sql = script[1].sql
    OBVIOUS
  <2>3. sql \in Seq(Statements)
    BY <2>2, ClearScript
  <2>4. Fits(sql)'
    BY <1>0, <1>4, <1>7, <2>1, <2>2, <2>3, WrittenFits
  <2> QED
    BY <1>0, <1>4, <1>6, <1>7, <2>1, <2>2, <2>4 DEF BackendIdle, Executes
<1>10. ~TextAhead(k) => ~Executes(k)
  <2>1. script[1].type \in WithText \/ \A i \in DOMAIN script : script[i].type # "Execute"
    BY ClearScript
  <2> QED
    BY <1>4, <1>6, <2>1 DEF TextAhead, Executes
<1>11. PICK p : p = <<>>
  OBVIOUS
<1>12. p = Pended(k)'
  <2>1. query' = NoQuery /\ Unseen'
    BY <1>0, <1>3, <1>7 DEF BackendIdle, Unseen
  <2> QED
    BY <1>11, <1>10, <2>1 DEF Pended
<1>13. Due(p)'
  <2>1. p = Pended(l)
    BY <1>3, <1>7, <1>11 DEF Pended, BackendIdle, TextAhead, Executes
  <2>2. Due(p)
    BY <1>2, <2>1 DEF LineInv
  <2> QED
    BY <1>0, <1>11, <2>2, EmptyStays
<1>14. LineInv(k)'
  BY <1>8, <1>9, <1>12, <1>13, <1>10, LineSettled
<1>15. StatusInv'
  <2>1. Answers' = Answers /\ Told' = Told
    BY <1>0 DEF Answers, Told
  <2> QED
    BY <1>0, <1>7, <2>1 DEF StatusInv, Quiet
<1> QED
  BY <1>0, <1>2, <1>5, <1>14, <1>15, MixStays, LineNext

-----------------------------------------------------------------------------

LEMMA StutterTrack ==
  ASSUME TrackInv, UNCHANGED vars
  PROVE  TrackInv'
<1>1. UNCHANGED <<toBackend, fromBackend, fromClient, query, skipping, prepared, block, work, up, carried, tx, down,
                  reply, toClient, got, requests, sent, rejected, warned>>
  BY DEF vars, backendVars, sessionVars, streamVars, upVars, downVars, clientVars, historyVars
<1> SUFFICES ASSUME rejected = {} PROVE TrackInv'
  BY <1>1 DEF TrackInv
<1>2. PICK l : l = Line
  OBVIOUS
<1>3. LineInv(l) /\ StatusInv /\ MixOK /\ up \notin {"sendError", "drainUntilSync"}
  BY <1>2, LineParts
<1>4. Line' = l /\ (Unseen' <=> Unseen)
  BY <1>1, <1>2 DEF Line, Unseen
<1>5. LineInv(l)'
  BY <1>1, <1>2, <1>3, <1>4, LineStays
<1> QED
  BY <1>1, <1>3, <1>4, <1>5, StatusStays, MixStays, LineNext

LEMMA InitTrack == Init => TrackInv
<1> SUFFICES ASSUME Init PROVE TrackInv
  OBVIOUS
<1>1. /\ toBackend = <<>> /\ fromBackend = <<>> /\ fromClient = <<>> /\ toClient = <<>>
      /\ up = "receive" /\ down = "receive" /\ got = <<>>
      /\ block = "I" /\ query = NoQuery /\ work = NoWork /\ skipping = FALSE
      /\ tx = [InTx |-> FALSE, HasDDL |-> FALSE, HasDML |-> FALSE]
  BY DEF Init, BackendInit
<1>2. PICK l : l = <<>>
  OBVIOUS
<1>3. l = Line
  BY <1>1, <1>2 DEF Line, InOrder
<1>4. PICK sql : sql = <<>>
  OBVIOUS
<1>5. sql = Pended(l)
  BY <1>1, <1>2, <1>4 DEF Pended, TextAhead, Executes
<1>6. Due(sql)
  <2>1. tx \in TxState /\ Len(sql) = 0 /\ \A i \in DOMAIN sql : FALSE
    BY <1>1, <1>4 DEF TxState
  <2> DEFINE a == [i \in 0..0 |-> tx]
  <2>2. a \in [0..Len(sql) -> TxState] /\ a[0] = tx /\ a[Len(sql)] = tx
    BY <2>1
  <2>3. Tracks(a[0])
    BY <1>1 DEF Tracks
  <2> HIDE DEF a
  <2>4. Ahead(sql)
    BY <2>1, <2>2, <2>3 DEF Ahead
  <2> QED
    BY <1>4, <2>4, FitsEmpty DEF Due
<1>7. LineInv(l)
  BY <1>2, <1>5, <1>6 DEF LineInv, Single, TextInv, TextAhead, Executes
<1>8. StatusInv
  <2>1. Told = "I"
    <3>1. {i \in DOMAIN got : got[i].type = "Ready"} = {}
      BY <1>1
    <3> QED
      BY <3>1 DEF Told
  <2> QED
    BY <1>1, <2>1 DEF StatusInv
<1>9. MixOK
  BY <1>1 DEF MixOK, Mixed, NoWork
<1> QED
  BY <1>1, <1>3, <1>7, <1>8, <1>9 DEF TrackInv

LEMMA NextTrack ==
  ASSUME InLockstep, ClearTransactions
  PROVE  TypeOK /\ TypeOK' /\ CloseInv /\ LockInv /\ TrackInv /\ [Next]_vars => TrackInv'
BY UpTrack, DownTrack, ServeTrack, ClientSendsTrack, ClientReadsTrack, HangsUpTrack, StutterTrack DEF Next

\* README.md:307: the proxy warns about mixed DDL and DML, and several DDL, in
\* one transaction. It judges by a TxState that it keeps from the statements
\* it has read (TrackTx, intercept.go 132; handler.go 490, 510), ahead of the
\* session, which may fail them; and for these clients a transaction has run
\* such a mix only if a warning was logged with one of the writes it came by. Once a
\* statement was rejected the TxState may be wrong, as the session never sees
\* what was rejected (the text before the statement included).
THEOREM WarnedWhenMixed ==
  ASSUME InLockstep, ClearTransactions
  PROVE  Spec => []MixIsWarned
<1> DEFINE Inv == TypeOK /\ ForwardInv /\ CloseInv /\ LockInv /\ TrackInv
<1>1. Init => Inv
  BY InitRelayType, InitForward, InitClose, InitLock, InitTrack
<1>2. Inv /\ [Next]_vars => Inv'
  <2> SUFFICES ASSUME Inv, [Next]_vars PROVE Inv'
    OBVIOUS
  <2>1. TypeOK'
    BY NextRelayType
  <2>2. ForwardInv' /\ CloseInv' /\ LockInv'
    BY NextForward, NextClose, NextLock
  <2>3. TrackInv'
    BY <2>1, NextTrack
  <2> QED
    BY <2>1, <2>2, <2>3
<1>3. Inv => MixIsWarned
  BY DEF TrackInv, MixOK, Mixed, MixIsWarned
<1> QED
  BY <1>1, <1>2, <1>3, PTL DEF Spec

=============================================================================
