---------------------------- MODULE ProxyServer ----------------------------
(***************************************************************************)
(* internal/proxy/server.go and the first part of handler.go: Run accepts  *)
(* clients until a signal comes; a goroutine per client reads its start-up *)
(* message, connects to PostgreSQL and brings the authentication to an     *)
(* end, by relaying it or, with POSTGRES_USER set, on the client's behalf. *)
(* What follows is module ProxyRelay; here it is the state "relay", of     *)
(* which only its end is modelled.                                         *)
(***************************************************************************)
EXTENDS Naturals, Sequences

CONSTANTS
  Clients,       \* the clients there are
  Strangers,     \* those that send no start-up message when they connect:
                 \* nothing, or one that is shorter than its header
  Modes,         \* whether POSTGRES_USER may be set
  Methods        \* what pg_hba.conf may ask for

ASSUME ServerAssumption ==
  /\ Strangers \subseteq Clients
  /\ Modes \subseteq BOOLEAN
  /\ Methods \subseteq {"trust", "password", "md5", "scram-sha-256"}

VARIABLES
  listening,     \* the listener is open
  cancelled,     \* the context of Run
  run,           \* "accept", "returned" or "panicked"; the process ends with Run
  bypass,        \* POSTGRES_USER is set
  method,        \* what PostgreSQL asks for
  right,         \* user and password are: the client's, or with bypass the proxy's
  upstream,      \* PostgreSQL can be reached
  handler,       \* client -> where handleConnection is
  client,        \* client -> where the client is
  session,       \* client -> where its PostgreSQL session is
  accepted,      \* client -> history: the session has authenticated its user
  seen,          \* client -> history: what the client has read
  toProxy, toClient, toServer, fromServer    \* client -> stream

globalVars == <<listening, cancelled, run>>
givenVars  == <<bypass, method, right, upstream>>
streamVars == <<toProxy, toClient, toServer, fromServer>>
vars == <<globalVars, givenVars, handler, client, session, accepted, seen, streamVars>>

Requests == {"SSLRequest", "CancelRequest", "StartupMessage", "Short"}
Answers  == {"Password", "MD5", "SASLInitial", "SASLResponse"}
Asks     == {"AuthCleartext", "AuthMD5", "AuthSASL", "SASLContinue", "SASLFinal"}
Replies  == Asks \cup {"N", "AuthOk", "Settings", "Error", "Ready"}

Reading  == {"readStartup", "readAfterSSL"}
Authing  == {"relayAuth", "bypassAuth", "saslContinue", "saslFinal"}
Waiting  == {"password", "md5", "sasl", "saslFinal"}
Leaving  == {"turnedAway", "left"}

TypeOK ==
  /\ listening \in BOOLEAN
  /\ cancelled \in BOOLEAN
  /\ run \in {"accept", "returned", "panicked"}
  /\ bypass \in Modes
  /\ method \in Methods
  /\ right \in BOOLEAN
  /\ upstream \in BOOLEAN
  /\ handler \in [Clients -> Reading \cup Authing \cup {"none", "cancel", "dial", "greet", "relay", "ended"}]
  /\ client \in [Clients -> {"away", "connected", "askedSSL", "plain", "waiting", "asking",
                             "stray", "ready", "turnedAway", "left"}]
  /\ session \in [Clients -> Waiting \cup {"none", "ready", "cancelled", "closed"}]
  /\ accepted \in [Clients -> BOOLEAN]
  /\ seen \in [Clients -> Seq(Replies)]
  /\ toProxy \in [Clients -> Seq(Requests \cup Answers)]
  /\ toClient \in [Clients -> Seq(Replies)]
  /\ toServer \in [Clients -> Seq(Requests \cup Answers)]
  /\ fromServer \in [Clients -> Seq(Replies)]

Init ==
  /\ listening = TRUE /\ cancelled = FALSE /\ run = "accept"
  /\ bypass \in Modes /\ method \in Methods /\ right \in BOOLEAN /\ upstream \in BOOLEAN
  /\ handler = [c \in Clients |-> "none"]
  /\ client = [c \in Clients |-> "away"]
  /\ session = [c \in Clients |-> "none"]
  /\ accepted = [c \in Clients |-> FALSE]
  /\ seen = [c \in Clients |-> <<>>]
  /\ toProxy = [c \in Clients |-> <<>>] /\ toClient = [c \in Clients |-> <<>>]
  /\ toServer = [c \in Clients |-> <<>>] /\ fromServer = [c \in Clients |-> <<>>]

Put(stream, c, m)  == stream' = [stream EXCEPT ![c] = Append(@, m)]
Pull(stream, c)    == stream[c] # <<>> /\ stream' = [stream EXCEPT ![c] = Tail(@)]
Goto(c, from, to)  == handler[c] = from /\ handler' = [handler EXCEPT ![c] = to]

-----------------------------------------------------------------------------
(* Run.                                                                    *)

ConnVars == <<client, session, accepted, seen, streamVars>>

\* Mutant: handleConnection is called, not started.
AcceptAndServe(c) ==
  /\ run = "accept" /\ listening
  /\ client[c] # "away"
  /\ \A d \in Clients : handler[d] \in {"none", "ended"}
  /\ Goto(c, "none", "readStartup")
  /\ UNCHANGED <<globalVars, givenVars, ConnVars>>

\* Accept returns a connection; also when the context has been cancelled, as
\* long as the listener is open.
Accept(c) ==
  /\ run = "accept" /\ listening
  /\ client[c] # "away"
  /\ Goto(c, "none", "readStartup")
  /\ UNCHANGED <<globalVars, givenVars, ConnVars>>

\* Mutant: only the deferred call closes the listener.
CloseListenerDeferred ==
  /\ run = "returned"
  /\ listening
  /\ listening' = FALSE
  /\ UNCHANGED <<cancelled, run, givenVars, handler, ConnVars>>

CloseListener ==
  /\ cancelled
  /\ listening
  /\ listening' = FALSE
  /\ UNCHANGED <<cancelled, run, givenVars, handler, ConnVars>>

\* Accept fails and the context is done; the process ends, and with it every
\* handler, wherever it is. A failure before that leads to another Accept.
RunReturns ==
  /\ run = "accept"
  /\ ~listening
  /\ run' = "returned"
  /\ handler' = [c \in Clients |-> "ended"]
  /\ UNCHANGED <<listening, cancelled, givenVars, ConnVars>>

\* A start-up message shorter than its header: readStartupMessage slices what it
\* has not read, no handler recovers, and the process ends with all of them.
Panics(c) ==
  /\ handler[c] \in Reading
  /\ toProxy[c] # <<>> /\ Head(toProxy[c]) = "Short"
  /\ listening' = FALSE
  /\ run' = "panicked"
  /\ handler' = [d \in Clients |-> "ended"]
  /\ UNCHANGED <<cancelled, givenVars, ConnVars>>

Server == (\E c \in Clients : Accept(c) \/ Panics(c)) \/ CloseListener \/ RunReturns

-----------------------------------------------------------------------------
(* handleConnection. A failed read or write ends it; see HandlerFails.     *)

HandlerFrame == UNCHANGED <<globalVars, givenVars, client, session, accepted, seen>>

Routed(m) == IF m = "CancelRequest" THEN "cancel" ELSE "dial"

\* An SSLRequest is answered by N; the next message decides.
ReadStartup(c) ==
  /\ Pull(toProxy, c)
  /\ Head(toProxy[c]) # "Short"
  /\ IF Head(toProxy[c]) = "SSLRequest"
     THEN /\ Goto(c, "readStartup", "readAfterSSL")
          /\ Put(toClient, c, "N")
     ELSE /\ Goto(c, "readStartup", Routed(Head(toProxy[c])))
          /\ UNCHANGED toClient
  /\ UNCHANGED <<toServer, fromServer>>
  /\ HandlerFrame

\* Mutant: a CancelRequest is looked for in the first message only.
ReadAfterSSLDialing(c) ==
  /\ Pull(toProxy, c)
  /\ Head(toProxy[c]) # "Short"
  /\ Goto(c, "readAfterSSL", "dial")
  /\ UNCHANGED <<toClient, toServer, fromServer>>
  /\ HandlerFrame

ReadAfterSSL(c) ==
  /\ Pull(toProxy, c)
  /\ Head(toProxy[c]) # "Short"
  /\ Goto(c, "readAfterSSL", Routed(Head(toProxy[c])))
  /\ UNCHANGED <<toClient, toServer, fromServer>>
  /\ HandlerFrame

ForwardCancel(c) ==
  /\ Goto(c, "cancel", "ended")
  /\ IF upstream THEN Put(toServer, c, "CancelRequest") ELSE UNCHANGED toServer
  /\ UNCHANGED <<toProxy, toClient, fromServer>>
  /\ HandlerFrame

\* net.Dial, then the start-up message, the client's or buildStartupBytes.
Dial(c) ==
  /\ IF upstream
     THEN /\ Goto(c, "dial", IF bypass THEN "greet" ELSE "relayAuth")
          /\ Put(toServer, c, "StartupMessage")
     ELSE /\ Goto(c, "dial", "ended")
          /\ UNCHANGED toServer
  /\ UNCHANGED <<toProxy, toClient, fromServer>>
  /\ HandlerFrame

RelayUntil(c, last) ==
  /\ Pull(fromServer, c)
  /\ Goto(c, "relayAuth", IF Head(fromServer[c]) = last THEN "relay" ELSE "relayAuth")
  /\ Put(toClient, c, Head(fromServer[c]))
  /\ UNCHANGED <<toProxy, toServer>>
  /\ HandlerFrame

\* Mutant: AuthenticationOk is taken for the end.
RelayAuthUntilOk(c) == RelayUntil(c, "AuthOk")

\* relayAuth: from the server to the client, until ReadyForQuery.
RelayAuth(c) == RelayUntil(c, "Ready")

\* bypassAuth: the client is accepted before the server is asked.
Greet(c) ==
  /\ Goto(c, "greet", "bypassAuth")
  /\ Put(toClient, c, "AuthOk")
  /\ UNCHANGED <<toProxy, toServer, fromServer>>
  /\ HandlerFrame

Reply(c, answer, to) ==
  /\ Goto(c, "bypassAuth", to)
  /\ Put(toServer, c, answer)
  /\ UNCHANGED toClient

\* Mutant: settings are written to the wrong connection.
PassOnToServer(c, to) ==
  /\ Goto(c, "bypassAuth", to)
  /\ Put(toServer, c, Head(fromServer[c]))
  /\ UNCHANGED toClient

PassOn(c, to) ==
  /\ Goto(c, "bypassAuth", to)
  /\ Put(toClient, c, Head(fromServer[c]))
  /\ UNCHANGED toServer

Authenticating(c, kept, onError) ==
  LET m    == Head(fromServer[c])
      pass == {"AuthCleartext", "AuthMD5"}
  IN  /\ Pull(fromServer, c)
      /\ \/ m \in pass /\ Reply(c, "Password", "bypassAuth")
         \/ m = "AuthSASL" /\ Reply(c, "SASLInitial", "saslContinue")
         \/ /\ m \in kept
            /\ Goto(c, "bypassAuth", "bypassAuth")
            /\ UNCHANGED <<toClient, toServer>>
         \/ m = "Error" /\ PassOn(c, onError)
         \/ m = "Ready" /\ PassOn(c, "relay")
         \/ m \notin pass \cup kept \cup {"AuthSASL", "Error", "Ready"} /\ PassOn(c, "bypassAuth")
      /\ UNCHANGED toProxy
      /\ HandlerFrame

\* Mutant: AuthenticationOk is forwarded like any other message.
BypassAuthForwardingOk(c) == Authenticating(c, {}, "ended")

\* Mutant: no error is returned once the client has been told of it.
BypassAuthIgnoringError(c) == Authenticating(c, {"AuthOk"}, "relay")

\* A password is sent as it is, whether it was asked for in clear or as MD5.
BypassAuth(c) == Authenticating(c, {"AuthOk"}, "ended")

\* scramAuth: anything but the message expected is an error.
ScramContinue(c) ==
  /\ Pull(fromServer, c)
  /\ IF Head(fromServer[c]) = "SASLContinue"
     THEN /\ Goto(c, "saslContinue", "saslFinal")
          /\ Put(toServer, c, "SASLResponse")
     ELSE /\ Goto(c, "saslContinue", "ended")
          /\ UNCHANGED toServer
  /\ UNCHANGED <<toProxy, toClient>>
  /\ HandlerFrame

ScramFinal(c) ==
  /\ Pull(fromServer, c)
  /\ Goto(c, "saslFinal", IF Head(fromServer[c]) = "SASLFinal" THEN "bypassAuth" ELSE "ended")
  /\ UNCHANGED <<toProxy, toClient, toServer>>
  /\ HandlerFrame

Fails(c) ==
  /\ handler' = [handler EXCEPT ![c] = "ended"]
  /\ UNCHANGED streamVars
  /\ HandlerFrame

\* The next thing the handler does is to write to the client.
Writes(c) ==
  \/ handler[c] = "greet"
  \/ handler[c] = "readStartup" /\ toProxy[c] # <<>> /\ Head(toProxy[c]) = "SSLRequest"
  \/ handler[c] = "relayAuth" /\ fromServer[c] # <<>>
  \/ /\ handler[c] = "bypassAuth" /\ fromServer[c] # <<>>
     /\ Head(fromServer[c]) \notin {"AuthCleartext", "AuthMD5", "AuthSASL", "AuthOk"}

\* A read finds the end of the client's stream, or of the server's; or a write to
\* a client that is gone fails, which it need not. A handler that waits for the
\* server does not notice that its client is gone.
HandlerFails(c) ==
  /\ \/ client[c] \in Leaving /\ handler[c] \in Reading /\ toProxy[c] = <<>>
     \/ session[c] = "closed" /\ handler[c] \in Authing /\ fromServer[c] = <<>>
     \/ client[c] \in Leaving /\ Writes(c)
  /\ Fails(c)

Handshake(c) ==
  \/ ReadStartup(c) \/ ReadAfterSSL(c) \/ ForwardCancel(c) \/ Dial(c)
  \/ RelayAuth(c) \/ Greet(c) \/ BypassAuth(c) \/ ScramContinue(c) \/ ScramFinal(c)
  \/ HandlerFails(c)

\* clientToBackend reads the end of the client's stream, and calls closeAll.
UpReadsEnd(c) ==
  /\ handler[c] = "relay" /\ client[c] \in Leaving /\ toProxy[c] = <<>>
  /\ Fails(c)

\* Mutant: backendToClient returns without closeAll, which is left to the other.
DownReadsEndSilently(c) ==
  /\ handler[c] = "relay" /\ session[c] = "closed" /\ fromServer[c] = <<>>
  /\ client[c] \in Leaving
  /\ Fails(c)

\* backendToClient reads the end of the server's stream, and calls closeAll.
DownReadsEnd(c) ==
  /\ handler[c] = "relay" /\ session[c] = "closed" /\ fromServer[c] = <<>>
  /\ Fails(c)

\* Either finds the context cancelled before it reads on, or fails to write to a
\* side that is gone. It need not: it may be waiting for a message.
RelayCut(c) ==
  /\ handler[c] = "relay"
  /\ cancelled \/ client[c] \in Leaving \/ session[c] = "closed"
  /\ Fails(c)

HandleConnection(c) == Handshake(c) \/ UpReadsEnd(c) \/ DownReadsEnd(c) \/ RelayCut(c)

-----------------------------------------------------------------------------
(* External: the client.                                                   *)

ClientFrame == UNCHANGED <<globalVars, givenVars, handler, session, accepted>>
Be(c, to)   == client' = [client EXCEPT ![c] = to]

ClientConnects(c) ==
  /\ client[c] = "away" /\ listening
  /\ Be(c, "connected")
  /\ UNCHANGED <<seen, streamVars>>
  /\ ClientFrame

ClientRequests(c) ==
  /\ \/ client[c] = "connected" /\ Put(toProxy, c, "SSLRequest") /\ Be(c, "askedSSL")
     \/ /\ client[c] \in {"connected", "plain"}
        /\ IF c \in Strangers
           THEN Put(toProxy, c, "Short") /\ Be(c, "stray")
           ELSE \/ Put(toProxy, c, "StartupMessage") /\ Be(c, "waiting")
                \/ Put(toProxy, c, "CancelRequest") /\ Be(c, "asking")
  /\ UNCHANGED <<seen, toClient, toServer, fromServer>>
  /\ ClientFrame

AnswerTo(m) ==
  CASE m = "AuthCleartext" -> "Password"
    [] m = "AuthMD5"       -> "MD5"
    [] m = "AuthSASL"      -> "SASLInitial"
    [] m = "SASLContinue"  -> "SASLResponse"

ClientReads(c) ==
  LET m == Head(toClient[c])
  IN  /\ client[c] \in {"askedSSL", "waiting"}
      /\ Pull(toClient, c)
      /\ seen' = [seen EXCEPT ![c] = Append(@, m)]
      /\ IF m \in Asks \ {"SASLFinal"} THEN Put(toProxy, c, AnswerTo(m)) ELSE UNCHANGED toProxy
      /\ \/ m = "N" /\ Be(c, "plain")
         \/ m = "Ready" /\ Be(c, "ready")
         \/ m = "Error" /\ Be(c, "turnedAway")
         \/ m \notin {"N", "Ready", "Error"} /\ UNCHANGED client
      /\ UNCHANGED <<toServer, fromServer>>
      /\ ClientFrame

\* The proxy has closed the connection, or never took it.
ClientSeesEnd(c) ==
  /\ client[c] \in {"connected", "askedSSL", "plain", "waiting", "asking", "stray", "ready"}
  /\ toClient[c] = <<>>
  /\ handler[c] = "ended"
  /\ Be(c, "turnedAway")
  /\ UNCHANGED <<seen, streamVars>>
  /\ ClientFrame

ClientLeaves(c) ==
  /\ client[c] \in {"connected", "askedSSL", "plain", "waiting", "stray", "ready"}
  /\ Be(c, "left")
  /\ UNCHANGED <<seen, streamVars>>
  /\ ClientFrame

-----------------------------------------------------------------------------
(* External: the PostgreSQL session.                                       *)

SessionFrame == UNCHANGED <<globalVars, givenVars, handler, client, seen, toProxy, toClient>>

Say(c, replies, to) ==
  /\ fromServer' = [fromServer EXCEPT ![c] = @ \o replies]
  /\ session' = [session EXCEPT ![c] = to]

Welcome == <<"AuthOk", "Settings", "Ready">>

Admit(c, first) ==
  /\ right
  /\ accepted' = [accepted EXCEPT ![c] = TRUE]
  /\ Say(c, first \o Welcome, "ready")

Refuse(c) == Say(c, <<"Error">>, "closed") /\ UNCHANGED accepted
Ask(c, m, to) == Say(c, <<m>>, to) /\ UNCHANGED accepted

TakeStartup(c) ==
  /\ session[c] = "none" /\ Head(toServer[c]) = "StartupMessage"
  /\ CASE method = "trust"         -> IF right THEN Admit(c, <<>>) ELSE Refuse(c)
       [] method = "password"      -> Ask(c, "AuthCleartext", "password")
       [] method = "md5"           -> Ask(c, "AuthMD5", "md5")
       [] method = "scram-sha-256" -> Ask(c, "AuthSASL", "sasl")

TakeCancel(c) ==
  /\ session[c] = "none" /\ Head(toServer[c]) = "CancelRequest"
  /\ session' = [session EXCEPT ![c] = "cancelled"]
  /\ UNCHANGED <<accepted, fromServer>>

Expected(c) ==
  CASE session[c] = "password"  -> "Password"
    [] session[c] = "md5"       -> "MD5"
    [] session[c] = "sasl"      -> "SASLInitial"
    [] session[c] = "saslFinal" -> "SASLResponse"

TakeAnswer(c) ==
  /\ session[c] \in Waiting
  /\ IF Head(toServer[c]) # Expected(c) THEN Refuse(c)
     ELSE IF session[c] = "sasl" THEN Ask(c, "SASLContinue", "saslFinal")
     ELSE IF ~right THEN Refuse(c)
     ELSE Admit(c, IF session[c] = "saslFinal" THEN <<"SASLFinal">> ELSE <<>>)

Serve(c) ==
  /\ Pull(toServer, c)
  /\ TakeStartup(c) \/ TakeCancel(c) \/ TakeAnswer(c)
  /\ SessionFrame

\* authentication_timeout: an answer is due and none is on the way, the client
\* having read the request or being gone.
SessionTimesOut(c) ==
  /\ session[c] \in Waiting
  /\ toServer[c] = <<>> /\ fromServer[c] = <<>>
  /\ toClient[c] = <<>> \/ client[c] \in Leaving
  /\ Refuse(c)
  /\ UNCHANGED toServer
  /\ SessionFrame

\* The handler has closed the connection, or PostgreSQL does.
SessionCloses(c) ==
  /\ \/ session[c] \in Waiting \cup {"ready"} /\ handler[c] = "ended" /\ toServer[c] = <<>>
     \/ session[c] = "ready" /\ handler[c] = "relay"
  /\ session' = [session EXCEPT ![c] = "closed"]
  /\ UNCHANGED <<accepted, toServer, fromServer>>
  /\ SessionFrame

-----------------------------------------------------------------------------

\* SIGINT or SIGTERM.
Stop ==
  /\ ~cancelled
  /\ cancelled' = TRUE
  /\ UNCHANGED <<listening, run, givenVars, handler, ConnVars>>

Client(c)  == ClientConnects(c) \/ ClientRequests(c) \/ ClientReads(c) \/ ClientSeesEnd(c) \/ ClientLeaves(c)
Session(c) == Serve(c) \/ SessionTimesOut(c) \/ SessionCloses(c)

Next ==
  \/ Server \/ Stop
  \/ \E c \in Clients : HandleConnection(c) \/ Client(c) \/ Session(c)

Spec == Init /\ [][Next]_vars

\* Every goroutine and every session goes on when it can; a client reads what
\* it is sent and answers, but need not ask for anything, nor leave.
Fairness ==
  /\ WF_vars(CloseListener) /\ WF_vars(RunReturns)
  /\ \A c \in Clients :
       /\ WF_vars(Accept(c)) /\ WF_vars(Panics(c)) /\ WF_vars(Handshake(c))
       /\ WF_vars(UpReadsEnd(c)) /\ WF_vars(DownReadsEnd(c))
       /\ WF_vars(ClientReads(c)) /\ WF_vars(ClientSeesEnd(c))
       /\ WF_vars(Serve(c) \/ SessionTimesOut(c))

FairSpec == Spec /\ Fairness

-----------------------------------------------------------------------------
(* Correctness.                                                            *)

\* A client is told ReadyForQuery, and its statements are relayed, only when
\* PostgreSQL has accepted the user of the session: the AuthenticationOk of
\* bypassAuth opens nothing by itself.
ReadyMeansAccepted ==
  \A c \in Clients : client[c] = "ready" \/ handler[c] = "relay" => accepted[c]

\* What a client reads is the start of a session as PostgreSQL would open it:
\* one AuthenticationOk, no settings before it, no request to authenticate
\* after it, ReadyForQuery last.
OrderlyStart ==
  \A c \in Clients : \A i \in DOMAIN seen[c] :
    LET before == {seen[c][k] : k \in 1..i - 1}
    IN  /\ seen[c][i] = "AuthOk" \/ seen[c][i] \in Asks => "AuthOk" \notin before
        /\ seen[c][i] \in {"Settings", "Ready"} => "AuthOk" \in before
        /\ "Ready" \notin before

\* The relay starts on a clean connection: no message of the authentication is
\* left in the streams for clientToBackend or backendToClient to mistake.
FreshStart ==
  [][\A c \in Clients : handler[c] # "relay" /\ handler'[c] = "relay" =>
       toProxy'[c] = <<>> /\ fromServer'[c] = <<>> /\ toServer'[c] = <<>>]_vars

\* What the authentication can deal with.
CanServe ==
  /\ upstream /\ right
  /\ method \in IF bypass THEN {"trust", "password", "scram-sha-256"} ELSE {"trust"}

\* A client that asks for a session gets one, whatever the other clients wait
\* for, as long as neither it nor the server goes away, by a signal or a panic.
GetsIn ==
  \A c \in Clients : CanServe /\ client[c] = "waiting" ~>
    client[c] \in {"ready", "left"} \/ run # "accept"

\* handler.go:116: "Normal mode: relay auth messages between client and
\* backend." A client that knows its password gets a session.
Authenticates ==
  \A c \in Clients : upstream /\ right /\ client[c] = "waiting" ~>
    client[c] \in {"ready", "left"} \/ run # "accept"

\* A request to cancel reaches PostgreSQL, whether or not it asked for TLS first.
CancelArrives ==
  \A c \in Clients : upstream /\ client[c] = "asking" ~>
    session[c] = "cancelled" \/ run # "accept"

\* After the signal the server returns, whatever the handlers wait for, and no
\* client is left in front of an open connection.
ShutsDown ==
  cancelled ~> /\ run # "accept"
               /\ \A c \in Clients : client[c] \in {"away", "turnedAway", "left"}

\* What a client is given is a tunnel: the proxy closes a connection only when
\* the client, PostgreSQL or the proxy itself is gone, or PostgreSQL cannot be
\* reached, and then a handler does not outlive them, whatever it waits for.
Stage(c) == IF handler[c] = "relay" THEN "open"
            ELSE IF handler[c] = "ended" THEN "closed" ELSE "opening"

\* A client that asks to cancel wants no connection.
GoneFor(c) == {p \in {"client", "server", "proxy"} :
                 \/ p = "client" /\ client[c] \in Leaving \cup {"asking"}
                 \/ p = "server" /\ session[c] = "closed"
                 \/ p = "proxy"  /\ (cancelled \/ run # "accept")}

Tunnelled(c) == INSTANCE Tunnel WITH state <- Stage(c), gone <- GoneFor(c), reachable <- upstream

Tunnels ==
  /\ \A c \in Clients : Tunnelled(c)!Init
  /\ [][\A c \in Clients : [Tunnelled(c)!Next]_(Tunnelled(c)!vars)]_vars
  /\ \A c \in Clients : Tunnelled(c)!Fairness

=============================================================================
