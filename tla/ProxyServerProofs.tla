------------------------- MODULE ProxyServerProofs -------------------------
(***************************************************************************)
(* Proofs about ProxyServer, for any number of clients: its types, that    *)
(* nobody is let in whom PostgreSQL has not accepted, and that every       *)
(* connection is, step by step, the tunnel of module Tunnel.               *)
(***************************************************************************)
EXTENDS ProxyServer, TLAPS

-----------------------------------------------------------------------------
(* Streams.                                                                *)

Stream(S) == [Clients -> Seq(S)]

\* m is somewhere in s.
Holds(s, m) == \E i \in DOMAIN s : s[i] = m

LEMMA ConcatType == \A S : \A s, t \in Seq(S) : s \o t \in Seq(S)
OBVIOUS

LEMMA HoldsAppend ==
  ASSUME NEW S, NEW s \in Seq(S), NEW m \in S, NEW r, Holds(Append(s, m), r)
  PROVE  Holds(s, r) \/ m = r
BY DEF Holds

LEMMA HoldsTail ==
  ASSUME NEW S, NEW s \in Seq(S), s # <<>>, NEW r, Holds(Tail(s), r)
  PROVE  Holds(s, r)
<1>1. PICK i \in DOMAIN Tail(s) : Tail(s)[i] = r
  BY DEF Holds
<1>2. i + 1 \in DOMAIN s /\ s[i + 1] = Tail(s)[i]
  OBVIOUS
<1> QED
  BY <1>1, <1>2 DEF Holds

LEMMA HoldsHead ==
  ASSUME NEW S, NEW s \in Seq(S), s # <<>>
  PROVE  Holds(s, Head(s))
<1>1. 1 \in DOMAIN s /\ s[1] = Head(s)
  OBVIOUS
<1> QED
  BY <1>1 DEF Holds

LEMMA HoldsOne ==
  ASSUME NEW S, NEW s \in Seq(S), NEW m \in S, NEW r, Holds(s \o <<m>>, r)
  PROVE  Holds(s, r) \/ m = r
BY DEF Holds

-----------------------------------------------------------------------------
(* Types.                                                                  *)

\* A handler ends and says nothing.
Ending(c) == HandlerFails(c) \/ UpReadsEnd(c) \/ DownReadsEnd(c) \/ RelayCut(c)

LEMMA EndingFails ==
  ASSUME NEW c \in Clients, Ending(c)
  PROVE  Fails(c)
BY DEF Ending, HandlerFails, UpReadsEnd, DownReadsEnd, RelayCut

LEMMA InitType == Init => TypeOK
<1> SUFFICES ASSUME Init PROVE TypeOK
  OBVIOUS
<1> USE DEF Init
<1>1. listening \in BOOLEAN /\ cancelled \in BOOLEAN /\ run \in {"accept", "returned", "panicked"} /\ bypass \in Modes
  OBVIOUS
<1>2. method \in Methods /\ right \in BOOLEAN /\ upstream \in BOOLEAN
  OBVIOUS
<1>3. /\ handler \in [Clients -> Reading \cup Authing \cup {"none", "cancel", "dial", "greet", "relay", "ended"}]
  /\ client \in [Clients -> {"away", "connected", "askedSSL", "plain", "waiting", "asking",
                             "stray", "ready", "turnedAway", "left"}]
  /\ session \in [Clients -> Waiting \cup {"none", "ready", "cancelled", "closed"}]
  OBVIOUS
<1>4. accepted \in [Clients -> BOOLEAN]
  OBVIOUS
<1>5. /\ seen \in [Clients -> Seq(Replies)]
  /\ toProxy \in [Clients -> Seq(Requests \cup Answers)]
  /\ toClient \in [Clients -> Seq(Replies)]
  /\ toServer \in [Clients -> Seq(Requests \cup Answers)]
  /\ fromServer \in [Clients -> Seq(Replies)]
  OBVIOUS
<1> QED
  BY <1>1, <1>2, <1>3, <1>4, <1>5 DEF TypeOK

Sent  == Stream(Requests \cup Answers)
Said  == Stream(Replies)

PlacesOK ==
  /\ handler \in [Clients -> Reading \cup Authing \cup {"none", "cancel", "dial", "greet", "relay", "ended"}]
  /\ client \in [Clients -> {"away", "connected", "askedSSL", "plain", "waiting", "asking",
                             "stray", "ready", "turnedAway", "left"}]
  /\ session \in [Clients -> Waiting \cup {"none", "ready", "cancelled", "closed"}]

StreamsOK ==
  /\ toProxy \in Sent /\ toServer \in Sent
  /\ toClient \in Said /\ fromServer \in Said /\ seen \in Said

FlagsOK ==
  /\ listening \in BOOLEAN /\ cancelled \in BOOLEAN /\ run \in {"accept", "returned", "panicked"}
  /\ bypass \in Modes /\ method \in Methods /\ right \in BOOLEAN /\ upstream \in BOOLEAN
  /\ accepted \in [Clients -> BOOLEAN]

LEMMA TypeParts == TypeOK <=> PlacesOK /\ StreamsOK /\ FlagsOK
BY DEF TypeOK, PlacesOK, StreamsOK, FlagsOK, Sent, Said, Stream

\* A stream of messages stays one, whatever is put into it or pulled from it.
LEMMA Streams ==
  ASSUME StreamsOK, NEW c \in Clients
  PROVE  /\ \A m \in Requests \cup Answers :
              /\ Put(toProxy, c, m) => toProxy' \in Sent
              /\ Put(toServer, c, m) => toServer' \in Sent
         /\ \A m \in Replies : Put(toClient, c, m) => toClient' \in Said
         /\ Pull(toProxy, c) => toProxy' \in Sent /\ Head(toProxy[c]) \in Requests \cup Answers
         /\ Pull(toServer, c) => toServer' \in Sent
         /\ Pull(toClient, c) => toClient' \in Said /\ Head(toClient[c]) \in Replies
         /\ Pull(fromServer, c) => fromServer' \in Said /\ Head(fromServer[c]) \in Replies
<1> USE DEF StreamsOK, Put, Pull, Sent, Said, Stream
<1>1. ASSUME NEW m \in Requests \cup Answers, Put(toProxy, c, m) PROVE toProxy' \in Sent
  BY <1>1
<1>2. ASSUME NEW m \in Requests \cup Answers, Put(toServer, c, m) PROVE toServer' \in Sent
  BY <1>2
<1>3. ASSUME NEW m \in Replies, Put(toClient, c, m) PROVE toClient' \in Said
  BY <1>3
<1>4. ASSUME Pull(toProxy, c) PROVE toProxy' \in Sent /\ Head(toProxy[c]) \in Requests \cup Answers
  BY <1>4
<1>5. ASSUME Pull(toServer, c) PROVE toServer' \in Sent
  BY <1>5
<1>6. ASSUME Pull(toClient, c) PROVE toClient' \in Said /\ Head(toClient[c]) \in Replies
  BY <1>6
<1>7. ASSUME Pull(fromServer, c) PROVE fromServer' \in Said /\ Head(fromServer[c]) \in Replies
  BY <1>7
<1> QED
  BY ONLY <1>1, <1>2, <1>3, <1>4, <1>5, <1>6, <1>7

LEMMA HandlerType ==
  ASSUME TypeOK, NEW c \in Clients, HandleConnection(c)
  PROVE  TypeOK'
<1>1. FlagsOK' /\ client' = client /\ session' = session /\ seen' = seen
  <2>1. HandlerFrame
    BY DEF HandleConnection, Handshake, ReadStartup, ReadAfterSSL, ForwardCancel, Dial, RelayAuth, RelayUntil,
           Greet, BypassAuth, Authenticating, ScramContinue, ScramFinal, HandlerFails, Fails, UpReadsEnd, DownReadsEnd, RelayCut
  <2> QED
    BY <2>1, TypeParts DEF HandlerFrame, globalVars, givenVars, FlagsOK
<1>2. PlacesOK'
  <2>1. \E to \in Reading \cup Authing \cup {"cancel", "dial", "greet", "relay", "ended"} :
          handler' = [handler EXCEPT ![c] = to]
    BY DEF HandleConnection, Handshake, ReadStartup, ReadAfterSSL, ForwardCancel, Dial, RelayAuth, RelayUntil,
           Greet, BypassAuth, Authenticating, Reply, PassOn, ScramContinue, ScramFinal, HandlerFails, Fails, UpReadsEnd, DownReadsEnd, RelayCut, Goto, Routed, Reading, Authing
  <2> QED
    BY <1>1, <2>1, TypeParts DEF PlacesOK
<1>3. StreamsOK'
  <2>a. StreamsOK
    BY TypeParts
  <2>b. seen' \in Said
    BY <1>1, <2>a DEF StreamsOK
  <2>c. /\ {"N", "AuthOk"} \subseteq Replies
        /\ {"Password", "SASLInitial", "SASLResponse", "CancelRequest", "StartupMessage"}
             \subseteq Requests \cup Answers
    BY DEF Replies, Requests, Answers
  <2>1. CASE ReadStartup(c)
    BY <2>1, <2>a, <2>b, <2>c, Streams DEF ReadStartup, StreamsOK
  <2>2. CASE ReadAfterSSL(c)
    BY <2>2, <2>a, <2>b, <2>c, Streams DEF ReadAfterSSL, StreamsOK
  <2>3. CASE ForwardCancel(c) \/ Dial(c)
    BY <2>3, <2>a, <2>b, <2>c, Streams DEF ForwardCancel, Dial, StreamsOK
  <2>4. CASE RelayAuth(c)
    BY <2>4, <2>a, <2>b, <2>c, Streams DEF RelayAuth, RelayUntil, StreamsOK
  <2>5. CASE Greet(c)
    BY <2>5, <2>a, <2>b, <2>c, Streams DEF Greet, StreamsOK
  <2>6. CASE BypassAuth(c)
    BY <2>6, <2>a, <2>b, <2>c, Streams DEF BypassAuth, Authenticating, Reply, PassOn, StreamsOK
  <2>7. CASE ScramContinue(c) \/ ScramFinal(c)
    BY <2>7, <2>a, <2>b, <2>c, Streams DEF ScramContinue, ScramFinal, StreamsOK
  <2>8. CASE Ending(c)
    BY <2>8, <2>a, <2>b, EndingFails DEF Fails, streamVars, StreamsOK
  <2> QED
    BY <2>1, <2>2, <2>3, <2>4, <2>5, <2>6, <2>7, <2>8 DEF HandleConnection, Handshake, Ending
<1> QED
  BY <1>1, <1>2, <1>3 DEF TypeOK, FlagsOK, PlacesOK, StreamsOK, Sent, Said, Stream

LEMMA AnswerType == \A m \in Asks \ {"SASLFinal"} : AnswerTo(m) \in Answers
BY DEF Asks, AnswerTo, Answers

LEMMA ClientType ==
  ASSUME TypeOK, NEW c \in Clients, Client(c)
  PROVE  TypeOK'
<1>1. FlagsOK' /\ handler' = handler /\ session' = session
  <2>1. ClientFrame
    BY DEF Client, ClientConnects, ClientRequests, ClientReads, ClientSeesEnd, ClientLeaves
  <2> QED
    BY <2>1, TypeParts DEF ClientFrame, globalVars, givenVars, FlagsOK
<1>2. PlacesOK'
  <2>1. \/ client' = client
        \/ \E to \in {"connected", "askedSSL", "plain", "waiting", "asking", "stray", "ready", "turnedAway", "left"} :
             client' = [client EXCEPT ![c] = to]
    BY DEF Client, ClientConnects, ClientRequests, ClientReads, ClientSeesEnd, ClientLeaves, Be
  <2> QED
    BY <1>1, <2>1, TypeParts DEF PlacesOK
<1>3. StreamsOK'
  <2>a. StreamsOK
    BY TypeParts
  <2>b. {"SSLRequest", "StartupMessage", "CancelRequest", "Short"} \subseteq Requests \cup Answers
    BY DEF Requests
  <2>1. CASE ClientRequests(c)
    BY <2>1, <2>a, <2>b, Streams DEF ClientRequests, StreamsOK
  <2>2. CASE ClientReads(c)
    <3>1. toClient' \in Said /\ Head(toClient[c]) \in Replies
      BY <2>2, <2>a, Streams DEF ClientReads
    <3>2. seen' \in Said
      BY <2>2, <2>a, <3>1 DEF ClientReads, StreamsOK, Said, Stream
    <3>3. toProxy' \in Sent
      BY <2>2, <2>a, Streams, AnswerType DEF ClientReads, StreamsOK
    <3> QED
      BY <2>2, <2>a, <3>1, <3>2, <3>3 DEF ClientReads, StreamsOK
  <2>3. CASE ClientConnects(c) \/ ClientSeesEnd(c) \/ ClientLeaves(c)
    BY <2>3, <2>a DEF ClientConnects, ClientSeesEnd, ClientLeaves, streamVars, StreamsOK
  <2> QED
    BY <2>1, <2>2, <2>3 DEF Client
<1> QED
  BY <1>1, <1>2, <1>3 DEF TypeOK, FlagsOK, PlacesOK, StreamsOK, Sent, Said, Stream

\* What a session does: it admits its user, or leaves accepted alone and says
\* at most one thing, which is not ReadyForQuery.
LEMMA SessionStep ==
  ASSUME TypeOK, NEW c \in Clients, Session(c)
  PROVE  /\ UNCHANGED <<globalVars, givenVars, handler, client, seen, toProxy, toClient>>
         /\ toServer' \in Sent
         /\ \E to \in Waiting \cup {"ready", "cancelled", "closed"} :
              session' = [session EXCEPT ![c] = to]
         /\ \/ /\ accepted' = [accepted EXCEPT ![c] = TRUE]
               /\ \E t \in Seq(Replies) : fromServer' = [fromServer EXCEPT ![c] = @ \o t]
            \/ accepted' = accepted /\ fromServer' = fromServer
            \/ /\ accepted' = accepted
               /\ \E m \in Replies \ {"Ready"} : fromServer' = [fromServer EXCEPT ![c] = @ \o <<m>>]
<1> USE DEF Waiting
<1>1. UNCHANGED <<globalVars, givenVars, handler, client, seen, toProxy, toClient>>
  BY DEF Session, Serve, SessionTimesOut, SessionCloses, SessionFrame
<1>2. toServer' \in Sent
  <2>1. StreamsOK
    BY TypeParts
  <2>2. Pull(toServer, c) \/ toServer' = toServer
    BY DEF Session, Serve, SessionTimesOut, SessionCloses
  <2> QED
    BY <2>1, <2>2, Streams DEF StreamsOK
<1>3. ASSUME NEW first \in {<<>>, <<"SASLFinal">>}, Admit(c, first)
      PROVE  /\ session' = [session EXCEPT ![c] = "ready"]
             /\ accepted' = [accepted EXCEPT ![c] = TRUE]
             /\ \E t \in Seq(Replies) : fromServer' = [fromServer EXCEPT ![c] = @ \o t]
  <2>1. "SASLFinal" \in Replies /\ "AuthOk" \in Replies /\ "Settings" \in Replies /\ "Ready" \in Replies
    BY DEF Replies, Asks
  <2>a. Welcome \in Seq(Replies)
    BY ONLY <2>1 DEF Welcome
  <2>b. <<>> \in Seq(Replies) /\ <<"SASLFinal">> \in Seq(Replies)
    BY ONLY <2>1
  <2>2. first \o Welcome \in Seq(Replies)
    BY <2>a, <2>b, ConcatType
  <2> QED
    BY <1>3, <2>2 DEF Admit, Say
<1>4. ASSUME NEW m \in Asks, NEW to \in Waiting, Ask(c, m, to)
      PROVE  /\ session' = [session EXCEPT ![c] = to] /\ accepted' = accepted
             /\ m \in Replies \ {"Ready"} /\ fromServer' = [fromServer EXCEPT ![c] = @ \o <<m>>]
  BY <1>4 DEF Ask, Say, Replies, Asks
<1>5. ASSUME Refuse(c)
      PROVE  /\ session' = [session EXCEPT ![c] = "closed"] /\ accepted' = accepted
             /\ "Error" \in Replies \ {"Ready"}
             /\ fromServer' = [fromServer EXCEPT ![c] = @ \o <<"Error">>]
  BY <1>5 DEF Refuse, Say, Replies, Asks
<1>6. \/ \E first \in {<<>>, <<"SASLFinal">>} : Admit(c, first)
      \/ \E m \in Asks, to \in Waiting : Ask(c, m, to)
      \/ Refuse(c)
      \/ /\ \E to \in {"cancelled", "closed"} : session' = [session EXCEPT ![c] = to]
         /\ accepted' = accepted /\ fromServer' = fromServer
  <2>1. CASE Serve(c) /\ TakeStartup(c)
    <3>1. method \in {"trust", "password", "md5", "scram-sha-256"}
      BY ServerAssumption DEF TypeOK
    <3> QED
      BY <2>1, <3>1 DEF TakeStartup, Asks
  <2>2. CASE Serve(c) /\ TakeAnswer(c)
    BY <2>2 DEF TakeAnswer, Asks
  <2>3. CASE Serve(c) /\ TakeCancel(c)
    BY <2>3 DEF TakeCancel
  <2>4. CASE SessionTimesOut(c) \/ SessionCloses(c)
    BY <2>4 DEF SessionTimesOut, SessionCloses
  <2> QED
    BY <2>1, <2>2, <2>3, <2>4 DEF Session, Serve
<1> QED
  BY <1>1, <1>2, <1>3, <1>4, <1>5, <1>6

LEMMA SessionType ==
  ASSUME TypeOK, NEW c \in Clients, Session(c)
  PROVE  TypeOK'
<1>0. PlacesOK /\ StreamsOK /\ FlagsOK
  BY TypeParts
<1>1. FlagsOK'
  BY <1>0, SessionStep DEF FlagsOK, globalVars, givenVars
<1>2. PlacesOK'
  BY <1>0, SessionStep DEF PlacesOK
<1>3. fromServer' \in Said
  <2>1. fromServer' = fromServer \/ \E t \in Seq(Replies) : fromServer' = [fromServer EXCEPT ![c] = @ \o t]
    <3>1. \A m \in Replies : <<m>> \in Seq(Replies)
      OBVIOUS
    <3> QED
      BY <3>1, SessionStep
  <2>2. ASSUME NEW t \in Seq(Replies), fromServer' = [fromServer EXCEPT ![c] = @ \o t]
        PROVE  fromServer' \in Said
    <3>1. fromServer[c] \in Seq(Replies) /\ fromServer \in [Clients -> Seq(Replies)]
      BY <1>0 DEF StreamsOK, Said, Stream
    <3>2. fromServer[c] \o t \in Seq(Replies)
      BY <3>1, ConcatType
    <3> QED
      BY <2>2, <3>1, <3>2 DEF Said, Stream
  <2> QED
    BY <1>0, <2>1, <2>2 DEF StreamsOK
<1>4. StreamsOK'
  BY <1>0, <1>3, SessionStep DEF StreamsOK
<1> QED
  BY <1>1, <1>2, <1>4 DEF TypeOK, FlagsOK, PlacesOK, StreamsOK, Sent, Said, Stream

LEMMA ServerStep ==
  ASSUME TypeOK, Server \/ Stop
  PROVE  /\ UNCHANGED <<givenVars, client, session, accepted, seen, streamVars>>
         /\ listening' \in BOOLEAN /\ cancelled' \in BOOLEAN /\ run' \in {"accept", "returned", "panicked"}
         /\ \/ handler' = handler
            \/ handler' = [d \in Clients |-> "ended"]
            \/ \E c \in Clients : handler[c] = "none" /\ handler' = [handler EXCEPT ![c] = "readStartup"]
<1> USE DEF ConnVars
<1>1. CASE \E c \in Clients : Accept(c)
  BY <1>1 DEF Accept, Goto, globalVars, TypeOK
<1>2. CASE CloseListener \/ RunReturns \/ Stop
  BY <1>2 DEF CloseListener, RunReturns, Stop, TypeOK
<1>3. CASE \E c \in Clients : Panics(c)
  BY <1>3 DEF Panics, TypeOK
<1> QED
  BY <1>1, <1>2, <1>3 DEF Server

LEMMA ServerType ==
  ASSUME TypeOK, Server \/ Stop
  PROVE  TypeOK'
<1>0. PlacesOK /\ StreamsOK /\ FlagsOK
  BY TypeParts
<1>1. FlagsOK'
  BY <1>0, ServerStep DEF FlagsOK, givenVars
<1>2. PlacesOK'
  BY <1>0, ServerStep DEF PlacesOK, Reading
<1>3. StreamsOK'
  BY <1>0, ServerStep DEF StreamsOK, streamVars
<1> QED
  BY <1>1, <1>2, <1>3 DEF TypeOK, FlagsOK, PlacesOK, StreamsOK, Sent, Said, Stream

LEMMA NextType == TypeOK /\ [Next]_vars => TypeOK'
<1>1. ASSUME TypeOK, UNCHANGED vars PROVE TypeOK'
  BY <1>1 DEF TypeOK, vars, globalVars, givenVars, streamVars
<1> QED
  BY <1>1, HandlerType, ClientType, SessionType, ServerType DEF Next

\* Every variable keeps its type, for any number of clients.
THEOREM TypeCorrect == Spec => []TypeOK
<1> QED
  BY InitType, NextType, PTL DEF Spec

-----------------------------------------------------------------------------
(* Nobody is let in whom PostgreSQL has not accepted. ReadyForQuery is the *)
(* word that lets a client in, so it is followed from where PostgreSQL     *)
(* says it to where the client reads it.                                   *)

\* The client has been let in, or is about to be.
Welcomed(c) ==
  \/ Holds(fromServer[c], "Ready")
  \/ Holds(toClient[c], "Ready")
  \/ client[c] = "ready"
  \/ handler[c] = "relay"

WelcomeInv == \A c \in Clients : Welcomed(c) => accepted[c] = TRUE

LEMMA WelcomeImplies == TypeOK /\ WelcomeInv => ReadyMeansAccepted
BY DEF WelcomeInv, Welcomed, ReadyMeansAccepted

LEMMA InitWelcome == Init => WelcomeInv
BY DEF Init, WelcomeInv, Welcomed, Holds

\* Pulling from a stream adds nothing to it, and putting a message into it
\* adds that message, in one client's stream only.
LEMMA Words ==
  ASSUME StreamsOK, NEW c \in Clients, NEW d \in Clients
  PROVE  /\ Pull(fromServer, c) /\ Holds(fromServer'[d], "Ready") => Holds(fromServer[d], "Ready")
         /\ Pull(toClient, c) /\ Holds(toClient'[d], "Ready") => Holds(toClient[d], "Ready")
         /\ \A m \in Replies :
              Put(toClient, c, m) /\ Holds(toClient'[d], "Ready") =>
                Holds(toClient[d], "Ready") \/ (d = c /\ m = "Ready")
         /\ \A m \in Replies :
              fromServer' = [fromServer EXCEPT ![c] = @ \o <<m>>] /\ Holds(fromServer'[d], "Ready") =>
                Holds(fromServer[d], "Ready") \/ (d = c /\ m = "Ready")
<1>0. /\ fromServer \in [Clients -> Seq(Replies)] /\ toClient \in [Clients -> Seq(Replies)]
      /\ fromServer[c] \in Seq(Replies) /\ toClient[c] \in Seq(Replies)
  BY DEF StreamsOK, Said, Stream
<1>1. ASSUME Pull(fromServer, c), Holds(fromServer'[d], "Ready") PROVE Holds(fromServer[d], "Ready")
  <2>1. fromServer[c] # <<>> /\ fromServer'[d] = IF d = c THEN Tail(fromServer[c]) ELSE fromServer[d]
    BY <1>0, <1>1 DEF Pull
  <2> QED
    BY <1>0, <1>1, <2>1, HoldsTail
<1>2. ASSUME Pull(toClient, c), Holds(toClient'[d], "Ready") PROVE Holds(toClient[d], "Ready")
  <2>1. toClient[c] # <<>> /\ toClient'[d] = IF d = c THEN Tail(toClient[c]) ELSE toClient[d]
    BY <1>0, <1>2 DEF Pull
  <2> QED
    BY <1>0, <1>2, <2>1, HoldsTail
<1>3. ASSUME NEW m \in Replies, Put(toClient, c, m), Holds(toClient'[d], "Ready")
      PROVE  Holds(toClient[d], "Ready") \/ (d = c /\ m = "Ready")
  <2>1. toClient'[d] = IF d = c THEN Append(toClient[c], m) ELSE toClient[d]
    BY <1>0, <1>3 DEF Put
  <2> QED
    BY <1>0, <1>3, <2>1, HoldsAppend
<1>4. ASSUME NEW m \in Replies, fromServer' = [fromServer EXCEPT ![c] = @ \o <<m>>],
             Holds(fromServer'[d], "Ready")
      PROVE  Holds(fromServer[d], "Ready") \/ (d = c /\ m = "Ready")
  <2>1. fromServer'[d] = IF d = c THEN fromServer[c] \o <<m>> ELSE fromServer[d]
    BY <1>0, <1>4
  <2> QED
    BY <1>0, <1>4, <2>1, HoldsOne
<1> QED
  BY <1>1, <1>2, <1>3, <1>4

\* The first word of a stream is one of its words.
LEMMA FirstWord ==
  ASSUME StreamsOK, NEW c \in Clients
  PROVE  /\ Pull(fromServer, c) /\ Head(fromServer[c]) = "Ready" => Holds(fromServer[c], "Ready")
         /\ Pull(toClient, c) /\ Head(toClient[c]) = "Ready" => Holds(toClient[c], "Ready")
<1>1. fromServer[c] \in Seq(Replies) /\ toClient[c] \in Seq(Replies)
  BY DEF StreamsOK, Said, Stream
<1> QED
  BY <1>1, HoldsHead DEF Pull

\* A handler passes a welcome on and never makes one up.
LEMMA HandlerWelcome ==
  ASSUME TypeOK, NEW c \in Clients, HandleConnection(c), NEW d \in Clients, Welcomed(d)'
  PROVE  Welcomed(d) /\ accepted' = accepted
<1>0. StreamsOK /\ PlacesOK
  BY TypeParts
<1>1. accepted' = accepted /\ client' = client
  BY DEF HandleConnection, Handshake, ReadStartup, ReadAfterSSL, ForwardCancel, Dial, RelayAuth, RelayUntil, HandlerFrame,
         Greet, BypassAuth, Authenticating, ScramContinue, ScramFinal, HandlerFails, Fails, UpReadsEnd, DownReadsEnd, RelayCut
<1>2. handler'[d] = "relay" => handler[d] = "relay" \/ Holds(fromServer[d], "Ready")
  <2>1. \/ \E to \in Reading \cup Authing \cup {"cancel", "dial", "greet", "ended"} :
             handler' = [handler EXCEPT ![c] = to]
        \/ Pull(fromServer, c) /\ Head(fromServer[c]) = "Ready" /\ handler' = [handler EXCEPT ![c] = "relay"]
    BY DEF HandleConnection, Handshake, ReadStartup, ReadAfterSSL, ForwardCancel, Dial, RelayAuth, RelayUntil,
           Greet, BypassAuth, Authenticating, Reply, PassOn, ScramContinue, ScramFinal, HandlerFails, Fails, UpReadsEnd, DownReadsEnd, RelayCut, Goto, Routed, Reading, Authing
  <2> QED
    BY <1>0, <2>1, FirstWord DEF PlacesOK, Reading, Authing
<1>3. Holds(toClient'[d], "Ready") => Holds(toClient[d], "Ready") \/ Holds(fromServer[d], "Ready")
  <2>1. \/ toClient' = toClient
        \/ Put(toClient, c, "N") \/ Put(toClient, c, "AuthOk")
        \/ Pull(fromServer, c) /\ Put(toClient, c, Head(fromServer[c]))
    BY DEF HandleConnection, Handshake, ReadStartup, ReadAfterSSL, ForwardCancel, Dial, RelayAuth, RelayUntil,
           Greet, BypassAuth, Authenticating, Reply, PassOn, ScramContinue, ScramFinal, HandlerFails, Fails, UpReadsEnd, DownReadsEnd, RelayCut, streamVars
  <2>2. "N" \in Replies /\ "AuthOk" \in Replies /\ (Pull(fromServer, c) => Head(fromServer[c]) \in Replies)
    BY <1>0, Streams DEF Replies
  <2> QED
    BY <1>0, <2>1, <2>2, Words, FirstWord
<1>4. Holds(fromServer'[d], "Ready") => Holds(fromServer[d], "Ready")
  <2>1. fromServer' = fromServer \/ Pull(fromServer, c)
    BY DEF HandleConnection, Handshake, ReadStartup, ReadAfterSSL, ForwardCancel, Dial, RelayAuth, RelayUntil,
           Greet, BypassAuth, Authenticating, ScramContinue, ScramFinal, HandlerFails, Fails, UpReadsEnd, DownReadsEnd, RelayCut, streamVars
  <2> QED
    BY <1>0, <2>1, Words
<1> QED
  BY <1>1, <1>2, <1>3, <1>4 DEF Welcomed

\* A client is let in by what it reads.
LEMMA ClientWelcome ==
  ASSUME TypeOK, NEW c \in Clients, Client(c), NEW d \in Clients, Welcomed(d)'
  PROVE  Welcomed(d) /\ accepted' = accepted
<1>0. StreamsOK /\ PlacesOK
  BY TypeParts
<1>1. accepted' = accepted /\ handler' = handler /\ fromServer' = fromServer
  BY DEF Client, ClientConnects, ClientRequests, ClientReads, ClientSeesEnd, ClientLeaves, ClientFrame, streamVars
<1>2. toClient' = toClient \/ Pull(toClient, c)
  BY DEF Client, ClientConnects, ClientRequests, ClientReads, ClientSeesEnd, ClientLeaves, streamVars
<1>3. Holds(toClient'[d], "Ready") => Holds(toClient[d], "Ready")
  BY <1>0, <1>2, Words
<1>4. client'[d] = "ready" => client[d] = "ready" \/ Holds(toClient[d], "Ready")
  <2>1. \/ \E to \in {"connected", "askedSSL", "plain", "waiting", "asking", "stray", "turnedAway", "left"} :
             client' = [client EXCEPT ![c] = to]
        \/ client' = client
        \/ Pull(toClient, c) /\ Head(toClient[c]) = "Ready" /\ client' = [client EXCEPT ![c] = "ready"]
    BY DEF Client, ClientConnects, ClientRequests, ClientReads, ClientSeesEnd, ClientLeaves, Be
  <2> QED
    BY <1>0, <2>1, FirstWord DEF PlacesOK
<1> QED
  BY <1>1, <1>3, <1>4 DEF Welcomed

LEMMA NextWelcome == TypeOK /\ WelcomeInv /\ [Next]_vars => WelcomeInv'
<1> SUFFICES ASSUME TypeOK, WelcomeInv, [Next]_vars, NEW d \in Clients, Welcomed(d)'
             PROVE  accepted'[d] = TRUE
  BY DEF WelcomeInv
<1>0. StreamsOK /\ PlacesOK /\ accepted \in [Clients -> BOOLEAN]
  BY TypeParts DEF FlagsOK
<1>1. CASE UNCHANGED vars
  <2>1. Welcomed(d) /\ accepted' = accepted
    BY <1>1 DEF vars, streamVars, Welcomed
  <2> QED
    BY <2>1 DEF WelcomeInv
<1>2. CASE Server \/ Stop
  <2>1. Welcomed(d) /\ accepted' = accepted
    BY <1>0, <1>2, ServerStep DEF Welcomed, PlacesOK, streamVars
  <2> QED
    BY <2>1 DEF WelcomeInv
<1>3. CASE \E c \in Clients : HandleConnection(c)
  BY <1>3, HandlerWelcome DEF WelcomeInv
<1>4. CASE \E c \in Clients : Client(c)
  BY <1>4, ClientWelcome DEF WelcomeInv
<1>5. ASSUME NEW c \in Clients, Session(c) PROVE accepted'[d] = TRUE
  <2>1. UNCHANGED <<handler, client, toClient>>
    BY <1>5, SessionStep
  <2>2. CASE accepted' = [accepted EXCEPT ![c] = TRUE] /\ \E t \in Seq(Replies) : fromServer' = [fromServer EXCEPT ![c] = @ \o t]
    <3>1. CASE d = c
      BY <1>0, <2>2, <3>1
    <3>2. CASE d # c
      <4>1. fromServer'[d] = fromServer[d] /\ accepted'[d] = accepted[d]
        BY <1>0, <2>2, <3>2 DEF StreamsOK, Said, Stream
      <4>2. Welcomed(d)
        BY <2>1, <4>1 DEF Welcomed
      <4> QED
        BY <4>1, <4>2 DEF WelcomeInv
    <3> QED
      BY <3>1, <3>2
  <2>3. CASE accepted' = accepted /\ fromServer' = fromServer
    BY <2>1, <2>3 DEF WelcomeInv, Welcomed
  <2>4. CASE accepted' = accepted /\ \E m \in Replies \ {"Ready"} : fromServer' = [fromServer EXCEPT ![c] = @ \o <<m>>]
    <3>1. Holds(fromServer'[d], "Ready") => Holds(fromServer[d], "Ready")
      BY <1>0, <2>4, Words
    <3>2. Welcomed(d)
      BY <2>1, <3>1 DEF Welcomed
    <3> QED
      BY <2>4, <3>2 DEF WelcomeInv
  <2> QED
    BY <1>5, <2>2, <2>3, <2>4, SessionStep
<1> QED
  BY <1>1, <1>2, <1>3, <1>4, <1>5 DEF Next

\* A client is told ReadyForQuery, and its statements are relayed, only when
\* PostgreSQL has accepted the user of its session, for any number of clients
\* and whatever pg_hba.conf asks for: the AuthenticationOk that bypassAuth
\* sends by itself opens nothing.
THEOREM OnlyAcceptedGetIn == Spec => []ReadyMeansAccepted
<1>1. TypeOK /\ WelcomeInv /\ [Next]_vars => (TypeOK /\ WelcomeInv)'
  BY NextType, NextWelcome
<1>2. Init => TypeOK /\ WelcomeInv
  BY InitType, InitWelcome
<1> QED
  BY <1>1, <1>2, WelcomeImplies, PTL DEF Spec

-----------------------------------------------------------------------------
(* What a client is told until the relay takes over, and what the relay    *)
(* finds in the streams. Every connection goes through phases of its own:  *)
(* Knocking until its first message of interest is read, Sought until      *)
(* PostgreSQL has been dialled, then Relaying, or Greeting (POSTGRES_USER) *)
(* with the messages of one method of authentication in hand, then Over.   *)

\* What OrderlyStart says of what one client has read.
Orderly(s) ==
  \A i \in DOMAIN s :
    /\ s[i] \in Asks \cup {"AuthOk"} => \A k \in 1..i - 1 : s[k] # "AuthOk"
    /\ s[i] \in {"Settings", "Ready"} => \E k \in 1..i - 1 : s[k] = "AuthOk"
    /\ \A k \in 1..i - 1 : s[k] # "Ready"

\* The session has not been opened yet; it has been, but not up to the end.
Unopened(s) == \A i \in DOMAIN s : s[i] \in Asks \cup {"N", "Error"}
Opened(s)   == Orderly(s) /\ Holds(s, "AuthOk") /\ ~Holds(s, "Ready")

\* What is said is none of these.
Without(s, words) == \A i \in DOMAIN s : s[i] \notin words

\* All a client is told, read or not.
Told(c) == seen[c] \o toClient[c]

\* What is left of Welcome once it has begun to arrive.
Rest == {<<"Settings", "Ready">>, <<"Ready">>}

\* Neither the database nor the client's password is in play.
Untouched(c) ==
  /\ session[c] = "none" /\ ~accepted[c]
  /\ toServer[c] = <<>> /\ fromServer[c] = <<>>
  /\ Unopened(Told(c))

Knocking(c) ==
  /\ handler[c] \in {"none"} \cup Reading
  /\ Untouched(c)
  /\ Without(toClient[c], Asks \cup {"Error"})
  /\ \/ /\ client[c] \in {"away", "connected"} /\ handler[c] # "readAfterSSL"
        /\ toProxy[c] = <<>> /\ toClient[c] = <<>>
     \/ /\ client[c] = "askedSSL" /\ handler[c] # "readAfterSSL"
        /\ toProxy[c] = <<"SSLRequest">> /\ toClient[c] = <<>>
     \/ /\ client[c] = "askedSSL" /\ handler[c] = "readAfterSSL"
        /\ toProxy[c] = <<>> /\ toClient[c] = <<"N">>
     \/ /\ client[c] = "plain" /\ handler[c] = "readAfterSSL"
        /\ toProxy[c] = <<>> /\ toClient[c] = <<>>
     \/ /\ \/ client[c] = "waiting" /\ toProxy[c] = <<"StartupMessage">>
           \/ client[c] = "asking"  /\ toProxy[c] = <<"CancelRequest">>
           \/ client[c] = "stray"   /\ toProxy[c] = <<"Short">>
        /\ toClient[c] = <<>>
     \/ /\ client[c] = "left"
        /\ toProxy[c] = <<>> \/ \E m \in Requests : toProxy[c] = <<m>>

\* The client has asked for what it wants, and gone maybe; it is told no more
\* of TLS.
Committed(c) ==
  /\ client[c] \in {"waiting", "asking", "turnedAway", "left", "ready"}
  /\ client[c] = "waiting" => Without(toClient[c], {"N"})

Sought(c) ==
  /\ handler[c] \in {"cancel", "dial"}
  /\ Untouched(c)
  /\ Committed(c)
  /\ Without(toClient[c], Asks)
  /\ toProxy[c] = <<>>
  /\ handler[c] = "cancel" => client[c] \in {"asking", "turnedAway", "left"}

\* What is left of Welcome, and what the client has been told before.
Welcoming(c) ==
  /\ session[c] = "ready" /\ toServer[c] = <<>>
  /\ \/ fromServer[c] = Welcome /\ Unopened(Told(c))
     \/ fromServer[c] \in Rest /\ Opened(Told(c))

\* relayAuth: PostgreSQL trusts the client, or asks and waits in vain.
Relaying(c) ==
  /\ handler[c] = "relayAuth" /\ ~bypass
  /\ Committed(c)
  /\ Without(fromServer[c], {"N"})
  /\ \/ /\ session[c] = "none" /\ toServer[c] = <<"StartupMessage">> /\ fromServer[c] = <<>>
        /\ toProxy[c] = <<>> /\ Without(toClient[c], Asks) /\ Unopened(Told(c))
     \/ /\ session[c] \in Waiting \cup {"closed"}
        /\ toServer[c] = <<>> /\ Unopened(Told(c)) /\ Unopened(fromServer[c])
     \/ Welcoming(c) /\ toProxy[c] = <<>> /\ Without(toClient[c], Asks)

\* bypassAuth and scramAuth: what is asked is answered, method by method.
Asked(c, m, answer) ==
  \/ /\ fromServer[c] = <<m>> /\ toServer[c] = <<>> /\ handler[c] \in {"greet", "bypassAuth"}
  \/ /\ fromServer[c] = <<>> /\ toServer[c] = <<answer>> /\ handler[c] = "bypassAuth"

Exchange(c) ==
  \/ /\ session[c] = "none" /\ toServer[c] = <<"StartupMessage">> /\ fromServer[c] = <<>>
     /\ handler[c] \in {"greet", "bypassAuth"}
  \/ session[c] = "password" /\ Asked(c, "AuthCleartext", "Password")
  \/ session[c] = "md5" /\ Asked(c, "AuthMD5", "Password")
  \/ /\ session[c] = "sasl"
     /\ \/ fromServer[c] = <<"AuthSASL">> /\ toServer[c] = <<>> /\ handler[c] \in {"greet", "bypassAuth"}
        \/ fromServer[c] = <<>> /\ toServer[c] = <<"SASLInitial">> /\ handler[c] = "saslContinue"
  \/ /\ session[c] = "saslFinal"
     /\ \/ fromServer[c] = <<"SASLContinue">> /\ toServer[c] = <<>> /\ handler[c] = "saslContinue"
        \/ fromServer[c] = <<>> /\ toServer[c] = <<"SASLResponse">> /\ handler[c] = "saslFinal"
  \/ /\ session[c] = "ready" /\ toServer[c] = <<>>
     /\ fromServer[c] = <<"SASLFinal">> \o Welcome /\ handler[c] = "saslFinal"
  \/ /\ session[c] = "ready" /\ toServer[c] = <<>>
     /\ \/ fromServer[c] = Welcome /\ handler[c] \in {"greet", "bypassAuth"}
        \/ fromServer[c] \in Rest /\ handler[c] = "bypassAuth"
  \/ /\ session[c] = "closed" /\ toServer[c] = <<>>
     /\ fromServer[c] = <<"Error">> /\ handler[c] \in {"greet"} \cup (Authing \ {"relayAuth"})

Bypassing(c) ==
  /\ handler[c] \in {"greet"} \cup (Authing \ {"relayAuth"}) /\ bypass
  /\ Committed(c)
  /\ Exchange(c)
  /\ IF handler[c] = "greet" THEN Unopened(Told(c)) ELSE Opened(Told(c))
  /\ Without(toClient[c], Asks)
  /\ toProxy[c] = <<>>

Over(c) == handler[c] \in {"relay", "ended"} /\ Orderly(Told(c))

Starts(c) == Knocking(c) \/ Sought(c) \/ Relaying(c) \/ Bypassing(c) \/ Over(c)

StartInv == \A c \in Clients : Starts(c)

-----------------------------------------------------------------------------
(* Words and sequences of them.                                            *)

LEMMA TailOfThree ==
  ASSUME NEW S, NEW x \in S, NEW y \in S, NEW z \in S
  PROVE  Tail(<<x, y, z>>) = <<y, z>>
<1>1. \A i \in 1..2 : Tail(<<x, y, z>>)[i] = <<y, z>>[i]
  OBVIOUS
<1>2. Tail(<<x, y, z>>) \in Seq(S) /\ Len(Tail(<<x, y, z>>)) = 2
  OBVIOUS
<1>3. <<y, z>> \in Seq(S) /\ Len(<<y, z>>) = 2
  OBVIOUS
<1> QED
  BY <1>1, <1>2, <1>3

LEMMA WordsOfWelcome ==
  /\ Welcome # <<>> /\ Head(Welcome) = "AuthOk" /\ Tail(Welcome) = <<"Settings", "Ready">>
  /\ <<>> \o (<<>> \o Welcome) = Welcome
  /\ <<>> \o (<<"SASLFinal">> \o Welcome) = <<"SASLFinal">> \o Welcome
  /\ <<"SASLFinal">> \o Welcome # <<>>
  /\ Head(<<"SASLFinal">> \o Welcome) = "SASLFinal" /\ Tail(<<"SASLFinal">> \o Welcome) = Welcome
  /\ Head(<<"Settings", "Ready">>) = "Settings" /\ Tail(<<"Settings", "Ready">>) = <<"Ready">>
  /\ Head(<<"Ready">>) = "Ready" /\ Tail(<<"Ready">>) = <<>>
  /\ <<"Settings", "Ready">> # <<>> /\ <<"Ready">> # <<>>
<1>1. Welcome \in Seq(Replies) /\ Welcome # <<>> /\ Head(Welcome) = "AuthOk" /\ Tail(Welcome) = <<"Settings", "Ready">>
  <2>1. ASSUME NEW S, NEW x \in S, NEW y \in S, NEW z \in S
        PROVE  <<x, y, z>> \in Seq(S) /\ <<x, y, z>> # <<>> /\ Head(<<x, y, z>>) = x
    OBVIOUS
  <2>2. "AuthOk" \in Replies /\ "Settings" \in Replies /\ "Ready" \in Replies
    BY DEF Replies
  <2> QED
    BY ONLY <2>1, <2>2, TailOfThree DEF Welcome
<1>2. Head(<<"Settings", "Ready">>) = "Settings" /\ Tail(<<"Settings", "Ready">>) = <<"Ready">>
  OBVIOUS
<1>3. Head(<<"Ready">>) = "Ready" /\ Tail(<<"Ready">>) = <<>>
  OBVIOUS
<1>4. <<"Settings", "Ready">> # <<>> /\ <<"Ready">> # <<>>
  OBVIOUS
<1>5. \A S : \A w \in Seq(S), m \in S :
        /\ <<>> \o (<<>> \o w) = w
        /\ <<>> \o (<<m>> \o w) = <<m>> \o w
        /\ <<m>> \o w # <<>> /\ Head(<<m>> \o w) = m /\ Tail(<<m>> \o w) = w
  OBVIOUS
<1>6. "SASLFinal" \in Replies
  BY DEF Replies, Asks
<1> QED
  BY <1>1, <1>2, <1>3, <1>4, <1>5, <1>6

\* One message more, at either end.
LEMMA OneMore ==
  ASSUME NEW S, NEW s \in Seq(S), NEW m \in S
  PROVE  /\ DOMAIN Append(s, m) = 1..Len(s) + 1
         /\ DOMAIN s = 1..Len(s) /\ Len(s) \in Nat
         /\ \A i \in DOMAIN s : Append(s, m)[i] = s[i]
         /\ Append(s, m)[Len(s) + 1] = m
OBVIOUS

LEMMA OneLess ==
  ASSUME NEW S, NEW s \in Seq(S), s # <<>>
  PROVE  /\ Tail(s) \in Seq(S) /\ Head(s) \in S
         /\ \A words : Without(s, words) => Without(Tail(s), words) /\ Head(s) \notin words
<1>1. Tail(s) \in Seq(S) /\ Head(s) \in S /\ 1 \in DOMAIN s /\ s[1] = Head(s)
  OBVIOUS
<1>2. \A i \in DOMAIN Tail(s) : i + 1 \in DOMAIN s /\ Tail(s)[i] = s[i + 1]
  OBVIOUS
<1> QED
  BY ONLY <1>1, <1>2 DEF Without

LEMMA WithoutMore ==
  ASSUME NEW S, NEW s \in Seq(S), NEW m \in S, NEW words, Without(s, words), m \notin words
  PROVE  Without(Append(s, m), words)
<1>1. \A i \in DOMAIN Append(s, m) : Append(s, m)[i] = m \/ (i \in DOMAIN s /\ Append(s, m)[i] = s[i])
  BY OneMore
<1> QED
  BY <1>1 DEF Without

\* What is told before the session is opened does no harm.
LEMMA UnopenedIsOrderly ==
  ASSUME NEW s \in Seq(Replies), Unopened(s)
  PROVE  Orderly(s) /\ ~Holds(s, "AuthOk") /\ ~Holds(s, "Ready")
<1>1. \A i \in DOMAIN s : s[i] \notin {"AuthOk", "Settings", "Ready"}
  BY DEF Unopened, Asks
<1>2. \A i \in DOMAIN s : \A k \in 1..i - 1 : k \in DOMAIN s
  OBVIOUS
<1> QED
  BY <1>1, <1>2 DEF Orderly, Holds

LEMMA UnopenedMore ==
  ASSUME NEW s \in Seq(Replies), NEW m \in Asks \cup {"N", "Error"}, Unopened(s)
  PROVE  Unopened(Append(s, m))
<1>1. m \in Replies
  BY DEF Replies
<1>2. \A i \in DOMAIN Append(s, m) : Append(s, m)[i] = m \/ (i \in DOMAIN s /\ Append(s, m)[i] = s[i])
  BY <1>1, OneMore
<1> QED
  BY <1>2 DEF Unopened

\* A sequence stays orderly if what follows fits.
LEMMA OrderlyMore ==
  ASSUME NEW s \in Seq(Replies), NEW m \in Replies, Orderly(s),
         m \in Asks \cup {"AuthOk"} => ~Holds(s, "AuthOk"),
         m \in {"Settings", "Ready"} => Holds(s, "AuthOk"),
         ~Holds(s, "Ready")
  PROVE  Orderly(Append(s, m))
<1> DEFINE t == Append(s, m)
<1>0. PICK n : n = Len(s)
  OBVIOUS
<1>1. /\ DOMAIN t = 1..n + 1 /\ DOMAIN s = 1..n /\ n \in Nat
      /\ \A i \in 1..n : t[i] = s[i]
      /\ t[n + 1] = m
  BY <1>0, OneMore
<1> HIDE DEF t
<1>2. ASSUME NEW i \in 1..n
      PROVE  /\ t[i] \in Asks \cup {"AuthOk"} => \A k \in 1..i - 1 : t[k] # "AuthOk"
             /\ t[i] \in {"Settings", "Ready"} => \E k \in 1..i - 1 : t[k] = "AuthOk"
             /\ \A k \in 1..i - 1 : t[k] # "Ready"
  <2>1. i \in DOMAIN s /\ t[i] = s[i] /\ \A k \in 1..i - 1 : t[k] = s[k]
    BY <1>1
  <2> QED
    BY <2>1 DEF Orderly
<1>3. /\ t[n + 1] \in Asks \cup {"AuthOk"} => \A k \in 1..n : t[k] # "AuthOk"
      /\ t[n + 1] \in {"Settings", "Ready"} => \E k \in 1..n : t[k] = "AuthOk"
      /\ \A k \in 1..n : t[k] # "Ready"
  BY <1>1 DEF Holds
<1>4. (n + 1) - 1 = n /\ \A i \in DOMAIN t : i \in 1..n \/ i = n + 1
  BY <1>1
<1>5. Orderly(t)
  BY <1>2, <1>3, <1>4 DEF Orderly
<1> QED
  BY <1>5 DEF t

LEMMA HoldsMore ==
  ASSUME NEW s \in Seq(Replies), NEW m \in Replies
  PROVE  \A r : Holds(Append(s, m), r) <=> Holds(s, r) \/ m = r
<1>1. /\ \A i \in DOMAIN s : i \in DOMAIN Append(s, m) /\ Append(s, m)[i] = s[i]
      /\ \A i \in DOMAIN Append(s, m) : Append(s, m)[i] = m \/ (i \in DOMAIN s /\ Append(s, m)[i] = s[i])
      /\ \E i \in DOMAIN Append(s, m) : Append(s, m)[i] = m
  BY OneMore
<1> QED
  BY <1>1 DEF Holds

\* How a session opens, word by word.
LEMMA Opening ==
  ASSUME NEW s \in Seq(Replies)
  PROVE  /\ Unopened(s) => Opened(Append(s, "AuthOk"))
         /\ Opened(s) => Opened(Append(s, "Settings"))
         /\ Opened(s) => Orderly(Append(s, "Ready")) /\ Orderly(Append(s, "Error"))
<1>1. {"AuthOk", "Settings", "Ready", "Error"} \subseteq Replies /\ {"Settings", "Ready", "Error"} \cap Asks = {}
  BY DEF Replies, Asks
<1>2. ASSUME Unopened(s) PROVE Opened(Append(s, "AuthOk"))
  BY <1>1, <1>2, UnopenedIsOrderly, OrderlyMore, HoldsMore DEF Opened
<1>3. ASSUME Opened(s) PROVE Opened(Append(s, "Settings"))
  BY <1>1, <1>3, OrderlyMore, HoldsMore DEF Opened
<1>4. ASSUME Opened(s) PROVE Orderly(Append(s, "Ready")) /\ Orderly(Append(s, "Error"))
  BY <1>1, <1>4, OrderlyMore DEF Opened
<1> QED
  BY <1>2, <1>3, <1>4

\* Reading moves a word from what is on its way to what has been read.
LEMMA Moved ==
  ASSUME NEW S, NEW s \in Seq(S), NEW t \in Seq(S)
  PROVE  /\ s \o t \in Seq(S)
         /\ t # <<>> => Append(s, Head(t)) \o Tail(t) = s \o t
<1>1. s \o t \in Seq(S)
  OBVIOUS
<1>2. ASSUME t # <<>> PROVE Append(s, Head(t)) \o Tail(t) = s \o t
  BY <1>2
<1> QED
  BY <1>1, <1>2

LEMMA PutLast ==
  ASSUME NEW S, NEW s \in Seq(S), NEW t \in Seq(S), NEW m \in S
  PROVE  s \o Append(t, m) = Append(s \o t, m)
OBVIOUS

LEMMA OrderlyPart ==
  ASSUME NEW s \in Seq(Replies), NEW t \in Seq(Replies), Orderly(s \o t)
  PROVE  Orderly(s)
<1>1. \A i \in DOMAIN s : i \in DOMAIN (s \o t) /\ (s \o t)[i] = s[i] /\ \A k \in 1..i - 1 : (s \o t)[k] = s[k]
  OBVIOUS
<1> QED
  BY <1>1 DEF Orderly

-----------------------------------------------------------------------------
(* One connection at a time.                                               *)

\* The streams of one client.
LEMMA StreamsAt ==
  ASSUME StreamsOK, NEW c \in Clients
  PROVE  /\ toProxy[c] \in Seq(Requests \cup Answers) /\ toServer[c] \in Seq(Requests \cup Answers)
         /\ seen[c] \in Seq(Replies) /\ toClient[c] \in Seq(Replies) /\ fromServer[c] \in Seq(Replies)
         /\ Told(c) \in Seq(Replies)
         /\ Pull(toProxy, c) => toProxy[c] # <<>> /\ toProxy'[c] = Tail(toProxy[c])
         /\ Pull(toClient, c) => toClient[c] # <<>> /\ toClient'[c] = Tail(toClient[c])
         /\ Pull(toServer, c) => toServer[c] # <<>> /\ toServer'[c] = Tail(toServer[c])
         /\ Pull(fromServer, c) => fromServer[c] # <<>> /\ fromServer'[c] = Tail(fromServer[c])
         /\ \A m : Put(toProxy, c, m) => toProxy'[c] = Append(toProxy[c], m)
         /\ \A m : Put(toClient, c, m) => toClient'[c] = Append(toClient[c], m)
         /\ \A m : Put(toServer, c, m) => toServer'[c] = Append(toServer[c], m)
<1>1. /\ toProxy \in [Clients -> Seq(Requests \cup Answers)] /\ toServer \in [Clients -> Seq(Requests \cup Answers)]
      /\ seen \in [Clients -> Seq(Replies)] /\ toClient \in [Clients -> Seq(Replies)]
      /\ fromServer \in [Clients -> Seq(Replies)]
  BY DEF StreamsOK, Said, Sent, Stream
<1>2. /\ toProxy[c] \in Seq(Requests \cup Answers) /\ toServer[c] \in Seq(Requests \cup Answers)
      /\ seen[c] \in Seq(Replies) /\ toClient[c] \in Seq(Replies) /\ fromServer[c] \in Seq(Replies)
  BY <1>1
<1>3. Told(c) \in Seq(Replies)
  BY <1>2, Moved DEF Told
<1>4. /\ Pull(toProxy, c) => toProxy[c] # <<>> /\ toProxy'[c] = Tail(toProxy[c])
      /\ Pull(toClient, c) => toClient[c] # <<>> /\ toClient'[c] = Tail(toClient[c])
      /\ Pull(toServer, c) => toServer[c] # <<>> /\ toServer'[c] = Tail(toServer[c])
      /\ Pull(fromServer, c) => fromServer[c] # <<>> /\ fromServer'[c] = Tail(fromServer[c])
  BY <1>1 DEF Pull
<1>5. /\ \A m : Put(toProxy, c, m) => toProxy'[c] = Append(toProxy[c], m)
      /\ \A m : Put(toClient, c, m) => toClient'[c] = Append(toClient[c], m)
      /\ \A m : Put(toServer, c, m) => toServer'[c] = Append(toServer[c], m)
  BY <1>1 DEF Put
<1> QED
  BY ONLY <1>2, <1>3, <1>4, <1>5

\* What goes to the client is told to it, and reading changes nothing of that.
LEMMA ToldMore ==
  ASSUME StreamsOK, NEW c \in Clients, NEW m \in Replies, Put(toClient, c, m), seen'[c] = seen[c]
  PROVE  Told(c)' = Append(Told(c), m) /\ toClient'[c] = Append(toClient[c], m)
<1>1. toClient'[c] = Append(toClient[c], m) /\ seen[c] \in Seq(Replies) /\ toClient[c] \in Seq(Replies)
  BY StreamsAt
<1>2. seen[c] \o Append(toClient[c], m) = Append(seen[c] \o toClient[c], m)
  <2>1. \A s, t \in Seq(Replies) : s \o Append(t, m) = Append(s \o t, m)
    BY PutLast
  <2> QED
    BY <1>1, <2>1, Zenon
<1>3. Told(c)' = seen'[c] \o toClient'[c] /\ Told(c) = seen[c] \o toClient[c]
  BY DEF Told
<1> QED
  BY <1>1, <1>2, <1>3

LEMMA ToldRead ==
  ASSUME StreamsOK, NEW c \in Clients, ClientReads(c)
  PROVE  Told(c)' = Told(c)
<1>1. /\ toClient'[c] = Tail(toClient[c]) /\ toClient[c] # <<>>
      /\ seen[c] \in Seq(Replies) /\ toClient[c] \in Seq(Replies)
  BY StreamsAt DEF ClientReads
<1>2. seen'[c] = Append(seen[c], Head(toClient[c]))
  BY DEF ClientReads, StreamsOK, Said, Stream
<1>3. Append(seen[c], Head(toClient[c])) \o Tail(toClient[c]) = seen[c] \o toClient[c]
  BY <1>1, Moved
<1>4. Told(c)' = seen'[c] \o toClient'[c] /\ Told(c) = seen[c] \o toClient[c]
  BY DEF Told
<1> QED
  BY <1>1, <1>2, <1>3, <1>4

\* Everything there is to say of one connection.
Same(c) ==
  /\ bypass' = bypass
  /\ handler'[c] = handler[c] /\ client'[c] = client[c] /\ session'[c] = session[c]
  /\ accepted'[c] = accepted[c] /\ seen'[c] = seen[c]
  /\ toProxy'[c] = toProxy[c] /\ toClient'[c] = toClient[c]
  /\ toServer'[c] = toServer[c] /\ fromServer'[c] = fromServer[c]

LEMMA SameStarts ==
  ASSUME NEW c \in Clients, Same(c), Starts(c)
  PROVE  Starts(c)'
<1>1. Told(c)' = Told(c)
  BY DEF Told, Same
<1>2. Untouched(c)' = Untouched(c)
  BY <1>1 DEF Untouched, Same
<1>3. Committed(c)' = Committed(c)
  BY DEF Committed, Same
<1>4. Knocking(c) => Knocking(c)'
  BY <1>2 DEF Knocking, Same
<1>5. Sought(c) => Sought(c)'
  BY <1>2, <1>3 DEF Sought, Same
<1>6. Relaying(c) => Relaying(c)'
  BY <1>1, <1>3 DEF Relaying, Welcoming, Same
<1>7. Exchange(c) => Exchange(c)'
  BY DEF Exchange, Asked, Same
<1>8. Bypassing(c) => Bypassing(c)'
  BY <1>1, <1>3, <1>7 DEF Bypassing, Same
<1>9. Over(c) => Over(c)'
  BY <1>1 DEF Over, Same
<1> QED
  BY <1>4, <1>5, <1>6, <1>8, <1>9 DEF Starts

\* Once the relay runs, or everything is over, nothing more is told.
LEMMA StartOver ==
  ASSUME StreamsOK, NEW c \in Clients, Starts(c), handler'[c] = "ended", Told(c)' = Told(c)
  PROVE  Starts(c)'
<1>1. Orderly(Told(c))
  <2>1. Told(c) \in Seq(Replies)
    BY StreamsAt
  <2>2. Unopened(Told(c)) \/ Opened(Told(c)) \/ Orderly(Told(c))
    BY DEF Starts, Knocking, Sought, Relaying, Bypassing, Over, Untouched, Welcoming
  <2> QED
    BY <2>1, <2>2, UnopenedIsOrderly DEF Opened
<1> QED
  BY <1>1 DEF Starts, Over

-----------------------------------------------------------------------------
(* The handler's steps, from phase to phase.                               *)

LEMMA HandlerAt ==
  ASSUME TypeOK, NEW c \in Clients, HandleConnection(c)
  PROVE  /\ client'[c] = client[c] /\ session'[c] = session[c] /\ accepted'[c] = accepted[c]
         /\ seen'[c] = seen[c] /\ bypass' = bypass
         /\ \A from, to : Goto(c, from, to) => handler[c] = from /\ handler'[c] = to
<1>1. HandlerFrame
  BY DEF HandleConnection, Handshake, ReadStartup, ReadAfterSSL, ForwardCancel, Dial, RelayAuth, RelayUntil,
         Greet, BypassAuth, Authenticating, ScramContinue, ScramFinal, HandlerFails, Fails, UpReadsEnd, DownReadsEnd, RelayCut
<1>2. handler \in [Clients -> Reading \cup Authing \cup {"none", "cancel", "dial", "greet", "relay", "ended"}]
  BY DEF TypeOK
<1> QED
  BY <1>1, <1>2 DEF HandlerFrame, givenVars, Goto

\* The phase a handler is in tells where it is.
LEMMA PhaseOf ==
  ASSUME NEW c \in Clients, Starts(c)
  PROVE  /\ handler[c] \in Reading => Knocking(c)
         /\ handler[c] \in {"cancel", "dial"} => Sought(c)
         /\ handler[c] = "relayAuth" => Relaying(c)
         /\ handler[c] \in {"greet", "bypassAuth", "saslContinue", "saslFinal"} => Bypassing(c)
BY DEF Starts, Knocking, Sought, Relaying, Bypassing, Over, Reading, Authing

\* One message has come from the client, or none.
LEMMA FirstMessage ==
  ASSUME TypeOK, NEW c \in Clients, Knocking(c), Pull(toProxy, c)
  PROVE  /\ toProxy'[c] = <<>>
         /\ \/ client[c] = "askedSSL" /\ Head(toProxy[c]) = "SSLRequest" /\ handler[c] # "readAfterSSL"
            \/ client[c] = "waiting" /\ Head(toProxy[c]) = "StartupMessage"
            \/ client[c] = "asking" /\ Head(toProxy[c]) = "CancelRequest"
            \/ client[c] = "stray" /\ Head(toProxy[c]) = "Short"
            \/ client[c] = "left"
         /\ client[c] # "left" => toClient[c] = <<>>
<1>1. toProxy[c] # <<>> /\ toProxy'[c] = Tail(toProxy[c])
  BY StreamsAt, TypeParts
<1>2. \A m : Head(<<m>>) = m /\ Tail(<<m>>) = <<>>
  OBVIOUS
<1>3. \/ client[c] = "askedSSL" /\ toProxy[c] = <<"SSLRequest">> /\ handler[c] # "readAfterSSL" /\ toClient[c] = <<>>
      \/ client[c] = "waiting" /\ toProxy[c] = <<"StartupMessage">> /\ toClient[c] = <<>>
      \/ client[c] = "asking" /\ toProxy[c] = <<"CancelRequest">> /\ toClient[c] = <<>>
      \/ client[c] = "stray" /\ toProxy[c] = <<"Short">> /\ toClient[c] = <<>>
      \/ client[c] = "left" /\ \E m \in Requests : toProxy[c] = <<m>>
  BY <1>1 DEF Knocking
<1> QED
  BY <1>1, <1>2, <1>3

LEMMA WithoutNone == \A words : Without(<<>>, words)
BY DEF Without

LEMMA ReadingStarts ==
  ASSUME TypeOK, NEW c \in Clients, Starts(c), ReadStartup(c) \/ ReadAfterSSL(c)
  PROVE  Starts(c)'
<1>0. StreamsOK /\ HandleConnection(c) /\ Pull(toProxy, c)
  BY TypeParts DEF HandleConnection, Handshake, ReadStartup, ReadAfterSSL
<1>a. /\ client'[c] = client[c] /\ session'[c] = session[c] /\ accepted'[c] = accepted[c] /\ seen'[c] = seen[c]
      /\ toServer' = toServer /\ fromServer' = fromServer
      /\ \A from, to : Goto(c, from, to) => handler[c] = from /\ handler'[c] = to
  BY <1>0, HandlerAt DEF ReadStartup, ReadAfterSSL
<1>b. Knocking(c)
  <2>1. handler[c] \in Reading
    BY <1>a DEF ReadStartup, ReadAfterSSL, Reading
  <2> QED
    BY <2>1, PhaseOf
<1>c. /\ toProxy'[c] = <<>>
      /\ \/ client[c] = "askedSSL" /\ Head(toProxy[c]) = "SSLRequest" /\ handler[c] # "readAfterSSL"
         \/ client[c] = "waiting" /\ Head(toProxy[c]) = "StartupMessage"
         \/ client[c] = "asking" /\ Head(toProxy[c]) = "CancelRequest"
         \/ client[c] = "left"
      /\ client[c] # "left" => toClient[c] = <<>>
  BY <1>0, <1>b, FirstMessage DEF ReadStartup, ReadAfterSSL
<1>d. /\ Untouched(c) /\ Without(toClient[c], Asks \cup {"Error"})
  BY <1>b DEF Knocking
<1>1. CASE ReadStartup(c) /\ Head(toProxy[c]) = "SSLRequest"
  <2>1. Put(toClient, c, "N") /\ handler'[c] = "readAfterSSL" /\ "N" \in Replies
    BY <1>1, <1>a DEF ReadStartup, Replies
  <2>2. Told(c)' = Append(Told(c), "N") /\ toClient'[c] = Append(toClient[c], "N") /\ Told(c) \in Seq(Replies)
    BY <1>0, <1>a, <2>1, ToldMore, StreamsAt
  <2>3. Unopened(Told(c))'
    BY <1>d, <2>2, UnopenedMore DEF Untouched
  <2>4. Without(toClient[c], Asks \cup {"Error"})'
    <3>1. toClient[c] \in Seq(Replies) /\ "N" \notin Asks \cup {"Error"}
      BY <1>0, StreamsAt DEF Asks
    <3>2. Without(Append(toClient[c], "N"), Asks \cup {"Error"})
      BY <1>d, <2>1, <3>1, WithoutMore
    <3> QED
      BY <2>2, <3>2
  <2>5. client[c] # "left" => client[c] = "askedSSL" /\ toClient'[c] = <<"N">>
    <3>1. Append(<<>>, "N") = <<"N">>
      OBVIOUS
    <3> QED
      BY <1>1, <1>c, <2>2, <3>1
  <2>6. Untouched(c)'
    BY <1>a, <1>d, <2>3 DEF Untouched
  <2>7. Knocking(c)'
    BY <1>a, <1>c, <2>1, <2>4, <2>5, <2>6 DEF Knocking, Reading
  <2> QED
    BY <2>7 DEF Starts
<1>2. CASE ~(ReadStartup(c) /\ Head(toProxy[c]) = "SSLRequest")
  <2>1. /\ handler'[c] \in {"cancel", "dial"} /\ toClient' = toClient
        /\ handler[c] = "readAfterSSL" \/ Head(toProxy[c]) # "SSLRequest"
        /\ handler'[c] = "cancel" => Head(toProxy[c]) = "CancelRequest"
    BY <1>2, <1>a DEF ReadStartup, ReadAfterSSL, Routed
  <2>2. Untouched(c)'
    BY <1>a, <1>d, <2>1 DEF Untouched, Told
  <2>3. /\ client[c] \in {"waiting", "asking", "left"} /\ (client[c] # "left" => toClient[c] = <<>>)
        /\ handler'[c] = "cancel" => client[c] \in {"asking", "left"}
    BY <1>c, <2>1
  <2>4. Committed(c)'
    BY <1>a, <2>1, <2>3, WithoutNone DEF Committed
  <2>5. Without(toClient[c], Asks)'
    BY <1>d, <2>1 DEF Without
  <2>6. Sought(c)'
    BY <1>a, <1>c, <2>1, <2>2, <2>3, <2>4, <2>5 DEF Sought
  <2> QED
    BY <2>6 DEF Starts
<1> QED
  BY <1>1, <1>2

LEMMA DialStarts ==
  ASSUME TypeOK, NEW c \in Clients, Starts(c), ForwardCancel(c) \/ Dial(c)
  PROVE  Starts(c)'
<1>0. StreamsOK /\ HandleConnection(c)
  BY TypeParts DEF HandleConnection, Handshake
<1>a. /\ client'[c] = client[c] /\ session'[c] = session[c] /\ accepted'[c] = accepted[c] /\ seen'[c] = seen[c]
      /\ bypass' = bypass /\ toClient' = toClient /\ fromServer' = fromServer /\ toProxy' = toProxy
      /\ \A from, to : Goto(c, from, to) => handler[c] = from /\ handler'[c] = to
  BY <1>0, HandlerAt DEF ForwardCancel, Dial
<1>b. Told(c)' = Told(c)
  BY <1>a DEF Told
<1>1. CASE handler'[c] = "ended"
  BY <1>0, <1>1, <1>b, StartOver
<1>2. CASE handler'[c] # "ended"
  <2>1. /\ handler[c] = "dial" /\ handler'[c] = IF bypass THEN "greet" ELSE "relayAuth"
        /\ Put(toServer, c, "StartupMessage")
    BY <1>2, <1>a DEF ForwardCancel, Dial
  <2>2. Sought(c)
    BY <2>1, PhaseOf
  <2>3. toServer'[c] = <<"StartupMessage">>
    <3>1. Append(<<>>, "StartupMessage") = <<"StartupMessage">>
      OBVIOUS
    <3> QED
      BY <1>0, <2>1, <2>2, <3>1, StreamsAt DEF Sought, Untouched
  <2>4. Committed(c)'
    BY <1>a, <2>2 DEF Committed, Sought
  <2>5. CASE bypass
    <3>1. Exchange(c)'
      BY <1>a, <2>1, <2>2, <2>3, <2>5 DEF Exchange, Sought, Untouched
    <3>2. Bypassing(c)'
      BY <1>a, <1>b, <2>1, <2>2, <2>4, <2>5, <3>1 DEF Bypassing, Sought, Untouched
    <3> QED
      BY <3>2 DEF Starts
  <2>6. CASE ~bypass
    <3>1. Relaying(c)'
      BY <1>a, <1>b, <2>1, <2>2, <2>3, <2>4, <2>6, WithoutNone DEF Relaying, Sought, Untouched
    <3> QED
      BY <3>1 DEF Starts
  <2> QED
    BY <2>5, <2>6
<1> QED
  BY <1>1, <1>2

\* No message of the authentication is left when the relay takes over.
Fresh(c) == toProxy[c] = <<>> /\ fromServer[c] = <<>> /\ toServer[c] = <<>>

\* What is passed on of Welcome, word by word: the session opens, and with
\* ReadyForQuery nothing is left.
LEMMA NextWord ==
  ASSUME NEW c \in Clients, StreamsOK, Welcoming(c), Pull(fromServer, c)
  PROVE  \/ /\ fromServer[c] = Welcome /\ Unopened(Told(c))
            /\ Head(fromServer[c]) = "AuthOk" /\ fromServer'[c] = <<"Settings", "Ready">>
         \/ /\ fromServer[c] # Welcome /\ Opened(Told(c))
            /\ Head(fromServer[c]) = "Settings" /\ fromServer'[c] = <<"Ready">>
         \/ /\ fromServer[c] # Welcome /\ Opened(Told(c))
            /\ Head(fromServer[c]) = "Ready" /\ fromServer'[c] = <<>>
<1>1. fromServer'[c] = Tail(fromServer[c])
  BY StreamsAt
<1>2. \/ fromServer[c] = Welcome /\ Unopened(Told(c))
      \/ fromServer[c] = <<"Settings", "Ready">> /\ Opened(Told(c))
      \/ fromServer[c] = <<"Ready">> /\ Opened(Told(c))
  BY DEF Welcoming, Rest
<1> QED
  BY <1>1, <1>2, WordsOfWelcome

LEMMA RelayAuthStarts ==
  ASSUME TypeOK, NEW c \in Clients, Starts(c), RelayAuth(c)
  PROVE  Starts(c)' /\ (handler'[c] = "relay" => Fresh(c)')
<1>0. StreamsOK /\ HandleConnection(c)
  BY TypeParts DEF HandleConnection, Handshake
<1> DEFINE m == Head(fromServer[c])
<1>a. /\ client'[c] = client[c] /\ session'[c] = session[c] /\ accepted'[c] = accepted[c] /\ seen'[c] = seen[c]
      /\ bypass' = bypass /\ toServer' = toServer /\ toProxy' = toProxy
      /\ Pull(fromServer, c) /\ Put(toClient, c, m)
      /\ handler[c] = "relayAuth" /\ handler'[c] = IF m = "Ready" THEN "relay" ELSE "relayAuth"
  BY <1>0, HandlerAt DEF RelayAuth, RelayUntil
<1>b. Relaying(c)
  BY <1>a, PhaseOf
<1>c. /\ fromServer[c] \in Seq(Replies) /\ fromServer[c] # <<>> /\ fromServer'[c] = Tail(fromServer[c])
      /\ toClient[c] \in Seq(Replies) /\ Told(c) \in Seq(Replies)
  BY <1>0, <1>a, StreamsAt
<1>d. m \in Replies /\ m # "N" /\ Without(fromServer[c], {"N"})'
  <2>1. Without(fromServer[c], {"N"})
    BY <1>b DEF Relaying
  <2>2. m \in Replies /\ m \notin {"N"} /\ Without(Tail(fromServer[c]), {"N"})
    BY <1>c, <2>1, OneLess
  <2> QED
    BY <1>c, <2>2
<1>e. Told(c)' = Append(Told(c), m) /\ toClient'[c] = Append(toClient[c], m)
  BY <1>0, <1>a, <1>d, ToldMore
<1> HIDE DEF m
<1>f. Committed(c)'
  <2>1. ASSUME client[c] = "waiting" PROVE Without(toClient'[c], {"N"})
    BY <1>b, <1>c, <1>d, <1>e, <2>1, WithoutMore DEF Relaying, Committed
  <2> QED
    BY <1>a, <1>b, <2>1 DEF Relaying, Committed
<1>1. CASE session[c] \in Waiting \cup {"closed"}
  <2>1. Unopened(Told(c)) /\ Unopened(fromServer[c]) /\ toServer[c] = <<>>
    BY <1>b, <1>1, <1>c DEF Relaying, Welcoming, Waiting
  <2>2. m \in Asks \cup {"N", "Error"} /\ Unopened(fromServer'[c])
    <3>1. 1 \in DOMAIN fromServer[c] /\ m = fromServer[c][1]
      BY <1>c DEF m
    <3>2. \A i \in DOMAIN Tail(fromServer[c]) : i + 1 \in DOMAIN fromServer[c] /\ Tail(fromServer[c])[i] = fromServer[c][i + 1]
      BY <1>c
    <3> QED
      BY <1>c, <2>1, <3>1, <3>2 DEF Unopened
  <2>3. m # "Ready" /\ Unopened(Append(Told(c), m))
    BY <1>c, <2>1, <2>2, UnopenedMore DEF Asks
  <2>4. Relaying(c)'
    BY <1>a, <1>b, <1>1, <1>d, <1>e, <1>f, <2>1, <2>2, <2>3 DEF Relaying
  <2> QED
    BY <1>a, <2>3, <2>4 DEF Starts
<1>2. CASE Welcoming(c) /\ toProxy[c] = <<>> /\ Without(toClient[c], Asks)
  <2>1. session'[c] = "ready" /\ toServer'[c] = <<>> /\ toProxy'[c] = <<>>
    BY <1>a, <1>2 DEF Welcoming
  <2>2. \/ Unopened(Told(c)) /\ m = "AuthOk" /\ fromServer'[c] = <<"Settings", "Ready">>
        \/ Opened(Told(c)) /\ m = "Settings" /\ fromServer'[c] = <<"Ready">>
        \/ Opened(Told(c)) /\ m = "Ready" /\ fromServer'[c] = <<>>
    BY <1>0, <1>2, <1>a, NextWord DEF m
  <2>3. Without(toClient'[c], Asks)
    <3>1. m \notin Asks
      BY <2>2 DEF Asks
    <3> QED
      BY <1>2, <1>c, <1>d, <1>e, <3>1, WithoutMore
  <2>4. CASE m # "Ready"
    <3>1. fromServer'[c] \in Rest /\ Opened(Told(c))'
      BY <1>c, <1>e, <2>2, <2>4, Opening DEF Rest
    <3>2. Welcoming(c)'
      BY <2>1, <3>1 DEF Welcoming
    <3>3. Relaying(c)'
      BY <1>a, <1>b, <1>d, <1>f, <2>1, <2>3, <2>4, <3>2 DEF Relaying
    <3> QED
      BY <1>a, <2>4, <3>3 DEF Starts
  <2>5. CASE m = "Ready"
    <3>1. Orderly(Told(c))' /\ fromServer'[c] = <<>>
      BY <1>c, <1>e, <2>2, <2>5, Opening
    <3> QED
      BY <1>a, <2>1, <2>5, <3>1 DEF Starts, Over, Fresh
  <2> QED
    BY <2>4, <2>5
<1> QED
  BY <1>b, <1>c, <1>1, <1>2 DEF Relaying

LEMMA GreetStarts ==
  ASSUME TypeOK, NEW c \in Clients, Starts(c), Greet(c)
  PROVE  Starts(c)'
<1>0. StreamsOK /\ HandleConnection(c)
  BY TypeParts DEF HandleConnection, Handshake
<1>a. /\ client'[c] = client[c] /\ session'[c] = session[c] /\ accepted'[c] = accepted[c] /\ seen'[c] = seen[c]
      /\ bypass' = bypass /\ toServer' = toServer /\ toProxy' = toProxy /\ fromServer' = fromServer
      /\ Put(toClient, c, "AuthOk")
      /\ handler[c] = "greet" /\ handler'[c] = "bypassAuth"
  BY <1>0, HandlerAt DEF Greet
<1>b. Bypassing(c)
  BY <1>a, PhaseOf
<1>c. "AuthOk" \in Replies /\ "AuthOk" \notin Asks /\ toClient[c] \in Seq(Replies) /\ Told(c) \in Seq(Replies)
  BY <1>0, StreamsAt DEF Replies, Asks
<1>d. Told(c)' = Append(Told(c), "AuthOk") /\ toClient'[c] = Append(toClient[c], "AuthOk")
  BY <1>0, <1>a, <1>c, ToldMore
<1>1. Opened(Told(c))'
  BY <1>a, <1>b, <1>c, <1>d, Opening DEF Bypassing
<1>2. Without(toClient'[c], Asks) /\ (client[c] = "waiting" => Without(toClient'[c], {"N"}))
  BY <1>b, <1>c, <1>d, WithoutMore DEF Bypassing, Committed
<1>3. Committed(c)'
  BY <1>a, <1>b, <1>2 DEF Bypassing, Committed
<1>4. Exchange(c)'
  BY <1>a, <1>b DEF Bypassing, Exchange, Asked, Authing
<1>5. Bypassing(c)'
  BY <1>a, <1>b, <1>1, <1>2, <1>3, <1>4 DEF Bypassing, Authing
<1> QED
  BY <1>5 DEF Starts

\* What bypassAuth and scramAuth find in hand.
LEMMA InExchange ==
  ASSUME StreamsOK, NEW c \in Clients, Exchange(c), Pull(fromServer, c), handler[c] # "greet"
  PROVE  /\ toServer[c] = <<>>
         /\ handler[c] \in {"bypassAuth", "saslContinue", "saslFinal"}
         /\ \/ /\ handler[c] = "bypassAuth" /\ fromServer'[c] = <<>>
               /\ \/ session[c] = "password" /\ Head(fromServer[c]) = "AuthCleartext"
                  \/ session[c] = "md5" /\ Head(fromServer[c]) = "AuthMD5"
                  \/ session[c] = "sasl" /\ Head(fromServer[c]) = "AuthSASL"
                  \/ session[c] = "closed" /\ Head(fromServer[c]) = "Error"
            \/ /\ handler[c] = "bypassAuth" /\ session[c] = "ready"
               /\ \/ Head(fromServer[c]) = "AuthOk" /\ fromServer'[c] = <<"Settings", "Ready">>
                  \/ Head(fromServer[c]) = "Settings" /\ fromServer'[c] = <<"Ready">>
                  \/ Head(fromServer[c]) = "Ready" /\ fromServer'[c] = <<>>
            \/ /\ handler[c] = "saslContinue" /\ fromServer'[c] = <<>>
               /\ \/ session[c] = "saslFinal" /\ Head(fromServer[c]) = "SASLContinue"
                  \/ session[c] = "closed" /\ Head(fromServer[c]) = "Error"
            \/ /\ handler[c] = "saslFinal"
               /\ \/ session[c] = "ready" /\ Head(fromServer[c]) = "SASLFinal" /\ fromServer'[c] = Welcome
                  \/ session[c] = "closed" /\ Head(fromServer[c]) = "Error"
<1>1. fromServer[c] # <<>> /\ fromServer'[c] = Tail(fromServer[c])
  BY StreamsAt
<1>2. \A m : Head(<<m>>) = m /\ Tail(<<m>>) = <<>>
  OBVIOUS
<1>3. \/ fromServer[c] = <<"AuthCleartext">> /\ toServer[c] = <<>> /\ handler[c] = "bypassAuth" /\ session[c] = "password"
      \/ fromServer[c] = <<"AuthMD5">> /\ toServer[c] = <<>> /\ handler[c] = "bypassAuth" /\ session[c] = "md5"
      \/ fromServer[c] = <<"AuthSASL">> /\ toServer[c] = <<>> /\ handler[c] = "bypassAuth" /\ session[c] = "sasl"
      \/ fromServer[c] = <<"SASLContinue">> /\ toServer[c] = <<>> /\ handler[c] = "saslContinue" /\ session[c] = "saslFinal"
      \/ fromServer[c] = <<"SASLFinal">> \o Welcome /\ toServer[c] = <<>> /\ handler[c] = "saslFinal" /\ session[c] = "ready"
      \/ fromServer[c] = Welcome /\ toServer[c] = <<>> /\ handler[c] = "bypassAuth" /\ session[c] = "ready"
      \/ fromServer[c] = <<"Settings", "Ready">> /\ toServer[c] = <<>> /\ handler[c] = "bypassAuth" /\ session[c] = "ready"
      \/ fromServer[c] = <<"Ready">> /\ toServer[c] = <<>> /\ handler[c] = "bypassAuth" /\ session[c] = "ready"
      \/ /\ fromServer[c] = <<"Error">> /\ toServer[c] = <<>> /\ session[c] = "closed"
         /\ handler[c] \in {"bypassAuth", "saslContinue", "saslFinal"}
  BY <1>1 DEF Exchange, Asked, Rest, Authing
<1> QED
  BY <1>1, <1>2, <1>3, WordsOfWelcome

\* A message that is not passed on leaves what the client is told as it is.
LEMMA QuietExchange ==
  ASSUME NEW c \in Clients, Bypassing(c), handler[c] # "greet", Exchange(c)',
         client'[c] = client[c], seen'[c] = seen[c], bypass' = bypass,
         toProxy' = toProxy, toClient' = toClient,
         handler'[c] \in {"bypassAuth", "saslContinue", "saslFinal"}
  PROVE  Bypassing(c)'
<1>1. Told(c)' = Told(c)
  BY DEF Told
<1>2. Opened(Told(c))' /\ Committed(c)' /\ Without(toClient[c], Asks)' /\ toProxy'[c] = <<>>
  BY <1>1 DEF Bypassing, Committed
<1> QED
  BY <1>2 DEF Bypassing, Authing

LEMMA ScramStarts ==
  ASSUME TypeOK, NEW c \in Clients, Starts(c), ScramContinue(c) \/ ScramFinal(c)
  PROVE  Starts(c)'
<1>0. StreamsOK /\ HandleConnection(c)
  BY TypeParts DEF HandleConnection, Handshake
<1>a. /\ client'[c] = client[c] /\ session'[c] = session[c] /\ accepted'[c] = accepted[c] /\ seen'[c] = seen[c]
      /\ bypass' = bypass /\ toClient' = toClient /\ toProxy' = toProxy
      /\ Pull(fromServer, c)
      /\ \A from, to : Goto(c, from, to) => handler[c] = from /\ handler'[c] = to
  BY <1>0, HandlerAt DEF ScramContinue, ScramFinal
<1>b. Told(c)' = Told(c)
  BY <1>a DEF Told
<1>1. CASE handler'[c] = "ended"
  BY <1>0, <1>1, <1>b, StartOver
<1>2. CASE handler'[c] # "ended" /\ ScramContinue(c)
  <2>1. /\ handler[c] = "saslContinue" /\ Head(fromServer[c]) = "SASLContinue" /\ handler'[c] = "saslFinal"
        /\ Put(toServer, c, "SASLResponse")
    BY <1>2, <1>a DEF ScramContinue
  <2>2. Bypassing(c)
    BY <2>1, PhaseOf
  <2>3. session[c] = "saslFinal" /\ fromServer'[c] = <<>> /\ toServer[c] = <<>>
    BY <1>0, <1>a, <2>1, <2>2, InExchange DEF Bypassing
  <2>4. toServer'[c] = <<"SASLResponse">>
    <3>1. Append(<<>>, "SASLResponse") = <<"SASLResponse">>
      OBVIOUS
    <3> QED
      BY <1>0, <2>1, <2>3, <3>1, StreamsAt
  <2>5. Exchange(c)'
    BY <1>a, <2>1, <2>3, <2>4 DEF Exchange
  <2>6. Bypassing(c)'
    BY <1>a, <2>1, <2>2, <2>5, QuietExchange
  <2> QED
    BY <2>6 DEF Starts
<1>3. CASE handler'[c] # "ended" /\ ScramFinal(c)
  <2>1. /\ handler[c] = "saslFinal" /\ Head(fromServer[c]) = "SASLFinal" /\ handler'[c] = "bypassAuth"
        /\ toServer' = toServer
    BY <1>3, <1>a DEF ScramFinal
  <2>2. Bypassing(c)
    BY <2>1, PhaseOf
  <2>3. session[c] = "ready" /\ fromServer'[c] = Welcome /\ toServer[c] = <<>>
    BY <1>0, <1>a, <2>1, <2>2, InExchange DEF Bypassing
  <2>4. Exchange(c)'
    BY <1>a, <2>1, <2>3 DEF Exchange
  <2>5. Bypassing(c)'
    BY <1>a, <2>1, <2>2, <2>4, QuietExchange
  <2> QED
    BY <2>5 DEF Starts
<1> QED
  BY <1>1, <1>2, <1>3

LEMMA BypassStarts ==
  ASSUME TypeOK, NEW c \in Clients, Starts(c), BypassAuth(c)
  PROVE  Starts(c)' /\ (handler'[c] = "relay" => Fresh(c)')
<1>0. StreamsOK /\ HandleConnection(c)
  BY TypeParts DEF HandleConnection, Handshake
<1> DEFINE m == Head(fromServer[c])
<1>a. /\ client'[c] = client[c] /\ session'[c] = session[c] /\ accepted'[c] = accepted[c] /\ seen'[c] = seen[c]
      /\ bypass' = bypass /\ toProxy' = toProxy
      /\ Pull(fromServer, c)
      /\ handler[c] = "bypassAuth"
      /\ \A from, to : Goto(c, from, to) => handler[c] = from /\ handler'[c] = to
  BY <1>0, HandlerAt DEF BypassAuth, Authenticating, Reply, PassOn
<1>b. Bypassing(c) /\ Opened(Told(c))
  BY <1>a, PhaseOf DEF Bypassing
<1>c. /\ toServer[c] = <<>>
      /\ \/ /\ fromServer'[c] = <<>>
            /\ \/ session[c] = "password" /\ m = "AuthCleartext"
               \/ session[c] = "md5" /\ m = "AuthMD5"
               \/ session[c] = "sasl" /\ m = "AuthSASL"
               \/ m = "Error"
         \/ /\ session[c] = "ready"
            /\ \/ m = "AuthOk" /\ fromServer'[c] = <<"Settings", "Ready">>
               \/ m = "Settings" /\ fromServer'[c] = <<"Ready">>
               \/ m = "Ready" /\ fromServer'[c] = <<>>
  BY <1>0, <1>a, <1>b, InExchange DEF Bypassing
<1>d. \/ /\ m \in {"AuthCleartext", "AuthMD5"} /\ handler'[c] = "bypassAuth" /\ toClient' = toClient
         /\ Put(toServer, c, "Password")
      \/ m = "AuthSASL" /\ handler'[c] = "saslContinue" /\ toClient' = toClient /\ Put(toServer, c, "SASLInitial")
      \/ m = "AuthOk" /\ handler'[c] = "bypassAuth" /\ toClient' = toClient /\ toServer' = toServer
      \/ m = "Error" /\ handler'[c] = "ended" /\ Put(toClient, c, m) /\ toServer' = toServer
      \/ m = "Ready" /\ handler'[c] = "relay" /\ Put(toClient, c, m) /\ toServer' = toServer
      \/ m \notin {"AuthCleartext", "AuthMD5", "AuthSASL", "AuthOk", "Error", "Ready"} /\ handler'[c] = "bypassAuth"
         /\ Put(toClient, c, m) /\ toServer' = toServer
  BY <1>a DEF BypassAuth, Authenticating, Reply, PassOn
<1> HIDE DEF m
<1>e. /\ Told(c) \in Seq(Replies) /\ toClient[c] \in Seq(Replies)
      /\ {"Settings", "Ready", "Error"} \subseteq Replies /\ "Settings" \notin Asks
  BY <1>0, StreamsAt DEF Replies, Asks
<1>1. CASE m \in {"AuthCleartext", "AuthMD5", "AuthSASL", "AuthOk"}
  <2>1. \A w : Put(toServer, c, w) => toServer'[c] = <<w>>
    <3>1. \A w : Append(<<>>, w) = <<w>>
      OBVIOUS
    <3> QED
      BY <1>0, <1>c, <3>1, StreamsAt
  <2>2. handler'[c] \in {"bypassAuth", "saslContinue"} /\ toClient' = toClient
    BY <1>1, <1>d
  <2>3. Exchange(c)'
    BY <1>1, <1>a, <1>c, <1>d, <2>1, <2>2 DEF Exchange, Asked, Rest
  <2>4. Bypassing(c)'
    BY <1>a, <1>b, <2>2, <2>3, QuietExchange
  <2> QED
    BY <2>2, <2>4 DEF Starts
<1>2. CASE m = "Settings"
  <2>1. handler'[c] = "bypassAuth" /\ Put(toClient, c, "Settings") /\ toServer' = toServer /\ fromServer'[c] = <<"Ready">>
        /\ session[c] = "ready"
    BY <1>2, <1>c, <1>d
  <2>2. Told(c)' = Append(Told(c), "Settings") /\ toClient'[c] = Append(toClient[c], "Settings")
    BY <1>0, <1>a, <1>e, <2>1, ToldMore
  <2>3. Opened(Told(c))'
    BY <1>b, <1>e, <2>2, Opening
  <2>4. Without(toClient'[c], Asks) /\ (client[c] = "waiting" => Without(toClient'[c], {"N"}))
    BY <1>b, <1>e, <2>2, WithoutMore DEF Bypassing, Committed
  <2>5. Committed(c)'
    BY <1>a, <1>b, <2>4 DEF Bypassing, Committed
  <2>6. Exchange(c)'
    BY <1>a, <1>c, <2>1 DEF Exchange, Rest
  <2>7. Bypassing(c)'
    BY <1>a, <1>b, <2>1, <2>3, <2>4, <2>5, <2>6 DEF Bypassing, Authing
  <2> QED
    BY <2>1, <2>7 DEF Starts
<1>3. CASE m \in {"Ready", "Error"}
  <2>1. /\ Put(toClient, c, m) /\ toServer' = toServer /\ fromServer'[c] = <<>>
        /\ handler'[c] = IF m = "Ready" THEN "relay" ELSE "ended"
    BY <1>3, <1>c, <1>d
  <2>2. Told(c)' = Append(Told(c), m)
    BY <1>0, <1>a, <1>e, <1>3, <2>1, ToldMore
  <2>3. Orderly(Told(c))'
    BY <1>b, <1>e, <1>3, <2>2, Opening
  <2>4. Over(c)' /\ Fresh(c)'
    BY <1>a, <1>b, <1>c, <2>1, <2>3 DEF Over, Fresh, Bypassing
  <2> QED
    BY <2>4 DEF Starts
<1> QED
  BY <1>c, <1>1, <1>2, <1>3

LEMMA HandlerStarts ==
  ASSUME TypeOK, NEW c \in Clients, Starts(c), HandleConnection(c)
  PROVE  Starts(c)' /\ (handler[c] # "relay" /\ handler'[c] = "relay" => Fresh(c)')
<1>1. CASE ReadStartup(c) \/ ReadAfterSSL(c)
  <2>1. handler'[c] # "relay"
    BY <1>1, HandlerAt DEF ReadStartup, ReadAfterSSL, Routed
  <2> QED
    BY <1>1, <2>1, ReadingStarts
<1>2. CASE ForwardCancel(c) \/ Dial(c)
  <2>1. handler'[c] # "relay"
    BY <1>2, HandlerAt DEF ForwardCancel, Dial
  <2> QED
    BY <1>2, <2>1, DialStarts
<1>3. CASE RelayAuth(c)
  BY <1>3, RelayAuthStarts
<1>4. CASE Greet(c)
  BY <1>4, GreetStarts, HandlerAt DEF Greet
<1>5. CASE BypassAuth(c)
  BY <1>5, BypassStarts
<1>6. CASE ScramContinue(c) \/ ScramFinal(c)
  <2>1. handler'[c] # "relay"
    BY <1>6, HandlerAt DEF ScramContinue, ScramFinal
  <2> QED
    BY <1>6, <2>1, ScramStarts
<1>7. CASE Ending(c)
  <2>1. handler'[c] = "ended" /\ toClient' = toClient /\ seen' = seen
    BY <1>7, EndingFails DEF Fails, TypeOK, HandlerFrame, streamVars
  <2>2. Told(c)' = Told(c)
    BY <2>1 DEF Told
  <2> QED
    BY <2>1, <2>2, StartOver, TypeParts
<1> QED
  BY <1>1, <1>2, <1>3, <1>4, <1>5, <1>6, <1>7 DEF HandleConnection, Handshake, Ending

-----------------------------------------------------------------------------
(* The client's and the session's steps.                                   *)

LEMMA ClientAt ==
  ASSUME TypeOK, NEW c \in Clients, Client(c)
  PROVE  /\ handler'[c] = handler[c] /\ session'[c] = session[c] /\ accepted'[c] = accepted[c]
         /\ bypass' = bypass /\ toServer' = toServer /\ fromServer' = fromServer
         /\ \A to : Be(c, to) => client'[c] = to
         /\ Told(c)' = Told(c)
<1>1. ClientFrame /\ toServer' = toServer /\ fromServer' = fromServer
  BY DEF Client, ClientConnects, ClientRequests, ClientReads, ClientSeesEnd, ClientLeaves, streamVars
<1>2. \A to : Be(c, to) => client'[c] = to
  BY DEF Be, TypeOK
<1>3. CASE ClientReads(c)
  BY <1>1, <1>2, <1>3, ToldRead, TypeParts DEF ClientFrame, givenVars
<1>4. CASE ~ClientReads(c)
  <2>1. seen' = seen /\ toClient' = toClient
    BY <1>4 DEF Client, ClientConnects, ClientRequests, ClientSeesEnd, ClientLeaves, streamVars
  <2> QED
    BY <1>1, <1>2, <2>1 DEF ClientFrame, givenVars, Told
<1> QED
  BY <1>3, <1>4

\* A client that has not asked for anything yet, or for TLS only.
LEMMA ClientKnocks ==
  ASSUME TypeOK, NEW c \in Clients, Knocking(c), Client(c)
  PROVE  Knocking(c)'
<1>0. StreamsOK
  BY TypeParts
<1>a. /\ handler'[c] = handler[c] /\ session'[c] = session[c] /\ accepted'[c] = accepted[c]
      /\ toServer' = toServer /\ fromServer' = fromServer /\ Told(c)' = Told(c)
      /\ \A to : Be(c, to) => client'[c] = to
  BY ClientAt
<1>b. Untouched(c)'
  BY <1>a DEF Knocking, Untouched
<1>1. CASE ClientConnects(c)
  <2>1. client[c] = "away" /\ client'[c] = "connected" /\ toProxy' = toProxy /\ toClient' = toClient
    BY <1>1, <1>a DEF ClientConnects, streamVars
  <2> QED
    BY <1>a, <1>b, <2>1 DEF Knocking
<1>2. CASE ClientRequests(c)
  <2>1. \A m : Put(toProxy, c, m) => toProxy'[c] = Append(toProxy[c], m)
    BY <1>0, StreamsAt
  <2>2. /\ toClient' = toClient
        /\ \/ client[c] = "connected" /\ toProxy'[c] = Append(toProxy[c], "SSLRequest") /\ client'[c] = "askedSSL"
           \/ /\ client[c] \in {"connected", "plain"}
              /\ \/ client'[c] = "waiting" /\ toProxy'[c] = Append(toProxy[c], "StartupMessage")
                 \/ client'[c] = "asking" /\ toProxy'[c] = Append(toProxy[c], "CancelRequest")
                 \/ client'[c] = "stray" /\ toProxy'[c] = Append(toProxy[c], "Short")
    BY <1>2, <1>a, <2>1 DEF ClientRequests
  <2>3. toProxy[c] = <<>> /\ toClient[c] = <<>> /\ (client[c] = "connected" => handler[c] # "readAfterSSL")
    BY <2>2 DEF Knocking
  <2>4. \A m : Append(<<>>, m) = <<m>>
    OBVIOUS
  <2>5. \/ client[c] = "connected" /\ toProxy'[c] = <<"SSLRequest">> /\ client'[c] = "askedSSL"
        \/ client'[c] = "waiting" /\ toProxy'[c] = <<"StartupMessage">>
        \/ client'[c] = "asking" /\ toProxy'[c] = <<"CancelRequest">>
        \/ client'[c] = "stray" /\ toProxy'[c] = <<"Short">>
    BY <2>2, <2>3, <2>4
  <2> QED
    BY <1>a, <1>b, <2>2, <2>3, <2>5, WithoutNone DEF Knocking
<1>3. CASE ClientReads(c)
  <2>1. toClient[c] # <<>> /\ toClient'[c] = Tail(toClient[c]) /\ client[c] \in {"askedSSL", "waiting"}
    BY <1>0, <1>3, StreamsAt DEF ClientReads
  <2>2. handler[c] = "readAfterSSL" /\ toProxy[c] = <<>> /\ toClient[c] = <<"N">>
    BY <2>1 DEF Knocking
  <2>3. Head(<<"N">>) = "N" /\ Tail(<<"N">>) = <<>> /\ "N" \notin Asks
    BY DEF Asks
  <2>4. client'[c] = "plain" /\ toProxy' = toProxy /\ toClient'[c] = <<>>
    BY <1>3, <1>a, <2>1, <2>2, <2>3 DEF ClientReads
  <2> QED
    BY <1>a, <1>b, <2>2, <2>4, WithoutNone DEF Knocking
<1>4. CASE ClientSeesEnd(c)
  BY <1>4 DEF ClientSeesEnd, Knocking, Reading
<1>5. CASE ClientLeaves(c)
  <2>1. client'[c] = "left" /\ toProxy' = toProxy /\ toClient' = toClient
    BY <1>5, <1>a DEF ClientLeaves, streamVars
  <2>2. toProxy[c] = <<>> \/ \E m \in Requests : toProxy[c] = <<m>>
    BY DEF Knocking, Requests
  <2> QED
    BY <1>a, <1>b, <2>1, <2>2 DEF Knocking
<1> QED
  BY <1>1, <1>2, <1>3, <1>4, <1>5 DEF Client

\* A client that has asked only reads, answers what it is asked, and leaves.
LEMMA ClientCommitted ==
  ASSUME TypeOK, NEW c \in Clients, Committed(c), Client(c), handler[c] # "ended"
  PROVE  /\ Committed(c)'
         /\ Without(toClient[c], Asks) => Without(toClient'[c], Asks) /\ toProxy'[c] = toProxy[c]
         /\ client[c] \in {"asking", "turnedAway", "left"} => client'[c] \in {"asking", "turnedAway", "left"}
<1>0. StreamsOK
  BY TypeParts
<1>a. \A to : Be(c, to) => client'[c] = to
  BY ClientAt
<1>1. CASE ClientReads(c)
  <2>1. toClient[c] # <<>> /\ toClient'[c] = Tail(toClient[c]) /\ toClient[c] \in Seq(Replies)
    BY <1>0, <1>1, StreamsAt DEF ClientReads
  <2>2. client[c] = "waiting" /\ Without(toClient[c], {"N"})
    BY <1>1 DEF ClientReads, Committed
  <2>3. Head(toClient[c]) # "N" /\ Without(toClient'[c], {"N"})
    BY <2>1, <2>2, OneLess
  <2>4. client'[c] \in {"waiting", "ready", "turnedAway"}
    BY <1>1, <1>a, <2>2, <2>3 DEF ClientReads
  <2>5. ASSUME Without(toClient[c], Asks) PROVE Without(toClient'[c], Asks) /\ toProxy'[c] = toProxy[c]
    <3>1. Head(toClient[c]) \notin Asks /\ Without(toClient'[c], Asks)
      BY <2>1, <2>5, OneLess
    <3> QED
      BY <1>1, <3>1 DEF ClientReads
  <2> QED
    BY <2>2, <2>3, <2>4, <2>5 DEF Committed
<1>2. CASE ClientSeesEnd(c)
  BY <1>2 DEF ClientSeesEnd
<1>3. CASE ClientLeaves(c)
  <2>1. client'[c] = "left" /\ toProxy' = toProxy /\ toClient' = toClient
    BY <1>3, <1>a DEF ClientLeaves, streamVars
  <2> QED
    BY <2>1 DEF Committed
<1>4. ~ClientConnects(c) /\ ~ClientRequests(c)
  BY DEF ClientConnects, ClientRequests, Committed
<1> QED
  BY <1>1, <1>2, <1>3, <1>4 DEF Client

LEMMA ClientStarts ==
  ASSUME TypeOK, NEW c \in Clients, Starts(c), Client(c)
  PROVE  Starts(c)'
<1>a. /\ handler'[c] = handler[c] /\ session'[c] = session[c] /\ accepted'[c] = accepted[c]
      /\ bypass' = bypass /\ toServer' = toServer /\ fromServer' = fromServer /\ Told(c)' = Told(c)
  BY ClientAt
<1>1. CASE Knocking(c)
  BY <1>1, ClientKnocks DEF Starts
<1>2. CASE Sought(c)
  <2>1. Sought(c)'
    BY <1>2, <1>a, ClientCommitted DEF Sought, Untouched
  <2> QED
    BY <2>1 DEF Starts
<1>3. CASE Relaying(c)
  <2>1. Committed(c)' /\ (Without(toClient[c], Asks) => Without(toClient'[c], Asks) /\ toProxy'[c] = toProxy[c])
    BY <1>3, ClientCommitted DEF Relaying
  <2>2. Welcoming(c) => Welcoming(c)'
    BY <1>a DEF Welcoming
  <2>3. Relaying(c)'
    BY <1>3, <1>a, <2>1, <2>2 DEF Relaying
  <2> QED
    BY <2>3 DEF Starts
<1>4. CASE Bypassing(c)
  <2>1. Committed(c)' /\ Without(toClient'[c], Asks) /\ toProxy'[c] = toProxy[c]
    BY <1>4, ClientCommitted DEF Bypassing, Authing
  <2>2. Exchange(c)'
    BY <1>4, <1>a DEF Bypassing, Exchange, Asked
  <2>3. Bypassing(c)'
    BY <1>4, <1>a, <2>1, <2>2 DEF Bypassing
  <2> QED
    BY <2>3 DEF Starts
<1>5. CASE Over(c)
  <2>1. Over(c)'
    BY <1>5, <1>a DEF Over
  <2> QED
    BY <2>1 DEF Starts
<1> QED
  BY <1>1, <1>2, <1>3, <1>4, <1>5 DEF Starts

LEMMA SessionAt ==
  ASSUME TypeOK, NEW c \in Clients, Session(c)
  PROVE  /\ handler'[c] = handler[c] /\ client'[c] = client[c] /\ bypass' = bypass
         /\ toProxy' = toProxy /\ toClient' = toClient /\ Told(c)' = Told(c)
         /\ \A replies, to : Say(c, replies, to) => /\ fromServer'[c] = fromServer[c] \o replies
                                                    /\ session'[c] = to
<1>1. UNCHANGED <<givenVars, handler, client, seen, toProxy, toClient>>
  BY SessionStep
<1>2. \A replies, to : Say(c, replies, to) => fromServer'[c] = fromServer[c] \o replies /\ session'[c] = to
  BY DEF Say, TypeOK
<1> QED
  BY <1>1, <1>2 DEF givenVars, Told

\* The first message the session takes decides what it says.
LEMMA StartupAnswered ==
  ASSUME TypeOK, NEW c \in Clients, Serve(c), session[c] = "none",
         toServer[c] = <<"StartupMessage">>, fromServer[c] = <<>>
  PROVE  /\ toServer'[c] = <<>>
         /\ \/ session'[c] = "ready" /\ fromServer'[c] = Welcome
            \/ session'[c] = "closed" /\ fromServer'[c] = <<"Error">>
            \/ session'[c] = "password" /\ fromServer'[c] = <<"AuthCleartext">>
            \/ session'[c] = "md5" /\ fromServer'[c] = <<"AuthMD5">>
            \/ session'[c] = "sasl" /\ fromServer'[c] = <<"AuthSASL">>
<1>0. /\ StreamsOK
      /\ \A replies, to : Say(c, replies, to) => fromServer'[c] = fromServer[c] \o replies /\ session'[c] = to
      /\ method \in {"trust", "password", "md5", "scram-sha-256"}
  BY SessionAt, TypeParts, ServerAssumption DEF Session, TypeOK
<1>1. toServer'[c] = <<>>
  <2>1. Tail(<<"StartupMessage">>) = <<>>
    OBVIOUS
  <2> QED
    BY <1>0, <2>1, StreamsAt DEF Serve
<1>2. TakeStartup(c)
  <2>1. Head(<<"StartupMessage">>) = "StartupMessage"
    OBVIOUS
  <2> QED
    BY <2>1 DEF Serve, TakeCancel, TakeAnswer, Waiting
<1>3. \A m : <<>> \o <<m>> = <<m>>
  OBVIOUS
<1>4. \/ Say(c, <<>> \o Welcome, "ready")
      \/ Say(c, <<"Error">>, "closed")
      \/ Say(c, <<"AuthCleartext">>, "password")
      \/ Say(c, <<"AuthMD5">>, "md5")
      \/ Say(c, <<"AuthSASL">>, "sasl")
  BY <1>0, <1>2 DEF TakeStartup, Admit, Refuse, Ask
<1> QED
  BY <1>0, <1>1, <1>3, <1>4, WordsOfWelcome

\* The answers of bypassAuth and scramAuth are taken or refused.
LEMMA AnswerTaken ==
  ASSUME TypeOK, NEW c \in Clients, Serve(c), session[c] \in Waiting, fromServer[c] = <<>>,
         NEW a, toServer[c] = <<a>>
  PROVE  /\ toServer'[c] = <<>>
         /\ \/ session'[c] = "closed" /\ fromServer'[c] = <<"Error">>
            \/ session[c] = "sasl" /\ a = "SASLInitial" /\ session'[c] = "saslFinal" /\ fromServer'[c] = <<"SASLContinue">>
            \/ session[c] = "saslFinal" /\ session'[c] = "ready" /\ fromServer'[c] = <<"SASLFinal">> \o Welcome
            \/ session[c] \in {"password", "md5"} /\ session'[c] = "ready" /\ fromServer'[c] = Welcome
<1>0. /\ StreamsOK
      /\ \A replies, to : Say(c, replies, to) => fromServer'[c] = fromServer[c] \o replies /\ session'[c] = to
  BY SessionAt, TypeParts DEF Session
<1>1. Head(<<a>>) = a /\ Tail(<<a>>) = <<>> /\ \A m : <<>> \o <<m>> = <<m>>
  OBVIOUS
<1>2. toServer'[c] = <<>>
  BY <1>0, <1>1, StreamsAt DEF Serve
<1>3. TakeAnswer(c)
  BY DEF Serve, TakeStartup, TakeCancel, Waiting
<1>4. \/ Say(c, <<"Error">>, "closed")
      \/ session[c] = "sasl" /\ a = "SASLInitial" /\ Say(c, <<"SASLContinue">>, "saslFinal")
      \/ session[c] = "saslFinal" /\ Say(c, <<"SASLFinal">> \o Welcome, "ready")
      \/ session[c] \in {"password", "md5"} /\ Say(c, <<>> \o Welcome, "ready")
  BY <1>1, <1>3 DEF TakeAnswer, Refuse, Ask, Admit, Waiting, Expected
<1> QED
  BY <1>0, <1>1, <1>2, <1>4, WordsOfWelcome

LEMMA SessionStarts ==
  ASSUME TypeOK, NEW c \in Clients, Starts(c), Session(c)
  PROVE  Starts(c)'
<1>0. StreamsOK
  BY TypeParts
<1>a. /\ handler'[c] = handler[c] /\ client'[c] = client[c] /\ bypass' = bypass
      /\ toProxy' = toProxy /\ toClient' = toClient /\ Told(c)' = Told(c)
      /\ \A replies, to : Say(c, replies, to) => fromServer'[c] = fromServer[c] \o replies /\ session'[c] = to
  BY SessionAt
<1>b. Pull(toServer, c) => toServer[c] # <<>>
  BY DEF Pull
<1>c. Committed(c) => Committed(c)'
  BY <1>a DEF Committed
<1>1. ASSUME Knocking(c) \/ Sought(c) PROVE FALSE
  <2>1. session[c] = "none" /\ toServer[c] = <<>>
    BY <1>1 DEF Knocking, Sought, Untouched
  <2> QED
    BY <1>b, <2>1 DEF Session, Serve, SessionTimesOut, SessionCloses, Waiting
<1>2. CASE Relaying(c)
  <2>1. ~SessionCloses(c)
    BY <1>2 DEF Relaying, SessionCloses
  <2>2. CASE Serve(c)
    <3>1. session[c] = "none" /\ toServer[c] = <<"StartupMessage">> /\ fromServer[c] = <<>>
      BY <1>2, <1>b, <2>2 DEF Relaying, Welcoming, Serve
    <3>2. toProxy[c] = <<>> /\ Without(toClient[c], Asks) /\ Unopened(Told(c)) /\ toServer'[c] = <<>>
      BY <1>2, <2>2, <3>1, StartupAnswered DEF Relaying, Welcoming, Waiting
    <3>3. CASE session'[c] = "ready" /\ fromServer'[c] = Welcome
      <4>1. Welcoming(c)'
        BY <1>a, <3>2, <3>3 DEF Welcoming
      <4>2. Without(fromServer'[c], {"N"})
        <5>1. \A x, y, z : \A i \in DOMAIN <<x, y, z>> : <<x, y, z>>[i] \in {x, y, z}
          OBVIOUS
        <5> QED
          BY <3>3, <5>1 DEF Without, Welcome
      <4>3. Relaying(c)'
        BY <1>2, <1>a, <1>c, <3>2, <4>1, <4>2 DEF Relaying
      <4> QED
        BY <4>3 DEF Starts
    <3>4. CASE session'[c] \in Waiting \cup {"closed"} /\ \E m \in Asks \cup {"Error"} : fromServer'[c] = <<m>>
      <4>1. Unopened(fromServer'[c]) /\ Without(fromServer'[c], {"N"})
        <5>1. \A m : \A i \in DOMAIN <<m>> : <<m>>[i] = m
          OBVIOUS
        <5> QED
          BY <3>4, <5>1 DEF Unopened, Without, Asks
      <4>2. Relaying(c)'
        BY <1>2, <1>a, <1>c, <3>2, <3>4, <4>1 DEF Relaying
      <4> QED
        BY <4>2 DEF Starts
    <3> QED
      BY <2>2, <3>1, <3>3, <3>4, StartupAnswered DEF Waiting, Asks
  <2>3. CASE SessionTimesOut(c)
    <3>1. /\ session[c] \in Waiting /\ toServer' = toServer /\ fromServer'[c] = fromServer[c] \o <<"Error">>
          /\ session'[c] = "closed" /\ fromServer[c] = <<>>
      BY <1>a, <2>3 DEF SessionTimesOut, Refuse
    <3>2. toServer[c] = <<>> /\ Unopened(Told(c))
      BY <1>2, <3>1 DEF Relaying, Welcoming, Waiting
    <3>3. fromServer'[c] = <<"Error">>
      <4>1. \A m : <<>> \o <<m>> = <<m>>
        OBVIOUS
      <4> QED
        BY <3>1, <4>1
    <3>4. Unopened(fromServer'[c]) /\ Without(fromServer'[c], {"N"})
      <4>1. \A m : \A i \in DOMAIN <<m>> : <<m>>[i] = m
        OBVIOUS
      <4> QED
        BY <3>3, <4>1 DEF Unopened, Without
    <3>5. Relaying(c)'
      BY <1>2, <1>a, <1>c, <3>1, <3>2, <3>4 DEF Relaying
    <3> QED
      BY <3>5 DEF Starts
  <2> QED
    BY <2>1, <2>2, <2>3 DEF Session
<1>3. CASE Bypassing(c)
  <2>1. ~SessionCloses(c)
    BY <1>3 DEF Bypassing, SessionCloses, Authing
  <2>2. ~SessionTimesOut(c)
    BY <1>3, WordsOfWelcome DEF Bypassing, Exchange, Asked, Rest, SessionTimesOut, Waiting
  <2>3. Serve(c) /\ toServer[c] # <<>>
    BY <1>b, <2>1, <2>2 DEF Session, Serve
  <2>4. \/ /\ session[c] = "none" /\ toServer[c] = <<"StartupMessage">> /\ handler[c] \in {"greet", "bypassAuth"}
        \/ session[c] \in {"password", "md5"} /\ toServer[c] = <<"Password">> /\ handler[c] = "bypassAuth"
        \/ session[c] = "sasl" /\ toServer[c] = <<"SASLInitial">> /\ handler[c] = "saslContinue"
        \/ session[c] = "saslFinal" /\ toServer[c] = <<"SASLResponse">> /\ handler[c] = "saslFinal"
    BY <1>3, <2>3 DEF Bypassing, Exchange, Asked
  <2>5. fromServer[c] = <<>>
    BY <1>3, <2>3 DEF Bypassing, Exchange, Asked
  <2>6. Exchange(c)'
    <3>1. CASE session[c] = "none"
      BY <1>a, <2>3, <2>4, <2>5, <3>1, StartupAnswered DEF Exchange, Asked, Authing
    <3>2. CASE session[c] # "none"
      <4>1. session[c] \in Waiting /\ \E a : toServer[c] = <<a>>
        BY <2>4, <3>2 DEF Waiting
      <4>2. /\ toServer'[c] = <<>>
            /\ \/ session'[c] = "closed" /\ fromServer'[c] = <<"Error">>
               \/ session[c] = "sasl" /\ session'[c] = "saslFinal" /\ fromServer'[c] = <<"SASLContinue">>
               \/ session[c] = "saslFinal" /\ session'[c] = "ready" /\ fromServer'[c] = <<"SASLFinal">> \o Welcome
               \/ session[c] \in {"password", "md5"} /\ session'[c] = "ready" /\ fromServer'[c] = Welcome
        BY <2>3, <2>5, <4>1, AnswerTaken
      <4> QED
        BY <1>a, <2>4, <3>2, <4>2 DEF Exchange, Authing
    <3> QED
      BY <3>1, <3>2
  <2>7. Bypassing(c)'
    BY <1>3, <1>a, <1>c, <2>6 DEF Bypassing
  <2> QED
    BY <2>7 DEF Starts
<1>4. CASE Over(c)
  <2>1. Over(c)'
    BY <1>4, <1>a DEF Over
  <2> QED
    BY <2>1 DEF Starts
<1> QED
  BY <1>1, <1>2, <1>3, <1>4 DEF Starts

-----------------------------------------------------------------------------
(* All connections.                                                        *)

\* A step of one connection is none of another.
LEMMA Elsewhere ==
  ASSUME TypeOK, NEW c \in Clients, NEW d \in Clients, d # c,
         HandleConnection(d) \/ Client(d) \/ Session(d)
  PROVE  Same(c)
<1>1. bypass' = bypass
  BY SessionStep DEF HandleConnection, Handshake, ReadStartup, ReadAfterSSL, ForwardCancel, Dial, RelayAuth, RelayUntil, Greet,
     BypassAuth, Authenticating, ScramContinue, ScramFinal, HandlerFails, Fails, UpReadsEnd, DownReadsEnd, RelayCut, HandlerFrame,
     Client, ClientConnects, ClientRequests, ClientReads, ClientSeesEnd, ClientLeaves, ClientFrame, givenVars
<1>2. CASE HandleConnection(d)
  <2>1. HandlerFrame
    BY <1>2 DEF HandleConnection, Handshake, ReadStartup, ReadAfterSSL, ForwardCancel, Dial, RelayAuth, RelayUntil,
           Greet, BypassAuth, Authenticating, ScramContinue, ScramFinal, HandlerFails, Fails, UpReadsEnd, DownReadsEnd, RelayCut
  <2>2. \E to : handler' = [handler EXCEPT ![d] = to]
    BY <1>2 DEF HandleConnection, Handshake, ReadStartup, ReadAfterSSL, ForwardCancel, Dial, RelayAuth, RelayUntil,
           Greet, BypassAuth, Authenticating, Reply, PassOn, ScramContinue, ScramFinal, HandlerFails, Fails, UpReadsEnd, DownReadsEnd, RelayCut, Goto
  <2>3. toProxy' = toProxy \/ Pull(toProxy, d)
    BY <1>2 DEF HandleConnection, Handshake, ReadStartup, ReadAfterSSL, ForwardCancel, Dial, RelayAuth, RelayUntil,
           Greet, BypassAuth, Authenticating, ScramContinue, ScramFinal, HandlerFails, Fails, UpReadsEnd, DownReadsEnd, RelayCut, streamVars
  <2>4. toClient' = toClient \/ \E m : Put(toClient, d, m)
    BY <1>2 DEF HandleConnection, Handshake, ReadStartup, ReadAfterSSL, ForwardCancel, Dial, RelayAuth, RelayUntil,
           Greet, BypassAuth, Authenticating, Reply, PassOn, ScramContinue, ScramFinal, HandlerFails, Fails, UpReadsEnd, DownReadsEnd, RelayCut, streamVars
  <2>5. toServer' = toServer \/ \E m : Put(toServer, d, m)
    BY <1>2 DEF HandleConnection, Handshake, ReadStartup, ReadAfterSSL, ForwardCancel, Dial, RelayAuth, RelayUntil,
           Greet, BypassAuth, Authenticating, Reply, PassOn, ScramContinue, ScramFinal, HandlerFails, Fails, UpReadsEnd, DownReadsEnd, RelayCut, streamVars
  <2>6. fromServer' = fromServer \/ Pull(fromServer, d)
    BY <1>2 DEF HandleConnection, Handshake, ReadStartup, ReadAfterSSL, ForwardCancel, Dial, RelayAuth, RelayUntil,
           Greet, BypassAuth, Authenticating, ScramContinue, ScramFinal, HandlerFails, Fails, UpReadsEnd, DownReadsEnd, RelayCut, streamVars
  <2> QED
    BY <1>1, <2>1, <2>2, <2>3, <2>4, <2>5, <2>6 DEF Same, HandlerFrame, Put, Pull, TypeOK
<1>3. CASE Client(d)
  <2>1. ClientFrame /\ toServer' = toServer /\ fromServer' = fromServer
    BY <1>3 DEF Client, ClientConnects, ClientRequests, ClientReads, ClientSeesEnd, ClientLeaves, streamVars
  <2>2. client' = client \/ \E to : client' = [client EXCEPT ![d] = to]
    BY <1>3 DEF Client, ClientConnects, ClientRequests, ClientReads, ClientSeesEnd, ClientLeaves, Be
  <2>3. toProxy' = toProxy \/ \E m : Put(toProxy, d, m)
    BY <1>3 DEF Client, ClientConnects, ClientRequests, ClientReads, ClientSeesEnd, ClientLeaves, streamVars
  <2>4. toClient' = toClient \/ Pull(toClient, d)
    BY <1>3 DEF Client, ClientConnects, ClientRequests, ClientReads, ClientSeesEnd, ClientLeaves, streamVars
  <2>5. seen' = seen \/ \E m : seen' = [seen EXCEPT ![d] = Append(@, m)]
    BY <1>3 DEF Client, ClientConnects, ClientRequests, ClientReads, ClientSeesEnd, ClientLeaves, streamVars
  <2> QED
    BY <1>1, <2>1, <2>2, <2>3, <2>4, <2>5 DEF Same, ClientFrame, Put, Pull, TypeOK
<1>4. CASE Session(d)
  <2>1. /\ UNCHANGED <<handler, client, seen, toProxy, toClient>>
        /\ \E to : session' = [session EXCEPT ![d] = to]
        /\ accepted' = accepted \/ accepted' = [accepted EXCEPT ![d] = TRUE]
        /\ fromServer' = fromServer \/ \E t : fromServer' = [fromServer EXCEPT ![d] = @ \o t]
    BY <1>4, SessionStep
  <2>2. Pull(toServer, d) \/ toServer' = toServer
    BY <1>4 DEF Session, Serve, SessionTimesOut, SessionCloses
  <2> QED
    BY <1>1, <2>1, <2>2 DEF Same, Pull, TypeOK
<1> QED
  BY <1>2, <1>3, <1>4

\* The server starts handlers and ends them.
LEMMA ServerStarts ==
  ASSUME TypeOK, NEW c \in Clients, Starts(c), Server \/ Stop
  PROVE  Starts(c)' /\ (handler'[c] = "relay" => handler[c] = "relay")
<1>0. StreamsOK
  BY TypeParts
<1>1. UNCHANGED <<givenVars, client, session, accepted, seen, streamVars>>
  BY ServerStep
<1>2. handler'[c] = handler[c] \/ handler'[c] = "ended" \/ (handler[c] = "none" /\ handler'[c] = "readStartup")
  BY ServerStep DEF TypeOK
<1>3. Told(c)' = Told(c)
  BY <1>1 DEF Told, streamVars
<1>4. CASE handler'[c] = handler[c]
  <2>1. Same(c)
    BY <1>1, <1>4 DEF Same, givenVars, streamVars
  <2> QED
    BY <1>4, <2>1, SameStarts
<1>5. CASE handler'[c] = "ended"
  BY <1>0, <1>3, <1>5, StartOver
<1>6. CASE handler[c] = "none" /\ handler'[c] = "readStartup"
  <2>1. Knocking(c)
    BY <1>6 DEF Starts, Sought, Relaying, Bypassing, Over, Authing
  <2>2. Knocking(c)'
    BY <1>1, <1>3, <1>6, <2>1 DEF Knocking, Untouched, Reading, streamVars
  <2> QED
    BY <1>6, <2>2 DEF Starts
<1> QED
  BY <1>2, <1>4, <1>5, <1>6

LEMMA InitStarts == Init => StartInv
<1> SUFFICES ASSUME Init, NEW c \in Clients PROVE Knocking(c)
  BY DEF StartInv, Starts
<1>1. /\ handler[c] = "none" /\ client[c] = "away" /\ session[c] = "none" /\ accepted[c] = FALSE
      /\ seen[c] = <<>> /\ toProxy[c] = <<>> /\ toClient[c] = <<>> /\ toServer[c] = <<>> /\ fromServer[c] = <<>>
  BY DEF Init
<1>2. Unopened(Told(c))
  BY <1>1 DEF Unopened, Told
<1> QED
  BY <1>1, <1>2, WithoutNone DEF Knocking, Untouched

LEMMA NextStarts ==
  ASSUME TypeOK, StartInv, [Next]_vars
  PROVE  StartInv' /\ \A c \in Clients : handler[c] # "relay" /\ handler'[c] = "relay" => Fresh(c)'
<1> SUFFICES ASSUME NEW c \in Clients
             PROVE  Starts(c)' /\ (handler[c] # "relay" /\ handler'[c] = "relay" => Fresh(c)')
  BY DEF StartInv
<1>0. Starts(c)
  BY DEF StartInv
<1>1. ASSUME Same(c) PROVE Starts(c)' /\ handler'[c] = handler[c]
  BY <1>0, <1>1, SameStarts DEF Same
<1>2. CASE UNCHANGED vars
  BY <1>1, <1>2 DEF vars, givenVars, streamVars, Same
<1>3. CASE Server \/ Stop
  BY <1>0, <1>3, ServerStarts
<1>4. ASSUME NEW d \in Clients, HandleConnection(d) \/ Client(d) \/ Session(d)
      PROVE  Starts(c)' /\ (handler[c] # "relay" /\ handler'[c] = "relay" => Fresh(c)')
  <2>1. CASE d # c
    BY <1>1, <1>4, <2>1, Elsewhere
  <2>2. CASE d = c
    BY <1>0, <1>4, <2>2, HandlerStarts, ClientStarts, SessionStarts, ClientAt, SessionAt
  <2> QED
    BY <2>1, <2>2
<1> QED
  BY <1>2, <1>3, <1>4 DEF Next

LEMMA StartsOrderly == TypeOK /\ StartInv => OrderlyStart
<1> SUFFICES ASSUME TypeOK, StartInv, NEW c \in Clients PROVE Orderly(seen[c])
  <2>1. (\A c \in Clients : Orderly(seen[c])) => OrderlyStart
    BY DEF Orderly, OrderlyStart
  <2> QED
    BY <2>1
<1>1. seen[c] \in Seq(Replies) /\ toClient[c] \in Seq(Replies) /\ Told(c) \in Seq(Replies)
  BY StreamsAt, TypeParts
<1>2. Orderly(Told(c))
  <2>1. Unopened(Told(c)) \/ Opened(Told(c)) \/ Orderly(Told(c))
    BY DEF StartInv, Starts, Knocking, Sought, Relaying, Bypassing, Over, Untouched, Welcoming
  <2> QED
    BY <1>1, <2>1, UnopenedIsOrderly DEF Opened
<1> QED
  BY <1>1, <1>2, OrderlyPart DEF Told

\* A client reads one AuthenticationOk, no settings before it, no request to
\* authenticate after it, and ReadyForQuery last: relayAuth passes on what
\* PostgreSQL says, bypassAuth withholds the AuthenticationOk it has given
\* itself, and scramAuth the words of its own exchange.
THEOREM SessionsStartOrderly == Spec => []OrderlyStart
<1>1. Init => TypeOK /\ StartInv
  BY InitType, InitStarts
<1>2. TypeOK /\ StartInv /\ [Next]_vars => (TypeOK /\ StartInv)'
  BY NextType, NextStarts
<1> QED
  BY <1>1, <1>2, StartsOrderly, PTL DEF Spec

\* When relayAuth or bypassAuth hands over to the relay, nothing of the
\* authentication is left in the streams: no message for clientToBackend to
\* take for a request, none for backendToClient to take for a reply.
THEOREM RelayStartsFresh == Spec => FreshStart
<1>1. Init => TypeOK /\ StartInv
  BY InitType, InitStarts
<1>2. TypeOK /\ StartInv /\ [Next]_vars => (TypeOK /\ StartInv)'
  BY NextType, NextStarts
<1>3. TypeOK /\ StartInv /\ [Next]_vars =>
        [\A c \in Clients : handler[c] # "relay" /\ handler'[c] = "relay" =>
           toProxy'[c] = <<>> /\ fromServer'[c] = <<>> /\ toServer'[c] = <<>>]_vars
  BY NextStarts DEF Fresh
<1> QED
  BY <1>1, <1>2, <1>3, PTL DEF Spec, FreshStart

-----------------------------------------------------------------------------
(* Every connection is a tunnel, as far as safety goes.                    *)

LEMMA InitTunnel ==
  ASSUME Init, NEW c \in Clients
  PROVE  Tunnelled(c)!Init
BY DEF Init, Tunnelled!Init, Stage, GoneFor, Leaving

\* Why a handler may end: a party is gone, or PostgreSQL cannot be reached and
\* nothing has been opened.
Reason(c) ==
  \/ client[c] \in Leaving \cup {"asking"}
  \/ session[c] = "closed"
  \/ cancelled
  \/ handler[c] # "relay" /\ ~upstream

\* A handler that ends finds that somebody is gone: a request to cancel comes
\* from a client that wants nothing else, and an ErrorResponse, or a word that
\* scramAuth does not expect, from a session that closes.
LEMMA EndsForReason ==
  ASSUME TypeOK, NEW c \in Clients, Starts(c), HandleConnection(c),
         handler[c] # "ended", handler'[c] = "ended"
  PROVE  Reason(c)
<1>0. StreamsOK
  BY TypeParts
<1>a. \A from, to : Goto(c, from, to) => handler[c] = from /\ handler'[c] = to
  BY HandlerAt
<1>1. CASE ReadStartup(c) \/ ReadAfterSSL(c) \/ RelayAuth(c) \/ Greet(c)
  BY <1>1, <1>a DEF ReadStartup, ReadAfterSSL, RelayAuth, RelayUntil, Greet, Routed
<1>2. CASE ForwardCancel(c)
  <2>1. Sought(c) /\ handler[c] = "cancel"
    BY <1>2, <1>a, PhaseOf DEF ForwardCancel
  <2> QED
    BY <2>1 DEF Sought, Reason, Leaving
<1>3. CASE Dial(c)
  <2>1. ~upstream /\ handler[c] = "dial"
    BY <1>3, <1>a DEF Dial
  <2> QED
    BY <2>1 DEF Reason
<1>4. CASE BypassAuth(c)
  <2>1. Pull(fromServer, c) /\ handler[c] = "bypassAuth" /\ Head(fromServer[c]) = "Error"
    BY <1>4, <1>a DEF BypassAuth, Authenticating, Reply, PassOn
  <2>2. Bypassing(c)
    BY <2>1, PhaseOf
  <2>3. session[c] = "closed"
    BY <1>0, <2>1, <2>2, InExchange DEF Bypassing
  <2> QED
    BY <2>3 DEF Reason
<1>5. CASE ScramContinue(c) \/ ScramFinal(c)
  <2>1. /\ Pull(fromServer, c)
        /\ \/ handler[c] = "saslContinue" /\ Head(fromServer[c]) # "SASLContinue"
           \/ handler[c] = "saslFinal" /\ Head(fromServer[c]) # "SASLFinal"
    BY <1>5, <1>a DEF ScramContinue, ScramFinal
  <2>2. Bypassing(c)
    BY <2>1, PhaseOf
  <2>3. session[c] = "closed"
    BY <1>0, <2>1, <2>2, InExchange DEF Bypassing
  <2> QED
    BY <2>3 DEF Reason
<1>6. CASE Ending(c)
  BY <1>6 DEF Ending, HandlerFails, UpReadsEnd, DownReadsEnd, RelayCut, Reason
<1> QED
  BY <1>1, <1>2, <1>3, <1>4, <1>5, <1>6 DEF HandleConnection, Handshake, Ending

\* A handler moves on by itself, ends for a reason, and starts over never.
LEMMA HandlerMoves ==
  ASSUME TypeOK, NEW d \in Clients, Starts(d), HandleConnection(d)
  PROVE  /\ UNCHANGED <<run, cancelled, upstream, client, session>>
         /\ handler[d] # "ended"
         /\ \E to : handler' = [handler EXCEPT ![d] = to]
         /\ handler[d] = "relay" => handler'[d] = "ended"
         /\ handler'[d] = "ended" => Reason(d)
<1>1. HandlerFrame
  BY DEF HandleConnection, Handshake, ReadStartup, ReadAfterSSL, ForwardCancel, Dial, RelayAuth, RelayUntil,
         Greet, BypassAuth, Authenticating, ScramContinue, ScramFinal, HandlerFails, Fails, UpReadsEnd, DownReadsEnd, RelayCut
<1>2. \E to : handler' = [handler EXCEPT ![d] = to]
  BY DEF HandleConnection, Handshake, ReadStartup, ReadAfterSSL, ForwardCancel, Dial, RelayAuth, RelayUntil,
         Greet, BypassAuth, Authenticating, Reply, PassOn, ScramContinue, ScramFinal, HandlerFails, Fails, UpReadsEnd, DownReadsEnd, RelayCut, Goto
<1>3. handler[d] # "ended"
  BY DEF HandleConnection, Handshake, ReadStartup, ReadAfterSSL, ForwardCancel, Dial, RelayAuth, RelayUntil,
         Greet, BypassAuth, Authenticating, Reply, PassOn, ScramContinue, ScramFinal, HandlerFails, Writes,
         UpReadsEnd, DownReadsEnd, RelayCut, Goto, Reading, Authing
<1>4. ASSUME handler[d] = "relay" PROVE handler'[d] = "ended"
  <2>1. Ending(d)
    BY <1>4 DEF HandleConnection, Handshake, ReadStartup, ReadAfterSSL, ForwardCancel, Dial, RelayAuth, RelayUntil,
         Greet, BypassAuth, Authenticating, Reply, PassOn, ScramContinue, ScramFinal, Ending, Goto
  <2> QED
    BY <2>1, EndingFails DEF Fails, TypeOK
<1> QED
  BY <1>1, <1>2, <1>3, <1>4, EndsForReason DEF HandlerFrame, globalVars, givenVars

\* A client that has gone does not come back, nor does a session.
LEMMA ClientMoves ==
  ASSUME TypeOK, NEW d \in Clients, Client(d)
  PROVE  /\ UNCHANGED <<run, cancelled, upstream, handler, session>>
         /\ \/ client' = client
            \/ /\ client[d] \notin Leaving
               /\ \E to : /\ client' = [client EXCEPT ![d] = to]
                          /\ client[d] = "asking" => to \in Leaving
BY DEF Client, ClientConnects, ClientRequests, ClientReads, ClientSeesEnd, ClientLeaves, Be,
       ClientFrame, globalVars, givenVars, Leaving

LEMMA SessionMoves ==
  ASSUME TypeOK, NEW d \in Clients, Session(d)
  PROVE  /\ UNCHANGED <<run, cancelled, upstream, handler, client>>
         /\ session[d] # "closed"
         /\ \E to : session' = [session EXCEPT ![d] = to]
<1>1. session[d] # "closed"
  BY DEF Session, Serve, TakeStartup, TakeAnswer, TakeCancel, SessionTimesOut, SessionCloses, Waiting
<1> QED
  BY <1>1, SessionStep DEF globalVars, givenVars

LEMMA ServerMoves ==
  ASSUME TypeOK, Server \/ Stop
  PROVE  /\ UNCHANGED <<upstream, client, session>>
         /\ cancelled => cancelled'
         /\ \/ run' = run /\ handler' = handler
            \/ run' # "accept" /\ handler' = [d \in Clients |-> "ended"]
            \/ /\ run' = run
               /\ \E d \in Clients : handler[d] = "none" /\ handler' = [handler EXCEPT ![d] = "readStartup"]
BY DEF Server, Accept, Panics, CloseListener, RunReturns, Stop, Goto, ConnVars, globalVars, givenVars

\* What a step does to one connection: nothing but that parties go, or it
\* opens or closes it.
Passage(c) ==
  /\ upstream' = upstream
  /\ GoneFor(c) \subseteq GoneFor(c)'
  /\ \/ Stage(c)' = Stage(c)
     \/ Stage(c) = "opening" /\ Stage(c)' = "open" /\ GoneFor(c)' = GoneFor(c)
     \/ /\ Stage(c) # "closed" /\ Stage(c)' = "closed"
        /\ GoneFor(c)' # {} \/ (Stage(c) = "opening" /\ ~upstream)

LEMMA ConnectionStep ==
  ASSUME TypeOK, StartInv, [Next]_vars, NEW c \in Clients
  PROVE  Passage(c)
<1>0. PlacesOK
  BY TypeParts
<1> USE <1>0 DEF PlacesOK, Stage, GoneFor, Passage
<1>1. CASE UNCHANGED vars
  BY <1>1 DEF vars, globalVars, givenVars
<1>2. CASE Server \/ Stop
  <2>1. run' # "accept" => GoneFor(c)' # {}
    OBVIOUS
  <2> QED
    BY <1>2, <2>1, ServerMoves, TypeParts DEF FlagsOK
<1>3. ASSUME NEW d \in Clients, HandleConnection(d)
      PROVE  Passage(c)
  <2>0. Starts(d)
    BY DEF StartInv
  <2>1. UNCHANGED <<run, cancelled, upstream, client, session>> /\ GoneFor(c)' = GoneFor(c)
    BY <1>3, <2>0, HandlerMoves
  <2>2. CASE d # c
    BY <1>3, <2>0, <2>1, <2>2, HandlerMoves
  <2>3. CASE d = c
    <3>1. ASSUME handler'[c] = "ended"
          PROVE  GoneFor(c) # {} \/ (handler[c] # "relay" /\ ~upstream)
      <4>1. Reason(c)
        BY <1>3, <2>0, <2>3, <3>1, HandlerMoves
      <4> QED
        BY <4>1 DEF Reason
    <3>2. handler[c] # "ended" /\ (handler[c] = "relay" => handler'[c] = "ended")
      BY <1>3, <2>0, <2>3, HandlerMoves
    <3> QED
      BY <2>1, <3>1, <3>2
  <2> QED
    BY <2>2, <2>3
<1>4. CASE \E d \in Clients : Client(d)
  BY <1>4, ClientMoves
<1>5. CASE \E d \in Clients : Session(d)
  BY <1>5, SessionMoves
<1> QED
  BY <1>1, <1>2, <1>3, <1>4, <1>5 DEF Next

LEMMA StepTunnel ==
  ASSUME TypeOK, StartInv, [Next]_vars, NEW c \in Clients
  PROVE  [Tunnelled(c)!Next]_(Tunnelled(c)!vars)
<1>0. Passage(c)
  BY ConnectionStep
<1>1. GoneFor(c)' \in SUBSET Tunnelled(c)!Parties /\ GoneFor(c) \subseteq GoneFor(c)' /\ upstream' = upstream
  BY <1>0 DEF GoneFor, Tunnelled!Parties, Passage
<1>2. CASE Stage(c)' = Stage(c)
  BY <1>1, <1>2 DEF Tunnelled!Next, Tunnelled!Goes
<1>3. CASE Stage(c) = "opening" /\ Stage(c)' = "open" /\ GoneFor(c)' = GoneFor(c)
  BY <1>1, <1>3 DEF Tunnelled!Next, Tunnelled!Open
<1>4. CASE /\ Stage(c) # "closed" /\ Stage(c)' = "closed"
           /\ GoneFor(c)' # {} \/ (Stage(c) = "opening" /\ ~upstream)
  BY <1>1, <1>4 DEF Tunnelled!Next, Tunnelled!Close
<1> QED
  BY <1>0, <1>2, <1>3, <1>4 DEF Passage

\* The safe half of Tunnels: every connection starts as a tunnel does and goes
\* through the steps of one. Once a handler has taken it, and whatever the
\* handler waits for, it is not closed while the client, the session and the
\* server are there, unless PostgreSQL cannot be reached: relayAuth, bypassAuth
\* and scramAuth give up only after a session that has refused its user.
THEOREM ConnectionsAreTunnels ==
  Spec => /\ \A c \in Clients : Tunnelled(c)!Init
          /\ [][\A c \in Clients : [Tunnelled(c)!Next]_(Tunnelled(c)!vars)]_vars
<1>1. Init => \A c \in Clients : Tunnelled(c)!Init
  BY InitTunnel
<1>2. Init => TypeOK /\ StartInv
  BY InitType, InitStarts
<1>3. TypeOK /\ StartInv /\ [Next]_vars => (TypeOK /\ StartInv)'
  BY NextType, NextStarts
<1>4. TypeOK /\ StartInv /\ [Next]_vars => \A c \in Clients : [Tunnelled(c)!Next]_(Tunnelled(c)!vars)
  BY StepTunnel
<1> QED
  BY <1>1, <1>2, <1>3, <1>4, PTL DEF Spec

=============================================================================
