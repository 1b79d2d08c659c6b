------------------------------- MODULE Tunnel -------------------------------
(***************************************************************************)
(* What the proxy promises of one connection: it is not closed until the   *)
(* client, the server or the proxy itself is gone, unless there is no      *)
(* server to open it to, and then it does not stay open for long.          *)
(* ProxyServer implements it from the acceptance of the client on,         *)
(* ProxyRelay from the end of the authentication on.                       *)
(***************************************************************************)
VARIABLES
  state,         \* "opening", "open" or "closed"
  gone,          \* the parties that are gone
  reachable      \* there is a server

vars == <<state, gone, reachable>>

Parties == {"client", "server", "proxy"}

TypeOK ==
  /\ state \in {"opening", "open", "closed"}
  /\ gone \subseteq Parties
  /\ reachable \in BOOLEAN

Init == state \in {"opening", "open"} /\ gone = {}

Open ==
  /\ state = "opening"
  /\ state' = "open"
  /\ UNCHANGED gone

Goes ==
  /\ gone' \in SUBSET Parties
  /\ gone \subseteq gone'
  /\ UNCHANGED state

Close ==
  /\ state # "closed"
  /\ state' = "closed"
  /\ gone' \in SUBSET Parties
  /\ gone \subseteq gone'
  /\ gone' # {} \/ (state = "opening" /\ ~reachable)

Next == (Open \/ Goes \/ Close) /\ UNCHANGED reachable

SafeSpec == Init /\ [][Next]_vars
Fairness == WF_vars(gone # {} /\ Close /\ UNCHANGED reachable)

Spec == SafeSpec /\ Fairness

=============================================================================
