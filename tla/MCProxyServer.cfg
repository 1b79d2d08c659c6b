SPECIFICATION FairSpec
CONSTANTS
  Clients = {c1, c2}
  Strangers = {c2}
  Modes = {TRUE, FALSE}
  Methods = {"trust", "password", "md5", "scram-sha-256"}
INVARIANTS
  TypeOK
  ReadyMeansAccepted
  OrderlyStart
PROPERTIES
  FreshStart
  GetsIn
  CancelArrives
  ShutsDown
  Tunnels
CHECK_DEADLOCK FALSE
