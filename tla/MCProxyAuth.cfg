SPECIFICATION FairSpec
CONSTANTS
  Clients = {c1}
  Strangers = {}
  Modes = {FALSE}
  Methods = {"password"}
PROPERTY Authenticates
CHECK_DEADLOCK FALSE
