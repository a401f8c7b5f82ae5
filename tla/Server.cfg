SPECIFICATION FamilySpec
CONSTANTS
  c1 = c1
  c2 = c2
  Conn = {c1, c2}
  Sends <- BusySends
  Scripts <- BusyScripts
  MaxQueued = 1
  MaxConnections = 1
  AcceptAtMax = TRUE
  Timeouts = {1}
  MaxCommands = 1
  UsizeMod = 8
INVARIANTS ConnectionsCounted MessagesKeepTheirFrame  TransactionsWhole
  
CHECK_DEADLOCK FALSE
