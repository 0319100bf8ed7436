SPECIFICATION FairSpec
CONSTANTS
  cli = cli
  srv = srv
  tc = tc
  ts = ts
  Listener = l
  Clients = {cli}
  Peers = {srv}
  Threads = {tc, ts}
  SockOf <- MCSockOf
  Dests <- MCDests
  Capacity = 1
  Corrupt = {6}
  Strays = {1}
  Idlers = {srv}
  MaxAccepts = 2
  MaxCloses = 1
INVARIANTS FirstCopiesInOrder SelectedIsThere
PROPERTIES PutReturns Delivered
CHECK_DEADLOCK FALSE
