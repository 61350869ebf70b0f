SPECIFICATION FairSpec

CONSTANTS
  h1 = h1
  h2 = h2
  h3 = h3
  s1 = s1
  NoHandler = NoHandler
  NoSocket = NoSocket
  Handler = {h1, h2, h3}
  Socket = {s1}
  AcceptKinds = {"request"}
  CallKinds = {"call"}
  CallerKinds = {"request", "reply"}
  MaxTransfers = 2
  FlagSurvives = TRUE
  QuietClients = TRUE

\* The server stops where an exception leaves start().
CHECK_DEADLOCK FALSE

PROPERTIES
  RetiredIsPurged
  ShutdownStops
  CallReturns
