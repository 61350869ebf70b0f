SPECIFICATION Spec

CONSTANTS
  h1 = h1
  h2 = h2
  h3 = h3
  s1 = s1
  NoHandler = NoHandler
  NoSocket = NoSocket
  Handler = {h1, h2, h3}
  Socket = {s1}
  AcceptKinds = {"reader", "request"}
  CallKinds = {"call"}
  CallerKinds = {"request"}
  MaxTransfers = 1
  FlagSurvives = TRUE
  QuietClients = TRUE

SYMMETRY Symmetry

\* The server stops where an exception leaves start() or behaviour is undefined.
CHECK_DEADLOCK FALSE

PROPERTIES
  MoveSuspends
