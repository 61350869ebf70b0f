SPECIFICATION Spec

CONSTANTS
  h1 = h1
  h2 = h2
  h3 = h3
  h4 = h4
  s1 = s1
  s2 = s2
  NoHandler = NoHandler
  NoSocket = NoSocket
  Handler = {h1, h2, h3, h4}
  Socket = {s1, s2}
  AcceptKinds = {"request"}
  CallKinds = {"call"}
  CallerKinds = {"request"}
  MaxTransfers = 2
  FlagSurvives = TRUE
  QuietClients = FALSE

SYMMETRY Symmetry

\* The server stops where an exception leaves start() or behaviour is undefined.
CHECK_DEADLOCK FALSE

PROPERTIES
  CallerWaits
