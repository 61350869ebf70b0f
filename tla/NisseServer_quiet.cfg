SPECIFICATION Spec

CONSTANTS
  h1 = h1
  h2 = h2
  h3 = h3
  h4 = h4
  h5 = h5
  s1 = s1
  s2 = s2
  NoHandler = NoHandler
  NoSocket = NoSocket
  Handler = {h1, h2, h3, h4, h5}
  Socket = {s1, s2}
  AcceptKinds = {"request"}
  CallKinds = {"call"}
  CallerKinds = {"request", "reply"}
  MaxTransfers = 2
  FlagSurvives = TRUE
  QuietClients = TRUE

SYMMETRY Symmetry

\* The server stops where an exception leaves start().
CHECK_DEADLOCK FALSE

INVARIANTS
  AwaitedIsLive
  RetiredIsSilent
  FinishedIsRetired
  NoUndefinedBehaviour

PROPERTIES
  CallerWaits
  ImplementsCalls
