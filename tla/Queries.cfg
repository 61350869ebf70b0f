SPECIFICATION Spec
CONSTANTS
  c1 = c1
  c2 = c2
  l1 = l1
  k1 = k1
  k2 = k2
  none = none
  noConn = noConn
  Caller <- MCCaller
  Loader <- MCLoader
  Conn <- MCConn
  NoCaller <- none
  NoConn <- noConn
  MaxCalls <- MCMaxCalls
CHECK_DEADLOCK FALSE
INVARIANTS
  TypeOK
  YieldIsLive
  IdleIsClean
  AloneReadsOwn
  UndefinedIfShared
  
PROPERTIES
  CallReturns
