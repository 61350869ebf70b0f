CONSTANTS
  Byte <- MCByte
  Requests <- MCRequests
  BufferLen = 5
  MaxWrites = 3
SPECIFICATION FairSpec
INVARIANTS
  TypeOK
  HeadersAreSent
  
  HeadIsFirst
  

  
\* A client that stays without completing its header is waited for.
CHECK_DEADLOCK FALSE
