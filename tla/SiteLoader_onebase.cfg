\* One base for all sites, so that every site of a port has its own host.
\* Port p2 is one on which listenOn() may throw.
CONSTANTS
  l1 = l1
  l2 = l2
  p1 = p1
  p2 = p2
  h1 = h1
  h2 = h2
  b1 = b1
  c1 = c1
  c2 = c2
  Lib = {l1, l2}
  NoLib = NoLib
  Port = {p1, p2}
  Host = {h1, h2}
  Base = {b1}
  FailingPorts = {p2}
  NoSite = NoSite
  Call = {c1, c2}
  MaxOpens = 2
SPECIFICATION FairSpec
INVARIANTS
  TypeOK
  CalledIsMapped
  CountIsExact
  AcceptedIsServed
PROPERTIES
  DisabledDrains
\* With every reference that MaxOpens allows leaked, nothing can be loaded.
CHECK_DEADLOCK FALSE
