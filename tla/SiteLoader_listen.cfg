\* A port on which listenOn() may throw.
CONSTANTS
  l1 = l1
  p1 = p1
  p2 = p2
  h1 = h1
  b1 = b1
  c1 = c1
  Lib = {l1}
  NoLib = NoLib
  Port = {p1, p2}
  Host = {h1}
  Base = {b1}
  FailingPorts = {p2}
  NoSite = NoSite
  Call = {c1}
  MaxOpens = 3
SPECIFICATION Spec
SYMMETRY Symmetry
PROPERTIES
  KeptLibIsUsed
CHECK_DEADLOCK FALSE
