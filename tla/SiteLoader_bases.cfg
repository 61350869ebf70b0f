\* Two sites of one host and port, under different bases.
CONSTANTS
  l1 = l1
  l2 = l2
  p1 = p1
  h1 = h1
  root = root
  drinks = drinks
  c1 = c1
  c2 = c2
  Lib = {l1, l2}
  NoLib = NoLib
  Port = {p1}
  Host = {h1}
  Base = {root, drinks}
  FailingPorts = {}
  NoSite = NoSite
  Call = {c1, c2}
  MaxOpens = 2
SPECIFICATION Spec
SYMMETRY Symmetry
INVARIANTS
  AcceptedIsServed
CHECK_DEADLOCK FALSE
