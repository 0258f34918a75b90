SPECIFICATION IoctlSpec
CONSTANTS
  k1 = k1
  k2 = k2
  k3 = k3
  a = a
  b = b
  s = s
  old = old
  g1 = g1
  g2 = g2
  n1 = n1
  n2 = n2
  p1 = p1
  p2 = p2
  Key = {k1, k2, k3}
  IP = {a, b}
  Setting = {s, old}
  Unset = Unset
  Default = Default
  Nobody = Nobody
  IPChunk = 2
  PeerChunk = 1
  Input <- MCInput
  Start <- MCStart
  Refusals = 1
  Caller = {g1, g2}
  IfName = {n1, n2}
  NoName = NoName
  Path = {p1, p2}
  None = None
  Contents <- MCContents
  Hosts <- MCHosts
  Guess0 = 2
  Plans <- StalePlans
  MaxHappens = 2
CHECK_DEADLOCK FALSE
INVARIANT NotFoundIsMissing
