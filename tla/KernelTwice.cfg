SPECIFICATION Spec
CONSTANTS
  k1 = k1
  k2 = k2
  k3 = k3
  a = a
  b = b
  s = s
  old = old
  Key = {k1, k2, k3}
  IP = {a, b}
  Setting = {s, old}
  Unset = Unset
  Default = Default
  Nobody = Nobody
  IPChunk = 2
  PeerChunk = 2
  Input <- TwiceInput
  Start <- MCStart
  Refusals = 1
CHECK_DEADLOCK FALSE
INVARIANT LeavesGoal
