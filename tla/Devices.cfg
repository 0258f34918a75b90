SPECIFICATION FairSpec
CONSTANTS
  k1 = k1
  k2 = k2
  a = a
  b = b
  n1 = n1
  n2 = n2
  Name = {n1, n2}
  Key = {k1, k2}
  IP = {a, b}
  Device <- MCDevice
  None = None
  Stale = Stale
  Weathers <- MCWeathers
  MaxChanges = 1
INVARIANTS TypeOK  Complete  ReadsBack
PROPERTIES CallReturns
