SPECIFICATION Spec
CONSTANTS
  k1 = k1  k2 = k2  ip1 = ip1  host1 = host1  v1 = v1  alice = alice  odd = odd
  Key = {k1, k2}
  IP = {ip1}
  Setting = {v1, host1}
  Unset = Unset
  Default = Default
  Nobody = Nobody
  IPChunk = 256
  PeerChunk = 32
  Name = {alice}
  OddName = {odd}
  NoName = NoName
  Clear = Clear
  Nil = Nil
  Bad = Bad
  NoKey = NoKey
  Host = Host
  HostAddr = host1
  Retries = 1
  NoBody = NoBody
  Shown = Shown
  Script <- MCScript
  Start <- MCStart
INVARIANT SyncClears
\* The script ends.
CHECK_DEADLOCK FALSE
