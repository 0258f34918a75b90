SPECIFICATION TextsSpec
CONSTANTS
  k1 = k1  k2 = k2  ip1 = ip1  host1 = host1  v1 = v1  alice = alice  odd = odd
  Key = {k1, k2}
  IP = {ip1}
  Setting = {v1, host1}
  Unset = Unset
  Default = Default
  Nobody = Nobody
  IPChunk = 256
  PeerChunk = 32
  Name = {alice}
  OddName = {odd}
  NoName = NoName
  Clear = Clear
  Nil = Nil
  Bad = Bad
  NoKey = NoKey
  Host = Host
  HostAddr = host1
  Retries = 1
  NoBody = NoBody
  Shown = Shown
  Script <- MCScript
  Start <- MCStart
  Computer <- MCComputer
  NodeKey = {"A", "B", "P"}
  KeyOf <- MCKeyOf
  MaxGists = 1
  MaxRuns = 2
  addr = addr  hook1 = hook1  hook2 = hook2  mtu = mtu
  NetValue = {mtu}
  Zero = Zero
  ListValue = {addr, hook1, hook2}
  Sources <- MCSources
  Saver = {s1, s2}
  Original <- MCOriginal
  DeviceNow <- MCDeviceNow
  MaxSaves = 2
  NoText = NoText
INVARIANTS ParsedAsWritten PutBack DamageIsLast    SavedWhole
PROPERTY Answered
\* The script ends, and so do the runs.
CHECK_DEADLOCK FALSE
