SPECIFICATION FairSpec
CONSTANTS
  wgd = wgd
  wg = wg
  g1 = g1
  g2 = g2
  c1 = c1
  names0 = names0
  k1 = k1
  alice = alice
  none = none
  Process = {wgd, wg}
  NameMap <- MCNameMap
  EmptyMap <- MCEmptyMap
  Absent = Absent
  Bad = Bad
  Torn = Torn
  NoCall = NoCall
  NoResult = NoResult
  Ok = Ok
  Error = Error
  NoTask = NoTask
  NoTemp = NoTemp
  Task = {g1, g2, c1}
  ProcOf <- MCProcOf
  File = {names0}
  Updates <- MCUpdates
INVARIANTS ReadIsCurrent WholeVersions Consistent
PROPERTIES Atomic CallsReturn
