SPECIFICATION FairSpec
CONSTANTS
  h1 = h1
  h2 = h2
  c1 = c1
  wg0 = wg0
  file0 = file0
  k1 = k1
  k2 = k2
  self = self
  alice = alice
  Key = {k1, k2, self}
  SelfKey = self
  Name = {alice}
  NoName = NoName
  Keep = Keep
  Clear = Clear
  NoTask = NoTask
  NoRequest = NoRequest
  File = {file0}
  FileOf <- MCFileOf
  Task = {h1, h2, c1}
  Handlers = {h1, h2}
  Iface = {wg0}
  Request <- FaultRequests
  Faults = {"device", "store", "kill", "link"}
PROPERTIES SetconfRepairs RequestsAnswered
