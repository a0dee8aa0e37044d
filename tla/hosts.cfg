CONSTANTS
  ta = ta
  tb = tb
  tc = tc
  hello = hello
  other = other
  third = third
  Transmitters = {ta, tb, tc}
  Message <- MCMessage
  MessageLen <- MCMessageLen
  SessionId <- MCSessionId
  DropletSize <- MCDropletSize
  PlanOf <- MCPlan
  FrameCount = 2
  MaxPayloadBytes = 8
  MaxCount = 0
  MaxResets = 1
  None = None
  Garbage = Garbage
  Requests <- MCRequests
  DerivedId = 4660
  Addresses = {1, 2, 3, 4}
  CAddresses = {1}
  Lengths = {5, 7}
  Spare = {0, 1}
  MaxObjects = 2
SPECIFICATION BindingsSpec
INVARIANTS HostsAgree PinnedIdIsSent MemoryIsAccounted
PROPERTIES ShownProgressNeverFalls
