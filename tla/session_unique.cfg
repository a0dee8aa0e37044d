CONSTANTS
  ta = ta
  tb = tb
  tc = tc
  td = td
  hello = hello
  other = other
  third = third
  Transmitters = {ta, tb, tc}
  Message <- MCMessage
  MessageLen <- MCMessageLen
  SessionId <- MCOwnId
  DropletSize <- MCDropletSize
  PlanOf <- MCPlan
  FrameCount = 4
  MaxPayloadBytes = 8
  MaxCount = 1
  MaxResets = 1
  None = None
  Garbage = Garbage
SPECIFICATION FairSpec
INVARIANTS OneTransmitter
PROPERTIES SessionsComplete
