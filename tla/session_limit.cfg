CONSTANTS
  ta = ta
  tb = tb
  tc = tc
  td = td
  hello = hello
  other = other
  third = third
  Transmitters = {ta, tb}
  Message <- MCMessage
  MessageLen <- MCLargeLen
  SessionId <- MCOwnId
  DropletSize <- MCDropletSize
  PlanOf <- MCPlan
  FrameCount = 3
  MaxPayloadBytes = 8
  MaxCount = 2
  MaxResets = 0
  None = None
  Garbage = Garbage
SPECIFICATION Spec
INVARIANTS AcceptedIsReceivable
