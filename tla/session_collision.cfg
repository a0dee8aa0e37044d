CONSTANTS
  ta = ta
  tb = tb
  tc = tc
  td = td
  hello = hello
  other = other
  third = third
  Transmitters = {ta, tb, tc, td}
  Message <- MCMessage
  MessageLen <- MCMessageLen
  SessionId <- MCSameId
  DropletSize <- MCDropletSize
  PlanOf <- MCPlan
  FrameCount = 3
  MaxPayloadBytes = 8
  MaxCount = 2
  MaxResets = 1
  None = None
  Garbage = Garbage
SPECIFICATION Spec
INVARIANTS IInv DeliversOneMessage
PROPERTIES OnlyResetForgets ProgressNeverFalls
