CONSTANTS
  Blocks = {b1, b2, b3, b4}
  Frames <- MCFrames
  Plan <- MCPlan
  None = None
  MaxAbsorb = 4
SPECIFICATION FairSpec
INVARIANTS BlocksAreExact CountIsExact NothingStranded Confluent IInv
PROPERTIES ImplementsFountain AbsorbReturns
