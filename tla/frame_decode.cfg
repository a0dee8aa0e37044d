CONSTANTS
  HeaderN = 32
  HeaderK = 16
  BlockN = 5
  BlockK = 1
  BlockCount = 2
  Faults <- MCFaults
  None = None
SPECIFICATION Spec
INVARIANTS AcceptedIsBound GuaranteedIsAccepted BurstIsAbsorbed IInv
