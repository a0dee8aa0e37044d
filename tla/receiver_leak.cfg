CONSTANTS
  MaxStarts = 2
  Browsers = {TRUE}
  Patience = {TRUE}
  None = None
SPECIFICATION FairSpec
PROPERTIES DecodersAreFreed
