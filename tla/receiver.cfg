CONSTANTS
  MaxStarts = 3
  Browsers = {TRUE, FALSE}
  Patience = {TRUE, FALSE}
  None = None
SPECIFICATION FairSpec
CHECK_DEADLOCK FALSE
INVARIANTS PumpsHaveDecoders ReceivingHasCamera NoStrayCamera UrlsAreOwned
PROPERTIES AnimationFramesFreeDecoders
