CONSTANTS
  None = None
  Profiles <- MCProfiles
  Shots <- MCShots
  Views <- MCViews
  ERASURE_THRESHOLD = 280
SPECIFICATION Spec
INVARIANTS ProfilesAreSound FramesAreReadable DisplayedFramesAreFound
CHECK_DEADLOCK FALSE
