CONSTANTS
  None = None
  FieldBits = 3
  PRIMITIVE_POLY = 11
  N = 6
  K = 2
  Words <- MCWords
  WordBits = 10
  FrameBits = 5
  Gamma = 633
  Mix1 = 761
  Mix2 = 593
  Shifts <- MCShifts
  UniformBits = 6
  States <- MCStates
  Seed <- for_frame
  Advance <- advance
  Output <- next_u64
  Uniform <- next_f64
  Unit = 64000
  Ripple <- MCRipple
  Spike <- MCSpike
  Streams <- MCStreams
  Scenes <- MCScenes
  MaxStored = 7
SPECIFICATION Spec
INVARIANTS DecodesWithinRadius ImplementsCorrected PlansAreSound FramesSurviveFiles
PROPERTY PlansEnd
CHECK_DEADLOCK FALSE
