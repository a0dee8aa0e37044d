CONSTANTS
  fa = fa
  bad = bad
  Files = {fa, bad}
  Unencodable = {bad}
  MaxEncoders = 2
  MaxBuilds = 2
  MaxBeams = 2
  Patience = {TRUE, FALSE}
  None = None
  hero = hero
  loss = loss
  try = try
  Beats = {hero, loss, try}
  LossBeat = loss
  MaxCallbacks = 6
  NoBeat = NoBeat
SPECIFICATION PageSpec
CHECK_DEADLOCK FALSE
INVARIANTS OwnedIsLive PlanIsCurrent BeamHasEncoder PatienceOwnsEncoders
INVARIANTS StopEndsBeam LossBeatIsAlive
