\* One start command at a time, two process slots over one item, one crash and one failed launch.
CONSTANTS
  Processes = {p1, p2}
  Operators = {o1}
  Items = {i1}
  NoProcess = NoProcess
  Unwaited = Unwaited
  NoItem = NoItem
  MaxCrashes = 1
  MaxFailures = 1
SPECIFICATION FairSpec
INVARIANTS
  OneLateClaim
  SoloOwnsClaims
PROPERTIES
  StopEnds
  PauseQuiets
  KeptStarting
CHECK_DEADLOCK FALSE
