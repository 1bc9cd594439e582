SPECIFICATION Spec
CONSTANTS
  s1 = s1
  s2 = s2
  s3 = s3
  t1 = t1
  t2 = t2
  Sources = {s1}
  Contents <- Shrinking
  TriageClasses = {"pricing_change"}
  SnapshotOrder = "fetched_at"
  Ticks = {t1}
  Blocked = {}
  Period <- EveryInstant
  PauseAfter = 2
  Costs = {1}
  MaxCost = 1
  Estimate = 1
  Cap = 9
  Faults = {}
  MaxClock = 3
INVARIANTS
  EveryAttemptIsCovered
CHECK_DEADLOCK FALSE
