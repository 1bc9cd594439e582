SPECIFICATION Spec
CONSTANTS
  s1 = s1
  s2 = s2
  s3 = s3
  t1 = t1
  t2 = t2
  Sources = {s1}
  Contents <- Pages
  TriageClasses = {"pricing_change", "noise"}
  SnapshotOrder = "fetched_at"
  Ticks = {t1}
  Blocked = {}
  Period <- EveryInstant
  PauseAfter = 2
  Costs = {1}
  MaxCost = 1
  Estimate = 1
  Cap = 2
  Faults = {"fetch", "classify", "crash"}
  MaxClock = 4
INVARIANTS
  OneDeltaPerBaseline
  EveryObservationIsExplained
  CoverageMatchesHistory
CHECK_DEADLOCK FALSE
