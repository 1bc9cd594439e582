SPECIFICATION Spec
CONSTANTS
  s1 = s1
  s2 = s2
  s3 = s3
  t1 = t1
  t2 = t2
  Sources = {s1, s2, s3}
  Contents <- Prices
  TriageClasses = {"pricing_change", "feature_launch"}
  SnapshotOrder = "insertion"
  Ticks = {t1}
  Blocked = {s2}
  Period <- EveryOtherButS3
  PauseAfter = 2
  Costs = {1}
  MaxCost = 1
  Estimate = 1
  Cap = 9
  Faults = {}
  MaxClock = 7
INVARIANTS
  FlapsNeverAlert
  EveryAttemptIsCovered
  SpendIsMetered
  OneObservationPerFire
PROPERTIES
  TicksDrainTheFirewall
CHECK_DEADLOCK FALSE
