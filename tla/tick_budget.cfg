SPECIFICATION Spec
CONSTANTS
  s1 = s1
  s2 = s2
  s3 = s3
  t1 = t1
  t2 = t2
  Sources = {s1}
  Contents <- TwoPrices
  TriageClasses = {"noise"}
  SnapshotOrder = "fetched_at"
  Ticks = {t1, t2}
  Blocked = {}
  Period <- EveryInstant
  PauseAfter = 2
  Costs = {1, 2}
  MaxCost = 2
  Estimate = 1
  Cap = 2
  Faults = {"crash", "classify"}
  MaxClock = 4
INVARIANTS
  OvershootIsOneCallPerTick
  SpendIsReserved
SYMMETRY TickSymmetry
CHECK_DEADLOCK FALSE
