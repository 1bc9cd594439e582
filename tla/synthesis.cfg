SPECIFICATION Spec
CONSTANTS
  c1 = c1
  c2 = c2
  d1 = d1
  d2 = d2
  d3 = d3
  n1 = n1
  n2 = n2
  Competitors = {c1, c2}
  Deltas = {d1, d2, d3}
  Owner <- MCOwner
  Class <- MCClass
  Uncited = {d3}
  Corrupt = {d2}
  Nights = {n1, n2}
  Costs = {1, 2}
  MaxCost = 2
  Estimate = 1
  Cap = 3
  Faults = {"throw", "crash"}
  MaxNights = 2
  MaxTicks = 1
INVARIANTS
  TypeOK
  ChainsAreLinear
  OvershootIsOneRunPerNight
  RunsAreReserved
  PublishedIsMetered
PROPERTIES
  ImplementsHistory
SYMMETRY NightSymmetry
CHECK_DEADLOCK FALSE
