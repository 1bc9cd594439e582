SPECIFICATION Spec
CONSTANTS
  d1 = d1
  d2 = d2
  d3 = d3
  c1 = c1
  c2 = c2
  e1 = e1
  w1 = w1
  w2 = w2
  Deltas = {d1, d2}
  Channels = {c1, c2}
  Pricing = {d1}
  Uncited = {}
  Email = {}
  Dead = {c2}
  Sweeps = {w1}
  MaxSends = 3
  Faults = {"store", "refused", "timeout", "crash"}
  MaxFaults = 2
INVARIANTS
  TypeOK
  DuplicatesHaveAReason
  FailedAreRetriedNext
PROPERTIES
  ImplementsOutbox
  EveryDestinationIsServed
