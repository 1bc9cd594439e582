SPECIFICATION Spec
CONSTANTS
  d1 = d1
  d2 = d2
  d3 = d3
  c1 = c1
  c2 = c2
  e1 = e1
  w1 = w1
  w2 = w2
  Deltas = {d1, d3}
  Channels = {c1, e1}
  Pricing = {d1}
  Uncited = {d3}
  Email = {e1}
  Dead = {}
  Sweeps = {w1, w2}
  MaxSends = 1
  Faults = {"store", "refused", "timeout", "crash"}
  MaxFaults = 2
INVARIANTS
  OverlapIsBounded
PROPERTIES
  DeliveredIsFinal
SYMMETRY SweepSymmetry
