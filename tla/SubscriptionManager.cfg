SPECIFICATION Spec
CONSTANTS
  Holder = {h1, h2, h3}
  Key = {k1, k2}
  MaxFaults = 2
SYMMETRY Symmetry
INVARIANTS
  NeverOvercounts
  ExactUnlessOverlap
  NoStaleField
