SPECIFICATION Spec
CONSTANTS
  Client = {g1, g2}
  Key = {k1, k2, k3}
  maxItems = 2
  MaxGhosts = 2
INVARIANTS
  EveryItemOrdered
  GrowthBound
PROPERTIES
  EvictsLeastRecent
