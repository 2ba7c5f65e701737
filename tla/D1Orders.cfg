SPECIFICATION FairSpec
CONSTANTS
  mug = mug
  small = small
  large = large
  c = c
  d = d
  k = k
  l = l
  Item <- TwoSizes
  Sku <- MugOnly
  SkuOf <- MugOf
  Desk = {c}
  Tick = {k, l}
  InitialShelf <- FirstCount
  Bought <- OneOrder
  MaxRequests = 1
  MaxFaults = 1
INVARIANTS TypeOK ShelfAuditsToTracking
PROPERTIES Climbs EveryParcelSettles
CHECK_DEADLOCK FALSE
