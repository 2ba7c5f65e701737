SPECIFICATION FairSpec
CONSTANTS
  mug = mug
  small = small
  large = large
  c = c
  d = d
  Item <- TwoSizes
  Sku <- MugOnly
  SkuOf <- MugOf
  Desk = {c, d}
  InitialShelf <- FirstCount
  Bought <- TwoOrders
  MaxRequests = 3
  MaxFaults = 1
INVARIANTS TypeOK ShelfAuditsToTracking
PROPERTIES Climbs EveryParcelSettles
CHECK_DEADLOCK FALSE
