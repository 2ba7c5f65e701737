SPECIFICATION Spec
CONSTANTS
  mug = mug
  small = small
  large = large
  c = c
  d = d
  Item <- TwoSizes
  Sku <- MugOnly
  SkuOf <- MugOf
  Desk = {c, d}
  InitialShelf <- FirstCount
  Bought <- OneOrder
  MaxRequests = 2
  MaxFaults = 0
PROPERTIES CancelledInWorkshopForGood
CHECK_DEADLOCK FALSE
