SPECIFICATION Spec
CONSTANTS
  mug = mug
  small = small
  large = large
  v = v
  w = w
  Item <- TwoSizes
  Sku <- MugOnly
  SkuOf <- MugOf
  SizeOrder <- SmallFirst
  Browser = {v, w}
  Tab = {v, w}
  BrowserOf <- OwnTab
  Quantities = {1, 2}
  FormKeys = {"standard"}
  Counts <- None
  PriceTags <- None
  InitialShelf <- Mixed
  InitialPrice <- Prices
  InitialCart <- Rivals
  MaxCarts = 3
  MaxChanges = 0
  MaxEdits = 0
  MaxFaults = 0
  MaxActs = 1
INVARIANTS NoUnitLost
CHECK_DEADLOCK FALSE
