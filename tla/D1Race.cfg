SPECIFICATION FairSpec
CONSTANTS
  mug = mug
  small = small
  large = large
  v = v
  w = w
  Item <- TwoSizes
  Sku <- MugOnly
  SkuOf <- MugOf
  SizeOrder <- SmallFirst
  Browser = {v, w}
  Tab = {v, w}
  BrowserOf <- OwnTab
  Quantities = {0, 1, 2}
  FormKeys = {"standard"}
  Counts <- Recounts
  PriceTags = {2600}
  InitialShelf <- Mixed
  InitialPrice <- Prices
  InitialCart <- Rivals
  MaxCarts = 3
  MaxChanges = 1
  MaxEdits = 1
  MaxFaults = 1
  MaxActs = 1
INVARIANTS TypeOK OrderAddsUp UnitsAccounted
PROPERTIES Sells EveryRaceIsWon
CHECK_DEADLOCK FALSE
