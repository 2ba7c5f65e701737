SPECIFICATION FairSpec
CONSTANTS
  mug = mug
  small = small
  large = large
  v = v
  w = w
  Item <- TwoSizes
  Sku <- MugOnly
  SkuOf <- MugOf
  Browser = {v, w}
  Tab = {v, w}
  BrowserOf <- OwnTab
  Quantities = {0, 2}
  FormKeys = {"standard", "express"}
  Counts <- Recounts
  PriceTags <- NewPrices
  InitialShelf <- Mixed
  InitialPrice <- Prices
  InitialCart <- Rivals
  MaxCarts = 4
  MaxChanges = 1
  MaxEdits = 2
  MaxFaults = 1
INVARIANTS TypeOK TotalIsSum OrderAddsUp
PROPERTIES Sells EveryVisitorServed
CHECK_DEADLOCK FALSE
