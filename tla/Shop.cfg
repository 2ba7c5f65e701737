SPECIFICATION FairShop
CONSTANTS
  mug = mug
  tote = tote
  small = small
  large = large
  bag = bag
  v = v
  front = front
  Item <- Things
  Sku <- Products
  SkuOf <- ProductOf
  OneSize <- NoSizeOf
  FirstProducts <- MugsOnly
  Browser = {v}
  Tab = {v}
  BrowserOf <- OwnTab
  Quantities = {1}
  FormKeys = {"standard"}
  Counts = {1}
  PriceTags = {2600}
  InitialShelf <- Mugs
  InitialPrice <- FirstPrices
  InitialCart <- ThreeMugs
  Desk = {front}
  MaxCarts = 2
  MaxChanges = 1
  MaxEdits = 2
  MaxFaults = 1
  MaxRequests = 2
  MaxActs = 3
INVARIANTS ShopTypeOK ShelfBalances TotalExplained PageAgrees
PROPERTIES SellsAndTakesBack ShopClimbs EverySaleSettles
CHECK_DEADLOCK FALSE
