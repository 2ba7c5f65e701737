SPECIFICATION Spec
CONSTANTS
  S = S
  M = M
  shirt = shirt
  Item = {S, M}
  Sku = {shirt}
  SkuOf <- Shirts
  InitialStock <- Stocked
  Call = {c, d}
  MaxSales = 1
SYMMETRY AnyIds
INVARIANTS TypeOK NumberIsTheLine
