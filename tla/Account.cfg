SPECIFICATION FairSpec
CONSTANTS
  v = v
  w = w
  p = p
  q = q
  marie = marie
  paul = paul
  Marie = Marie
  Hosts = {"native", "edge"}
  Browser = {v, w}
  Password = {p, q}
  Email = {marie, paul}
  Typed = {Marie, paul}
  Normal <- Means
  Tries <- Types
  Own <- Wants
  MaxAddresses = 2
INVARIANTS TypeOK SessionsAreEarned OrdersFromOwnBook OneDefault
PROPERTIES NobodyElsesBook EveryVisitorGetsIn
CHECK_DEADLOCK FALSE
