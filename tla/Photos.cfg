SPECIFICATION FairSpec
CONSTANTS
  w400 = w400
  w1600 = w1600
  WIDTHS <- Widths
  Largest = w1600
  Baked <- BakedWidths
  Upload = {u1, u2}
  Reader = {r1}
  Dropped = dropped
  MaxRestarts = 1
INVARIANTS TypeOK WholePhotos FreshUrls
PROPERTIES Settles
CHECK_DEADLOCK FALSE
