SPECIFICATION FairSpec
CONSTANTS
  Request = {r1, r2}
  MaxFrames = 2
INVARIANTS TypeOK NothingForTheGone
PROPERTIES EveryPullIsAnswered
CHECK_DEADLOCK FALSE
