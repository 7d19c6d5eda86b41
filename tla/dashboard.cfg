SPECIFICATION FairSpec
CONSTANTS
  Requests = {r1, r2}
  Watched = r1
  ChanCap = 2
  MaxPush = 3
INVARIANTS TypeOK NoTornRead NoGap
PROPERTIES BackOnce PushReturns GoneUnregistered Converges
