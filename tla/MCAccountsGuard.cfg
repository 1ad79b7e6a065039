SPECIFICATION FairSpec
CONSTANTS
  Workers = {w1, w2}
  Requests = {"verify", "decide", "suspend", "lift", "visit"}
  MaxSuspensions = 1
INVARIANT CacheFollowsDiscipline
PROPERTY ExpiredIsLifted
\* The suspensions are bounded, and a banned account may have nothing left to do.
CHECK_DEADLOCK FALSE
