CONSTANTS
  Users = {ada, obi, uche}
  Workers = {w1, w2}
  Limits = {1}
  NoLimit = NoLimit
  Nobody = Nobody
  MaxTime = 4
SPECIFICATION Spec
SYMMETRY Symmetry
INVARIANTS TypeOK PromotionNotWasted SeatsBackedByCount
PROPERTIES SeatsWithinLimit PromotionIsFifo
\* RSVPs are bounded by MaxTime and a cancelled event stays cancelled.
CHECK_DEADLOCK FALSE
