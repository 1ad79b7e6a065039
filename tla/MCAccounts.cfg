SPECIFICATION Spec
CONSTANTS
  Workers = {w1, w2}
  Requests = {"verify", "decide", "undo", "suspend", "ban", "lift", "delete", "cancel"}
  MaxSuspensions = 2
CONSTRAINT Bound
SYMMETRY Symmetry
INVARIANT TypeInv
INVARIANT SuspensionIsRecorded
INVARIANT EndsHold
\* The suspensions are bounded, and a banned account may have nothing left to do.
CHECK_DEADLOCK FALSE
