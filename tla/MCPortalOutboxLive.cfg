CONSTANTS
  Views = {v1, v2}
  Pollers = {p1, p2}
  Senders = {}
  NoView = NoView
  BatchSize = 1
  MaxRetries = 2
SPECIFICATION FairSpec
PROPERTIES PendingRowsSettle
\* Every row may end processed or failed, with nothing left to do.
CHECK_DEADLOCK FALSE
