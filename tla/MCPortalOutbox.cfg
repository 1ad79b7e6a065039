CONSTANTS
  Views = {v1, v2}
  Pollers = {p1, p2}
  Senders = {email}
  NoView = NoView
  BatchSize = 2
  MaxRetries = 2
SPECIFICATION Spec
SYMMETRY Symmetry
INVARIANTS TypeOK ClaimExclusive SendsBounded RepeatsExcused NothingElseLost
PROPERTIES ImplementsViewSignal
\* Every row may end processed or failed, with nothing left to do.
CHECK_DEADLOCK FALSE
