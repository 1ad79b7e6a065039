CONSTANTS
  Users = {u0, u1, u2}
  Creator = u0
  Workers = {w1, w2}
  Nobody = nobody
  MemberLimit = 2
SPECIFICATION Spec
CONSTRAINT Bound
SYMMETRY Symmetry
INVARIANTS TypeOK CountMatchesUnlessRaced OneOwnerUnlessContested
\* An archived group with its creator alone has nothing left to do.
CHECK_DEADLOCK FALSE
