CONSTANTS
  Users = {u0, u1}
  Creator = u0
  Workers = {w1, w2}
  Channels = {general, c1}
  General = general
  Nobody = nobody
SPECIFICATION Spec
SYMMETRY Symmetry
INVARIANTS TypeOK EnrolmentComplete ArchiveFreezesAll
