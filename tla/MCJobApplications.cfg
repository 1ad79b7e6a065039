CONSTANTS
  Seekers = {ada}
  Workers = {w1, w2}
  NoSeeker = NoSeeker
  Keys = {k1}
  NoKey = NoKey
  MaxTrail = 6
SPECIFICATION Spec
SYMMETRY Symmetry
INVARIANTS TypeOK TrailEndsAtStatus NoStageSkipped TrailIsChain
PROPERTIES TerminalFinalUnlessRaced
\* The trail is bounded, and a terminal application has nothing left to do.
CHECK_DEADLOCK FALSE
