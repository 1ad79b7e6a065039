CONSTANTS
  Postings = {j1}
  Workers = {w1, w2}
  NoPosting = NoPosting
  Contents = {plain, foul}
  Passing = {plain}
  ActiveLimit = 1
  MaxRevisions = 1
SPECIFICATION Spec
SYMMETRY Symmetry
INVARIANTS TypeOK DecidedOnce RevisionsNearLimit AutoApprovedPassesUnlessRaced
PROPERTIES FilledFinalUnlessRaced ImplementsReviewGate
\* A closed posting has nothing left to do.
CHECK_DEADLOCK FALSE
