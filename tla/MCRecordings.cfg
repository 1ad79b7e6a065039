SPECIFICATION FairRecordingSpec
CONSTANTS
  Runs = {r1, r2}
  MaxRetry = 3
INVARIANT RecordingTypeOK
INVARIANT KeptUnlessSlipped
PROPERTY MirrorSettles
\* A recording that is lost or removed leaves nothing to do.
CHECK_DEADLOCK FALSE
