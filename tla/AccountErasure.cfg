SPECIFICATION Spec
CONSTANTS
  Uploads = {k1, k2}
  Parses = {p1}
  Erasures = {e1, e2}
  MaxFailures = 1
  MaxCrashes = 1
INVARIANTS
  StoredBlobIsListed
  ListedCvIsStored
  ErasureErrsWithCause
  ErasedIsGone
CHECK_DEADLOCK FALSE
