SPECIFICATION Spec
CONSTANTS
  Ids <- ShortIds
  Stages <- ShortStages
  SuccessHook = None
  FailureHook = FALSE
  Workers = {w1, w2}
  Clients = {c1}
  Templates = {FALSE}
  FailureKinds = {}
  Budget <- CancelAndCrash
  None = None
SYMMETRY Symmetry
INVARIANT TypeOK
INVARIANT ChainOrder
INVARIANT SuccessMeansDone
\* A finished workflow leaves the system with nothing to do.
CHECK_DEADLOCK FALSE
