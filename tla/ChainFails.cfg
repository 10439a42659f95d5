SPECIFICATION FairSpec
CONSTANTS
  Ids <- GroupIds
  Stages <- GroupStages
  SuccessHook = "hook"
  FailureHook = TRUE
  Workers = {w1, w2}
  Clients = {c1, c2}
  Templates = {TRUE, FALSE}
  FailureKinds = {"error", "timeout"}
  Budget <- BrokerAndPauses
  None = None
INVARIANT ChainOrder
PROPERTY FailureSticks
PROPERTY ChainEnds
\* A finished workflow leaves the system with nothing to do.
CHECK_DEADLOCK FALSE
