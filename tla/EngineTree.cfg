SPECIFICATION FairSpec
CONSTANTS
  Nodes <- TreeNodes
  TemplateOf <- TreeTemplates
  Connections <- TreeConnections
  Condition <- TreeCondition
  Nested <- NoNested
  RootTemplate = "T"
  Wfs = {r}
  Root = r
  TaskIds = {1, 2, 3, 4, 5, 6, 7}
  Workers = {w1, w2}
  Clients = {}
  FailureKinds = {"error", "timeout"}
  Budget <- NoFaults
  Launch = Launch
  None = None
INVARIANT NoLostNode
INVARIANT OneBranchTaken
PROPERTY EveryWorkflowEnds
\* A finished workflow leaves the system with nothing to do.
CHECK_DEADLOCK FALSE
