SPECIFICATION FairSpec
CONSTANTS
  Nodes <- DeepNodes
  TemplateOf <- DeepTemplates
  Connections <- DeepConnections
  Condition = {}
  Nested <- DeepIn
  RootTemplate = "T"
  Wfs = {r, c, d}
  Root = r
  TaskIds = {1, 2, 3, 4, 5}
  Workers = {w1}
  Clients = {}
  FailureKinds = {"error", "timeout"}
  Budget <- NoFaults
  Launch = Launch
  None = None
INVARIANT NestedOutcome
PROPERTY EveryWorkflowEnds
\* A finished workflow leaves the system with nothing to do.
CHECK_DEADLOCK FALSE
