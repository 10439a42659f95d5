SPECIFICATION FairSpec
CONSTANTS
  Nodes <- NestedNodes
  TemplateOf <- NestedTemplates
  Connections <- NestedConnections
  Condition = {}
  Nested <- NestedIn
  RootTemplate = "T"
  Wfs = {r, c}
  Root = r
  TaskIds = {1, 2, 3}
  Workers = {w1, w2}
  Clients = {}
  FailureKinds = {}
  Budget <- NoFaults
  Launch = Launch
  None = None
PROPERTY EveryWorkflowEnds
\* A finished workflow leaves the system with nothing to do.
CHECK_DEADLOCK FALSE
