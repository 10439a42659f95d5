SPECIFICATION Spec
CONSTANTS
  Nodes <- JoinNodes
  TemplateOf <- JoinTemplates
  Connections <- JoinConnections
  Condition = {}
  Nested <- NoNested
  RootTemplate = "T"
  Wfs = {r}
  Root = r
  TaskIds = {1, 2, 3, 4, 5}
  Workers = {w1, w2}
  Clients = {}
  FailureKinds = {}
  Budget <- NoFaults
  Launch = Launch
  None = None
SYMMETRY Symmetry
INVARIANT NoLostNode
\* A finished workflow leaves the system with nothing to do.
CHECK_DEADLOCK FALSE
