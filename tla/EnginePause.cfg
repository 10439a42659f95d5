SPECIFICATION Spec
CONSTANTS
  Nodes <- ForkNodes
  TemplateOf <- ForkTemplates
  Connections <- ForkConnections
  Condition <- ForkCondition
  Nested <- ForkIn
  RootTemplate = "T"
  Wfs = {r, c}
  Root = r
  TaskIds = {1, 2, 3, 4, 5, 6, 7}
  Workers = {w1, w2}
  Clients = {c1, c2}
  FailureKinds = {}
  Budget <- PauseAndKill
  Launch = Launch
  None = None
SYMMETRY Symmetry
INVARIANT TypeOK
INVARIANT NodeRunsOnce
PROPERTY KeepsNesting
\* A finished workflow leaves the system with nothing to do.
CHECK_DEADLOCK FALSE
