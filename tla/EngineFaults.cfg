SPECIFICATION Spec
CONSTANTS
  Nodes <- MixedNodes
  TemplateOf <- MixedTemplates
  Connections <- MixedConnections
  Condition = {}
  Nested <- MixedIn
  RootTemplate = "T"
  Wfs = {r, c}
  Root = r
  TaskIds = {1, 2, 3, 4}
  Workers = {w1, w2}
  Clients = {c1}
  FailureKinds = {"error"}
  Budget <- CancelAndCrash
  Launch = Launch
  None = None
SYMMETRY Symmetry
INVARIANT DependencyOrder
PROPERTY KeepsOrder
\* A finished workflow leaves the system with nothing to do.
CHECK_DEADLOCK FALSE
