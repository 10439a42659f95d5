SPECIFICATION Spec
CONSTANTS
  Flows = {f1, f2}
  Uploaded = {f1}
  ModuleOf <- Mods
  WebThreads = {t1, t2}
  Workers = {w}
  Encrypted = TRUE
  Budget <- Limits
  Web = Web
  None = None
SYMMETRY Symmetry
INVARIANT TypeOK
INVARIANT NotFoundIsReal
INVARIANT FreshCode
INVARIANT RightFunction
INVARIANT RefreshTakesEffect
INVARIANT FileFollowsRow
PROPERTY KnownStaysKnown
\* The budgets of operations and faults run out.
CHECK_DEADLOCK FALSE
