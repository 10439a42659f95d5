SPECIFICATION Spec
CONSTANTS
  Schemas = {"a", "b"}
  Names = {"daily"}
  Threads = {t1, t2}
  RunIds = {r1, r2}
  Existing <- OneSchedule
  Budget <- Limits
  None = None
SYMMETRY Symmetry
INVARIANT TypeOK
INVARIANT OncePerPeriod
INVARIANT NoOverlap
INVARIANT PollSuffices
\* The budgets of requests, periods and faults run out.
CHECK_DEADLOCK FALSE
