SPECIFICATION FairSpec
CONSTANTS
  Clients = {c1, c2}
  Savers = {p1, p2}
  Retries = 2
  Budget <- Limits
INVARIANT TypeOK
INVARIANT WaitTellsTheTruth
INVARIANT ReportAgrees
INVARIANT NoSilentFailure
PROPERTY EveryCallEnds
\* The budgets of calls and saves run out.
CHECK_DEADLOCK FALSE
