SPECIFICATION Spec
CONSTANTS
  Threads = {t1, t2}
  Schemas = {"public", "space"}
  Asked = {"space", "legacy"}
  User = User
  Bot = Bot
  Console = Console
  Budget = 3
SYMMETRY Symmetry
INVARIANT TypeOK
 
INVARIANT ValidTokenAdmitted
INVARIANT ConsoleIntact
INVARIANT ContextKept
INVARIANT OneSpace
\* The budget of requests runs out.
CHECK_DEADLOCK FALSE
