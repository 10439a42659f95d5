------------------------ MODULE TenantRequestsProofs ------------------------
(* Theorems about TenantRequests for all sets of threads and schemas, all  *)
(* space codes that requests may name, and any number of requests.         *)
EXTENDS TenantRequests, TLAPS

\* A step of thread t leaves the requests of the other threads alone.
OthersKept(t) == \A u \in Threads \ {t} : reqs'[u] = reqs[u]

\* Replacing the request of a thread.
LEMMA ReplaceStep ==
  ASSUME TypeOK, NEW t \in Threads, NEW r \in Request, reqs' = [reqs EXCEPT ![t] = r]
  PROVE  reqs' \in [Threads -> Request] /\ reqs'[t] = r /\ OthersKept(t)
BY DEF TypeOK, OthersKept

LEMMA GotoStep ==
  ASSUME TypeOK, NEW t \in Threads, NEW pc \in Pcs, Goto(t, pc)
  PROVE  /\ reqs' \in [Threads -> Request]
         /\ reqs'[t] = [reqs[t] EXCEPT !.pc = pc]
         /\ OthersKept(t)
BY DEF TypeOK, Request, Goto, OthersKept

LEMMA IdleType == Idle \in Request
BY TenantRequestsAssumption DEF Idle, Request, Pcs, Accessing

\* Starting a request, a task or a command.
LEMMA BeginStep ==
  ASSUME TypeOK, NEW t \in Threads, Begin(t)
  PROVE  TypeOK' /\ OthersKept(t)
<1> USE TenantRequestsAssumption, IdleType
<1>1. ASSUME NEW space \in Asked, BeginTask(t, space)
      PROVE  TypeOK' /\ OthersKept(t)
  <2>1. [Idle EXCEPT !.pc = "view", !.kind = "task", !.space = space] \in Request
    BY DEF Request, Pcs, Accessing
  <2>2. [Idle EXCEPT !.pc = "respond", !.kind = "task", !.space = space] \in Request
    BY DEF Request, Pcs, Accessing
  <2>3. conn' \in [Threads -> Schemas] /\ budget' \in 0..Budget
    BY <1>1 DEF BeginTask, TypeOK
  <2>4. reqs' \in [Threads -> Request] /\ OthersKept(t)
    BY <1>1, <2>1, <2>2, ReplaceStep DEF BeginTask
  <2> QED
    BY <1>1, <2>3, <2>4 DEF BeginTask, TypeOK, rows, consoles, memory
<1>2. ASSUME NEW space \in Asked, NEW kind \in {"migrate", "data", "refresh", "code", "file"},
             NEW scheme \in {"none", "jwt", "keycloak", "options"}, NEW valid \in BOOLEAN,
             BeginRequest(t, space, kind, scheme, valid)
      PROVE  TypeOK' /\ OthersKept(t)
  <2>1. [Idle EXCEPT !.pc = IF kind = "migrate" THEN "space" ELSE "auth",
                !.kind = kind, !.space = space, !.scheme = scheme, !.valid = valid] \in Request
    <3> DEFINE pc == IF kind = "migrate" THEN "space" ELSE "auth"
    <3>1. pc \in Pcs
      BY DEF Pcs, Accessing
    <3> HIDE DEF pc
    <3>2. [Idle EXCEPT !.pc = pc, !.kind = kind, !.space = space, !.scheme = scheme,
                !.valid = valid] \in Request
      BY <3>1 DEF Request
    <3> QED
      BY <3>2 DEF pc
  <2>2. conn' \in [Threads -> Schemas] /\ budget' \in 0..Budget
    BY <1>2 DEF BeginRequest, RealmAndSpaceMiddleware, Tenant, TypeOK
  <2>3. reqs' \in [Threads -> Request] /\ OthersKept(t)
    BY <1>2, <2>1, ReplaceStep DEF BeginRequest
  <2> QED
    BY <1>2, <2>2, <2>3 DEF BeginRequest, TypeOK, rows, consoles, memory
<1>3. ASSUME NEW kind \in {"command", "sweep"}, BeginCommand(t, kind)
      PROVE  TypeOK' /\ OthersKept(t)
  <2>1. [Idle EXCEPT !.pc = "next", !.kind = kind, !.todo = Schemas] \in Request
    BY DEF Request, Pcs
  <2>2. reqs' \in [Threads -> Request] /\ OthersKept(t)
    BY <1>3, <2>1, ReplaceStep DEF BeginCommand
  <2> QED
    BY <1>3, <2>2 DEF BeginCommand, TypeOK, rows, consoles, memory
<1>4. CASE BeginExport(t)
  <2>1. [Idle EXCEPT !.pc = "view", !.kind = "export"] \in Request
    BY DEF Request, Pcs, Accessing
  <2>2. reqs' \in [Threads -> Request] /\ OthersKept(t)
    BY <1>4, <2>1, ReplaceStep DEF BeginExport
  <2> QED
    BY <1>4, <2>2 DEF BeginExport, TypeOK, rows, consoles, memory
<1> QED
  BY <1>1, <1>2, <1>3, <1>4 DEF Begin

\* Admission, a view and the record of an error change nothing but users and the
\* thread's program counter.
LEMMA AuthenticateStep ==
  ASSUME TypeOK, NEW t \in Threads, Authenticate(t)
  PROVE  TypeOK' /\ OthersKept(t)
<1>1. \E pc \in Pcs : Goto(t, pc)
  BY DEF Authenticate, AuthenticateBot, AuthenticateJWT, AuthenticateKeycloak, CreateUser,
         LookAgain, Admitted, Pcs, Accessing
<1>2. reqs' \in [Threads -> Request] /\ OthersKept(t)
  BY <1>1, GotoStep
<1>3. users' \in [Schemas -> SUBSET {User, Bot}]
  BY DEF TypeOK, Authenticate, AuthenticateBot, AuthenticateJWT, AuthenticateKeycloak,
         CreateUser, LookAgain, Here, rows
<1> QED
  BY <1>2, <1>3 DEF TypeOK, Authenticate, AuthenticateBot, AuthenticateJWT,
         AuthenticateKeycloak, CreateUser, LookAgain, rows, consoles, memory

LEMMA ViewStep ==
  ASSUME TypeOK, NEW t \in Threads, View(t)
  PROVE  TypeOK' /\ OthersKept(t)
<1>1. \E pc \in Pcs : Goto(t, pc)
  BY DEF View, ViewReturns, ViewRaises, RecordError, Pcs, Accessing
<1>2. reqs' \in [Threads -> Request] /\ OthersKept(t)
  BY <1>1, GotoStep
<1> QED
  BY <1>2 DEF TypeOK, View, ViewReturns, ViewRaises, RecordError, rows, consoles, memory

\* A lookup or a refresh moves the thread's own path, to an existing schema.
LEMMA MovePathStep ==
  ASSUME TypeOK, NEW t \in Threads, MovePath(t)
  PROVE  TypeOK' /\ OthersKept(t)
<1>1. ASSUME NEW code \in Schemas, reqs' = [reqs EXCEPT ![t].named = code]
      PROVE  reqs' \in [Threads -> Request] /\ OthersKept(t)
  <2> DEFINE r == [reqs[t] EXCEPT !.named = code]
  <2>1. reqs[t] \in Request
    BY DEF TypeOK
  <2>2. r \in Request
    BY <2>1 DEF Request
  <2>3. reqs' = [reqs EXCEPT ![t] = r]
    BY <1>1
  <2> QED
    BY <2>2, <2>3, ReplaceStep
<1>2. ASSUME NEW code \in Asked \union Schemas, GetByUserCode(t, code) PROVE TypeOK' /\ OthersKept(t)
  <2>1. reqs' \in [Threads -> Request] /\ OthersKept(t)
    BY <1>1, <1>2, GotoStep DEF GetByUserCode, Pcs, Accessing
  <2>2. conn' \in [Threads -> Schemas]
    BY <1>2 DEF GetByUserCode, TypeOK
  <2> QED
    BY <1>2, <2>1, <2>2 DEF GetByUserCode, TypeOK, rows, consoles, memory
<1>3. CASE SyncStorage(t)
  <2>1. reqs' \in [Threads -> Request] /\ OthersKept(t)
    BY <1>3, GotoStep DEF SyncStorage, Pcs, Accessing
  <2>2. conn' \in [Threads -> Schemas]
    BY <1>3, TenantRequestsAssumption DEF SyncStorage, TypeOK
  <2> QED
    BY <1>3, <2>1, <2>2 DEF SyncStorage, TypeOK, rows, consoles, memory
<1>4. CASE RegisterWorkflows(t)
  <2>1. reqs' \in [Threads -> Request] /\ OthersKept(t)
    BY <1>4, GotoStep DEF RegisterWorkflows, Pcs, Accessing
  <2>2. conn' \in [Threads -> Schemas]
    BY <1>4 DEF RegisterWorkflows, TypeOK
  <2> QED
    BY <1>4, <2>1, <2>2 DEF RegisterWorkflows, TypeOK, rows, consoles, memory
<1>5. CASE LoadWorkflowsForSchema(t)
  <2>1. reqs' \in [Threads -> Request] /\ OthersKept(t)
    BY <1>5, GotoStep DEF LoadWorkflowsForSchema, Pcs, Accessing
  <2> QED
    BY <1>5, <2>1 DEF LoadWorkflowsForSchema, TypeOK, rows, consoles, memory
<1> QED
  BY <1>2, <1>3, <1>4, <1>5 DEF MovePath

LEMMA EndRequestStep ==
  ASSUME TypeOK, NEW t \in Threads, EndRequest(t)
  PROVE  TypeOK' /\ OthersKept(t)
<1>1. reqs' \in [Threads -> Request] /\ OthersKept(t)
  BY IdleType, ReplaceStep DEF EndRequest
<1> QED
  BY <1>1, TenantRequestsAssumption DEF TypeOK, EndRequest, rows, consoles, memory

LEMMA MigrateStep ==
  ASSUME TypeOK, NEW t \in Threads, Migrate(t)
  PROVE  TypeOK' /\ OthersKept(t)
<1>1. CASE NextSchema(t)
  <2>1. PICK a \in reqs[t].todo :
          /\ conn' = [conn EXCEPT ![t] = a]
          /\ reqs' = [reqs EXCEPT ![t] = [reqs[t] EXCEPT !.todo = @ \ {a}, !.space = a,
                        !.pc = IF reqs[t].kind = "command" THEN "space" ELSE "sweep"]]
    BY <1>1 DEF NextSchema
  <2>2. a \in Schemas
    BY DEF TypeOK, Request
  <2>3. reqs' \in [Threads -> Request] /\ OthersKept(t)
    <3> DEFINE pc == IF reqs[t].kind = "command" THEN "space" ELSE "sweep"
               r == [reqs[t] EXCEPT !.todo = @ \ {a}, !.space = a, !.pc = pc]
    <3>1. pc \in Pcs
      BY DEF Pcs, Accessing
    <3>2. r \in Request
      <4>1. reqs[t] \in Request
        BY DEF TypeOK
      <4> QED
        BY <2>2, <3>1, <4>1 DEF Request
    <3>3. reqs' = [reqs EXCEPT ![t] = r]
      BY <2>1
    <3> QED
      BY <3>2, <3>3, ReplaceStep
  <2> QED
    BY <1>1, <2>1, <2>2, <2>3 DEF NextSchema, TypeOK, rows, consoles, memory
<1>2. CASE ~NextSchema(t)
  <2>1. \E pc \in Pcs : Goto(t, pc)
    BY <1>2 DEF Migrate, CreateSpaceIfNotExist, MigrateFails, CreateSpace, CreateFinmarsBot,
                Sweep, EndCommand, Pcs, Accessing
  <2>2. reqs' \in [Threads -> Request] /\ OthersKept(t)
    BY <2>1, GotoStep
  <2>3. CASE CreateSpaceIfNotExist(t)
    BY <2>2, <2>3 DEF CreateSpaceIfNotExist, TypeOK, rows, consoles, memory
  <2>4. CASE MigrateFails(t) \/ Sweep(t) \/ EndCommand(t)
    BY <2>2, <2>4 DEF MigrateFails, Sweep, EndCommand, TypeOK, rows, consoles, memory
  <2>5. CASE CreateSpace(t)
    BY <2>2, <2>5 DEF CreateSpace, Here, TypeOK, consoles, memory
  <2>6. CASE CreateFinmarsBot(t)
    BY <2>2, <2>6 DEF CreateFinmarsBot, Here, TypeOK, consoles, memory
  <2> QED
    BY <1>2, <2>3, <2>4, <2>5, <2>6 DEF Migrate
<1> QED
  BY <1>1, <1>2

LEMMA ExecuteStep ==
  ASSUME TypeOK, NEW t \in Threads, Execute(t)
  PROVE  TypeOK' /\ OthersKept(t)
<1>1. CASE SwapStdout(t)
  <2>1. reqs' \in [Threads -> Request] /\ OthersKept(t)
    <3> DEFINE r == [reqs[t] EXCEPT !.pc = "execute", !.old = stdout, !.session = session]
    <3>1. r \in Request
      <4>1. reqs[t] \in Request /\ stdout \in Threads \union {Console} /\ session \in Nat
        BY DEF TypeOK
      <4> QED
        BY <4>1 DEF Request, Pcs
    <3>2. reqs' = [reqs EXCEPT ![t] = r]
      BY <1>1 DEF SwapStdout
    <3> QED
      BY <3>1, <3>2, ReplaceStep
  <2>2. buffer' \in [Threads -> SUBSET Threads] /\ overlapped' \subseteq Threads
    BY <1>1 DEF SwapStdout, OutputBuffer, TypeOK
  <2> QED
    BY <1>1, <2>1, <2>2 DEF SwapStdout, TypeOK, rows, memory
<1>2. CASE ~SwapStdout(t)
  <2>1. \E pc \in Pcs : Goto(t, pc)
    BY <1>2 DEF Execute, FindSession, CreateSession, FileMissing, ExecuteCode, RestoreStdout,
                RedirectEnds, Pcs
  <2>2. reqs' \in [Threads -> Request] /\ OthersKept(t)
    BY <2>1, GotoStep
  <2>3. CASE FindSession(t)
    BY <2>2, <2>3 DEF FindSession, TypeOK, rows, consoles, memory
  <2>4. CASE CreateSession(t)
    BY <2>2, <2>4 DEF CreateSession, TypeOK, rows, consoles, memory
  <2>5. CASE FileMissing(t)
    BY <2>2, <2>5 DEF FileMissing, TypeOK, rows, consoles, memory
  <2>6. CASE ExecuteCode(t)
    <3>1. buffer' \in [Threads -> SUBSET Threads] /\ kept' \in Nat
      BY <2>6 DEF ExecuteCode, TypeOK, Request
    <3> QED
      BY <2>2, <2>6, <3>1 DEF ExecuteCode, TypeOK, rows
  <2>7. CASE RestoreStdout(t)
    <3>1. stdout' \in Threads \union {Console}
      BY <2>7 DEF RestoreStdout, TypeOK, Request
    <3> QED
      BY <2>2, <2>7, <3>1 DEF RestoreStdout, TypeOK, rows, memory
  <2>8. CASE RedirectEnds(t)
    <3>1. stdout' \in Threads \union {Console} /\ buffer' \in [Threads -> SUBSET Threads]
      BY <2>8 DEF RedirectEnds, TypeOK, Request
    <3> QED
      BY <2>2, <2>8, <3>1 DEF RedirectEnds, TypeOK, rows, memory
  <2> QED
    BY <1>2, <2>3, <2>4, <2>5, <2>6, <2>7, <2>8 DEF Execute
<1> QED
  BY <1>1, <1>2

LEMMA InitType == Init => TypeOK
BY IdleType, TenantRequestsAssumption DEF Init, TypeOK

\* The state of the process always has its type: what every request, task or command
\* holds, whatever the interleaving of the threads.
THEOREM TypeCorrect == Spec => []TypeOK
<1>1. TypeOK /\ [Next]_vars => TypeOK'
  <2> SUFFICES ASSUME TypeOK, [Next]_vars PROVE TypeOK'
    OBVIOUS
  <2>1. CASE UNCHANGED vars
    BY <2>1 DEF vars, rows, consoles, memory, TypeOK
  <2>2. CASE Next
    BY <2>2, BeginStep, AuthenticateStep, ViewStep, MovePathStep, MigrateStep, ExecuteStep, EndRequestStep
       DEF Next
  <2> QED
    BY <2>1, <2>2
<1> QED
  BY <1>1, InitType, PTL DEF Spec

-----------------------------------------------------------------------------
(* Tenants: where a thread's connection points.                            *)

Step(t) == Begin(t) \/ Authenticate(t) \/ View(t) \/ MovePath(t) \/ Migrate(t) \/ Execute(t) \/ EndRequest(t)

\* A connection belongs to its thread, and no user is ever removed.
ConnectionsKept(t) ==
  /\ \A u \in Threads \ {t} : conn'[u] = conn[u]
  /\ \A a \in Schemas : users[a] \subseteq users'[a]

LEMMA ThreadStep ==
  ASSUME TypeOK, NEW t \in Threads, Step(t)
  PROVE  TypeOK' /\ OthersKept(t) /\ ConnectionsKept(t)
<1>1. TypeOK' /\ OthersKept(t)
  BY BeginStep, AuthenticateStep, ViewStep, MovePathStep, MigrateStep, ExecuteStep, EndRequestStep DEF Step
<1>2. Begin(t) => ConnectionsKept(t)
  BY DEF ConnectionsKept, Begin, BeginExport, BeginTask, BeginRequest, BeginCommand, RealmAndSpaceMiddleware, TypeOK, rows
<1>3. Authenticate(t) => ConnectionsKept(t)
  BY DEF ConnectionsKept, Authenticate, AuthenticateBot, AuthenticateJWT, AuthenticateKeycloak, CreateUser,
              LookAgain, Here, TypeOK, rows
<1>4. View(t) => ConnectionsKept(t)
  BY DEF ConnectionsKept, View, ViewReturns, ViewRaises, RecordError, rows
<1>5. Migrate(t) => ConnectionsKept(t)
  BY DEF ConnectionsKept, Migrate, CreateSpaceIfNotExist, MigrateFails, CreateSpace, CreateFinmarsBot,
              NextSchema, Sweep, EndCommand, Here, TypeOK, rows
<1>6. Execute(t) => ConnectionsKept(t)
  BY DEF ConnectionsKept, Execute, FindSession, CreateSession, FileMissing, SwapStdout, ExecuteCode,
              RestoreStdout, RedirectEnds, rows
<1>7. EndRequest(t) => ConnectionsKept(t)
  BY DEF ConnectionsKept, EndRequest, TypeOK, rows
<1>8. MovePath(t) => ConnectionsKept(t)
  BY DEF ConnectionsKept, MovePath, GetByUserCode, SyncStorage, RegisterWorkflows,
         LoadWorkflowsForSchema, TypeOK, rows
<1> QED
  BY <1>1, <1>2, <1>3, <1>4, <1>5, <1>6, <1>7, <1>8 DEF Step

\* What holds of one thread: it accesses the schema of its space or of a code it looked
\* up, has looked up nothing before it was admitted to a view, rests at public, is
\* turned away with a Keycloak token only if the token is bad, and looks a second time
\* only for a user who is there.
ThreadInv(t) ==
  /\ reqs[t].pc \in Accessing => conn[t] \in {Tenant(reqs[t].space), reqs[t].named}
  /\ reqs[t].pc \in {"idle", "register"} => conn[t] = "public"
  /\ reqs[t].pc = "rejected" /\ reqs[t].scheme = "keycloak" => ~reqs[t].valid
  /\ reqs[t].pc = "again" => User \in users[conn[t]]

AdmissionInv == \A t \in Threads : ThreadInv(t)

\* The steps that move a thread on within its request, on the connection it has.
LEMMA GotoInv ==
  ASSUME TypeOK, NEW t \in Threads, ThreadInv(t), NEW pc \in Pcs, Goto(t, pc), conn' = conn,
         pc \notin {"idle", "register"}, pc \in Accessing => reqs[t].pc \in Accessing,
         pc = "rejected" /\ reqs[t].scheme = "keycloak" => ~reqs[t].valid,
         pc = "again" => User \in users'[conn[t]]
  PROVE  ThreadInv(t)'
<1>1. reqs'[t] = [reqs[t] EXCEPT !.pc = pc] /\ reqs[t] \in Request
  BY GotoStep DEF TypeOK
<1>2. reqs'[t].pc = pc /\ reqs'[t].space = reqs[t].space /\ reqs'[t].scheme = reqs[t].scheme
      /\ reqs'[t].valid = reqs[t].valid /\ reqs'[t].named = reqs[t].named
  BY <1>1 DEF Request
<1> QED
  BY <1>2 DEF ThreadInv, Tenant

LEMMA AuthenticateInv ==
  ASSUME TypeOK, NEW t \in Threads, ThreadInv(t), Authenticate(t)
  PROVE  ThreadInv(t)'
<1>1. conn[t] \in Schemas
  BY DEF TypeOK
<1>2. CASE AuthenticateBot(t)
  <2>1. PICK pc \in {"view", "sync", "session", "error"} : Goto(t, pc)
    BY <1>2 DEF AuthenticateBot, Admitted
  <2> QED
    BY <1>2, <2>1, GotoInv DEF AuthenticateBot, Pcs, Accessing
<1>3. CASE AuthenticateJWT(t)
  <2>1. PICK pc \in {"view", "sync", "session", "rejected"} : Goto(t, pc)
    BY <1>3 DEF AuthenticateJWT, Admitted
  <2> QED
    BY <1>3, <2>1, GotoInv DEF AuthenticateJWT, Pcs, Accessing
<1>4. CASE AuthenticateKeycloak(t)
  <2>1. PICK pc \in {"view", "sync", "session", "rejected", "create"} :
          Goto(t, pc) /\ (pc = "rejected" => ~reqs[t].valid)
    BY <1>4 DEF AuthenticateKeycloak, Admitted
  <2> QED
    BY <1>4, <2>1, GotoInv DEF AuthenticateKeycloak, Pcs, Accessing
<1>5. CASE CreateUser(t)
  <2>1. PICK pc \in {"view", "sync", "session", "again"} : Goto(t, pc)
    BY <1>5 DEF CreateUser, Admitted
  <2>2. User \in users'[conn[t]]
    BY <1>1, <1>5 DEF CreateUser, Here, TypeOK
  <2> QED
    BY <1>5, <2>1, <2>2, GotoInv DEF CreateUser, Pcs, Accessing
<1>6. CASE LookAgain(t)
  <2>1. PICK pc \in {"view", "sync", "session"} : Goto(t, pc)
    BY <1>6 DEF LookAgain, Admitted, Here, ThreadInv
  <2> QED
    BY <1>6, <2>1, GotoInv DEF LookAgain, Pcs, Accessing
<1> QED
  BY <1>2, <1>3, <1>4, <1>5, <1>6 DEF Authenticate

LEMMA BeginInv ==
  ASSUME TypeOK, NEW t \in Threads, ThreadInv(t), Begin(t)
  PROVE  ThreadInv(t)'
<1>1. ASSUME NEW space \in Asked, BeginTask(t, space) PROVE ThreadInv(t)'
  <2>1. CASE space \in Schemas
    <3>1. conn'[t] = space
      BY <1>1, <2>1 DEF BeginTask, TypeOK
    <3>2. reqs'[t] = [Idle EXCEPT !.pc = "view", !.kind = "task", !.space = space]
      BY <1>1, <2>1 DEF BeginTask, TypeOK
    <3>3. reqs'[t].pc = "view" /\ reqs'[t].space = space
      BY <3>2 DEF Idle
    <3> QED
      BY <2>1, <3>1, <3>3 DEF ThreadInv, Tenant
  <2>2. CASE space \notin Schemas
    <3>1. reqs'[t] = [Idle EXCEPT !.pc = "respond", !.kind = "task", !.space = space]
      BY <1>1, <2>2 DEF BeginTask, TypeOK
    <3>2. reqs'[t].pc = "respond"
      BY <3>1 DEF Idle
    <3> QED
      BY <3>2 DEF ThreadInv, Accessing
  <2> QED
    BY <2>1, <2>2
<1>2. ASSUME NEW space \in Asked, NEW kind, NEW scheme, NEW valid,
             BeginRequest(t, space, kind, scheme, valid)
      PROVE  ThreadInv(t)'
  BY <1>2 DEF BeginRequest, RealmAndSpaceMiddleware, Idle, ThreadInv, Tenant, TypeOK, Accessing
<1>3. ASSUME NEW kind, BeginCommand(t, kind) PROVE ThreadInv(t)'
  BY <1>3 DEF BeginCommand, Idle, ThreadInv, TypeOK, Accessing
<1>4. CASE BeginExport(t)
  <2>1. conn' = conn /\ conn[t] = "public"
    BY <1>4 DEF BeginExport, ThreadInv
  <2>2. reqs'[t] = [Idle EXCEPT !.pc = "view", !.kind = "export"]
    BY <1>4 DEF BeginExport, TypeOK
  <2>3. reqs'[t].pc = "view" /\ reqs'[t].space = "public"
    BY <2>2 DEF Idle
  <2> QED
    BY <2>1, <2>3 DEF ThreadInv, Tenant
<1> QED
  BY <1>1, <1>2, <1>3, <1>4 DEF Begin

LEMMA ViewInv ==
  ASSUME TypeOK, NEW t \in Threads, ThreadInv(t), View(t)
  PROVE  ThreadInv(t)'
<1>1. PICK pc \in {"respond", "error"} : Goto(t, pc) /\ (pc = "error" => reqs[t].pc = "view")
  BY DEF View, ViewReturns, ViewRaises, RecordError
<1> QED
  BY <1>1, GotoInv DEF View, ViewReturns, ViewRaises, RecordError, Pcs, Accessing

\* The path moves to the schema of a code the request names, or comes back to its own.
LEMMA MovePathInv ==
  ASSUME TypeOK, NEW t \in Threads, ThreadInv(t), MovePath(t)
  PROVE  ThreadInv(t)'
<1>1. ASSUME NEW code \in Asked \union Schemas, GetByUserCode(t, code) PROVE ThreadInv(t)'
  <2>1. CASE code \in Schemas
    <3>1. reqs[t].pc = "view" /\ reqs[t].named \in {"none", code}
          /\ reqs' = [reqs EXCEPT ![t].named = code]
      BY <1>1, <2>1 DEF GetByUserCode
    <3>2. reqs'[t].pc = "view" /\ reqs'[t].named = code /\ reqs'[t].space = reqs[t].space
      BY <3>1 DEF TypeOK, Request
    <3>3. CASE code = "public"
      <4>1. conn' = conn
        BY <1>1, <2>1, <3>3 DEF GetByUserCode
      <4>2. conn[t] \in {Tenant(reqs[t].space), reqs[t].named} /\ conn[t] \in Schemas
        BY <3>1 DEF ThreadInv, Accessing, TypeOK
      <4> QED
        BY <3>1, <3>2, <3>3, <4>1, <4>2, TenantRequestsAssumption DEF ThreadInv, Tenant, Accessing
    <3>4. CASE code # "public"
      <4>1. conn'[t] = code
        BY <1>1, <2>1, <3>4 DEF GetByUserCode, TypeOK
      <4> QED
        BY <3>2, <4>1 DEF ThreadInv, Accessing
    <3> QED
      BY <3>3, <3>4
  <2>2. CASE code \notin Schemas
    BY <1>1, <2>2, GotoInv DEF GetByUserCode, Pcs, Accessing
  <2> QED
    BY <2>1, <2>2
<1>2. CASE SyncStorage(t)
  <2>1. PICK pc \in {"register", "respond"} :
          Goto(t, pc) /\ (pc = "register" => conn' = [conn EXCEPT ![t] = "public"])
    BY <1>2 DEF SyncStorage
  <2>2. reqs'[t].pc = pc
    BY <2>1 DEF Goto, TypeOK, Request
  <2>3. pc = "register" => conn'[t] = "public"
    BY <2>1 DEF TypeOK
  <2> QED
    BY <2>2, <2>3 DEF ThreadInv, Accessing
<1>3. CASE RegisterWorkflows(t)
  <2>1. reqs'[t].pc = "load" /\ reqs'[t].space = reqs[t].space
    BY <1>3 DEF RegisterWorkflows, Goto, TypeOK, Request
  <2>2. conn'[t] = IF reqs[t].space = "public" THEN conn[t] ELSE reqs[t].space
    BY <1>3 DEF RegisterWorkflows, TypeOK
  <2>3. reqs[t].space \in Schemas /\ conn[t] = "public"
    BY <1>3 DEF RegisterWorkflows, ThreadInv
  <2> QED
    BY <2>1, <2>2, <2>3 DEF ThreadInv, Tenant, Accessing
<1>4. CASE LoadWorkflowsForSchema(t)
  BY <1>4, GotoInv DEF LoadWorkflowsForSchema, Pcs, Accessing
<1> QED
  BY <1>1, <1>2, <1>3, <1>4 DEF MovePath

LEMMA MigrateInv ==
  ASSUME TypeOK, NEW t \in Threads, ThreadInv(t), Migrate(t)
  PROVE  ThreadInv(t)'
<1>1. CASE NextSchema(t)
  <2>1. PICK a \in reqs[t].todo, pc \in {"space", "sweep"} :
          /\ conn' = [conn EXCEPT ![t] = a]
          /\ reqs' = [reqs EXCEPT ![t] = [reqs[t] EXCEPT !.todo = @ \ {a}, !.space = a, !.pc = pc]]
    BY <1>1 DEF NextSchema
  <2>2. reqs[t] \in Request /\ reqs[t].todo \subseteq Schemas
    BY DEF TypeOK, Request
  <2>3. conn'[t] = a /\ reqs'[t].space = a /\ reqs'[t].pc = pc
    BY <2>1, <2>2 DEF TypeOK, Request
  <2> QED
    BY <2>2, <2>3 DEF ThreadInv, Tenant
<1>2. CASE ~NextSchema(t)
  <2>1. conn' = conn
    BY <1>2 DEF Migrate, CreateSpaceIfNotExist, MigrateFails, CreateSpace, CreateFinmarsBot,
                Sweep, EndCommand
  <2>2. PICK pc \in {"newspace", "bot", "respond", "next"} :
          Goto(t, pc) /\ (pc \in {"newspace", "bot"} => reqs[t].pc \in Accessing)
    BY <1>2 DEF Migrate, CreateSpaceIfNotExist, MigrateFails, CreateSpace, CreateFinmarsBot,
                Sweep, EndCommand, Accessing
  <2> QED
    BY <2>1, <2>2, GotoInv DEF Pcs, Accessing
<1> QED
  BY <1>1, <1>2

LEMMA ExecuteInv ==
  ASSUME TypeOK, NEW t \in Threads, ThreadInv(t), Execute(t)
  PROVE  ThreadInv(t)'
<1>1. CASE SwapStdout(t)
  <2>1. reqs'[t].pc = "execute"
    BY <1>1 DEF SwapStdout, TypeOK, Request
  <2> QED
    BY <2>1 DEF ThreadInv, Accessing
<1>2. CASE ~SwapStdout(t)
  <2>1. conn' = conn
    BY <1>2 DEF Execute, FindSession, CreateSession, FileMissing, ExecuteCode, RestoreStdout,
                RedirectEnds
  <2>2. PICK pc \in {"newsession", "swap", "restore", "respond"} : Goto(t, pc)
    BY <1>2 DEF Execute, FindSession, CreateSession, FileMissing, ExecuteCode, RestoreStdout,
                RedirectEnds
  <2> QED
    BY <2>1, <2>2, GotoInv DEF Pcs, Accessing
<1> QED
  BY <1>1, <1>2

LEMMA EndRequestInv ==
  ASSUME TypeOK, NEW t \in Threads, EndRequest(t)
  PROVE  ThreadInv(t)'
BY DEF EndRequest, Idle, ThreadInv, TypeOK, Accessing

LEMMA AdmissionInductive == TypeOK /\ AdmissionInv /\ [Next]_vars => AdmissionInv'
<1> SUFFICES ASSUME TypeOK, AdmissionInv, [Next]_vars PROVE AdmissionInv'
  OBVIOUS
<1>1. ASSUME NEW t \in Threads, Step(t) PROVE AdmissionInv'
  <2>1. ThreadInv(t)'
    BY <1>1, AuthenticateInv, BeginInv, ViewInv, MovePathInv, MigrateInv, ExecuteInv, EndRequestInv
       DEF Step, AdmissionInv
  <2>2. ASSUME NEW u \in Threads \ {t} PROVE ThreadInv(u)'
    <3>1. reqs'[u] = reqs[u] /\ conn'[u] = conn[u] /\ users[conn[u]] \subseteq users'[conn[u]]
      BY <1>1, ThreadStep DEF OthersKept, ConnectionsKept, TypeOK
    <3> QED
      BY <3>1 DEF AdmissionInv, ThreadInv, Tenant
  <2> QED
    BY <2>1, <2>2 DEF AdmissionInv
<1>2. CASE UNCHANGED vars
  BY <1>2 DEF vars, rows, AdmissionInv, ThreadInv, Tenant
<1> QED
  BY <1>1, <1>2 DEF Next, Step

LEMMA AdmissionAlways == Spec => []AdmissionInv
<1>1. Init => AdmissionInv
  BY DEF Init, Idle, AdmissionInv, ThreadInv, Accessing
<1> QED
  BY <1>1, AdmissionInductive, TypeCorrect, PTL DEF Spec

\* No request, task or command ever reads or writes, or records its error, in a schema
\* but its own or the one that a code it looks up begins with, however the threads
\* interleave and whatever the thread did before; an idle connection points at public.
THEOREM TenantIsolationHolds == Spec => []TenantIsolation
<1>1. AdmissionInv => TenantIsolation
  BY DEF AdmissionInv, ThreadInv, TenantIsolation
<1> QED
  BY <1>1, AdmissionAlways, PTL

\* A request with a valid Keycloak token is never turned away, also when several first
\* requests of the user race to create the user.
THEOREM ValidTokenAdmittedHolds == Spec => []ValidTokenAdmitted
<1>1. AdmissionInv => ValidTokenAdmitted
  BY DEF AdmissionInv, ThreadInv, ValidTokenAdmitted
<1> QED
  BY <1>1, AdmissionAlways, PTL

-----------------------------------------------------------------------------
(* Standard output: who captures it, and what it is put back to.           *)

ConsoleInv ==
  /\ stdout \in Threads => Capturing(stdout) \/ stdout \in overlapped
  /\ \A t \in Threads :
       /\ Capturing(t) => \A u \in Threads \ {t} : Capturing(u) => t \in overlapped
       /\ Capturing(t) /\ reqs[t].old \in Threads => reqs[t].old \in overlapped
       /\ t \notin overlapped =>
            /\ Capturing(t) => stdout = t
            /\ buffer[t] \subseteq {t}
            /\ reqs[t].pc = "restore" => buffer[t] = {t}

\* While nobody was found racing: one thread at a time makes the session, nobody uses
\* it before, and every execution under way belongs to it.
SessionInv ==
  "session" \notin raced =>
    /\ kept \in {0, session}
    /\ \A t \in Threads :
         /\ reqs[t].pc = "newsession" =>
              session = 0 /\ \A u \in Threads \ {t} : reqs[u].pc # "newsession"
         /\ reqs[t].pc \in {"swap", "execute", "restore"} => session # 0
         /\ reqs[t].pc \in {"execute", "restore"} => reqs[t].session = session

\* While no two migrations were found racing: the thread that is about to create the
\* Space row of a schema is the only one, and there is none yet.
SpaceInv ==
  "space" \notin raced =>
    /\ \A a \in Schemas : spaces[a] <= 1
    /\ \A t \in Threads : reqs[t].pc = "newspace" =>
         /\ spaces[conn[t]] = 0
         /\ \A u \in Threads \ {t} : reqs[u].pc = "newspace" => conn[u] # conn[t]

ExecutionPcs == {"newsession", "swap", "execute", "restore"}

\* The program counter a step of t leads to.
LEMMA GotoPc ==
  ASSUME TypeOK, NEW t \in Threads, NEW pc \in Pcs, Goto(t, pc)
  PROVE  reqs'[t].pc = pc /\ reqs'[t].old = reqs[t].old /\ reqs'[t].session = reqs[t].session
<1>1. reqs'[t] = [reqs[t] EXCEPT !.pc = pc] /\ reqs[t] \in Request
  BY GotoStep DEF TypeOK
<1> QED
  BY <1>1 DEF Request

\* The program counters a thread starts at.
LEMMA BeginPc ==
  ASSUME TypeOK, NEW t \in Threads, Begin(t)
  PROVE  reqs[t].pc = "idle" /\ reqs'[t].pc \in {"view", "respond", "space", "auth", "next"}
<1>1. ASSUME NEW space \in Asked, BeginTask(t, space)
      PROVE  reqs[t].pc = "idle" /\ reqs'[t].pc \in {"view", "respond"}
  <2>1. reqs[t].pc = "idle" /\ reqs'[t] \in
          {[Idle EXCEPT !.pc = "view", !.kind = "task", !.space = space],
           [Idle EXCEPT !.pc = "respond", !.kind = "task", !.space = space]}
    BY <1>1 DEF BeginTask, TypeOK
  <2> QED
    BY <2>1 DEF Idle
<1>2. ASSUME NEW space \in Asked, NEW kind, NEW scheme, NEW valid,
             BeginRequest(t, space, kind, scheme, valid)
      PROVE  reqs[t].pc = "idle" /\ reqs'[t].pc \in {"space", "auth"}
  BY <1>2 DEF BeginRequest, Idle, TypeOK
<1>3. ASSUME NEW kind, BeginCommand(t, kind)
      PROVE  reqs[t].pc = "idle" /\ reqs'[t].pc = "next"
  BY <1>3 DEF BeginCommand, Idle, TypeOK
<1>4. CASE BeginExport(t)
  BY <1>4 DEF BeginExport, Idle, TypeOK
<1> QED
  BY <1>1, <1>2, <1>3, <1>4 DEF Begin

\* A lookup or a refresh goes on in its view, or ends it.
LEMMA MovePathPc ==
  ASSUME TypeOK, NEW t \in Threads, MovePath(t)
  PROVE  /\ UNCHANGED <<rows, consoles, memory, raced>>
         /\ reqs[t].pc \in {"view", "sync", "register", "load"}
         /\ reqs'[t].pc \in {"view", "error", "register", "load", "respond"}
<1>1. CASE \E code \in Asked \union Schemas : GetByUserCode(t, code)
  <2>1. PICK code \in Asked \union Schemas : GetByUserCode(t, code)
    BY <1>1
  <2>2. CASE code \in Schemas
    BY <2>1, <2>2 DEF GetByUserCode, TypeOK, Request
  <2>3. CASE code \notin Schemas
    BY <2>1, <2>3, GotoPc DEF GetByUserCode, Pcs, Accessing
  <2> QED
    BY <2>2, <2>3
<1>2. CASE SyncStorage(t) \/ RegisterWorkflows(t) \/ LoadWorkflowsForSchema(t)
  <2>1. PICK pc \in {"register", "load", "respond"} : Goto(t, pc)
    BY <1>2 DEF SyncStorage, RegisterWorkflows, LoadWorkflowsForSchema
  <2> QED
    BY <1>2, <2>1, GotoPc DEF SyncStorage, RegisterWorkflows, LoadWorkflowsForSchema, Pcs, Accessing
<1> QED
  BY <1>1, <1>2 DEF MovePath

\* Everything but the two execution views leaves the output and the sessions alone.
LEMMA QuietStep ==
  ASSUME TypeOK, NEW t \in Threads,
         Begin(t) \/ Authenticate(t) \/ View(t) \/ MovePath(t) \/ Migrate(t) \/ EndRequest(t)
  PROVE  /\ UNCHANGED consoles /\ UNCHANGED memory
         /\ "session" \in raced' <=> "session" \in raced
         /\ reqs[t].pc \notin ExecutionPcs /\ reqs'[t].pc \notin ExecutionPcs
<1>1. CASE Begin(t)
  <2>1. reqs[t].pc = "idle" /\ UNCHANGED <<consoles, memory, raced>>
    BY <1>1 DEF Begin, BeginExport, BeginTask, BeginRequest, BeginCommand
  <2>2. reqs'[t].pc \in {"view", "respond", "space", "auth", "next"}
    BY <1>1, BeginPc
  <2> QED
    BY <2>1, <2>2 DEF ExecutionPcs
<1>2. CASE Authenticate(t)
  <2>1. PICK pc \in {"view", "sync", "session", "error", "rejected", "create", "again"} : Goto(t, pc)
    BY <1>2 DEF Authenticate, AuthenticateBot, AuthenticateJWT, AuthenticateKeycloak,
                CreateUser, LookAgain, Admitted
  <2>2. reqs[t].pc \in {"auth", "create", "again"} /\ UNCHANGED <<consoles, memory, raced>>
    BY <1>2 DEF Authenticate, AuthenticateBot, AuthenticateJWT, AuthenticateKeycloak,
                CreateUser, LookAgain
  <2> QED
    BY <2>1, <2>2, GotoPc DEF ExecutionPcs, Pcs, Accessing
<1>3. CASE View(t)
  <2>1. PICK pc \in {"respond", "error"} : Goto(t, pc)
    BY <1>3 DEF View, ViewReturns, ViewRaises, RecordError
  <2>2. reqs[t].pc \in {"view", "error", "rejected"} /\ UNCHANGED <<consoles, memory, raced>>
    BY <1>3 DEF View, ViewReturns, ViewRaises, RecordError
  <2> QED
    BY <2>1, <2>2, GotoPc DEF ExecutionPcs, Pcs, Accessing
<1>4. CASE Migrate(t)
  <2>1. UNCHANGED consoles /\ UNCHANGED memory /\ reqs[t].pc \notin ExecutionPcs
    BY <1>4 DEF Migrate, CreateSpaceIfNotExist, MigrateFails, CreateSpace, CreateFinmarsBot,
                NextSchema, Sweep, EndCommand, ExecutionPcs
  <2>2. "session" \in raced' <=> "session" \in raced
    BY <1>4 DEF Migrate, CreateSpaceIfNotExist, MigrateFails, CreateSpace, CreateFinmarsBot,
                NextSchema, Sweep, EndCommand
  <2>3. CASE NextSchema(t)
    <3>1. PICK a \in reqs[t].todo, pc \in {"space", "sweep"} :
          reqs' = [reqs EXCEPT ![t] = [reqs[t] EXCEPT !.todo = @ \ {a}, !.space = a, !.pc = pc]]
      BY <2>3 DEF NextSchema
    <3>2. reqs'[t].pc = pc
      BY <3>1 DEF TypeOK, Request
    <3> QED
      BY <2>1, <2>2, <3>2 DEF ExecutionPcs
  <2>4. CASE ~NextSchema(t)
    <3>1. PICK pc \in {"newspace", "bot", "respond", "next"} : Goto(t, pc)
      BY <1>4, <2>4 DEF Migrate, CreateSpaceIfNotExist, MigrateFails, CreateSpace,
                        CreateFinmarsBot, Sweep, EndCommand
    <3> QED
      BY <2>1, <2>2, <3>1, GotoPc DEF ExecutionPcs, Pcs, Accessing
  <2> QED
    BY <2>3, <2>4
<1>5. CASE EndRequest(t)
  BY <1>5 DEF EndRequest, Idle, TypeOK, ExecutionPcs
<1>6. CASE MovePath(t)
  BY <1>6, MovePathPc DEF ExecutionPcs
<1> QED
  BY <1>1, <1>2, <1>3, <1>4, <1>5, <1>6

LEMMA ConsoleInductive == TypeOK /\ ConsoleInv /\ [Next]_vars => ConsoleInv'
<1> SUFFICES ASSUME TypeOK, ConsoleInv, [Next]_vars PROVE ConsoleInv'
  OBVIOUS
<1> USE TenantRequestsAssumption
<1>1. ASSUME NEW t \in Threads, ~Capturing(t), ~Capturing(t)', OthersKept(t), UNCHANGED consoles
      PROVE  ConsoleInv'
  BY <1>1 DEF ConsoleInv, Capturing, OthersKept, consoles
<1>2. ASSUME NEW t \in Threads,
             Begin(t) \/ Authenticate(t) \/ View(t) \/ MovePath(t) \/ Migrate(t) \/ EndRequest(t)
      PROVE  ConsoleInv'
  BY <1>1, <1>2, QuietStep, ThreadStep DEF Step, Capturing, ExecutionPcs
<1>3. ASSUME NEW t \in Threads, FindSession(t) \/ CreateSession(t) \/ FileMissing(t)
      PROVE  ConsoleInv'
  <2>1. PICK pc \in {"newsession", "swap", "respond"} : Goto(t, pc)
    BY <1>3 DEF FindSession, CreateSession, FileMissing
  <2>2. ~Capturing(t) /\ UNCHANGED consoles
    BY <1>3 DEF FindSession, CreateSession, FileMissing, Capturing
  <2>3. OthersKept(t) /\ reqs'[t].pc = pc
    BY <2>1, GotoStep, GotoPc DEF Pcs
  <2> QED
    BY <1>1, <2>2, <2>3 DEF Capturing
<1>4. ASSUME NEW t \in Threads, SwapStdout(t) PROVE ConsoleInv'
  <2> DEFINE others == {u \in Threads \ {t} : Capturing(u)}
  <2>1. OthersKept(t) /\ ~Capturing(t)
    BY <1>4, ThreadStep DEF Step, Execute, SwapStdout, Capturing
  <2>2. reqs'[t].pc = "execute" /\ reqs'[t].old = stdout
    BY <1>4 DEF SwapStdout, TypeOK, Request
  <2>3. stdout' = t /\ buffer' \in {buffer, [buffer EXCEPT ![t] = {}]}
    BY <1>4 DEF SwapStdout, OutputBuffer
  <2>4. overlapped' = overlapped \union others \union (IF others = {} THEN {} ELSE {t})
    BY <1>4 DEF SwapStdout
  <2>5. /\ \A u \in Threads \ {t} : Capturing(u)' = Capturing(u) /\ (Capturing(u) => u \in overlapped')
        /\ \A u \in Threads \ {t} : Capturing(u) => t \in overlapped'
        /\ overlapped \subseteq overlapped'
    BY <2>1, <2>4 DEF OthersKept, Capturing
  <2>6. stdout \in Threads => stdout \in overlapped'
    BY <2>1, <2>5 DEF ConsoleInv
  <2>7. \A u \in Threads : u \notin overlapped' => buffer'[u] \subseteq {u}
    BY <2>3, <2>5 DEF ConsoleInv, TypeOK
  <2>8. ASSUME NEW u \in Threads \ {t}
        PROVE  /\ Capturing(u)' => u \in overlapped'
               /\ Capturing(u)' /\ reqs'[u].old \in Threads => reqs'[u].old \in overlapped'
    BY <2>1, <2>5 DEF ConsoleInv, OthersKept
  <2> QED
    BY <2>2, <2>3, <2>5, <2>6, <2>7, <2>8 DEF ConsoleInv, Capturing
<1>5. ASSUME NEW t \in Threads, ExecuteCode(t) PROVE ConsoleInv'
  <2>1. Goto(t, "restore") /\ reqs[t].pc = "execute" /\ UNCHANGED <<stdout, overlapped>>
    BY <1>5 DEF ExecuteCode
  <2>2. OthersKept(t) /\ reqs'[t].pc = "restore" /\ reqs'[t].old = reqs[t].old
    BY <2>1, GotoStep, GotoPc DEF Pcs
  <2>3. \A u \in Threads : Capturing(u)' = Capturing(u)
    BY <2>1, <2>2 DEF Capturing, OthersKept
  <2>4. buffer' = IF stdout = Console THEN buffer ELSE [buffer EXCEPT ![stdout] = @ \union {t}]
    BY <1>5 DEF ExecuteCode
  <2>5. Capturing(t)
    BY <2>1 DEF Capturing
  <2>6. ASSUME NEW u \in Threads, u \notin overlapped
        PROVE  /\ Capturing(u) => stdout = u
               /\ buffer'[u] \subseteq {u}
               /\ reqs'[u].pc = "restore" => buffer'[u] = {u}
    <3>1. CASE u = t
      BY <2>4, <2>5, <2>6, <3>1 DEF ConsoleInv, TypeOK
    <3>2. CASE u # t
      <4>1. stdout # u
        BY <2>5, <2>6, <3>2 DEF ConsoleInv
      <4>2. buffer'[u] = buffer[u]
        BY <2>4, <4>1 DEF TypeOK
      <4> QED
        BY <2>2, <2>6, <3>2, <4>2 DEF ConsoleInv, OthersKept
    <3> QED
      BY <3>1, <3>2
  <2> QED
    BY <2>1, <2>2, <2>3, <2>6 DEF ConsoleInv, OthersKept
<1>6. ASSUME NEW t \in Threads, RestoreStdout(t) \/ RedirectEnds(t) PROVE ConsoleInv'
  <2>1. /\ Goto(t, "respond") /\ reqs[t].pc = "restore"
        /\ stdout' = reqs[t].old /\ overlapped' = overlapped
        /\ buffer' \in {buffer, [buffer EXCEPT ![t] = {}]}
    BY <1>6 DEF RestoreStdout, RedirectEnds
  <2>2. OthersKept(t) /\ reqs'[t].pc = "respond"
    BY <2>1, GotoStep, GotoPc DEF Pcs, Accessing
  <2>3. Capturing(t) /\ ~Capturing(t)' /\ \A u \in Threads \ {t} : Capturing(u)' = Capturing(u)
    BY <2>1, <2>2 DEF Capturing, OthersKept
  <2>4. \A u \in Threads \ {t} : Capturing(u) => u \in overlapped
    BY <2>3 DEF ConsoleInv
  <2>5. \A u \in Threads : u \notin overlapped => buffer'[u] \subseteq {u}
    BY <2>1 DEF ConsoleInv, TypeOK
  <2>6. stdout' \in Threads => stdout' \in overlapped
    BY <2>1, <2>3 DEF ConsoleInv
  <2> QED
    BY <2>1, <2>2, <2>3, <2>4, <2>5, <2>6 DEF ConsoleInv, OthersKept, Capturing
<1>7. CASE UNCHANGED vars
  BY <1>7 DEF vars, consoles, ConsoleInv, Capturing
<1> QED
  BY <1>2, <1>3, <1>4, <1>5, <1>6, <1>7 DEF Next, Execute

\* The output of an execution is its own and the console comes back, unless two
\* executions overlapped: for any number of threads, code that prints or raises, and
\* both ways of capturing.
THEOREM ConsoleIntactHolds == Spec => []ConsoleIntact
<1>1. Init => ConsoleInv
  BY TenantRequestsAssumption DEF Init, Idle, ConsoleInv, Capturing
<1>2. TypeOK /\ ConsoleInv => ConsoleIntact
  BY DEF ConsoleInv, ConsoleIntact, TypeOK
<1> QED
  BY <1>1, <1>2, ConsoleInductive, TypeCorrect, PTL DEF Spec

-----------------------------------------------------------------------------
(* Sessions and Space rows: made when missing, without a lock.             *)

LEMMA SessionInductive == TypeOK /\ SessionInv /\ [Next]_vars => SessionInv'
<1> SUFFICES ASSUME TypeOK, SessionInv, [Next]_vars, "session" \notin raced' PROVE SessionInv'
  BY DEF SessionInv
<1>1. ASSUME NEW t \in Threads,
             Begin(t) \/ Authenticate(t) \/ View(t) \/ MovePath(t) \/ Migrate(t) \/ EndRequest(t)
      PROVE  SessionInv'
  <2>1. OthersKept(t) /\ UNCHANGED memory /\ "session" \notin raced
        /\ reqs[t].pc \notin ExecutionPcs /\ reqs'[t].pc \notin ExecutionPcs
    BY <1>1, QuietStep, ThreadStep DEF Step
  <2> QED
    BY <2>1 DEF SessionInv, OthersKept, memory, ExecutionPcs
<1>2. ASSUME NEW t \in Threads, FindSession(t) PROVE SessionInv'
  <2>1. PICK pc \in {"newsession", "swap"} :
          /\ Goto(t, pc)
          /\ pc = "newsession" =>
               session = 0 /\ ("session" \notin raced' => ~Another(t, "newsession"))
          /\ pc = "swap" => session # 0
    BY <1>2 DEF FindSession
  <2>2. OthersKept(t) /\ reqs'[t].pc = pc
    BY <2>1, GotoStep, GotoPc DEF Pcs
  <2>3. "session" \notin raced /\ UNCHANGED memory /\ reqs[t].pc = "session"
    BY <1>2 DEF FindSession
  <2>4. pc = "newsession" => \A u \in Threads \ {t} : reqs[u].pc # "newsession"
    BY <2>1 DEF Another
  <2> QED
    BY <2>1, <2>2, <2>3, <2>4 DEF SessionInv, OthersKept, memory
<1>3. ASSUME NEW t \in Threads, CreateSession(t) PROVE SessionInv'
  <2>1. /\ Goto(t, "swap") /\ reqs[t].pc = "newsession" /\ "session" \notin raced
        /\ session' = made + 1 /\ kept' = kept
    BY <1>3 DEF CreateSession
  <2>2. OthersKept(t) /\ reqs'[t].pc = "swap"
    BY <2>1, GotoStep, GotoPc DEF Pcs
  <2>3. session = 0 /\ kept = 0 /\ session' # 0
    BY <2>1 DEF SessionInv, TypeOK
  <2>4. \A u \in Threads \ {t} : reqs'[u].pc \notin ExecutionPcs
    BY <2>1, <2>2, <2>3 DEF SessionInv, OthersKept, ExecutionPcs
  <2> QED
    BY <2>1, <2>2, <2>3, <2>4 DEF SessionInv, ExecutionPcs
<1>4. ASSUME NEW t \in Threads, FileMissing(t) \/ RestoreStdout(t) \/ RedirectEnds(t)
      PROVE  SessionInv'
  <2>1. Goto(t, "respond") /\ "session" \notin raced /\ UNCHANGED memory
    BY <1>4 DEF FileMissing, RestoreStdout, RedirectEnds
  <2>2. OthersKept(t) /\ reqs'[t].pc = "respond"
    BY <2>1, GotoStep, GotoPc DEF Pcs, Accessing
  <2> QED
    BY <2>1, <2>2 DEF SessionInv, OthersKept, memory
<1>5. ASSUME NEW t \in Threads, SwapStdout(t) PROVE SessionInv'
  <2>1. OthersKept(t) /\ reqs[t].pc = "swap" /\ "session" \notin raced /\ UNCHANGED memory
    BY <1>5, ThreadStep DEF Step, Execute, SwapStdout
  <2>2. reqs'[t].pc = "execute" /\ reqs'[t].session = session
    BY <1>5 DEF SwapStdout, TypeOK, Request
  <2> QED
    BY <2>1, <2>2 DEF SessionInv, OthersKept, memory
<1>6. ASSUME NEW t \in Threads, ExecuteCode(t) PROVE SessionInv'
  <2>1. /\ Goto(t, "restore") /\ reqs[t].pc = "execute" /\ "session" \notin raced
        /\ session' = session /\ kept' \in {kept, reqs[t].session}
    BY <1>6 DEF ExecuteCode
  <2>2. OthersKept(t) /\ reqs'[t].pc = "restore" /\ reqs'[t].session = reqs[t].session
    BY <2>1, GotoStep, GotoPc DEF Pcs
  <2> QED
    BY <2>1, <2>2 DEF SessionInv, OthersKept
<1>7. CASE UNCHANGED vars
  BY <1>7 DEF vars, memory, SessionInv
<1> QED
  BY <1>1, <1>2, <1>3, <1>4, <1>5, <1>6, <1>7 DEF Next, Execute

\* The variables of an earlier execution are there for the next one unless two first
\* requests found no session together, however many threads execute code or files.
THEOREM ContextKeptHolds == Spec => []ContextKept
<1>1. Init => SessionInv
  BY DEF Init, Idle, SessionInv
<1>2. SessionInv => ContextKept
  BY DEF SessionInv, ContextKept
<1> QED
  BY <1>1, <1>2, SessionInductive, TypeCorrect, PTL DEF Spec

\* Only a migration comes near the creation of a Space row.
LEMMA SpacesKept ==
  ASSUME TypeOK, NEW t \in Threads,
         Begin(t) \/ Authenticate(t) \/ View(t) \/ MovePath(t) \/ Execute(t) \/ EndRequest(t)
  PROVE  /\ spaces' = spaces /\ raced \subseteq raced'
         /\ reqs[t].pc # "newspace" /\ reqs'[t].pc # "newspace"
<1>1. CASE Begin(t)
  <2>1. reqs[t].pc = "idle" /\ spaces' = spaces /\ raced' = raced
    BY <1>1 DEF Begin, BeginExport, BeginTask, BeginRequest, BeginCommand, rows
  <2> QED
    BY <1>1, <2>1, BeginPc
<1>2. CASE Authenticate(t)
  <2>1. PICK pc \in {"view", "sync", "session", "error", "rejected", "create", "again"} : Goto(t, pc)
    BY <1>2 DEF Authenticate, AuthenticateBot, AuthenticateJWT, AuthenticateKeycloak,
                CreateUser, LookAgain, Admitted
  <2>2. reqs[t].pc \in {"auth", "create", "again"} /\ spaces' = spaces /\ raced' = raced
    BY <1>2 DEF Authenticate, AuthenticateBot, AuthenticateJWT, AuthenticateKeycloak,
                CreateUser, LookAgain, rows
  <2> QED
    BY <2>1, <2>2, GotoPc DEF Pcs, Accessing
<1>3. CASE View(t)
  <2>1. PICK pc \in {"respond", "error"} : Goto(t, pc)
    BY <1>3 DEF View, ViewReturns, ViewRaises, RecordError
  <2>2. reqs[t].pc \in {"view", "error", "rejected"} /\ spaces' = spaces /\ raced' = raced
    BY <1>3 DEF View, ViewReturns, ViewRaises, RecordError, rows
  <2> QED
    BY <2>1, <2>2, GotoPc DEF Pcs, Accessing
<1>4. CASE SwapStdout(t)
  BY <1>4 DEF SwapStdout, TypeOK, Request, rows
<1>5. CASE Execute(t) /\ ~SwapStdout(t)
  <2>1. PICK pc \in {"newsession", "swap", "restore", "respond"} : Goto(t, pc)
    BY <1>5 DEF Execute, FindSession, CreateSession, FileMissing, ExecuteCode, RestoreStdout,
                RedirectEnds
  <2>2. reqs[t].pc \in {"session"} \union ExecutionPcs /\ spaces' = spaces /\ raced \subseteq raced'
    BY <1>5 DEF Execute, FindSession, CreateSession, FileMissing, ExecuteCode, RestoreStdout,
                RedirectEnds, ExecutionPcs, rows
  <2> QED
    BY <2>1, <2>2, GotoPc DEF Pcs, Accessing, ExecutionPcs
<1>6. CASE EndRequest(t)
  BY <1>6 DEF EndRequest, Idle, TypeOK, rows
<1>7. CASE MovePath(t)
  BY <1>7, MovePathPc DEF rows
<1> QED
  BY <1>1, <1>2, <1>3, <1>4, <1>5, <1>6, <1>7

LEMMA SpaceInductive == TypeOK /\ SpaceInv /\ [Next]_vars => SpaceInv'
<1> SUFFICES ASSUME TypeOK, SpaceInv, [Next]_vars, "space" \notin raced' PROVE SpaceInv'
  BY DEF SpaceInv
<1>1. ASSUME NEW t \in Threads, OthersKept(t), ConnectionsKept(t), spaces' = spaces,
             "space" \notin raced, reqs'[t].pc # "newspace"
      PROVE  SpaceInv'
  BY <1>1 DEF SpaceInv, OthersKept, ConnectionsKept
<1>2. ASSUME NEW t \in Threads,
             Begin(t) \/ Authenticate(t) \/ View(t) \/ MovePath(t) \/ Execute(t) \/ EndRequest(t)
      PROVE  SpaceInv'
  BY <1>1, <1>2, SpacesKept, ThreadStep DEF Step
<1>3. ASSUME NEW t \in Threads, NextSchema(t) PROVE SpaceInv'
  <2>1. PICK a \in reqs[t].todo, pc \in {"space", "sweep"} :
          reqs' = [reqs EXCEPT ![t] = [reqs[t] EXCEPT !.todo = @ \ {a}, !.space = a, !.pc = pc]]
    BY <1>3 DEF NextSchema
  <2>2. reqs'[t].pc = pc
    BY <2>1 DEF TypeOK, Request
  <2> QED
    BY <1>1, <1>3, <2>2, ThreadStep DEF Step, Migrate, NextSchema, rows
<1>4. ASSUME NEW t \in Threads,
             MigrateFails(t) \/ CreateFinmarsBot(t) \/ Sweep(t) \/ EndCommand(t)
      PROVE  SpaceInv'
  <2>1. PICK pc \in {"respond", "next"} : Goto(t, pc)
    BY <1>4 DEF MigrateFails, CreateFinmarsBot, Sweep, EndCommand
  <2>2. reqs'[t].pc # "newspace"
    BY <2>1, GotoPc DEF Pcs, Accessing
  <2>3. spaces' = spaces /\ "space" \notin raced
    BY <1>4 DEF MigrateFails, CreateFinmarsBot, Sweep, EndCommand, rows
  <2> QED
    BY <1>1, <1>4, <2>2, <2>3, ThreadStep DEF Step, Migrate
<1>5. ASSUME NEW t \in Threads, CreateSpaceIfNotExist(t) PROVE SpaceInv'
  <2>1. PICK pc \in {"newspace", "bot"} :
          /\ Goto(t, pc)
          /\ pc = "newspace" => spaces[conn[t]] = 0 /\ ~Another(t, "newspace")
    BY <1>5 DEF CreateSpaceIfNotExist, Here
  <2>2. OthersKept(t) /\ reqs'[t].pc = pc
    BY <2>1, GotoStep, GotoPc DEF Pcs, Accessing
  <2>3. "space" \notin raced /\ spaces' = spaces /\ conn' = conn
    BY <1>5 DEF CreateSpaceIfNotExist, rows
  <2>4. pc = "newspace" => \A u \in Threads \ {t} : reqs[u].pc = "newspace" => conn[u] # conn[t]
    BY <2>1 DEF Another
  <2> QED
    BY <2>1, <2>2, <2>3, <2>4 DEF SpaceInv, OthersKept
<1>6. ASSUME NEW t \in Threads, CreateSpace(t) PROVE SpaceInv'
  <2>1. /\ Goto(t, "bot") /\ reqs[t].pc = "newspace" /\ "space" \notin raced
        /\ spaces' = [spaces EXCEPT ![conn[t]] = @ + 1] /\ conn' = conn
    BY <1>6 DEF CreateSpace, Here
  <2>2. OthersKept(t) /\ reqs'[t].pc = "bot"
    BY <2>1, GotoStep, GotoPc DEF Pcs, Accessing
  <2>3. spaces[conn[t]] = 0 /\ conn[t] \in Schemas
    BY <2>1 DEF SpaceInv, TypeOK
  <2>4. \A a \in Schemas : spaces'[a] = IF a = conn[t] THEN 1 ELSE spaces[a]
    BY <2>1, <2>3 DEF TypeOK
  <2>5. \A u \in Threads \ {t} : reqs'[u].pc = "newspace" => spaces'[conn[u]] = 0
    BY <2>1, <2>2, <2>4 DEF SpaceInv, OthersKept, TypeOK
  <2> QED
    BY <2>1, <2>2, <2>4, <2>5 DEF SpaceInv, OthersKept
<1>7. CASE UNCHANGED vars
  BY <1>7 DEF vars, rows, SpaceInv
<1> QED
  BY <1>2, <1>3, <1>4, <1>5, <1>6, <1>7 DEF Next, Migrate

\* A schema never gets a second Space row unless two migrations of it overlapped.
THEOREM OneSpaceHolds == Spec => []OneSpace
<1>1. Init => SpaceInv
  BY DEF Init, Idle, SpaceInv
<1>2. TypeOK /\ SpaceInv => OneSpace
  BY DEF SpaceInv, OneSpace, TypeOK
<1> QED
  BY <1>1, <1>2, SpaceInductive, TypeCorrect, PTL DEF Spec
=============================================================================
