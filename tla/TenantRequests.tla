--------------------------- MODULE TenantRequests ---------------------------
(***************************************************************************)
(* One web process that serves all tenants. A tenant is a schema of the    *)
(* database; the middleware points the thread's connection at the schema   *)
(* of the request, the authentication creates users as they come, the      *)
(* migration view and commands set a schema up, and two views execute a    *)
(* user's code with a session and a captured standard output. A worker's   *)
(* task points its connection at the schema of its context, and so does a  *)
(* lookup of a workflow that is not registered, or a refresh, in the       *)
(* middle of a request.                                                    *)
(*                                                                         *)
(* The threads share the rows, the sessions and sys.stdout, none of which  *)
(* is locked; connections are a thread's own and outlive a request.        *)
(***************************************************************************)
EXTENDS Naturals, FiniteSets

CONSTANTS
  Threads,    \* threads of the web process, of a worker or of a command
  Schemas,    \* the tenant schemas, "public" among them
  Asked,      \* the space codes that requests name; those without a schema are legacy
  User,       \* a user whom the identity provider knows
  Bot,        \* finmars_bot
  Console,    \* the standard output of the process
  Budget      \* how many requests, tasks and commands

ASSUME TenantRequestsAssumption ==
  /\ "public" \in Schemas /\ "none" \notin Schemas
  /\ Console \notin Threads /\ User # Bot
  /\ Budget \in Nat

VARIABLES
  conn,       \* conn[t]: search_path of t's connection
  reqs,       \* reqs[t]: the request, task or command that t executes
  users,      \* users[a]: usernames in schema a
  spaces,     \* spaces[a]: number of Space rows in schema a
  stdout,     \* sys.stdout: the console, or the buffer of a thread
  buffer,     \* buffer[t]: whose output t's buffer has captured
  session,    \* number of the user's session object; 0 for none
  made,       \* session objects made so far
  kept,       \* history: the session that holds the user's variables
  overlapped, \* history: threads whose capture overlapped another one
  raced,      \* history: what two threads found missing together (session, Space row)
  budget

rows == <<users, spaces>>
consoles == <<stdout, buffer, overlapped>>
memory == <<session, made, kept>>
vars == <<conn, reqs, rows, consoles, memory, raced, budget>>

Idle == [pc |-> "idle", kind |-> "none", space |-> "public", scheme |-> "none",
         named |-> "none", valid |-> FALSE, old |-> Console, session |-> 0, todo |-> {}]

\* The schema that holds a space: its own, or public for a legacy space.
Tenant(space) == IF space \in Schemas THEN space ELSE "public"

Goto(t, pc) == reqs' = [reqs EXCEPT ![t].pc = pc]
Here(t) == conn[t]

-----------------------------------------------------------------------------
(* The middleware, and a task's context.                                   *)

\* Seeded bug: the space code becomes the path unchecked.
RealmAndSpaceMiddleware_Raw(t, space) == conn' = [conn EXCEPT ![t] = space]

\* SET search_path to the schema of the space, or to public.
RealmAndSpaceMiddleware(t, space) == conn' = [conn EXCEPT ![t] = Tenant(space)]

BeginRequest(t, space, kind, scheme, valid) ==
  /\ reqs[t].pc = "idle" /\ budget > 0
  /\ RealmAndSpaceMiddleware(t, space)
  /\ reqs' = [reqs EXCEPT ![t] = [Idle EXCEPT !.pc = IF kind = "migrate" THEN "space" ELSE "auth",
                !.kind = kind, !.space = space, !.scheme = scheme, !.valid = valid]]
  /\ budget' = budget - 1
  /\ UNCHANGED <<rows, consoles, memory, raced>>

\* set_schema_from_context raises for a space without a schema; cleanup still runs.
BeginTask(t, space) ==
  /\ reqs[t].pc = "idle" /\ budget > 0
  /\ IF space \in Schemas
       THEN /\ conn' = [conn EXCEPT ![t] = space]
            /\ reqs' = [reqs EXCEPT ![t] = [Idle EXCEPT !.pc = "view", !.kind = "task", !.space = space]]
       ELSE /\ reqs' = [reqs EXCEPT ![t] = [Idle EXCEPT !.pc = "respond", !.kind = "task", !.space = space]]
            /\ UNCHANGED conn
  /\ budget' = budget - 1
  /\ UNCHANGED <<rows, consoles, memory, raced>>

\* call_export_backend_historical_records sets no schema: it exports for the space that
\* it finds on the path the connection has.
BeginExport(t) ==
  /\ reqs[t].pc = "idle" /\ budget > 0
  /\ reqs' = [reqs EXCEPT ![t] = [Idle EXCEPT !.pc = "view", !.kind = "export"]]
  /\ budget' = budget - 1
  /\ UNCHANGED <<conn, rows, consoles, memory, raced>>

\* The response, or cleanup after the task: SET search_path TO public.
EndRequest(t) ==
  /\ reqs[t].pc = "respond"
  /\ conn' = [conn EXCEPT ![t] = "public"]
  /\ reqs' = [reqs EXCEPT ![t] = Idle]
  /\ UNCHANGED <<rows, consoles, memory, raced, budget>>

-----------------------------------------------------------------------------
(* Authentication: a bearer token must belong to a user of the space; for  *)
(* a Keycloak token the user is created when missing.                      *)

Admitted(t) ==
  IF reqs[t].kind = "data" THEN "view" ELSE IF reqs[t].kind = "refresh" THEN "sync" ELSE "session"

AuthenticateBot(t) ==
  /\ reqs[t].pc = "auth" /\ reqs[t].scheme = "options"
  /\ Goto(t, IF Bot \in users[Here(t)] THEN Admitted(t) ELSE "error")
  /\ UNCHANGED <<conn, rows, consoles, memory, raced, budget>>

AuthenticateJWT(t) ==
  /\ reqs[t].pc = "auth" /\ reqs[t].scheme = "jwt"
  /\ Goto(t, IF reqs[t].valid /\ User \in users[Here(t)] THEN Admitted(t) ELSE "rejected")
  /\ UNCHANGED <<conn, rows, consoles, memory, raced, budget>>

AuthenticateKeycloak(t) ==
  /\ reqs[t].pc = "auth" /\ reqs[t].scheme = "keycloak"
  /\ Goto(t, IF ~reqs[t].valid THEN "rejected"
             ELSE IF User \in users[Here(t)] THEN Admitted(t) ELSE "create")
  /\ UNCHANGED <<conn, rows, consoles, memory, raced, budget>>

\* Seeded bug: the request that finds the name taken gives up.
CreateUser_GivesUp(t) ==
  /\ reqs[t].pc = "create"
  /\ users' = [users EXCEPT ![Here(t)] = @ \union {User}]
  /\ Goto(t, IF User \in users[Here(t)] THEN "rejected" ELSE Admitted(t))
  /\ UNCHANGED <<conn, spaces, consoles, memory, raced, budget>>

\* The name is unique: the second of two requests fails, and looks again.
CreateUser(t) ==
  /\ reqs[t].pc = "create"
  /\ users' = [users EXCEPT ![Here(t)] = @ \union {User}]
  /\ Goto(t, IF User \in users[Here(t)] THEN "again" ELSE Admitted(t))
  /\ UNCHANGED <<conn, spaces, consoles, memory, raced, budget>>

LookAgain(t) ==
  /\ reqs[t].pc = "again"
  /\ Goto(t, IF User \in users[Here(t)] THEN Admitted(t) ELSE "rejected")
  /\ UNCHANGED <<conn, rows, consoles, memory, raced, budget>>

-----------------------------------------------------------------------------
(* A view or a task reads and writes rows, opens files below the space's   *)
(* directory and calls the platform at the space's address; an exception,  *)
(* a failed authentication too, is recorded in the tenant's schema.        *)

ViewReturns(t) ==
  /\ reqs[t].pc = "view"
  /\ Goto(t, "respond")
  /\ UNCHANGED <<conn, rows, consoles, memory, raced, budget>>

ViewRaises(t) ==
  /\ reqs[t].pc = "view" /\ reqs[t].kind = "data"
  /\ Goto(t, "error")
  /\ UNCHANGED <<conn, rows, consoles, memory, raced, budget>>

\* ErrorRecord.objects.create, in the formatter or in the exception middleware.
RecordError(t) ==
  /\ reqs[t].pc \in {"error", "rejected"}
  /\ Goto(t, "respond")
  /\ UNCHANGED <<conn, rows, consoles, memory, raced, budget>>

-----------------------------------------------------------------------------
(* A view or a task moves the path itself.                                 *)

\* A workflow that is not registered is looked for in the storage of the schema on the
\* path, then registered in the schema that its code begins with: the path moves there
\* and stays. A view only tests that the code contains the space's; a task puts its own
\* space in front. public is skipped, a code that names no schema raises, and a request
\* looks for one code only.
GetByUserCode(t, code) ==
  /\ reqs[t].pc = "view" /\ reqs[t].kind \in {"data", "task"}
  /\ reqs[t].kind = "task" => code = reqs[t].space
  /\ reqs[t].named \in {"none", code}
  /\ IF code \in Schemas
       THEN /\ conn' = IF code = "public" THEN conn ELSE [conn EXCEPT ![t] = code]
            /\ reqs' = [reqs EXCEPT ![t].named = code]
       ELSE Goto(t, "error") /\ UNCHANGED conn
  /\ UNCHANGED <<rows, consoles, memory, raced, budget>>

\* RefreshStorageViewSet copies the files of its space and resets the path to public. A
\* legacy space raises at once; that, and a storage that fails, is caught and answered.
SyncStorage(t) ==
  /\ reqs[t].pc = "sync"
  /\ \/ /\ reqs[t].space \in Schemas
        /\ conn' = [conn EXCEPT ![t] = "public"]
        /\ Goto(t, "register")
     \/ Goto(t, "respond") /\ UNCHANGED conn
  /\ UNCHANGED <<rows, consoles, memory, raced, budget>>

\* Then it registers them, on the path of its space again, whose schema is still there.
RegisterWorkflows(t) ==
  /\ reqs[t].pc = "register" /\ reqs[t].space \in Schemas
  /\ conn' = IF reqs[t].space = "public" THEN conn ELSE [conn EXCEPT ![t] = reqs[t].space]
  /\ Goto(t, "load")
  /\ UNCHANGED <<rows, consoles, memory, raced, budget>>

LoadWorkflowsForSchema(t) ==
  /\ reqs[t].pc = "load"
  /\ Goto(t, "respond")
  /\ UNCHANGED <<conn, rows, consoles, memory, raced, budget>>

-----------------------------------------------------------------------------
(* Migration, in the schema the connection points at, ends with bootstrap: *)
(* a Space row and the bot, each created when missing.                     *)

Another(t, pc) == \E u \in Threads \ {t} : reqs[u].pc = pc /\ (pc = "newspace" => conn[u] = conn[t])

\* Seeded bug: the Space row is created without a look.
CreateSpaceIfNotExist_Always(t) ==
  /\ reqs[t].pc = "space"
  /\ Goto(t, "newspace")
  /\ UNCHANGED <<conn, rows, consoles, memory, raced, budget>>

CreateSpaceIfNotExist(t) ==
  /\ reqs[t].pc = "space"
  /\ Goto(t, IF spaces[Here(t)] = 0 THEN "newspace" ELSE "bot")
  /\ raced' = IF spaces[Here(t)] = 0 /\ Another(t, "newspace") THEN raced \union {"space"} ELSE raced
  /\ UNCHANGED <<conn, rows, consoles, memory, budget>>

\* A migration raises: the view reports it, the command ends with the schemas left over.
MigrateFails(t) ==
  /\ reqs[t].pc = "space"
  /\ Goto(t, "respond")
  /\ UNCHANGED <<conn, rows, consoles, memory, raced, budget>>

CreateSpace(t) ==
  /\ reqs[t].pc = "newspace"
  /\ spaces' = [spaces EXCEPT ![Here(t)] = @ + 1]
  /\ Goto(t, "bot")
  /\ UNCHANGED <<conn, users, consoles, memory, raced, budget>>

\* The name is unique: creating the bot twice raises, which bootstrap swallows.
CreateFinmarsBot(t) ==
  /\ reqs[t].pc = "bot"
  /\ users' = [users EXCEPT ![Here(t)] = @ \union {Bot}]
  /\ Goto(t, IF reqs[t].kind = "command" THEN "next" ELSE "respond")
  /\ UNCHANGED <<conn, spaces, consoles, memory, raced, budget>>

\* migrate_all_schemes, update_sequences, cancel_existing_tasks: schema by schema.
BeginCommand(t, kind) ==
  /\ reqs[t].pc = "idle" /\ budget > 0
  /\ reqs' = [reqs EXCEPT ![t] = [Idle EXCEPT !.pc = "next", !.kind = kind, !.todo = Schemas]]
  /\ budget' = budget - 1
  /\ UNCHANGED <<conn, rows, consoles, memory, raced>>

\* Seeded bug: the next schema is migrated on the path of the one before.
NextSchema_KeepsPath(t) ==
  /\ reqs[t].pc = "next" /\ reqs[t].todo # {}
  /\ \E a \in reqs[t].todo :
       reqs' = [reqs EXCEPT ![t] = [reqs[t] EXCEPT !.todo = @ \ {a}, !.space = a,
                                   !.pc = IF reqs[t].kind = "command" THEN "space" ELSE "sweep"]]
  /\ UNCHANGED <<conn, rows, consoles, memory, raced, budget>>

NextSchema(t) ==
  /\ reqs[t].pc = "next" /\ reqs[t].todo # {}
  /\ \E a \in reqs[t].todo :
       /\ conn' = [conn EXCEPT ![t] = a]
       /\ reqs' = [reqs EXCEPT ![t] = [reqs[t] EXCEPT !.todo = @ \ {a}, !.space = a,
                                      !.pc = IF reqs[t].kind = "command" THEN "space" ELSE "sweep"]]
  /\ UNCHANGED <<rows, consoles, memory, raced, budget>>

\* One schema's rows; an error ends the command and leaves the other schemas alone.
Sweep(t) ==
  /\ reqs[t].pc = "sweep"
  /\ Goto(t, "next") \/ Goto(t, "respond")
  /\ UNCHANGED <<conn, rows, consoles, memory, raced, budget>>

EndCommand(t) ==
  /\ reqs[t].pc = "next" /\ reqs[t].todo = {}
  /\ Goto(t, "respond")
  /\ UNCHANGED <<conn, rows, consoles, memory, raced, budget>>

-----------------------------------------------------------------------------
(* CodeExecutionViewSet and FileExecutionViewSet: make the session when it *)
(* is missing, point sys.stdout at a buffer, execute, point it back.       *)

\* Seeded bug: every request makes a session.
FindSession_Always(t) ==
  /\ reqs[t].pc = "session"
  /\ Goto(t, "newsession")
  /\ raced' = IF Another(t, "newsession") THEN raced \union {"session"} ELSE raced
  /\ UNCHANGED <<conn, rows, consoles, memory, budget>>

FindSession(t) ==
  /\ reqs[t].pc = "session"
  /\ Goto(t, IF session = 0 THEN "newsession" ELSE "swap")
  /\ raced' = IF session = 0 /\ Another(t, "newsession") THEN raced \union {"session"} ELSE raced
  /\ UNCHANGED <<conn, rows, consoles, memory, budget>>

CreateSession(t) ==
  /\ reqs[t].pc = "newsession"
  /\ session' = made + 1 /\ made' = made + 1
  /\ Goto(t, "swap")
  /\ UNCHANGED <<conn, rows, consoles, kept, raced, budget>>

Capturing(t) == reqs[t].pc \in {"execute", "restore"}

\* execute_file opens the file, below the code of the Space row, before it captures.
FileMissing(t) ==
  /\ reqs[t].pc = "swap" /\ reqs[t].kind = "file"
  /\ Goto(t, "respond")
  /\ UNCHANGED <<conn, rows, consoles, memory, raced, budget>>

\* execute_code captures in a new buffer, execute_file in the thread's own.
OutputBuffer(t) == IF reqs[t].kind = "code" THEN [buffer EXCEPT ![t] = {}] ELSE buffer

SwapStdout(t) ==
  LET others == {u \in Threads \ {t} : Capturing(u)} IN
  /\ reqs[t].pc = "swap"
  /\ reqs' = [reqs EXCEPT ![t] = [reqs[t] EXCEPT !.pc = "execute", !.old = stdout, !.session = session]]
  /\ stdout' = t
  /\ buffer' = OutputBuffer(t)
  /\ overlapped' = overlapped \union others \union (IF others = {} THEN {} ELSE {t})
  /\ UNCHANGED <<conn, rows, memory, raced, budget>>

\* The code prints to what sys.stdout is by now, and may raise. execute_code keeps its
\* variables in the session it looked up; execute_file starts from an empty context.
ExecuteCode(t) ==
  /\ reqs[t].pc = "execute"
  /\ buffer' = IF stdout = Console THEN buffer ELSE [buffer EXCEPT ![stdout] = @ \union {t}]
  /\ kept' = IF reqs[t].kind = "code" THEN reqs[t].session ELSE kept
  /\ Goto(t, "restore")
  /\ UNCHANGED <<conn, rows, stdout, overlapped, session, made, raced, budget>>

\* Seeded bug: sys.stdout is left alone when the code raised.
RestoreStdout_NotAfterError(t) ==
  /\ reqs[t].pc = "restore" /\ reqs[t].kind = "code"
  /\ stdout' \in {stdout, reqs[t].old}
  /\ Goto(t, "respond")
  /\ UNCHANGED <<conn, rows, buffer, overlapped, memory, raced, budget>>

RestoreStdout(t) ==
  /\ reqs[t].pc = "restore" /\ reqs[t].kind = "code"
  /\ stdout' = reqs[t].old
  /\ Goto(t, "respond")
  /\ UNCHANGED <<conn, rows, buffer, overlapped, memory, raced, budget>>

\* execute_file empties the thread's buffer and leaves the redirection, raised or not.
RedirectEnds(t) ==
  /\ reqs[t].pc = "restore" /\ reqs[t].kind = "file"
  /\ stdout' = reqs[t].old
  /\ buffer' = [buffer EXCEPT ![t] = {}]
  /\ Goto(t, "respond")
  /\ UNCHANGED <<conn, rows, overlapped, memory, raced, budget>>

-----------------------------------------------------------------------------

Init ==
  /\ conn = [t \in Threads |-> "public"]
  /\ reqs = [t \in Threads |-> Idle]
  /\ users = [a \in Schemas |-> {}]
  /\ spaces = [a \in Schemas |-> 0]
  /\ stdout = Console
  /\ buffer = [t \in Threads |-> {}]
  /\ session = 0 /\ made = 0 /\ kept = 0
  /\ overlapped = {}
  /\ raced = {}
  /\ budget = Budget

Begin(t) ==
  \/ \E space \in Asked :
       \/ BeginTask(t, space)
       \/ BeginRequest(t, space, "migrate", "none", FALSE)
       \/ \E kind \in {"data", "refresh", "code", "file"}, scheme \in {"jwt", "keycloak", "options"}, valid \in BOOLEAN :
            BeginRequest(t, space, kind, scheme, valid)
  \/ BeginExport(t)
  \/ \E kind \in {"command", "sweep"} : BeginCommand(t, kind)

Authenticate(t) ==
  AuthenticateBot(t) \/ AuthenticateJWT(t) \/ AuthenticateKeycloak(t) \/ CreateUser(t) \/ LookAgain(t)

View(t) == ViewReturns(t) \/ ViewRaises(t) \/ RecordError(t)
MovePath(t) ==
  \/ \E code \in Asked \union Schemas : GetByUserCode(t, code)
  \/ SyncStorage(t) \/ RegisterWorkflows(t) \/ LoadWorkflowsForSchema(t)
Migrate(t) ==
  \/ CreateSpaceIfNotExist(t) \/ MigrateFails(t) \/ CreateSpace(t) \/ CreateFinmarsBot(t)
  \/ NextSchema(t) \/ Sweep(t) \/ EndCommand(t)
Execute(t) ==
  FindSession(t) \/ CreateSession(t) \/ FileMissing(t) \/ SwapStdout(t) \/ ExecuteCode(t)
    \/ RestoreStdout(t) \/ RedirectEnds(t)

Next ==
  \E t \in Threads :
    Begin(t) \/ Authenticate(t) \/ View(t) \/ MovePath(t) \/ Migrate(t) \/ Execute(t) \/ EndRequest(t)

Spec == Init /\ [][Next]_vars

-----------------------------------------------------------------------------
(* Properties.                                                             *)

\* Where the database is read or written.
Accessing ==
  {"auth", "create", "again", "view", "sync", "load", "error", "rejected", "space", "newspace",
   "bot", "sweep"}

Pcs == Accessing \union
  {"idle", "respond", "next", "register", "session", "newsession", "swap", "execute", "restore"}

Request ==
  [pc : Pcs, named : Schemas \union {"none"},
   kind : {"none", "task", "export", "migrate", "data", "refresh", "code", "file", "command", "sweep"},
   space : Asked \union Schemas, scheme : {"none", "jwt", "keycloak", "options"}, valid : BOOLEAN,
   old : Threads \union {Console}, session : Nat, todo : SUBSET Schemas]

TypeOK ==
  /\ conn \in [Threads -> Schemas]
  /\ reqs \in [Threads -> Request]
  /\ users \in [Schemas -> SUBSET {User, Bot}] /\ spaces \in [Schemas -> Nat]
  /\ stdout \in Threads \union {Console} /\ buffer \in [Threads -> SUBSET Threads]
  /\ session \in Nat /\ made \in Nat /\ kept \in Nat
  /\ overlapped \subseteq Threads /\ raced \subseteq {"session", "space"}
  /\ budget \in 0..Budget

\* Every access of a request, a task or a command, its error record included, goes to
\* the schema of its space, or to the one that a code it looked up begins with: nothing
\* else moves it, not a refresh's detour over public and not the request before. The
\* connection is handed on pointing at public, where a task without a context finds it
\* (RealmAndSpaceMiddleware, set_schema_from_context, register_workflows, cleanup).
TenantIsolation ==
  \A t \in Threads :
    /\ reqs[t].pc \in Accessing => conn[t] \in {Tenant(reqs[t].space), reqs[t].named}
    /\ reqs[t].pc = "idle" => conn[t] = "public"

\* A request with a valid Keycloak token is admitted, also when two first requests of
\* the user create the user at the same time (authenticate_credentials).
ValidTokenAdmitted ==
  \A t \in Threads : reqs[t].pc = "rejected" /\ reqs[t].scheme = "keycloak" => ~reqs[t].valid

\* The result of an execution is what its own code printed, and the console comes
\* back when nobody executes, unless two executions overlapped (execute_code).
ConsoleIntact ==
  /\ overlapped = {} /\ (\A t \in Threads : ~Capturing(t)) => stdout = Console
  /\ \A t \in Threads : reqs[t].pc = "restore" /\ t \notin overlapped => buffer[t] = {t}

\* The variables of a user's earlier execution are still there for the next one,
\* unless two first requests found no session together (create_session).
ContextKept == kept # 0 /\ "session" \notin raced => session = kept

\* A schema has one Space row, the one that Space.objects.first() means everywhere,
\* unless two migrations of it overlapped (create_space_if_not_exist).
OneSpace == \A a \in Schemas : spaces[a] > 1 => "space" \in raced
=============================================================================
