---------------------------- MODULE Definitions ----------------------------
(***************************************************************************)
(* Where a workflow's definition and code come from. A template is a row   *)
(* in the database and a workflow.json file in the remote storage; the     *)
(* code of a version-1 step is a file in that storage. Each host copies    *)
(* the files into a local directory, each process keeps the definitions it *)
(* loaded from that directory in a dictionary, and every step copies its   *)
(* code again and imports it.                                              *)
(*                                                                         *)
(* Nothing is locked: the threads of the web process share one directory   *)
(* and one dictionary, a copy begins with the removal of what was there,   *)
(* and saving a file in the storage begins with its deletion. Most errors  *)
(* of a copy are logged and nothing else: the directory stays as it was,   *)
(* the file is skipped, the refresh answers "ok".                          *)
(*                                                                         *)
(* A definition and a code file are abstracted to a version; 0 stands for  *)
(* a file that is absent, truncated or unreadable, which every reader      *)
(* treats alike.                                                           *)
(***************************************************************************)
EXTENDS Naturals, FiniteSets

CONSTANTS
  Flows,        \* user codes of the workflows of one space
  Uploaded,     \* the workflows whose code is in the storage at first
  ModuleOf,     \* ModuleOf[f]: the module directory that holds f's directory
  WebThreads,   \* gunicorn threads: one process, one directory
  Workers,      \* Celery workers: each a process on a host of its own
  Encrypted,    \* SERVER_TYPE is not "local"
  Budget,       \* how many operations (requests, tasks, extra imports), changes of files and faults
  Web, None

ASSUME DefinitionsAssumption ==
  /\ ModuleOf \in [Flows -> {ModuleOf[f] : f \in Flows}]
  /\ WebThreads \intersect Workers = {} /\ Web \notin Workers
  /\ None \notin Flows /\ Uploaded \subseteq Flows
  /\ Encrypted \in BOOLEAN
  /\ Budget \in [ops : Nat, changes : Nat, faults : Nat]

VARIABLES
  template,    \* template[f]: version of the WorkflowTemplate row
  remote,      \* remote[x]: what the storage holds for file x
  local,       \* local[h][x]: the version of x in the directory of host h
  workflows,   \* workflows[h]: the dictionary of h's long-lived process
  child,       \* child[w]: the dictionary of the process that runs w's task
  registered,  \* registered[w]: thread-local function, <<flow, version>>
  ops,         \* ops[t]: the request or task that thread t executes
  torn,        \* history: torn[f]: the last edit of f was cut short, or overlapped another
  budget

vars == <<template, remote, local, workflows, child, registered, ops, torn, budget>>

Threads == WebThreads \union Workers
Hosts == Workers \union {Web}
HostOf(t) == IF t \in WebThreads THEN Web ELSE t
Files == Flows \X {"definition", "code"}
\* The copies of code files in the web process's directory are left out: only a
\* worker imports them.
FilesOf(h, S) == S \X (IF h = Web THEN {"definition"} ELSE {"definition", "code"})
MaxVersion == 1 + Budget.changes
Versions == 0..MaxVersion
NoFunction == <<None, 0>>

\* The outcomes that the properties speak of; the others are not told from idleness.
Told == {"notfound", "refreshed", "ran"}
Resting == Told \union {"idle"}
Idle == [kind |-> "none", pc |-> "idle", flow |-> None, scope |-> {}, then |-> "load",
         todo |-> {}, held |-> <<None, 0>>, seen |-> [x \in Files |-> 0],
         disturbed |-> {}, logged |-> {}, stuck |-> FALSE, used |-> NoFunction]

\* The end of a request or task: only its outcome is left.
Ends(op, outcome) ==
  IF outcome \in Told
    THEN [op EXCEPT !.pc = outcome, !.scope = {}, !.then = "load", !.todo = {}, !.held = <<None, 0>>]
    ELSE Idle

Free(t) == ops[t].pc \in Resting

\* The next of the files or flows in the order in which they are listed.
First(S) == CHOOSE x \in S : TRUE

\* The workflows an operation is about: its own, or all of them (a refresh).
About(op) == IF op.flow = None THEN Flows ELSE {op.flow}

\* History of an operation: the workflows it is about whose files or entries another thread
\* changed under it (disturbed), the files of theirs for which it only logged an error (logged),
\* and whether it could not remove a directory (stuck).
Disturb(op, S) ==
  IF op.pc \in Resting \ {"refreshed"} THEN op
  ELSE [op EXCEPT !.disturbed = @ \union (S \intersect About(op))]
Logged(op, X) == [op EXCEPT !.logged = @ \union {x \in X : x[1] \in About(op)}]

Becomes(t, op) == ops' = [ops EXCEPT ![t] = op]

\* A step of t that the other threads of its host can notice, in what they do with S.
BecomesAlone(t, op, S) ==
  ops' = [u \in Threads |->
            IF u = t THEN op
            ELSE IF HostOf(u) = HostOf(t) THEN Disturb(ops[u], S) ELSE ops[u]]

\* The same where every thread of every process can notice it.
BecomesPublic(t, op, S) ==
  ops' = [u \in Threads |-> IF u = t THEN op ELSE Disturb(ops[u], S)]

-----------------------------------------------------------------------------
(* The storage: content is encrypted on its way in and decrypted on its    *)
(* way out, except on a local server.                                      *)

Absent == [sealed |-> FALSE, version |-> 0]
Stored(v) == [sealed |-> Encrypted, version |-> v]
Opened(s) == IF s.sealed = Encrypted THEN s.version ELSE 0

\* The task files are written by the platform, which shares the storage.
UploadCode(f) ==
  /\ budget.changes > 0
  /\ remote' = [remote EXCEPT ![<<f, "code">>] = Stored(@.version + 1)]
  /\ budget' = [budget EXCEPT !.changes = @ - 1]
  /\ UNCHANGED <<template, local, workflows, child, registered, ops, torn>>

-----------------------------------------------------------------------------
(* WorkflowTemplateSerializer: the row first, then the file; storing the   *)
(* file deletes the old one before it writes the new one.                  *)

Editing(f) == {t \in Threads : ops[t].kind = "edit" /\ ops[t].flow = f /\ ops[t].pc \notin Resting}

\* A save that begins alone makes up for those that failed before it.
Overlapping(f) == [torn EXCEPT ![f] = Editing(f) # {}]

\* Seeded bug: update() does not write the file.
UpdateTemplate_RowOnly(t, f) ==
  /\ t \in WebThreads /\ Free(t) /\ budget.changes > 0
  /\ template' = [template EXCEPT ![f] = @ + 1]
  /\ Becomes(t, Idle)
  /\ torn' = Overlapping(f)
  /\ budget' = [budget EXCEPT !.changes = @ - 1]
  /\ UNCHANGED <<remote, local, workflows, child, registered>>

UpdateTemplate(t, f) ==
  /\ t \in WebThreads /\ Free(t) /\ budget.changes > 0
  /\ template' = [template EXCEPT ![f] = @ + 1]
  /\ Becomes(t, [Idle EXCEPT !.kind = "edit", !.flow = f, !.pc = "delete",
                           !.held = <<<<f, "definition">>, template[f] + 1>>])
  /\ torn' = Overlapping(f)
  /\ budget' = [budget EXCEPT !.changes = @ - 1]
  /\ UNCHANGED <<remote, local, workflows, child, registered>>

GetAvailableName(t) ==
  /\ ops[t].pc = "delete"
  /\ remote' = [remote EXCEPT ![ops[t].held[1]] = Absent]
  /\ BecomesPublic(t, [ops[t] EXCEPT !.pc = "put"], {ops[t].flow})
  /\ UNCHANGED <<template, local, workflows, child, registered, torn, budget>>

SaveToStorage(t) ==
  /\ ops[t].pc = "put"
  /\ remote' = [remote EXCEPT ![ops[t].held[1]] = Stored(ops[t].held[2])]
  /\ BecomesPublic(t, Ends(ops[t], "saved"), {ops[t].flow})
  /\ UNCHANGED <<template, local, workflows, child, registered, torn, budget>>

\* save_to_storage raises: the user code has another shape, or the storage refuses to
\* delete or to write. The row is saved already, and the old file may be gone.
SaveRaises(t) ==
  /\ ops[t].pc \in {"delete", "put"} /\ budget.faults > 0
  /\ torn' = [torn EXCEPT ![ops[t].flow] = TRUE]
  /\ Becomes(t, Ends(ops[t], "failed"))
  /\ budget' = [budget EXCEPT !.faults = @ - 1]
  /\ UNCHANGED <<template, remote, local, workflows, child, registered>>

-----------------------------------------------------------------------------
(* sync_remote_storage_to_local_storage_for_schema: remove the directory,  *)
(* then copy the files of the given kinds one by one.                      *)

Kinds == {"definition", "code"}

StartSync(t, op, scope, kinds, then) ==
  [op EXCEPT !.pc = "remove", !.scope = scope, !.then = then,
             !.todo = {x \in FilesOf(HostOf(t), scope) : x[2] \in kinds}]

\* Seeded bug: the entries of the directory are forgotten, not emptied.
RemoveDirectory_Forgets(t) ==
  /\ ops[t].pc = "remove"
  /\ local' = [local EXCEPT ![HostOf(t)] =
                 [x \in Files \ FilesOf(HostOf(t), ops[t].scope) |-> @[x]]]
  /\ BecomesAlone(t, [ops[t] EXCEPT !.pc = "copy"], ops[t].scope)
  /\ UNCHANGED <<template, remote, workflows, child, registered, torn, budget>>

RemoveDirectory(t) ==
  /\ ops[t].pc = "remove"
  /\ local' = [local EXCEPT ![HostOf(t)] =
                 [x \in Files |-> IF x \in FilesOf(HostOf(t), ops[t].scope) THEN 0 ELSE @[x]]]
  /\ BecomesAlone(t, [ops[t] EXCEPT !.pc = "copy"], ops[t].scope)
  /\ UNCHANGED <<template, remote, workflows, child, registered, torn, budget>>

\* rmtree raises with some of the files removed; the error is logged and the copy goes on.
RemoveRaises(t) ==
  /\ ops[t].pc = "remove" /\ budget.faults > 0
  /\ \E X \in SUBSET FilesOf(HostOf(t), ops[t].scope) :
       local' = [local EXCEPT ![HostOf(t)] = [x \in Files |-> IF x \in X THEN 0 ELSE @[x]]]
  /\ BecomesAlone(t, [ops[t] EXCEPT !.pc = "copy", !.stuck = TRUE], ops[t].scope)
  /\ budget' = [budget EXCEPT !.faults = @ - 1]
  /\ UNCHANGED <<template, remote, workflows, child, registered, torn>>

\* Read the next file; opening the local file for writing truncates it. A file that is
\* absent or cannot be decrypted is skipped.
ReadFile(t) ==
  /\ ops[t].pc = "copy" /\ ops[t].todo # {}
  /\ LET x == First(ops[t].todo)
         v == Opened(remote[x])
         op == [ops[t] EXCEPT !.todo = @ \ {x}] IN
     IF v = 0
       THEN Becomes(t, op) /\ UNCHANGED local
       ELSE /\ local' = [local EXCEPT ![HostOf(t)][x] = 0]
            /\ BecomesAlone(t, [op EXCEPT !.pc = "write", !.held = <<x, v>>], {x[1]})
  /\ UNCHANGED <<template, remote, workflows, child, registered, torn, budget>>

WriteFile(t) ==
  /\ ops[t].pc = "write"
  /\ local' = [local EXCEPT ![HostOf(t)][ops[t].held[1]] = ops[t].held[2]]
  /\ BecomesAlone(t, [ops[t] EXCEPT !.pc = "copy", !.held = <<None, 0>>], {ops[t].held[1][1]})
  /\ UNCHANGED <<template, remote, workflows, child, registered, torn, budget>>

\* Reading one file, or writing it after it was truncated, raises: logged, and the next.
CopyRaises(t) ==
  /\ budget.faults > 0
  /\ \/ /\ ops[t].pc = "copy" /\ ops[t].todo # {}
        /\ LET x == First(ops[t].todo) IN
             Becomes(t, Logged([ops[t] EXCEPT !.todo = @ \ {x}], {x}))
     \/ /\ ops[t].pc = "write"
        /\ Becomes(t, Logged([ops[t] EXCEPT !.pc = "copy", !.held = <<None, 0>>], {ops[t].held[1]}))
  /\ budget' = [budget EXCEPT !.faults = @ - 1]
  /\ UNCHANGED <<template, remote, local, workflows, child, registered, torn>>

SyncDone(t) ==
  /\ ops[t].pc = "copy" /\ ops[t].todo = {}
  /\ Becomes(t, [ops[t] EXCEPT !.pc = ops[t].then,
                               !.todo = IF ops[t].then = "load" THEN Flows ELSE {}])
  /\ UNCHANGED <<template, remote, local, workflows, child, registered, torn, budget>>

\* Listing a directory of the storage raises, after the local one was removed, or the
\* synchronisation raises before that. The refresh view logs it and answers "ok".
StorageFails(t) ==
  /\ ops[t].pc \in {"remove", "copy"} /\ budget.faults > 0
  /\ Becomes(t, IF ops[t].kind = "refresh" THEN Ends(Logged(ops[t], Files), "refreshed")
                                           ELSE Ends(ops[t], "failed"))
  /\ budget' = [budget EXCEPT !.faults = @ - 1]
  /\ UNCHANGED <<template, remote, local, workflows, child, registered, torn>>

-----------------------------------------------------------------------------
(* register_workflows and load_workflows_for_schema: every definition that *)
(* can be read replaces the entry of the dictionary; no entry is removed.  *)

Known(t) == IF t \in WebThreads THEN workflows[Web] ELSE child[t]

\* Seeded bug: the dictionary is rebuilt from the directory.
LoadDefinition_Rebuilds(t) ==
  /\ ops[t].pc = "load" /\ ops[t].todo # {}
  /\ LET d == [f \in Flows |-> local[HostOf(t)][<<f, "definition">>]] IN
     IF t \in WebThreads
       THEN workflows' = [workflows EXCEPT ![Web] = d] /\ UNCHANGED child
       ELSE child' = [child EXCEPT ![t] = d] /\ UNCHANGED workflows
  /\ BecomesAlone(t, [ops[t] EXCEPT !.todo = {}], Flows)
  /\ UNCHANGED <<template, remote, local, registered, torn, budget>>

\* Seeded bug: an entry that is there already is kept.
LoadDefinition_KeepsOld(t) ==
  /\ ops[t].pc = "load" /\ ops[t].todo # {}
  /\ LET f == First(ops[t].todo)
         v == local[HostOf(t)][<<f, "definition">>]
         op == [ops[t] EXCEPT !.todo = @ \ {f}] IN
     Becomes(t, IF v = 0 \/ Known(t)[f] # 0 THEN op
                ELSE [op EXCEPT !.pc = "enter", !.held = <<<<f, "definition">>, v>>])
  /\ UNCHANGED <<template, remote, local, workflows, child, registered, torn, budget>>

LoadDefinition(t) ==
  /\ ops[t].pc = "load" /\ ops[t].todo # {}
  /\ LET f == First(ops[t].todo)
         v == local[HostOf(t)][<<f, "definition">>]
         op == [ops[t] EXCEPT !.todo = @ \ {f}] IN
     Becomes(t, IF v = 0 THEN op
                ELSE [op EXCEPT !.pc = "enter", !.held = <<<<f, "definition">>, v>>])
  /\ UNCHANGED <<template, remote, local, workflows, child, registered, torn, budget>>

EnterDefinition(t) ==
  /\ ops[t].pc = "enter"
  /\ LET f == ops[t].held[1][1] IN
     IF t \in WebThreads
       THEN workflows' = [workflows EXCEPT ![Web][f] = ops[t].held[2]] /\ UNCHANGED child
       ELSE child' = [child EXCEPT ![t][f] = ops[t].held[2]] /\ UNCHANGED workflows
  /\ BecomesAlone(t, [ops[t] EXCEPT !.pc = "load", !.held = <<None, 0>>], {ops[t].held[1][1]})
  /\ UNCHANGED <<template, remote, local, registered, torn, budget>>

\* A file that is there cannot be opened, or the loading breaks off; both are only logged.
LoadRaises(t) ==
  /\ ops[t].pc = "load" /\ ops[t].todo # {} /\ budget.faults > 0
  /\ \E S \in {{First(ops[t].todo)}, ops[t].todo} :
       Becomes(t, Logged([ops[t] EXCEPT !.todo = @ \ S], S \X {"definition"}))
  /\ budget' = [budget EXCEPT !.faults = @ - 1]
  /\ UNCHANGED <<template, remote, local, workflows, child, registered, torn>>

RegisterDone(t) ==
  /\ ops[t].pc = "load" /\ ops[t].todo = {} /\ ops[t].kind = "refresh"
  /\ Becomes(t, Ends(ops[t], "refreshed"))
  /\ UNCHANGED <<template, remote, local, workflows, child, registered, torn, budget>>

-----------------------------------------------------------------------------
(* get_by_user_code(user_code, sync_remote=True): the dictionary, or else  *)
(* the whole module directory is copied and the space registered again.    *)

\* Seeded bug: a step imports the code its host copied before.
Found_NoSync(t) ==
  IF ops[t].kind = "step" THEN [ops[t] EXCEPT !.pc = "import", !.scope = {}]
                          ELSE [ops[t] EXCEPT !.pc = "build"]

Found(t) ==
  IF ops[t].kind = "step"
    THEN StartSync(t, ops[t], {ops[t].flow}, Kinds, "import")
    ELSE [ops[t] EXCEPT !.pc = "build"]

\* The builder looks the workflow up again for its tasks, hooks, queue and imports,
\* and raises when it is not there; it never copies.
GetTasks(t) ==
  /\ ops[t].pc = "build"
  /\ Becomes(t, Ends(ops[t], IF Known(t)[ops[t].flow] # 0 THEN "launched" ELSE "failed"))
  /\ UNCHANGED <<template, remote, local, workflows, child, registered, torn, budget>>

\* run_new_workflow starts no workflow that is itself a manager.
RefuseManager(w) ==
  /\ w \in Workers /\ ops[w].pc = "build"
  /\ Becomes(w, Ends(ops[w], "failed"))
  /\ UNCHANGED <<template, remote, local, workflows, child, registered, torn, budget>>

\* Seeded bug: a miss is final.
GetByUserCode_NoSync(t) ==
  /\ ops[t].pc = "lookup"
  /\ Becomes(t, IF Known(t)[ops[t].flow] # 0 THEN Found(t) ELSE Ends(ops[t], "notfound"))
  /\ UNCHANGED <<template, remote, local, workflows, child, registered, torn, budget>>

GetByUserCode(t) ==
  /\ ops[t].pc = "lookup"
  /\ Becomes(t, IF Known(t)[ops[t].flow] # 0 THEN Found(t)
                ELSE StartSync(t, ops[t], {f \in Flows : ModuleOf[f] = ModuleOf[ops[t].flow]}, Kinds, "load"))
  /\ UNCHANGED <<template, remote, local, workflows, child, registered, torn, budget>>

GetAfterSync(t) ==
  /\ ops[t].pc = "load" /\ ops[t].todo = {} /\ ops[t].kind # "refresh"
  /\ Becomes(t, IF Known(t)[ops[t].flow] # 0 THEN Found(t) ELSE Ends(ops[t], "notfound"))
  /\ UNCHANGED <<template, remote, local, workflows, child, registered, torn, budget>>

-----------------------------------------------------------------------------
(* The requests and the task that use them.                                *)

Begin(t, op) ==
  /\ Free(t) /\ budget.ops > 0
  /\ Becomes(t, [op EXCEPT !.seen = [x \in Files |->
                  IF x \in FilesOf(HostOf(t), About(op))
                    THEN Opened(remote[x]) ELSE 0]])
  /\ budget' = [budget EXCEPT !.ops = @ - 1]

RunWorkflow(t, f) ==
  /\ t \in WebThreads
  /\ Begin(t, [Idle EXCEPT !.kind = "launch", !.flow = f, !.pc = "lookup"])
  /\ UNCHANGED <<template, remote, local, workflows, child, registered, torn>>

\* relaunch starts the workflow of an earlier run again.
Relaunch(t, f) == RunWorkflow(t, f)

\* A step of a manager workflow starts another workflow; so does the task execute.
RunNewWorkflow(w, f) ==
  /\ w \in Workers
  /\ Begin(w, [Idle EXCEPT !.kind = "launch", !.flow = f, !.pc = "lookup"])
  /\ UNCHANGED <<template, remote, local, workflows, child, registered, torn>>

RefreshStorage(t) ==
  /\ t \in WebThreads
  /\ Begin(t, StartSync(t, [Idle EXCEPT !.kind = "refresh"], Flows, Kinds, "load"))
  /\ UNCHANGED <<template, remote, local, workflows, child, registered, torn>>

\* Seeded bug: the function of the previous task is not cleared.
ExecuteStep_KeepsFunction(w, f) ==
  /\ w \in Workers
  /\ Begin(w, [Idle EXCEPT !.kind = "step", !.flow = f, !.pc = "lookup"])
  /\ UNCHANGED <<template, remote, local, workflows, child, registered, torn>>

ExecuteStep(w, f) ==
  /\ w \in Workers
  /\ Begin(w, [Idle EXCEPT !.kind = "step", !.flow = f, !.pc = "lookup"])
  /\ registered' = [registered EXCEPT ![w] = NoFunction]
  /\ UNCHANGED <<template, remote, local, workflows, child, torn>>

\* The step's "imports" name other directories, or its own, with a pattern for the files.
SyncImports(w, f, kinds) ==
  /\ ops[w].pc = "import" /\ budget.ops > 0
  /\ Becomes(w, StartSync(w, ops[w], {f}, kinds, "import"))
  /\ budget' = [budget EXCEPT !.ops = @ - 1]
  /\ UNCHANGED <<template, remote, local, workflows, child, registered, torn>>

\* Importing the file runs the task decorator, which registers its function.
ImportUserTasks(w) ==
  /\ ops[w].pc = "import"
  /\ LET v == local[HostOf(w)][<<ops[w].flow, "code">>] IN
     registered' = [registered EXCEPT ![w] = IF v = 0 THEN @ ELSE <<ops[w].flow, v>>]
  /\ Becomes(w, [ops[w] EXCEPT !.pc = "call"])
  /\ UNCHANGED <<template, remote, local, workflows, child, torn, budget>>

CallFunction(w) ==
  /\ ops[w].pc = "call"
  /\ Becomes(w, IF registered[w] = NoFunction
                  THEN Ends(ops[w], "nofunction")
                  ELSE [Ends(ops[w], "ran") EXCEPT !.used = registered[w]])
  /\ UNCHANGED <<template, remote, local, workflows, child, registered, torn, budget>>

-----------------------------------------------------------------------------
(* Processes come and go.                                                  *)

\* The pool replaces the process that runs tasks by a fork of the parent.
RecycleChild(w) ==
  /\ w \in Workers /\ Free(w)
  /\ <<child[w], registered[w]>> # <<workflows[w], NoFunction>>
  /\ child' = [child EXCEPT ![w] = workflows[w]]
  /\ registered' = [registered EXCEPT ![w] = NoFunction]
  /\ UNCHANGED <<template, remote, local, workflows, ops, torn, budget>>

\* A process dies with what it was doing; the new one registers what the
\* directory holds, without a copy from the storage.
Restart(h) ==
  LET d == [f \in Flows |-> local[h][<<f, "definition">>]] IN
  /\ budget.faults > 0
  /\ workflows' = [workflows EXCEPT ![h] = d]
  /\ child' = IF h \in Workers THEN [child EXCEPT ![h] = d] ELSE child
  /\ registered' = IF h \in Workers THEN [registered EXCEPT ![h] = NoFunction] ELSE registered
  /\ ops' = [t \in Threads |-> IF HostOf(t) = h THEN Idle ELSE ops[t]]
  /\ torn' = [f \in Flows |-> torn[f] \/ \E t \in Editing(f) : HostOf(t) = h]
  /\ budget' = [budget EXCEPT !.faults = @ - 1]
  /\ UNCHANGED <<template, remote, local>>

-----------------------------------------------------------------------------

\* Every template was saved once; no host has copied anything yet.
Init ==
  /\ template = [f \in Flows |-> 1]
  /\ remote = [x \in Files |-> IF x[2] = "definition" \/ x[1] \in Uploaded THEN Stored(1) ELSE Absent]
  /\ local = [h \in Hosts |-> [x \in Files |-> 0]]
  /\ workflows = [h \in Hosts |-> [f \in Flows |-> 0]]
  /\ child = [w \in Workers |-> [f \in Flows |-> 0]]
  /\ registered = [w \in Workers |-> NoFunction]
  /\ ops = [t \in Threads |-> Idle]
  /\ torn = [f \in Flows |-> FALSE]
  /\ budget = Budget

Sync(t) ==
  \/ RemoveDirectory(t) \/ RemoveRaises(t) \/ ReadFile(t) \/ WriteFile(t) \/ CopyRaises(t)
  \/ SyncDone(t) \/ StorageFails(t)
Register(t) == LoadDefinition(t) \/ EnterDefinition(t) \/ LoadRaises(t) \/ RegisterDone(t)

Next ==
  \/ \E f \in Flows : UploadCode(f)
  \/ \E t \in Threads, f \in Flows :
       \/ UpdateTemplate(t, f) \/ RunWorkflow(t, f) \/ Relaunch(t, f)
       \/ RunNewWorkflow(t, f) \/ ExecuteStep(t, f)
  \/ \E t \in Threads :
       \/ GetAvailableName(t) \/ SaveToStorage(t) \/ SaveRaises(t) \/ RefreshStorage(t)
       \/ GetByUserCode(t) \/ GetAfterSync(t) \/ GetTasks(t) \/ RefuseManager(t) \/ Sync(t) \/ Register(t)
       \/ \E f \in Flows, kinds \in SUBSET Kinds : SyncImports(t, f, kinds)
       \/ ImportUserTasks(t) \/ CallFunction(t) \/ RecycleChild(t)
  \/ \E h \in Hosts : Restart(h)

Spec == Init /\ [][Next]_vars

-----------------------------------------------------------------------------
(* Properties.                                                             *)

Pcs == Resting \union
  {"delete", "put", "remove", "copy", "write", "load", "enter", "lookup", "build", "import", "call"}
Op == [kind : {"none", "edit", "launch", "refresh", "step"}, pc : Pcs, flow : Flows \union {None},
       scope : SUBSET Flows, then : {"load", "import"}, todo : SUBSET (Files \union Flows),
       held : (Files \union {None}) \X Versions, seen : [Files -> Versions],
       disturbed : SUBSET Flows, logged : SUBSET Files, stuck : BOOLEAN,
       used : (Flows \union {None}) \X Versions]

TypeOK ==
  /\ template \in [Flows -> Versions]
  /\ remote \in [Files -> [sealed : BOOLEAN, version : Versions]]
  /\ local \in [Hosts -> [Files -> Versions]]
  /\ workflows \in [Hosts -> [Flows -> Versions]]
  /\ child \in [Workers -> [Flows -> Versions]]
  /\ registered \in [Workers -> (Flows \union {None}) \X Versions]
  /\ ops \in [Threads -> Op]
  /\ torn \in [Flows -> BOOLEAN]
  /\ budget \in [ops : Nat, changes : Nat, faults : Nat]

\* A workflow whose definition was in the storage when the request came is reported as not
\* found only if another thread of the process, or an edit, changed the files of this very
\* workflow meanwhile, or an error with its own file was logged: no copy, edit or error that
\* concerns other workflows makes get_by_user_code raise WorkflowNotFound.
NotFoundIsReal ==
  \A t \in Threads : LET f == ops[t].flow IN
    ops[t].pc = "notfound" /\ f \notin ops[t].disturbed /\ <<f, "definition">> \notin ops[t].logged =>
      ops[t].seen[<<f, "definition">>] = 0

\* A step runs code at least as new as the storage held when the step began: the copies that
\* precede the import hide every older file, cached or left behind by an aborted copy,
\* whatever else happens meanwhile (execute_workflow_step). It takes two logged errors to run
\* old code: the directory was not removed, and the file was not copied over it.
FreshCode ==
  \A w \in Workers : LET x == <<ops[w].flow, "code">> IN
    ops[w].pc = "ran" /\ ~(ops[w].stuck /\ x \in ops[w].logged) => ops[w].used[2] >= ops[w].seen[x]

\* A step never runs the function another workflow's import left behind in the
\* thread, not even when its own file is missing (clear_registered_task).
RightFunction ==
  \A w \in Workers : ops[w].pc = "ran" => ops[w].used[1] = ops[w].flow

\* When a refresh has answered, the web process knows every definition in the version the
\* storage held, or newer, except where an error with that very file was logged or another
\* thread or an edit changed it: what goes wrong with one file does not keep the others from
\* being refreshed, unless the storage itself fails (RefreshStorageViewSet answers "ok" then too).
RefreshTakesEffect ==
  \A t \in WebThreads, f \in Flows : LET x == <<f, "definition">> IN
    ops[t].pc = "refreshed" /\ f \notin ops[t].disturbed /\ x \notin ops[t].logged =>
      workflows[Web][f] >= ops[t].seen[x]

\* The file of a template agrees with its row whenever nobody is saving it, unless the last
\* save failed, was cut short or overlapped another one; a save that runs alone puts the two
\* in step again, whatever the saves before it left behind (WorkflowTemplateSerializer).
FileFollowsRow ==
  \A f \in Flows :
    Editing(f) = {} /\ ~torn[f] => Opened(remote[<<f, "definition">>]) = template[f]

\* A definition that the web process knows stays known while it lives, even when
\* the directory was emptied and the storage cannot be read (register_workflows).
KnownStaysKnown ==
  [][~Restart(Web) =>
       \A f \in Flows : workflows[Web][f] # 0 => workflows'[Web][f] # 0]_vars
=============================================================================
