# Finmars Workflow: a TLA+ verification project

Finmars Workflow runs user-defined workflows: Python steps, arranged as a chain
(version 1) or as a graph (version 2), executed by Celery worker processes that
share a PostgreSQL database and a RabbitMQ broker. A Django REST API starts,
pauses, resumes and cancels them.

The difficulty of the program lies in what is not in any single function. Several
worker processes and API threads read a row, work for a while, and save the *whole*
row back; messages are acknowledged late and may be delivered twice; a step may launch
another workflow that finishes before the step does. Nothing takes a lock and no
engine transition is in a transaction. Around the engines the same pattern returns: a
directory that is emptied before it is filled, a schedule that is saved twice, a status
that is reported after it was written, a connection that outlives its request. This project
models those interactions, checks them with TLC on small instances, and proves with TLAPS, for
every size of the system, the safety properties of all six models: order, refinement, single
execution, branching and nested outcomes in the engines, isolation, freshness and reporting around
them. Liveness is model-checked.

## 1. Inventory of the system

| Component | State | Operations | Interacts with |
|---|---|---|---|
| **Graph engine** (`tasks/workflows.py`, `models.py`, `tasks/base.py`, `utils.py`) | `Workflow` and `Task` rows; broker messages; the copy of a row a worker holds | `execute_workflow_v2`, `process_next_node`, `execute_workflow_step`, `before_start`, `on_success`, `on_failure`, `handle_task_success`, `are_inputs_ready`, `get_next_node_by_condition` | broker, database, child and parent workflows, API |
| **Chain engine** (`builder.py`, `tasks/workflows.py`) | the same rows; the Celery canvas; result backend | `WorkflowBuilder.build/run`, `start`, steps, groups, `end`, `failure_hooks_launcher`, hooks | broker, result backend, API |
| **Workflow API** (`views.py`) | none of its own; it holds row copies during a request | run, pause, resume, cancel, bulk cancel, bulk delete, relaunch | both engines through the rows and the broker |
| **Platform report** (`models.Workflow.save`, `utils.send_alert`) | the platform's view of a task | report on every save with a platform task id; alert after a failure | engines, remote platform |
| **Platform client** (`finmars.py`) | the call a step is in, its retry counter | start a task, procedure, import or workflow; wait for it; get a secret | steps, remote platform |
| **Schedules** (`schedulers.py`, `models.Schedule`, `execute`) | `Schedule` rows, a timestamp per schema, beat's entries and last timestamp | save, enable, delete, run by hand, poll, send, `execute`, overlap test | definitions, engines |
| **Definitions** (`system.py`, `apps.py`, `serializers.py`, `api.py`) | template rows, files in the storage, a directory per host, a dictionary per process, a function per thread | save a template, synchronise, register, look up, import and call | storage, engines, schedules |
| **Worker restart** (`system.py`) | rows carrying a worker's name | `cancel_all_existing_tasks` | engines |
| **Tenant context** (`middleware.py`, `utils.py`, `tasks/base.py`, `management/commands`) | `search_path` of a reused connection; `Space` and `User` rows | set on request, task and command, reset afterwards; bootstrap of a schema | every component |
| **Authentication** (`authentication.py`) | `User` rows | JWT, Keycloak, bot for OPTIONS; create a missing user | tenant context |
| **User sessions** (`user_sessions.py`) | a session per user, process-wide `sys.stdout`, a buffer per thread | execute code, execute a file | API threads |
| **File storage** (`storage.py`) | files, encrypted except on a local server | save (delete, then write), open, list | definitions |
| **Error formatting** (`finmars_standardized_errors`) | error records in the tenant's schema | record | tenant context |
| **Monitoring**, **serializers**, **health check**, **settings** | none that several steps share | formatting, configuration | |

Hard behaviours, and what being correct means:

* *Join*: several inputs of a node finish on several workers. No node may start before
  all its inputs are complete, the last input must start it, and it should start once.
* *Nesting*: the parent's step waits in `nested-progress`; only the child completes it,
  and the child's failure must reach every ancestor.
* *Pause/resume*: a message that meets a paused workflow is parked in
  `current_node_id`; resuming must continue every parked branch and repeat nothing.
* *Cancel*: API and workers write the same rows; a cancelled workflow should stay so.
* *Crash*: with `CELERY_TASK_ACKS_LATE` and `REJECT_ON_WORKER_LOST` the message of a
  lost worker is executed again from its start.
* *Hard time limit*: kills the worker child inside an inline step.
* *Chain*: order of stages, success only when everything ran, failure never undone,
  hooks at the end.
* *Definitions*: readers meet half-copied directories; what was in the storage must be
  found, a step must not run old code or another workflow's function.
* *Schedules*: changes are noticed by polling; a schedule is to run once per period, and
  runs of one workflow are not to overlap.
* *Platform*: answers are lost, jobs never finish; no worker may wait for ever, and the
  platform must learn how a workflow ended.
* *Tenants*: threads share connections, rows and `sys.stdout`; no access may go to another
  tenant's schema.

The complete list of hazards, each at its source line with the properties that cover
it, is in `PROJECT.json` (`hazards`), as are the components and their status.

## 2. Modules

```
WorkflowEngine  <-EXTENDS-  WorkflowEngineMC      (templates, fault budgets; TLC)
                <-EXTENDS-  WorkflowEngineProofs  <-EXTENDS-  WorkflowEngineRefinement
                                                  <-EXTENDS-  WorkflowEngineTrees      (TLAPS)
                --INSTANCE->  Dataflow            (what the engine promises)
WorkflowChain   <-EXTENDS-  WorkflowChainMC       (chains, fault budgets; TLC)
                <-EXTENDS-  WorkflowChainProofs   (TLAPS)
Definitions     <-EXTENDS-  DefinitionsMC,    DefinitionsProofs
Schedules       <-EXTENDS-  SchedulesMC,      SchedulesProofs
PlatformClient  <-EXTENDS-  PlatformClientMC, PlatformClientProofs
TenantRequests  <-EXTENDS-  TenantRequestsMC, TenantRequestsProofs
```

The two engines share tables and hooks in the source (`BaseTask`, `on_failure`,
`Workflow.cancel`), but a workflow row belongs to one of them; each module models the
shared handlers as they behave for its version.

### 2.1 `WorkflowEngine`: the version-2 graph engine

State and code:

| Variable | In the program |
|---|---|
| `wf[i]` | `Workflow` row: `status`, `current_node_id`, parent workflow and the parent's node (the relation through which `handle_task_success` and `on_failure` find the parent's task), template |
| `tasks[t]` | `Task` row: workflow, node, status. Primary keys ascend |
| `queue[i][m]` | messages for workflow `i`: `process_next_node` for node `m`, or `execute_workflow_v2` when `m` is `Launch` |
| `job[w]` | what worker process `w` is executing: the unacknowledged message, the place reached, the step's own row (`step`) and the row being handled (`row`, which moves to the parents) |
| `api[c]` | the API request that web thread `c` is in, between its read, its check and its save, with the values read |
| `won` | history: rows `handle_task_success` ever saved as `success` |
| `doubled[i]` | history: resume requests of workflow `i` saved while another one was in progress |
| `budget` | remaining pauses, resumes, cancels, crashes and kills |

One action per stretch of code between two points where another process's write can
change the outcome:

* `ExecuteWorkflowV2`, `DispatchStartNodes`: the launch task;
* `FetchWorkflow`, `Park`, `CheckInputs`, `CreateTask`: `process_next_node`;
  the row read in `FetchWorkflow` is what `Park` saves, stale;
* `BeforeStart`, `Log`, `Delegate`, `SaveNestedProgress`, `UserCodeRaises`:
  `execute_workflow_step`, run inline; `Log` is `self.log()` called by user code, which
  saves the step's copy of the row;
* `OnSuccess`, `Advance`, `WrongConditionResult`, `CompleteParentTask`: `on_success` and
  `handle_task_success`, recursively up the parents;
* `OnFailure`: the `task_failure` and internal-error handler, once per ancestor;
* `Crash` (redelivery), `LostBeforeAck` (the worker is lost after the handler's last write and before the
  acknowledgement, so that what it sent and saved stays and its message comes again), `HardTimeLimit`;
* `PauseRead/Save`, `ResumeRead/Check/Save`, `CancelRead`, `CancelTask`, `CancelSave`, by any number of web
  threads at once: nothing keeps two resume requests from both finding the workflow paused.

Abstractions. Payloads, results and error texts are left out, except a condition's
result, which is a free choice of branch or a result without its key. A read and a
save with no user code and no remote call in between is one step; the loop that
publishes messages for several next nodes is one step. A web thread is in one request at a time;
requests of several threads interleave with each other and with the workers.

### 2.2 `WorkflowChain`: the version-1 chain engine

`status` and `rows` are the Workflow and Task rows of one workflow, `result` the Celery
result backend, `chords` the unlock tasks of groups, `queue` and `job` as above,
`revoked` the revocations broadcast to workers, `builder` the progress of
`WorkflowBuilder.run`, `ran` the history of steps whose code returned. Celery's canvas is
external: a task that returned sends the next stage, then stores its result, then its
`on_success` runs, then the message is acknowledged (`SendStage`, `ChordUnlock`,
`Acknowledge`, `DiscardRevoked`, `KillRevoked`). A worker lost before that repeats its task,
`start` and `end` too, so that two copies of the chain can be under way. The remaining actions are the program's: `NewTask`,
`Run`, `RunFails`, `Start`, `StartStep`, `StepReturns`, `OnSuccess`, `UserCodeRaises`,
`OnFailure`, `End`, `FailureHooksLauncher`, `LauncherFails` and the cancel, pause and resume requests,
which look at no version and so act on a chain as on a graph: the chain goes on under `wait`, and a save
writes back the row that the request read. `BuildFails` is a builder that raises (a malformed or vanished
definition) after the rows were saved. `template` is whether a WorkflowTemplate with the same code exists, which
`execute_workflow` attaches whatever the version; `on_success` then takes the path of a graph and raises.
`Restart` is a restart of the whole worker node: what its processes were executing is
delivered again, the revocations they remembered are gone, and
`cancel_all_existing_tasks` cancels the rows in progress that carry its name.

### 2.3 `Dataflow`: the abstract specification of the graph engine

Three sets: the nodes that were started, those that were completed, and the workflows
that were launched. A node starts when the nodes that feed it are complete; a delegating
node is complete when a last node of the workflow it launched is. `WorkflowEngine`
instantiates it twice, with `started` read off the rows, `completed` off `won` and
`launched` off the parent relation of the workflow rows:

* `Order` ignores nesting (`Delegating <- {}`). The engine implements it under failures,
  cancels, crashes, redelivery and stale saves (`KeepsOrder`).
* `Nesting` has every delegating node. The engine implements it under pauses and kills
  (`KeepsNesting`), not under cancel: a cancel between `SaveNestedProgress` and
  `OnSuccess` changes the row from `nested-progress` to `canceled`, and `on_success`, which
  looks only for `nested-progress`, completes the parent's task while the child still runs.

### 2.4 `Definitions`: where definitions and code come from

`template` and `remote` are the row and the stored files, `local[h]` the directory of a
host, `workflows[h]` the dictionary of its long-lived process, `child[w]` that of the
pool process that runs a worker's task, `registered[w]` the thread-local function that an
import leaves behind, `ops[t]` the request or step a thread is in. Files are copied one
by one (`RemoveDirectory`, `ReadFile`, `WriteFile`), entries replaced one by one
(`LoadDefinition`, `EnterDefinition`), so that every other thread of the host can read
between two of them. Content is a version
number; version 0 is a file that is absent, truncated or does not decrypt, because every
reader skips all three. The faults are those the code meets, and what it does about them: a directory
that cannot be removed (`RemoveRaises`), a file that cannot be read, written or loaded
(`CopyRaises`, `LoadRaises`) and a refresh whose storage fails (`StorageFails`) are logged and nothing
else; other operations raise; `SaveRaises` leaves a saved row without its file; `Restart` cuts everything
short.

History, per operation: `seen` is what the storage held when it began, `disturbed` the workflows it is about whose files or
entries another thread, or an edit, changed under it, `logged` the files for which it only logged an error, `stuck` that a
directory was not removed. `NotFoundIsReal` and `RefreshTakesEffect` are promised workflow by workflow: what happens to
one workflow's file is no excuse for another's. `FreshCode` exempts a step only when both of two errors
happened to it. `torn[f]` says that the last save of template `f` failed, was cut short or overlapped another; a
later save that runs alone puts row and file in step again (`FileFollowsRow`).

### 2.5 `Schedules`: beat and periodic runs

`rows` and `lastUpdate` are the database, `entries`, `lastSeen` and `beat` the scheduler,
`queue` the `execute` messages, `runs` the workflows they make. A crontab line is
abstracted to a period. django-celery-beat and PeriodicTasks are external; the program's
own are the read over all schemas, the comparison of timestamps, `Schedule.save`,
`run_manual`, `execute` and `is_workflow_already_running`. That a run asks that question
first, and ends when the answer is yes, is up to the workflow's author; the model has
the author do what the comment in `BaseTask` describes. An edit reads the row (`ReadSchedule`) and later saves all
of it (`SaveSchedule`), `last_run_at` included, whatever was written in between; any number of
requests may be about the same schedule. `repeats[s]` counts the two events that make a schedule due again in the same period. A
run has a `status`, which others see, and a `phase`, which is what its steps do: the first last node, a failing branch, a
cancel or a pause changes the status while steps go on (`CloseEarly`, `PauseWorkflow`), and `left` remembers it.

### 2.6 `PlatformClient`: calls, waits and reports

`calls[c]` is the call a worker is in with its retry counter, `job[c]` the platform job
behind it. `JobStep` for a workflow needs an idle worker, since the workers that wait are
the ones that would execute it. `row`, `hasTasks` and `saves` are the reported workflow and
the saves in progress, `platform` the platform's view of it, `alerted` whether a failure
was announced. `setting` is chosen at first: whether the space has a realm (without one there is no address for
reports and secrets), whether a platform task stands for the workflow, and whether its parent's task can be found. An
answer may be lost after the job began, and a request may never be answered (`NoAnswer`): no request has a timeout, so that
only Celery's limits end it (`TimeLimit`). `on_failure` saves, reports, looks for the parent and alerts, in this order, and the lookup may
raise; `send_alert` does nothing about a timeout. `CreateTask` is guarded by no status, and `early`
remembers a final status that was saved before there was a Task row to report it with.

### 2.7 `TenantRequests`: what threads share

`conn[t]` is the `search_path` of a thread's connection, `reqs[t]` the request, task or
command it executes. Each stage of a request at which the database is used (authentication, the view, the error record,
migration, a command's sweep, the parts of a refresh) is a `pc`, and `TenantIsolation` speaks about each of these stages, not
about single queries. The path is moved by the middleware, by a task's context and by commands, and also in the middle of a
request: `get_by_user_code` moves it to the schema that the looked-up code begins with and leaves it there (`named`), a refresh takes it over
`public` and back. `BeginExport` is the task that sets no schema. `users` and `spaces` are the rows that
authentication and bootstrap create when they are missing; `stdout`, `buffer` and `session`
belong to the code executions. `overlapped` and `raced` are history: the places where the
code gives no guarantee when two threads meet.

### 2.8 Seeded bugs

A definition `Name_Variant` marked *Seeded bug* stands directly before `Name`. It is
`Name` with a plausible mistake, is used by no action, and exists to show that a
property notices it when it takes the place of `Name` (`mutants` in `PROJECT.json`).

## 3. Runs

Passing:

| Run | Instance | Checks | Shows |
|---|---|---|---|
| `engine_faults` | nested workflow joined with a plain node, 2 workers, 4 rows, failures, 1 cancel, 1 crash (anywhere, also after the last write) | `DependencyOrder`, `KeepsOrder` | no node starts before its inputs completed, also across a redelivered join and stale saves; every step is a step of the abstract dataflow |
| `engine_tree` | join, fork and condition (two connections on one output), 2 workers, failures and timeouts | `NoLostNode`, `OneBranchTaken`, `EveryWorkflowEnds` | the last input of a join always starts it; exactly one branch; everything ends |
| `engine_pause` | fork into a nested workflow and a condition, 1 pause, 3 resumes by 2 web threads, 1 killed step | `TypeOK`, `NodeRunsOnce`, `KeepsNesting` | a first pause repeats a node at most once for each resume that was saved while another was in progress; the parent's task is completed only by the child |
| `engine_nested` | three levels, one worker process, failures and timeouts | `NestedOutcome`, `EveryWorkflowEnds` | the child's outcome reaches the parents, and one worker suffices: no step waits for its child while it occupies the worker |
| `chain_faults` | a step and a group, cancel, crash or restart of the node, broker failure | `TypeOK`, `ChainOrder`, `SuccessMeansDone` | order and success survive redelivery, revocation and the sweep of a restart |
| `chain_fails` | three stages with a group, both hooks, with and without a template, failures, timeouts, 2 pauses and resumes by 2 web threads, build and broker failures | `ChainOrder`, `FailureSticks`, `ChainEnds` | nothing in the chain undoes a failure, only a pause or resume that saves an old row; every chain that was sent ends |
| `definitions` | 2 workflows in one module, one without code, 2 web threads, 1 worker, 2 operations, 1 change, 1 fault of any kind | `TypeOK`, `NotFoundIsReal`, `FreshCode`, `RightFunction`, `RefreshTakesEffect`, `FileFollowsRow`, `KnownStaysKnown` | a step runs code as new as the storage held when it began; lookups and refreshes see what the storage held, unless an error, another thread or an edit met the very file; what a process knows it never forgets |
| `schedules` | 2 schemas, 2 web threads, 2 requests, 2 periods, 2 runs, 1 restart of beat, pause or early end | `TypeOK`, `OncePerPeriod`, `NoOverlap`, `PollSuffices` | one number per schema is enough to notice a change; one message per period and one for each event that made the entry due again; no two runs past the overlap test while both are in `progress` |
| `platform_client` | 2 clients, 2 saving processes, 2 retries, 2 operations, 1 lost request, every setting | `TypeOK`, `WaitTellsTheTruth`, `ReportAgrees`, `NoSilentFailure`, `EveryCallEnds` | a wait tells the truth and ends; the platform agrees with the row; a failure is silent only in the two cases named |
| `tenant_requests` | 2 threads, a tenant and a legacy space, 3 requests, tasks or commands | `TypeOK`, `TenantIsolation`, `ValidTokenAdmitted`, `ConsoleIntact`, `ContextKept`, `OneSpace` | every access goes to the request's own schema or the one that a looked-up code names; a valid token is never refused; outputs, sessions and Space rows are right unless two threads met |

Runs in which the code disagrees with what its own comments say
(each is a finding in `PROJECT.json`, with the quotation):

| Run | Property | What happens |
|---|---|---|
| `engine_join_twice` | `NoLostNode` | both inputs of a join find it ready, it runs twice, and `Task.objects.get` then fails for the node behind it for ever |
| `engine_nested_race` | `EveryWorkflowEnds` | the child finishes before `nested-progress` is saved; the save undoes the success and the parent never ends |

Both properties hold in `engine_tree`, which has a join in last place and no nesting: the
passing run delimits the violations rather than contradicts them.

### Bounds

* `TaskIds` bounds the number of rows. `CreateTask` waits when all are used. Each
  instance has at least as many rows as it has nodes; the runs with duplicates have
  spare ones, so that a second row for a node can occur (`engine_faults`: four nodes
  of which one can be duplicated while another has not started).
* `Wfs` has one element per level of nesting. `Delegate` waits for a free one.
* `Budget` names the number of pauses, resumes, cancels, crashes and kills (and broker failures in the
  chain). One of each suffices for every two-actor interleaving listed under hazards. In
  `chain_faults` bad results come from revocation only: with failing steps beside the cancel and the crash the
  instance has 17 million states (checked once, no violation), and the theorems of section 4.2 cover them for every budget.
* `Definitions`: two operations and an edit give three threads at work on the same files;
  with one change there are two versions, so that old and new can be told apart. Two
  overlapping saves of one template are beyond this bound (see section 5).
* `Schedules`: two requests suffice for two timestamps in the wrong order in different
  schemas, and for a creation (two saves) beside another change. `Budget.sends` is two, one more than
  `OncePerPeriod` allows. A finished run frees its identity.
* `PlatformClient`: two retries distinguish the first read, a repeated one and the limit. Two
  operations are two waits that block both workers, two saves that overlap, or a save after another.
* `TenantRequests`: with three requests on two threads one thread serves twice, on the
  connection, buffer and session of its first request, while the other is at work.
* Two workers give every pairwise race; the third and fourth actors are API requests.
* Workers and web threads are interchangeable and are symmetry sets in the safety runs; runs with a
  liveness property do not use symmetry.
* Distinct states: 135 in `engine_nested`, 52 thousand in `engine_tree`, 0.1 million in `chain_fails`, 0.5 million in
  `engine_pause`, 2.8 million in `engine_faults`, 3.7 million in
  `chain_faults`, 1.8 million in `definitions`, 4.2 million in `schedules`, about 0.9 million in `platform_client` and
  `tenant_requests`.
* Deadlock is not checked: a finished workflow leaves the system with nothing to do.
  That it does not stop *too early* is what `NoLostNode`, `EveryWorkflowEnds` and
  `ChainEnds` state. In the four component models the budgets of operations run out.

### Fairness

`FairSpec` assumes weak fairness of `WorkerStep(w)` for each worker: a worker process that
can proceed does so, since user code is bounded by the Celery time limits
(`CELERY_TASK_SOFT_TIME_LIMIT`, `CELERY_TASK_TIME_LIMIT`). For the chain it also
assumes that the request that builds it proceeds and that the unlock tasks, which
Celery retries, keep polling. Users (pause, resume, cancel), `Log`, crashes, kills
and revocations owe nothing and are in no fairness condition.

In `PlatformClient` a process goes on with the call it is in: a request is answered, fails or hangs
(`Answer`, `NoAnswer`), a process that waits reads again (`Read`), since it only sleeps between
two reads, and a request that hangs is ended by Celery's time limits (`TimeLimit`), since no request has a
timeout of its own. The platform owes nothing: `JobStep` is in no fairness condition, so that
`EveryCallEnds` holds for a job that never ends.

## 4. Proofs

The theorems hold for every value of the constants that satisfies the named assumptions of
the module (`GraphAssumption`, `RowAssumption`, `ChainAssumption`, ...). These say what the
constants are (finite sets, fresh model values, connections between nodes) and bound no size.
Each invariant is proved by the same argument: an inductive invariant holds initially, every
action keeps it (one lemma per action or group of actions), and it implies the property.

### 4.1 Graph engine

`WorkflowEngineProofs` and `WorkflowEngineRefinement` prove, for every graph, every nesting
relation, every set of workers and every fault budget:

* `TypeCorrect`: `Spec => []TypeOK`;
* `DependencyOrderHolds`: `Spec => []DependencyOrder`: no node is ever started before
  each node that feeds it was completed in the same workflow;
* `OrderRefined`: `Spec => KeepsOrder`: every behaviour of the engine, read through the
  refinement mapping, is a behaviour of `Dataflow` without nesting;
* `NestingRefined`: `Spec => KeepsNesting`, from four hypotheses: no cancel, no failing user code,
  connections that stay inside their template (`Inside`), and no condition in a nested template (`Plain`).

`TypeOK` alone is not inductive: a worker that handles a row writes `wf[tasks[row].wf]`,
so the row has to be a created one. The inductive invariant `TypeInv` adds `RowsFilled`
(a created row names a workflow and a node), `JobsFilled` (a worker past `create`
holds created rows, and every busy worker a workflow) and `RequestFilled` (an API
request names created rows). `KeepsRows`, the action fact carried beside it, says that a step
never takes a row away nor changes the workflow or node of one.

`DependencyOrder` speaks of rows that exist, but a worker that passed `are_inputs_ready`
creates its row in a later step, when the input rows may already have been put back to
`progress`, `canceled` or `error` by a stale save. `DependencyInv` therefore adds `CreateReady`
(for a worker at `create` the inputs are in `won`) and `WonRows` (a row in
`success` is in `won`, and `won` holds created rows only). The argument: `won` only grows,
`KeepsRows` keeps its rows in place, only `CheckInputs` establishes `CreateReady`, from `WonRows`,
and only `CreateTask` makes a row, from `CreateReady`.

`OrderRefined` needs two more facts, which `RefinementInv` adds: `StepRows` (the row a worker holds
belongs to the node that its message names, so that a delegating step was started) and
`Blank` (a workflow row that is free has no parent, so that no workflow is launched twice). The
argument: `CreateTask` is `Start`, by `CreateReady`; `OnSuccess` and `CompleteParentTask` are `Complete`,
of a row that exists; `Delegate` is `LaunchNested`; every other step keeps rows, completions
and parents (`NoNewRows`, `KeepsParents`) and stutters.

`NestingRefined` adds that a node that delegates completes only after a last node of a workflow it
launched. Pauses, kills and crashes are unlimited; a crash may repeat any node, so that a node has several rows
and several children. The hypotheses are needed: a cancel, or a child that fails between the two saves of its
parent's step, puts a row in a status from which `on_success` completes it (section 5), and a condition
without a result raises as user code does. `NestingInv` therefore has to say where each completion can come from. `HomeInv`
and `LaunchedBy` keep rows and messages in the template of their workflow, and a child below a
delegating row. `NestedStep` says that a returned step finds `nested-progress`, unless a child of its node
is done already, and follows a worker upwards: every workflow it has left behind is done and led to the next
one (`Climbed`). When a crash has left two rows for the parent's task, `ParentTask` raises and
`on_failure` starts again from the worker's own step, far below; `Descends` says that it passes only
through workflows that are done, so that it too touches no row whose child is not. `StepsApart` (no two
workers run the same step) keeps the other workers' saves away.

`WorkflowEngineTrees` proves what the engine promises only on some graphs. `Wired` says that
every connection leaves a node with at most one input that does not delegate; on other graphs the
engine repeats nodes (section 3, `engine_join_twice`) or loses a success (`engine_nested_race`),
so the hypothesis is the boundary that the violation runs show. The nodes that are fed may have
any number of inputs unless a theorem says otherwise. None of the first three theorems allows worker
crashes, after which a redelivered message repeats its node; all three allow cancels, kills, errors and
timeouts.

* `NodeRunsOnceHolds` (all nodes single-input, at most one pause): `[](NeverDoubled => NodeRunsOnce)`, that is one
  row per node as long as no two requests to resume the same workflow overlapped. Web threads may be any number, and
  pauses, cancels and resumes may otherwise interleave. Nothing in the code counts executions; it is the *message* that exists once. `OnceInv` follows it: it is in one
  of the queue, the hands of one worker, the parking column or a resume request, and gone when the row is
  there (`OnePlace`); its source has a row and no worker that could send it again (`SentOnce`), and
  one worker at most is at work on a node (`OneWorker`). `LaunchInv` does the same for the launch
  message, before which nothing of a workflow is anywhere. `PauseInv` is what a first pause needs:
  until then no workflow has a current node, so the copy that the pause saves parks nothing, and a
  cancel or pause saved during a launch cannot either. `ParentInv` keeps the completion of a nested workflow away
  from nodes that feed others. A second pause breaks the property, and so do two resumes that overlap (section 5).
* `NoLostNodeHolds` (no pause): `NoLostNode`, joins of any width included. `NoLostInv` says at every moment, not
  only at rest, that a node whose inputs are complete was sent, is about to be launched, or has an
  input whose worker still has to look up the next nodes. Only `handle_task_success` makes an
  input complete, under such a worker (`CompleteOnly`); that worker sends every next node
  (`AdvanceSends`); and a message in flight survives `CheckInputs`, because each input has exactly
  one row (`ReadyInputs`, from `OnceInv`). With a pause the second parked message overwrites the first.
* `OneBranchTakenHolds` (no pause, targets of conditions single-input): `OneBranchTaken`. `BranchInv` adds that at most one branch
  was reached and that a complete condition has reached one, has a worker that advances, or one
  that is about to mark it failed (a result without the key). `AdvanceRow` is needed for the last:
  the failure is recorded on the worker's own step, which must be the condition's.

The last two theorems are about delegation, which `Wired` keeps at the ends of a graph. They assume `Inside`,
serial templates (`Serial`: one start node, single inputs, one next node at a time; conditions may branch, any
node that is not a condition may delegate, and templates may nest to any depth, in each other too), one worker
process (`OneProcess`), and no pause, cancel, crash or kill (`Undisturbed`). User code may fail and time
out, and a condition may have no result. The run `engine_nested` is an instance.

* `NestedOutcomeHolds`: `NestedOutcome`: when nothing is left to do, each task that delegated has the status of the
  workflow it launched. There is one thing to do at a time (`TokenInv`): a message, or the workflow that the worker is busy
  with. `LiveInv` says that the workflows that have not ended are the one with the token and those above it, in one
  line: `Delegate` moves the token down to the child, `Advance` from a last node and `OnFailure` move it up to the parent, and
  a root that ends leaves none. "Above" is a least fixed point, stated with sets that are closed under parents, since
  recursion is outside the prover's reach. `SerialRows` gives each node one row, so that the parent's task is found;
  `OutcomeInv` says that a child that ended has its parent's row in its own status, or a worker that is about
  to save that status there. At rest there is no token, so nothing is alive, and no worker, so every outcome is saved.
* `SerialNodesRunOnce`: `NodeRunsOnce` in the same setting, where nodes that delegate may feed others.

A second process breaks the first one (`engine_nested_race`): the child may end before the step that launched it saves
`nested-progress`. A join breaks both: the joining node runs twice and launches two children.

### 4.2 Chain engine

`WorkflowChainProofs`, for every list of stages, hooks, workers and budgets: `TypeCorrect`,
`ChainOrderHolds`, `SuccessMeansDoneHolds`. `JobShape` (which message a worker can hold at each
point) makes the types inductive. `ChainInv` carries `Ready`: every message queued, held or
about to be unlocked has the stages before it in `ran`, and a good result is stored only for
code that returned. `ran` only grows, so redelivery, restarts and revocation cannot make a message
unready; the unlock of a group reads results, which is why they are in the invariant.

`FailureSticksHolds` proves the action property `FailureSticks` without cancels, crashes and restarts, for any number of
web threads that pause and resume: the save of such a request is the only step that undoes a failure. The two
hypotheses are needed: a cancel overwrites a failure that comes while it revokes, a worker lost between the first stage and the
acknowledgement of `start` has `start` executed again, which writes `progress` over `error`, and a
repeated step that succeeds leads to `end`, which spares `error` only, over `timeout`. Broker failures are allowed.
The danger is a late `end` or `start` that writes over the failure. `StickInv` rules it out by following the front of
the chain: a message is queued or held once and has no result before it ran (`OnceInv`); nothing of a stage is
seen before all earlier stages succeeded, nor anything beyond a group whose unlock task still waits
(`FrontInv`, `ChordInv`); and a workflow in `timeout` has a failed result, one in
`error` at least the result of some step (`FailInv`). So behind a failed result there is no message that could write,
and the siblings in its group write only failures; a step that failed behind its own success, as all do in a chain with a
template, is followed by the rest of the chain, but `start` ran before it and `end` leaves `error` alone.

### 4.3 Definitions

`DefinitionsProofs`, for all sets of workflows, threads, hosts and any number of edits and
faults: `TypeCorrect`, `RightFunctionHolds`, `FreshCodeHolds`, `NotFoundIsRealHolds`,
`RefreshTakesEffectHolds`, `FileFollowsRowHolds` and the action property `KnownStaysKnownHolds`.
`BoundInv` keeps the versions within the changes made and `ShapeInv` says which operation can be
at which place. `CodeInv` (`CodeOK`) follows the code of a step from the storage through the copy and the directory to the
function that is called: at each place what has passed is at least as new as `seen` or cannot be imported, and what has not
is still to be done (`todo`, `held`). While a directory could not be removed (`stuck`) that holds only as long as the file itself
was copied, which is where the two errors of `FreshCode` come from. `RemoteCodeInv` says that code in the storage never gets
older. `DefInv` (`DefOK`) follows each definition into the dictionary, one workflow at a time: it speaks of the workflows
that are `Clear` for the operation, neither disturbed nor logged, so that an error with one file costs the invariant of that
file and no other. `EditInv` (`EditOK`) gives each template one editor at a time, who holds the row's version, unless its
last save failed, was cut short or overlapped another (`torn`). The interference argument is the lemma about `Frame`: a thread
that takes no part in a step is, for each workflow, disturbed, has nothing to lose, or finds directory, dictionary and
stored definition of that workflow as they were.

### 4.4 Schedules

`SchedulesProofs`, for any number of schemas (at least one), schedules, threads, periods and runs:
`TypeCorrect`, `OncePerPeriodHolds`, `PollSufficesHolds`, `NoOverlapHolds`. `OnceInv` is an account: what was sent
in a period is at most one more than the events counted in `repeats`, and a schedule that is about to be sent (`Waits`: its entry is
due, or would be after the next read, with no message queued that will note the time) has one in hand. `StampInv` and `ChangeInv`: a change that beat does not know of is being saved, about
to be read, behind a timestamp that the next poll finds, or was missed; the timestamps under way are distinct
from those in the database and from beat's. `OverlapInv`: a run past its first task is in `progress`
unless it left that status, so the second of two runs sees the first.

### 4.5 Platform client

`PlatformClientProofs`, for any number of clients, saving processes and retries: `TypeCorrect`,
`WaitTellsTheTruthHolds`, `ReportAgreesHolds`, `NoSilentFailureHolds`. `JobInv`: no job exists before
the platform accepted the call, and a call that returned with one has seen it over. `ReportInv`:
while saves did not overlap and nothing was lost, at most one process is in a save, it carries the
row's status, and what it has not done yet is exactly what is outstanding (`InSave`): a handler of a failure that has come to
the parent's lookup has reported already, where there is anything to report to.

### 4.6 Tenants and sessions

`TenantRequestsProofs`, for all sets of threads and schemas, all space codes and any number of
requests: `TypeCorrect`, `TenantIsolationHolds`, `ValidTokenAdmittedHolds`, `ConsoleIntactHolds`,
`ContextKeptHolds`, `OneSpaceHolds`. `AdmissionInv`: a thread that uses the database has the
connection on its own schema or on the one that its lookup named, is back on its own after a refresh's detour, and rests at `public`; it looks a user up for the second time only when
the user is there. `ConsoleInv`, `SessionInv` and `SpaceInv`: as long as no two threads were found
racing, one thread at a time is between the test and the act, and what it tested still holds.

### 4.7 Only model-checked

* Liveness (`EveryWorkflowEnds`, `ChainEnds`, `EveryCallEnds`): fairness and `ENABLED` are outside
  the prover's reach.
* The properties above outside the hypotheses of their theorems, on the instances of the runs only: `NodeRunsOnce` with a
  pause, for example, is proved for any graph of single inputs, but for nodes that delegate and feed others only
  without one.

## 5. Known limits

Behaviours that the models show and that the properties therefore exclude by a stated
condition, or that are beyond the bounds of the runs.

Graph engine:

* A child that *fails* after `SaveNestedProgress` but before the parent's `on_success` looks
  at the row makes `on_success` find `error` instead of `nested-progress`; it then saves `success`
  and the parent goes on. A cancel does the same. `KeepsNesting` is checked without either.
* Two resume requests that overlap both find the workflow in `wait`, and each sends the parked node, which then runs
  twice. `NodeRunsOnce` counts such requests (`doubled`).
* Nothing clears `current_node_id`: a second pause and resume, while the next node's
  message is still queued, executes the node that was resumed before once more.
* Two branches that meet a paused workflow share the one column `current_node_id`; the
  second save overwrites the first, and that branch is never resumed.
* A cancelled workflow may go on. `Workflow.cancel` revokes the ids of rows whose steps run
  inline, which no worker knows; the running step or the launch task overwrites `canceled`.
* After a crash between the creation of a row and the acknowledgement the node has two
  rows, and every node behind it waits for ever: `EveryWorkflowEnds` is checked without crashes.
* A step killed by the hard time limit leaves its workflow in `progress`.

Chain engine:

* After a crash a failure can be overwritten (section 4.2), and a member of a group that is
  repeated with success after the unlock task gave up leaves its workflow in `progress`:
  `FailureSticks` and `ChainEnds` are checked without crashes.
* Pause and resume look at no version. A chain goes on while it is paused; a pause that read the row in `progress` saves `wait`
  over a failure or success that came meanwhile, and a resume then saves `progress`, which nobody ends. `FailureSticks` and
  `ChainEnds` name this request as the exception.
* A definition that is malformed, or gone when the builder looks it up, raises after the rows were saved; they stay in `init`.
* A version-1 workflow whose code is also a template's gets that template; each step then fails behind its own success.
* A cancel can be overwritten by `start` or `end`. A restart of the node forgets
  revocations, so that a cancelled step whose message is delivered again may run.
* `failure_hooks_launcher` looks the hook up among the Celery tasks, where `api.task`
  registers none; it raises, and the steps that were not reached stay in `init`.

Definitions:

* A lookup that meets another thread's synchronisation of the same workflow, or an error with its file, may report it as
  not found: per-file errors are logged and the file is skipped.
* A refresh answers `ok` whatever went wrong.
* A directory that cannot be removed and a file that cannot be read leave the old code in place, and the step runs it.
* A template whose file cannot be written, or whose code has an unexpected shape, is saved as a row only; the old file may be gone.
* Two overlapping saves of one template can leave the older file beside the newer row.
* A deleted definition stays known until the process ends.

Schedules:

* Two runs that start together may both see the other and both withdraw.
* Beat may read a new schedule between its two saves and send a message without arguments,
  which `execute` logs and drops.
* The first poll after a start reports no change, and a timestamp that is committed late is
  never the newest: both wait for the full read after five minutes.
* A re-read while a message is queued sends the schedule twice in a period.
* An edit saves every column it read: it may put back an older `last_run_at`, after which the schedule is sent once more in the
  period, or bring back a deleted schedule.
* A run that is paused, cancelled, or saved as ended by its first last node or a failing branch is not counted by the overlap
  test while its other steps still work.

Platform:

* `execute_expression_procedure` names the token function without calling it and always
  raises. A space without a realm is never reported and cannot use the `finmars` vault.
* A final status that is saved before the first Task row exists is never reported, also when a queued node creates
  its row later.
* A timeout sends no alert, and a parent whose task is missing or doubled keeps `on_failure` from sending one; without a realm
  or a platform task such a failure is silent.
* A platform that never answers holds a step until Celery's time limit (a day), and the wait for a task takes the soft
  limit for a read that failed and goes on.
* `poll_workflow_status` knows `success` and `error` only: a cancelled workflow is asked for
  until the limit, and the answer is then `None`.
* Two overlapping saves report in an order of their own.

Tenants and sessions:

* A lookup of an unregistered workflow moves the path to the schema that the code begins with, for the rest of the request. Views
  test only that the code contains their space's, so that it may begin with another one.
* The export task sets no schema and finds the connection on `public`.
* Overlapping executions mix their output and may leave `sys.stdout` at the buffer of a
  request that is over.
* Two first requests of a user may make two sessions; two overlapping migrations may make
  two Space rows.
* An error in one schema ends `cancel_existing_tasks` for the schemas that follow.

Not modelled, and why:

* `bulk_delete`: erases rows while workers hold copies; what a save of a deleted row does
  (Django inserts it again) belongs to the engine modules and needs identities beyond
  the present rows.
* Monitoring, health check, log formatting, API schema, filters, admin: they read and
  format, and keep no state.
* The storage drivers and the exchange with Keycloak: I/O, present only through their outcomes.
* `import_from_storage`, date helpers, `flatten_errors`: conversions without control that a
  property would be about; `init_periodic_tasks` and `build_celery_schedule` have no caller.
* matplotlib's process-wide figures, `SystemExit` in user code.

## 6. Plan

Done: all six models with their runs, and the proofs of section 4: every safety invariant of the runs, both
refinements, and the action properties `KnownStaysKnown` and `FailureSticks`.

What would say more:

1. `NestedOutcome` for templates with parallel branches and no join: TLC finds it true on a small instance, but there
   is more than one token, and `LiveInv` becomes a tree.
2. `NestingRefined` with conditions in nested templates: the climb after a condition that raised has to be followed too.
3. `bulk_delete` (section 5), which the models leave out.
4. The saves of the engines composed with `PlatformClient`, which at present allows any sequence of saves.
