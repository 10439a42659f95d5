--------------------------- MODULE PlatformClient ---------------------------
(***************************************************************************)
(* What the service tells the Finmars platform and learns from it over     *)
(* HTTP. A step of a workflow starts a job on the platform (a task, a      *)
(* procedure, an import, another workflow) and waits for it by polling;    *)
(* every save of a workflow that came from a platform task reports a final *)
(* status to that task.                                                    *)
(*                                                                         *)
(* A request may be refused, its answer may be lost after the platform     *)
(* acted on it, or it may never be answered: no request has a timeout, and *)
(* only Celery's time limits end the step that waits. Nothing is retried   *)
(* except the reads of a wait. Payloads and addresses are left out; a      *)
(* space without a realm is not, because two of the helpers cannot form an *)
(* address for it.                                                         *)
(***************************************************************************)
EXTENDS Naturals, FiniteSets

CONSTANTS
  Clients,    \* worker processes, each in the step of some workflow
  Savers,     \* processes that save the reported workflow's row
  Retries,    \* reads that a wait makes before it gives up
  Budget      \* how many calls and saves, and lost reports

ASSUME PlatformClientAssumption ==
  /\ Retries \in Nat \ {0}
  /\ Budget \in [ops : Nat, lost : Nat]

VARIABLES
  setting,    \* the space's realm, the workflow's platform task and parent
  job,        \* job[c]: status of the platform job that c's call started
  calls,      \* calls[c]: the call that client c is in, or its outcome
  row,        \* status of the reported workflow's row
  hasTasks,   \* has the workflow a Task row?
  saves,      \* saves[p]: the save that process p is in
  platform,   \* status of the platform task that stands for the workflow
  failed,     \* history: on_failure saved the row last
  alerted,    \* was an alert sent for the failure that the row holds?
  early,      \* history: the row's final status is older than its first Task row
  mixed,      \* history: two saves overlapped, or a report or alert was lost
  budget

client == <<job, calls>>
report == <<row, hasTasks, saves, platform, failed, alerted, early, mixed>>
vars == <<setting, client, report, budget>>

\* realm: the space has a realm_code; linked: a platform task stands for the workflow;
\* parent: the workflow has none, or one whose task can be found, or one whose task is
\* missing or doubled, there or further up.
Settings == [realm : BOOLEAN, linked : BOOLEAN, parent : {"none", "found", "lost"}]
RowStatus == {"init", "progress", "wait", "success", "error", "timeout", "canceled"}
Idle == [pc |-> "idle", kind |-> "none", counter |-> 0]
Becomes(c, call) == calls' = [calls EXCEPT ![c] = call]
Raises(c) == Becomes(c, [calls[c] EXCEPT !.pc = "raised"])
Returns(c) == Becomes(c, [calls[c] EXCEPT !.pc = "returned"])

-----------------------------------------------------------------------------
(* Starting a job: one POST; any status but 200 raises. Every call signs a *)
(* token for the bot first.                                                *)

CallBegins(c, call) ==
  /\ calls[c].pc = "idle" /\ budget.ops > 0
  /\ Becomes(c, call)
  /\ budget' = [budget EXCEPT !.ops = @ - 1]
  /\ UNCHANGED <<setting, job, report>>

Post(c, kind) == CallBegins(c, [Idle EXCEPT !.pc = "sent", !.kind = kind])

\* The bot's user or the space is missing: the call raises before a request.
GetRefreshTokenFails(c) == CallBegins(c, [Idle EXCEPT !.pc = "raised"])

ExecuteExpression(c) == Post(c, "expression")
ExecuteDataProcedure(c) == Post(c, "procedure")
ExecutePricingProcedure(c) == Post(c, "procedure")
ExecuteTask(c) == Post(c, "task")
ExecuteTransactionImport(c) == Post(c, "task")
ExecuteSimpleImport(c) == Post(c, "task")
ExportHistoricalRecords(c) == Post(c, "task")
RunWorkflow(c) == Post(c, "workflow")

\* The token function is named but not called: the call raises before a request.
ExecuteExpressionProcedure(c) == CallBegins(c, [Idle EXCEPT !.pc = "raised", !.kind = "procedure"])

\* Vault.get_secret: the address of the finmars provider needs the realm.
GetSecret(c, provider) ==
  IF provider = "finmars" /\ ~setting.realm
    THEN CallBegins(c, [Idle EXCEPT !.pc = "raised"])
    ELSE Post(c, "secret")

StartsJob(kind) == kind \in {"procedure", "task", "workflow"}

\* An expression is evaluated and a secret is read before the answer; anything else
\* becomes a job.
PlatformAccepts(c) ==
  /\ calls[c].pc = "sent"
  /\ IF StartsJob(calls[c].kind)
       THEN /\ job' = [job EXCEPT ![c] = "I"]
            /\ Becomes(c, [calls[c] EXCEPT !.pc = "started"])
       ELSE Returns(c) /\ UNCHANGED job
  /\ UNCHANGED <<setting, report, budget>>

\* The request is refused, or its answer is lost after the job began: the step fails,
\* and a job that began runs on without anybody knowing its id.
PlatformFails(c) ==
  /\ calls[c].pc = "sent"
  /\ Raises(c)
  /\ \/ UNCHANGED job
     \/ StartsJob(calls[c].kind) /\ job' = [job EXCEPT ![c] = "I"]
  /\ UNCHANGED <<setting, report, budget>>

-----------------------------------------------------------------------------
(* The platform works on its jobs. A workflow's steps run on the same      *)
(* workers as the step that waits for it.                                  *)

JobStep(c) ==
  /\ calls[c].kind = "workflow" => \E w \in Clients : calls[w].pc = "idle"
  /\ \/ job[c] = "I" /\ job' = [job EXCEPT ![c] = "P"]
     \/ job[c] = "P" /\ \E st \in {"D", "E", "C"} : job' = [job EXCEPT ![c] = st]
  /\ UNCHANGED <<setting, calls, report, budget>>

-----------------------------------------------------------------------------
(* Waiting for a job.                                                      *)

\* Seeded bug: a job that is not started yet counts as finished.
Pending_StartedOnly(status) == status \in {"progress", "P"}

Pending(status) == status \in {"progress", "P", "I"}

Wait(c) ==
  /\ calls[c].pc = "started"
  /\ Becomes(c, [calls[c] EXCEPT !.pc = "waiting"])
  /\ UNCHANGED <<setting, job, report, budget>>

Reading(c, kind) == calls[c].pc = "waiting" /\ calls[c].kind = kind
GetDataProcedureInstanceFails(c) == Raises(c)
AskAgain(c) == Becomes(c, [calls[c] EXCEPT !.counter = @ + 1])

\* Seeded bug: the wait has no limit.
WaitTaskToComplete_Forever(c) ==
  /\ Reading(c, "task")
  /\ ~Pending(job[c]) /\ Returns(c)
  /\ UNCHANGED <<setting, job, report, budget>>

\* A read that fails is logged and counts as one of the retries.
WaitTaskToComplete(c) ==
  /\ Reading(c, "task")
  /\ IF calls[c].counter = Retries THEN Raises(c)
     ELSE \/ AskAgain(c)
          \/ ~Pending(job[c]) /\ Returns(c)
  /\ UNCHANGED <<setting, job, report, budget>>

\* Seeded bug: the counter is compared with > instead of ==.
WaitProcedureToComplete_OneMore(c) ==
  /\ Reading(c, "procedure")
  /\ \/ Raises(c)
     \/ /\ calls[c].counter <= Retries
        /\ IF Pending(job[c]) THEN AskAgain(c) ELSE Returns(c)
  /\ UNCHANGED <<setting, job, report, budget>>

\* A read that fails ends the wait.
WaitProcedureToComplete(c) ==
  /\ Reading(c, "procedure")
  /\ \/ GetDataProcedureInstanceFails(c)
     \/ /\ calls[c].counter # Retries
        /\ IF Pending(job[c]) THEN AskAgain(c) ELSE Returns(c)
  /\ UNCHANGED <<setting, job, report, budget>>

\* Only success and error end the loop early; a workflow that was cancelled or timed
\* out is asked for until the loop is over, which then returns None.
PollWorkflowStatus(c) ==
  /\ Reading(c, "workflow")
  /\ IF calls[c].counter = Retries THEN Becomes(c, [calls[c] EXCEPT !.pc = "unknown"])
     ELSE \/ Raises(c)
          \/ IF job[c] \in {"D", "E"} THEN Returns(c) ELSE AskAgain(c)
  /\ UNCHANGED <<setting, job, report, budget>>

\* A request, the POST or a read of a wait, is never answered.
NoAnswer(c) ==
  /\ calls[c].pc = "sent" \/ (calls[c].pc = "waiting" /\ calls[c].counter # Retries)
  /\ Becomes(c, [calls[c] EXCEPT !.pc = "hung"])
  /\ UNCHANGED <<setting, job, report, budget>>

\* Celery's soft limit raises inside the request, its hard limit kills the process. The
\* wait for a task takes the soft limit for a read that failed, and goes on.
TimeLimit(c) ==
  /\ calls[c].pc = "hung"
  /\ \/ Raises(c)
     \/ /\ calls[c].kind = "task" /\ calls[c].counter # Retries /\ job[c] # "none"
        /\ Becomes(c, [calls[c] EXCEPT !.pc = "waiting", !.counter = @ + 1])
  /\ UNCHANGED <<setting, job, report, budget>>

\* The step ends and the worker is free again; nobody asks for its job any more.
StepEnds(c) ==
  /\ calls[c].pc \in {"returned", "raised", "unknown", "started"}
  /\ Becomes(c, Idle)
  /\ job' = [job EXCEPT ![c] = "none"]
  /\ UNCHANGED <<setting, report, budget>>

-----------------------------------------------------------------------------
(* Workflow.save: write the row, then report a final status with the first *)
(* failed or the last task. Errors are logged.                             *)

\* Seeded bug: a cancelled workflow is not reported.
Reportable_NotCanceled(status) == status \in {"success", "error", "timeout"}

Reportable(status) == status \in {"success", "error", "timeout", "canceled"}

NoSave == [pc |-> "idle", status |-> "init", failing |-> FALSE]
Busy == {p \in Savers : saves[p].pc # "idle"}

\* failing: the save is on_failure's, which has found the Task row of the failed step.
SaveRow(p, status, failing) ==
  /\ saves[p].pc = "idle" /\ budget.ops > 0
  /\ failing => hasTasks
  /\ row' = status
  /\ failed' = failing /\ alerted' = FALSE
  /\ early' = ~hasTasks
  /\ saves' = [saves EXCEPT ![p] =
       IF Reportable(status) THEN [pc |-> "tasks", status |-> status, failing |-> failing] ELSE @]
  /\ mixed' = (mixed \/ Busy # {})
  /\ budget' = [budget EXCEPT !.ops = @ - 1]
  /\ UNCHANGED <<setting, client, hasTasks, platform>>

Saved(p) == IF saves[p].failing THEN [saves[p] EXCEPT !.pc = "parent"] ELSE NoSave

\* Seeded bug: the exception of the address reaches on_failure.
ReadTasks_Raises(p) ==
  /\ saves[p].pc = "tasks"
  /\ saves' = [saves EXCEPT ![p] =
       IF setting.linked /\ hasTasks
         THEN IF setting.realm THEN [@ EXCEPT !.pc = "report"] ELSE NoSave
         ELSE Saved(p)]
  /\ UNCHANGED <<setting, client, row, hasTasks, platform, failed, alerted, early, mixed, budget>>

\* No platform task or no Task row, no report; without a realm the address raises, which
\* is logged.
ReadTasks(p) ==
  /\ saves[p].pc = "tasks"
  /\ saves' = [saves EXCEPT ![p] =
       IF setting.linked /\ hasTasks /\ setting.realm THEN [@ EXCEPT !.pc = "report"] ELSE Saved(p)]
  /\ UNCHANGED <<setting, client, row, hasTasks, platform, failed, alerted, early, mixed, budget>>

UpdateTaskStatus(p) ==
  /\ saves[p].pc = "report"
  /\ saves' = [saves EXCEPT ![p] = Saved(p)]
  /\ \/ platform' = saves[p].status /\ UNCHANGED <<mixed, budget>>
     \/ /\ budget.lost > 0
        /\ mixed' = TRUE
        /\ budget' = [budget EXCEPT !.lost = @ - 1]
        /\ UNCHANGED platform
  /\ UNCHANGED <<setting, client, row, hasTasks, failed, alerted, early>>

\* on_failure goes on to the parent: it looks for the task that launched the workflow and
\* handles its failure first. A lookup that raises ends the handler.
FailParent(p) ==
  /\ saves[p].pc = "parent"
  /\ saves' = [saves EXCEPT ![p] = IF setting.parent = "lost" THEN NoSave ELSE [@ EXCEPT !.pc = "alert"]]
  /\ UNCHANGED <<setting, client, row, hasTasks, platform, failed, alerted, early, mixed, budget>>

\* send_alert asks the platform for a system message about an error, and does nothing
\* about a timeout. Its address needs no realm, and no answer is looked at.
SendAlert(p) ==
  /\ saves[p].pc = "alert"
  /\ saves' = [saves EXCEPT ![p] = NoSave]
  /\ \/ alerted' = (saves[p].status = "error") /\ UNCHANGED <<mixed, budget>>
     \/ /\ budget.lost > 0
        /\ mixed' = TRUE
        /\ budget' = [budget EXCEPT !.lost = @ - 1]
        /\ UNCHANGED alerted
  /\ UNCHANGED <<setting, client, row, hasTasks, platform, failed, early>>

\* process_next_node creates a Task row whatever the status has become since it looked:
\* also behind a final status.
CreateTask ==
  /\ ~hasTasks
  /\ hasTasks' = TRUE
  /\ UNCHANGED <<setting, client, row, saves, platform, failed, alerted, early, mixed, budget>>

-----------------------------------------------------------------------------

Init ==
  /\ setting \in Settings
  /\ job = [c \in Clients |-> "none"]
  /\ calls = [c \in Clients |-> Idle]
  /\ row = "init" /\ hasTasks = FALSE
  /\ saves = [p \in Savers |-> NoSave]
  /\ platform = "P"
  /\ failed = FALSE /\ alerted = FALSE
  /\ early = FALSE /\ mixed = FALSE
  /\ budget = Budget

StartCall(c) ==
  \/ ExecuteExpression(c) \/ ExecuteExpressionProcedure(c) \/ ExecuteDataProcedure(c)
  \/ ExecutePricingProcedure(c) \/ ExecuteTask(c) \/ ExecuteTransactionImport(c)
  \/ ExecuteSimpleImport(c) \/ ExportHistoricalRecords(c) \/ RunWorkflow(c)
  \/ GetRefreshTokenFails(c)
  \/ \E provider \in {"finmars", "hashicorp"} : GetSecret(c, provider)

Answer(c) == PlatformAccepts(c) \/ PlatformFails(c)
Read(c) == WaitTaskToComplete(c) \/ WaitProcedureToComplete(c) \/ PollWorkflowStatus(c)

Save ==
  \/ CreateTask
  \/ \E p \in Savers :
       \/ ReadTasks(p) \/ UpdateTaskStatus(p) \/ FailParent(p) \/ SendAlert(p)
       \/ \E st \in RowStatus \ {"init"} : SaveRow(p, st, FALSE)
       \/ \E st \in {"error", "timeout"} : SaveRow(p, st, TRUE)

Next ==
  \/ \E c \in Clients :
       \/ StartCall(c) \/ Answer(c) \/ Wait(c) \/ Read(c) \/ StepEnds(c) \/ JobStep(c)
       \/ NoAnswer(c) \/ TimeLimit(c)
  \/ Save

\* A process goes on with the call it is in: a request is answered, refused or hangs, and
\* Celery enforces its time limits on one that hangs. The platform need not finish a job.
Fairness == \A c \in Clients : WF_vars(Answer(c)) /\ WF_vars(Read(c)) /\ WF_vars(TimeLimit(c))

Spec == Init /\ [][Next]_vars
FairSpec == Spec /\ Fairness

-----------------------------------------------------------------------------
(* Properties.                                                             *)

Call == [pc : {"idle", "sent", "started", "waiting", "hung", "returned", "raised", "unknown"},
         kind : {"none", "expression", "secret", "procedure", "task", "workflow"}, counter : 0..Retries]

\* A call waits for an answer or between two reads.
InCall(c) == calls[c].pc \in {"sent", "waiting", "hung"}

TypeOK ==
  /\ setting \in Settings
  /\ hasTasks \in BOOLEAN /\ failed \in BOOLEAN /\ alerted \in BOOLEAN
  /\ early \in BOOLEAN /\ mixed \in BOOLEAN
  /\ job \in [Clients -> {"none", "I", "P", "D", "E", "C"}]
  /\ calls \in [Clients -> Call]
  /\ row \in RowStatus
  /\ saves \in [Savers -> [pc : {"idle", "tasks", "report", "parent", "alert"}, status : RowStatus,
                           failing : BOOLEAN]]
  /\ platform \in RowStatus \union {"P"}
  /\ budget \in [ops : Nat, lost : Nat]

\* A wait that returns a result was asked about a job that is over; a job whose start
\* is still queued on the platform never passes for finished (wait_task_to_complete,
\* wait_procedure_to_complete, poll_workflow_status).
WaitTellsTheTruth ==
  \A c \in Clients :
    calls[c].pc = "returned" /\ job[c] # "none" => job[c] \in {"D", "E", "C"}

\* No call blocks its worker for ever: every request and every wait ends, even when the
\* platform never finishes the job, cannot run the workflow because all workers wait, or
\* never answers a request (the retry counters, and Celery's time limits for a request,
\* which has no timeout of its own).
EveryCallEnds ==
  \A c \in Clients : InCall(c) ~> ~InCall(c)

\* When no save is in progress, the platform task has the final status of the workflow,
\* unless two saves overlapped, a report was lost, or there was nothing to report it
\* with: no realm in the address, or no Task row when the status was saved. A row that
\* is created behind a final status makes no difference (Workflow.save).
ReportAgrees ==
  Busy = {} /\ ~mixed /\ setting.realm /\ setting.linked /\ ~early
  /\ row \in {"success", "error", "timeout", "canceled"} =>
    platform = row

\* A failure that on_failure has handled is known on the platform, through an alert or
\* through the report, unless a request was lost or saves overlapped. It is silent only
\* where no report can be made (no realm, no platform task) and no alert is sent either,
\* because the step timed out or the lookup of the parent's task raised.
NoSilentFailure ==
  Busy = {} /\ ~mixed /\ failed =>
    \/ alerted \/ platform = row
    \/ ~(setting.realm /\ setting.linked) /\ (row = "timeout" \/ setting.parent = "lost")
=============================================================================
