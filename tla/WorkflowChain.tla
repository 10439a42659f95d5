--------------------------- MODULE WorkflowChain ---------------------------
(***************************************************************************)
(* The version-1 workflow: WorkflowBuilder creates the Task rows and sends *)
(* one Celery chain start | stage 1 | ... | stage n | end, where a stage   *)
(* is one step or a group of steps, and the chain carries a success hook   *)
(* (link) and a failure hook launcher (link_error). The before_start hook  *)
(* of a definition is its first stage.                                     *)
(*                                                                         *)
(* Celery sends the next stage before it stores the result and calls       *)
(* on_success, and acknowledges the message last: a worker that is lost in *)
(* between has its message, and so the rest of the chain, executed again,  *)
(* start and end included.                                                 *)
(***************************************************************************)
EXTENDS Naturals, Sequences, FiniteSets

CONSTANTS
  Ids,           \* Celery ids of the steps and of the success hook
  Stages,        \* Stages[k]: the steps of stage k, a group when several
  SuccessHook,   \* the success hook's id, or None
  FailureHook,   \* TRUE when the definition names a failure hook
  Workers,
  Clients,       \* web threads: as many requests may be in progress at once
  Templates,     \* whether a WorkflowTemplate with the user code exists: a set of BOOLEANs
  FailureKinds,  \* what user code may raise: "error" and "timeout"
  Budget,        \* how many cancels, pauses, crashes or restarts, broker failures may happen
  None

Steps == UNION {Stages[k] : k \in DOMAIN Stages}
Last == Len(Stages)

ASSUME ChainAssumption ==
  /\ Stages \in Seq(SUBSET Ids)
  /\ \A k \in DOMAIN Stages : Stages[k] # {} /\ IsFiniteSet(Stages[k])
  /\ \A j, k \in DOMAIN Stages : j # k => Stages[j] \intersect Stages[k] = {}
  /\ None \notin Ids \union {"start", "end", "launcher"}
  /\ SuccessHook \in (Ids \ Steps) \union {None}
  /\ Ids = Steps \union ({SuccessHook} \ {None})
  /\ Ids \intersect {"start", "end", "launcher"} = {}
  /\ FailureHook \in BOOLEAN /\ IsFiniteSet(Workers)
  /\ FailureKinds \subseteq {"error", "timeout"}
  /\ Templates \subseteq BOOLEAN
  /\ Budget \in [cancel : Nat, pause : Nat, crash : Nat, broker : Nat]

VARIABLES
  status,   \* status of the Workflow row
  rows,     \* rows[t]: status of the Task row of t
  result,   \* result[t]: what the Celery result backend holds for t
  ran,      \* history: the ids whose code ever returned
  queue,    \* queue[m]: number of messages m waiting
  chords,   \* chords[k]: unlock tasks that poll the results of group k
  job,      \* job[w]: the message worker w holds unacknowledged, and how far it is
  api,      \* api[c]: the cancel, pause or resume request that client c makes
  revoked,  \* ids whose revocation was broadcast
  builder,  \* "build" while execute_workflow builds the chain, then "sent", "failed" or "invalid"
  template, \* the workflow was given a WorkflowTemplate, as a version-2 workflow is
  budget

vars == <<status, rows, result, ran, queue, chords, job, api, revoked, builder, template, budget>>

Status == {"init", "progress", "wait", "success", "error", "timeout", "canceled"}
Finished == {"success", "error", "timeout", "canceled"}
Messages == Ids \union {"start", "end", "launcher"}
Idle == [pc |-> "idle", msg |-> None]
NoRequest == [op |-> "none", rows |-> {}]

StageOf(t) == CHOOSE k \in DOMAIN Stages : t \in Stages[k]
IsGroup(k) == Cardinality(Stages[k]) > 1

-----------------------------------------------------------------------------
(* Celery.                                                                 *)

Send(m) == queue' = [queue EXCEPT ![m] = @ + 1]

\* The chain sends stage k: its steps, and for a group the task that waits for
\* their results, beside those that wait already; after the last stage, end.
SendStage(k, waiting) ==
  IF k > Last
    THEN Send("end") /\ chords' = waiting
    ELSE /\ queue' = [m \in Messages |-> queue[m] + (IF m \in Stages[k] THEN 1 ELSE 0)]
         /\ chords' = [waiting EXCEPT ![k] = @ + (IF IsGroup(k) THEN 1 ELSE 0)]

Take(w, m, pc) ==
  /\ job[w].pc = "idle" /\ queue[m] > 0
  /\ queue' = [queue EXCEPT ![m] = @ - 1]
  /\ job' = [job EXCEPT ![w] = [pc |-> pc, msg |-> m]]

Goto(w, pc) == job' = [job EXCEPT ![w].pc = pc]
Ack(w) == job' = [job EXCEPT ![w] = Idle]

\* The unlock task waits until the whole group has results: all good, and the
\* chain goes on; one bad, and the rest of the chain fails (its errback runs).
ChordUnlock(k) ==
  /\ chords[k] > 0
  /\ \A t \in Stages[k] : result[t] # "none"
  /\ LET waiting == [chords EXCEPT ![k] = @ - 1] IN
     IF \A t \in Stages[k] : result[t] = "success"
       THEN SendStage(k + 1, waiting)
       ELSE /\ queue' = [queue EXCEPT !["launcher"] = @ + (IF FailureHook THEN 1 ELSE 0)]
            /\ chords' = waiting
  /\ UNCHANGED <<status, rows, result, ran, job, api, revoked, builder, template, budget>>

-----------------------------------------------------------------------------
(* WorkflowBuilder: one Task row per step and hook, then the chain.        *)

NewTask(t) ==
  /\ builder = "build" /\ rows[t] = "none"
  /\ rows' = [rows EXCEPT ![t] = "init"]
  /\ UNCHANGED <<status, result, ran, queue, chords, job, api, revoked, builder, template, budget>>

Run ==
  /\ builder = "build" /\ \A t \in Ids : rows[t] # "none"
  /\ Send("start")
  /\ builder' = "sent"
  /\ UNCHANGED <<status, rows, result, ran, chords, job, api, revoked, template, budget>>

\* apply_async raises: the workflow is saved in error and the caller sees it.
RunFails ==
  /\ builder = "build" /\ \A t \in Ids : rows[t] # "none"
  /\ budget.broker > 0
  /\ status' = "error"
  /\ builder' = "failed"
  /\ budget' = [budget EXCEPT !.broker = @ - 1]
  /\ UNCHANGED <<rows, result, ran, queue, chords, job, api, revoked, template>>

\* build raises (the definition is malformed, or gone from the storage): the Workflow row
\* and the Task rows saved so far stay as they are, in "init".
BuildFails ==
  /\ builder = "build"
  /\ builder' = "invalid"
  /\ UNCHANGED <<status, rows, result, ran, queue, chords, job, api, revoked, template, budget>>

-----------------------------------------------------------------------------
(* The tasks of the chain.                                                 *)

Start(w) ==
  /\ Take(w, "start", "started")
  /\ status' = "progress"
  /\ UNCHANGED <<rows, result, ran, chords, api, revoked, builder, template, budget>>

\* Seeded bug: the first entry of the definition is taken for the start task.
StartReturns_SkipsFirst(w) ==
  /\ job[w].pc = "started"
  /\ SendStage(2, chords)
  /\ Goto(w, "sent")
  /\ UNCHANGED <<status, rows, result, ran, api, revoked, builder, template, budget>>

\* Seeded bug: the success hook is linked to the first task of the chain.
StartReturns_LinksHook(w) ==
  /\ job[w].pc = "started"
  /\ IF SuccessHook = None THEN SendStage(1, chords) ELSE Send(SuccessHook) /\ UNCHANGED chords
  /\ Goto(w, "sent")
  /\ UNCHANGED <<status, rows, result, ran, api, revoked, builder, template, budget>>

\* Celery sends the first stage; start stays unacknowledged.
StartReturns(w) ==
  /\ job[w].pc = "started"
  /\ SendStage(1, chords)
  /\ Goto(w, "sent")
  /\ UNCHANGED <<status, rows, result, ran, api, revoked, builder, template, budget>>

\* before_start, then the user's code runs.
StartStep(w, t) ==
  /\ Take(w, t, "run")
  /\ rows' = [rows EXCEPT ![t] = "progress"]
  /\ UNCHANGED <<status, result, ran, chords, api, revoked, builder, template, budget>>

\* A worker that has received the revocation discards the message, and Celery
\* stores a bad result for it (REVOKED), without errback or signal.
DiscardRevoked(w, t) ==
  /\ t \in revoked
  /\ job[w].pc = "idle" /\ queue[t] > 0
  /\ queue' = [queue EXCEPT ![t] = @ - 1]
  /\ result' = [result EXCEPT ![t] = "failure"]
  /\ UNCHANGED <<status, rows, ran, chords, job, api, revoked, builder, template, budget>>

\* Seeded bug: every member of a group goes on with the chain by itself.
StepReturns_GroupGoesOn(w) ==
  /\ job[w].pc = "run"
  /\ LET t == job[w].msg IN
     /\ IF t = SuccessHook THEN UNCHANGED <<queue, chords>> ELSE SendStage(StageOf(t) + 1, chords)
     /\ result' = [result EXCEPT ![t] = "success"]
     /\ ran' = ran \union {t}
  /\ Goto(w, "returned")
  /\ UNCHANGED <<status, rows, api, revoked, builder, template, budget>>

\* The code returned: Celery goes on with the chain and stores the result.
StepReturns(w) ==
  /\ job[w].pc = "run"
  /\ LET t == job[w].msg IN
     /\ IF t = SuccessHook \/ IsGroup(StageOf(t))
          THEN UNCHANGED <<queue, chords>>
          ELSE SendStage(StageOf(t) + 1, chords)
     /\ result' = [result EXCEPT ![t] = "success"]
     /\ ran' = ran \union {t}
  /\ Goto(w, "returned")
  /\ UNCHANGED <<status, rows, api, revoked, builder, template, budget>>

\* on_success saves the row. With a template it goes on as for a graph, where the row's
\* node_id, None here, is no node: KeyError, and the internal-error signal calls on_failure.
OnSuccess(w) ==
  /\ job[w].pc = "returned"
  /\ rows' = [rows EXCEPT ![job[w].msg] = "success"]
  /\ IF template THEN Goto(w, "error") ELSE Ack(w)
  /\ UNCHANGED <<status, result, ran, queue, chords, api, revoked, builder, template, budget>>

\* Seeded bug: the exception is logged and the chain goes on.
UserCodeRaises_Swallowed(w, kind) ==
  /\ job[w].pc = "run"
  /\ LET t == job[w].msg IN
       IF t = SuccessHook \/ IsGroup(StageOf(t))
         THEN UNCHANGED <<queue, chords>>
         ELSE SendStage(StageOf(t) + 1, chords)
  /\ Goto(w, kind)
  /\ UNCHANGED <<status, rows, result, ran, api, revoked, builder, template, budget>>

\* Celery stores the failure and sends the errback before the signal on_failure.
UserCodeRaises(w, kind) ==
  /\ job[w].pc = "run"
  /\ result' = [result EXCEPT ![job[w].msg] = "failure"]
  /\ queue' = [queue EXCEPT !["launcher"] =
       @ + (IF FailureHook /\ job[w].msg # SuccessHook THEN 1 ELSE 0)]
  /\ Goto(w, kind)
  /\ UNCHANGED <<status, rows, ran, chords, api, revoked, builder, template, budget>>

OnFailure(w) ==
  /\ job[w].pc \in {"error", "timeout"}
  /\ rows' = [rows EXCEPT ![job[w].msg] = job[w].pc]
  /\ status' = job[w].pc
  /\ Ack(w)
  /\ UNCHANGED <<result, ran, queue, chords, api, revoked, builder, template, budget>>

\* Seeded bug: the test on the status is inverted.
End_Inverted(w) ==
  /\ Take(w, "end", "closed")
  /\ status' = IF status = "error" THEN "success" ELSE status
  /\ UNCHANGED <<rows, result, ran, chords, api, revoked, builder, template, budget>>

End(w) ==
  /\ Take(w, "end", "closed")
  /\ status' = IF status # "error" THEN "success" ELSE status
  /\ UNCHANGED <<rows, result, ran, chords, api, revoked, builder, template, budget>>

EndReturns(w) ==
  /\ job[w].pc = "closed"
  /\ IF SuccessHook = None THEN UNCHANGED queue ELSE Send(SuccessHook)
  /\ Goto(w, "sent")
  /\ UNCHANGED <<status, rows, result, ran, chords, api, revoked, builder, template, budget>>

\* start or end, which has no Task row to save, is acknowledged.
Acknowledge(w) ==
  /\ job[w].pc = "sent"
  /\ Ack(w)
  /\ UNCHANGED <<status, rows, result, ran, queue, chords, api, revoked, builder, template, budget>>

\* failure_hooks_launcher looks the hook up in Celery's registry, where api.task
\* puts no user task: None.subtask raises before a row or a message is made.
FailureHooksLauncher(w) ==
  /\ Take(w, "launcher", "raised")
  /\ UNCHANGED <<status, rows, result, ran, chords, api, revoked, builder, template, budget>>

\* The signal finds no Task row with the launcher's id and gives up.
LauncherFails(w) ==
  /\ job[w].pc = "raised"
  /\ Ack(w)
  /\ UNCHANGED <<status, rows, result, ran, queue, chords, api, revoked, builder, template, budget>>

-----------------------------------------------------------------------------
(* Faults, and the requests to cancel, pause and resume.                   *)

Crash(w) ==
  /\ budget.crash > 0 /\ job[w].pc # "idle"
  /\ Send(job[w].msg)
  /\ Ack(w)
  /\ budget' = [budget EXCEPT !.crash = @ - 1]
  /\ UNCHANGED <<status, rows, result, ran, chords, api, revoked, builder, template>>

\* The worker node goes down: its messages are delivered again, and what it knew of
\* revocations is gone. Before its processes start, cancel_existing_tasks cancels the
\* workflows that have a row in progress by this node, and what else it had in progress;
\* a row that no worker has begun carries no worker's name.
Restart ==
  LET held(m) == Cardinality({w \in Workers : job[w].msg = m})
      running == {t \in Ids : rows[t] = "progress"}
      found == running # {} /\ status \in {"init", "progress"}
      swept == IF found THEN {t \in Ids : rows[t] \in {"init", "progress"}} ELSE running IN
  /\ budget.crash > 0
  /\ queue' = [m \in Messages |-> queue[m] + held(m)]
  /\ job' = [w \in Workers |-> Idle]
  /\ revoked' = {}
  /\ rows' = [t \in Ids |-> IF t \in swept THEN "canceled" ELSE rows[t]]
  /\ status' = IF found THEN "canceled" ELSE status
  /\ budget' = [budget EXCEPT !.crash = @ - 1]
  /\ UNCHANGED <<result, ran, chords, api, builder, template>>

\* A request of client c, between its reads of the rows and its saves.
Ask(c, op, found) == api' = [api EXCEPT ![c] = [op |-> op, rows |-> found]]

CancelRead(c) ==
  /\ api[c] = NoRequest /\ budget.cancel > 0
  /\ status \in {"init", "progress", "wait"}
  /\ Ask(c, "cancel", {t \in Ids : rows[t] \in {"init", "progress"}})
  /\ budget' = [budget EXCEPT !.cancel = @ - 1]
  /\ UNCHANGED <<status, rows, result, ran, queue, chords, job, revoked, builder, template>>

\* Seeded bug: Celery's own state name is stored.
CancelTask_CeleryState(c, t) ==
  /\ api[c].op = "cancel" /\ t \in api[c].rows
  /\ revoked' = revoked \union {t}
  /\ rows' = [rows EXCEPT ![t] = "revoked"]
  /\ Ask(c, "cancel", api[c].rows \ {t})
  /\ UNCHANGED <<status, result, ran, queue, chords, job, builder, template, budget>>

CancelTask(c, t) ==
  /\ api[c].op = "cancel" /\ t \in api[c].rows
  /\ revoked' = revoked \union {t}
  /\ rows' = [rows EXCEPT ![t] = "canceled"]
  /\ Ask(c, "cancel", api[c].rows \ {t})
  /\ UNCHANGED <<status, result, ran, queue, chords, job, builder, template, budget>>

CancelSave(c) ==
  /\ api[c].op = "cancel" /\ api[c].rows = {}
  /\ status' = "canceled"
  /\ api' = [api EXCEPT ![c] = NoRequest]
  /\ UNCHANGED <<rows, result, ran, queue, chords, job, revoked, builder, template, budget>>

\* pause_workflow and resume_workflow do not ask for the version of the workflow.
PauseRead(c) ==
  /\ api[c] = NoRequest /\ budget.pause > 0
  /\ status = "progress"
  /\ Ask(c, "pause", {})
  /\ budget' = [budget EXCEPT !.pause = @ - 1]
  /\ UNCHANGED <<status, rows, result, ran, queue, chords, job, revoked, builder, template>>

PauseSave(c) ==
  /\ api[c].op = "pause"
  /\ status' = "wait"
  /\ api' = [api EXCEPT ![c] = NoRequest]
  /\ UNCHANGED <<rows, result, ran, queue, chords, job, revoked, builder, template, budget>>

ResumeRead(c) ==
  /\ api[c] = NoRequest
  /\ status = "wait"
  /\ Ask(c, "check", {})
  /\ UNCHANGED <<status, rows, result, ran, queue, chords, job, revoked, builder, template, budget>>

\* A workflow with active tasks is not resumed.
ResumeCheck(c) ==
  /\ api[c].op = "check"
  /\ IF \E t \in Ids : rows[t] \in {"init", "progress"}
       THEN api' = [api EXCEPT ![c] = NoRequest]
       ELSE Ask(c, "resume", {})
  /\ UNCHANGED <<status, rows, result, ran, queue, chords, job, revoked, builder, template, budget>>

\* A chain has no current node to resume from: the status is all that changes.
ResumeSave(c) ==
  /\ api[c].op = "resume"
  /\ status' = "progress"
  /\ api' = [api EXCEPT ![c] = NoRequest]
  /\ UNCHANGED <<rows, result, ran, queue, chords, job, revoked, builder, template, budget>>

\* The revocation reaches the worker, which kills the step, stores a bad result
\* (REVOKED) and acknowledges the message.
KillRevoked(w) ==
  /\ job[w].msg \in revoked
  /\ result' = [result EXCEPT ![job[w].msg] = "failure"]
  /\ Ack(w)
  /\ UNCHANGED <<status, rows, ran, queue, chords, api, revoked, builder, template, budget>>

-----------------------------------------------------------------------------
Init ==
  /\ status = "init"
  /\ rows = [t \in Ids |-> "none"]
  /\ result = [t \in Ids |-> "none"]
  /\ ran = {}
  /\ queue = [m \in Messages |-> 0]
  /\ chords = [k \in DOMAIN Stages |-> 0]
  /\ job = [w \in Workers |-> Idle]
  /\ api = [c \in Clients |-> NoRequest]
  /\ revoked = {}
  /\ builder = "build"
  /\ template \in Templates
  /\ budget = Budget

Build == Run \/ RunFails \/ BuildFails \/ \E t \in Ids : NewTask(t)

WorkerStep(w) ==
  \/ Start(w)
  \/ StartReturns(w)
  \/ \E t \in Ids : StartStep(w, t)
  \/ \E t \in Ids : DiscardRevoked(w, t)
  \/ StepReturns(w)
  \/ OnSuccess(w)
  \/ \E kind \in FailureKinds : UserCodeRaises(w, kind)
  \/ OnFailure(w)
  \/ End(w)
  \/ EndReturns(w)
  \/ Acknowledge(w)
  \/ FailureHooksLauncher(w)
  \/ LauncherFails(w)

Cancel(c) == CancelRead(c) \/ CancelSave(c) \/ \E t \in Ids : CancelTask(c, t)
Pause(c) == PauseRead(c) \/ PauseSave(c)
Resume(c) == ResumeRead(c) \/ ResumeCheck(c) \/ ResumeSave(c)

Next ==
  \/ Build
  \/ \E w \in Workers : WorkerStep(w) \/ Crash(w) \/ KillRevoked(w)
  \/ \E k \in DOMAIN Stages : ChordUnlock(k)
  \/ \E c \in Clients : Cancel(c) \/ Pause(c) \/ Resume(c)
  \/ Restart

Spec == Init /\ [][Next]_vars

\* The builder finishes, workers keep working and the unlock tasks keep polling.
FairSpec ==
  /\ Spec
  /\ WF_vars(Build)
  /\ \A w \in Workers : WF_vars(WorkerStep(w))
  /\ \A k \in DOMAIN Stages : WF_vars(ChordUnlock(k))

-----------------------------------------------------------------------------
(* Properties.                                                             *)

\* The types of the state; a Task row only ever holds a status of Task's choices.
TypeOK ==
  /\ status \in Status
  /\ rows \in [Ids -> Status \union {"none"}]
  /\ result \in [Ids -> {"none", "success", "failure"}]
  /\ ran \subseteq Ids
  /\ queue \in [Messages -> Nat]
  /\ chords \in [DOMAIN Stages -> Nat]
  /\ job \in [Workers -> [pc : {"idle", "started", "run", "returned", "error", "timeout",
                                "closed", "sent", "raised"},
                          msg : Messages \union {None}]]
  /\ api \in [Clients -> [op : {"none", "cancel", "pause", "check", "resume"}, rows : SUBSET Ids]]
  /\ revoked \subseteq Ids
  /\ builder \in {"build", "sent", "failed", "invalid"}
  /\ template \in BOOLEAN
  /\ budget \in [cancel : Nat, pause : Nat, crash : Nat, broker : Nat]

\* A step runs only after the code of every step of the earlier stages returned,
\* and the success hook only after all steps: the order of the chain survives
\* redelivered messages, revocations and groups that finish in any order.
ChainOrder ==
  \A w \in Workers :
    /\ job[w].msg \in Steps =>
         \A k \in 1..(StageOf(job[w].msg) - 1) : Stages[k] \subseteq ran
    /\ job[w].msg = SuccessHook /\ SuccessHook # None => Steps \subseteq ran

\* "success" is never reported for a workflow with a step whose code has not
\* returned (end runs only behind the last stage).
SuccessMeansDone == status = "success" => Steps \subseteq ran

\* Once a step failed the workflow stays failed: neither end nor a sibling in the
\* group turns "error" or "timeout" into something else. Only the save of a pause or
\* resume request, which writes back a row it read before, can.
FailureSticks ==
  [][(status \in {"error", "timeout"} /\ status' \notin {"error", "timeout"}) =>
       (\E c \in Clients : api[c].op \in {"pause", "resume"} /\ api'[c] = NoRequest)]_vars

\* A pause or resume request is about to write over a status that is final.
StaleRequest ==
  status \in Finished /\ \E c \in Clients : api[c].op \in {"pause", "resume"}

\* Every message of the chain is consumed in the end, whether or not the workflow is
\* paused meanwhile, and the workflow that was sent has come to its end and stays there,
\* unless a request that began before the end is saved after it.
ChainEnds ==
  \/ <>[](/\ \A m \in Messages : queue[m] = 0
          /\ \A w \in Workers : job[w] = Idle
          /\ status \in Finished \/ builder = "invalid")
  \/ <>StaleRequest
=============================================================================
