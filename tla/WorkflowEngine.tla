--------------------------- MODULE WorkflowEngine ---------------------------
(***************************************************************************)
(* The version-2 workflow engine: the graph of a WorkflowTemplate is       *)
(* executed node by node by Celery workers that share one PostgreSQL       *)
(* database (the Workflow and Task rows) and one RabbitMQ queue.           *)
(*                                                                         *)
(* A step of the model is a stretch of code between two points where the   *)
(* write of another process can change what happens next: a row that is    *)
(* read in one step and saved in a later one is saved stale, with all its  *)
(* fields, as Django's Model.save() does.                                  *)
(***************************************************************************)
EXTENDS Naturals, Sequences, FiniteSets

CONSTANTS
  Nodes,          \* node ids of all the workflow templates
  TemplateOf,     \* TemplateOf[n]: the template that node n belongs to
  Connections,    \* sequence of connections [source, target, output]
  Condition,      \* the nodes of type "condition"
  Nested,         \* Nested[n]: template run by node n, for the nodes that delegate
  RootTemplate,   \* template of the workflow that was started
  Wfs,            \* primary keys of Workflow rows
  Root,           \* the Workflow row that execute_workflow created
  TaskIds,        \* primary keys of Task rows, handed out in ascending order
  Workers,        \* Celery worker processes (one task at a time each)
  Clients,        \* web threads: as many API requests may be in progress at once
  FailureKinds,   \* what user code may raise: "error" and "timeout"
  Budget,         \* how many pauses, resumes, cancels, crashes and kills may happen
  Launch,         \* the execute_workflow_v2 message, beside the node messages
  None

Outputs == {"out", "out_true", "out_false"}
Templates == {TemplateOf[n] : n \in Nodes}

ASSUME GraphAssumption ==
  /\ DOMAIN TemplateOf = Nodes
  /\ Connections \in Seq([source : Nodes, target : Nodes, output : Outputs])
  /\ Condition \subseteq Nodes
  /\ DOMAIN Nested \subseteq Nodes \ Condition
  /\ \A n \in DOMAIN Nested : Nested[n] \in Templates
  /\ RootTemplate \in Templates

ASSUME RowAssumption ==
  /\ Root \in Wfs
  /\ TaskIds \subseteq Nat
  /\ Launch \notin Nodes
  /\ None \notin Nodes \union Wfs \union Templates \union {Launch}
  /\ None \notin TaskIds
  /\ FailureKinds \subseteq {"error", "timeout"}
  /\ Budget \in [pause : Nat, resume : Nat, cancel : Nat, crash : Nat, kill : Nat]

VARIABLES
  wf,      \* the Workflow table
  tasks,   \* the Task table
  won,     \* history: the tasks that handle_task_success ever saved as "success"
  queue,   \* queue[i][m]: messages m waiting for workflow i
  job,     \* job[w]: the message worker w holds unacknowledged, and how far it is
  api,     \* api[c]: the API request that client c makes
  doubled, \* history: resume requests saved while another one was in progress
  budget   \* what is left of Budget

vars == <<wf, tasks, won, queue, job, api, doubled, budget>>

WfStatus == {"init", "progress", "wait", "success", "error", "timeout", "canceled"}
TaskStatus == {"init", "progress", "nested-progress", "success", "error", "timeout", "canceled"}
Finished == {"success", "error", "timeout", "canceled"}
Active == {"init", "progress", "nested-progress"}
Slots == Nodes \union {Launch}
Pcs == {"idle", "dispatch", "park", "check", "create", "before_start", "run", "delegated",
        "returned", "advance", "parent", "error", "timeout"}

WfRow == [status : WfStatus \union {"none"}, current : Nodes \union {None},
          parent : Wfs \union {None}, node : Nodes \union {None},
          template : Templates \union {None}]
TaskRow == [wf : Wfs \union {None}, node : Nodes \union {None}, status : TaskStatus \union {"none"}]
Job == [pc : Pcs, wf : Wfs \union {None}, node : Slots \union {None},
        step : TaskIds \union {None}, row : TaskIds \union {None}]
ApiRequest == [op : {"none", "pause", "check", "resume", "cancel"}, wf : Wfs \union {None},
               current : Nodes \union {None}, rows : SUBSET TaskIds]

NoWorkflow == [status |-> "none", current |-> None, parent |-> None,
               node |-> None, template |-> None]
NoTask == [wf |-> None, node |-> None, status |-> "none"]
Idle == [pc |-> "idle", wf |-> None, node |-> None, step |-> None, row |-> None]
NoRequest == [op |-> "none", wf |-> None, current |-> None, rows |-> {}]

-----------------------------------------------------------------------------
(* The graph of a template.                                                *)

Out(n) == {k \in DOMAIN Connections : Connections[k].source = n}
In(n) == {k \in DOMAIN Connections : Connections[k].target = n}

StartNodes(t) == {n \in Nodes : TemplateOf[n] = t /\ In(n) = {}}

\* Seeded bug: every connection with the output is followed.
NextNodeByCondition_AllOutputs(n, output) == Out(n)

\* The first connection in list order that leaves n by the given output.
NextNodeByCondition(n, output) ==
  {k \in Out(n) : /\ Connections[k].output = output
                  /\ \A j \in Out(n) : Connections[j].output = output => k <= j}

\* The sets of connections that the result of node n may select.
NextConnections(n) ==
  IF n \in Condition
    THEN {NextNodeByCondition(n, o) : o \in {"out_true", "out_false"}}
    ELSE {Out(n)}

-----------------------------------------------------------------------------
(* Queries on the two tables and messages to the queue.                    *)

Rows(i, n) == {t \in TaskIds : tasks[t].status # "none" /\ tasks[t].wf = i /\ tasks[t].node = n}

\* Seeded bug: one finished input is enough.
AreInputsReady_AnyInput(i, n) ==
  \/ In(n) = {}
  \/ \E k \in In(n) : \E t \in Rows(i, Connections[k].source) : tasks[t].status = "success"

\* Task.objects.get must find exactly one row for every input, and in "success".
AreInputsReady(i, n) ==
  \A k \in In(n) : \E t \in TaskIds :
    Rows(i, Connections[k].source) = {t} /\ tasks[t].status = "success"

Send(i, m) == [queue EXCEPT ![i][m] = @ + 1]

\* Seeded bug: the loop over the next nodes stops after the first one.
Dispatch_FirstOnly(i, ks) ==
  LET first == CHOOSE k \in ks : \A j \in ks : k <= j IN Send(i, Connections[first].target)

\* One process_next_node message for every selected connection.
Dispatch(i, ks) ==
  [queue EXCEPT ![i] =
    [m \in Slots |-> queue[i][m] + Cardinality({k \in ks : Connections[k].target = m})]]

Take(w, i, m, pc) ==
  /\ job[w].pc = "idle"
  /\ queue[i][m] > 0
  /\ queue' = [queue EXCEPT ![i][m] = @ - 1]
  /\ job' = [job EXCEPT ![w] = [Idle EXCEPT !.pc = pc, !.wf = i, !.node = m]]

Goto(w, pc) == job' = [job EXCEPT ![w].pc = pc]
Ack(w) == job' = [job EXCEPT ![w] = Idle]

\* A handler has made its last write, which leaves the messages q in the queue: the worker
\* acknowledges its own, or is lost before that and the broker delivers it again.
Ends(w, q, lost) ==
  /\ lost => budget.crash > 0
  /\ Ack(w)
  /\ queue' = IF lost THEN [q EXCEPT ![job[w].wf][job[w].node] = @ + 1] ELSE q
  /\ budget' = IF lost THEN [budget EXCEPT !.crash = @ - 1] ELSE budget

SetTask(t, status) == tasks' = [tasks EXCEPT ![t].status = status]

-----------------------------------------------------------------------------
(* execute_workflow_v2: open the workflow, then dispatch its start nodes.  *)

ExecuteWorkflowV2(w, i) ==
  /\ Take(w, i, Launch, "dispatch")
  /\ wf' = [wf EXCEPT ![i].status = "progress"]
  /\ UNCHANGED <<tasks, won, api, doubled, budget>>

DispatchStartNodes(w, lost) ==
  /\ job[w].pc = "dispatch"
  /\ LET i == job[w].wf
         sent == [m \in Slots |-> queue[i][m] + (IF m \in StartNodes(wf[i].template) THEN 1 ELSE 0)] IN
       Ends(w, [queue EXCEPT ![i] = sent], lost)
  /\ UNCHANGED <<wf, tasks, won, api, doubled>>

-----------------------------------------------------------------------------
(* process_next_node: read the workflow, park or check the inputs, create  *)
(* the Task row and run execute_workflow_step inline.                      *)

FetchWorkflow(w, i, n) ==
  /\ Take(w, i, n, IF wf[i].status = "wait" THEN "park" ELSE "check")
  /\ UNCHANGED <<wf, tasks, won, api, doubled, budget>>

\* Seeded bug: the early return after parking is missing.
Park_Continues(w, lost) ==
  /\ ~lost
  /\ job[w].pc = "park"
  /\ wf' = [wf EXCEPT ![job[w].wf].status = "wait", ![job[w].wf].current = job[w].node]
  /\ Goto(w, "check")
  /\ UNCHANGED <<tasks, won, queue, api, doubled, budget>>

\* The whole row that FetchWorkflow read in "wait" is saved again, stale.
Park(w, lost) ==
  /\ job[w].pc = "park"
  /\ wf' = [wf EXCEPT ![job[w].wf].status = "wait", ![job[w].wf].current = job[w].node]
  /\ Ends(w, queue, lost)
  /\ UNCHANGED <<tasks, won, api, doubled>>

CheckInputs(w) ==
  /\ job[w].pc = "check"
  /\ IF AreInputsReady(job[w].wf, job[w].node) THEN Goto(w, "create") ELSE Ack(w)
  /\ UNCHANGED <<wf, tasks, won, queue, api, doubled, budget>>

CreateTask(w) ==
  /\ job[w].pc = "create"
  /\ \E t \in TaskIds :
       /\ tasks[t].status = "none"
       /\ \A u \in TaskIds : u < t => tasks[u].status # "none"
       /\ tasks' = [tasks EXCEPT ![t] = [wf |-> job[w].wf, node |-> job[w].node, status |-> "init"]]
       /\ job' = [job EXCEPT ![w].pc = "before_start", ![w].step = t, ![w].row = t]
  /\ UNCHANGED <<wf, won, queue, api, doubled, budget>>

BeforeStart(w) ==
  /\ job[w].pc = "before_start"
  /\ SetTask(job[w].step, "progress")
  /\ Goto(w, "run")
  /\ UNCHANGED <<wf, won, queue, api, doubled, budget>>

\* self.log() in user code saves the row as before_start read it.
Log(w) ==
  /\ job[w].pc = "run" /\ job[w].node \notin DOMAIN Nested
  /\ SetTask(job[w].step, "progress")
  /\ UNCHANGED <<wf, won, queue, job, api, doubled, budget>>

\* A node whose code is a version-2 workflow creates and launches a child.
Delegate(w) ==
  /\ job[w].pc = "run"
  /\ job[w].node \in DOMAIN Nested
  /\ \E c \in Wfs :
       /\ wf[c].status = "none"
       /\ wf' = [wf EXCEPT ![c] = [status |-> "init", current |-> None, parent |-> job[w].wf,
                                   node |-> job[w].node, template |-> Nested[job[w].node]]]
       /\ queue' = Send(c, Launch)
  /\ Goto(w, "delegated")
  /\ UNCHANGED <<tasks, won, api, doubled, budget>>

\* Seeded bug: a Workflow status is stored in the Task row.
SaveNestedProgress_WorkflowStatus(w) ==
  /\ job[w].pc = "delegated"
  /\ SetTask(job[w].step, "wait")
  /\ Goto(w, "returned")
  /\ UNCHANGED <<wf, won, queue, api, doubled, budget>>

\* The row saved here was read by before_start, before the child was launched.
SaveNestedProgress(w) ==
  /\ job[w].pc = "delegated"
  /\ SetTask(job[w].step, "nested-progress")
  /\ Goto(w, "returned")
  /\ UNCHANGED <<wf, won, queue, api, doubled, budget>>

UserCodeRaises(w, kind) ==
  /\ job[w].pc = "run"
  /\ Goto(w, kind)
  /\ UNCHANGED <<wf, tasks, won, queue, api, doubled, budget>>

-----------------------------------------------------------------------------
(* on_success and handle_task_success.                                     *)

\* Seeded bug: the next nodes are looked up before the row is saved.
HandleTaskSuccess_Unsaved(w, t) ==
  /\ job' = [job EXCEPT ![w].pc = "advance", ![w].row = t]
  /\ UNCHANGED <<tasks, won>>

HandleTaskSuccess(w, t) ==
  /\ SetTask(t, "success")
  /\ won' = won \union {t}
  /\ job' = [job EXCEPT ![w].pc = "advance", ![w].row = t]

\* Seeded bug: on_success completes a task that waits for its child.
OnSuccess_IgnoresNested(w) ==
  /\ \/ job[w].pc = "returned"
     \/ job[w].pc = "run" /\ job[w].node \notin DOMAIN Nested
  /\ HandleTaskSuccess(w, job[w].step)
  /\ UNCHANGED <<wf, queue, api, doubled, budget>>

OnSuccess(w) ==
  /\ \/ job[w].pc = "returned"
     \/ job[w].pc = "run" /\ job[w].node \notin DOMAIN Nested
  /\ IF tasks[job[w].step].status = "nested-progress"
       THEN Ack(w) /\ UNCHANGED <<tasks, won>>
       ELSE HandleTaskSuccess(w, job[w].step)
  /\ UNCHANGED <<wf, queue, api, doubled, budget>>

\* Where the completion of workflow i goes: to the one task of the parent that
\* launched it (t), to nobody, or to an exception (none or several such tasks).
HasParent(i) == wf[i].parent # None
ParentTask(i, t) == Rows(wf[i].parent, wf[i].node) = {t}
ParentTaskUnique(i) == \E t \in TaskIds : ParentTask(i, t)

Advance(w, lost) ==
  /\ job[w].pc = "advance"
  /\ LET i == tasks[job[w].row].wf
         n == tasks[job[w].row].node IN
     \E ks \in NextConnections(n) :
       \/ /\ ks # {}
          /\ Ends(w, Dispatch(i, ks), lost)
          /\ UNCHANGED wf
       \/ /\ ks = {}
          /\ wf' = [wf EXCEPT ![i].status = "success", ![i].current = n]
          /\ \/ ~HasParent(i) /\ Ends(w, queue, lost)
             \/ /\ HasParent(i) /\ ~lost
                /\ \E t \in TaskIds : ParentTask(i, t)
                     /\ job' = [job EXCEPT ![w].pc = "parent", ![w].row = t]
                /\ UNCHANGED <<queue, budget>>
             \/ /\ HasParent(i) /\ ~ParentTaskUnique(i) /\ ~lost
                /\ job' = [job EXCEPT ![w].pc = "error", ![w].row = job[w].step]
                /\ UNCHANGED <<queue, budget>>
  /\ UNCHANGED <<tasks, won, api, doubled>>

\* get_next_node_by_condition raises when the result carries no "result" key;
\* the internal-error signal then reaches on_failure for the finished step.
WrongConditionResult(w) ==
  /\ job[w].pc = "advance"
  /\ tasks[job[w].row].node \in Condition
  /\ job' = [job EXCEPT ![w].pc = "error", ![w].row = job[w].step]
  /\ UNCHANGED <<wf, tasks, won, queue, api, doubled, budget>>

\* The last task of a child completes the parent's task, whatever its status.
CompleteParentTask(w) ==
  /\ job[w].pc = "parent"
  /\ HandleTaskSuccess(w, job[w].row)
  /\ UNCHANGED <<wf, queue, api, doubled, budget>>

-----------------------------------------------------------------------------
(* on_failure: the task and its workflow, then the parent's task likewise. *)

\* Seeded bug: the failure of a nested workflow is not passed on.
OnFailure_NoParent(w, lost) ==
  /\ job[w].pc \in {"error", "timeout"}
  /\ SetTask(job[w].row, job[w].pc)
  /\ wf' = [wf EXCEPT ![tasks[job[w].row].wf].status = job[w].pc]
  /\ Ends(w, queue, lost)
  /\ UNCHANGED <<won, api, doubled>>

OnFailure(w, lost) ==
  /\ job[w].pc \in {"error", "timeout"}
  /\ LET t == job[w].row
         i == tasks[t].wf IN
     /\ SetTask(t, job[w].pc)
     /\ wf' = [wf EXCEPT ![i].status = job[w].pc]
     /\ \/ /\ HasParent(i) /\ ~lost
           /\ \E u \in TaskIds : ParentTask(i, u) /\ job' = [job EXCEPT ![w].row = u]
           /\ UNCHANGED <<queue, budget>>
        \/ /\ ~HasParent(i) \/ ~ParentTaskUnique(i)
           /\ Ends(w, queue, lost)
  /\ UNCHANGED <<won, api, doubled>>

-----------------------------------------------------------------------------
(* Faults. Messages are acknowledged late and rejected when the worker is  *)
(* lost, so the broker delivers the message of a crashed worker again. The *)
(* hard time limit kills the process and acknowledges: no Task row carries *)
(* the id of process_next_node, so no handler can record the failure.      *)

Crash(w) ==
  /\ budget.crash > 0 /\ job[w].pc # "idle"
  /\ queue' = Send(job[w].wf, job[w].node)
  /\ Ack(w)
  /\ budget' = [budget EXCEPT !.crash = @ - 1]
  /\ UNCHANGED <<wf, tasks, won, api, doubled>>

\* The worker is lost after the last write of its handler: what it sent and saved stays.
LostBeforeAck(w) ==
  \/ DispatchStartNodes(w, TRUE)
  \/ Park(w, TRUE)
  \/ Advance(w, TRUE)
  \/ OnFailure(w, TRUE)

HardTimeLimit(w) ==
  /\ budget.kill > 0 /\ job[w].pc = "run"
  /\ Ack(w)
  /\ budget' = [budget EXCEPT !.kill = @ - 1]
  /\ UNCHANGED <<wf, tasks, won, queue, api, doubled>>

-----------------------------------------------------------------------------
(* The API: pause, resume and cancel. Each reads the workflow row first    *)
(* and saves that copy later.                                              *)

Request(c, op, i, rows) ==
  api' = [api EXCEPT ![c] = [op |-> op, wf |-> i, current |-> wf[i].current, rows |-> rows]]

SaveRequest(c, status) ==
  /\ wf' = [wf EXCEPT ![api[c].wf].status = status, ![api[c].wf].current = api[c].current]
  /\ api' = [api EXCEPT ![c] = NoRequest]

PauseRead(c, i) ==
  /\ api[c] = NoRequest /\ budget.pause > 0
  /\ wf[i].status = "progress"
  /\ Request(c, "pause", i, {})
  /\ budget' = [budget EXCEPT !.pause = @ - 1]
  /\ UNCHANGED <<wf, tasks, won, queue, job, doubled>>

PauseSave(c) ==
  /\ api[c].op = "pause"
  /\ SaveRequest(c, "wait")
  /\ UNCHANGED <<tasks, won, queue, job, doubled, budget>>

ResumeRead(c, i) ==
  /\ api[c] = NoRequest /\ budget.resume > 0
  /\ wf[i].status = "wait"
  /\ Request(c, "check", i, {})
  /\ budget' = [budget EXCEPT !.resume = @ - 1]
  /\ UNCHANGED <<wf, tasks, won, queue, job, doubled>>

\* A workflow with active tasks is not resumed.
ResumeCheck(c) ==
  /\ api[c].op = "check"
  /\ api' = IF \E t \in TaskIds : tasks[t].wf = api[c].wf /\ tasks[t].status \in {"progress", "init"}
              THEN [api EXCEPT ![c] = NoRequest]
              ELSE [api EXCEPT ![c].op = "resume"]
  /\ UNCHANGED <<wf, tasks, won, queue, job, doubled, budget>>

\* Nothing keeps two requests that both found the workflow paused from sending the node twice.
ResumeSave(c) ==
  /\ api[c].op = "resume"
  /\ SaveRequest(c, "progress")
  /\ queue' = IF api[c].current = None THEN queue ELSE Send(api[c].wf, api[c].current)
  /\ doubled' = IF \E d \in Clients \ {c} : api[d].op \in {"check", "resume"} /\ api[d].wf = api[c].wf
                  THEN [doubled EXCEPT ![api[c].wf] = @ + 1] ELSE doubled
  /\ UNCHANGED <<tasks, won, job, budget>>

CancelRead(c, i) ==
  /\ api[c] = NoRequest /\ budget.cancel > 0
  /\ wf[i].status \in {"init", "progress", "wait"}
  /\ Request(c, "cancel", i, {t \in TaskIds : tasks[t].wf = i /\ tasks[t].status \in Active})
  /\ budget' = [budget EXCEPT !.cancel = @ - 1]
  /\ UNCHANGED <<wf, tasks, won, queue, job, doubled>>

\* The revocation that goes with it names the id of a step that process_next_node
\* runs inline, which no worker holds as a message: the step goes on.
CancelTask(c, t) ==
  /\ api[c].op = "cancel" /\ t \in api[c].rows
  /\ SetTask(t, "canceled")
  /\ api' = [api EXCEPT ![c].rows = @ \ {t}]
  /\ UNCHANGED <<wf, won, queue, job, doubled, budget>>

CancelSave(c) ==
  /\ api[c].op = "cancel" /\ api[c].rows = {}
  /\ SaveRequest(c, "canceled")
  /\ UNCHANGED <<tasks, won, queue, job, doubled, budget>>

-----------------------------------------------------------------------------
Init ==
  /\ wf = [i \in Wfs |-> IF i = Root
                           THEN [NoWorkflow EXCEPT !.status = "init", !.template = RootTemplate]
                           ELSE NoWorkflow]
  /\ tasks = [t \in TaskIds |-> NoTask]
  /\ won = {}
  /\ queue = [i \in Wfs |-> [m \in Slots |-> IF i = Root /\ m = Launch THEN 1 ELSE 0]]
  /\ job = [w \in Workers |-> Idle]
  /\ api = [c \in Clients |-> NoRequest]
  /\ doubled = [i \in Wfs |-> 0]
  /\ budget = Budget

\* What a worker does of its own accord: every step ends, by the time limits.
WorkerStep(w) ==
  \/ \E i \in Wfs : ExecuteWorkflowV2(w, i)
  \/ DispatchStartNodes(w, FALSE)
  \/ \E i \in Wfs, n \in Nodes : FetchWorkflow(w, i, n)
  \/ Park(w, FALSE)
  \/ CheckInputs(w)
  \/ CreateTask(w)
  \/ BeforeStart(w)
  \/ Delegate(w)
  \/ SaveNestedProgress(w)
  \/ \E kind \in FailureKinds : UserCodeRaises(w, kind)
  \/ OnSuccess(w)
  \/ Advance(w, FALSE)
  \/ WrongConditionResult(w)
  \/ CompleteParentTask(w)
  \/ OnFailure(w, FALSE)

Fault(w) == Log(w) \/ Crash(w) \/ LostBeforeAck(w) \/ HardTimeLimit(w)

ApiStep(c) ==
  \/ \E i \in Wfs : PauseRead(c, i) \/ ResumeRead(c, i) \/ CancelRead(c, i)
  \/ PauseSave(c)
  \/ ResumeCheck(c)
  \/ ResumeSave(c)
  \/ \E t \in TaskIds : CancelTask(c, t)
  \/ CancelSave(c)

Next == \/ \E w \in Workers : WorkerStep(w) \/ Fault(w)
        \/ \E c \in Clients : ApiStep(c)

Spec == Init /\ [][Next]_vars

\* Workers keep working; users and faults owe nothing.
FairSpec == Spec /\ \A w \in Workers : WF_vars(WorkerStep(w))
-----------------------------------------------------------------------------
(* Properties.                                                             *)

\* The types of the rows, messages and worker states; in particular that a Task
\* row only ever gets a Task status and a Workflow row a Workflow status, the two
\* sets of choices in models.py, which differ in "wait" and "nested-progress".
TypeOK ==
  /\ wf \in [Wfs -> WfRow]
  /\ tasks \in [TaskIds -> TaskRow]
  /\ won \subseteq TaskIds
  /\ queue \in [Wfs -> [Slots -> Nat]]
  /\ job \in [Workers -> Job]
  /\ api \in [Clients -> ApiRequest]
  /\ doubled \in [Wfs -> Nat]
  /\ budget \in [pause : Nat, resume : Nat, cancel : Nat, crash : Nat, kill : Nat]

\* The inputs of node n were completed in workflow i at some time.
InputsWon(i, n) ==
  \A k \in In(n) : \E t \in won :
    tasks[t].wf = i /\ tasks[t].node = Connections[k].source

\* A node is started only after every node that feeds it was completed by
\* handle_task_success, whatever pauses, cancels, crashes, redeliveries and stale
\* saves happen between are_inputs_ready and the creation of the row.
DependencyOrder ==
  \A t \in TaskIds : tasks[t].status # "none" => InputsWon(tasks[t].wf, tasks[t].node)

\* Nothing is queued, running or requested.
Quiescent ==
  /\ \A i \in Wfs, m \in Slots : queue[i][m] = 0
  /\ \A w \in Workers : job[w] = Idle
  /\ \A c \in Clients : api[c] = NoRequest

Complete(i, n) == Rows(i, n) # {} /\ \A t \in Rows(i, n) : tasks[t].status = "success"

\* Once all is done, the task that delegated has the outcome of the nested workflow
\* it launched: success through handle_task_success, error and timeout through the
\* recursion of on_failure over the parents.
NestedOutcome ==
  Quiescent => \A c \in Wfs :
    wf[c].parent # None =>
      \A t \in Rows(wf[c].parent, wf[c].node) : tasks[t].status = wf[c].status

\* When nothing is left to do, no node of a workflow that is not paused was
\* forgotten: if all its inputs are complete it was started. The last of several
\* inputs to finish must find the others' rows saved (handle_task_success saves,
\* then dispatches; are_inputs_ready reads after that).
NoLostNode ==
  Quiescent => \A i \in Wfs, n \in Nodes :
    /\ wf[i].status \notin {"none", "wait"}
    /\ TemplateOf[n] = wf[i].template
    /\ \A k \in In(n) : LET s == Connections[k].source IN s \notin Condition /\ Complete(i, s)
    => Rows(i, n) # {}

\* A complete condition node with connections on both outputs has started the
\* target of exactly one of them (get_next_node_by_condition).
OneBranchTaken ==
  Quiescent => \A i \in Wfs, n \in Condition :
    LET targets == {Connections[k].target : k \in UNION NextConnections(n)} IN
    (Complete(i, n) /\ {} \notin NextConnections(n)) =>
      Cardinality({m \in targets : Rows(i, m) # {}}) = 1

\* No node of a workflow is executed twice, through pause, park and resume: process_next_node
\* creates at most one Task row per workflow and node, and one more for every resume request
\* that was saved while another request to resume the same workflow was in progress.
NodeRunsOnce ==
  \A i \in Wfs, n \in Nodes : Cardinality(Rows(i, n)) <= 1 + doubled[i]

\* The rows as a dataflow: what was started, completed and launched.
Feeds == {<<Connections[k].source, Connections[k].target>> : k \in DOMAIN Connections}
Started == {<<tasks[t].wf, tasks[t].node>> : t \in {u \in TaskIds : tasks[u].status # "none"}}
Completed == {<<tasks[t].wf, tasks[t].node>> : t \in won}
Launched == {<<wf[c].parent, wf[c].node, c>> : c \in {d \in Wfs : wf[d].parent # None}}

Last == {n \in Nodes : {} \in NextConnections(n)}

Order == INSTANCE Dataflow WITH
  Delegating <- {}, started <- Started, completed <- Completed, launched <- Launched
Nesting == INSTANCE Dataflow WITH
  Delegating <- DOMAIN Nested, started <- Started, completed <- Completed, launched <- Launched

\* The engine implements the order of the dataflow under every fault: each step of a
\* worker, of a request or of a fault starts a node whose inputs are complete,
\* completes one that was started, launches a workflow, or changes none of these.
KeepsOrder == Order!Spec

\* Without cancellation, and as long as no nested workflow fails, it also implements the
\* nesting: a node that delegates is completed by the completion of the workflow it launched,
\* and by nothing else.
KeepsNesting == Nesting!Spec

\* Every workflow that was created comes to an end, and stays there, when workers
\* keep working: no message, check or nested completion gets lost on the way.
EveryWorkflowEnds ==
  <>[](\A i \in Wfs : wf[i].status \in Finished \union {"none"})
=============================================================================
