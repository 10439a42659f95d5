----------------------- MODULE WorkflowEngineProofs -----------------------
(* Theorems about WorkflowEngine for all graphs, tables, workers and fault *)
(* budgets: type correctness, and that no node starts before its inputs.   *)
EXTENDS WorkflowEngine, FiniteSetTheorems, TLAPS

\* The program counters at which a worker is running a step it has a row for.
StepPcs == Pcs \ {"idle", "dispatch", "park", "check", "create"}

Exists(t) == tasks[t].status # "none"

\* What the types leave open: the fields that are filled in at each stage.
RowsFilled ==
  \A t \in TaskIds : Exists(t) => tasks[t].wf \in Wfs /\ tasks[t].node \in Nodes

JobFilled(j, table) ==
  /\ j.pc # "idle" => j.wf \in Wfs /\ j.node \in Slots
  /\ j.pc \notin {"idle", "dispatch"} => j.node \in Nodes
  /\ j.pc \in StepPcs =>
       /\ j.step \in TaskIds /\ table[j.step].status # "none"
       /\ j.row \in TaskIds /\ table[j.row].status # "none"

JobsFilled == \A w \in Workers : JobFilled(job[w], tasks)

RequestFilled ==
  \A c \in Clients : /\ api[c].op # "none" => api[c].wf \in Wfs
                     /\ \A t \in api[c].rows : Exists(t)

TypeInv == TypeOK /\ RowsFilled /\ JobsFilled /\ RequestFilled

\* No row disappears, and none is moved to another workflow or node.
KeepsRows ==
  \A t \in TaskIds : Exists(t) =>
    Exists(t)' /\ tasks'[t].wf = tasks[t].wf /\ tasks'[t].node = tasks[t].node

\* The row of a completed task exists, and "success" is only ever saved together
\* with the record that the task was completed.
WonRows ==
  /\ \A t \in won : Exists(t)
  /\ \A t \in TaskIds : tasks[t].status = "success" => t \in won

\* Between are_inputs_ready and the creation of the row the inputs stay completed.
CreateReady ==
  \A w \in Workers : job[w].pc = "create" => InputsWon(job[w].wf, job[w].node)

DependencyInv == WonRows /\ CreateReady /\ DependencyOrder

-----------------------------------------------------------------------------

\* The connections selected after a node are connections.
LEMMA NextConnectionsType ==
  ASSUME NEW n \in Nodes, NEW ks \in NextConnections(n)
  PROVE  ks \subseteq DOMAIN Connections
BY DEF NextConnections, NextNodeByCondition, Out

\* Dispatching adds a natural number of messages to each slot.
LEMMA DispatchCount ==
  ASSUME NEW ks \in SUBSET DOMAIN Connections, NEW m
  PROVE  Cardinality({k \in ks : Connections[k].target = m}) \in Nat
<1>1. DOMAIN Connections = 1..Len(Connections) /\ Len(Connections) \in Nat
  BY GraphAssumption
<1>2. IsFiniteSet(DOMAIN Connections)
  BY <1>1, FS_Interval
<1>3. {k \in ks : Connections[k].target = m} \subseteq DOMAIN Connections
  OBVIOUS
<1>4. IsFiniteSet({k \in ks : Connections[k].target = m})
  BY <1>2, <1>3, FS_Subset
<1> QED
  BY <1>4, FS_CardinalityType

LEMMA DispatchType ==
  ASSUME TypeOK, NEW i \in Wfs, NEW ks \in SUBSET DOMAIN Connections
  PROVE  Dispatch(i, ks) \in [Wfs -> [Slots -> Nat]]
<1> DEFINE count(m) == Cardinality({k \in ks : Connections[k].target = m})
           row == [m \in Slots |-> queue[i][m] + count(m)]
<1>1. \A m \in Slots : count(m) \in Nat
  BY DispatchCount
<1>2. Dispatch(i, ks) = [queue EXCEPT ![i] = row]
  BY DEF Dispatch
<1> HIDE DEF count
<1>3. row \in [Slots -> Nat]
  BY <1>1 DEF TypeOK
<1> HIDE DEF row
<1> QED
  BY <1>2, <1>3 DEF TypeOK

\* The initial state is well formed.
LEMMA InitTypeInv == Init => TypeInv
<1> SUFFICES ASSUME Init PROVE TypeInv
  OBVIOUS
<1> USE GraphAssumption, RowAssumption
<1>1. wf \in [Wfs -> WfRow]
  BY DEF Init, NoWorkflow, WfRow, WfStatus
<1>2. tasks \in [TaskIds -> TaskRow] /\ won \subseteq TaskIds /\ RowsFilled
  BY DEF Init, NoTask, TaskRow, RowsFilled, Exists
<1>3. queue \in [Wfs -> [Slots -> Nat]]
  BY DEF Init
<1>4. job \in [Workers -> Job] /\ JobsFilled
  BY DEF Init, Idle, Job, Pcs, JobsFilled, JobFilled, StepPcs
<1>5. api \in [Clients -> ApiRequest] /\ RequestFilled /\ doubled \in [Wfs -> Nat]
  BY DEF Init, NoRequest, ApiRequest, RequestFilled
<1>6. budget \in [pause : Nat, resume : Nat, cancel : Nat, crash : Nat, kill : Nat]
  BY DEF Init
<1> QED
  BY <1>1, <1>2, <1>3, <1>4, <1>5, <1>6 DEF TypeInv, TypeOK

\* Replacing what one worker holds by something well formed.
LEMMA JobUpdate ==
  ASSUME TypeInv, KeepsRows, NEW w \in Workers, NEW j \in Job,
         JobFilled(j, tasks'), job' = [job EXCEPT ![w] = j]
  PROVE  job' \in [Workers -> Job] /\ JobsFilled'
<1>1. job \in [Workers -> Job] /\ \A v \in Workers : JobFilled(job[v], tasks)
  BY DEF TypeInv, TypeOK, JobsFilled
<1>2. job' \in [Workers -> Job]
  BY <1>1
<1>3. ASSUME NEW v \in Workers PROVE JobFilled(job'[v], tasks')
  <2>1. CASE v = w
    BY <1>1, <2>1
  <2>2. CASE v # w
    BY <1>1, <2>2 DEF JobFilled, KeepsRows, Exists
  <2> QED BY <2>1, <2>2
<1> QED
  BY <1>2, <1>3 DEF JobsFilled

LEMMA AckType ==
  ASSUME TypeInv, KeepsRows, NEW w \in Workers, Ack(w)
  PROVE  job' \in [Workers -> Job] /\ JobsFilled'
<1>1. Idle \in Job /\ JobFilled(Idle, tasks')
  BY DEF Idle, Job, Pcs, JobFilled, StepPcs
<1> QED
  BY <1>1, JobUpdate DEF Ack

LEMMA TakeType ==
  ASSUME TypeInv, KeepsRows, NEW w \in Workers, NEW i \in Wfs, NEW m \in Slots,
         NEW pc \in {"dispatch", "park", "check"}, pc = "dispatch" \/ m \in Nodes,
         Take(w, i, m, pc)
  PROVE  /\ job' \in [Workers -> Job] /\ JobsFilled'
         /\ queue' \in [Wfs -> [Slots -> Nat]]
<1> DEFINE j == [Idle EXCEPT !.pc = pc, !.wf = i, !.node = m]
<1>1. j \in Job
  BY DEF Idle, Job, Pcs
<1>2. JobFilled(j, tasks')
  BY DEF Idle, JobFilled, StepPcs
<1>3. queue' \in [Wfs -> [Slots -> Nat]]
  BY DEF Take, TypeInv, TypeOK
<1> QED
  BY <1>1, <1>2, <1>3, JobUpdate DEF Take

LEMMA GotoType ==
  ASSUME TypeInv, KeepsRows, NEW w \in Workers, NEW pc \in Pcs, Goto(w, pc),
         job[w].pc \notin {"idle", "dispatch"},
         pc \in StepPcs => job[w].pc \in StepPcs
  PROVE  job' \in [Workers -> Job] /\ JobsFilled'
<1> DEFINE j == [job[w] EXCEPT !.pc = pc]
<1>1. job[w] \in Job /\ JobFilled(job[w], tasks)
  BY DEF TypeInv, TypeOK, JobsFilled
<1>2. j \in Job
  BY <1>1 DEF Job
<1>3. JobFilled(j, tasks')
  BY <1>1 DEF Job, JobFilled, KeepsRows, Exists
<1> QED
  BY <1>2, <1>3, JobUpdate DEF Goto

\* A worker in the middle of a step turns to row t, which exists.
LEMMA TurnToRow ==
  ASSUME TypeInv, KeepsRows, NEW w \in Workers, job[w].pc \in StepPcs, NEW pc \in StepPcs,
         NEW t \in TaskIds, Exists(t),
         job' = [job EXCEPT ![w].pc = pc, ![w].row = t]
  PROVE  job' \in [Workers -> Job] /\ JobsFilled'
<1> DEFINE j == [job[w] EXCEPT !.pc = pc, !.row = t]
<1>1. job[w] \in Job /\ JobFilled(job[w], tasks)
  BY DEF TypeInv, TypeOK, JobsFilled
<1>2. j \in Job
  BY <1>1 DEF Job, StepPcs
<1>3. JobFilled(j, tasks')
  BY <1>1 DEF Job, JobFilled, KeepsRows, Exists, StepPcs
<1>4. job' = [job EXCEPT ![w] = j]
  OBVIOUS
<1> QED
  BY <1>2, <1>3, <1>4, JobUpdate

\* Saving a status in an existing row.
LEMMA SetTaskType ==
  ASSUME TypeInv, NEW t \in TaskIds, Exists(t), NEW s \in TaskStatus, SetTask(t, s)
  PROVE  tasks' \in [TaskIds -> TaskRow] /\ RowsFilled' /\ KeepsRows
<1>1. tasks \in [TaskIds -> TaskRow]
  BY DEF TypeInv, TypeOK
<1>2. tasks' \in [TaskIds -> TaskRow]
  BY <1>1 DEF SetTask, TaskRow
<1>3. \A u \in TaskIds : /\ tasks'[u].wf = tasks[u].wf
                         /\ tasks'[u].node = tasks[u].node
                         /\ Exists(u) <=> Exists(u)'
  BY <1>1 DEF SetTask, TaskRow, TaskStatus, Exists
<1> QED
  BY <1>2, <1>3 DEF RowsFilled, KeepsRows, TypeInv

LEMMA SetWfStatusType ==
  ASSUME TypeInv, NEW i, NEW s \in WfStatus, wf' = [wf EXCEPT ![i].status = s]
  PROVE  wf' \in [Wfs -> WfRow]
<1>1. wf \in [Wfs -> WfRow]
  BY DEF TypeInv, TypeOK
<1> QED BY <1>1 DEF WfRow

LEMMA SetWfType ==
  ASSUME TypeInv, NEW i, NEW s \in WfStatus, NEW n \in Nodes \union {None},
         wf' = [wf EXCEPT ![i].status = s, ![i].current = n]
  PROVE  wf' \in [Wfs -> WfRow]
<1>1. wf \in [Wfs -> WfRow]
  BY DEF TypeInv, TypeOK
<1> QED BY <1>1 DEF WfRow

\* What a step leaves alone keeps its type.
LEMMA UnchangedTasks ==
  ASSUME TypeInv, UNCHANGED tasks
  PROVE  tasks' \in [TaskIds -> TaskRow] /\ RowsFilled' /\ KeepsRows
<1>1. tasks \in [TaskIds -> TaskRow] /\ RowsFilled
  BY DEF TypeInv, TypeOK
<1> QED BY <1>1 DEF RowsFilled, KeepsRows, Exists

LEMMA UnchangedApi ==
  ASSUME TypeInv, KeepsRows, UNCHANGED api
  PROVE  api' \in [Clients -> ApiRequest] /\ RequestFilled'
BY DEF TypeInv, TypeOK, RequestFilled, KeepsRows, ApiRequest, Exists

\* The request of one client is replaced by a well formed one.
LEMMA RequestUpdate ==
  ASSUME TypeInv, KeepsRows, NEW c \in Clients, NEW r \in ApiRequest,
         r.op # "none" => r.wf \in Wfs, \A t \in r.rows : Exists(t),
         api' = [api EXCEPT ![c] = r]
  PROVE  api' \in [Clients -> ApiRequest] /\ RequestFilled'
<1>1. api \in [Clients -> ApiRequest] /\ RequestFilled
  BY DEF TypeInv, TypeOK
<1>2. api' \in [Clients -> ApiRequest]
  BY <1>1
<1>3. \A d \in Clients : api'[d] = IF d = c THEN r ELSE api[d]
  BY <1>1
<1>4. \A d \in Clients, t \in TaskIds : t \in api'[d].rows => Exists(t)
  BY <1>1, <1>3 DEF RequestFilled
<1>5. \A d \in Clients : api'[d].rows \subseteq TaskIds
  BY <1>2 DEF ApiRequest
<1>6. \A d \in Clients : api'[d].op # "none" => api'[d].wf \in Wfs
  BY <1>1, <1>3 DEF RequestFilled
<1> QED
  BY <1>2, <1>4, <1>5, <1>6 DEF RequestFilled, KeepsRows

\* A handler ends, with or without the acknowledgement of its message.
LEMMA EndsType ==
  ASSUME TypeInv, KeepsRows, NEW w \in Workers, job[w].pc # "idle", NEW lost \in BOOLEAN,
         NEW q \in [Wfs -> [Slots -> Nat]], Ends(w, q, lost)
  PROVE  /\ job' \in [Workers -> Job] /\ JobsFilled'
         /\ queue' \in [Wfs -> [Slots -> Nat]]
         /\ budget' \in [pause : Nat, resume : Nat, cancel : Nat, crash : Nat, kill : Nat]
<1>1. job' \in [Workers -> Job] /\ JobsFilled'
  BY AckType DEF Ends
<1>2. job[w].wf \in Wfs /\ job[w].node \in Slots
  BY DEF TypeInv, JobsFilled, JobFilled
<1>3. queue' \in [Wfs -> [Slots -> Nat]]
  BY <1>2 DEF Ends
<1>4. budget' \in [pause : Nat, resume : Nat, cancel : Nat, crash : Nat, kill : Nat]
  BY DEF Ends, TypeInv, TypeOK
<1> QED
  BY <1>1, <1>3, <1>4

\* Facts about a worker in the middle of a step.
LEMMA StepFacts ==
  ASSUME TypeInv, NEW w \in Workers, job[w].pc \in StepPcs
  PROVE  /\ job[w].wf \in Wfs /\ job[w].node \in Nodes
         /\ job[w].step \in TaskIds /\ Exists(job[w].step)
         /\ job[w].row \in TaskIds /\ Exists(job[w].row)
         /\ tasks[job[w].row].wf \in Wfs /\ tasks[job[w].row].node \in Nodes
BY DEF TypeInv, JobsFilled, JobFilled, StepPcs, Exists, RowsFilled

LEMMA HandleTaskSuccessType ==
  ASSUME TypeInv, NEW w \in Workers, job[w].pc \in StepPcs,
         NEW t \in TaskIds, Exists(t), HandleTaskSuccess(w, t)
  PROVE  /\ tasks' \in [TaskIds -> TaskRow] /\ RowsFilled' /\ KeepsRows
         /\ job' \in [Workers -> Job] /\ JobsFilled'
         /\ won' \subseteq TaskIds
<1>1. tasks' \in [TaskIds -> TaskRow] /\ RowsFilled' /\ KeepsRows
  BY SetTaskType DEF HandleTaskSuccess, TaskStatus
<1>2. job' \in [Workers -> Job] /\ JobsFilled'
  BY <1>1, TurnToRow DEF HandleTaskSuccess, StepPcs, Pcs
<1>3. won' \subseteq TaskIds
  BY DEF HandleTaskSuccess, TypeInv, TypeOK
<1> QED
  BY <1>1, <1>2, <1>3

\* Every step of a worker keeps the state well formed.
LEMMA WorkerTypeInv ==
  ASSUME TypeInv, NEW w \in Workers, WorkerStep(w) \/ Fault(w)
  PROVE  TypeInv' /\ KeepsRows
<1>1. ASSUME NEW i \in Wfs, ExecuteWorkflowV2(w, i)
      PROVE  TypeInv' /\ KeepsRows
  <2>1. tasks' \in [TaskIds -> TaskRow] /\ RowsFilled' /\ KeepsRows
    BY <1>1, UnchangedTasks DEF ExecuteWorkflowV2
  <2>2. api' \in [Clients -> ApiRequest] /\ RequestFilled'
    BY <1>1, <2>1, UnchangedApi DEF ExecuteWorkflowV2
  <2>3. job' \in [Workers -> Job] /\ JobsFilled' /\ queue' \in [Wfs -> [Slots -> Nat]]
    BY <1>1, <2>1, TakeType DEF ExecuteWorkflowV2, Slots
  <2>4. wf' \in [Wfs -> WfRow]
    BY <1>1, SetWfStatusType DEF ExecuteWorkflowV2, WfStatus
  <2> QED
    BY <1>1, <2>1, <2>2, <2>3, <2>4 DEF ExecuteWorkflowV2, TypeInv, TypeOK
<1>2. ASSUME NEW lost \in BOOLEAN, DispatchStartNodes(w, lost)
      PROVE  TypeInv' /\ KeepsRows
  <2>1. tasks' \in [TaskIds -> TaskRow] /\ RowsFilled' /\ KeepsRows
    BY <1>2, UnchangedTasks DEF DispatchStartNodes
  <2>2. api' \in [Clients -> ApiRequest] /\ RequestFilled'
    BY <1>2, <2>1, UnchangedApi DEF DispatchStartNodes
  <2>3. /\ job' \in [Workers -> Job] /\ JobsFilled'
        /\ queue' \in [Wfs -> [Slots -> Nat]]
        /\ budget' \in [pause : Nat, resume : Nat, cancel : Nat, crash : Nat, kill : Nat]
    <3> DEFINE i == job[w].wf
               row == [m \in Slots |-> queue[i][m] + (IF m \in StartNodes(wf[i].template) THEN 1 ELSE 0)]
    <3>1. i \in Wfs
      BY <1>2 DEF DispatchStartNodes, TypeInv, JobsFilled, JobFilled
    <3>2. job[w].pc # "idle" /\ Ends(w, [queue EXCEPT ![i] = row], lost)
      BY <1>2 DEF DispatchStartNodes
    <3>3. row \in [Slots -> Nat]
      BY <3>1 DEF TypeInv, TypeOK
    <3> HIDE DEF row
    <3>4. [queue EXCEPT ![i] = row] \in [Wfs -> [Slots -> Nat]]
      BY <3>3 DEF TypeInv, TypeOK
    <3> QED BY <2>1, <3>2, <3>4, EndsType
  <2> QED
    BY <1>2, <2>1, <2>2, <2>3 DEF DispatchStartNodes, TypeInv, TypeOK
<1>3. ASSUME NEW i \in Wfs, NEW n \in Nodes, FetchWorkflow(w, i, n)
      PROVE  TypeInv' /\ KeepsRows
  <2>1. tasks' \in [TaskIds -> TaskRow] /\ RowsFilled' /\ KeepsRows
    BY <1>3, UnchangedTasks DEF FetchWorkflow
  <2>2. api' \in [Clients -> ApiRequest] /\ RequestFilled'
    BY <1>3, <2>1, UnchangedApi DEF FetchWorkflow
  <2>3. job' \in [Workers -> Job] /\ JobsFilled' /\ queue' \in [Wfs -> [Slots -> Nat]]
    <3>1. CASE wf[i].status = "wait"
      BY <1>3, <2>1, <3>1, TakeType DEF FetchWorkflow, Slots
    <3>2. CASE wf[i].status # "wait"
      BY <1>3, <2>1, <3>2, TakeType DEF FetchWorkflow, Slots
    <3> QED BY <3>1, <3>2
  <2> QED
    BY <1>3, <2>1, <2>2, <2>3 DEF FetchWorkflow, TypeInv, TypeOK
<1>4. ASSUME NEW lost \in BOOLEAN, Park(w, lost)
      PROVE  TypeInv' /\ KeepsRows
  <2>1. tasks' \in [TaskIds -> TaskRow] /\ RowsFilled' /\ KeepsRows
    BY <1>4, UnchangedTasks DEF Park
  <2>2. api' \in [Clients -> ApiRequest] /\ RequestFilled'
    BY <1>4, <2>1, UnchangedApi DEF Park
  <2>3. /\ job' \in [Workers -> Job] /\ JobsFilled'
        /\ queue' \in [Wfs -> [Slots -> Nat]]
        /\ budget' \in [pause : Nat, resume : Nat, cancel : Nat, crash : Nat, kill : Nat]
    <3>1. queue \in [Wfs -> [Slots -> Nat]]
      BY DEF TypeInv, TypeOK
    <3> QED BY <1>4, <2>1, <3>1, EndsType DEF Park
  <2>4. job[w].node \in Nodes
    BY <1>4 DEF Park, TypeInv, JobsFilled, JobFilled
  <2>5. wf' \in [Wfs -> WfRow]
    BY <1>4, <2>4, SetWfType DEF Park, WfStatus
  <2> QED
    BY <1>4, <2>1, <2>2, <2>3, <2>4, <2>5 DEF Park, TypeInv, TypeOK
<1>5. ASSUME CheckInputs(w)
      PROVE  TypeInv' /\ KeepsRows
  <2>1. tasks' \in [TaskIds -> TaskRow] /\ RowsFilled' /\ KeepsRows
    BY <1>5, UnchangedTasks DEF CheckInputs
  <2>2. api' \in [Clients -> ApiRequest] /\ RequestFilled'
    BY <1>5, <2>1, UnchangedApi DEF CheckInputs
  <2>3. job' \in [Workers -> Job] /\ JobsFilled'
    BY <1>5, <2>1, AckType, GotoType DEF CheckInputs, Pcs, StepPcs
  <2> QED
    BY <1>5, <2>1, <2>2, <2>3 DEF CheckInputs, TypeInv, TypeOK
<1>6. ASSUME CreateTask(w)
      PROVE  TypeInv' /\ KeepsRows
  <2> PICK t \in TaskIds :
        /\ tasks[t].status = "none"
        /\ tasks' = [tasks EXCEPT ![t] = [wf |-> job[w].wf, node |-> job[w].node, status |-> "init"]]
        /\ job' = [job EXCEPT ![w].pc = "before_start", ![w].step = t, ![w].row = t]
    BY <1>6 DEF CreateTask
  <2>1. job[w].wf \in Wfs /\ job[w].node \in Nodes
    BY <1>6 DEF CreateTask, TypeInv, JobsFilled, JobFilled
  <2>2. tasks' \in [TaskIds -> TaskRow] /\ RowsFilled' /\ KeepsRows
    BY <2>1 DEF TypeInv, TypeOK, TaskRow, TaskStatus, RowsFilled, KeepsRows, Exists
  <2>3. api' \in [Clients -> ApiRequest] /\ RequestFilled'
    BY <1>6, <2>2, UnchangedApi DEF CreateTask
  <2>4. [job[w] EXCEPT !.pc = "before_start", !.step = t, !.row = t] \in Job
    <3>1. job[w] \in Job
      BY DEF TypeInv, TypeOK
    <3> QED BY <3>1 DEF Job, Pcs
  <2>5. JobFilled([job[w] EXCEPT !.pc = "before_start", !.step = t, !.row = t], tasks')
    BY <2>1 DEF TypeInv, TypeOK, Job, JobFilled, StepPcs, Pcs, Slots, TaskRow
  <2>6. job' \in [Workers -> Job] /\ JobsFilled'
    BY <2>2, <2>4, <2>5, JobUpdate
  <2> QED
    BY <1>6, <2>1, <2>2, <2>3, <2>4, <2>5, <2>6 DEF CreateTask, TypeInv, TypeOK
<1>7. ASSUME BeforeStart(w)
      PROVE  TypeInv' /\ KeepsRows
  <2>1. /\ job[w].wf \in Wfs /\ job[w].node \in Nodes
        /\ job[w].step \in TaskIds /\ Exists(job[w].step)
        /\ job[w].row \in TaskIds /\ Exists(job[w].row)
    BY <1>7, StepFacts DEF BeforeStart, StepPcs, Pcs
  <2>2. tasks' \in [TaskIds -> TaskRow] /\ RowsFilled' /\ KeepsRows
    BY <1>7, <2>1, SetTaskType DEF BeforeStart, TaskStatus
  <2>3. api' \in [Clients -> ApiRequest] /\ RequestFilled'
    BY <1>7, <2>2, UnchangedApi DEF BeforeStart
  <2>4. job' \in [Workers -> Job] /\ JobsFilled'
    BY <1>7, <2>2, GotoType DEF BeforeStart, StepPcs, Pcs
  <2> QED
    BY <1>7, <2>1, <2>2, <2>3, <2>4 DEF BeforeStart, TypeInv, TypeOK
<1>8. ASSUME Delegate(w)
      PROVE  TypeInv' /\ KeepsRows
  <2>1. tasks' \in [TaskIds -> TaskRow] /\ RowsFilled' /\ KeepsRows
    BY <1>8, UnchangedTasks DEF Delegate
  <2>2. api' \in [Clients -> ApiRequest] /\ RequestFilled'
    BY <1>8, <2>1, UnchangedApi DEF Delegate
  <2>3. job' \in [Workers -> Job] /\ JobsFilled'
    BY <1>8, <2>1, GotoType DEF Delegate, StepPcs, Pcs
  <2>4. /\ job[w].wf \in Wfs /\ job[w].node \in Nodes
        /\ job[w].step \in TaskIds /\ Exists(job[w].step)
        /\ job[w].row \in TaskIds /\ Exists(job[w].row)
    BY <1>8, StepFacts DEF Delegate, StepPcs, Pcs
  <2>5. job[w].node \in DOMAIN Nested /\ Nested[job[w].node] \in Templates
    BY <1>8, GraphAssumption DEF Delegate
  <2>6. PICK c \in Wfs :
        /\ wf[c].status = "none"
        /\ wf' = [wf EXCEPT ![c] = [status |-> "init", current |-> None, parent |-> job[w].wf,
                                    node |-> job[w].node, template |-> Nested[job[w].node]]]
        /\ queue' = Send(c, Launch)
    BY <1>8 DEF Delegate
  <2>7. wf' \in [Wfs -> WfRow]
    BY <2>4, <2>5, <2>6 DEF TypeInv, TypeOK, WfRow, WfStatus
  <2>8. Launch \in Slots
    BY DEF Slots
  <2>9. queue' \in [Wfs -> [Slots -> Nat]]
    BY <2>6, <2>8 DEF Send, TypeInv, TypeOK
  <2> QED
    BY <1>8, <2>1, <2>2, <2>3, <2>4, <2>5, <2>6, <2>7, <2>8, <2>9 DEF Delegate, TypeInv, TypeOK
<1>9. ASSUME SaveNestedProgress(w)
      PROVE  TypeInv' /\ KeepsRows
  <2>1. /\ job[w].wf \in Wfs /\ job[w].node \in Nodes
        /\ job[w].step \in TaskIds /\ Exists(job[w].step)
        /\ job[w].row \in TaskIds /\ Exists(job[w].row)
    BY <1>9, StepFacts DEF SaveNestedProgress, StepPcs, Pcs
  <2>2. tasks' \in [TaskIds -> TaskRow] /\ RowsFilled' /\ KeepsRows
    BY <1>9, <2>1, SetTaskType DEF SaveNestedProgress, TaskStatus
  <2>3. api' \in [Clients -> ApiRequest] /\ RequestFilled'
    BY <1>9, <2>2, UnchangedApi DEF SaveNestedProgress
  <2>4. job' \in [Workers -> Job] /\ JobsFilled'
    BY <1>9, <2>2, GotoType DEF SaveNestedProgress, StepPcs, Pcs
  <2> QED
    BY <1>9, <2>1, <2>2, <2>3, <2>4 DEF SaveNestedProgress, TypeInv, TypeOK
<1>10. ASSUME NEW kind \in FailureKinds, UserCodeRaises(w, kind)
      PROVE  TypeInv' /\ KeepsRows
  <2>1. tasks' \in [TaskIds -> TaskRow] /\ RowsFilled' /\ KeepsRows
    BY <1>10, UnchangedTasks DEF UserCodeRaises
  <2>2. api' \in [Clients -> ApiRequest] /\ RequestFilled'
    BY <1>10, <2>1, UnchangedApi DEF UserCodeRaises
  <2>3. job' \in [Workers -> Job] /\ JobsFilled'
    BY <1>10, <2>1, GotoType, RowAssumption DEF UserCodeRaises, StepPcs, Pcs
  <2> QED
    BY <1>10, <2>1, <2>2, <2>3 DEF UserCodeRaises, TypeInv, TypeOK
<1>11. ASSUME OnSuccess(w)
      PROVE  TypeInv' /\ KeepsRows
  <2>1. job[w].pc \in StepPcs
    BY <1>11 DEF OnSuccess, StepPcs, Pcs
  <2>2. /\ job[w].wf \in Wfs /\ job[w].node \in Nodes
        /\ job[w].step \in TaskIds /\ Exists(job[w].step)
        /\ job[w].row \in TaskIds /\ Exists(job[w].row)
    BY <2>1, StepFacts
  <2>3. /\ tasks' \in [TaskIds -> TaskRow] /\ RowsFilled' /\ KeepsRows
        /\ job' \in [Workers -> Job] /\ JobsFilled'
        /\ won' \subseteq TaskIds
    <3>1. CASE tasks[job[w].step].status = "nested-progress"
      <4>1. Ack(w) /\ UNCHANGED <<tasks, won>>
        BY <1>11, <3>1 DEF OnSuccess
      <4> QED BY <4>1, UnchangedTasks, AckType DEF TypeInv, TypeOK
    <3>2. CASE tasks[job[w].step].status # "nested-progress"
      BY <1>11, <2>1, <2>2, <3>2, HandleTaskSuccessType DEF OnSuccess
    <3> QED BY <3>1, <3>2
  <2>4. api' \in [Clients -> ApiRequest] /\ RequestFilled'
    BY <1>11, <2>3, UnchangedApi DEF OnSuccess
  <2> QED
    BY <1>11, <2>1, <2>2, <2>3, <2>4 DEF OnSuccess, TypeInv, TypeOK
<1>12. ASSUME NEW lost \in BOOLEAN, Advance(w, lost)
      PROVE  TypeInv' /\ KeepsRows
  <2>1. tasks' \in [TaskIds -> TaskRow] /\ RowsFilled' /\ KeepsRows
    BY <1>12, UnchangedTasks DEF Advance
  <2>2. api' \in [Clients -> ApiRequest] /\ RequestFilled'
    BY <1>12, <2>1, UnchangedApi DEF Advance
  <2>3. job[w].pc \in StepPcs
    BY <1>12 DEF Advance, StepPcs, Pcs
  <2>4. /\ job[w].wf \in Wfs /\ job[w].node \in Nodes
        /\ job[w].step \in TaskIds /\ Exists(job[w].step)
        /\ job[w].row \in TaskIds /\ Exists(job[w].row)
        /\ tasks[job[w].row].wf \in Wfs /\ tasks[job[w].row].node \in Nodes
    BY <2>3, StepFacts
  <2>5. PICK ks \in NextConnections(tasks[job[w].row].node) :
        \/ /\ Ends(w, Dispatch(tasks[job[w].row].wf, ks), lost)
           /\ UNCHANGED wf
        \/ /\ wf' = [wf EXCEPT ![tasks[job[w].row].wf].status = "success",
                               ![tasks[job[w].row].wf].current = tasks[job[w].row].node]
           /\ \/ Ends(w, queue, lost)
              \/ /\ \E t \in TaskIds : ParentTask(tasks[job[w].row].wf, t)
                      /\ job' = [job EXCEPT ![w].pc = "parent", ![w].row = t]
                 /\ UNCHANGED <<queue, budget>>
              \/ /\ job' = [job EXCEPT ![w].pc = "error", ![w].row = job[w].step]
                 /\ UNCHANGED <<queue, budget>>
    BY <1>12 DEF Advance
  <2>6. wf' \in [Wfs -> WfRow]
    BY <2>4, <2>5, SetWfType DEF WfStatus, TypeInv, TypeOK
  <2>7. \A i \in Wfs, t \in TaskIds : ParentTask(i, t) => Exists(t)
    BY DEF ParentTask, Rows, Exists
  <2>8. /\ queue \in [Wfs -> [Slots -> Nat]]
        /\ Dispatch(tasks[job[w].row].wf, ks) \in [Wfs -> [Slots -> Nat]]
    <3>1. ks \in SUBSET DOMAIN Connections
      BY <2>4, NextConnectionsType
    <3> QED BY <2>4, <3>1, DispatchType DEF TypeInv, TypeOK
  <2>9. /\ job' \in [Workers -> Job] /\ JobsFilled'
        /\ queue' \in [Wfs -> [Slots -> Nat]]
        /\ budget' \in [pause : Nat, resume : Nat, cancel : Nat, crash : Nat, kill : Nat]
    <3>1. job[w].pc # "idle"
      BY <2>3 DEF StepPcs
    <3>2. CASE Ends(w, queue, lost) \/ Ends(w, Dispatch(tasks[job[w].row].wf, ks), lost)
      BY <2>1, <2>8, <3>1, <3>2, EndsType
    <3>3. CASE /\ UNCHANGED <<queue, budget>>
               /\ \/ \E t \in TaskIds : ParentTask(tasks[job[w].row].wf, t)
                       /\ job' = [job EXCEPT ![w].pc = "parent", ![w].row = t]
                  \/ job' = [job EXCEPT ![w].pc = "error", ![w].row = job[w].step]
      <4>1. budget \in [pause : Nat, resume : Nat, cancel : Nat, crash : Nat, kill : Nat]
        BY DEF TypeInv, TypeOK
      <4> QED BY <2>1, <2>3, <2>4, <2>7, <2>8, <3>3, <4>1, TurnToRow DEF StepPcs, Pcs
    <3> QED BY <2>5, <3>2, <3>3
  <2> QED
    BY <1>12, <2>1, <2>2, <2>6, <2>9 DEF Advance, TypeInv, TypeOK
<1>13. ASSUME WrongConditionResult(w)
      PROVE  TypeInv' /\ KeepsRows
  <2>1. tasks' \in [TaskIds -> TaskRow] /\ RowsFilled' /\ KeepsRows
    BY <1>13, UnchangedTasks DEF WrongConditionResult
  <2>2. api' \in [Clients -> ApiRequest] /\ RequestFilled'
    BY <1>13, <2>1, UnchangedApi DEF WrongConditionResult
  <2>3. job[w].pc \in StepPcs
    BY <1>13 DEF WrongConditionResult, StepPcs, Pcs
  <2>4. /\ job[w].wf \in Wfs /\ job[w].node \in Nodes
        /\ job[w].step \in TaskIds /\ Exists(job[w].step)
        /\ job[w].row \in TaskIds /\ Exists(job[w].row)
    BY <2>3, StepFacts
  <2>5. job' \in [Workers -> Job] /\ JobsFilled'
    BY <1>13, <2>1, <2>3, <2>4, TurnToRow DEF WrongConditionResult, StepPcs, Pcs
  <2> QED
    BY <1>13, <2>1, <2>2, <2>3, <2>4, <2>5 DEF WrongConditionResult, TypeInv, TypeOK
<1>14. ASSUME CompleteParentTask(w)
      PROVE  TypeInv' /\ KeepsRows
  <2>1. job[w].pc \in StepPcs
    BY <1>14 DEF CompleteParentTask, StepPcs, Pcs
  <2>2. /\ job[w].wf \in Wfs /\ job[w].node \in Nodes
        /\ job[w].step \in TaskIds /\ Exists(job[w].step)
        /\ job[w].row \in TaskIds /\ Exists(job[w].row)
    BY <2>1, StepFacts
  <2>3. /\ tasks' \in [TaskIds -> TaskRow] /\ RowsFilled' /\ KeepsRows
        /\ job' \in [Workers -> Job] /\ JobsFilled'
        /\ won' \subseteq TaskIds
    BY <1>14, <2>1, <2>2, HandleTaskSuccessType DEF CompleteParentTask
  <2>4. api' \in [Clients -> ApiRequest] /\ RequestFilled'
    BY <1>14, <2>3, UnchangedApi DEF CompleteParentTask
  <2> QED
    BY <1>14, <2>1, <2>2, <2>3, <2>4 DEF CompleteParentTask, TypeInv, TypeOK
<1>15. ASSUME NEW lost \in BOOLEAN, OnFailure(w, lost)
      PROVE  TypeInv' /\ KeepsRows
  <2>1. job[w].pc \in StepPcs /\ job[w].pc \in TaskStatus \intersect WfStatus
    BY <1>15 DEF OnFailure, StepPcs, Pcs, TaskStatus, WfStatus
  <2>2. /\ job[w].wf \in Wfs /\ job[w].node \in Nodes
        /\ job[w].step \in TaskIds /\ Exists(job[w].step)
        /\ job[w].row \in TaskIds /\ Exists(job[w].row)
        /\ tasks[job[w].row].wf \in Wfs
    BY <2>1, StepFacts
  <2>3. tasks' \in [TaskIds -> TaskRow] /\ RowsFilled' /\ KeepsRows
    BY <1>15, <2>1, <2>2, SetTaskType DEF OnFailure
  <2>4. api' \in [Clients -> ApiRequest] /\ RequestFilled'
    BY <1>15, <2>3, UnchangedApi DEF OnFailure
  <2>5. wf' \in [Wfs -> WfRow]
    BY <1>15, <2>1, SetWfStatusType DEF OnFailure
  <2>6. \A i \in Wfs, t \in TaskIds : ParentTask(i, t) => Exists(t)
    BY DEF ParentTask, Rows, Exists
  <2>7. ASSUME NEW u \in TaskIds, Exists(u), job' = [job EXCEPT ![w].row = u]
        PROVE  job' \in [Workers -> Job] /\ JobsFilled'
    <3>1. job' = [job EXCEPT ![w].pc = job[w].pc, ![w].row = u]
      BY <2>7 DEF TypeInv, TypeOK, Job
    <3> QED BY <2>1, <2>3, <2>7, <3>1, TurnToRow
  <2>8. /\ job' \in [Workers -> Job] /\ JobsFilled'
        /\ queue' \in [Wfs -> [Slots -> Nat]]
        /\ budget' \in [pause : Nat, resume : Nat, cancel : Nat, crash : Nat, kill : Nat]
    <3>1. /\ queue \in [Wfs -> [Slots -> Nat]] /\ job[w].pc # "idle"
          /\ budget \in [pause : Nat, resume : Nat, cancel : Nat, crash : Nat, kill : Nat]
      BY <1>15 DEF OnFailure, TypeInv, TypeOK
    <3>2. CASE Ends(w, queue, lost)
      BY <2>3, <3>1, <3>2, EndsType
    <3>3. CASE /\ UNCHANGED <<queue, budget>>
               /\ \E u \in TaskIds : ParentTask(tasks[job[w].row].wf, u) /\ job' = [job EXCEPT ![w].row = u]
      BY <2>2, <2>6, <2>7, <3>1, <3>3
    <3> QED BY <1>15, <3>2, <3>3 DEF OnFailure
  <2> QED
    BY <1>15, <2>3, <2>4, <2>5, <2>8 DEF OnFailure, TypeInv, TypeOK
<1>16. ASSUME Log(w)
      PROVE  TypeInv' /\ KeepsRows
  <2>1. /\ job[w].wf \in Wfs /\ job[w].node \in Nodes
        /\ job[w].step \in TaskIds /\ Exists(job[w].step)
        /\ job[w].row \in TaskIds /\ Exists(job[w].row)
    BY <1>16, StepFacts DEF Log, StepPcs, Pcs
  <2>2. tasks' \in [TaskIds -> TaskRow] /\ RowsFilled' /\ KeepsRows
    BY <1>16, <2>1, SetTaskType DEF Log, TaskStatus
  <2>3. api' \in [Clients -> ApiRequest] /\ RequestFilled'
    BY <1>16, <2>2, UnchangedApi DEF Log
  <2>4. job' \in [Workers -> Job] /\ JobsFilled'
    BY <1>16, <2>2 DEF Log, TypeInv, TypeOK, JobsFilled, JobFilled, KeepsRows, Exists
  <2> QED
    BY <1>16, <2>1, <2>2, <2>3, <2>4 DEF Log, TypeInv, TypeOK
<1>17. ASSUME Crash(w)
      PROVE  TypeInv' /\ KeepsRows
  <2>1. tasks' \in [TaskIds -> TaskRow] /\ RowsFilled' /\ KeepsRows
    BY <1>17, UnchangedTasks DEF Crash
  <2>2. api' \in [Clients -> ApiRequest] /\ RequestFilled'
    BY <1>17, <2>1, UnchangedApi DEF Crash
  <2>3. job' \in [Workers -> Job] /\ JobsFilled'
    BY <1>17, <2>1, AckType DEF Crash
  <2>4. job[w].wf \in Wfs /\ job[w].node \in Slots
    BY <1>17 DEF Crash, TypeInv, JobsFilled, JobFilled
  <2>5. queue' \in [Wfs -> [Slots -> Nat]]
    BY <1>17, <2>4 DEF Crash, Send, TypeInv, TypeOK
  <2>6. budget' \in [pause : Nat, resume : Nat, cancel : Nat, crash : Nat, kill : Nat]
    BY <1>17 DEF Crash, TypeInv, TypeOK
  <2> QED
    BY <1>17, <2>1, <2>2, <2>3, <2>4, <2>5, <2>6 DEF Crash, TypeInv, TypeOK
<1>18. ASSUME HardTimeLimit(w)
      PROVE  TypeInv' /\ KeepsRows
  <2>1. tasks' \in [TaskIds -> TaskRow] /\ RowsFilled' /\ KeepsRows
    BY <1>18, UnchangedTasks DEF HardTimeLimit
  <2>2. api' \in [Clients -> ApiRequest] /\ RequestFilled'
    BY <1>18, <2>1, UnchangedApi DEF HardTimeLimit
  <2>3. job' \in [Workers -> Job] /\ JobsFilled'
    BY <1>18, <2>1, AckType DEF HardTimeLimit
  <2>4. budget' \in [pause : Nat, resume : Nat, cancel : Nat, crash : Nat, kill : Nat]
    BY <1>18 DEF HardTimeLimit, TypeInv, TypeOK
  <2> QED
    BY <1>18, <2>1, <2>2, <2>3, <2>4 DEF HardTimeLimit, TypeInv, TypeOK
<1> QED
  BY <1>1, <1>2, <1>3, <1>4, <1>5, <1>6, <1>7, <1>8, <1>9, <1>10, <1>11, <1>12, <1>13, <1>14, <1>15, <1>16, <1>17, <1>18 DEF WorkerStep, Fault, LostBeforeAck

LEMMA UnchangedJob ==
  ASSUME TypeInv, KeepsRows, UNCHANGED job
  PROVE  job' \in [Workers -> Job] /\ JobsFilled'
BY DEF TypeInv, TypeOK, JobsFilled, JobFilled, KeepsRows, Exists

\* Every step of the API keeps the state well formed.
LEMMA ApiTypeInv ==
  ASSUME TypeInv, NEW c \in Clients, ApiStep(c)
  PROVE  TypeInv' /\ KeepsRows
<1>a. api[c] \in ApiRequest /\ RequestFilled
  BY DEF TypeInv, TypeOK
<1>n. NoRequest \in ApiRequest /\ NoRequest.op = "none" /\ NoRequest.rows = {}
  BY DEF NoRequest, ApiRequest
<1>r. ASSUME NEW i \in Wfs, NEW op \in {"pause", "check", "cancel"}, NEW rows \in SUBSET TaskIds,
             \A t \in rows : Exists(t), Request(c, op, i, rows), UNCHANGED <<wf, tasks, won, queue, job, doubled>>,
             budget' \in [pause : Nat, resume : Nat, cancel : Nat, crash : Nat, kill : Nat]
      PROVE  TypeInv' /\ KeepsRows
  <2>1. tasks' \in [TaskIds -> TaskRow] /\ RowsFilled' /\ KeepsRows
    BY <1>r, UnchangedTasks
  <2>2. job' \in [Workers -> Job] /\ JobsFilled'
    BY <1>r, <2>1, UnchangedJob
  <2>3. [op |-> op, wf |-> i, current |-> wf[i].current, rows |-> rows] \in ApiRequest
    BY DEF TypeInv, TypeOK, WfRow, ApiRequest
  <2>4. api' \in [Clients -> ApiRequest] /\ RequestFilled'
    BY <1>r, <2>1, <2>3, RequestUpdate DEF Request
  <2> QED
    BY <1>r, <2>1, <2>2, <2>4 DEF TypeInv, TypeOK
<1>s. ASSUME NEW s \in {"wait", "progress", "canceled"}, api[c].op # "none", SaveRequest(c, s),
             UNCHANGED <<tasks, won, job, budget>>,
             queue' \in [Wfs -> [Slots -> Nat]], doubled' \in [Wfs -> Nat]
      PROVE  TypeInv' /\ KeepsRows
  <2>1. tasks' \in [TaskIds -> TaskRow] /\ RowsFilled' /\ KeepsRows
    BY <1>s, UnchangedTasks
  <2>2. job' \in [Workers -> Job] /\ JobsFilled'
    BY <1>s, <2>1, UnchangedJob
  <2>3. api' \in [Clients -> ApiRequest] /\ RequestFilled'
    BY <1>n, <1>s, <2>1, RequestUpdate DEF SaveRequest
  <2>4. api[c].wf \in Wfs /\ api[c].current \in Nodes \union {None}
    BY <1>a, <1>s DEF ApiRequest, RequestFilled
  <2>5. wf' \in [Wfs -> WfRow]
    BY <1>s, <2>4, SetWfType DEF SaveRequest, WfStatus
  <2> QED
    BY <1>s, <2>1, <2>2, <2>3, <2>5 DEF TypeInv, TypeOK
<1>1. ASSUME NEW i \in Wfs, PauseRead(c, i)
      PROVE  TypeInv' /\ KeepsRows
  <2>1. budget' \in [pause : Nat, resume : Nat, cancel : Nat, crash : Nat, kill : Nat]
    BY <1>1 DEF PauseRead, TypeInv, TypeOK
  <2> QED
    BY <1>1, <1>r, <2>1 DEF PauseRead
<1>2. ASSUME NEW i \in Wfs, ResumeRead(c, i)
      PROVE  TypeInv' /\ KeepsRows
  <2>1. budget' \in [pause : Nat, resume : Nat, cancel : Nat, crash : Nat, kill : Nat]
    BY <1>2 DEF ResumeRead, TypeInv, TypeOK
  <2> QED
    BY <1>2, <1>r, <2>1 DEF ResumeRead
<1>3. ASSUME NEW i \in Wfs, CancelRead(c, i)
      PROVE  TypeInv' /\ KeepsRows
  <2>1. budget' \in [pause : Nat, resume : Nat, cancel : Nat, crash : Nat, kill : Nat]
    BY <1>3 DEF CancelRead, TypeInv, TypeOK
  <2>2. \A t \in TaskIds : tasks[t].status \in Active => Exists(t)
    BY DEF Active, Exists
  <2> QED
    BY <1>3, <1>r, <2>1, <2>2 DEF CancelRead
<1>4. ASSUME PauseSave(c)
      PROVE  TypeInv' /\ KeepsRows
  BY <1>4, <1>s DEF PauseSave, TypeInv, TypeOK
<1>5. ASSUME ResumeCheck(c)
      PROVE  TypeInv' /\ KeepsRows
  <2>1. tasks' \in [TaskIds -> TaskRow] /\ RowsFilled' /\ KeepsRows
    BY <1>5, UnchangedTasks DEF ResumeCheck
  <2>2. job' \in [Workers -> Job] /\ JobsFilled'
    BY <1>5, <2>1, UnchangedJob DEF ResumeCheck
  <2>3. /\ [api[c] EXCEPT !.op = "resume"] \in ApiRequest
        /\ [api[c] EXCEPT !.op = "resume"].wf \in Wfs
        /\ \A t \in [api[c] EXCEPT !.op = "resume"].rows : Exists(t)
    BY <1>a, <1>5 DEF ResumeCheck, ApiRequest, RequestFilled
  <2>4. \/ api' = [api EXCEPT ![c] = NoRequest]
        \/ api' = [api EXCEPT ![c] = [api[c] EXCEPT !.op = "resume"]]
    BY <1>5 DEF ResumeCheck, TypeInv, TypeOK
  <2>5. api' \in [Clients -> ApiRequest] /\ RequestFilled'
    BY <1>n, <2>1, <2>3, <2>4, RequestUpdate
  <2> QED
    BY <1>5, <2>1, <2>2, <2>5 DEF ResumeCheck, TypeInv, TypeOK
<1>6. ASSUME ResumeSave(c)
      PROVE  TypeInv' /\ KeepsRows
  <2>1. api[c].wf \in Wfs /\ api[c].current \in Nodes \union {None}
    BY <1>a, <1>6 DEF ResumeSave, ApiRequest, RequestFilled
  <2>2. queue' \in [Wfs -> [Slots -> Nat]]
    <3>1. queue \in [Wfs -> [Slots -> Nat]]
      BY DEF TypeInv, TypeOK
    <3>2. \/ queue' = queue
          \/ api[c].current \in Slots /\ queue' = Send(api[c].wf, api[c].current)
      BY <1>6, <2>1 DEF ResumeSave, Slots
    <3> QED BY <2>1, <3>1, <3>2 DEF Send
  <2>3. doubled' \in [Wfs -> Nat]
    <3>1. doubled \in [Wfs -> Nat]
      BY DEF TypeInv, TypeOK
    <3>2. doubled' = doubled \/ doubled' = [doubled EXCEPT ![api[c].wf] = @ + 1]
      BY <1>6 DEF ResumeSave
    <3> QED BY <2>1, <3>1, <3>2
  <2> QED
    BY <1>6, <1>s, <2>2, <2>3 DEF ResumeSave
<1>7. ASSUME NEW t \in TaskIds, CancelTask(c, t)
      PROVE  TypeInv' /\ KeepsRows
  <2>1. Exists(t)
    BY <1>a, <1>7 DEF CancelTask, RequestFilled
  <2>2. tasks' \in [TaskIds -> TaskRow] /\ RowsFilled' /\ KeepsRows
    BY <1>7, <2>1, SetTaskType DEF CancelTask, TaskStatus
  <2>3. job' \in [Workers -> Job] /\ JobsFilled'
    BY <1>7, <2>2, UnchangedJob DEF CancelTask
  <2>4. LET r == [api[c] EXCEPT !.rows = @ \ {t}] IN
          /\ r \in ApiRequest /\ r.wf \in Wfs
          /\ \A u \in r.rows : Exists(u)
          /\ api' = [api EXCEPT ![c] = r]
    BY <1>a, <1>7 DEF CancelTask, ApiRequest, RequestFilled
  <2>5. api' \in [Clients -> ApiRequest] /\ RequestFilled'
    BY <2>2, <2>4, RequestUpdate
  <2> QED
    BY <1>7, <2>2, <2>3, <2>5 DEF CancelTask, TypeInv, TypeOK
<1>8. ASSUME CancelSave(c)
      PROVE  TypeInv' /\ KeepsRows
  BY <1>8, <1>s DEF CancelSave, TypeInv, TypeOK
<1> QED
  BY <1>1, <1>2, <1>3, <1>4, <1>5, <1>6, <1>7, <1>8 DEF ApiStep

LEMMA NextTypeInv ==
  ASSUME TypeInv, [Next]_vars
  PROVE  TypeInv' /\ KeepsRows
<1>1. CASE UNCHANGED vars
  <2>1. tasks' \in [TaskIds -> TaskRow] /\ RowsFilled' /\ KeepsRows
    BY <1>1, UnchangedTasks DEF vars
  <2> QED
    BY <1>1, <2>1, UnchangedJob, UnchangedApi DEF vars, TypeInv, TypeOK
<1>2. CASE Next
  BY <1>2, WorkerTypeInv, ApiTypeInv DEF Next
<1> QED
  BY <1>1, <1>2

\* Type correctness: every row, message, worker and request keeps its type, for
\* every graph, and whatever faults and API calls interleave with the workers. The
\* fields a step dereferences (row, workflow, node) are always filled in.
THEOREM TypeCorrect == Spec => []TypeOK
<1>1. Init => TypeInv
  BY InitTypeInv
<1>2. TypeInv /\ [Next]_vars => TypeInv'
  BY NextTypeInv
<1>3. TypeInv => TypeOK
  BY DEF TypeInv
<1> QED
  BY <1>1, <1>2, <1>3, PTL DEF Spec

-----------------------------------------------------------------------------

\* No row is created.
NoNewRows == \A t \in TaskIds : Exists(t)' => Exists(t)

\* Nobody reaches the point of creating a row.
NoNewCreate == \A v \in Workers : job'[v].pc = "create" => job[v] = job'[v]

\* Completed inputs stay completed: rows are kept and completions recorded for good.
LEMMA InputsWonKept ==
  ASSUME TypeInv, WonRows, KeepsRows, won \subseteq won', NEW i, NEW n, InputsWon(i, n)
  PROVE  \A k \in In(n) : \E t \in won' :
           tasks'[t].wf = i /\ tasks'[t].node = Connections[k].source
<1>1. won \subseteq TaskIds
  BY DEF TypeInv, TypeOK
<1> QED
  BY <1>1 DEF InputsWon, WonRows, KeepsRows

LEMMA DependencyKept ==
  ASSUME TypeInv, WonRows, DependencyOrder, KeepsRows, won \subseteq won', NoNewRows
  PROVE  DependencyOrder'
<1> SUFFICES ASSUME NEW t \in TaskIds, Exists(t)'
             PROVE  InputsWon(tasks[t].wf, tasks[t].node)'
  BY DEF DependencyOrder, Exists
<1>1. /\ InputsWon(tasks[t].wf, tasks[t].node)
      /\ tasks'[t].wf = tasks[t].wf /\ tasks'[t].node = tasks[t].node
  BY DEF DependencyOrder, NoNewRows, KeepsRows, Exists
<1>2. \A k \in In(tasks[t].node) : \E u \in won' :
        tasks'[u].wf = tasks[t].wf /\ tasks'[u].node = Connections[k].source
  BY <1>1, InputsWonKept
<1> QED
  BY <1>1, <1>2 DEF InputsWon, In

LEMMA CreateKept ==
  ASSUME TypeInv, WonRows, CreateReady, KeepsRows, won \subseteq won', NoNewCreate
  PROVE  CreateReady'
<1> SUFFICES ASSUME NEW v \in Workers, job'[v].pc = "create"
             PROVE  InputsWon(job[v].wf, job[v].node)'
  BY DEF CreateReady
<1>1. InputsWon(job[v].wf, job[v].node) /\ job'[v] = job[v]
  BY DEF CreateReady, NoNewCreate
<1>2. \A k \in In(job[v].node) : \E u \in won' :
        tasks'[u].wf = job[v].wf /\ tasks'[u].node = Connections[k].source
  BY <1>1, InputsWonKept
<1> QED
  BY <1>1, <1>2 DEF InputsWon, In

\* A step that creates no row, completes nothing and readies nothing.
LEMMA DependencyUnchanged ==
  ASSUME TypeInv, DependencyInv, KeepsRows, UNCHANGED <<tasks, won>>, NoNewCreate
  PROVE  DependencyInv'
<1>1. NoNewRows /\ WonRows'
  BY DEF NoNewRows, WonRows, Exists, DependencyInv
<1> QED
  BY <1>1, DependencyKept, CreateKept DEF DependencyInv

\* A step that saves a status other than "success" in a row, or "success" together
\* with the record of the completion.
LEMMA DependencySaved ==
  ASSUME TypeInv, DependencyInv, KeepsRows, NEW t \in TaskIds, Exists(t),
         NEW s \in TaskStatus, SetTask(t, s),
         \/ UNCHANGED won /\ s # "success"
         \/ won' = won \union {t},
         NoNewCreate
  PROVE  DependencyInv'
<1>1. tasks \in [TaskIds -> TaskRow] /\ won \subseteq TaskIds
  BY DEF TypeInv, TypeOK
<1>2. \A u \in TaskIds : tasks'[u].status = IF u = t THEN s ELSE tasks[u].status
  BY <1>1 DEF SetTask, TaskRow
<1>3. NoNewRows
  BY <1>2 DEF NoNewRows, Exists
<1>4. WonRows'
  BY <1>1, <1>2 DEF WonRows, Exists, DependencyInv, TaskStatus
<1> QED
  BY <1>3, <1>4, DependencyKept, CreateKept DEF DependencyInv

\* Every step of a worker keeps the order of dependencies.
LEMMA WorkerDependencyInv ==
  ASSUME TypeInv, DependencyInv, NEW w \in Workers, WorkerStep(w) \/ Fault(w)
  PROVE  DependencyInv'
<1>t. KeepsRows
  BY WorkerTypeInv
<1>j. job \in [Workers -> Job] /\ tasks \in [TaskIds -> TaskRow] /\ won \subseteq TaskIds
  BY DEF TypeInv, TypeOK
<1>1. ASSUME NEW i \in Wfs, ExecuteWorkflowV2(w, i)
      PROVE  DependencyInv'
  <2>1. NoNewCreate
    BY <1>1, <1>j DEF ExecuteWorkflowV2, NoNewCreate, Take, Goto, Ack, Idle, Job
  <2> QED
    BY <1>1, <2>1, <1>t, DependencyUnchanged DEF ExecuteWorkflowV2
<1>2. ASSUME NEW lost \in BOOLEAN, DispatchStartNodes(w, lost)
      PROVE  DependencyInv'
  <2>1. NoNewCreate
    BY <1>2, <1>j DEF DispatchStartNodes, NoNewCreate, Ends, Ack, Idle, Job
  <2> QED
    BY <1>2, <2>1, <1>t, DependencyUnchanged DEF DispatchStartNodes
<1>3. ASSUME NEW i \in Wfs, NEW n \in Nodes, FetchWorkflow(w, i, n)
      PROVE  DependencyInv'
  <2>1. NoNewCreate
    BY <1>3, <1>j DEF FetchWorkflow, NoNewCreate, Take, Goto, Ack, Idle, Job
  <2> QED
    BY <1>3, <2>1, <1>t, DependencyUnchanged DEF FetchWorkflow
<1>4. ASSUME NEW lost \in BOOLEAN, Park(w, lost)
      PROVE  DependencyInv'
  <2>1. NoNewCreate
    BY <1>4, <1>j DEF Park, NoNewCreate, Ends, Ack, Idle, Job
  <2> QED
    BY <1>4, <2>1, <1>t, DependencyUnchanged DEF Park
<1>5. ASSUME CheckInputs(w)
      PROVE  DependencyInv'
  <2>1. NoNewRows /\ WonRows' /\ won \subseteq won'
    BY <1>5 DEF CheckInputs, NoNewRows, Exists, WonRows, DependencyInv
  <2>2. DependencyOrder'
    BY <2>1, <1>t, DependencyKept DEF DependencyInv
  <2>3. ASSUME NEW v \in Workers, job'[v].pc = "create"
        PROVE  InputsWon(job[v].wf, job[v].node)'
    <3>1. job'[v].wf = job[v].wf /\ job'[v].node = job[v].node
      BY <1>5, <1>j, <2>3 DEF CheckInputs, Goto, Ack, Idle, Job
    <3>2. InputsWon(job[v].wf, job[v].node)
      <4>1. CASE v = w
        <5>1. AreInputsReady(job[w].wf, job[w].node)
          BY <1>5, <1>j, <2>3, <4>1 DEF CheckInputs, Ack, Idle, Job
        <5> QED
          BY <4>1, <5>1 DEF AreInputsReady, InputsWon, Rows, WonRows, DependencyInv
      <4>2. CASE v # w
        BY <1>5, <1>j, <2>3, <4>2 DEF CheckInputs, Goto, Ack, DependencyInv, CreateReady
      <4> QED BY <4>1, <4>2
    <3> QED
      BY <1>5, <3>1, <3>2 DEF CheckInputs, InputsWon, In
  <2> QED
    BY <2>1, <2>2, <2>3 DEF DependencyInv, CreateReady
<1>6. ASSUME CreateTask(w)
      PROVE  DependencyInv'
  <2> PICK t \in TaskIds :
        /\ tasks[t].status = "none"
        /\ tasks' = [tasks EXCEPT ![t] = [wf |-> job[w].wf, node |-> job[w].node, status |-> "init"]]
        /\ job' = [job EXCEPT ![w].pc = "before_start", ![w].step = t, ![w].row = t]
    BY <1>6 DEF CreateTask
  <2>1. UNCHANGED won /\ NoNewCreate
    BY <1>6, <1>j DEF CreateTask, NoNewCreate, Job
  <2>2. /\ \A u \in TaskIds : u # t => tasks'[u] = tasks[u]
        /\ tasks'[t].wf = job[w].wf /\ tasks'[t].node = job[w].node /\ tasks'[t].status = "init"
    BY <1>j DEF TaskRow
  <2>3. WonRows'
    BY <1>j, <2>1, <2>2 DEF WonRows, Exists, DependencyInv
  <2>4. CreateReady'
    BY <2>1, <1>t, CreateKept DEF DependencyInv
  <2>5. ASSUME NEW u \in TaskIds, Exists(u)'
        PROVE  InputsWon(tasks[u].wf, tasks[u].node)'
    <3>1. InputsWon(tasks'[u].wf, tasks'[u].node)
      <4>1. CASE u = t
        BY <1>6, <2>2, <4>1 DEF CreateTask, DependencyInv, CreateReady
      <4>2. CASE u # t
        BY <2>2, <2>5, <4>2 DEF DependencyInv, DependencyOrder, Exists
      <4> QED BY <4>1, <4>2
    <3>2. \A k \in In(tasks'[u].node) : \E x \in won' :
            tasks'[x].wf = tasks'[u].wf /\ tasks'[x].node = Connections[k].source
      BY <2>1, <3>1, <1>t, InputsWonKept DEF DependencyInv
    <3> QED
      BY <3>2 DEF InputsWon, In
  <2>6. DependencyOrder'
    BY <2>5 DEF DependencyOrder, Exists
  <2> QED
    BY <2>3, <2>4, <2>6 DEF DependencyInv
<1>7. ASSUME BeforeStart(w)
      PROVE  DependencyInv'
  <2>1. job[w].step \in TaskIds /\ Exists(job[w].step)
    BY <1>7, StepFacts DEF BeforeStart, StepPcs, Pcs
  <2>2. NoNewCreate
    BY <1>7, <1>j DEF BeforeStart, NoNewCreate, Goto, Job
  <2> QED
    BY <1>7, <2>1, <2>2, <1>t, DependencySaved DEF BeforeStart, TaskStatus
<1>8. ASSUME Delegate(w)
      PROVE  DependencyInv'
  <2>1. NoNewCreate
    BY <1>8, <1>j DEF Delegate, NoNewCreate, Take, Goto, Ack, Idle, Job
  <2> QED
    BY <1>8, <2>1, <1>t, DependencyUnchanged DEF Delegate
<1>9. ASSUME SaveNestedProgress(w)
      PROVE  DependencyInv'
  <2>1. job[w].step \in TaskIds /\ Exists(job[w].step)
    BY <1>9, StepFacts DEF SaveNestedProgress, StepPcs, Pcs
  <2>2. NoNewCreate
    BY <1>9, <1>j DEF SaveNestedProgress, NoNewCreate, Goto, Job
  <2> QED
    BY <1>9, <2>1, <2>2, <1>t, DependencySaved DEF SaveNestedProgress, TaskStatus
<1>10. ASSUME NEW kind \in FailureKinds, UserCodeRaises(w, kind)
      PROVE  DependencyInv'
  <2>1. NoNewCreate
    BY <1>10, <1>j, RowAssumption DEF UserCodeRaises, NoNewCreate, Take, Goto, Ack, Idle, Job
  <2> QED
    BY <1>10, <2>1, <1>t, DependencyUnchanged DEF UserCodeRaises
<1>11. ASSUME OnSuccess(w)
      PROVE  DependencyInv'
  <2>1. job[w].step \in TaskIds /\ Exists(job[w].step)
    BY <1>11, StepFacts DEF OnSuccess, StepPcs, Pcs
  <2>2. NoNewCreate
    BY <1>11, <1>j DEF OnSuccess, HandleTaskSuccess, NoNewCreate, Ack, Idle, Job
  <2>3. CASE tasks[job[w].step].status = "nested-progress"
    BY <1>11, <2>2, <2>3, <1>t, DependencyUnchanged DEF OnSuccess
  <2>4. CASE tasks[job[w].step].status # "nested-progress"
    BY <1>11, <2>1, <2>2, <2>4, <1>t, DependencySaved DEF OnSuccess, HandleTaskSuccess, TaskStatus
  <2> QED BY <2>3, <2>4
<1>12. ASSUME NEW lost \in BOOLEAN, Advance(w, lost)
      PROVE  DependencyInv'
  <2>1. \/ Ack(w)
        \/ \E t \in TaskIds : job' = [job EXCEPT ![w].pc = "parent", ![w].row = t]
        \/ job' = [job EXCEPT ![w].pc = "error", ![w].row = job[w].step]
    BY <1>12 DEF Advance, Ends
  <2>2. NoNewCreate
    BY <1>j, <2>1 DEF NoNewCreate, Ack, Idle, Job
  <2> QED
    BY <1>12, <2>2, <1>t, DependencyUnchanged DEF Advance
<1>13. ASSUME WrongConditionResult(w)
      PROVE  DependencyInv'
  <2>1. NoNewCreate
    BY <1>13, <1>j DEF WrongConditionResult, NoNewCreate, Take, Goto, Ack, Idle, Job
  <2> QED
    BY <1>13, <2>1, <1>t, DependencyUnchanged DEF WrongConditionResult
<1>14. ASSUME CompleteParentTask(w)
      PROVE  DependencyInv'
  <2>1. job[w].row \in TaskIds /\ Exists(job[w].row)
    BY <1>14, StepFacts DEF CompleteParentTask, StepPcs, Pcs
  <2>2. NoNewCreate
    BY <1>14, <1>j DEF CompleteParentTask, HandleTaskSuccess, NoNewCreate, Job
  <2> QED
    BY <1>14, <2>1, <2>2, <1>t, DependencySaved DEF CompleteParentTask, HandleTaskSuccess, TaskStatus
<1>15. ASSUME NEW lost \in BOOLEAN, OnFailure(w, lost)
      PROVE  DependencyInv'
  <2>1. job[w].row \in TaskIds /\ Exists(job[w].row)
    BY <1>15, StepFacts DEF OnFailure, StepPcs, Pcs
  <2>2. \/ Ack(w)
        \/ \E u \in TaskIds : job' = [job EXCEPT ![w].row = u]
    BY <1>15 DEF OnFailure, Ends
  <2>3. NoNewCreate
    BY <1>15, <1>j, <2>2 DEF OnFailure, NoNewCreate, Ack, Idle, Job
  <2> QED
    BY <1>15, <2>1, <2>3, <1>t, DependencySaved DEF OnFailure, TaskStatus
<1>16. ASSUME Log(w)
      PROVE  DependencyInv'
  <2>1. job[w].step \in TaskIds /\ Exists(job[w].step)
    BY <1>16, StepFacts DEF Log, StepPcs, Pcs
  <2>2. NoNewCreate
    BY <1>16, <1>j DEF Log, NoNewCreate, Goto, Job
  <2> QED
    BY <1>16, <2>1, <2>2, <1>t, DependencySaved DEF Log, TaskStatus
<1>17. ASSUME Crash(w)
      PROVE  DependencyInv'
  <2>1. NoNewCreate
    BY <1>17, <1>j DEF Crash, NoNewCreate, Take, Goto, Ack, Idle, Job
  <2> QED
    BY <1>17, <2>1, <1>t, DependencyUnchanged DEF Crash
<1>18. ASSUME HardTimeLimit(w)
      PROVE  DependencyInv'
  <2>1. NoNewCreate
    BY <1>18, <1>j DEF HardTimeLimit, NoNewCreate, Take, Goto, Ack, Idle, Job
  <2> QED
    BY <1>18, <2>1, <1>t, DependencyUnchanged DEF HardTimeLimit
<1> QED
  BY <1>1, <1>2, <1>3, <1>4, <1>5, <1>6, <1>7, <1>8, <1>9, <1>10, <1>11, <1>12, <1>13, <1>14, <1>15, <1>16, <1>17, <1>18 DEF WorkerStep, Fault, LostBeforeAck

\* So does every step of the API.
LEMMA ApiDependencyInv ==
  ASSUME TypeInv, DependencyInv, NEW c \in Clients, ApiStep(c)
  PROVE  DependencyInv'
<1>1. KeepsRows
  BY ApiTypeInv
<1>2. UNCHANGED job
  BY DEF ApiStep, PauseRead, PauseSave, ResumeRead, ResumeCheck, ResumeSave, CancelRead, CancelTask, CancelSave
<1>3. NoNewCreate
  BY <1>2 DEF NoNewCreate
<1>4. ASSUME NEW t \in TaskIds, CancelTask(c, t) PROVE DependencyInv'
  <2>1. Exists(t)
    BY <1>4 DEF CancelTask, TypeInv, RequestFilled
  <2> QED
    BY <1>1, <1>3, <1>4, <2>1, DependencySaved DEF CancelTask, TaskStatus
<1>5. CASE UNCHANGED <<tasks, won>>
  BY <1>1, <1>3, <1>5, DependencyUnchanged
<1> QED
  BY <1>4, <1>5
     DEF ApiStep, PauseRead, PauseSave, ResumeRead, ResumeCheck, ResumeSave, CancelRead, CancelSave

\* Every step of the system keeps the order of dependencies.
LEMMA DependencyInvKept ==
  ASSUME TypeInv, DependencyInv, [Next]_vars
  PROVE  DependencyInv'
<1>1. TypeInv' /\ KeepsRows
  BY NextTypeInv
<1>2. CASE UNCHANGED vars
  BY <1>1, <1>2, DependencyUnchanged DEF vars, NoNewCreate
<1>3. ASSUME NEW w \in Workers, WorkerStep(w) \/ Fault(w) PROVE DependencyInv'
  BY <1>3, WorkerDependencyInv
<1>4. ASSUME NEW c \in Clients, ApiStep(c) PROVE DependencyInv'
  BY <1>4, ApiDependencyInv
<1> QED BY <1>2, <1>3, <1>4 DEF Next

\* For every graph, every number of workers and all faults: no node is started
\* before every node that feeds it was completed. The invariant is not inductive as
\* it stands: it needs that "success" is never saved without the completion being
\* recorded (WonRows) and that what are_inputs_ready saw is still true when the row
\* is created (CreateReady).
THEOREM DependencyOrderHolds == Spec => []DependencyOrder
<1>1. Init => TypeInv /\ DependencyInv
  <2>1. Init => DependencyInv
    BY DEF Init, NoTask, Idle, DependencyInv, WonRows, CreateReady, DependencyOrder, Exists
  <2> QED BY <2>1, InitTypeInv
<1>2. TypeInv /\ DependencyInv /\ [Next]_vars => TypeInv' /\ DependencyInv'
  BY NextTypeInv, DependencyInvKept
<1>3. DependencyInv => DependencyOrder
  BY DEF DependencyInv
<1> QED
  BY <1>1, <1>2, <1>3, PTL DEF Spec
=============================================================================
