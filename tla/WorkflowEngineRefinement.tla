--------------------- MODULE WorkflowEngineRefinement ---------------------
(* The graph engine implements the order of Dataflow, for all graphs,      *)
(* tables, workers and fault budgets, and its nesting where no user cancels*)
(* and no user code fails.                                                 *)
EXTENDS WorkflowEngineProofs

\* A worker in a step holds the row of the node that its message names.
StepRows ==
  \A w \in Workers : job[w].pc \in StepPcs =>
    tasks[job[w].step].wf = job[w].wf /\ tasks[job[w].step].node = job[w].node

\* A workflow that was not created has no parent.
Blank == \A c \in Wfs : wf[c].status = "none" => wf[c].parent = None

RefinementInv == TypeInv /\ DependencyInv /\ StepRows /\ Blank

\* The handlers that end with their last write, acknowledged or lost before that.
Dispatches(w) == \E lost \in BOOLEAN : DispatchStartNodes(w, lost)
Parks(w) == \E lost \in BOOLEAN : Park(w, lost)
Advances(w) == \E lost \in BOOLEAN : Advance(w, lost)
Fails(w) == \E lost \in BOOLEAN : OnFailure(w, lost)

\* All that a worker does, of its own accord or by a fault.
WorkerAction(w) ==
  \/ \E i \in Wfs : ExecuteWorkflowV2(w, i)
  \/ \E i \in Wfs, n \in Nodes : FetchWorkflow(w, i, n)
  \/ Dispatches(w) \/ Parks(w) \/ CheckInputs(w) \/ CreateTask(w) \/ BeforeStart(w) \/ Log(w)
  \/ Delegate(w) \/ SaveNestedProgress(w) \/ \E kind \in FailureKinds : UserCodeRaises(w, kind)
  \/ OnSuccess(w) \/ Advances(w) \/ WrongConditionResult(w) \/ CompleteParentTask(w) \/ Fails(w)
  \/ Crash(w) \/ HardTimeLimit(w)

LEMMA StepIsAction ==
  ASSUME NEW w \in Workers, WorkerStep(w) \/ Fault(w)
  PROVE  WorkerAction(w)
<1>1. CASE WorkerStep(w)
  BY <1>1 DEF WorkerStep, WorkerAction, Dispatches, Parks, Advances, Fails
<1>2. CASE Fault(w)
  BY <1>2 DEF Fault, LostBeforeAck, WorkerAction, Dispatches, Parks, Advances, Fails
<1> QED
  BY <1>1, <1>2

\* No worker enters a step or changes the one it is in.
NoNewStep ==
  \A v \in Workers : job'[v].pc \in StepPcs =>
    /\ job[v].pc \in StepPcs
    /\ job'[v].step = job[v].step /\ job'[v].wf = job[v].wf /\ job'[v].node = job[v].node

\* No workflow gets, loses or changes its parent, and none is taken away.
KeepsParents ==
  \A c \in Wfs :
    /\ wf'[c].parent = wf[c].parent /\ wf'[c].node = wf[c].node
    /\ wf'[c].status = "none" => wf[c].status = "none"

-----------------------------------------------------------------------------
(* What a step does to the three sets of the dataflow.                     *)

LEMMA StartedKept ==
  ASSUME KeepsRows, NoNewRows
  PROVE  Started' = Started
<1>1. {u \in TaskIds : tasks'[u].status # "none"} = {u \in TaskIds : tasks[u].status # "none"}
  BY DEF KeepsRows, NoNewRows, Exists
<1>2. \A u \in TaskIds : tasks[u].status # "none" =>
        <<tasks'[u].wf, tasks'[u].node>> = <<tasks[u].wf, tasks[u].node>>
  BY DEF KeepsRows, Exists
<1> QED
  BY <1>1, <1>2 DEF Started

LEMMA WonKept ==
  ASSUME TypeInv, WonRows, KeepsRows
  PROVE  \A u \in won : <<tasks'[u].wf, tasks'[u].node>> = <<tasks[u].wf, tasks[u].node>>
BY DEF TypeInv, TypeOK, WonRows, KeepsRows

LEMMA CompletedKept ==
  ASSUME TypeInv, WonRows, KeepsRows, UNCHANGED won
  PROVE  Completed' = Completed
<1>1. \A u \in won : <<tasks'[u].wf, tasks'[u].node>> = <<tasks[u].wf, tasks[u].node>>
  BY WonKept
<1> QED
  BY <1>1 DEF Completed

LEMMA LaunchedKept ==
  ASSUME KeepsParents
  PROVE  Launched' = Launched
<1>1. {d \in Wfs : wf'[d].parent # None} = {d \in Wfs : wf[d].parent # None}
  BY DEF KeepsParents
<1>2. \A c \in Wfs : <<wf'[c].parent, wf'[c].node, c>> = <<wf[c].parent, wf[c].node, c>>
  BY DEF KeepsParents
<1> QED
  BY <1>1, <1>2 DEF Launched

\* A step that creates no row, completes nothing and launches nothing stutters.
LEMMA FlowKept ==
  ASSUME RefinementInv, KeepsRows, NoNewRows, UNCHANGED won, KeepsParents
  PROVE  UNCHANGED Order!flow
BY StartedKept, CompletedKept, LaunchedKept DEF RefinementInv, DependencyInv, Order!flow

\* The completion of an existing row completes a node that was started.
LEMMA FlowCompletes ==
  ASSUME RefinementInv, KeepsRows, NoNewRows, KeepsParents,
         NEW t \in TaskIds, Exists(t), won' = won \union {t}
  PROVE  Order!Next
<1> DEFINE i == tasks[t].wf
           n == tasks[t].node
<1>1. i \in Wfs /\ n \in Nodes
  BY DEF RefinementInv, TypeInv, RowsFilled
<1>2. <<i, n>> \in Started
  BY DEF Started, Exists
<1>3. \A u \in won : <<tasks'[u].wf, tasks'[u].node>> = <<tasks[u].wf, tasks[u].node>>
  BY WonKept DEF RefinementInv, DependencyInv
<1>4. <<tasks'[t].wf, tasks'[t].node>> = <<i, n>>
  BY DEF KeepsRows
<1>5. Completed' = Completed \union {<<i, n>>}
  BY <1>3, <1>4 DEF Completed
<1>6. UNCHANGED <<Started, Launched>>
  BY StartedKept, LaunchedKept
<1>7. Order!Complete(i, n)
  BY <1>2, <1>5, <1>6 DEF Order!Complete
<1> QED
  BY <1>1, <1>7 DEF Order!Next

\* A created row starts a node whose inputs are complete.
LEMMA FlowStarts ==
  ASSUME RefinementInv, KeepsRows, NEW w \in Workers, CreateTask(w)
  PROVE  Order!Next
<1> DEFINE i == job[w].wf
           n == job[w].node
<1>1. PICK t \in TaskIds :
        /\ tasks[t].status = "none"
        /\ tasks' = [tasks EXCEPT ![t] = [wf |-> i, node |-> n, status |-> "init"]]
  BY DEF CreateTask
<1>2. i \in Wfs /\ n \in Nodes
  BY DEF CreateTask, RefinementInv, TypeInv, JobsFilled, JobFilled
<1>3. /\ tasks'[t].wf = i /\ tasks'[t].node = n /\ tasks'[t].status = "init"
      /\ \A u \in TaskIds : u # t => tasks'[u] = tasks[u]
  BY <1>1 DEF RefinementInv, TypeInv, TypeOK, TaskRow
<1>4. Started' = Started \union {<<i, n>>}
  <2>1. {u \in TaskIds : tasks'[u].status # "none"} = {u \in TaskIds : tasks[u].status # "none"} \union {t}
    BY <1>1, <1>3
  <2>2. \A u \in {x \in TaskIds : tasks[x].status # "none"} :
          <<tasks'[u].wf, tasks'[u].node>> = <<tasks[u].wf, tasks[u].node>>
    BY <1>1, <1>3
  <2> QED
    BY <1>3, <2>1, <2>2 DEF Started
<1>5. UNCHANGED Completed
  BY CompletedKept DEF CreateTask, RefinementInv, DependencyInv
<1>6. UNCHANGED Launched
  BY LaunchedKept DEF CreateTask, KeepsParents
<1>7. Order!InputsComplete(i, n)
  <2>1. InputsWon(i, n)
    BY DEF CreateTask, RefinementInv, DependencyInv, CreateReady
  <2> SUFFICES ASSUME NEW m \in Nodes, <<m, n>> \in Feeds PROVE <<i, m>> \in Completed
    BY DEF Order!InputsComplete
  <2>2. PICK k \in DOMAIN Connections : Connections[k].source = m /\ Connections[k].target = n
    BY DEF Feeds
  <2>3. PICK u \in won : tasks[u].wf = i /\ tasks[u].node = m
    BY <2>1, <2>2 DEF InputsWon, In
  <2> QED
    BY <2>3 DEF Completed
<1>8. Order!Start(i, n)
  BY <1>4, <1>5, <1>6, <1>7 DEF Order!Start
<1> QED
  BY <1>2, <1>8 DEF Order!Next

\* A delegating step launches a workflow that nobody launched before.
LEMMA FlowLaunches ==
  ASSUME RefinementInv, KeepsRows, NEW w \in Workers, Delegate(w)
  PROVE  Order!Next
<1> DEFINE i == job[w].wf
           n == job[w].node
<1>1. PICK c \in Wfs :
        /\ wf[c].status = "none"
        /\ wf' = [wf EXCEPT ![c] = [status |-> "init", current |-> None, parent |-> i,
                                    node |-> n, template |-> Nested[n]]]
  BY DEF Delegate
<1>2. i \in Wfs /\ n \in Nodes /\ job[w].step \in TaskIds /\ Exists(job[w].step) /\ job[w].pc \in StepPcs
  BY DEF Delegate, RefinementInv, TypeInv, JobsFilled, JobFilled, StepPcs, Pcs, Exists
<1>3. wf'[c].parent = i /\ wf'[c].node = n /\ \A d \in Wfs : d # c => wf'[d] = wf[d]
  BY <1>1 DEF RefinementInv, TypeInv, TypeOK, WfRow
<1>4. i # None /\ wf[c].parent = None
  BY <1>1, <1>2, RowAssumption, GraphAssumption DEF RefinementInv, Blank
<1>5. Launched' = Launched \union {<<i, n, c>>}
  <2>1. {d \in Wfs : wf'[d].parent # None} = {d \in Wfs : wf[d].parent # None} \union {c}
    BY <1>3, <1>4
  <2>2. \A d \in {e \in Wfs : wf[e].parent # None} :
          <<wf'[d].parent, wf'[d].node, d>> = <<wf[d].parent, wf[d].node, d>>
    BY <1>3, <1>4
  <2> QED
    BY <1>3, <2>1, <2>2 DEF Launched
<1>6. \A j \in Wfs, m \in Nodes : <<j, m, c>> \notin Launched
  BY <1>4 DEF Launched
<1>7. <<i, n>> \in Started
  <2>1. tasks[job[w].step].wf = i /\ tasks[job[w].step].node = n
    BY <1>2 DEF RefinementInv, StepRows
  <2> QED
    BY <1>2, <2>1 DEF Started, Exists
<1>8. UNCHANGED <<Started, Completed>>
  <2>1. UNCHANGED <<tasks, won>>
    BY DEF Delegate
  <2> QED
    BY <2>1 DEF Started, Completed
<1>9. Order!LaunchNested(i, n, c)
  BY <1>5, <1>6, <1>7, <1>8 DEF Order!LaunchNested
<1> QED
  BY <1>1, <1>2, <1>9 DEF Order!Next

-----------------------------------------------------------------------------
(* Every step of the engine is a step of the dataflow, or a stutter.       *)

Simulated == (Order!Next \/ UNCHANGED Order!flow) /\ StepRows' /\ Blank'

LEMMA StepRowsKept ==
  ASSUME RefinementInv, KeepsRows, NoNewStep
  PROVE  StepRows'
<1> SUFFICES ASSUME NEW v \in Workers, job'[v].pc \in StepPcs
             PROVE  tasks'[job'[v].step].wf = job'[v].wf /\ tasks'[job'[v].step].node = job'[v].node
  BY DEF StepRows
<1>1. /\ job[v].pc \in StepPcs
      /\ job'[v].step = job[v].step /\ job'[v].wf = job[v].wf /\ job'[v].node = job[v].node
  BY DEF NoNewStep
<1>2. job[v].step \in TaskIds /\ Exists(job[v].step)
  BY <1>1 DEF RefinementInv, TypeInv, JobsFilled, JobFilled, Exists
<1> QED
  BY <1>1, <1>2 DEF RefinementInv, StepRows, KeepsRows

LEMMA BlankKept ==
  ASSUME RefinementInv, KeepsParents
  PROVE  Blank'
BY DEF RefinementInv, Blank, KeepsParents

\* A step that only moves messages, workers or requests.
LEMMA SimulatedQuiet ==
  ASSUME RefinementInv, KeepsRows, NoNewRows, UNCHANGED won, KeepsParents, NoNewStep
  PROVE  Simulated
BY FlowKept, StepRowsKept, BlankKept DEF Simulated

\* Saving a status in a row that exists creates none.
LEMMA SavedNoNewRows ==
  ASSUME TypeInv, NEW t \in TaskIds, Exists(t), NEW s, SetTask(t, s)
  PROVE  NoNewRows
BY DEF TypeInv, TypeOK, TaskRow, SetTask, NoNewRows, Exists

LEMMA SameNoNewRows ==
  ASSUME UNCHANGED tasks
  PROVE  NoNewRows
BY DEF NoNewRows, Exists

LEMMA SameParents ==
  ASSUME UNCHANGED wf
  PROVE  KeepsParents
BY DEF KeepsParents

\* Saving the status, or the status and the current node, of a workflow's row.
LEMMA SavedParents ==
  ASSUME TypeInv, NEW i, NEW st \in WfStatus, NEW cur,
         \/ wf' = [wf EXCEPT ![i].status = st]
         \/ wf' = [wf EXCEPT ![i].status = st, ![i].current = cur]
  PROVE  KeepsParents
<1>1. wf \in [Wfs -> WfRow] /\ st # "none"
  BY DEF TypeInv, TypeOK, WfStatus
<1> SUFFICES ASSUME NEW c \in Wfs
             PROVE  /\ wf'[c].parent = wf[c].parent /\ wf'[c].node = wf[c].node
                    /\ wf'[c].status = "none" => wf[c].status = "none"
  BY DEF KeepsParents
<1>2. CASE c = i
  <2>1. \/ wf'[c] = [wf[c] EXCEPT !.status = st]
        \/ wf'[c] = [wf[c] EXCEPT !.status = st, !.current = cur]
    BY <1>1, <1>2
  <2> QED
    BY <1>1, <2>1 DEF WfRow
<1>3. CASE c # i
  BY <1>1, <1>3
<1> QED
  BY <1>2, <1>3

\* Every step of a worker, and every fault.
LEMMA WorkerSimulated ==
  ASSUME RefinementInv, NEW w \in Workers, WorkerStep(w) \/ Fault(w)
  PROVE  Simulated
<1>t. KeepsRows /\ TypeInv
  BY WorkerTypeInv DEF RefinementInv
<1>j. job \in [Workers -> Job] /\ tasks \in [TaskIds -> TaskRow]
  BY DEF RefinementInv, TypeInv, TypeOK
<1>1. ASSUME NEW i \in Wfs, ExecuteWorkflowV2(w, i)
      PROVE  Simulated
  <2>2. NoNewRows
    BY <1>1, SameNoNewRows DEF ExecuteWorkflowV2
  <2>3. KeepsParents
    BY <1>1, <1>t, SavedParents DEF ExecuteWorkflowV2, WfStatus
  <2>4. NoNewStep
    BY <1>1, <1>j DEF ExecuteWorkflowV2, NoNewStep, Take, Goto, Ack, Idle, Job, StepPcs, Pcs
  <2> QED
    BY <1>1, <1>t, <2>2, <2>3, <2>4, SimulatedQuiet DEF ExecuteWorkflowV2
<1>2. ASSUME Dispatches(w)
      PROVE  Simulated
  <2>2. NoNewRows
    BY <1>2, SameNoNewRows DEF Dispatches, DispatchStartNodes, Ends
  <2>3. KeepsParents
    BY <1>2, SameParents DEF Dispatches, DispatchStartNodes, Ends
  <2>4. NoNewStep
    BY <1>2, <1>j DEF Dispatches, DispatchStartNodes, NoNewStep, Take, Goto, Ack, Idle, Job, StepPcs, Pcs, Ends
  <2> QED
    BY <1>2, <1>t, <2>2, <2>3, <2>4, SimulatedQuiet DEF Dispatches, DispatchStartNodes, Ends
<1>3. ASSUME NEW i \in Wfs, NEW n \in Nodes, FetchWorkflow(w, i, n)
      PROVE  Simulated
  <2>2. NoNewRows
    BY <1>3, SameNoNewRows DEF FetchWorkflow
  <2>3. KeepsParents
    BY <1>3, SameParents DEF FetchWorkflow
  <2>4. NoNewStep
    BY <1>3, <1>j DEF FetchWorkflow, NoNewStep, Take, Goto, Ack, Idle, Job, StepPcs, Pcs
  <2> QED
    BY <1>3, <1>t, <2>2, <2>3, <2>4, SimulatedQuiet DEF FetchWorkflow
<1>4. ASSUME Parks(w)
      PROVE  Simulated
  <2>2. NoNewRows
    BY <1>4, SameNoNewRows DEF Parks, Park, Ends
  <2>3. KeepsParents
    BY <1>4, <1>t, SavedParents DEF Parks, Park, WfStatus, Ends
  <2>4. NoNewStep
    BY <1>4, <1>j DEF Parks, Park, NoNewStep, Take, Goto, Ack, Idle, Job, StepPcs, Pcs, Ends
  <2> QED
    BY <1>4, <1>t, <2>2, <2>3, <2>4, SimulatedQuiet DEF Parks, Park, Ends
<1>5. ASSUME CheckInputs(w)
      PROVE  Simulated
  <2>2. NoNewRows
    BY <1>5, SameNoNewRows DEF CheckInputs
  <2>3. KeepsParents
    BY <1>5, SameParents DEF CheckInputs
  <2>4. NoNewStep
    BY <1>5, <1>j DEF CheckInputs, NoNewStep, Take, Goto, Ack, Idle, Job, StepPcs, Pcs
  <2> QED
    BY <1>5, <1>t, <2>2, <2>3, <2>4, SimulatedQuiet DEF CheckInputs
<1>6. ASSUME CreateTask(w)
      PROVE  Simulated
  <2>1. Order!Next
    BY <1>6, <1>t, FlowStarts
  <2>2. Blank'
    BY <1>6, SameParents, BlankKept DEF CreateTask
  <2>3. ASSUME NEW v \in Workers, job'[v].pc \in StepPcs
        PROVE  tasks'[job'[v].step].wf = job'[v].wf /\ tasks'[job'[v].step].node = job'[v].node
    <3> PICK t \in TaskIds :
          /\ tasks' = [tasks EXCEPT ![t] = [wf |-> job[w].wf, node |-> job[w].node, status |-> "init"]]
          /\ job' = [job EXCEPT ![w].pc = "before_start", ![w].step = t, ![w].row = t]
      BY <1>6 DEF CreateTask
    <3>1. CASE v = w
      BY <1>j, <3>1 DEF Job, TaskRow
    <3>2. CASE v # w
      <4>1. job'[v] = job[v]
        BY <1>j, <3>2
      <4>2. job[v].step \in TaskIds /\ Exists(job[v].step)
        BY <2>3, <4>1, <1>t DEF TypeInv, JobsFilled, JobFilled, Exists
      <4>3. tasks[job[v].step].wf = job[v].wf /\ tasks[job[v].step].node = job[v].node
        BY <2>3, <4>1 DEF RefinementInv, StepRows
      <4>4. /\ tasks'[job[v].step].wf = tasks[job[v].step].wf
            /\ tasks'[job[v].step].node = tasks[job[v].step].node
        BY <4>2, <1>t DEF KeepsRows
      <4> QED
        BY <4>1, <4>3, <4>4
    <3> QED BY <3>1, <3>2
  <2> QED
    BY <2>1, <2>2, <2>3 DEF Simulated, StepRows
<1>7. ASSUME BeforeStart(w)
      PROVE  Simulated
  <2>1. job[w].step \in TaskIds /\ Exists(job[w].step)
    BY <1>7, <1>t, StepFacts DEF BeforeStart, StepPcs, Pcs
  <2>2. NoNewRows
    BY <1>7, <1>t, <2>1, SavedNoNewRows DEF BeforeStart
  <2>3. KeepsParents
    BY <1>7, SameParents DEF BeforeStart
  <2>4. NoNewStep
    BY <1>7, <1>j DEF BeforeStart, NoNewStep, Take, Goto, Ack, Idle, Job, StepPcs, Pcs
  <2> QED
    BY <1>7, <1>t, <2>2, <2>3, <2>4, SimulatedQuiet DEF BeforeStart
<1>8. ASSUME Delegate(w)
      PROVE  Simulated
  <2>1. Order!Next
    BY <1>8, <1>t, FlowLaunches
  <2>2. NoNewStep
    BY <1>8, <1>j DEF Delegate, NoNewStep, Goto, Job, StepPcs, Pcs
  <2>3. Blank'
    BY <1>8, <1>t DEF Delegate, RefinementInv, Blank, TypeInv, TypeOK, WfRow
  <2> QED
    BY <1>t, <2>1, <2>2, <2>3, StepRowsKept DEF Simulated
<1>9. ASSUME SaveNestedProgress(w)
      PROVE  Simulated
  <2>1. job[w].step \in TaskIds /\ Exists(job[w].step)
    BY <1>9, <1>t, StepFacts DEF SaveNestedProgress, StepPcs, Pcs
  <2>2. NoNewRows
    BY <1>9, <1>t, <2>1, SavedNoNewRows DEF SaveNestedProgress
  <2>3. KeepsParents
    BY <1>9, SameParents DEF SaveNestedProgress
  <2>4. NoNewStep
    BY <1>9, <1>j DEF SaveNestedProgress, NoNewStep, Take, Goto, Ack, Idle, Job, StepPcs, Pcs
  <2> QED
    BY <1>9, <1>t, <2>2, <2>3, <2>4, SimulatedQuiet DEF SaveNestedProgress
<1>10. ASSUME NEW kind \in FailureKinds, UserCodeRaises(w, kind)
      PROVE  Simulated
  <2>2. NoNewRows
    BY <1>10, SameNoNewRows DEF UserCodeRaises
  <2>3. KeepsParents
    BY <1>10, SameParents DEF UserCodeRaises
  <2>4. NoNewStep
    BY <1>10, <1>j, RowAssumption DEF UserCodeRaises, NoNewStep, Take, Goto, Ack, Idle, Job, StepPcs, Pcs
  <2> QED
    BY <1>10, <1>t, <2>2, <2>3, <2>4, SimulatedQuiet DEF UserCodeRaises
<1>11. ASSUME OnSuccess(w)
      PROVE  Simulated
  <2>1. job[w].step \in TaskIds /\ Exists(job[w].step)
    BY <1>11, <1>t, StepFacts DEF OnSuccess, StepPcs, Pcs
  <2>2. KeepsParents
    BY <1>11, SameParents DEF OnSuccess
  <2>3. NoNewStep
    BY <1>11, <1>j DEF OnSuccess, HandleTaskSuccess, NoNewStep, Ack, Idle, Job, StepPcs, Pcs
  <2>4. CASE tasks[job[w].step].status = "nested-progress"
    <3>1. NoNewRows /\ UNCHANGED won
      BY <1>11, <2>4, SameNoNewRows DEF OnSuccess
    <3> QED
      BY <1>t, <2>2, <2>3, <3>1, SimulatedQuiet
  <2>5. CASE tasks[job[w].step].status # "nested-progress"
    <3>1. NoNewRows /\ won' = won \union {job[w].step}
      BY <1>11, <1>t, <2>1, <2>5, SavedNoNewRows DEF OnSuccess, HandleTaskSuccess
    <3> QED
      BY <1>t, <2>1, <2>2, <2>3, <3>1, FlowCompletes, StepRowsKept, BlankKept DEF Simulated
  <2> QED BY <2>4, <2>5
<1>12. ASSUME Advances(w)
      PROVE  Simulated
  <2>1. /\ \/ Ack(w)
           \/ \E t \in TaskIds : job' = [job EXCEPT ![w].pc = "parent", ![w].row = t]
           \/ job' = [job EXCEPT ![w].pc = "error", ![w].row = job[w].step]
        /\ job[w].pc = "advance" /\ UNCHANGED <<tasks, won>>
    BY <1>12 DEF Advances, Advance, Ends
  <2>2. NoNewStep
    BY <1>j, <2>1 DEF NoNewStep, Ack, Idle, Job, StepPcs, Pcs
  <2>3. \/ UNCHANGED wf
        \/ \E i, n : wf' = [wf EXCEPT ![i].status = "success", ![i].current = n]
    BY <1>12 DEF Advances, Advance, Ends
  <2>4. KeepsParents
    BY <1>t, <2>3, SameParents, SavedParents DEF WfStatus
  <2> QED
    BY <1>t, <2>1, <2>2, <2>4, SameNoNewRows, SimulatedQuiet
<1>13. ASSUME WrongConditionResult(w)
      PROVE  Simulated
  <2>2. NoNewRows
    BY <1>13, SameNoNewRows DEF WrongConditionResult
  <2>3. KeepsParents
    BY <1>13, SameParents DEF WrongConditionResult
  <2>4. NoNewStep
    BY <1>13, <1>j DEF WrongConditionResult, NoNewStep, Take, Goto, Ack, Idle, Job, StepPcs, Pcs
  <2> QED
    BY <1>13, <1>t, <2>2, <2>3, <2>4, SimulatedQuiet DEF WrongConditionResult
<1>14. ASSUME CompleteParentTask(w)
      PROVE  Simulated
  <2>1. job[w].row \in TaskIds /\ Exists(job[w].row)
    BY <1>14, <1>t, StepFacts DEF CompleteParentTask, StepPcs, Pcs
  <2>2. KeepsParents
    BY <1>14, SameParents DEF CompleteParentTask
  <2>3. NoNewStep
    BY <1>14, <1>j DEF CompleteParentTask, HandleTaskSuccess, NoNewStep, Ack, Idle, Job, StepPcs, Pcs
  <2>4. NoNewRows /\ won' = won \union {job[w].row}
    BY <1>14, <1>t, <2>1, SavedNoNewRows DEF CompleteParentTask, HandleTaskSuccess
  <2> QED
    BY <1>t, <2>1, <2>2, <2>3, <2>4, FlowCompletes, StepRowsKept, BlankKept DEF Simulated
<1>15. ASSUME Fails(w)
      PROVE  Simulated
  <2>1. job[w].row \in TaskIds /\ Exists(job[w].row)
    BY <1>15, <1>t, StepFacts DEF Fails, OnFailure, StepPcs, Pcs, Ends
  <2>2. NoNewRows
    BY <1>15, <1>t, <2>1, SavedNoNewRows DEF Fails, OnFailure, Ends
  <2>3. \E i : wf' = [wf EXCEPT ![i].status = job[w].pc]
    BY <1>15 DEF Fails, OnFailure, Ends
  <2>4. job[w].pc \in WfStatus
    BY <1>15 DEF Fails, OnFailure, WfStatus, Ends
  <2>5. KeepsParents
    BY <1>t, <2>3, <2>4, SavedParents
  <2>6. Ack(w) \/ \E u \in TaskIds : job' = [job EXCEPT ![w].row = u]
    BY <1>15 DEF Fails, OnFailure, Ends
  <2>7. NoNewStep
    BY <1>j, <2>6 DEF NoNewStep, Ack, Idle, Job, StepPcs, Pcs
  <2> QED
    BY <1>15, <1>t, <2>2, <2>5, <2>7, SimulatedQuiet DEF Fails, OnFailure, Ends
<1>16. ASSUME Log(w)
      PROVE  Simulated
  <2>1. job[w].step \in TaskIds /\ Exists(job[w].step)
    BY <1>16, <1>t, StepFacts DEF Log, StepPcs, Pcs
  <2>2. NoNewRows
    BY <1>16, <1>t, <2>1, SavedNoNewRows DEF Log
  <2>3. KeepsParents
    BY <1>16, SameParents DEF Log
  <2>4. NoNewStep
    BY <1>16, <1>j DEF Log, NoNewStep, Take, Goto, Ack, Idle, Job, StepPcs, Pcs
  <2> QED
    BY <1>16, <1>t, <2>2, <2>3, <2>4, SimulatedQuiet DEF Log
<1>17. ASSUME Crash(w)
      PROVE  Simulated
  <2>2. NoNewRows
    BY <1>17, SameNoNewRows DEF Crash
  <2>3. KeepsParents
    BY <1>17, SameParents DEF Crash
  <2>4. NoNewStep
    BY <1>17, <1>j DEF Crash, NoNewStep, Take, Goto, Ack, Idle, Job, StepPcs, Pcs
  <2> QED
    BY <1>17, <1>t, <2>2, <2>3, <2>4, SimulatedQuiet DEF Crash
<1>18. ASSUME HardTimeLimit(w)
      PROVE  Simulated
  <2>2. NoNewRows
    BY <1>18, SameNoNewRows DEF HardTimeLimit
  <2>3. KeepsParents
    BY <1>18, SameParents DEF HardTimeLimit
  <2>4. NoNewStep
    BY <1>18, <1>j DEF HardTimeLimit, NoNewStep, Take, Goto, Ack, Idle, Job, StepPcs, Pcs
  <2> QED
    BY <1>18, <1>t, <2>2, <2>3, <2>4, SimulatedQuiet DEF HardTimeLimit
<1> QED
  BY <1>1, <1>2, <1>3, <1>4, <1>5, <1>6, <1>7, <1>8, <1>9, <1>10, <1>11, <1>12, <1>13, <1>14, <1>15, <1>16, <1>17, <1>18, StepIsAction DEF WorkerAction

\* A request leaves the workflows alone or saves one of them.
LEMMA ApiSaves ==
  ASSUME NEW c \in Clients, ApiStep(c)
  PROVE  UNCHANGED wf \/ \E st \in WfStatus : \E i, n : wf' = [wf EXCEPT ![i].status = st, ![i].current = n]
<1>1. UNCHANGED wf \/ SaveRequest(c, "wait") \/ SaveRequest(c, "progress") \/ SaveRequest(c, "canceled")
  BY DEF ApiStep, PauseRead, PauseSave, ResumeRead, ResumeCheck, ResumeSave, CancelRead, CancelTask, CancelSave
<1>2. ASSUME NEW st \in WfStatus, SaveRequest(c, st)
      PROVE  \E i, n : wf' = [wf EXCEPT ![i].status = st, ![i].current = n]
  BY <1>2 DEF SaveRequest
<1> QED
  BY <1>1, <1>2 DEF WfStatus

\* Every step of a request.
LEMMA ApiSimulated ==
  ASSUME RefinementInv, NEW c \in Clients, ApiStep(c)
  PROVE  Simulated
<1>1. KeepsRows /\ TypeInv
  BY ApiTypeInv DEF RefinementInv
<1>2. UNCHANGED <<job, won>>
  BY DEF ApiStep, PauseRead, PauseSave, ResumeRead, ResumeCheck, ResumeSave, CancelRead, CancelTask, CancelSave
<1>3. NoNewStep
  BY <1>2 DEF NoNewStep
<1>4. NoNewRows
  <2>1. ASSUME NEW t \in TaskIds, CancelTask(c, t) PROVE NoNewRows
    <3>1. Exists(t)
      BY <2>1, <1>1 DEF CancelTask, TypeInv, RequestFilled
    <3> QED
      BY <1>1, <2>1, <3>1, SavedNoNewRows DEF CancelTask
  <2>2. CASE UNCHANGED tasks
    BY <2>2, SameNoNewRows
  <2> QED
    BY <2>1, <2>2
       DEF ApiStep, PauseRead, PauseSave, ResumeRead, ResumeCheck, ResumeSave, CancelRead, CancelSave
<1>5. KeepsParents
  <2>1. \/ UNCHANGED wf
        \/ \E st \in WfStatus : \E i, n : wf' = [wf EXCEPT ![i].status = st, ![i].current = n]
    BY ApiSaves
  <2> QED
    BY <1>1, <2>1, SameParents, SavedParents
<1> QED
  BY <1>1, <1>2, <1>3, <1>4, <1>5, SimulatedQuiet

LEMMA InitFlow ==
  ASSUME Init
  PROVE  Order!Init
<1>1. \A t \in TaskIds : tasks[t].status = "none"
  BY DEF Init, NoTask
<1>2. Started = {} /\ Completed = {}
  BY <1>1 DEF Init, Started, Completed
<1>3. \A c \in Wfs : wf[c].parent = None
  BY DEF Init, NoWorkflow
<1>4. Launched = {}
  BY <1>3 DEF Launched
<1> QED
  BY <1>2, <1>4 DEF Order!Init

LEMMA InitRefinementInv ==
  ASSUME Init
  PROVE  RefinementInv
<1>1. TypeInv
  BY InitTypeInv
<1>2. DependencyInv
  BY DEF Init, NoTask, Idle, DependencyInv, WonRows, CreateReady, DependencyOrder, Exists
<1>3. StepRows /\ Blank
  BY DEF Init, Idle, NoWorkflow, StepRows, Blank, StepPcs, Pcs
<1> QED
  BY <1>1, <1>2, <1>3 DEF RefinementInv

LEMMA RefinementInvKept ==
  ASSUME RefinementInv, [Next]_vars
  PROVE  RefinementInv' /\ [Order!Next]_(Order!flow)
<1>1. TypeInv' /\ KeepsRows
  BY NextTypeInv DEF RefinementInv
<1>2. DependencyInv'
  BY DependencyInvKept DEF RefinementInv
<1>3. CASE UNCHANGED vars
  <2>1. NoNewRows /\ KeepsParents /\ NoNewStep /\ UNCHANGED won
    BY <1>3, SameNoNewRows, SameParents DEF vars, NoNewStep
  <2> QED
    BY <1>1, <1>2, <2>1, SimulatedQuiet DEF Simulated, RefinementInv
<1>4. CASE Next
  <2>1. Simulated
    BY <1>4, WorkerSimulated, ApiSimulated DEF Next
  <2> QED
    BY <1>1, <1>2, <2>1 DEF Simulated, RefinementInv
<1> QED
  BY <1>3, <1>4

\* The engine implements the order of the dataflow, for every graph, every set of
\* workers and all faults: whatever processes and requests do to the rows, a node
\* starts when its inputs are complete, only a started node completes, and a workflow
\* is launched once, by a started node. StepRows and Blank connect the row that a
\* worker holds to its message, and a free workflow row to "not launched".
THEOREM OrderRefined == Spec => KeepsOrder
<1>1. Init => RefinementInv /\ Order!Init
  BY InitRefinementInv, InitFlow
<1>2. RefinementInv /\ [Next]_vars => RefinementInv' /\ [Order!Next]_(Order!flow)
  BY RefinementInvKept
<1> QED
  BY <1>1, <1>2, PTL DEF Spec, KeepsOrder, Order!Spec
-----------------------------------------------------------------------------
(* Workers and the queue.                                                  *)

\* The steps of a worker that take no message, send none on and create no row.
QuietAction(w) ==
  \/ CheckInputs(w) \/ BeforeStart(w) \/ Log(w) \/ SaveNestedProgress(w)
  \/ \E kind \in FailureKinds : UserCodeRaises(w, kind)
  \/ OnSuccess(w) \/ (Advances(w) /\ UNCHANGED queue) \/ WrongConditionResult(w)
  \/ CompleteParentTask(w) \/ Fails(w) \/ HardTimeLimit(w)

LEMMA QuietActionRows ==
  ASSUME TypeInv, NEW w \in Workers, QuietAction(w)
  PROVE  NoNewRows
<1>1. CASE UNCHANGED tasks
  BY <1>1, SameNoNewRows
<1>2. ASSUME NEW t \in TaskIds, Exists(t), NEW st, SetTask(t, st) PROVE NoNewRows
  BY <1>2, SavedNoNewRows
<1>3. CASE BeforeStart(w) \/ Log(w) \/ SaveNestedProgress(w)
  BY <1>2, <1>3, StepFacts DEF BeforeStart, Log, SaveNestedProgress, StepPcs, Pcs
<1>4. CASE OnSuccess(w)
  BY <1>1, <1>2, <1>4, StepFacts DEF OnSuccess, HandleTaskSuccess, StepPcs, Pcs
<1>5. CASE CompleteParentTask(w)
  BY <1>2, <1>5, StepFacts DEF CompleteParentTask, HandleTaskSuccess, StepPcs, Pcs
<1>6. CASE Fails(w)
  BY <1>2, <1>6, StepFacts DEF Fails, OnFailure, StepPcs, Pcs, Ends
<1> QED
  BY <1>1, <1>3, <1>4, <1>5, <1>6
     DEF QuietAction, CheckInputs, UserCodeRaises, Advances, Advance, WrongConditionResult, HardTimeLimit, Ends

\* A step of one worker leaves the others where they are.
LEMMA OtherWorkers ==
  ASSUME TypeInv, NEW w \in Workers, WorkerStep(w) \/ Fault(w), NEW v \in Workers, v # w
  PROVE  job'[v] = job[v]
<1>1. job \in [Workers -> Job]
  BY DEF TypeInv, TypeOK
<1>2. CASE QuietAction(w)
  BY <1>1, <1>2
     DEF QuietAction, CheckInputs, BeforeStart, Log, SaveNestedProgress, UserCodeRaises, OnSuccess, Advances, Advance,
         WrongConditionResult, CompleteParentTask, Fails, OnFailure, HardTimeLimit, HandleTaskSuccess, Goto, Ack, Ends
<1>3. CASE ~QuietAction(w)
  BY <1>1, <1>3, StepIsAction
     DEF WorkerAction, QuietAction, ExecuteWorkflowV2, Dispatches, DispatchStartNodes, FetchWorkflow, Parks, Park, CreateTask,
         Delegate, Advances, Advance, Crash, Take, Goto, Ack, Ends
<1> QED
  BY <1>2, <1>3

\* Both ends of a connection are nodes.
LEMMA ConnectionType ==
  \A k \in DOMAIN Connections : Connections[k].source \in Nodes /\ Connections[k].target \in Nodes
<1> DEFINE C == [source : Nodes, target : Nodes, output : Outputs]
<1>1. Connections \in Seq(C)
  BY GraphAssumption
<1>2. ASSUME NEW c \in C PROVE c.source \in Nodes /\ c.target \in Nodes
  OBVIOUS
<1> HIDE DEF C
<1>3. \A k \in DOMAIN Connections : Connections[k] \in C
  BY <1>1
<1> QED
  BY <1>2, <1>3

\* A message for node n of workflow i is in the queue.
Queued(i, n) == queue[i][n] > 0

\* Dispatching adds messages for the targets of its connections only.
LEMMA DispatchGrows ==
  ASSUME TypeInv, NEW i \in Wfs, NEW n \in Nodes, NEW j \in Wfs, NEW ks, NEW q, q = Dispatch(j, ks),
         q[i][n] > 0, ~Queued(i, n)
  PROVE  j = i /\ \E k \in ks : Connections[k].target = n
<1>t. queue \in [Wfs -> [Slots -> Nat]] /\ n \in Slots
  BY DEF TypeInv, TypeOK, Slots
<1>0. queue[i][n] = 0 /\ q[i][n] > 0
  <2>1. queue[i][n] \in Nat
    BY <1>t
  <2> QED
    BY <2>1 DEF Queued
<1> DEFINE count(m) == Cardinality({k \in ks : Connections[k].target = m})
<1>1. q = [queue EXCEPT ![j] = [m \in Slots |-> queue[j][m] + count(m)]]
  BY DEF Dispatch
<1>2. count(n) # 0 => \E k \in ks : Connections[k].target = n
  BY FS_EmptySet
<1> HIDE DEF count
<1>3. j = i /\ q[i][n] = 0 + count(n)
  BY <1>t, <1>0, <1>1
<1>4. count(n) # 0
  BY <1>0, <1>3
<1> QED
  BY <1>2, <1>3, <1>4

\* Beyond what a handler leaves in the queue, its end can only bring its own message back.
LEMMA Redelivered ==
  ASSUME TypeInv, NEW w \in Workers, NEW lost, NEW q \in [Wfs -> [Slots -> Nat]], Ends(w, q, lost),
         NEW i \in Wfs, NEW m \in Slots, queue'[i][m] > 0
  PROVE  q[i][m] > 0 \/ (i = job[w].wf /\ m = job[w].node)
BY DEF Ends

-----------------------------------------------------------------------------
(* Nesting: without cancellation and failing code, a node that delegates   *)
(* completes after a last node of the workflow that it launched.           *)

\* The connections of a template stay inside it.
Inside ==
  \A k \in DOMAIN Connections : TemplateOf[Connections[k].source] = TemplateOf[Connections[k].target]

\* No nested template has a condition (whose result may lack its key).
Plain == \A m \in DOMAIN Nested, n \in Condition : TemplateOf[n] # Nested[m]

\* Node n belongs to workflow i, which was created.
Home(i, n) == wf[i].status # "none" /\ TemplateOf[n] = wf[i].template

HomeInv ==
  /\ \A t \in TaskIds : Exists(t) => Home(tasks[t].wf, tasks[t].node)
  /\ \A i \in Wfs, n \in Nodes : Queued(i, n) => Home(i, n)
  /\ \A i \in Wfs : Queued(i, Launch) => wf[i].status # "none"
  /\ \A w \in Workers : job[w].pc # "idle" =>
       wf[job[w].wf].status # "none" /\ (job[w].node # Launch => Home(job[w].wf, job[w].node))
  /\ \A i \in Wfs : wf[i].current # None => Home(i, wf[i].current)
  /\ \A c \in Clients : api[c].op # "none" /\ api[c].current # None => Home(api[c].wf, api[c].current)

\* A nested workflow was launched by a node that delegates, which has a row.
LaunchedBy ==
  \A c \in Wfs : wf[c].parent # None =>
    /\ wf[c].node \in DOMAIN Nested
    /\ wf[c].template = Nested[wf[c].node]
    /\ Rows(wf[c].parent, wf[c].node) # {}

\* A last node of workflow i is complete; one of a workflow that node n of i launched.
WfDone(i) == \E m \in Last : <<i, m>> \in Completed
ChildDone(i, n) == \E c \in Wfs, m \in Last : <<i, n, c>> \in Launched /\ <<c, m>> \in Completed

RowDone(t) == ChildDone(tasks[t].wf, tasks[t].node)

\* No two workers run the same step.
StepsApart ==
  \A v, w \in Workers :
    job[v].pc \in StepPcs /\ job[w].pc \in StepPcs /\ job[v].step = job[w].step => v = w

\* A worker that goes up from its step has left only finished workflows behind.
Climbed(w, S) ==
  /\ tasks[job[w].step].wf \in S \union {tasks[job[w].row].wf}
  /\ \A j \in S : /\ WfDone(j) /\ HasParent(j)
                  /\ wf[j].parent \in S \union {tasks[job[w].row].wf} \/ ~ParentTaskUnique(j)

\* A failure, which starts over at the step, passes only through such workflows.
Descends(w, S) ==
  /\ HasParent(tasks[job[w].row].wf) => tasks[job[w].row].wf \in S
  /\ \A j \in S : WfDone(j) /\ (HasParent(j) => wf[j].parent \in S \/ ~ParentTaskUnique(j))

NestedStep(w) ==
  /\ job[w].pc \in {"delegated", "returned"} => job[w].node \in DOMAIN Nested
  /\ job[w].pc = "returned" =>
       tasks[job[w].step].status = "nested-progress" \/ RowDone(job[w].step)
  /\ job[w].pc = "advance" =>
       job[w].row \in won /\ (job[w].row = job[w].step \/ tasks[job[w].row].node \in DOMAIN Nested)
  /\ job[w].pc = "parent" => RowDone(job[w].row) /\ tasks[job[w].row].node \in DOMAIN Nested
  /\ job[w].pc \in {"advance", "parent"} => \E S \in SUBSET Wfs : Climbed(w, S)
  /\ job[w].pc \in {"error", "timeout"} =>
       /\ job[w].row = job[w].step \/ RowDone(job[w].row)
       /\ \E S \in SUBSET Wfs : Descends(w, S)

NoCancel == budget.cancel = 0 /\ \A c \in Clients : api[c].op # "cancel"

NestingInv ==
  /\ RefinementInv /\ NoCancel /\ HomeInv /\ LaunchedBy /\ StepsApart
  /\ \A w \in Workers : NestedStep(w)

\* A workflow that was created keeps its template, its parent and its node.
KeepsHomes ==
  \A i \in Wfs : wf[i].status # "none" =>
    /\ wf'[i].status # "none" /\ wf'[i].template = wf[i].template
    /\ wf'[i].parent = wf[i].parent /\ wf'[i].node = wf[i].node

LEMMA SavedHomes ==
  ASSUME TypeInv, NEW i, NEW st \in WfStatus, NEW cur,
         \/ wf' = [wf EXCEPT ![i].status = st]
         \/ wf' = [wf EXCEPT ![i].status = st, ![i].current = cur]
  PROVE  KeepsHomes
<1>1. wf \in [Wfs -> WfRow] /\ st # "none"
  BY DEF TypeInv, TypeOK, WfStatus
<1> SUFFICES ASSUME NEW c \in Wfs, wf[c].status # "none"
             PROVE  /\ wf'[c].status # "none" /\ wf'[c].template = wf[c].template
                    /\ wf'[c].parent = wf[c].parent /\ wf'[c].node = wf[c].node
  BY DEF KeepsHomes
<1>2. CASE c = i
  <2>1. \/ wf'[c] = [wf[c] EXCEPT !.status = st]
        \/ wf'[c] = [wf[c] EXCEPT !.status = st, !.current = cur]
    BY <1>1, <1>2
  <2> QED
    BY <1>1, <2>1 DEF WfRow
<1>3. CASE c # i
  BY <1>1, <1>3
<1> QED
  BY <1>2, <1>3

LEMMA WorkerHomes ==
  ASSUME TypeInv, NEW w \in Workers, WorkerStep(w) \/ Fault(w)
  PROVE  KeepsHomes
<1>1. CASE UNCHANGED wf
  BY <1>1 DEF KeepsHomes
<1>2. CASE Delegate(w)
  BY <1>2 DEF Delegate, KeepsHomes, TypeInv, TypeOK
<1>3. CASE \E i \in Wfs : ExecuteWorkflowV2(w, i)
  BY <1>3, SavedHomes DEF ExecuteWorkflowV2, WfStatus
<1>4. CASE Parks(w)
  BY <1>4, SavedHomes DEF Parks, Park, WfStatus, Ends
<1>5. CASE Fails(w)
  <2>1. \E i : wf' = [wf EXCEPT ![i].status = job[w].pc]
    BY <1>5 DEF Fails, OnFailure, Ends
  <2>2. job[w].pc \in WfStatus
    BY <1>5 DEF Fails, OnFailure, WfStatus, Ends
  <2> QED
    BY <2>1, <2>2, SavedHomes
<1>6. CASE Advances(w)
  <2>1. UNCHANGED wf \/ \E i, n : wf' = [wf EXCEPT ![i].status = "success", ![i].current = n]
    BY <1>6 DEF Advances, Advance, Ends
  <2> QED
    BY <1>1, <2>1, SavedHomes DEF WfStatus
<1> QED
  BY <1>1, <1>2, <1>3, <1>4, <1>5, <1>6, StepIsAction
     DEF WorkerAction, Dispatches, DispatchStartNodes, FetchWorkflow, CheckInputs, CreateTask, BeforeStart, Log,
         SaveNestedProgress, UserCodeRaises, OnSuccess, WrongConditionResult, CompleteParentTask, Crash, HardTimeLimit, Ends

LEMMA ApiHomes ==
  ASSUME TypeInv, NEW c \in Clients, ApiStep(c)
  PROVE  KeepsHomes
<1>1. UNCHANGED wf \/ \E st \in WfStatus : \E i, n : wf' = [wf EXCEPT ![i].status = st, ![i].current = n]
  BY ApiSaves
<1>2. CASE UNCHANGED wf
  BY <1>2 DEF KeepsHomes
<1> QED
  BY <1>1, <1>2, SavedHomes

LEMMA HomeKept ==
  ASSUME KeepsHomes, NEW i \in Wfs, NEW n, Home(i, n)
  PROVE  Home(i, n)'
BY DEF KeepsHomes, Home

\* The rows of a workflow's nodes.
LEMMA RowHomes ==
  ASSUME RefinementInv, HomeInv, KeepsHomes, KeepsRows, NEW w \in Workers, WorkerStep(w) \/ Fault(w)
  PROVE  \A t \in TaskIds : Exists(t)' => Home(tasks[t].wf, tasks[t].node)'
<1> SUFFICES ASSUME NEW t \in TaskIds, Exists(t)' PROVE Home(tasks[t].wf, tasks[t].node)'
  OBVIOUS
<1>1. CASE Exists(t)
  <2>1. tasks[t].wf \in Wfs /\ tasks'[t].wf = tasks[t].wf /\ tasks'[t].node = tasks[t].node
    BY <1>1 DEF RefinementInv, TypeInv, RowsFilled, KeepsRows
  <2>2. Home(tasks[t].wf, tasks[t].node)
    BY <1>1 DEF HomeInv
  <2> QED
    BY <2>1, <2>2 DEF KeepsHomes, Home
<1>2. CASE ~Exists(t)
  <2>1. CreateTask(w)
    <3>1. CASE QuietAction(w)
      BY <1>2, <3>1, QuietActionRows DEF NoNewRows, RefinementInv
    <3>2. CASE ~QuietAction(w) /\ ~CreateTask(w)
      <4>1. UNCHANGED tasks
        BY <3>2, StepIsAction
           DEF WorkerAction, QuietAction, ExecuteWorkflowV2, Dispatches, DispatchStartNodes, FetchWorkflow, Parks, Park,
               Delegate, Advances, Advance, Crash, Ends
      <4> QED
        BY <1>2, <4>1 DEF Exists
    <3> QED
      BY <3>1, <3>2
  <2>2. /\ job[w].wf \in Wfs /\ job[w].node \in Nodes /\ job[w].pc = "create"
        /\ tasks'[t].wf = job[w].wf /\ tasks'[t].node = job[w].node
    BY <1>2, <2>1 DEF CreateTask, RefinementInv, TypeInv, TypeOK, JobsFilled, JobFilled, Exists
  <2>3. Home(job[w].wf, job[w].node)
    BY <2>2, RowAssumption DEF HomeInv
  <2> QED
    BY <2>2, <2>3 DEF KeepsHomes, Home
<1> QED
  BY <1>1, <1>2

\* The messages of a workflow's nodes.
LEMMA QueueHomes ==
  ASSUME RefinementInv, HomeInv, KeepsHomes, Inside, NEW w \in Workers, WorkerStep(w) \/ Fault(w)
  PROVE  \A i \in Wfs, n \in Nodes : Queued(i, n)' => Home(i, n)'
<1>t. TypeInv /\ queue \in [Wfs -> [Slots -> Nat]] /\ job \in [Workers -> Job]
  BY DEF RefinementInv, TypeInv, TypeOK
<1> SUFFICES ASSUME NEW i \in Wfs, NEW n \in Nodes, Queued(i, n)' PROVE Home(i, n)
  BY HomeKept
<1>s. n \in Slots /\ n # Launch /\ Launch \in Slots
  BY RowAssumption DEF Slots
<1>0. CASE Queued(i, n)
  BY <1>0 DEF HomeInv
<1>q. ASSUME ~Queued(i, n) PROVE queue[i][n] = 0 /\ queue'[i][n] > 0
  <2>1. queue[i][n] \in Nat /\ ~(queue[i][n] > 0)
    BY <1>t, <1>s, <1>q DEF Queued
  <2> QED
    BY <2>1 DEF Queued
<1>1. CASE ~Queued(i, n) /\ UNCHANGED queue
  BY <1>1 DEF Queued
<1>2. CASE ~Queued(i, n) /\ \E j \in Wfs : ExecuteWorkflowV2(w, j)
  BY <1>t, <1>s, <1>q, <1>2 DEF ExecuteWorkflowV2, Take
<1>3. CASE ~Queued(i, n) /\ \E j \in Wfs, m \in Nodes : FetchWorkflow(w, j, m)
  <2>1. PICK j \in Wfs, m \in Nodes : FetchWorkflow(w, j, m)
    BY <1>3
  <2>2. queue[j][m] \in Nat /\ m \in Slots /\ queue[j][m] > 0 /\ queue' = [queue EXCEPT ![j][m] = @ - 1]
    BY <1>t, <2>1 DEF FetchWorkflow, Take, Slots
  <2>3. j # i \/ m # n
    BY <1>3, <1>q, <2>2
  <2> QED
    BY <1>t, <1>3, <1>q, <2>2, <2>3
<1>o. CASE job[w].pc # "idle" /\ i = job[w].wf /\ n = job[w].node
  BY <1>s, <1>o DEF HomeInv
<1>e. CASE ~Queued(i, n) /\ job[w].pc # "idle" /\ \E lost \in BOOLEAN : Ends(w, queue, lost)
  BY <1>t, <1>s, <1>e, <1>o, Redelivered DEF Queued
<1>4. CASE ~Queued(i, n) /\ Dispatches(w)
  <2>1. PICK j \in Wfs : j = job[w].wf /\ job[w].pc # "idle"
    BY <1>t, <1>4 DEF Dispatches, DispatchStartNodes, TypeInv, JobsFilled, JobFilled
  <2> DEFINE row == [m \in Slots |-> queue[j][m] + (IF m \in StartNodes(wf[j].template) THEN 1 ELSE 0)]
             q == [queue EXCEPT ![j] = row]
  <2>2. \E lost \in BOOLEAN : Ends(w, q, lost)
    BY <1>4, <2>1 DEF Dispatches, DispatchStartNodes
  <2>3. row \in [Slots -> Nat]
    BY <1>t
  <2>4. q \in [Wfs -> [Slots -> Nat]]
    <3> HIDE DEF row
    <3> QED BY <1>t, <2>3
  <2>5. CASE q[i][n] > 0
    <3>1. j = i /\ n \in StartNodes(wf[i].template)
      BY <1>t, <1>s, <1>4, <1>q, <2>5
    <3>2. wf[i].status # "none"
      BY <2>1, <3>1 DEF HomeInv
    <3> QED
      BY <3>1, <3>2 DEF Home, StartNodes
  <2> HIDE DEF q
  <2> QED
    BY <1>t, <1>s, <1>o, <2>1, <2>2, <2>4, <2>5, Redelivered DEF Queued
<1>5. CASE ~Queued(i, n) /\ Delegate(w)
  BY <1>t, <1>s, <1>q, <1>5 DEF Delegate, Send
<1>6. CASE ~Queued(i, n) /\ Advances(w) /\ ~UNCHANGED queue
  <2>1. PICK t \in TaskIds, s \in Nodes, j \in Wfs :
          Exists(t) /\ j = tasks[t].wf /\ s = tasks[t].node /\ t = job[w].row /\ job[w].pc # "idle"
    BY <1>t, <1>6, StepFacts DEF Advances, Advance, StepPcs, Pcs
  <2>2. PICK ks \in NextConnections(s), lost \in BOOLEAN : Ends(w, Dispatch(j, ks), lost) \/ Ends(w, queue, lost)
    BY <1>6, <2>1 DEF Advances, Advance
  <2>3. ks \in SUBSET DOMAIN Connections
    BY NextConnectionsType
  <2>4. Dispatch(j, ks) \in [Wfs -> [Slots -> Nat]]
    BY <1>t, <2>3, DispatchType DEF TypeInv
  <2>5. CASE Dispatch(j, ks)[i][n] > 0
    <3>1. j = i /\ \E k \in ks : Connections[k].target = n
      BY <1>t, <1>6, <2>5, DispatchGrows
    <3>2. PICK k \in ks : Connections[k].target = n
      BY <3>1
    <3>3. k \in DOMAIN Connections /\ Connections[k].source = s
      BY <2>2, <3>2 DEF NextConnections, NextNodeByCondition, Out
    <3>4. TemplateOf[n] = TemplateOf[s]
      BY <3>2, <3>3 DEF Inside
    <3>5. Home(i, s)
      BY <2>1, <3>1 DEF HomeInv
    <3> QED
      BY <3>4, <3>5 DEF Home
  <2> QED
    BY <1>t, <1>s, <1>6, <1>o, <1>e, <2>1, <2>2, <2>4, <2>5, Redelivered DEF Queued
<1>7. CASE ~Queued(i, n) /\ Crash(w)
  <2>1. job[w].wf \in Wfs /\ job[w].node \in Slots /\ job[w].pc # "idle"
    BY <1>t, <1>7 DEF Crash, TypeInv, JobsFilled, JobFilled
  <2>2. job[w].wf = i /\ job[w].node = n
    BY <1>t, <1>s, <1>q, <1>7, <2>1 DEF Crash, Send
  <2> QED
    BY <1>s, <2>1, <2>2 DEF HomeInv
<1> QED
  BY <1>0, <1>1, <1>2, <1>3, <1>4, <1>5, <1>6, <1>7, <1>e, StepIsAction
     DEF WorkerAction, CheckInputs, BeforeStart, Log, SaveNestedProgress, UserCodeRaises, OnSuccess, Parks, Park,
         CreateTask, WrongConditionResult, CompleteParentTask, Fails, OnFailure, HardTimeLimit

\* Only workflows that were created are launched.
LEMMA LaunchHomes ==
  ASSUME RefinementInv, HomeInv, KeepsHomes, NEW w \in Workers, WorkerStep(w) \/ Fault(w)
  PROVE  \A i \in Wfs : Queued(i, Launch)' => wf'[i].status # "none"
<1>t. TypeInv /\ queue \in [Wfs -> [Slots -> Nat]] /\ wf \in [Wfs -> WfRow]
  BY DEF RefinementInv, TypeInv, TypeOK
<1> SUFFICES ASSUME NEW i \in Wfs, Queued(i, Launch)' PROVE wf'[i].status # "none"
  OBVIOUS
<1>s. Launch \in Slots /\ Launch \notin Nodes
  BY RowAssumption DEF Slots
<1>0. CASE wf[i].status # "none"
  BY <1>0 DEF KeepsHomes
<1>q. ASSUME wf[i].status = "none" PROVE queue[i][Launch] = 0 /\ queue'[i][Launch] > 0
  <2>1. queue[i][Launch] \in Nat /\ ~(queue[i][Launch] > 0)
    BY <1>t, <1>s, <1>q DEF Queued, HomeInv
  <2> QED
    BY <2>1 DEF Queued
<1>1. CASE wf[i].status = "none" /\ UNCHANGED queue
  BY <1>1, <1>q
<1>2. CASE wf[i].status = "none" /\ \E j \in Wfs : ExecuteWorkflowV2(w, j)
  <2>1. PICK j \in Wfs : ExecuteWorkflowV2(w, j)
    BY <1>2
  <2>2. j # i
    BY <1>q, <1>2, <2>1 DEF ExecuteWorkflowV2, Take
  <2> QED
    BY <1>t, <1>s, <1>q, <1>2, <2>1, <2>2 DEF ExecuteWorkflowV2, Take
<1>3. CASE wf[i].status = "none" /\ \E j \in Wfs, m \in Nodes : FetchWorkflow(w, j, m)
  BY <1>t, <1>s, <1>q, <1>3 DEF FetchWorkflow, Take
<1>o. ASSUME job[w].pc # "idle", wf[i].status = "none" PROVE i # job[w].wf
  BY <1>o DEF HomeInv
<1>e. CASE wf[i].status = "none" /\ job[w].pc # "idle" /\ \E lost \in BOOLEAN : Ends(w, queue, lost)
  BY <1>t, <1>s, <1>q, <1>e, <1>o, Redelivered
<1>4. CASE wf[i].status = "none" /\ Dispatches(w)
  <2>1. PICK j \in Wfs : j = job[w].wf /\ job[w].pc # "idle"
    BY <1>t, <1>4 DEF Dispatches, DispatchStartNodes, TypeInv, JobsFilled, JobFilled
  <2> DEFINE row == [m \in Slots |-> queue[j][m] + (IF m \in StartNodes(wf[j].template) THEN 1 ELSE 0)]
             q == [queue EXCEPT ![j] = row]
  <2>2. \E lost \in BOOLEAN : Ends(w, q, lost)
    BY <1>4, <2>1 DEF Dispatches, DispatchStartNodes
  <2>3. row \in [Slots -> Nat]
    BY <1>t
  <2> HIDE DEF row
  <2>4. q \in [Wfs -> [Slots -> Nat]] /\ q[i] = queue[i]
    BY <1>t, <1>4, <1>o, <2>1, <2>3
  <2> HIDE DEF q
  <2> QED
    BY <1>s, <1>t, <1>4, <1>q, <1>o, <2>1, <2>2, <2>4, Redelivered
<1>5. CASE wf[i].status = "none" /\ Delegate(w)
  <2>1. PICK c \in Wfs :
          /\ wf' = [wf EXCEPT ![c] = [status |-> "init", current |-> None, parent |-> job[w].wf,
                                      node |-> job[w].node, template |-> Nested[job[w].node]]]
          /\ queue' = Send(c, Launch)
    BY <1>5 DEF Delegate
  <2>2. c = i
    BY <1>t, <1>s, <1>q, <1>5, <2>1 DEF Send
  <2> QED
    BY <1>t, <2>1, <2>2
<1>6. CASE wf[i].status = "none" /\ Advances(w) /\ ~UNCHANGED queue
  <2>1. PICK t \in TaskIds, s \in Nodes, j \in Wfs :
          Exists(t) /\ j = tasks[t].wf /\ s = tasks[t].node /\ t = job[w].row /\ job[w].pc # "idle"
    BY <1>t, <1>6, StepFacts DEF Advances, Advance, StepPcs, Pcs
  <2>2. wf[j].status # "none"
    BY <2>1 DEF HomeInv, Home
  <2>3. PICK ks \in NextConnections(s), lost \in BOOLEAN : Ends(w, Dispatch(j, ks), lost) \/ Ends(w, queue, lost)
    BY <1>6, <2>1 DEF Advances, Advance
  <2>4. ks \in SUBSET DOMAIN Connections
    BY NextConnectionsType
  <2>5. Dispatch(j, ks) \in [Wfs -> [Slots -> Nat]]
    BY <1>t, <2>4, DispatchType DEF TypeInv
  <2>6. Dispatch(j, ks)[i] = queue[i]
    BY <1>t, <1>6, <2>2 DEF Dispatch
  <2> QED
    BY <1>s, <1>t, <1>6, <1>q, <1>o, <1>e, <2>1, <2>3, <2>5, <2>6, Redelivered
<1>7. CASE wf[i].status = "none" /\ Crash(w)
  <2>1. job[w].wf \in Wfs /\ job[w].node \in Slots /\ job[w].pc # "idle"
    BY <1>t, <1>7 DEF Crash, TypeInv, JobsFilled, JobFilled
  <2>2. job[w].wf = i
    BY <1>t, <1>s, <1>q, <1>7, <2>1 DEF Crash, Send
  <2> QED
    BY <1>7, <2>1, <2>2 DEF HomeInv
<1> QED
  BY <1>0, <1>1, <1>2, <1>3, <1>4, <1>5, <1>6, <1>7, <1>e, StepIsAction
     DEF WorkerAction, CheckInputs, BeforeStart, Log, SaveNestedProgress, UserCodeRaises, OnSuccess, Parks, Park,
         CreateTask, WrongConditionResult, CompleteParentTask, Fails, OnFailure, HardTimeLimit

\* What a worker holds belongs to the workflow it works for.
LEMMA JobHomes ==
  ASSUME RefinementInv, HomeInv, KeepsHomes, NEW w \in Workers, WorkerStep(w) \/ Fault(w)
  PROVE  \A v \in Workers : job'[v].pc # "idle" =>
           wf'[job'[v].wf].status # "none" /\ (job'[v].node # Launch => Home(job[v].wf, job[v].node)')
<1>t. TypeInv /\ job \in [Workers -> Job]
  BY DEF RefinementInv, TypeInv, TypeOK
<1> SUFFICES ASSUME NEW v \in Workers, job'[v].pc # "idle"
             PROVE  wf'[job'[v].wf].status # "none" /\ (job'[v].node # Launch => Home(job[v].wf, job[v].node)')
  OBVIOUS
<1>1. CASE job[v].pc # "idle" /\ job'[v].wf = job[v].wf /\ job'[v].node = job[v].node
  <2>1. job[v].wf \in Wfs
    BY <1>t, <1>1 DEF TypeInv, JobsFilled, JobFilled
  <2>2. wf[job[v].wf].status # "none" /\ (job[v].node # Launch => Home(job[v].wf, job[v].node))
    BY <1>1 DEF HomeInv
  <2> QED
    BY <1>1, <2>1, <2>2 DEF KeepsHomes, Home
<1>2. CASE v = w /\ \E i \in Wfs : ExecuteWorkflowV2(w, i)
  <2>1. PICK i \in Wfs : ExecuteWorkflowV2(w, i)
    BY <1>2
  <2>2. job'[v].wf = i /\ job'[v].node = Launch /\ Queued(i, Launch)
    BY <1>t, <1>2, <2>1 DEF ExecuteWorkflowV2, Take, Idle, Queued
  <2> QED
    BY <2>2 DEF HomeInv, KeepsHomes
<1>3. CASE v = w /\ \E i \in Wfs, n \in Nodes : FetchWorkflow(w, i, n)
  <2>1. PICK i \in Wfs, n \in Nodes : FetchWorkflow(w, i, n)
    BY <1>3
  <2>2. job'[v].wf = i /\ job'[v].node = n /\ Queued(i, n)
    BY <1>t, <1>3, <2>1 DEF FetchWorkflow, Take, Idle, Queued
  <2> QED
    BY <2>2 DEF HomeInv, KeepsHomes, Home
<1>4. CASE v = w /\ ~(\E i \in Wfs : ExecuteWorkflowV2(w, i)) /\ ~(\E i \in Wfs, n \in Nodes : FetchWorkflow(w, i, n))
  <2>1. \/ Ack(w) \/ UNCHANGED job
        \/ \E pc : Goto(w, pc)
        \/ \E t \in TaskIds : job' = [job EXCEPT ![w].pc = "before_start", ![w].step = t, ![w].row = t]
        \/ \E pc, t : job' = [job EXCEPT ![w].pc = pc, ![w].row = t]
        \/ \E t : job' = [job EXCEPT ![w].row = t]
    <3>1. CASE Advances(w) \/ Fails(w)
      BY <3>1 DEF Advances, Advance, Fails, OnFailure, Ends
    <3>2. CASE Dispatches(w) \/ Parks(w)
      BY <3>2 DEF Dispatches, DispatchStartNodes, Parks, Park, Ends
    <3> QED
      BY <1>4, <3>1, <3>2, StepIsAction
         DEF WorkerAction, CheckInputs, CreateTask, BeforeStart, Log, Delegate, SaveNestedProgress, UserCodeRaises,
             OnSuccess, HandleTaskSuccess, WrongConditionResult, CompleteParentTask, Crash, HardTimeLimit
  <2>2. job[w].pc # "idle"
    BY <1>4, StepIsAction
       DEF WorkerAction, Dispatches, DispatchStartNodes, Parks, Park, CheckInputs, CreateTask, BeforeStart, Log, Delegate,
           SaveNestedProgress, UserCodeRaises, OnSuccess, HandleTaskSuccess, Advances, Advance, WrongConditionResult,
           CompleteParentTask, Fails, OnFailure, Crash, HardTimeLimit, Ends
  <2>3. job'[w].wf = job[w].wf /\ job'[w].node = job[w].node
    <3>1. CASE Ack(w)
      BY <1>t, <1>4, <3>1 DEF Ack, Idle
    <3>2. CASE \E pc : Goto(w, pc)
      BY <1>t, <3>2 DEF Goto, Job
    <3>3. CASE \E t \in TaskIds : job' = [job EXCEPT ![w].pc = "before_start", ![w].step = t, ![w].row = t]
      BY <1>t, <3>3 DEF Job
    <3>4. CASE \E pc, t : job' = [job EXCEPT ![w].pc = pc, ![w].row = t]
      BY <1>t, <3>4 DEF Job
    <3>5. CASE \E t : job' = [job EXCEPT ![w].row = t]
      BY <1>t, <3>5 DEF Job
    <3> QED
      BY <2>1, <3>1, <3>2, <3>3, <3>4, <3>5
  <2> QED
    BY <1>1, <1>4, <2>2, <2>3
<1>5. CASE v # w
  BY <1>1, <1>5, <1>t, OtherWorkers
<1> QED
  BY <1>2, <1>3, <1>4, <1>5

\* The node that a workflow was parked or ended at is one of its own.
LEMMA CurrentHomes ==
  ASSUME RefinementInv, HomeInv, KeepsHomes, NEW w \in Workers, WorkerStep(w) \/ Fault(w)
  PROVE  \A i \in Wfs : wf'[i].current # None => Home(i, wf[i].current)'
<1>t. TypeInv /\ wf \in [Wfs -> WfRow]
  BY DEF RefinementInv, TypeInv, TypeOK
<1> SUFFICES ASSUME NEW i \in Wfs, wf'[i].current # None PROVE Home(i, wf[i].current)'
  OBVIOUS
<1>1. CASE wf'[i].current = wf[i].current
  BY <1>1 DEF HomeInv, KeepsHomes, Home
<1>2. CASE Parks(w)
  <2>1. PICK j \in Wfs, n \in Nodes : j = job[w].wf /\ n = job[w].node /\ job[w].pc = "park"
    BY <1>t, <1>2 DEF Parks, Park, TypeInv, JobsFilled, JobFilled, Ends
  <2>2. wf' = [wf EXCEPT ![j].status = "wait", ![j].current = n]
    BY <1>2, <2>1 DEF Parks, Park, Ends
  <2>3. Home(j, n)
    BY <2>1, RowAssumption DEF HomeInv
  <2>4. CASE i = j
    <3>1. wf'[i].current = n
      BY <1>t, <2>2, <2>4 DEF WfRow
    <3> QED
      BY <2>3, <2>4, <3>1 DEF KeepsHomes, Home
  <2>5. CASE i # j
    BY <1>1, <1>t, <2>2, <2>5
  <2> QED BY <2>4, <2>5
<1>3. CASE Advances(w)
  <2>1. PICK t \in TaskIds, n \in Nodes, j \in Wfs : Exists(t) /\ j = tasks[t].wf /\ n = tasks[t].node /\ t = job[w].row
    BY <1>t, <1>3, StepFacts DEF Advances, Advance, StepPcs, Pcs, Ends
  <2>2. UNCHANGED wf \/ wf' = [wf EXCEPT ![j].status = "success", ![j].current = n]
    BY <1>3, <2>1 DEF Advances, Advance, Ends
  <2>3. Home(j, n)
    BY <2>1 DEF HomeInv
  <2>4. CASE i = j /\ ~UNCHANGED wf
    <3>1. wf'[i].current = n
      BY <1>t, <2>2, <2>4 DEF WfRow
    <3> QED
      BY <2>3, <2>4, <3>1 DEF KeepsHomes, Home
  <2>5. CASE i # j \/ UNCHANGED wf
    BY <1>1, <1>t, <2>2, <2>5
  <2> QED BY <2>4, <2>5
<1>4. CASE Delegate(w)
  BY <1>1, <1>4, <1>t DEF Delegate
<1>5. CASE (\E j \in Wfs : ExecuteWorkflowV2(w, j)) \/ Fails(w)
  <2>1. \E j, st : wf' = [wf EXCEPT ![j].status = st]
    BY <1>5 DEF ExecuteWorkflowV2, Fails, OnFailure, Ends
  <2>2. wf'[i].current = wf[i].current
    BY <1>t, <2>1 DEF WfRow
  <2> QED
    BY <1>1, <2>2
<1>6. CASE UNCHANGED wf
  BY <1>1, <1>6
<1> QED
  BY <1>2, <1>3, <1>4, <1>5, <1>6, StepIsAction
     DEF WorkerAction, Dispatches, DispatchStartNodes, FetchWorkflow, CheckInputs, CreateTask, BeforeStart, Log,
         SaveNestedProgress, UserCodeRaises, OnSuccess, WrongConditionResult, CompleteParentTask, Crash, HardTimeLimit, Ends

LEMMA WorkerHomeInv ==
  ASSUME RefinementInv, HomeInv, Inside, NEW w \in Workers, WorkerStep(w) \/ Fault(w)
  PROVE  HomeInv'
<1>1. TypeInv /\ KeepsHomes /\ KeepsRows
  BY WorkerHomes, WorkerTypeInv DEF RefinementInv
<1>2. UNCHANGED api
  BY StepIsAction DEF WorkerAction, ExecuteWorkflowV2, Dispatches, DispatchStartNodes, FetchWorkflow, Parks, Park, CheckInputs, CreateTask,
         BeforeStart, Log, Delegate, SaveNestedProgress, UserCodeRaises, OnSuccess, Advances, Advance, WrongConditionResult,
         CompleteParentTask, Fails, OnFailure, Crash, HardTimeLimit, Ends
<1>3. \A c \in Clients : (api[c].op # "none" /\ api[c].current # None => Home(api[c].wf, api[c].current))'
  BY <1>1, <1>2 DEF HomeInv, Home, KeepsHomes, TypeInv, RequestFilled
<1> QED
  BY <1>1, <1>3, RowHomes, QueueHomes, LaunchHomes, JobHomes, CurrentHomes DEF HomeInv

\* A request saves the current node it read from the same workflow.
LEMMA ApiHomeInv ==
  ASSUME RefinementInv, HomeInv, NEW c \in Clients, ApiStep(c)
  PROVE  HomeInv'
<1>t. TypeInv /\ KeepsHomes /\ KeepsRows /\ wf \in [Wfs -> WfRow] /\ queue \in [Wfs -> [Slots -> Nat]]
  BY ApiHomes, ApiTypeInv DEF RefinementInv, TypeInv, TypeOK
<1>n. UNCHANGED job /\ NoNewRows
  <2>1. UNCHANGED tasks \/ \E t \in TaskIds : CancelTask(c, t)
    BY DEF ApiStep, PauseRead, PauseSave, ResumeRead, ResumeCheck, ResumeSave, CancelRead, CancelSave
  <2>2. ASSUME NEW t \in TaskIds, CancelTask(c, t) PROVE NoNewRows
    BY <1>t, <2>2, SavedNoNewRows DEF CancelTask, TypeInv, RequestFilled
  <2> QED
    BY <2>1, <2>2, SameNoNewRows
       DEF ApiStep, PauseRead, PauseSave, ResumeRead, ResumeCheck, ResumeSave, CancelRead, CancelTask, CancelSave
<1>1. \A t \in TaskIds : Exists(t)' => Home(tasks[t].wf, tasks[t].node)'
  BY <1>t, <1>n DEF HomeInv, Home, KeepsHomes, KeepsRows, NoNewRows, TypeInv, RowsFilled
<1>2. \A v \in Workers : job'[v].pc # "idle" =>
        wf'[job'[v].wf].status # "none" /\ (job'[v].node # Launch => Home(job[v].wf, job[v].node)')
  BY <1>t, <1>n DEF HomeInv, Home, KeepsHomes, TypeInv, JobsFilled, JobFilled
<1>3. \A i \in Wfs : wf'[i].current # None => Home(i, wf[i].current)'
  <2> SUFFICES ASSUME NEW i \in Wfs, wf'[i].current # None PROVE Home(i, wf[i].current)'
    OBVIOUS
  <2>1. CASE wf'[i].current = wf[i].current
    BY <1>t, <2>1 DEF HomeInv, KeepsHomes, Home
  <2>2. CASE api[c].op # "none" /\ i = api[c].wf /\ wf'[i].current = api[c].current
    BY <1>t, <2>2 DEF HomeInv, KeepsHomes, Home
  <2>3. \/ UNCHANGED wf
        \/ /\ api[c].op # "none"
           /\ \E st : wf' = [wf EXCEPT ![api[c].wf].status = st, ![api[c].wf].current = api[c].current]
    BY DEF ApiStep, PauseRead, PauseSave, ResumeRead, ResumeCheck, ResumeSave, CancelRead, CancelTask, CancelSave, SaveRequest
  <2>4. wf'[i].current = wf[i].current \/ (api[c].op # "none" /\ i = api[c].wf /\ wf'[i].current = api[c].current)
    BY <1>t, <2>3 DEF WfRow
  <2> QED
    BY <2>1, <2>2, <2>4
<1>4. \A d \in Clients : (api[d].op # "none" /\ api[d].current # None => Home(api[d].wf, api[d].current))'
  <2>a. api \in [Clients -> ApiRequest]
    BY <1>t DEF TypeInv, TypeOK
  <2> SUFFICES ASSUME NEW d \in Clients, api'[d].op # "none", api'[d].current # None
               PROVE  Home(api[d].wf, api[d].current)'
    OBVIOUS
  <2>1. ASSUME NEW i \in Wfs, NEW op, NEW rows, Request(c, op, i, rows), UNCHANGED wf, d = c
        PROVE  Home(api[d].wf, api[d].current)'
    <3>1. api'[d].wf = i /\ api'[d].current = wf[i].current
      BY <2>a, <2>1 DEF Request
    <3> QED
      BY <2>1, <3>1 DEF HomeInv, Home
  <2>2. CASE api'[d].op = api[d].op /\ api'[d].wf = api[d].wf /\ api'[d].current = api[d].current
    BY <1>t, <2>2 DEF HomeInv, Home, KeepsHomes, TypeInv, RequestFilled
  <2>3. CASE d = c /\ api'[d] = NoRequest
    BY <2>3 DEF NoRequest
  <2>4. CASE \E t \in TaskIds : CancelTask(c, t)
    BY <2>2, <2>4, <2>a DEF CancelTask, ApiRequest
  <2>5. CASE \E i \in Wfs : PauseRead(c, i) \/ ResumeRead(c, i) \/ CancelRead(c, i)
    <3>1. CASE d = c
      BY <2>1, <2>5, <3>1 DEF PauseRead, ResumeRead, CancelRead
    <3>2. CASE d # c
      <4>1. api'[d] = api[d]
        BY <2>a, <2>5, <3>2 DEF PauseRead, ResumeRead, CancelRead, Request
      <4> QED BY <2>2, <4>1
    <3> QED BY <3>1, <3>2
  <2>6. CASE PauseSave(c) \/ ResumeSave(c) \/ CancelSave(c)
    <3>1. api' = [api EXCEPT ![c] = NoRequest]
      BY <2>6 DEF PauseSave, ResumeSave, CancelSave, SaveRequest
    <3> QED BY <2>2, <2>3, <2>a, <3>1
  <2>7. CASE ResumeCheck(c)
    <3>1. /\ api[c].op # "none"
          /\ \/ api' = [api EXCEPT ![c] = NoRequest]
             \/ api' = [api EXCEPT ![c].op = "resume"]
      BY <2>7 DEF ResumeCheck
    <3>2. CASE d = c /\ api'[d] # NoRequest
      <4>1. api[d].op # "none" /\ api'[d].wf = api[d].wf /\ api'[d].current = api[d].current
        BY <2>a, <3>1, <3>2 DEF ApiRequest
      <4> QED BY <1>t, <4>1 DEF HomeInv, Home, KeepsHomes, TypeInv, RequestFilled
    <3>3. CASE d # c
      <4>1. api'[d] = api[d]
        BY <2>a, <3>1, <3>3
      <4> QED BY <2>2, <4>1
    <3> QED BY <2>3, <3>2, <3>3
  <2> QED
    BY <2>4, <2>5, <2>6, <2>7 DEF ApiStep
<1>5. /\ \A i \in Wfs, n \in Nodes : Queued(i, n)' => Home(i, n)'
      /\ \A i \in Wfs : Queued(i, Launch)' => wf'[i].status # "none"
  <2>1. CASE UNCHANGED queue
    BY <1>t, <2>1 DEF HomeInv, Home, KeepsHomes, Queued
  <2>2. CASE ResumeSave(c) /\ api[c].current # None
    <3>1. api[c].wf \in Wfs /\ api[c].current \in Nodes /\ Home(api[c].wf, api[c].current)
      BY <1>t, <2>2 DEF ResumeSave, TypeInv, TypeOK, ApiRequest, RequestFilled, HomeInv
    <3>2. queue' = [queue EXCEPT ![api[c].wf][api[c].current] = @ + 1]
      BY <2>2 DEF ResumeSave, Send
    <3>3. ASSUME NEW i \in Wfs, NEW m \in Slots, Queued(i, m)'
          PROVE  Queued(i, m) \/ (i = api[c].wf /\ m = api[c].current)
      BY <1>t, <3>2, <3>3 DEF Queued
    <3>4. Launch \in Slots /\ Nodes \subseteq Slots /\ Launch # api[c].current
      BY <3>1, RowAssumption DEF Slots
    <3> QED
      BY <1>t, <3>1, <3>3, <3>4 DEF HomeInv, Home, KeepsHomes
  <2> QED
    BY <2>1, <2>2
       DEF ApiStep, PauseRead, PauseSave, ResumeRead, ResumeCheck, ResumeSave, CancelRead, CancelTask, CancelSave
<1> QED
  BY <1>1, <1>2, <1>3, <1>4, <1>5 DEF HomeInv

\* Only a delegating step gives a workflow a parent.
LEMMA WorkerParents ==
  ASSUME TypeInv, NEW w \in Workers, WorkerStep(w) \/ Fault(w), ~Delegate(w)
  PROVE  KeepsParents
<1>1. CASE UNCHANGED wf
  BY <1>1, SameParents
<1>3. CASE \E i \in Wfs : ExecuteWorkflowV2(w, i)
  BY <1>3, SavedParents DEF ExecuteWorkflowV2, WfStatus
<1>4. CASE Parks(w)
  BY <1>4, SavedParents DEF Parks, Park, WfStatus, Ends
<1>5. CASE Fails(w)
  <2>1. \E i : wf' = [wf EXCEPT ![i].status = job[w].pc]
    BY <1>5 DEF Fails, OnFailure, Ends
  <2>2. job[w].pc \in WfStatus
    BY <1>5 DEF Fails, OnFailure, WfStatus, Ends
  <2> QED
    BY <2>1, <2>2, SavedParents
<1>6. CASE Advances(w)
  <2>1. UNCHANGED wf \/ \E i, n : wf' = [wf EXCEPT ![i].status = "success", ![i].current = n]
    BY <1>6 DEF Advances, Advance, Ends
  <2> QED
    BY <1>1, <2>1, SavedParents DEF WfStatus
<1> QED
  BY <1>1, <1>3, <1>4, <1>5, <1>6, StepIsAction
     DEF WorkerAction, Dispatches, DispatchStartNodes, FetchWorkflow, CheckInputs, CreateTask, BeforeStart, Log,
         SaveNestedProgress, UserCodeRaises, OnSuccess, WrongConditionResult, CompleteParentTask, Crash, HardTimeLimit, Ends

LEMMA ApiParents ==
  ASSUME TypeInv, NEW c \in Clients, ApiStep(c)
  PROVE  KeepsParents
<1>1. UNCHANGED wf \/ \E st \in WfStatus : \E i, n : wf' = [wf EXCEPT ![i].status = st, ![i].current = n]
  BY ApiSaves
<1> QED
  BY <1>1, SameParents, SavedParents

LEMMA LaunchedByKept ==
  ASSUME RefinementInv, LaunchedBy, KeepsRows, KeepsHomes, KeepsParents
  PROVE  LaunchedBy'
<1> SUFFICES ASSUME NEW c \in Wfs, wf'[c].parent # None
             PROVE  /\ wf'[c].node \in DOMAIN Nested
                    /\ wf'[c].template = Nested[wf'[c].node]
                    /\ Rows(wf[c].parent, wf[c].node)' # {}
  BY DEF LaunchedBy
<1>1. wf[c].parent # None /\ wf[c].status # "none"
  BY DEF KeepsParents, RefinementInv, Blank
<1>2. wf'[c].parent = wf[c].parent /\ wf'[c].node = wf[c].node /\ wf'[c].template = wf[c].template
  BY <1>1 DEF KeepsHomes
<1>3. Rows(wf[c].parent, wf[c].node)' = {t \in TaskIds : tasks'[t].status # "none" /\ tasks'[t].wf = wf[c].parent /\ tasks'[t].node = wf[c].node}
  BY <1>2 DEF Rows
<1>4. Rows(wf[c].parent, wf[c].node) \subseteq Rows(wf[c].parent, wf[c].node)'
  BY <1>3 DEF KeepsRows, Rows, Exists
<1> QED
  BY <1>1, <1>2, <1>4 DEF LaunchedBy

LEMMA LaunchedByDelegate ==
  ASSUME RefinementInv, LaunchedBy, KeepsRows, KeepsHomes, NEW w \in Workers, Delegate(w)
  PROVE  LaunchedBy'
<1>t. TypeInv /\ wf \in [Wfs -> WfRow] /\ job[w].pc \in StepPcs /\ UNCHANGED tasks
  BY DEF Delegate, RefinementInv, TypeInv, TypeOK, StepPcs, Pcs
<1>1. PICK c \in Wfs :
        /\ wf[c].status = "none"
        /\ wf' = [wf EXCEPT ![c] = [status |-> "init", current |-> None, parent |-> job[w].wf,
                                    node |-> job[w].node, template |-> Nested[job[w].node]]]
  BY DEF Delegate
<1>2. job[w].step \in Rows(job[w].wf, job[w].node)
  BY <1>t, StepFacts DEF RefinementInv, StepRows, Rows, Exists
<1> SUFFICES ASSUME NEW d \in Wfs, wf'[d].parent # None
             PROVE  /\ wf'[d].node \in DOMAIN Nested
                    /\ wf'[d].template = Nested[wf'[d].node]
                    /\ Rows(wf[d].parent, wf[d].node)' # {}
  BY DEF LaunchedBy
<1>3. CASE d = c
  BY <1>t, <1>1, <1>2, <1>3 DEF Delegate, Rows
<1>4. CASE d # c
  <2>1. wf'[d] = wf[d]
    BY <1>t, <1>1, <1>4
  <2> QED
    BY <1>t, <2>1 DEF LaunchedBy, Rows
<1> QED
  BY <1>3, <1>4

\* A worker enters a step by creating its row.
LEMMA WorkerNoNewStep ==
  ASSUME TypeInv, NEW w \in Workers, WorkerStep(w) \/ Fault(w), ~CreateTask(w)
  PROVE  NoNewStep
<1>t. job \in [Workers -> Job]
  BY DEF TypeInv, TypeOK
<1> SUFFICES ASSUME job'[w].pc \in StepPcs
             PROVE  /\ job[w].pc \in StepPcs
                    /\ job'[w].step = job[w].step /\ job'[w].wf = job[w].wf /\ job'[w].node = job[w].node
  BY OtherWorkers DEF NoNewStep
<1>1. CASE (\E i \in Wfs : ExecuteWorkflowV2(w, i)) \/ (\E i \in Wfs, n \in Nodes : FetchWorkflow(w, i, n))
  <2>1. job'[w].pc \in {"dispatch", "park", "check"}
    <3>1. CASE \E i \in Wfs : ExecuteWorkflowV2(w, i)
      BY <1>t, <3>1 DEF ExecuteWorkflowV2, Take, Idle
    <3>2. CASE \E i \in Wfs, n \in Nodes : FetchWorkflow(w, i, n)
      BY <1>t, <3>2 DEF FetchWorkflow, Take, Idle
    <3> QED
      BY <1>1, <3>1, <3>2
  <2> QED
    BY <2>1 DEF StepPcs
<1>2. CASE Dispatches(w) \/ Parks(w) \/ Crash(w) \/ HardTimeLimit(w) \/ CheckInputs(w)
  <2>1. Ack(w) \/ Goto(w, "create")
    BY <1>2 DEF Dispatches, DispatchStartNodes, Parks, Park, Crash, HardTimeLimit, CheckInputs, Ends
  <2> QED
    BY <1>t, <2>1 DEF Ack, Goto, Idle, Job, StepPcs, Pcs
<1>3. CASE BeforeStart(w) \/ Log(w) \/ Delegate(w) \/ SaveNestedProgress(w) \/ \E kind \in FailureKinds : UserCodeRaises(w, kind)
  BY <1>t, <1>3 DEF BeforeStart, Log, Delegate, SaveNestedProgress, UserCodeRaises, Goto, Job, StepPcs, Pcs
<1>4. CASE OnSuccess(w) \/ WrongConditionResult(w) \/ CompleteParentTask(w)
  BY <1>t, <1>4 DEF OnSuccess, WrongConditionResult, CompleteParentTask, HandleTaskSuccess, Ack, Idle, Job, StepPcs, Pcs
<1>5. CASE Advances(w)
  BY <1>t, <1>5 DEF Advances, Advance, Ack, Idle, Job, StepPcs, Pcs, Ends
<1>6. CASE Fails(w)
  <2>1. job[w].pc \in StepPcs
    BY <1>6 DEF Fails, OnFailure, StepPcs, Pcs, Ends
  <2>2. Ack(w) \/ \E u \in TaskIds : job' = [job EXCEPT ![w].row = u]
    BY <1>6 DEF Fails, OnFailure, Ends
  <2> QED
    BY <1>t, <2>1, <2>2 DEF Ack, Idle, Job, StepPcs
<1> QED
  BY <1>1, <1>2, <1>3, <1>4, <1>5, <1>6, StepIsAction DEF WorkerAction

LEMMA WorkerStepsApart ==
  ASSUME TypeInv, StepsApart, NEW w \in Workers, WorkerStep(w) \/ Fault(w)
  PROVE  StepsApart'
<1>1. CASE ~CreateTask(w)
  <2>1. NoNewStep
    BY <1>1, WorkerNoNewStep
  <2> QED
    BY <2>1 DEF NoNewStep, StepsApart
<1>2. CASE CreateTask(w)
  <2>1. PICK t \in TaskIds : ~Exists(t) /\ job' = [job EXCEPT ![w].pc = "before_start", ![w].step = t, ![w].row = t]
    BY <1>2 DEF CreateTask, Exists
  <2>2. job'[w].step = t /\ \A v \in Workers : v # w => job'[v] = job[v]
    BY <2>1 DEF TypeInv, TypeOK, Job
  <2>3. \A v \in Workers : v # w /\ job'[v].pc \in StepPcs => job'[v].step # t
    BY <2>1, <2>2, StepFacts
  <2> QED
    BY <2>2, <2>3 DEF StepsApart
<1> QED
  BY <1>1, <1>2

-----------------------------------------------------------------------------
(* What was finished stays finished.                                       *)

LEMMA WonGrows ==
  ASSUME NEW w \in Workers, WorkerStep(w) \/ Fault(w)
  PROVE  won \subseteq won'
BY StepIsAction DEF WorkerAction, ExecuteWorkflowV2, Dispatches, DispatchStartNodes, FetchWorkflow, Parks, Park, CheckInputs, CreateTask,
       BeforeStart, Log, Delegate, SaveNestedProgress, UserCodeRaises, OnSuccess, HandleTaskSuccess, Advances, Advance,
       WrongConditionResult, CompleteParentTask, Fails, OnFailure, Crash, HardTimeLimit, Ends

\* The steps that take no row, workflow or completion away.
Grows == KeepsRows /\ KeepsHomes /\ won \subseteq won'

LEMMA DoneGrows ==
  ASSUME RefinementInv, Grows
  PROVE  Completed \subseteq Completed' /\ Launched \subseteq Launched'
<1>1. \A u \in won : u \in won' /\ <<tasks'[u].wf, tasks'[u].node>> = <<tasks[u].wf, tasks[u].node>>
  BY WonKept DEF RefinementInv, DependencyInv, Grows
<1>2. \A c \in Wfs : wf[c].parent # None =>
        wf'[c].parent # None /\ <<wf'[c].parent, wf'[c].node, c>> = <<wf[c].parent, wf[c].node, c>>
  BY DEF Grows, KeepsHomes, RefinementInv, Blank
<1>3. Completed \subseteq Completed'
  BY <1>1 DEF Completed
<1>4. Launched \subseteq Launched'
  BY <1>2 DEF Launched
<1> QED
  BY <1>3, <1>4

LEMMA WfDoneKept ==
  ASSUME RefinementInv, Grows, NEW i, WfDone(i)
  PROVE  WfDone(i)'
BY DoneGrows DEF WfDone

LEMMA ChildDoneKept ==
  ASSUME RefinementInv, Grows, NEW i, NEW n, ChildDone(i, n)
  PROVE  ChildDone(i, n)'
BY DoneGrows DEF ChildDone

LEMMA RowDoneKept ==
  ASSUME RefinementInv, Grows, NEW t \in TaskIds, Exists(t), RowDone(t)
  PROVE  RowDone(t)'
<1>0. PICK i \in Wfs, n \in Nodes : i = tasks[t].wf /\ n = tasks[t].node
  BY DEF RefinementInv, TypeInv, RowsFilled
<1>1. tasks'[t].wf = i /\ tasks'[t].node = n
  BY <1>0 DEF Grows, KeepsRows
<1>2. ChildDone(i, n)
  BY <1>0 DEF RowDone
<1>3. ChildDone(i, n)'
  BY <1>2, ChildDoneKept
<1> QED
  BY <1>1, <1>3 DEF RowDone, ChildDone

\* A workflow with a finished node was created.
LEMMA WfDoneCreated ==
  ASSUME RefinementInv, HomeInv, NEW i \in Wfs, WfDone(i)
  PROVE  wf[i].status # "none"
<1>1. PICK m \in Last : <<i, m>> \in Completed
  BY DEF WfDone
<1>2. PICK t \in won : <<i, m>> = <<tasks[t].wf, tasks[t].node>>
  BY <1>1 DEF Completed
<1>3. t \in TaskIds /\ Exists(t) /\ tasks[t].wf = i
  BY <1>2 DEF RefinementInv, DependencyInv, WonRows, TypeInv, TypeOK
<1> QED
  BY <1>3 DEF HomeInv, Home

\* Once a delegating node has several rows, its task cannot be found again.
LEMMA NotUniqueKept ==
  ASSUME RefinementInv, LaunchedBy, Grows, NEW j \in Wfs, HasParent(j), ~ParentTaskUnique(j)
  PROVE  ~ParentTaskUnique(j)'
<1>1. wf[j].status # "none" /\ Rows(wf[j].parent, wf[j].node) # {}
  BY DEF HasParent, RefinementInv, Blank, LaunchedBy
<1>2. wf'[j].parent = wf[j].parent /\ wf'[j].node = wf[j].node
  BY <1>1 DEF Grows, KeepsHomes
<1>3. Rows(wf[j].parent, wf[j].node) \subseteq Rows(wf[j].parent, wf[j].node)'
  BY <1>2 DEF Grows, KeepsRows, Rows, Exists
<1>4. PICK t, u : t # u /\ t \in Rows(wf[j].parent, wf[j].node) /\ u \in Rows(wf[j].parent, wf[j].node)
  <2>1. PICK t : t \in Rows(wf[j].parent, wf[j].node)
    BY <1>1
  <2>2. t \in TaskIds
    BY <2>1 DEF Rows
  <2>3. Rows(wf[j].parent, wf[j].node) # {t}
    BY <2>2 DEF ParentTaskUnique, ParentTask
  <2> QED
    BY <2>1, <2>3
<1>5. t \in Rows(wf[j].parent, wf[j].node)' /\ u \in Rows(wf[j].parent, wf[j].node)'
  BY <1>3, <1>4
<1> QED
  BY <1>4, <1>5 DEF ParentTaskUnique, ParentTask

-----------------------------------------------------------------------------
(* The way up from a step, and the failure that follows it.                *)

LEMMA ClimbedKept ==
  ASSUME NestingInv, Grows, NEW v \in Workers, NEW S \in SUBSET Wfs, Climbed(v, S), job[v].pc \in StepPcs,
         job'[v].step = job[v].step, job'[v].row = job[v].row
  PROVE  Climbed(v, S)'
<1>1. TypeInv /\ RefinementInv
  BY DEF NestingInv, RefinementInv
<1>2. /\ tasks'[job'[v].step].wf = tasks[job[v].step].wf
      /\ tasks'[job'[v].row].wf = tasks[job[v].row].wf
  BY <1>1, StepFacts DEF Grows, KeepsRows
<1>3. ASSUME NEW j \in S
      PROVE  /\ WfDone(j)' /\ HasParent(j)'
             /\ wf'[j].parent \in S \union {tasks[job[v].row].wf} \/ ~ParentTaskUnique(j)'
  <2>1. j \in Wfs /\ WfDone(j) /\ HasParent(j)
    BY DEF Climbed
  <2>2. WfDone(j)' /\ wf'[j].parent = wf[j].parent
    BY <1>1, <2>1, WfDoneKept, WfDoneCreated DEF NestingInv, Grows, KeepsHomes
  <2>3. ~ParentTaskUnique(j) => ~ParentTaskUnique(j)'
    BY <1>1, <2>1, NotUniqueKept DEF NestingInv
  <2> QED
    BY <2>1, <2>2, <2>3 DEF Climbed, HasParent
<1> QED
  BY <1>2, <1>3 DEF Climbed

LEMMA DescendsKept ==
  ASSUME NestingInv, Grows, NEW v \in Workers, NEW S \in SUBSET Wfs, Descends(v, S), job[v].pc \in StepPcs,
         job'[v].row = job[v].row
  PROVE  Descends(v, S)'
<1>1. TypeInv /\ RefinementInv
  BY DEF NestingInv, RefinementInv
<1>2. /\ job[v].row \in TaskIds /\ Exists(job[v].row) /\ tasks[job[v].row].wf \in Wfs
      /\ tasks'[job'[v].row].wf = tasks[job[v].row].wf
  BY <1>1, StepFacts DEF Grows, KeepsRows
<1>3. HasParent(tasks[job[v].row].wf)' => tasks[job[v].row].wf \in S
  <2>1. wf[tasks[job[v].row].wf].status # "none"
    BY <1>2 DEF NestingInv, HomeInv, Home
  <2>2. wf'[tasks[job[v].row].wf].parent = wf[tasks[job[v].row].wf].parent
    BY <1>2, <2>1 DEF Grows, KeepsHomes
  <2> QED
    BY <1>2, <2>2 DEF Descends, HasParent
<1>4. ASSUME NEW j \in S
      PROVE  /\ WfDone(j)'
             /\ HasParent(j)' => wf'[j].parent \in S \/ ~ParentTaskUnique(j)'
  <2>1. j \in Wfs /\ WfDone(j)
    BY DEF Descends
  <2>2. WfDone(j)' /\ wf'[j].parent = wf[j].parent
    BY <1>1, <2>1, WfDoneKept, WfDoneCreated DEF NestingInv, Grows, KeepsHomes
  <2>3. HasParent(j) /\ ~ParentTaskUnique(j) => ~ParentTaskUnique(j)'
    BY <1>1, <2>1, NotUniqueKept DEF NestingInv
  <2> QED
    BY <2>1, <2>2, <2>3 DEF Descends, HasParent
<1> QED
  BY <1>2, <1>3, <1>4 DEF Descends

\* A worker that stands still, whatever others save in the row it returned to.
LEMMA NestedStepKept ==
  ASSUME NestingInv, Grows, NEW v \in Workers, job'[v] = job[v],
         job[v].pc = "returned" =>
           \/ tasks'[job[v].step].status = tasks[job[v].step].status
           \/ RowDone(job[v].step)
  PROVE  NestedStep(v)'
<1>1. TypeInv /\ RefinementInv /\ NestedStep(v)
  BY DEF NestingInv, RefinementInv
<1>2. CASE job[v].pc \notin StepPcs
  BY <1>2 DEF NestedStep, StepPcs, Pcs
<1>3. CASE job[v].pc \in StepPcs
  <2>1. /\ job[v].step \in TaskIds /\ Exists(job[v].step)
        /\ job[v].row \in TaskIds /\ Exists(job[v].row)
        /\ tasks'[job[v].row].node = tasks[job[v].row].node
    BY <1>1, <1>3, StepFacts DEF Grows, KeepsRows
  <2>2. /\ RowDone(job[v].step) => RowDone(job[v].step)'
        /\ RowDone(job[v].row) => RowDone(job[v].row)'
    <3>1. \A t \in TaskIds : Exists(t) /\ RowDone(t) => (RowDone(t))'
      BY <1>1, RowDoneKept
    <3>2. \A t \in TaskIds : (RowDone(t))' = ChildDone(tasks[t].wf, tasks[t].node)'
      BY DEF RowDone
    <3>3. RowDone(job[v].step)' = ChildDone(tasks[job[v].step].wf, tasks[job[v].step].node)'
      BY DEF RowDone
    <3> QED
      BY <2>1, <3>1, <3>2, <3>3 DEF RowDone, ChildDone
  <2>3. job[v].pc = "returned" => tasks'[job'[v].step].status = "nested-progress" \/ RowDone(job[v].step)'
    BY <1>1, <2>2 DEF NestedStep
  <2>4. job[v].pc \in {"advance", "parent"} => \E S \in SUBSET Wfs : Climbed(v, S)'
    BY <1>1, <1>3, ClimbedKept DEF NestedStep
  <2>5. job[v].pc \in {"error", "timeout"} => \E S \in SUBSET Wfs : Descends(v, S)'
    BY <1>1, <1>3, DescendsKept DEF NestedStep
  <2> QED
    BY <1>1, <2>1, <2>2, <2>3, <2>4, <2>5 DEF NestedStep, Grows
<1> QED
  BY <1>2, <1>3

\* What another worker saves in the row of a step: the outcome of its child.
LEMMA SavedByOthers ==
  ASSUME NestingInv, NEW w \in Workers, WorkerStep(w) \/ Fault(w), NEW v \in Workers, v # w, job[v].pc = "returned"
  PROVE  \/ tasks'[job[v].step].status = tasks[job[v].step].status
         \/ RowDone(job[v].step)
<1>t. TypeInv /\ tasks \in [TaskIds -> TaskRow]
  BY DEF NestingInv, RefinementInv, TypeInv, TypeOK
<1> DEFINE t == job[v].step
<1>1. t \in TaskIds /\ Exists(t) /\ job[v].pc \in StepPcs
  BY <1>t, StepFacts DEF StepPcs, Pcs
<1>2. job[w].pc \in StepPcs => job[w].step # t
  BY <1>1 DEF NestingInv, StepsApart
<1>3. ASSUME NEW u, u # t, NEW st, SetTask(u, st) PROVE tasks'[t].status = tasks[t].status
  BY <1>t, <1>1, <1>3 DEF SetTask
<1> HIDE DEF t
<1>4. CASE UNCHANGED tasks
  BY <1>4 DEF t
<1>5. CASE CreateTask(w)
  <2>1. tasks'[t] = tasks[t]
    BY <1>t, <1>1, <1>5 DEF CreateTask, Exists
  <2> QED
    BY <2>1 DEF t
<1>6. CASE BeforeStart(w) \/ Log(w) \/ SaveNestedProgress(w)
  BY <1>2, <1>3, <1>6 DEF BeforeStart, Log, SaveNestedProgress, StepPcs, Pcs, t
<1>7. CASE OnSuccess(w)
  BY <1>2, <1>3, <1>4, <1>7 DEF OnSuccess, HandleTaskSuccess, StepPcs, Pcs, t
<1>8. CASE CompleteParentTask(w)
  <2>1. RowDone(job[w].row) /\ SetTask(job[w].row, "success")
    BY <1>8 DEF CompleteParentTask, HandleTaskSuccess, NestingInv, NestedStep
  <2> QED
    BY <1>3, <2>1 DEF t
<1>9. CASE Fails(w)
  <2>1. (job[w].row = job[w].step \/ RowDone(job[w].row)) /\ SetTask(job[w].row, job[w].pc) /\ job[w].pc \in StepPcs
    BY <1>9 DEF Fails, OnFailure, NestingInv, NestedStep, StepPcs, Pcs, Ends
  <2> QED
    BY <1>2, <1>3, <2>1 DEF t
<1> QED
  BY <1>4, <1>5, <1>6, <1>7, <1>8, <1>9, StepIsAction
     DEF WorkerAction, ExecuteWorkflowV2, Dispatches, DispatchStartNodes, FetchWorkflow, Parks, Park, CheckInputs, Delegate,
         UserCodeRaises, Advances, Advance, WrongConditionResult, Crash, HardTimeLimit, Ends

\* Advancing ends a workflow and goes up to the task that launched it, or fails there.
LEMMA AdvanceNested ==
  ASSUME NestingInv, Grows, NEW w \in Workers, Advances(w)
  PROVE  NestedStep(w)'
<1>t. TypeInv /\ RefinementInv /\ NestedStep(w) /\ job \in [Workers -> Job] /\ job[w].pc \in StepPcs /\ job[w].pc = "advance"
  BY DEF NestingInv, RefinementInv, TypeInv, TypeOK, Advances, Advance, StepPcs, Pcs, Ends
<1>0. PICK i \in Wfs, n \in Nodes : i = tasks[job[w].row].wf /\ n = tasks[job[w].row].node
  BY <1>t, StepFacts
<1>1. CASE Ack(w)
  BY <1>t, <1>1 DEF Ack, Idle, NestedStep
<1>2. CASE ~Ack(w)
  <2>1. /\ {} \in NextConnections(n) /\ HasParent(i)
        /\ wf' = [wf EXCEPT ![i].status = "success", ![i].current = n]
        /\ \/ \E t \in TaskIds : ParentTask(i, t) /\ job' = [job EXCEPT ![w].pc = "parent", ![w].row = t]
           \/ ~ParentTaskUnique(i) /\ job' = [job EXCEPT ![w].pc = "error", ![w].row = job[w].step]
        /\ UNCHANGED <<tasks, won>>
    BY <1>0, <1>2 DEF Advances, Advance, Ends
  <2>2. KeepsParents
    BY <1>t, <2>1, SavedParents DEF WfStatus
  <2>3. WfDone(i)
    <3>1. job[w].row \in won /\ n \in Last
      BY <1>t, <2>1 DEF NestedStep, Last
    <3>2. <<i, n>> \in Completed
      BY <1>0, <3>1 DEF Completed
    <3> QED
      BY <3>1, <3>2 DEF WfDone
  <2>4. PICK S \in SUBSET Wfs : Climbed(w, S)
    BY <1>t DEF NestedStep
  <2> DEFINE SS == S \union {i}
  <2>5. /\ SS \in SUBSET Wfs /\ i \in SS /\ tasks[job[w].step].wf \in SS
        /\ \A j \in SS : /\ WfDone(j) /\ HasParent(j)
                         /\ wf[j].parent \in SS \/ j = i \/ ~ParentTaskUnique(j)
    BY <1>0, <2>1, <2>3, <2>4 DEF Climbed
  <2> HIDE DEF SS
  <2>6. \A j \in SS : WfDone(j)' /\ HasParent(j)' /\ wf'[j].parent = wf[j].parent
    BY <1>t, <2>2, <2>5, WfDoneKept DEF KeepsParents, HasParent
  <2>7. \A j \in SS : ~ParentTaskUnique(j) => ~ParentTaskUnique(j)'
    BY <1>t, <2>5, NotUniqueKept DEF NestingInv
  <2>8. ASSUME NEW t \in TaskIds, ParentTask(i, t), job' = [job EXCEPT ![w].pc = "parent", ![w].row = t]
        PROVE  NestedStep(w)'
    <3>1. t \in Rows(wf[i].parent, wf[i].node)
      BY <2>8 DEF ParentTask
    <3>2. tasks[t].wf = wf[i].parent /\ tasks[t].node = wf[i].node /\ Exists(t)
      BY <3>1 DEF Rows, Exists
    <3>3. wf[i].node \in DOMAIN Nested
      BY <2>1 DEF HasParent, NestingInv, LaunchedBy
    <3>4. RowDone(t)
      <4>1. <<wf[i].parent, wf[i].node, i>> \in Launched
        BY <2>1 DEF HasParent, Launched
      <4> QED
        BY <2>3, <3>2, <4>1 DEF RowDone, ChildDone, WfDone
    <3>5. RowDone(t)'
      BY <1>t, <3>2, <3>4, RowDoneKept
    <3>6. job'[w].pc = "parent" /\ job'[w].row = t /\ job'[w].step = job[w].step
      BY <1>t, <2>8 DEF Job
    <3>7. Climbed(w, SS)'
      BY <2>1, <2>5, <2>6, <2>7, <3>2, <3>6 DEF Climbed
    <3>8. RowDone(job[w].row)'
      BY <3>5, <3>6 DEF RowDone, ChildDone
    <3> QED
      BY <2>1, <2>5, <3>2, <3>3, <3>6, <3>7, <3>8 DEF NestedStep
  <2>9. ASSUME ~ParentTaskUnique(i), job' = [job EXCEPT ![w].pc = "error", ![w].row = job[w].step]
        PROVE  NestedStep(w)'
    <3>1. job'[w].pc = "error" /\ job'[w].row = job[w].step /\ job'[w].step = job[w].step
      BY <1>t, <2>9 DEF Job
    <3>2. Descends(w, SS)'
      BY <2>1, <2>5, <2>6, <2>7, <2>9, <3>1 DEF Descends
    <3> QED
      BY <2>5, <3>1, <3>2 DEF NestedStep
  <2> QED
    BY <2>1, <2>8, <2>9
<1> QED
  BY <1>1, <1>2

\* A failure goes up through finished workflows.
LEMMA FailureNested ==
  ASSUME NestingInv, Grows, NEW w \in Workers, Fails(w)
  PROVE  NestedStep(w)'
<1>t. TypeInv /\ RefinementInv /\ NestedStep(w) /\ job \in [Workers -> Job] /\ job[w].pc \in StepPcs /\ job[w].pc \in {"error", "timeout"}
  BY DEF NestingInv, RefinementInv, TypeInv, TypeOK, Fails, OnFailure, StepPcs, Pcs, Ends
<1>0. PICK i \in Wfs : i = tasks[job[w].row].wf
  BY <1>t, StepFacts
<1>1. CASE Ack(w)
  BY <1>t, <1>1 DEF Ack, Idle, NestedStep
<1>2. CASE ~Ack(w)
  <2>1. PICK u \in TaskIds : HasParent(i) /\ ParentTask(i, u) /\ job' = [job EXCEPT ![w].row = u]
    BY <1>0, <1>2 DEF Fails, OnFailure, Ends
  <2>2. job'[w].pc = job[w].pc /\ job'[w].row = u /\ job'[w].step = job[w].step
    BY <1>t, <2>1 DEF Job
  <2>3. PICK S \in SUBSET Wfs : Descends(w, S)
    BY <1>t DEF NestedStep
  <2>4. i \in S /\ WfDone(i) /\ ParentTaskUnique(i)
    BY <1>0, <2>1, <2>3 DEF Descends, ParentTaskUnique
  <2>5. tasks[u].wf = wf[i].parent /\ tasks[u].node = wf[i].node /\ Exists(u)
    <3>1. u \in Rows(wf[i].parent, wf[i].node)
      BY <2>1 DEF ParentTask
    <3> QED
      BY <3>1 DEF Rows, Exists
  <2>6. wf[i].parent \in S
    BY <2>1, <2>3, <2>4 DEF Descends
  <2>7. RowDone(u)
    <3>1. <<wf[i].parent, wf[i].node, i>> \in Launched
      BY <2>1 DEF HasParent, Launched
    <3> QED
      BY <2>4, <2>5, <3>1 DEF RowDone, ChildDone, WfDone
  <2>8. RowDone(u)'
    BY <1>t, <2>5, <2>7, RowDoneKept
  <2>9. Descends(w, S)'
    <3>1. tasks'[u].wf \in S
      BY <2>5, <2>6 DEF Grows, KeepsRows
    <3>2. ASSUME NEW j \in S
          PROVE  /\ WfDone(j)'
                 /\ HasParent(j)' => wf'[j].parent \in S \/ ~ParentTaskUnique(j)'
      <4>1. j \in Wfs /\ WfDone(j)
        BY <2>3 DEF Descends
      <4>2. WfDone(j)' /\ wf'[j].parent = wf[j].parent
        BY <1>t, <4>1, WfDoneKept, WfDoneCreated DEF NestingInv, Grows, KeepsHomes
      <4>3. HasParent(j) /\ ~ParentTaskUnique(j) => ~ParentTaskUnique(j)'
        BY <1>t, <4>1, NotUniqueKept DEF NestingInv
      <4> QED
        BY <2>3, <4>1, <4>2, <4>3 DEF Descends, HasParent
    <3> QED
      BY <2>2, <3>1, <3>2 DEF Descends
  <2>10. RowDone(job[w].row)'
    BY <2>2, <2>8 DEF RowDone, ChildDone
  <2> QED
    BY <1>t, <2>2, <2>9, <2>10 DEF NestedStep
<1> QED
  BY <1>1, <1>2

\* Every other step of the worker itself.
LEMMA OwnNested ==
  ASSUME NestingInv, Grows, FailureKinds = {}, Plain, NEW w \in Workers, WorkerStep(w) \/ Fault(w)
  PROVE  NestedStep(w)'
<1>t. TypeInv /\ RefinementInv /\ NestedStep(w) /\ job \in [Workers -> Job] /\ tasks \in [TaskIds -> TaskRow]
  BY DEF NestingInv, RefinementInv, TypeInv, TypeOK
<1>1. CASE job'[w].pc \in {"idle", "dispatch", "park", "check", "create", "before_start", "run"}
  BY <1>1 DEF NestedStep
<1>2. CASE (\E i \in Wfs : ExecuteWorkflowV2(w, i)) \/ (\E i \in Wfs, n \in Nodes : FetchWorkflow(w, i, n))
  <2>1. CASE \E i \in Wfs : ExecuteWorkflowV2(w, i)
    BY <1>1, <1>t, <2>1 DEF ExecuteWorkflowV2, Take, Idle
  <2>2. CASE \E i \in Wfs, n \in Nodes : FetchWorkflow(w, i, n)
    BY <1>1, <1>t, <2>2 DEF FetchWorkflow, Take, Idle
  <2> QED
    BY <1>2, <2>1, <2>2
<1>3. CASE Dispatches(w) \/ Parks(w) \/ Crash(w) \/ HardTimeLimit(w)
  <2>1. Ack(w)
    BY <1>3 DEF Dispatches, DispatchStartNodes, Parks, Park, Crash, HardTimeLimit, Ends
  <2> QED
    BY <1>1, <1>t, <2>1 DEF Ack, Idle
<1>4. CASE CheckInputs(w) \/ CreateTask(w) \/ BeforeStart(w) \/ Log(w)
  <2>1. CASE CheckInputs(w)
    BY <1>1, <1>t, <2>1 DEF CheckInputs, Goto, Ack, Idle, Job
  <2>2. CASE CreateTask(w)
    BY <1>1, <1>t, <2>2 DEF CreateTask, Job
  <2>3. CASE BeforeStart(w) \/ Log(w)
    BY <1>1, <1>t, <2>3 DEF BeforeStart, Log, Goto, Job
  <2> QED
    BY <1>4, <2>1, <2>2, <2>3
<1>5. CASE Delegate(w)
  <2>1. job'[w].pc = "delegated" /\ job'[w].node = job[w].node /\ job[w].node \in DOMAIN Nested
    BY <1>t, <1>5 DEF Delegate, Goto, Job
  <2> QED
    BY <2>1 DEF NestedStep
<1>6. CASE SaveNestedProgress(w)
  <2>1. job'[w].pc = "returned" /\ job'[w].node = job[w].node /\ job'[w].step = job[w].step /\ job[w].node \in DOMAIN Nested
    BY <1>t, <1>6 DEF SaveNestedProgress, Goto, Job, NestedStep
  <2>2. job[w].step \in TaskIds
    BY <1>t, <1>6, StepFacts DEF SaveNestedProgress, StepPcs, Pcs
  <2>3. tasks'[job[w].step].status = "nested-progress"
    BY <1>t, <1>6, <2>2 DEF SaveNestedProgress, SetTask, TaskRow
  <2> QED
    BY <2>1, <2>3 DEF NestedStep
<1>7. CASE OnSuccess(w)
  <2>1. CASE Ack(w)
    BY <1>1, <1>t, <2>1 DEF Ack, Idle
  <2>2. CASE HandleTaskSuccess(w, job[w].step)
    <3>1. job'[w].pc = "advance" /\ job'[w].row = job[w].step /\ job'[w].step = job[w].step /\ job[w].step \in won'
      BY <1>t, <2>2 DEF HandleTaskSuccess, Job
    <3>2. Climbed(w, {})'
      BY <3>1 DEF Climbed
    <3> QED
      BY <3>1, <3>2 DEF NestedStep
  <2> QED
    BY <1>7, <2>1, <2>2 DEF OnSuccess
<1>8. CASE CompleteParentTask(w)
  <2>1. /\ job[w].pc = "parent" /\ job'[w].pc = "advance" /\ job'[w].row = job[w].row /\ job'[w].step = job[w].step
        /\ job[w].row \in won' /\ job[w].pc \in StepPcs
    BY <1>t, <1>8 DEF CompleteParentTask, HandleTaskSuccess, Job, StepPcs, Pcs
  <2>2. PICK S \in SUBSET Wfs : Climbed(w, S)
    BY <1>t, <2>1 DEF NestedStep
  <2>3. Climbed(w, S)'
    BY <2>1, <2>2, ClimbedKept
  <2>4. tasks'[job'[w].row].node \in DOMAIN Nested
    BY <1>t, <2>1, StepFacts DEF NestedStep, Grows, KeepsRows
  <2> QED
    BY <2>1, <2>3, <2>4 DEF NestedStep
<1>9. CASE WrongConditionResult(w)
  <2>1. /\ job[w].pc = "advance" /\ tasks[job[w].row].node \in Condition /\ UNCHANGED <<wf, tasks>>
        /\ job'[w].pc = "error" /\ job'[w].row = job[w].step /\ job'[w].step = job[w].step /\ job[w].pc \in StepPcs
    BY <1>t, <1>9 DEF WrongConditionResult, Job, StepPcs, Pcs
  <2>2. job[w].row = job[w].step
    BY <1>t, <2>1, GraphAssumption DEF NestedStep
  <2>3. ~HasParent(tasks[job[w].row].wf)
    <3>1. PICK i \in Wfs, n \in Condition : i = tasks[job[w].row].wf /\ n = tasks[job[w].row].node /\ Home(i, n)
      BY <1>t, <2>1, StepFacts DEF NestingInv, HomeInv
    <3> QED
      BY <3>1 DEF HasParent, Home, Plain, NestingInv, LaunchedBy
  <2>4. Descends(w, {})'
    BY <2>1, <2>2, <2>3 DEF Descends, HasParent
  <2> QED
    BY <2>1, <2>4 DEF NestedStep
<1> QED
  BY <1>2, <1>3, <1>4, <1>5, <1>6, <1>7, <1>8, <1>9, AdvanceNested, FailureNested, StepIsAction DEF WorkerAction

-----------------------------------------------------------------------------
(* The refinement of the nesting.                                          *)

\* What is newly complete and delegated has a complete child.
NestedCompletion ==
  \A i \in Wfs, n \in DOMAIN Nested : <<i, n>> \in Completed' => <<i, n>> \in Completed \/ ChildDone(i, n)

\* The order of the dataflow and the completion of children make the nesting.
LEMMA OrderIsNesting ==
  ASSUME [Order!Next]_(Order!flow), NestedCompletion
  PROVE  [Nesting!Next]_(Nesting!flow)
<1>1. CASE UNCHANGED Order!flow
  BY <1>1 DEF Order!flow, Nesting!flow
<1>2. ASSUME NEW i \in Wfs, NEW n \in Nodes, Order!Start(i, n)
      PROVE  Nesting!Next
  <2>1. Nesting!Start(i, n)
    BY <1>2 DEF Order!Start, Nesting!Start, Order!InputsComplete, Nesting!InputsComplete
  <2> QED
    BY <2>1 DEF Nesting!Next
<1>3. ASSUME NEW i \in Wfs, NEW n \in Nodes, NEW c \in Wfs, Order!LaunchNested(i, n, c)
      PROVE  Nesting!Next
  <2>1. Nesting!LaunchNested(i, n, c)
    BY <1>3 DEF Order!LaunchNested, Nesting!LaunchNested
  <2> QED
    BY <2>1 DEF Nesting!Next
<1>4. ASSUME NEW i \in Wfs, NEW n \in Nodes, Order!Complete(i, n)
      PROVE  Nesting!Next \/ UNCHANGED Nesting!flow
  <2>1. <<i, n>> \in Started /\ Completed' = Completed \union {<<i, n>>} /\ UNCHANGED <<Started, Launched>>
    BY <1>4 DEF Order!Complete
  <2>2. CASE <<i, n>> \in Completed
    BY <2>1, <2>2 DEF Nesting!flow
  <2>3. CASE <<i, n>> \notin Completed
    <3>1. n \in DOMAIN Nested => \E c \in Wfs, m \in Last : <<i, n, c>> \in Launched /\ <<c, m>> \in Completed
      BY <2>1, <2>3 DEF NestedCompletion, ChildDone
    <3>2. Nesting!Complete(i, n)
      BY <2>1, <3>1 DEF Nesting!Complete
    <3> QED
      BY <3>2 DEF Nesting!Next
  <2> QED
    BY <2>2, <2>3
<1> QED
  BY <1>1, <1>2, <1>3, <1>4 DEF Order!Next

LEMMA SameCompletion ==
  ASSUME RefinementInv, KeepsRows, UNCHANGED won
  PROVE  NestedCompletion
BY CompletedKept DEF RefinementInv, DependencyInv, NestedCompletion

\* The completion of one row, whose child is complete if it has one.
LEMMA RowCompletion ==
  ASSUME RefinementInv, KeepsRows, NEW t \in TaskIds, Exists(t), won' = won \union {t},
         tasks[t].node \in DOMAIN Nested => RowDone(t)
  PROVE  NestedCompletion
<1>1. \A u \in won : <<tasks'[u].wf, tasks'[u].node>> = <<tasks[u].wf, tasks[u].node>>
  BY WonKept DEF RefinementInv, DependencyInv
<1>2. tasks'[t].wf = tasks[t].wf /\ tasks'[t].node = tasks[t].node
  BY DEF KeepsRows
<1>3. Completed' = Completed \union {<<tasks[t].wf, tasks[t].node>>}
  BY <1>1, <1>2 DEF Completed
<1> QED
  BY <1>3 DEF NestedCompletion, RowDone

LEMMA WorkerCompletion ==
  ASSUME NestingInv, NEW w \in Workers, WorkerStep(w) \/ Fault(w)
  PROVE  NestedCompletion
<1>1. TypeInv /\ RefinementInv /\ KeepsRows /\ NestedStep(w)
  BY WorkerTypeInv DEF NestingInv, RefinementInv
<1>2. CASE UNCHANGED won
  BY <1>1, <1>2, SameCompletion
<1>3. CASE OnSuccess(w) /\ ~UNCHANGED won
  <2>1. job[w].pc \in StepPcs /\ won' = won \union {job[w].step} /\ tasks[job[w].step].status # "nested-progress"
    BY <1>3 DEF OnSuccess, HandleTaskSuccess, StepPcs, Pcs
  <2>2. tasks[job[w].step].node = job[w].node
    BY <1>1, <2>1 DEF RefinementInv, StepRows
  <2>3. job[w].node \in DOMAIN Nested => job[w].pc = "returned"
    BY <1>3 DEF OnSuccess
  <2>4. tasks[job[w].step].node \in DOMAIN Nested => RowDone(job[w].step)
    BY <1>1, <2>1, <2>2, <2>3 DEF NestedStep
  <2> QED
    BY <1>1, <2>1, <2>4, StepFacts, RowCompletion
<1>4. CASE CompleteParentTask(w)
  <2>1. job[w].pc \in StepPcs /\ won' = won \union {job[w].row} /\ RowDone(job[w].row)
    BY <1>1, <1>4 DEF CompleteParentTask, HandleTaskSuccess, StepPcs, Pcs, NestedStep
  <2> QED
    BY <1>1, <2>1, StepFacts, RowCompletion
<1> QED
  BY <1>2, <1>3, <1>4, StepIsAction
     DEF WorkerAction, ExecuteWorkflowV2, Dispatches, DispatchStartNodes, FetchWorkflow, Parks, Park, CheckInputs, CreateTask,
         BeforeStart, Log, Delegate, SaveNestedProgress, UserCodeRaises, Advances, Advance,
         WrongConditionResult, Fails, OnFailure, Crash, HardTimeLimit, Ends

LEMMA InitNestingInv ==
  ASSUME Init, Budget.cancel = 0
  PROVE  NestingInv
<1>1. RefinementInv
  BY InitRefinementInv
<1>3. StepsApart
  BY DEF Init, Idle, StepPcs, StepsApart
<1>4. NoCancel /\ LaunchedBy
  BY DEF Init, NoRequest, NoCancel, LaunchedBy, NoWorkflow
<1>5. \A w \in Workers : NestedStep(w)
  BY DEF Init, Idle, NestedStep
<1>6. HomeInv
  <2>1. \A i \in Wfs : wf[i].current = None /\ (i = Root => wf[i].status # "none")
    BY DEF Init, NoWorkflow
  <2>2. \A i \in Wfs, m \in Slots : Queued(i, m) => i = Root /\ m = Launch
    BY DEF Init, Queued
  <2>3. Launch \in Slots /\ Launch \notin Nodes /\ Nodes \subseteq Slots
    BY RowAssumption DEF Slots
  <2>4. /\ \A t \in TaskIds : ~Exists(t)
        /\ \A w \in Workers : job[w].pc = "idle"
        /\ \A c \in Clients : api[c].op = "none"
    BY DEF Init, NoTask, Idle, NoRequest, Exists
  <2> QED
    BY <2>1, <2>2, <2>3, <2>4 DEF HomeInv
<1> QED
  BY <1>1, <1>3, <1>4, <1>5, <1>6 DEF NestingInv

LEMMA NestingInvWorker ==
  ASSUME NestingInv, RefinementInv', Inside, Plain, FailureKinds = {}, NEW w \in Workers, WorkerStep(w) \/ Fault(w)
  PROVE  NestingInv'
<1>1. TypeInv /\ RefinementInv /\ HomeInv /\ LaunchedBy /\ StepsApart
  BY DEF NestingInv, RefinementInv
<1>2. Grows
  BY <1>1, WorkerTypeInv, WorkerHomes, WonGrows DEF Grows
<1>3. NoCancel'
  BY StepIsAction DEF NestingInv, NoCancel, WorkerAction, ExecuteWorkflowV2, Dispatches, DispatchStartNodes, FetchWorkflow, Parks, Park, CheckInputs,
         CreateTask, BeforeStart, Log, Delegate, SaveNestedProgress, UserCodeRaises, OnSuccess, Advances, Advance,
         WrongConditionResult, CompleteParentTask, Fails, OnFailure, Crash, HardTimeLimit, RefinementInv, TypeInv, TypeOK, Ends
<1>4. HomeInv'
  BY <1>1, WorkerHomeInv
<1>5. LaunchedBy'
  BY <1>1, <1>2, WorkerParents, LaunchedByKept, LaunchedByDelegate DEF Grows
<1>6. StepsApart'
  BY <1>1, WorkerStepsApart
<1>7. ASSUME NEW v \in Workers PROVE NestedStep(v)'
  <2>1. CASE v = w
    BY <1>2, <2>1, OwnNested
  <2>2. CASE v # w
    BY <1>1, <1>2, <2>2, OtherWorkers, SavedByOthers, NestedStepKept
  <2> QED BY <2>1, <2>2
<1> QED
  BY <1>3, <1>4, <1>5, <1>6, <1>7 DEF NestingInv

LEMMA NestingInvApi ==
  ASSUME NestingInv, RefinementInv', NEW c \in Clients, ApiStep(c)
  PROVE  NestingInv' /\ NestedCompletion
<1>1. TypeInv /\ RefinementInv /\ HomeInv /\ LaunchedBy /\ StepsApart /\ NoCancel
  BY DEF NestingInv, RefinementInv
<1>2. UNCHANGED <<job, won, tasks>>
  BY <1>1 DEF ApiStep, PauseRead, PauseSave, ResumeRead, ResumeCheck, ResumeSave, CancelRead, CancelTask, CancelSave, NoCancel
<1>3. Grows /\ KeepsRows /\ KeepsHomes
  BY <1>1, <1>2, ApiTypeInv, ApiHomes DEF Grows
<1>4. NoCancel'
  <2>1. api \in [Clients -> ApiRequest] /\ budget \in [pause : Nat, resume : Nat, cancel : Nat, crash : Nat, kill : Nat]
    BY <1>1 DEF TypeInv, TypeOK
  <2>2. \E r : api' = [api EXCEPT ![c] = r] /\ r.op # "cancel"
    <3>1. \/ \E i \in Wfs : Request(c, "pause", i, {}) \/ Request(c, "check", i, {})
          \/ api' = [api EXCEPT ![c] = NoRequest]
          \/ api' = [api EXCEPT ![c] = [api[c] EXCEPT !.op = "resume"]]
      BY <1>1 DEF NoCancel, ApiStep, PauseRead, PauseSave, ResumeRead, ResumeCheck, ResumeSave, CancelRead, CancelTask,
                  CancelSave, SaveRequest
    <3>2. NoRequest.op # "cancel" /\ [api[c] EXCEPT !.op = "resume"].op = "resume"
      BY <2>1 DEF NoRequest, ApiRequest
    <3> QED
      BY <3>1, <3>2 DEF Request
  <2>3. \A d \in Clients : api'[d].op # "cancel"
    BY <1>1, <2>1, <2>2 DEF NoCancel
  <2>4. budget'.cancel = 0
    BY <1>1, <2>1 DEF NoCancel, ApiStep, PauseRead, PauseSave, ResumeRead, ResumeCheck, ResumeSave, CancelRead, CancelTask,
                      CancelSave
  <2> QED
    BY <2>3, <2>4 DEF NoCancel
<1>5. HomeInv'
  BY <1>1, ApiHomeInv
<1>6. LaunchedBy'
  BY <1>1, <1>3, ApiParents, LaunchedByKept
<1>7. StepsApart'
  BY <1>1, <1>2 DEF StepsApart
<1>8. \A v \in Workers : NestedStep(v)'
  BY <1>2, <1>3, NestedStepKept
<1>9. NestedCompletion
  BY <1>1, <1>2, <1>3, SameCompletion
<1> QED
  BY <1>4, <1>5, <1>6, <1>7, <1>8, <1>9 DEF NestingInv

LEMMA NestingInvStuttering ==
  ASSUME NestingInv, RefinementInv', UNCHANGED vars
  PROVE  NestingInv' /\ NestedCompletion
<1>1. RefinementInv /\ Grows /\ KeepsRows /\ UNCHANGED <<wf, tasks, won, queue, job, api, budget>>
  BY DEF NestingInv, vars, Grows, KeepsRows, KeepsHomes, Exists
<1>2. HomeInv' /\ LaunchedBy' /\ StepsApart' /\ NoCancel'
  BY <1>1 DEF NestingInv, HomeInv, Home, Exists, Queued, LaunchedBy, Rows, StepsApart, NoCancel
<1>3. \A v \in Workers : NestedStep(v)'
  BY <1>1, NestedStepKept
<1>4. NestedCompletion
  BY <1>1, SameCompletion
<1> QED
  BY <1>2, <1>3, <1>4 DEF NestingInv

\* Without cancels and failing user code the engine implements the nesting, for every
\* graph whose nested templates have no condition, every set of workers, and any number
\* of pauses, crashes and kills: a node that delegates completes after a last node of a
\* workflow that it launched. NestedStep follows a worker from its step up through the
\* parents, and down again when a parent's task is not found, so that neither
\* on_success nor on_failure touches a delegating row whose child is not done.
THEOREM NestingRefined ==
  ASSUME Budget.cancel = 0, FailureKinds = {}, Inside, Plain
  PROVE  Spec => KeepsNesting
<1>1. Init => NestingInv /\ Nesting!Init
  <2> SUFFICES ASSUME Init PROVE NestingInv /\ Nesting!Init
    OBVIOUS
  <2>1. NestingInv
    BY InitNestingInv
  <2>2. Order!Init
    BY InitFlow
  <2> QED
    BY <2>1, <2>2 DEF Order!Init, Nesting!Init
<1>2. NestingInv /\ [Next]_vars => NestingInv' /\ [Nesting!Next]_(Nesting!flow)
  <2> SUFFICES ASSUME NestingInv, [Next]_vars
               PROVE  NestingInv' /\ [Nesting!Next]_(Nesting!flow)
    OBVIOUS
  <2>1. RefinementInv' /\ [Order!Next]_(Order!flow)
    BY RefinementInvKept DEF NestingInv
  <2>2. NestingInv' /\ NestedCompletion
    BY <2>1, NestingInvWorker, WorkerCompletion, NestingInvApi, NestingInvStuttering DEF Next
  <2> QED
    BY <2>1, <2>2, OrderIsNesting
<1> QED
  BY <1>1, <1>2, PTL DEF Spec, KeepsNesting, Nesting!Spec
=============================================================================
