----------------------- MODULE WorkflowEngineTrees -----------------------
(* Theorems about WorkflowEngine for the graphs on which it does not       *)
(* repeat itself: those in which only single-input nodes that do not       *)
(* delegate feed others. For all such graphs, tables and workers: a node   *)
(* is executed once, none is forgotten, and a condition takes one branch.  *)
(* And for serial templates, which may delegate everywhere and to any      *)
(* depth, executed by one process: a task has the outcome of its child.    *)
EXTENDS WorkflowEngineRefinement

\* The nodes with at most one incoming connection.
Single == {n \in Nodes : \A j, k \in In(n) : j = k}

\* What feeds another node has one input and finishes by itself.
Wired == \A k \in DOMAIN Connections : Connections[k].source \in Single \ DOMAIN Nested

\* Where the message of node n of workflow i may be: in the queue, with a worker that
\* has not created the row, parked in the workflow's row or in a request that resumes it.
Holding(w, i, n) == job[w].pc \in {"park", "check", "create"} /\ job[w].wf = i /\ job[w].node = n
Parked(i, n) ==
  \/ wf[i].status = "wait" /\ wf[i].current = n
  \/ \E c \in Clients : api[c].op \in {"check", "resume"} /\ api[c].wf = i /\ api[c].current = n

HasRow(i, n) == \E t \in TaskIds : Exists(t) /\ tasks[t].wf = i /\ tasks[t].node = n

\* The row that worker w has yet to complete or to send on, and whose it is.
OwnRow(w) == IF job[w].pc = "advance" THEN job[w].row ELSE job[w].step
Working(w, i, n) ==
  /\ job[w].pc \in {"before_start", "run", "delegated", "returned", "advance"}
  /\ tasks[OwnRow(w)].wf = i /\ tasks[OwnRow(w)].node = n

Opening(w, i) == job[w].pc = "dispatch" /\ job[w].wf = i
Launching(i) == queue[i][Launch] > 0 \/ \E w \in Workers : Opening(w, i)

Reached(i, n) == Queued(i, n) \/ (\E w \in Workers : Holding(w, i, n)) \/ Parked(i, n) \/ HasRow(i, n)

\* A workflow is launched once, before anything of it is sent.
LaunchInv ==
  \A i \in Wfs :
    /\ queue[i][Launch] <= 1
    /\ queue[i][Launch] > 0 => \A w \in Workers : ~Opening(w, i)
    /\ \A v, w \in Workers : Opening(v, i) /\ Opening(w, i) => v = w
    /\ Launching(i) \/ wf[i].status = "none" => \A n \in Nodes : ~Reached(i, n)
    /\ wf[i].status = "none" => ~Launching(i)

\* The message of a single-input node is in one place, and gone when the row is there.
OnePlace(i, n) ==
  /\ queue[i][n] <= 1
  /\ Queued(i, n) => (\A w \in Workers : ~Holding(w, i, n)) /\ ~Parked(i, n) /\ ~HasRow(i, n)
  /\ \A v, w \in Workers : Holding(v, i, n) /\ Holding(w, i, n) => v = w
  /\ (\E w \in Workers : Holding(w, i, n)) => ~Parked(i, n) /\ ~HasRow(i, n)
  /\ Parked(i, n) => ~HasRow(i, n)
  /\ \A t, u \in TaskIds :
       /\ Exists(t) /\ tasks[t].wf = i /\ tasks[t].node = n
       /\ Exists(u) /\ tasks[u].wf = i /\ tasks[u].node = n
       => t = u

\* It was sent by the worker that completed the input, which does not send it again.
SentOnce(i, n) ==
  Reached(i, n) => \A k \in In(n) :
    LET s == Connections[k].source IN HasRow(i, s) /\ \A w \in Workers : ~Working(w, i, s)

OneWorker(i, n) == \A v, w \in Workers : Working(v, i, n) /\ Working(w, i, n) => v = w

OnceInv ==
  \A i \in Wfs, n \in Single :
    /\ OnePlace(i, n)
    /\ SentOnce(i, n)
    /\ n \notin DOMAIN Nested => OneWorker(i, n)

\* Only a node that delegates is completed by another workflow.
ParentInv ==
  /\ \A c \in Wfs : wf[c].parent # None => wf[c].node \in DOMAIN Nested
  /\ \A w \in Workers : job[w].pc = "parent" => tasks[job[w].row].node \in DOMAIN Nested

\* Until the pause nothing is parked, and the pause finds no current node to save.
PauseInv ==
  /\ budget.crash = 0 /\ budget.pause <= 1
  /\ budget.pause = 1 =>
       /\ \A i \in Wfs : wf[i].status # "wait" /\ (wf[i].status = "progress" => wf[i].current = None)
       /\ \A w \in Workers : job[w].pc # "park"
       /\ \A c \in Clients : api[c].op \in {"none", "cancel"}
  /\ \A c \in Clients :
       /\ api[c].op = "pause" => budget.pause = 0 /\ api[c].current = None
       /\ api[c].op # "none" => wf[api[c].wf].status # "none"
  /\ \A i \in Wfs : Launching(i) =>
       /\ wf[i].current = None
       /\ \A c \in Clients : api[c].op # "none" /\ api[c].wf = i => api[c].current = None

\* Without pauses.
NoPauseInv ==
  /\ budget.pause = 0
  /\ \A i \in Wfs : wf[i].status # "wait"
  /\ \A w \in Workers : job[w].pc # "park"
  /\ \A c \in Clients : api[c].op \in {"none", "cancel"}

\* No other request to resume the same workflow is in progress when client c resumes it, and
\* it was never otherwise.
Alone(c) == \A d \in Clients \ {c} : ~(api[d].op \in {"check", "resume"} /\ api[d].wf = api[c].wf)
ResumesAlone == \A c \in Clients : ResumeSave(c) => Alone(c)
NeverDoubled == \A i \in Wfs : doubled[i] = 0

Advancing(i, n) == \E w \in Workers : job[w].pc = "advance" /\ Working(w, i, n)

\* All the inputs of node n have finished; for a node without conditions among them,
\* that it is to run; and what has been done about it.
Ready(i, n) == \A k \in In(n) : Complete(i, Connections[k].source)
Due(i, n) ==
  /\ TemplateOf[n] = wf[i].template
  /\ Ready(i, n) /\ \A k \in In(n) : Connections[k].source \notin Condition
Covered(i, n) ==
  \/ Reached(i, n)
  \/ In(n) = {} /\ Launching(i)
  \/ \E k \in In(n) : Advancing(i, Connections[k].source)

\* A node whose inputs are complete was sent, or is about to be.
NoLostInv == \A i \in Wfs, n \in Nodes : Due(i, n) => Covered(i, n)

Failing(i, n) ==
  \E w \in Workers : job[w].pc = "error" /\ tasks[job[w].row].wf = i /\ tasks[job[w].row].node = n

Branches(n) == UNION NextConnections(n)

\* The targets of a condition have no other input.
Branching ==
  \A k \in DOMAIN Connections : Connections[k].source \in Condition => Connections[k].target \in Single

\* At most one branch of a condition was sent.
OneBranch(i, n) ==
  \A j, k \in Branches(n) :
    Reached(i, Connections[j].target) /\ Reached(i, Connections[k].target) => j = k

\* A complete condition has sent one, is about to, or is about to be marked as failed.
SomeBranch(i, n) ==
  Complete(i, n) /\ {} \notin NextConnections(n) =>
    Advancing(i, n) \/ Failing(i, n) \/ \E k \in Branches(n) : Reached(i, Connections[k].target)

BranchInv == \A i \in Wfs, n \in Condition : OneBranch(i, n) /\ SomeBranch(i, n)

\* A worker advances from its own step, or from the node that delegated.
AdvanceRow ==
  \A w \in Workers : job[w].pc = "advance" =>
    job[w].row = job[w].step \/ tasks[job[w].row].node \in DOMAIN Nested

-----------------------------------------------------------------------------
(* Steps that send nothing.                                                *)

\* Without crashes no message comes back.
LEMMA NoLoss ==
  ASSUME budget.crash = 0, NEW w
  PROVE  ~LostBeforeAck(w) /\ ~Crash(w)
BY DEF LostBeforeAck, DispatchStartNodes, Park, Advance, OnFailure, Ends, Crash

\* The steps of a worker that neither take nor send a message.
CalmAction(w) ==
  \/ CheckInputs(w) \/ BeforeStart(w) \/ Log(w) \/ SaveNestedProgress(w)
  \/ \E kind \in FailureKinds : UserCodeRaises(w, kind)
  \/ OnSuccess(w) \/ (Advance(w, FALSE) /\ UNCHANGED queue) \/ WrongConditionResult(w)
  \/ CompleteParentTask(w) \/ OnFailure(w, FALSE) \/ HardTimeLimit(w)

LEMMA CalmActionRows ==
  ASSUME TypeInv, NEW w \in Workers, CalmAction(w)
  PROVE  NoNewRows
BY QuietActionRows DEF CalmAction, QuietAction, Advances, Fails

Waits == {"park", "check", "create"}
Works == {"before_start", "run", "delegated", "returned", "advance"}

\* Worker v takes no message, and no row that it was not at work on, except one that a
\* nested workflow completed.
JobQuiet(v) ==
  /\ \A i \in Wfs, n \in Nodes : Holding(v, i, n)' => Holding(v, i, n)
  /\ \A i \in Wfs : Opening(v, i)' => Opening(v, i)
  /\ \A i \in Wfs, n \in Nodes : Working(v, i, n)' => Working(v, i, n) \/ n \in DOMAIN Nested

\* A worker at work on a node has its row.
LEMMA WorkingRow ==
  ASSUME TypeInv, NEW v \in Workers, NEW i, NEW n, Working(v, i, n)
  PROVE  HasRow(i, n) /\ OwnRow(v) \in TaskIds /\ Exists(OwnRow(v))
BY DEF Working, OwnRow, HasRow, TypeInv, JobsFilled, JobFilled, StepPcs, Pcs, Exists

LEMMA SameWorking ==
  ASSUME TypeInv, KeepsRows, NEW v \in Workers, job'[v] = job[v]
  PROVE  \A i, n : Working(v, i, n)' <=> Working(v, i, n)
<1>1. job[v].pc \in Works => /\ OwnRow(v)' = OwnRow(v)
                              /\ tasks'[OwnRow(v)].wf = tasks[OwnRow(v)].wf
                              /\ tasks'[OwnRow(v)].node = tasks[OwnRow(v)].node
  BY DEF Works, OwnRow, TypeInv, JobsFilled, JobFilled, StepPcs, Pcs, KeepsRows, Exists
<1> QED
  BY <1>1 DEF Working, Works

LEMMA SameJobQuiet ==
  ASSUME TypeInv, KeepsRows, NEW v \in Workers, job'[v] = job[v]
  PROVE  JobQuiet(v)
BY SameWorking DEF JobQuiet, Holding, Opening

LEMMA LeavingJobQuiet ==
  ASSUME NEW v \in Workers, job'[v].pc \notin Waits \union Works \union {"dispatch"}
  PROVE  JobQuiet(v)
BY DEF JobQuiet, Holding, Opening, Working, Waits, Works

\* A worker goes on with its own row.
LEMMA StepJobQuiet ==
  ASSUME TypeInv, KeepsRows, NEW v \in Workers, job[v].pc \in Works \ {"advance"}, job'[v].pc \in Works,
         job'[v].step = job[v].step, job'[v].pc = "advance" => job'[v].row = job[v].step
  PROVE  JobQuiet(v)
<1>1. OwnRow(v) = job[v].step /\ OwnRow(v)' = job[v].step
  BY DEF OwnRow, Works
<1>2. tasks'[job[v].step].wf = tasks[job[v].step].wf /\ tasks'[job[v].step].node = tasks[job[v].step].node
  BY DEF Works, TypeInv, JobsFilled, JobFilled, StepPcs, Pcs, KeepsRows, Exists
<1> QED
  BY <1>1, <1>2 DEF JobQuiet, Holding, Opening, Working, Works

\* No row is moved or created, in terms of the nodes they belong to.
LEMMA RowsQuiet ==
  ASSUME KeepsRows, NoNewRows
  PROVE  /\ \A t \in TaskIds : Exists(t)' <=> Exists(t)
         /\ \A t \in TaskIds : Exists(t) => tasks'[t].wf = tasks[t].wf /\ tasks'[t].node = tasks[t].node
         /\ \A i, n : HasRow(i, n)' <=> HasRow(i, n)
<1>1. \A t \in TaskIds : Exists(t)' <=> Exists(t)
  BY DEF KeepsRows, NoNewRows
<1>2. \A t \in TaskIds : Exists(t) => tasks'[t].wf = tasks[t].wf /\ tasks'[t].node = tasks[t].node
  BY DEF KeepsRows
<1> QED
  BY <1>1, <1>2 DEF HasRow

LEMMA RowsStay ==
  ASSUME KeepsRows, NEW i, NEW n, HasRow(i, n)
  PROVE  HasRow(i, n)'
BY DEF KeepsRows, HasRow

\* A step that launches nothing and reaches nothing new.
NothingLaunched ==
  /\ \A i \in Wfs : queue'[i][Launch] <= queue[i][Launch]
  /\ \A v \in Workers, i \in Wfs : Opening(v, i)' => Opening(v, i)
  /\ \A i \in Wfs : wf'[i].status = "none" => wf[i].status = "none"

LEMMA LaunchKept ==
  ASSUME TypeInv, TypeInv', LaunchInv, NothingLaunched,
         \A i \in Wfs, n \in Nodes : Reached(i, n)' => Reached(i, n)
  PROVE  LaunchInv'
<1>0. \A i \in Wfs : queue[i][Launch] \in Nat /\ queue'[i][Launch] \in Nat
  BY DEF TypeInv, TypeOK, Slots
<1>1. \A i \in Wfs : Launching(i)' => Launching(i)
  BY <1>0 DEF Launching, NothingLaunched
<1> SUFFICES ASSUME NEW i \in Wfs
             PROVE  /\ queue'[i][Launch] <= 1
                    /\ queue'[i][Launch] > 0 => \A w \in Workers : ~Opening(w, i)'
                    /\ \A v, w \in Workers : Opening(v, i)' /\ Opening(w, i)' => v = w
                    /\ Launching(i)' \/ wf'[i].status = "none" => \A n \in Nodes : ~Reached(i, n)'
                    /\ wf'[i].status = "none" => ~Launching(i)'
  BY DEF LaunchInv
<1>2. queue'[i][Launch] <= 1 /\ (queue'[i][Launch] > 0 => \A w \in Workers : ~Opening(w, i)')
  BY <1>0 DEF LaunchInv, NothingLaunched
<1>3. \A v, w \in Workers : Opening(v, i)' /\ Opening(w, i)' => v = w
  BY DEF LaunchInv, NothingLaunched
<1>4. Launching(i)' \/ wf'[i].status = "none" => \A n \in Nodes : ~Reached(i, n)'
  BY <1>1 DEF LaunchInv, NothingLaunched
<1>5. wf'[i].status = "none" => ~Launching(i)'
  BY <1>1 DEF LaunchInv, NothingLaunched
<1> QED
  BY <1>2, <1>3, <1>4, <1>5

\* A step by which a node is reached anew only from an input that sends nothing more,
\* and no worker turns to the row of a node that was sent on.
LEMMA OnceKept ==
  ASSUME Wired, OnceInv, KeepsRows,
         \A i \in Wfs, n \in Single : Reached(i, n)' => Reached(i, n) \/ SentOnce(i, n)',
         \A i \in Wfs, n \in Single : OnePlace(i, n)',
         \A v \in Workers, i \in Wfs, n \in Single :
           Working(v, i, n)' => Working(v, i, n) \/ n \in DOMAIN Nested \/ ~HasRow(i, n),
         \A i \in Wfs, n \in Single : n \notin DOMAIN Nested => OneWorker(i, n)'
  PROVE  OnceInv'
<1> SUFFICES ASSUME NEW i \in Wfs, NEW n \in Single PROVE SentOnce(i, n)'
  BY DEF OnceInv
<1> SUFFICES ASSUME Reached(i, n)', Reached(i, n), NEW k \in In(n)
             PROVE  HasRow(i, Connections[k].source)' /\ \A w \in Workers : ~Working(w, i, Connections[k].source)'
  BY DEF SentOnce, In
<1>1. n \in Nodes /\ k \in DOMAIN Connections
  BY DEF Single, In
<1> DEFINE s == Connections[k].source
<1>2. s \in Single /\ s \notin DOMAIN Nested
  BY <1>1 DEF Wired
<1>3. HasRow(i, s) /\ \A w \in Workers : ~Working(w, i, s)
  BY <1>1 DEF OnceInv, SentOnce
<1> HIDE DEF s
<1>4. HasRow(i, s)'
  BY <1>3, RowsStay
<1> QED
  BY <1>2, <1>3, <1>4 DEF s

LEMMA QuietStep ==
  ASSUME Wired, TypeInv, TypeInv', LaunchInv, OnceInv, KeepsRows, NoNewRows,
         \A i \in Wfs, m \in Slots : queue'[i][m] <= queue[i][m],
         \A v \in Workers : JobQuiet(v),
         \A i \in Wfs, n \in Nodes : Parked(i, n)' => Parked(i, n),
         \A i \in Wfs : wf'[i].status = "none" => wf[i].status = "none"
  PROVE  LaunchInv' /\ OnceInv'
<1>0. \A i \in Wfs, m \in Slots : queue[i][m] \in Nat /\ queue'[i][m] \in Nat
  BY DEF TypeInv, TypeOK
<1>1. \A i \in Wfs, n \in Nodes : Queued(i, n)' => Queued(i, n)
  BY <1>0 DEF Queued, Slots
<1>2. \A i, n : HasRow(i, n)' <=> HasRow(i, n)
  BY RowsQuiet
<1>3. \A i \in Wfs, n \in Nodes : Reached(i, n)' => Reached(i, n)
  BY <1>1, <1>2 DEF Reached, JobQuiet
<1>4. NothingLaunched
  BY DEF NothingLaunched, JobQuiet, Slots
<1>5. ASSUME NEW i \in Wfs, NEW n \in Single PROVE OnePlace(i, n)'
  <2>1. n \in Nodes /\ OnePlace(i, n)
    BY DEF OnceInv, Single
  <2>2. queue'[i][n] <= 1
    BY <1>0, <2>1 DEF OnePlace, Slots
  <2>3. \A t, u \in TaskIds :
       /\ Exists(t)' /\ tasks'[t].wf = i /\ tasks'[t].node = n
       /\ Exists(u)' /\ tasks'[u].wf = i /\ tasks'[u].node = n
       => t = u
    BY <2>1, RowsQuiet DEF OnePlace
  <2>4. /\ Queued(i, n)' => (\A w \in Workers : ~Holding(w, i, n)') /\ ~Parked(i, n)' /\ ~HasRow(i, n)'
        /\ \A v, w \in Workers : Holding(v, i, n)' /\ Holding(w, i, n)' => v = w
        /\ (\E w \in Workers : Holding(w, i, n)') => ~Parked(i, n)' /\ ~HasRow(i, n)'
        /\ Parked(i, n)' => ~HasRow(i, n)'
    BY <1>1, <1>2, <2>1 DEF OnePlace, JobQuiet
  <2> QED
    BY <2>2, <2>3, <2>4 DEF OnePlace
<1>6. ASSUME NEW i \in Wfs, NEW n \in Single, n \notin DOMAIN Nested PROVE OneWorker(i, n)'
  BY <1>6 DEF OnceInv, OneWorker, JobQuiet, Single
<1>7. \A v \in Workers, i \in Wfs, n \in Single :
        Working(v, i, n)' => Working(v, i, n) \/ n \in DOMAIN Nested \/ ~HasRow(i, n)
  BY DEF JobQuiet, Single
<1>8. \A i \in Wfs, n \in Single : Reached(i, n)' => Reached(i, n)
  BY <1>3 DEF Single
<1> QED
  BY <1>3, <1>4, <1>5, <1>6, <1>7, <1>8, LaunchKept, OnceKept

TreeInv == TypeInv /\ ParentInv /\ LaunchInv /\ OnceInv /\ PauseInv

\* Saving a status other than "wait" parks nothing.
LEMMA SavedQuiet ==
  ASSUME TypeInv, UNCHANGED api, NEW i, NEW st \in WfStatus, st # "wait", NEW cur,
         \/ wf' = [wf EXCEPT ![i].status = st]
         \/ wf' = [wf EXCEPT ![i].status = st, ![i].current = cur]
  PROVE  /\ \A j \in Wfs, n \in Nodes : Parked(j, n)' => Parked(j, n)
         /\ \A j \in Wfs : wf'[j].status = "none" => wf[j].status = "none"
<1>1. wf \in [Wfs -> WfRow] /\ st # "none"
  BY DEF TypeInv, TypeOK, WfStatus
<1>2. \A j \in Wfs : j # i => wf'[j] = wf[j]
  BY <1>1
<1>3. i \in Wfs => wf'[i].status = st
  BY <1>1 DEF WfRow
<1> QED
  BY <1>1, <1>2, <1>3 DEF Parked

LEMMA QuietActionWf ==
  ASSUME TypeInv, NEW w \in Workers, CalmAction(w)
  PROVE  /\ \A j \in Wfs, n \in Nodes : Parked(j, n)' => Parked(j, n)
         /\ \A j \in Wfs : wf'[j].status = "none" => wf[j].status = "none"
         /\ KeepsParents
<1>1. CASE UNCHANGED <<wf, api>>
  BY <1>1, SameParents DEF Parked
<1>2. CASE Advance(w, FALSE)
  <2>1. CASE UNCHANGED wf
    BY <1>1, <1>2, <2>1 DEF Advance, Ends
  <2>2. CASE ~UNCHANGED wf
    <3>1. /\ UNCHANGED api
          /\ \E i, n : wf' = [wf EXCEPT ![i].status = "success", ![i].current = n]
      BY <1>2, <2>2 DEF Advance, Ends
    <3> QED
      BY <3>1, SavedQuiet, SavedParents DEF WfStatus
  <2> QED
    BY <2>1, <2>2
<1>3. CASE OnFailure(w, FALSE)
  <2>1. /\ UNCHANGED api
        /\ \E st \in {"error", "timeout"} : \E i : wf' = [wf EXCEPT ![i].status = st]
    BY <1>3 DEF OnFailure, Ends
  <2> QED
    BY <2>1, SavedQuiet, SavedParents DEF WfStatus
<1> QED
  BY <1>1, <1>2, <1>3
     DEF CalmAction, CheckInputs, BeforeStart, Log, SaveNestedProgress, UserCodeRaises, OnSuccess,
         WrongConditionResult, CompleteParentTask, HardTimeLimit

LEMMA QuietActionJob ==
  ASSUME TypeInv, ParentInv, KeepsRows, NEW w \in Workers, CalmAction(w)
  PROVE  \A v \in Workers : JobQuiet(v)
<1>j. job \in [Workers -> Job]
  BY DEF TypeInv, TypeOK
<1>0. \A v \in Workers \ {w} : job'[v] = job[v]
  BY <1>j DEF CalmAction, CheckInputs, BeforeStart, Log, SaveNestedProgress, UserCodeRaises, OnSuccess,
              Advance, WrongConditionResult, CompleteParentTask, OnFailure, HardTimeLimit,
              HandleTaskSuccess, Goto, Ack, Ends
<1> SUFFICES JobQuiet(w)
  BY <1>0, SameJobQuiet
<1>1. CASE Ack(w)
  <2>1. job'[w].pc = "idle"
    BY <1>j, <1>1 DEF Ack, Idle
  <2> QED
    BY <2>1, LeavingJobQuiet DEF Waits, Works
<1>2. CASE CheckInputs(w)
  <2>1. CASE ~Ack(w)
    <3>1. job[w].pc = "check" /\ job'[w].pc = "create" /\ job'[w].wf = job[w].wf /\ job'[w].node = job[w].node
      BY <1>j, <1>2, <2>1 DEF CheckInputs, Goto, Job
    <3> QED
      BY <3>1 DEF JobQuiet, Holding, Opening, Working
  <2> QED
    BY <1>1, <2>1
<1>3. CASE BeforeStart(w) \/ SaveNestedProgress(w)
  <2>1. job[w].pc \in Works \ {"advance"} /\ job'[w].pc \in {"run", "returned"} /\ job'[w].step = job[w].step
    BY <1>j, <1>3 DEF BeforeStart, SaveNestedProgress, Goto, Job, Works
  <2> QED
    BY <2>1, StepJobQuiet DEF Works
<1>4. CASE Log(w)
  BY <1>4, SameJobQuiet DEF Log
<1>5. ASSUME NEW kind \in FailureKinds, UserCodeRaises(w, kind) PROVE JobQuiet(w)
  <2>1. job'[w].pc \in {"error", "timeout"}
    BY <1>j, <1>5, RowAssumption DEF UserCodeRaises, Goto, Job
  <2> QED
    BY <2>1, LeavingJobQuiet DEF Waits, Works
<1>6. CASE OnSuccess(w)
  <2>1. CASE ~Ack(w)
    <3>1. /\ job[w].pc \in Works \ {"advance"} /\ job'[w].pc = "advance" /\ job'[w].step = job[w].step
          /\ job'[w].row = job[w].step
      BY <1>j, <1>6, <2>1 DEF OnSuccess, HandleTaskSuccess, Job, Works
    <3> QED
      BY <3>1, StepJobQuiet DEF Works
  <2> QED
    BY <1>1, <2>1
<1>7. CASE Advance(w, FALSE)
  <2>1. CASE ~Ack(w)
    <3>1. job'[w].pc \in {"parent", "error"}
      BY <1>j, <1>7, <2>1 DEF Advance, Job, Ends
    <3> QED
      BY <3>1, LeavingJobQuiet DEF Waits, Works
  <2> QED
    BY <1>1, <2>1
<1>8. CASE WrongConditionResult(w)
  <2>1. job'[w].pc = "error"
    BY <1>j, <1>8 DEF WrongConditionResult, Job
  <2> QED
    BY <2>1, LeavingJobQuiet DEF Waits, Works
<1>9. CASE CompleteParentTask(w)
  <2>1. job[w].pc = "parent" /\ job'[w].pc = "advance" /\ job'[w].row = job[w].row
    BY <1>j, <1>9 DEF CompleteParentTask, HandleTaskSuccess, Job
  <2>2. job[w].row \in TaskIds /\ Exists(job[w].row)
    BY <2>1, StepFacts DEF StepPcs, Pcs
  <2>3. tasks'[job[w].row].node \in DOMAIN Nested
    BY <2>1, <2>2 DEF ParentInv, KeepsRows
  <2>4. \A i, n : Working(w, i, n)' => n \in DOMAIN Nested
    BY <2>1, <2>3 DEF Working, OwnRow
  <2>5. \A i, n : ~Holding(w, i, n)' /\ ~Opening(w, i)'
    BY <2>1 DEF Holding, Opening
  <2> QED
    BY <2>4, <2>5 DEF JobQuiet
<1>10. CASE OnFailure(w, FALSE)
  <2>1. CASE ~Ack(w)
    <3>1. job'[w].pc \in {"error", "timeout"}
      BY <1>j, <1>10, <2>1 DEF OnFailure, Job, Ends
    <3> QED
      BY <3>1, LeavingJobQuiet DEF Waits, Works
  <2> QED
    BY <1>1, <2>1
<1> QED
  BY <1>1, <1>2, <1>3, <1>4, <1>5, <1>6, <1>7, <1>8, <1>9, <1>10 DEF CalmAction, HardTimeLimit

LEMMA QuietWorkerOnce ==
  ASSUME Wired, TreeInv, NEW w \in Workers, CalmAction(w), TypeInv', KeepsRows
  PROVE  LaunchInv' /\ OnceInv'
<1>1. \A i \in Wfs, m \in Slots : queue[i][m] \in Nat
  BY DEF TreeInv, TypeInv, TypeOK
<1>2. queue' = queue
  BY DEF CalmAction, CheckInputs, BeforeStart, Log, SaveNestedProgress, UserCodeRaises, OnSuccess,
         WrongConditionResult, CompleteParentTask, OnFailure, HardTimeLimit, Ends
<1>3. \A i \in Wfs, m \in Slots : queue'[i][m] <= queue[i][m]
  BY <1>1, <1>2
<1> QED
  BY <1>3, QuietStep, CalmActionRows, QuietActionWf, QuietActionJob DEF TreeInv

-----------------------------------------------------------------------------
(* Steps that take, park, resume or use up a message.                      *)

\* The message of node n of workflow i is in no place where it was not.
Shrinks(i, n) ==
  /\ queue'[i][n] <= queue[i][n]
  /\ \A v \in Workers : Holding(v, i, n)' => Holding(v, i, n)
  /\ Parked(i, n)' => Parked(i, n)
  /\ \A t \in TaskIds : Exists(t)' /\ tasks'[t].wf = i /\ tasks'[t].node = n =>
                          Exists(t) /\ tasks[t].wf = i /\ tasks[t].node = n

LEMMA ShrinksReached ==
  ASSUME TypeInv, TypeInv', NEW i \in Wfs, NEW n \in Nodes, Shrinks(i, n)
  PROVE  /\ Queued(i, n)' => Queued(i, n)
         /\ HasRow(i, n)' => HasRow(i, n)
         /\ Reached(i, n)' => Reached(i, n)
<1>1. queue[i][n] \in Nat /\ queue'[i][n] \in Nat
  BY DEF TypeInv, TypeOK, Slots
<1>2. Queued(i, n)' => Queued(i, n)
  BY <1>1 DEF Queued, Shrinks
<1>3. HasRow(i, n)' => HasRow(i, n)
  BY DEF HasRow, Shrinks
<1> QED
  BY <1>2, <1>3 DEF Reached, Shrinks

LEMMA ShrinksPlace ==
  ASSUME TypeInv, TypeInv', NEW i \in Wfs, NEW n \in Nodes, Shrinks(i, n), OnePlace(i, n)
  PROVE  OnePlace(i, n)'
<1>1. queue[i][n] \in Nat /\ queue'[i][n] \in Nat
  BY DEF TypeInv, TypeOK, Slots
<1>2. queue'[i][n] <= 1
  BY <1>1 DEF Shrinks, OnePlace
<1>3. \A t, u \in TaskIds :
       /\ Exists(t)' /\ tasks'[t].wf = i /\ tasks'[t].node = n
       /\ Exists(u)' /\ tasks'[u].wf = i /\ tasks'[u].node = n
       => t = u
  BY DEF Shrinks, OnePlace
<1>4. /\ Queued(i, n)' => (\A w \in Workers : ~Holding(w, i, n)') /\ ~Parked(i, n)' /\ ~HasRow(i, n)'
      /\ \A v, w \in Workers : Holding(v, i, n)' /\ Holding(w, i, n)' => v = w
      /\ (\E w \in Workers : Holding(w, i, n)') => ~Parked(i, n)' /\ ~HasRow(i, n)'
      /\ Parked(i, n)' => ~HasRow(i, n)'
  BY ShrinksReached DEF Shrinks, OnePlace
<1> QED
  BY <1>2, <1>3, <1>4 DEF OnePlace

\* The message of node n of workflow i moves from one place to another.
LEMMA MoveStep ==
  ASSUME Wired, TypeInv, TypeInv', LaunchInv, OnceInv, KeepsRows, NothingLaunched,
         NEW i \in Wfs, NEW n \in Nodes, Reached(i, n),
         \A j \in Wfs, m \in Nodes : j # i \/ m # n => Shrinks(j, m),
         n \in Single => OnePlace(i, n)',
         \A v \in Workers, j \in Wfs, m \in Nodes :
           Working(v, j, m)' => Working(v, j, m) \/ (j = i /\ m = n /\ (n \in Single => ~HasRow(i, n))),
         n \in Single /\ n \notin DOMAIN Nested => OneWorker(i, n)'
  PROVE  LaunchInv' /\ OnceInv'
<1>1. \A j \in Wfs, m \in Nodes : Reached(j, m)' => Reached(j, m)
  BY ShrinksReached
<1>2. ASSUME NEW j \in Wfs, NEW m \in Single PROVE OnePlace(j, m)'
  <2>1. m \in Nodes /\ OnePlace(j, m)
    BY DEF Single, OnceInv
  <2>2. CASE j # i \/ m # n
    BY <2>1, <2>2, ShrinksPlace
  <2> QED
    BY <2>2
<1>3. ASSUME NEW j \in Wfs, NEW m \in Single, m \notin DOMAIN Nested PROVE OneWorker(j, m)'
  <2>1. m \in Nodes /\ OneWorker(j, m)
    BY <1>3 DEF Single, OnceInv
  <2>2. CASE j # i \/ m # n
    BY <2>1, <2>2 DEF OneWorker
  <2> QED
    BY <1>3, <2>2
<1>4. \A v \in Workers, j \in Wfs, m \in Single :
        Working(v, j, m)' => Working(v, j, m) \/ m \in DOMAIN Nested \/ ~HasRow(j, m)
  BY DEF Single
<1>5. \A j \in Wfs, m \in Single : Reached(j, m)' => Reached(j, m)
  BY <1>1 DEF Single
<1> QED
  BY <1>1, <1>2, <1>3, <1>4, <1>5, LaunchKept, OnceKept

\* Rows that the step does not create.
LEMMA RowsShrink ==
  ASSUME KeepsRows, NoNewRows
  PROVE  \A j, m : \A t \in TaskIds : Exists(t)' /\ tasks'[t].wf = j /\ tasks'[t].node = m =>
                                              Exists(t) /\ tasks[t].wf = j /\ tasks[t].node = m
BY RowsQuiet

LEMMA FetchOnce ==
  ASSUME Wired, TreeInv, NEW w \in Workers, NEW i \in Wfs, NEW n \in Nodes, FetchWorkflow(w, i, n),
         TypeInv', KeepsRows
  PROVE  LaunchInv' /\ OnceInv'
<1>t. /\ TypeInv /\ LaunchInv /\ OnceInv
      /\ job \in [Workers -> Job] /\ queue \in [Wfs -> [Slots -> Nat]]
  BY DEF TreeInv, TypeInv, TypeOK
<1>s. n \in Slots /\ Launch \in Slots /\ n # Launch /\ Nodes \subseteq Slots
  BY RowAssumption DEF Slots
<1>1. /\ queue[i][n] > 0 /\ queue'[i][n] = queue[i][n] - 1
      /\ \A j \in Wfs, m \in Slots : j # i \/ m # n => queue'[j][m] = queue[j][m]
  BY <1>t, <1>s DEF FetchWorkflow, Take
<1>2. /\ job'[w].pc \in {"park", "check"} /\ job'[w].wf = i /\ job'[w].node = n
      /\ \A v \in Workers \ {w} : job'[v] = job[v]
  BY <1>t DEF FetchWorkflow, Take, Idle
<1>3. NoNewRows /\ UNCHANGED <<wf, api>>
  BY SameNoNewRows DEF FetchWorkflow
<1>4. \A v \in Workers \ {w} : JobQuiet(v)
  BY <1>2, <1>t, SameJobQuiet
<1>5. \A j \in Wfs, m \in Nodes : /\ Holding(w, j, m)' => j = i /\ m = n
                                  /\ ~Working(w, j, m)' /\ ~Opening(w, j)'
  BY <1>2 DEF Holding, Working, Opening
<1>6. \A j, m : Parked(j, m)' <=> Parked(j, m)
  BY <1>3 DEF Parked
<1>7. NothingLaunched
  BY <1>t, <1>s, <1>1, <1>3, <1>4, <1>5 DEF NothingLaunched, JobQuiet
<1>8. ASSUME NEW j \in Wfs, NEW m \in Nodes, j # i \/ m # n PROVE Shrinks(j, m)
  <2>1. queue'[j][m] <= queue[j][m]
    BY <1>t, <1>s, <1>1, <1>8
  <2>2. \A v \in Workers : Holding(v, j, m)' => Holding(v, j, m)
    BY <1>4, <1>5, <1>8 DEF JobQuiet
  <2> QED
    BY <1>3, <1>6, <2>1, <2>2, RowsShrink DEF Shrinks
<1>9. Queued(i, n) /\ Reached(i, n)
  BY <1>1 DEF Queued, Reached
<1>10. ASSUME n \in Single PROVE OnePlace(i, n)'
  <2>1. OnePlace(i, n)
    BY <1>t, <1>10 DEF OnceInv
  <2>2. queue'[i][n] = 0 /\ ~Queued(i, n)'
    BY <1>t, <1>s, <1>1, <2>1 DEF OnePlace, Queued
  <2>3. ~Parked(i, n)' /\ ~HasRow(i, n)' /\ ~HasRow(i, n)
    BY <1>3, <1>6, <1>9, <2>1, RowsQuiet DEF OnePlace
  <2>4. \A v \in Workers \ {w} : ~Holding(v, i, n)'
    BY <1>4, <1>9, <2>1 DEF OnePlace, JobQuiet
  <2> QED
    BY <2>2, <2>3, <2>4 DEF OnePlace, HasRow
<1>11. \A v \in Workers, j \in Wfs, m \in Nodes : Working(v, j, m)' => Working(v, j, m)
  <2>1. \A v \in Workers \ {w}, j \in Wfs, m \in Nodes : Working(v, j, m)' => Working(v, j, m)
    BY <1>t, <1>2, SameWorking
  <2> QED
    BY <1>5, <2>1
<1>12. n \in Single /\ n \notin DOMAIN Nested => OneWorker(i, n)'
  BY <1>t, <1>11 DEF OnceInv, OneWorker
<1> QED
  BY <1>t, <1>7, <1>8, <1>9, <1>10, <1>11, <1>12, MoveStep

LEMMA ParkOnce ==
  ASSUME Wired, TreeInv, NEW w \in Workers, Park(w, FALSE), TypeInv', KeepsRows
  PROVE  LaunchInv' /\ OnceInv'
<1>t. /\ TypeInv /\ LaunchInv /\ OnceInv
      /\ job \in [Workers -> Job] /\ queue \in [Wfs -> [Slots -> Nat]] /\ wf \in [Wfs -> WfRow]
  BY DEF TreeInv, TypeInv, TypeOK
<1>i. PICK i \in Wfs, n \in Nodes : i = job[w].wf /\ n = job[w].node
  BY <1>t DEF Park, TypeInv, JobsFilled, JobFilled, Ends
<1>s. Launch \in Slots /\ Nodes \subseteq Slots
  BY DEF Slots
<1>1. /\ wf'[i].status = "wait" /\ wf'[i].current = n
      /\ \A j \in Wfs \ {i} : wf'[j] = wf[j]
  BY <1>t, <1>i DEF Park, WfRow, Ends
<1>2. /\ job[w].pc = "park" /\ job'[w].pc = "idle"
      /\ \A v \in Workers \ {w} : job'[v] = job[v]
  BY <1>t DEF Park, Ack, Idle, Ends
<1>3. NoNewRows /\ UNCHANGED <<queue, api>>
  BY SameNoNewRows DEF Park, Ends
<1>4. \A v \in Workers \ {w} : JobQuiet(v)
  BY <1>2, <1>t, SameJobQuiet
<1>5. JobQuiet(w) /\ Holding(w, i, n)
  BY <1>i, <1>2, LeavingJobQuiet DEF Holding, Waits, Works
<1>6. \A j \in Wfs, m \in Nodes : j # i \/ m # n => (Parked(j, m)' => Parked(j, m))
  BY <1>1, <1>3 DEF Parked
<1>7. NothingLaunched
  BY <1>t, <1>s, <1>1, <1>3, <1>4, <1>5 DEF NothingLaunched, JobQuiet
<1>8. ASSUME NEW j \in Wfs, NEW m \in Nodes, j # i \/ m # n PROVE Shrinks(j, m)
  <2>1. queue'[j][m] <= queue[j][m]
    BY <1>t, <1>s, <1>3
  <2>2. \A v \in Workers : Holding(v, j, m)' => Holding(v, j, m)
    BY <1>4, <1>5 DEF JobQuiet
  <2> QED
    BY <1>3, <1>6, <1>8, <2>1, <2>2, RowsShrink DEF Shrinks
<1>9. Reached(i, n)
  BY <1>5 DEF Reached
<1>10. ASSUME n \in Single PROVE OnePlace(i, n)'
  <2>1. OnePlace(i, n)
    BY <1>t, <1>10 DEF OnceInv
  <2>2. queue'[i][n] = 0 /\ ~Queued(i, n)'
    BY <1>t, <1>s, <1>3, <1>5, <2>1 DEF OnePlace, Queued
  <2>3. ~HasRow(i, n)'
    BY <1>3, <1>5, <2>1, RowsQuiet DEF OnePlace
  <2>4. \A v \in Workers : ~Holding(v, i, n)'
    <3>1. ~Holding(w, i, n)'
      BY <1>2 DEF Holding
    <3> QED
      BY <1>4, <1>5, <2>1, <3>1 DEF OnePlace, JobQuiet
  <2> QED
    BY <2>2, <2>3, <2>4 DEF OnePlace, HasRow
<1>11. \A v \in Workers, j \in Wfs, m \in Nodes : Working(v, j, m)' => Working(v, j, m)
  <2>1. \A v \in Workers \ {w}, j \in Wfs, m \in Nodes : Working(v, j, m)' => Working(v, j, m)
    BY <1>t, <1>2, SameWorking
  <2>2. \A j, m : ~Working(w, j, m)'
    BY <1>2 DEF Working
  <2> QED
    BY <2>1, <2>2
<1>12. n \in Single /\ n \notin DOMAIN Nested => OneWorker(i, n)'
  BY <1>t, <1>11 DEF OnceInv, OneWorker
<1> QED
  BY <1>t, <1>7, <1>8, <1>9, <1>10, <1>11, <1>12, MoveStep

LEMMA CreateOnce ==
  ASSUME Wired, TreeInv, NEW w \in Workers, CreateTask(w), TypeInv', KeepsRows
  PROVE  LaunchInv' /\ OnceInv'
<1>t. /\ TypeInv /\ LaunchInv /\ OnceInv
      /\ job \in [Workers -> Job] /\ queue \in [Wfs -> [Slots -> Nat]] /\ tasks \in [TaskIds -> TaskRow]
  BY DEF TreeInv, TypeInv, TypeOK
<1>i. PICK i \in Wfs, n \in Nodes : i = job[w].wf /\ n = job[w].node
  BY <1>t DEF CreateTask, TypeInv, JobsFilled, JobFilled
<1>s. Launch \in Slots /\ Nodes \subseteq Slots
  BY DEF Slots
<1>r. PICK t \in TaskIds :
        /\ ~Exists(t)
        /\ tasks' = [tasks EXCEPT ![t] = [wf |-> i, node |-> n, status |-> "init"]]
        /\ job' = [job EXCEPT ![w].pc = "before_start", ![w].step = t, ![w].row = t]
  BY <1>i DEF CreateTask, Exists
<1>1. /\ tasks'[t].wf = i /\ tasks'[t].node = n /\ Exists(t)'
      /\ \A u \in TaskIds \ {t} : tasks'[u] = tasks[u]
  BY <1>t, <1>r DEF Exists
<1>2. /\ job[w].pc = "create" /\ job'[w].pc = "before_start" /\ job'[w].step = t
      /\ \A v \in Workers \ {w} : job'[v] = job[v]
  BY <1>t, <1>r DEF CreateTask, Job
<1>3. UNCHANGED <<queue, api, wf>>
  BY DEF CreateTask
<1>4. \A v \in Workers \ {w} : JobQuiet(v)
  BY <1>2, <1>t, SameJobQuiet
<1>5. Holding(w, i, n) /\ (\A j, m : ~Holding(w, j, m)') /\ \A j : ~Opening(w, j)'
  BY <1>i, <1>2 DEF Holding, Opening
<1>6. \A j, m : Parked(j, m)' <=> Parked(j, m)
  BY <1>3 DEF Parked
<1>7. NothingLaunched
  BY <1>t, <1>s, <1>3, <1>4, <1>5 DEF NothingLaunched, JobQuiet
<1>8. ASSUME NEW j \in Wfs, NEW m \in Nodes, j # i \/ m # n PROVE Shrinks(j, m)
  <2>1. queue'[j][m] <= queue[j][m]
    BY <1>t, <1>s, <1>3
  <2>2. \A v \in Workers : Holding(v, j, m)' => Holding(v, j, m)
    BY <1>4, <1>5 DEF JobQuiet
  <2>3. \A u \in TaskIds : Exists(u)' /\ tasks'[u].wf = j /\ tasks'[u].node = m =>
                             Exists(u) /\ tasks[u].wf = j /\ tasks[u].node = m
    BY <1>1, <1>8 DEF Exists
  <2> QED
    BY <1>6, <2>1, <2>2, <2>3 DEF Shrinks
<1>9. Reached(i, n)
  BY <1>5 DEF Reached
<1>10. ASSUME n \in Single PROVE OnePlace(i, n)' /\ ~HasRow(i, n)
  <2>1. OnePlace(i, n)
    BY <1>t, <1>10 DEF OnceInv
  <2>2. queue'[i][n] = 0 /\ ~Queued(i, n)'
    BY <1>t, <1>s, <1>3, <1>5, <2>1 DEF OnePlace, Queued
  <2>3. ~HasRow(i, n) /\ ~Parked(i, n)'
    BY <1>5, <1>6, <2>1 DEF OnePlace
  <2>4. \A v \in Workers : ~Holding(v, i, n)'
    BY <1>4, <1>5, <2>1 DEF OnePlace, JobQuiet
  <2>5. \A u \in TaskIds : Exists(u)' /\ tasks'[u].wf = i /\ tasks'[u].node = n => u = t
    BY <1>1, <2>3 DEF HasRow, Exists
  <2> QED
    BY <2>2, <2>3, <2>4, <2>5 DEF OnePlace
<1>11. \A v \in Workers \ {w}, j \in Wfs, m \in Nodes : Working(v, j, m)' <=> Working(v, j, m)
  BY <1>t, <1>2, SameWorking
<1>12. \A j, m : Working(w, j, m)' => j = i /\ m = n
  BY <1>1, <1>2 DEF Working, OwnRow
<1>13. n \in Single /\ n \notin DOMAIN Nested => OneWorker(i, n)'
  <2>1. \A v \in Workers : Working(v, i, n) => HasRow(i, n)
    BY <1>t, WorkingRow
  <2> QED
    BY <1>10, <1>11, <2>1 DEF OneWorker
<1> QED
  BY <1>t, <1>7, <1>8, <1>9, <1>10, <1>11, <1>12, <1>13, MoveStep

LEMMA ResumeOnce ==
  ASSUME Wired, TreeInv, NEW c \in Clients, ResumeSave(c), Alone(c), TypeInv', KeepsRows
  PROVE  LaunchInv' /\ OnceInv'
<1>t. /\ TypeInv /\ LaunchInv /\ OnceInv
      /\ job \in [Workers -> Job] /\ queue \in [Wfs -> [Slots -> Nat]] /\ wf \in [Wfs -> WfRow]
      /\ api \in [Clients -> ApiRequest]
  BY DEF TreeInv, TypeInv, TypeOK
<1>i. PICK i \in Wfs : i = api[c].wf
  BY <1>t DEF ResumeSave, TypeInv, RequestFilled
<1>s. Launch \in Slots /\ Nodes \subseteq Slots /\ Launch \notin Nodes /\ None \notin Nodes
  BY RowAssumption DEF Slots
<1>1. /\ wf'[i].status = "progress" /\ \A j \in Wfs \ {i} : wf'[j] = wf[j]
      /\ api'[c].op = "none" /\ \A d \in Clients \ {c} : api'[d] = api[d]
  BY <1>t, <1>i DEF ResumeSave, SaveRequest, NoRequest, WfRow
<1>2. UNCHANGED <<tasks, job>>
  BY DEF ResumeSave
<1>3. NoNewRows
  BY <1>2, SameNoNewRows
<1>4. \A v \in Workers : JobQuiet(v)
  BY <1>2, <1>t, SameJobQuiet
<1>5. \A j \in Wfs, m \in Nodes : (Parked(j, m)' => Parked(j, m)) /\ ~Parked(i, m)'
  BY <1>i, <1>1 DEF Parked, Alone
<1>6. \A j \in Wfs : wf'[j].status = "none" => wf[j].status = "none"
  BY <1>1
<1>7. CASE api[c].current = None
  <2>1. queue' = queue
    BY <1>7 DEF ResumeSave
  <2>2. \A j \in Wfs, m \in Slots : queue'[j][m] <= queue[j][m]
    BY <1>t, <2>1
  <2> QED
    BY <1>t, <1>3, <1>4, <1>5, <1>6, <2>2, QuietStep
<1>8. CASE api[c].current # None
  <2>n. PICK n \in Nodes : n = api[c].current
    BY <1>t, <1>8 DEF ApiRequest
  <2>1. /\ queue'[i][n] = queue[i][n] + 1
        /\ \A j \in Wfs, m \in Slots : j # i \/ m # n => queue'[j][m] = queue[j][m]
    BY <1>t, <1>i, <1>s, <1>8, <2>n DEF ResumeSave, Send
  <2>2. Parked(i, n) /\ Reached(i, n)
    BY <1>i, <2>n DEF ResumeSave, Parked, Reached
  <2>3. NothingLaunched
    BY <1>t, <1>s, <1>4, <1>6, <2>1 DEF NothingLaunched, JobQuiet
  <2>4. ASSUME NEW j \in Wfs, NEW m \in Nodes, j # i \/ m # n PROVE Shrinks(j, m)
    <3>1. queue'[j][m] <= queue[j][m]
      BY <1>t, <1>s, <2>1, <2>4
    <3> QED
      BY <1>3, <1>4, <1>5, <3>1, RowsShrink DEF Shrinks, JobQuiet
  <2>5. ASSUME n \in Single PROVE OnePlace(i, n)'
    <3>1. OnePlace(i, n)
      BY <1>t, <2>5 DEF OnceInv
    <3>2. queue'[i][n] <= 1
      BY <1>t, <1>s, <2>1, <2>2, <3>1 DEF OnePlace, Queued
    <3>3. ~HasRow(i, n)' /\ \A v \in Workers : ~Holding(v, i, n)'
      BY <1>3, <1>4, <2>2, <3>1, RowsQuiet DEF OnePlace, JobQuiet
    <3> QED
      BY <1>5, <3>2, <3>3 DEF OnePlace, HasRow
  <2>6. \A v \in Workers, j \in Wfs, m \in Nodes : Working(v, j, m)' => Working(v, j, m)
    BY <1>t, <1>2, SameWorking
  <2>7. n \in Single /\ n \notin DOMAIN Nested => OneWorker(i, n)'
    BY <1>t, <2>6 DEF OnceInv, OneWorker
  <2> QED
    BY <1>t, <2>2, <2>3, <2>4, <2>5, <2>6, <2>7, MoveStep
<1> QED
  BY <1>7, <1>8

\* The steps of the API other than the end of a resume.
LEMMA QuietApiOnce ==
  ASSUME Wired, TreeInv, NEW c \in Clients, ApiStep(c), ~ResumeSave(c), TypeInv', KeepsRows
  PROVE  LaunchInv' /\ OnceInv'
<1>t. /\ TypeInv /\ LaunchInv /\ OnceInv /\ PauseInv /\ api \in [Clients -> ApiRequest]
      /\ queue \in [Wfs -> [Slots -> Nat]] /\ wf \in [Wfs -> WfRow] /\ tasks \in [TaskIds -> TaskRow]
  BY DEF TreeInv, TypeInv, TypeOK
<1>1. UNCHANGED <<queue, job>>
  BY DEF ApiStep, PauseRead, PauseSave, ResumeRead, ResumeCheck, CancelRead, CancelTask, CancelSave
<1>2. NoNewRows
  <2>1. ASSUME NEW t \in TaskIds, CancelTask(c, t) PROVE NoNewRows
    <3>1. Exists(t)
      BY <1>t, <2>1 DEF CancelTask, TypeInv, RequestFilled
    <3> QED
      BY <1>t, <2>1, <3>1, SavedNoNewRows DEF CancelTask
  <2> QED
    BY <2>1, SameNoNewRows DEF ApiStep, PauseRead, PauseSave, ResumeRead, ResumeCheck, CancelRead, CancelSave
<1>3. \A v \in Workers : JobQuiet(v)
  BY <1>1, <1>t, SameJobQuiet
<1>4. \A j \in Wfs, m \in Slots : queue'[j][m] <= queue[j][m]
  BY <1>t, <1>1
<1>o. \A d \in Clients \ {c} : api'[d] = api[d]
  BY <1>t DEF ApiStep, PauseRead, PauseSave, ResumeRead, ResumeCheck, CancelRead, CancelTask, CancelSave,
              Request, SaveRequest
<1>5. /\ \A j \in Wfs, m \in Nodes : Parked(j, m)' => Parked(j, m)
      /\ \A j \in Wfs : wf'[j].status = "none" => wf[j].status = "none"
  <2>1. ASSUME NEW i \in Wfs, PauseRead(c, i) \/ CancelRead(c, i)
        PROVE  UNCHANGED wf /\ api'[c].op \notin {"check", "resume"}
    BY <1>t, <2>1 DEF PauseRead, CancelRead, Request
  <2>2. ASSUME NEW i \in Wfs, ResumeRead(c, i)
        PROVE  UNCHANGED wf /\ \A j \in Wfs, m \in Nodes : Parked(j, m)' => Parked(j, m)
    <3>1. UNCHANGED wf /\ wf[i].status = "wait" /\ api'[c].wf = i /\ api'[c].current = wf[i].current
      BY <1>t, <2>2 DEF ResumeRead, Request
    <3> QED
      BY <1>o, <3>1 DEF Parked
  <2>3. CASE PauseSave(c)
    <3>1. api[c].wf \in Wfs /\ api[c].current = None /\ api[c].op = "pause"
      BY <1>t, <2>3 DEF PauseSave, TypeInv, RequestFilled, PauseInv
    <3>2. /\ wf'[api[c].wf].status = "wait" /\ wf'[api[c].wf].current = None
          /\ \A j \in Wfs \ {api[c].wf} : wf'[j] = wf[j]
          /\ api'[c].op = "none"
      BY <1>t, <2>3, <3>1 DEF PauseSave, SaveRequest, NoRequest, WfRow
    <3> QED
      BY <1>o, <3>2, RowAssumption DEF Parked
  <2>4. ASSUME NEW t \in TaskIds, CancelTask(c, t)
        PROVE  UNCHANGED wf /\ api'[c].op \notin {"check", "resume"}
    BY <1>t, <2>4 DEF CancelTask, ApiRequest
  <2>5. CASE CancelSave(c)
    <3>1. api[c].wf \in Wfs
      BY <1>t, <2>5 DEF CancelSave, TypeInv, RequestFilled
    <3>2. /\ wf'[api[c].wf].status = "canceled" /\ \A j \in Wfs \ {api[c].wf} : wf'[j] = wf[j]
          /\ api'[c].op = "none"
      BY <1>t, <2>5, <3>1 DEF CancelSave, SaveRequest, NoRequest, WfRow
    <3> QED
      BY <1>o, <3>2 DEF Parked
  <2>6. CASE ResumeCheck(c)
    <3>1. /\ UNCHANGED wf /\ api[c].op = "check"
          /\ api'[c].op = "resume" => api'[c].wf = api[c].wf /\ api'[c].current = api[c].current
          /\ api'[c].op \in {"none", "resume"}
      BY <1>t, <2>6 DEF ResumeCheck, NoRequest, ApiRequest
    <3> QED
      BY <1>o, <3>1 DEF Parked
  <2>7. CASE UNCHANGED wf /\ api'[c].op \notin {"check", "resume"}
    BY <1>o, <2>7 DEF Parked
  <2> QED
    BY <2>1, <2>2, <2>3, <2>4, <2>5, <2>6, <2>7 DEF ApiStep
<1> QED
  BY <1>t, <1>2, <1>3, <1>4, <1>5, QuietStep

-----------------------------------------------------------------------------
(* Steps that send messages.                                               *)

\* Nothing of workflow i, nor any other workflow, changes but the launch of i.
LEMMA ReachedKeptOnce ==
  ASSUME Wired, TypeInv, TypeInv', OnceInv, KeepsRows,
         \A j \in Wfs, m \in Nodes : Shrinks(j, m),
         \A v \in Workers, j \in Wfs, m \in Nodes : Working(v, j, m)' => Working(v, j, m)
  PROVE  OnceInv' /\ \A j \in Wfs, m \in Nodes : Reached(j, m)' => Reached(j, m)
<1>1. \A j \in Wfs, m \in Nodes : Reached(j, m)' => Reached(j, m)
  BY ShrinksReached
<1>2. ASSUME NEW j \in Wfs, NEW m \in Single PROVE OnePlace(j, m)'
  BY ShrinksPlace DEF Single, OnceInv
<1>3. ASSUME NEW j \in Wfs, NEW m \in Single, m \notin DOMAIN Nested PROVE OneWorker(j, m)'
  BY <1>3 DEF Single, OnceInv, OneWorker
<1>4. /\ \A v \in Workers, j \in Wfs, m \in Single : Working(v, j, m)' => Working(v, j, m)
      /\ \A j \in Wfs, m \in Single : Reached(j, m)' => Reached(j, m)
  BY <1>1 DEF Single
<1> QED
  BY <1>1, <1>2, <1>3, <1>4, OnceKept

LEMMA ExecuteOnce ==
  ASSUME Wired, TreeInv, NEW w \in Workers, NEW i \in Wfs, ExecuteWorkflowV2(w, i), TypeInv', KeepsRows
  PROVE  LaunchInv' /\ OnceInv'
<1>t. /\ TypeInv /\ LaunchInv /\ OnceInv
      /\ job \in [Workers -> Job] /\ queue \in [Wfs -> [Slots -> Nat]] /\ wf \in [Wfs -> WfRow]
  BY DEF TreeInv, TypeInv, TypeOK
<1>s. Launch \in Slots /\ Nodes \subseteq Slots /\ Launch \notin Nodes
  BY RowAssumption DEF Slots
<1>1. /\ queue[i][Launch] > 0 /\ queue'[i][Launch] = queue[i][Launch] - 1
      /\ \A j \in Wfs, m \in Slots : j # i \/ m # Launch => queue'[j][m] = queue[j][m]
  BY <1>t, <1>s DEF ExecuteWorkflowV2, Take
<1>2. /\ job'[w].pc = "dispatch" /\ job'[w].wf = i
      /\ \A v \in Workers \ {w} : job'[v] = job[v]
  BY <1>t DEF ExecuteWorkflowV2, Take, Idle
<1>3. NoNewRows /\ UNCHANGED api /\ wf' = [wf EXCEPT ![i].status = "progress"]
  BY SameNoNewRows DEF ExecuteWorkflowV2
<1>4. /\ \A j \in Wfs, n \in Nodes : Parked(j, n)' => Parked(j, n)
      /\ \A j \in Wfs : wf'[j].status = "none" => wf[j].status = "none"
  BY <1>t, <1>3, SavedQuiet DEF WfStatus
<1>5. \A v \in Workers \ {w} : JobQuiet(v)
  BY <1>2, <1>t, SameJobQuiet
<1>6. /\ \A j, m : ~Holding(w, j, m)' /\ ~Working(w, j, m)'
      /\ \A j : Opening(w, j)' => j = i
  BY <1>2 DEF Holding, Working, Opening
<1>7. ASSUME NEW j \in Wfs, NEW m \in Nodes PROVE Shrinks(j, m)
  <2>1. queue'[j][m] <= queue[j][m]
    BY <1>t, <1>s, <1>1
  <2>2. \A v \in Workers : Holding(v, j, m)' => Holding(v, j, m)
    BY <1>5, <1>6 DEF JobQuiet
  <2> QED
    BY <1>3, <1>4, <2>1, <2>2, RowsShrink DEF Shrinks
<1>8. \A v \in Workers, j \in Wfs, m \in Nodes : Working(v, j, m)' => Working(v, j, m)
  <2>1. \A v \in Workers \ {w}, j \in Wfs, m \in Nodes : Working(v, j, m)' => Working(v, j, m)
    BY <1>t, <1>2, SameWorking
  <2> QED
    BY <1>6, <2>1
<1>9. OnceInv' /\ \A j \in Wfs, m \in Nodes : Reached(j, m)' => Reached(j, m)
  BY <1>t, <1>7, <1>8, ReachedKeptOnce
<1>10. ASSUME NEW j \in Wfs
       PROVE  /\ queue'[j][Launch] <= 1
              /\ queue'[j][Launch] > 0 => \A v \in Workers : ~Opening(v, j)'
              /\ \A u, v \in Workers : Opening(u, j)' /\ Opening(v, j)' => u = v
              /\ Launching(j)' => Launching(j)
  <2>1. CASE j = i
    <3>1. queue[i][Launch] <= 1 /\ \A v \in Workers : ~Opening(v, i)
      BY <1>t, <1>1 DEF LaunchInv
    <3>2. queue'[i][Launch] = 0
      BY <1>t, <1>s, <1>1, <3>1
    <3>3. \A v \in Workers \ {w} : ~Opening(v, i)'
      BY <1>5, <3>1 DEF JobQuiet
    <3>4. Launching(i)
      BY <1>1 DEF Launching
    <3> QED
      BY <2>1, <3>2, <3>3, <3>4
  <2>2. CASE j # i
    <3>1. queue'[j][Launch] = queue[j][Launch] /\ \A v \in Workers : Opening(v, j)' => Opening(v, j)
      BY <1>s, <1>1, <1>5, <1>6, <2>2 DEF JobQuiet
    <3> QED
      BY <1>t, <3>1 DEF LaunchInv, Launching
  <2> QED
    BY <2>1, <2>2
<1> QED
  BY <1>t, <1>4, <1>9, <1>10 DEF LaunchInv

LEMMA DispatchOnce ==
  ASSUME Wired, TreeInv, NEW w \in Workers, DispatchStartNodes(w, FALSE), TypeInv', KeepsRows
  PROVE  LaunchInv' /\ OnceInv'
<1>t. /\ TypeInv /\ LaunchInv /\ OnceInv
      /\ job \in [Workers -> Job] /\ queue \in [Wfs -> [Slots -> Nat]]
  BY DEF TreeInv, TypeInv, TypeOK
<1>i. PICK i \in Wfs : i = job[w].wf
  BY <1>t DEF DispatchStartNodes, TypeInv, JobsFilled, JobFilled, Ends
<1>s. Launch \in Slots /\ Nodes \subseteq Slots /\ Launch \notin Nodes
  BY RowAssumption DEF Slots
<1>d. PICK start \in SUBSET Nodes : (\A n \in start : In(n) = {}) /\ start = StartNodes(wf[i].template)
  BY DEF StartNodes
<1>1. /\ \A m \in Slots : queue'[i][m] = queue[i][m] + (IF m \in start THEN 1 ELSE 0)
      /\ \A j \in Wfs \ {i}, m \in Slots : queue'[j][m] = queue[j][m]
  BY <1>t, <1>i, <1>d DEF DispatchStartNodes, Ends
<1>2. /\ job[w].pc = "dispatch" /\ job'[w].pc = "idle"
      /\ \A v \in Workers \ {w} : job'[v] = job[v]
  BY <1>t DEF DispatchStartNodes, Ack, Idle, Ends
<1>3. NoNewRows /\ UNCHANGED <<wf, api>>
  BY SameNoNewRows DEF DispatchStartNodes, Ends
<1>4. \A v \in Workers : JobQuiet(v)
  BY <1>2, <1>t, SameJobQuiet, LeavingJobQuiet DEF Waits, Works
<1>5. /\ \A j, m : Parked(j, m)' <=> Parked(j, m)
      /\ \A j, m : HasRow(j, m)' <=> HasRow(j, m)
  BY <1>3, RowsQuiet DEF Parked
<1>6. Opening(w, i) /\ ~Opening(w, i)' /\ \A n \in Nodes : ~Reached(i, n)
  <2>1. Opening(w, i) /\ ~Opening(w, i)'
    BY <1>i, <1>2 DEF Opening
  <2> QED
    BY <1>t, <2>1 DEF LaunchInv, Launching
<1>7. ~Launching(i)'
  <2>1. queue[i][Launch] = 0 /\ \A v \in Workers \ {w} : ~Opening(v, i)
    BY <1>t, <1>s, <1>6 DEF LaunchInv
  <2>2. queue'[i][Launch] = 0
    BY <1>s, <1>1, <2>1
  <2> QED
    BY <1>4, <1>6, <2>1, <2>2 DEF Launching, JobQuiet
<1>8. \A j \in Wfs \ {i}, m \in Nodes : Shrinks(j, m)
  <2> TAKE j \in Wfs \ {i}, m \in Nodes
  <2>1. queue'[j][m] <= queue[j][m]
    BY <1>t, <1>s, <1>1
  <2> QED
    BY <1>3, <1>4, <1>5, <2>1, RowsShrink DEF Shrinks, JobQuiet
<1>9. ASSUME NEW n \in Nodes
      PROVE  /\ queue'[i][n] <= 1 /\ (Queued(i, n)' => n \in start)
             /\ (\A v \in Workers : ~Holding(v, i, n)') /\ ~Parked(i, n)' /\ ~HasRow(i, n)'
  <2>1. queue[i][n] \in Nat /\ ~Queued(i, n) /\ (\A v \in Workers : ~Holding(v, i, n)) /\ ~Parked(i, n) /\ ~HasRow(i, n)
    BY <1>t, <1>s, <1>6 DEF Reached
  <2>2. queue[i][n] = 0
    BY <2>1 DEF Queued
  <2> QED
    BY <1>s, <1>1, <1>4, <1>5, <2>1, <2>2 DEF Queued, JobQuiet
<1>10. ASSUME NEW j \in Wfs, NEW n \in Single PROVE OnePlace(j, n)'
  <2>1. n \in Nodes /\ OnePlace(j, n)
    BY <1>t DEF Single, OnceInv
  <2>2. CASE j = i
    BY <1>9, <2>1, <2>2 DEF OnePlace, HasRow
  <2>3. CASE j # i
    BY <1>t, <1>8, <2>1, <2>3, ShrinksPlace
  <2> QED
    BY <2>2, <2>3
<1>11. ASSUME NEW j \in Wfs, NEW n \in Nodes, Reached(j, n)'
       PROVE  Reached(j, n) \/ (j = i /\ In(n) = {})
  <2>1. CASE j = i
    BY <1>9, <1>11, <1>d, <2>1 DEF Reached
  <2>2. CASE j # i
    BY <1>t, <1>8, <1>11, <2>2, ShrinksReached
  <2> QED
    BY <2>1, <2>2
<1>12. \A j \in Wfs, n \in Single : Reached(j, n)' => Reached(j, n) \/ SentOnce(j, n)'
  BY <1>11 DEF Single, SentOnce, In
<1>13. \A v \in Workers, j \in Wfs, n \in Single :
         Working(v, j, n)' => Working(v, j, n)
  <2>1. \A v \in Workers \ {w}, j \in Wfs, m \in Nodes : Working(v, j, m)' => Working(v, j, m)
    BY <1>t, <1>2, SameWorking
  <2>2. \A j, m : ~Working(w, j, m)'
    BY <1>2 DEF Working
  <2> QED
    BY <2>1, <2>2 DEF Single
<1>14. \A j \in Wfs, n \in Single : n \notin DOMAIN Nested => OneWorker(j, n)'
  BY <1>t, <1>13 DEF OnceInv, OneWorker
<1>15. OnceInv'
  BY <1>t, <1>10, <1>12, <1>13, <1>14, OnceKept
<1>16. ASSUME NEW j \in Wfs
       PROVE  /\ queue'[j][Launch] <= 1
              /\ queue'[j][Launch] > 0 => \A v \in Workers : ~Opening(v, j)'
              /\ \A u, v \in Workers : Opening(u, j)' /\ Opening(v, j)' => u = v
              /\ Launching(j)' => Launching(j) /\ j # i
  <2>1. queue'[j][Launch] = queue[j][Launch]
    BY <1>t, <1>s, <1>1, <1>d
  <2> QED
    BY <1>t, <1>4, <1>7, <2>1 DEF LaunchInv, Launching, JobQuiet
<1>17. ASSUME NEW j \in Wfs, Launching(j)' \/ wf'[j].status = "none", NEW n \in Nodes
       PROVE  ~Reached(j, n)'
  <2>1. j # i
    BY <1>3, <1>6, <1>7, <1>17, <1>t DEF LaunchInv, Launching
  <2>2. ~Reached(j, n)
    BY <1>t, <1>3, <1>16, <1>17 DEF LaunchInv
  <2> QED
    BY <1>11, <2>1, <2>2
<1> QED
  BY <1>t, <1>3, <1>15, <1>16, <1>17 DEF LaunchInv

LEMMA DelegateOnce ==
  ASSUME Wired, TreeInv, NEW w \in Workers, Delegate(w), TypeInv', KeepsRows
  PROVE  LaunchInv' /\ OnceInv'
<1>t. /\ TypeInv /\ LaunchInv /\ OnceInv
      /\ job \in [Workers -> Job] /\ queue \in [Wfs -> [Slots -> Nat]] /\ wf \in [Wfs -> WfRow]
  BY DEF TreeInv, TypeInv, TypeOK
<1>s. Launch \in Slots /\ Nodes \subseteq Slots /\ Launch \notin Nodes
  BY RowAssumption DEF Slots
<1>c. PICK c \in Wfs :
        /\ wf[c].status = "none"
        /\ wf' = [wf EXCEPT ![c] = [status |-> "init", current |-> None, parent |-> job[w].wf,
                                    node |-> job[w].node, template |-> Nested[job[w].node]]]
        /\ queue' = Send(c, Launch)
  BY DEF Delegate
<1>1. /\ queue'[c][Launch] = queue[c][Launch] + 1
      /\ \A j \in Wfs, m \in Slots : j # c \/ m # Launch => queue'[j][m] = queue[j][m]
  BY <1>t, <1>s, <1>c DEF Send
<1>2. /\ job[w].pc = "run" /\ job'[w].pc = "delegated" /\ job'[w].step = job[w].step
      /\ \A v \in Workers \ {w} : job'[v] = job[v]
  BY <1>t DEF Delegate, Goto, Job
<1>3. /\ NoNewRows /\ UNCHANGED api
      /\ wf'[c].status = "init" /\ \A j \in Wfs \ {c} : wf'[j] = wf[j]
  BY <1>t, <1>c, SameNoNewRows DEF Delegate
<1>4. \A v \in Workers : JobQuiet(v)
  <2>1. JobQuiet(w)
    BY <1>t, <1>2, StepJobQuiet DEF Works
  <2> QED
    BY <1>t, <1>2, <2>1, SameJobQuiet
<1>5. \A j \in Wfs, m \in Nodes : Parked(j, m)' => Parked(j, m)
  BY <1>3 DEF Parked
<1>6. ASSUME NEW j \in Wfs, NEW m \in Nodes PROVE Shrinks(j, m)
  <2>1. queue'[j][m] <= queue[j][m]
    BY <1>t, <1>s, <1>1
  <2> QED
    BY <1>3, <1>4, <1>5, <2>1, RowsShrink DEF Shrinks, JobQuiet
<1>7. \A v \in Workers, j \in Wfs, m \in Nodes : Working(v, j, m)' => Working(v, j, m)
  <2>1. \A v \in Workers \ {w}, j \in Wfs, m \in Nodes : Working(v, j, m)' => Working(v, j, m)
    BY <1>t, <1>2, SameWorking
  <2>2. \A j, m : Working(w, j, m)' => Working(w, j, m)
    <3>1. OwnRow(w) = job[w].step /\ OwnRow(w)' = job[w].step
      BY <1>2 DEF OwnRow
    <3>2. tasks' = tasks
      BY DEF Delegate
    <3> QED
      BY <1>2, <3>1, <3>2 DEF Working
  <2> QED
    BY <2>1, <2>2
<1>8. OnceInv' /\ \A j \in Wfs, m \in Nodes : Reached(j, m)' => Reached(j, m)
  BY <1>t, <1>6, <1>7, ReachedKeptOnce
<1>9. queue[c][Launch] = 0 /\ (\A v \in Workers : ~Opening(v, c)') /\ \A n \in Nodes : ~Reached(c, n)'
  <2>1. ~Launching(c) /\ \A n \in Nodes : ~Reached(c, n)
    BY <1>t, <1>c DEF LaunchInv
  <2>2. queue[c][Launch] \in Nat
    BY <1>t, <1>s
  <2> QED
    BY <1>4, <1>8, <2>1, <2>2 DEF Launching, JobQuiet
<1>10. ASSUME NEW j \in Wfs
       PROVE  /\ queue'[j][Launch] <= 1
              /\ queue'[j][Launch] > 0 => \A v \in Workers : ~Opening(v, j)'
              /\ \A u, v \in Workers : Opening(u, j)' /\ Opening(v, j)' => u = v
              /\ Launching(j)' \/ wf'[j].status = "none" => \A n \in Nodes : ~Reached(j, n)'
              /\ wf'[j].status = "none" => ~Launching(j)'
  <2>1. CASE j = c
    BY <1>1, <1>3, <1>9, <2>1
  <2>2. CASE j # c
    <3>1. queue'[j][Launch] = queue[j][Launch] /\ wf'[j] = wf[j]
      BY <1>s, <1>1, <1>3, <2>2
    <3>2. Launching(j)' => Launching(j)
      BY <1>4, <3>1 DEF Launching, JobQuiet
    <3> QED
      BY <1>t, <1>4, <1>8, <3>1, <3>2 DEF LaunchInv, JobQuiet
  <2> QED
    BY <2>1, <2>2
<1> QED
  BY <1>8, <1>10 DEF LaunchInv

\* How many connections lead to a single-input node.
LEMMA SentAtMostOnce ==
  ASSUME NEW ks \in SUBSET DOMAIN Connections, NEW n \in Single
  PROVE  LET count == Cardinality({k \in ks : Connections[k].target = n}) IN
         count \in {0, 1} /\ (count = 1 => \E k \in ks : Connections[k].target = n)
<1> DEFINE to == {k \in ks : Connections[k].target = n}
<1>1. \A j, k \in to : j = k
  BY DEF Single, In
<1>2. CASE to = {}
  BY <1>2, FS_EmptySet
<1>3. CASE to # {}
  <2>1. PICK k \in to : to = {k}
    BY <1>1, <1>3
  <2>2. Cardinality(to) = 1
    BY <2>1, FS_Singleton
  <2> QED
    BY <2>1, <2>2
<1> QED
  BY <1>2, <1>3

LEMMA AdvanceOnce ==
  ASSUME Wired, TreeInv, NEW w \in Workers, Advance(w, FALSE), ~UNCHANGED queue, TypeInv', KeepsRows
  PROVE  LaunchInv' /\ OnceInv'
<1>t. /\ TypeInv /\ LaunchInv /\ OnceInv
      /\ job \in [Workers -> Job] /\ queue \in [Wfs -> [Slots -> Nat]]
  BY DEF TreeInv, TypeInv, TypeOK
<1>s. Launch \in Slots /\ Nodes \subseteq Slots /\ Launch \notin Nodes
  BY RowAssumption DEF Slots
<1>i. PICK i \in Wfs, s \in Nodes : i = tasks[job[w].row].wf /\ s = tasks[job[w].row].node
  BY <1>t, StepFacts DEF Advance, StepPcs, Pcs, Ends
<1>k. PICK ks \in NextConnections(s) : ks # {} /\ queue' = Dispatch(i, ks) /\ Ack(w) /\ UNCHANGED wf
  BY <1>i DEF Advance, Ends
<1>o. ks \subseteq Out(s) /\ ks \in SUBSET DOMAIN Connections
  BY <1>k DEF NextConnections, NextNodeByCondition, Out
<1>d. s \in Single /\ s \notin DOMAIN Nested
  BY <1>k, <1>o DEF Wired, Out
<1> DEFINE count(m) == Cardinality({k \in ks : Connections[k].target = m})
<1>c. \A m \in Slots : count(m) \in Nat
  BY <1>o, DispatchCount
<1>l. count(Launch) = 0
  <2>1. {k \in ks : Connections[k].target = Launch} = {}
    BY <1>o, <1>s, ConnectionType
  <2> QED
    BY <2>1, FS_EmptySet
<1>1. /\ \A m \in Slots : queue'[i][m] = queue[i][m] + count(m)
      /\ \A j \in Wfs \ {i}, m \in Slots : queue'[j][m] = queue[j][m]
  BY <1>t, <1>k DEF Dispatch
<1>n. \A n \in Single : count(n) \in {0, 1} /\ (count(n) = 1 => \E k \in ks : Connections[k].target = n)
  BY <1>o, SentAtMostOnce
<1> HIDE DEF count
<1>2. /\ job[w].pc = "advance" /\ job'[w].pc = "idle"
      /\ \A v \in Workers \ {w} : job'[v] = job[v]
  BY <1>t, <1>k DEF Advance, Ack, Idle, Ends
<1>3. NoNewRows /\ UNCHANGED <<wf, api>>
  BY <1>k, SameNoNewRows DEF Advance, Ends
<1>4. \A v \in Workers : JobQuiet(v)
  BY <1>2, <1>t, SameJobQuiet, LeavingJobQuiet DEF Waits, Works
<1>5. /\ \A j, m : Parked(j, m)' <=> Parked(j, m)
      /\ \A j, m : HasRow(j, m)' <=> HasRow(j, m)
  BY <1>3, RowsQuiet DEF Parked
<1>6. Working(w, i, s) /\ HasRow(i, s) /\ \A j, m : ~Working(w, j, m)'
  <2>1. Working(w, i, s)
    BY <1>i, <1>2 DEF Working, OwnRow
  <2>2. \A j, m : ~Working(w, j, m)'
    BY <1>2 DEF Working
  <2> QED
    BY <1>t, <2>1, <2>2, WorkingRow
<1>7. \A v \in Workers, j \in Wfs, n \in Nodes : Working(v, j, n)' => Working(v, j, n)
  <2>1. \A v \in Workers \ {w}, j \in Wfs, m \in Nodes : Working(v, j, m)' => Working(v, j, m)
    BY <1>t, <1>2, SameWorking
  <2> QED
    BY <1>6, <2>1
<1>8. \A v \in Workers : ~Working(v, i, s)'
  <2>1. OneWorker(i, s)
    BY <1>t, <1>d DEF OnceInv
  <2> QED
    BY <1>6, <1>7, <2>1 DEF OneWorker
<1>9. ASSUME NEW j \in Wfs, NEW n \in Nodes, j # i \/ count(n) = 0 PROVE Shrinks(j, n)
  <2>1. queue'[j][n] <= queue[j][n]
    BY <1>t, <1>s, <1>1, <1>9
  <2> QED
    BY <1>3, <1>4, <1>5, <2>1, RowsShrink DEF Shrinks, JobQuiet
<1>10. ASSUME NEW n \in Single, count(n) # 0
       PROVE  n \in Nodes /\ ~Reached(i, n) /\ count(n) = 1 /\ \A k \in In(n) : Connections[k].source = s
  <2>1. PICK k \in ks : Connections[k].target = n
    BY <1>n, <1>10
  <2>2. k \in In(n) /\ Connections[k].source = s
    BY <1>o, <2>1 DEF In, Out
  <2>3. ~Reached(i, n)
    BY <1>t, <1>6, <2>2 DEF OnceInv, SentOnce
  <2> QED
    BY <1>n, <1>10, <2>2, <2>3 DEF Single
<1>11. ASSUME NEW j \in Wfs, NEW n \in Single PROVE OnePlace(j, n)'
  <2>1. n \in Nodes /\ OnePlace(j, n)
    BY <1>t DEF Single, OnceInv
  <2>2. CASE j # i \/ count(n) = 0
    BY <1>t, <1>9, <2>1, <2>2, ShrinksPlace
  <2>3. CASE j = i /\ count(n) # 0
    <3>1. queue[i][n] \in Nat /\ ~Queued(i, n) /\ (\A v \in Workers : ~Holding(v, i, n)) /\ ~Parked(i, n) /\ ~HasRow(i, n)
      BY <1>t, <1>s, <1>10, <2>1, <2>3 DEF Reached
    <3>2. queue'[i][n] <= 1
      <4>1. queue[i][n] = 0
        BY <3>1 DEF Queued
      <4> QED
        BY <1>s, <1>1, <1>10, <2>1, <2>3, <4>1
    <3>3. (\A v \in Workers : ~Holding(v, i, n)') /\ ~Parked(i, n)' /\ ~HasRow(i, n)'
      BY <1>4, <1>5, <2>1, <3>1 DEF JobQuiet
    <3> QED
      BY <2>3, <3>2, <3>3 DEF OnePlace, HasRow
  <2> QED
    BY <2>2, <2>3
<1>12. ASSUME NEW j \in Wfs, NEW n \in Single, Reached(j, n)' PROVE Reached(j, n) \/ SentOnce(j, n)'
  <2>1. CASE j # i \/ count(n) = 0
    BY <1>t, <1>9, <1>12, <2>1, ShrinksReached DEF Single
  <2>2. CASE j = i /\ count(n) # 0
    <3>1. HasRow(i, s)' /\ \A v \in Workers : ~Working(v, i, s)'
      BY <1>5, <1>6, <1>8
    <3>2. \A k \in In(n) : Connections[k].source = s
      BY <1>10, <2>2
    <3>3. \A k \in In(n) : HasRow(i, Connections[k].source)' /\ \A v \in Workers : ~Working(v, i, Connections[k].source)'
      BY <3>1, <3>2
    <3> QED
      BY <2>2, <3>3 DEF SentOnce, In
  <2> QED
    BY <2>1, <2>2
<1>13. \A v \in Workers, j \in Wfs, n \in Single : Working(v, j, n)' => Working(v, j, n)
  BY <1>7 DEF Single
<1>14. \A j \in Wfs, n \in Single : n \notin DOMAIN Nested => OneWorker(j, n)'
  BY <1>t, <1>13 DEF OnceInv, OneWorker
<1>15. OnceInv'
  BY <1>t, <1>11, <1>12, <1>13, <1>14, OnceKept
<1>16. ~Launching(i) /\ wf[i].status # "none"
  BY <1>t, <1>6 DEF LaunchInv, Reached
<1>17. ASSUME NEW j \in Wfs
       PROVE  /\ queue'[j][Launch] <= 1
              /\ queue'[j][Launch] > 0 => \A v \in Workers : ~Opening(v, j)'
              /\ \A u, v \in Workers : Opening(u, j)' /\ Opening(v, j)' => u = v
              /\ Launching(j)' \/ wf'[j].status = "none" => \A n \in Nodes : ~Reached(j, n)'
              /\ wf'[j].status = "none" => ~Launching(j)'
  <2>1. queue'[j][Launch] = queue[j][Launch]
    BY <1>t, <1>s, <1>1, <1>l
  <2>2. Launching(j)' => Launching(j)
    BY <1>4, <2>1 DEF Launching, JobQuiet
  <2>3. j # i => \A n \in Nodes : Reached(j, n)' => Reached(j, n)
    BY <1>t, <1>9, ShrinksReached
  <2> QED
    BY <1>t, <1>3, <1>4, <1>16, <2>1, <2>2, <2>3 DEF LaunchInv, JobQuiet
<1> QED
  BY <1>15, <1>17 DEF LaunchInv

-----------------------------------------------------------------------------
(* What surrounds the messages: parents and pauses.                        *)

LEMMA LaunchingQuiet ==
  ASSUME TypeInv, TypeInv', \A i \in Wfs : queue'[i][Launch] <= queue[i][Launch], \A v \in Workers : JobQuiet(v)
  PROVE  \A i \in Wfs : Launching(i)' => Launching(i)
<1>1. \A i \in Wfs : queue[i][Launch] \in Nat /\ queue'[i][Launch] \in Nat
  BY DEF TypeInv, TypeOK, Slots
<1> QED
  BY <1>1 DEF Launching, JobQuiet

\* A step that neither pauses, resumes, launches nor parks.
LEMMA PauseQuiet ==
  ASSUME PauseInv, UNCHANGED api, budget'.pause = budget.pause, budget'.crash = budget.crash,
         \A i \in Wfs : Launching(i)' => Launching(i),
         \A i \in Wfs : wf'[i].status = wf[i].status \/ wf'[i].status \in {"success", "error", "timeout"},
         \A i \in Wfs : wf'[i].current = wf[i].current \/ (~Launching(i) /\ wf'[i].status = "success"),
         \A v \in Workers : job'[v].pc = "park" => job[v].pc = "park",
         \A c \in Clients : api[c].op # "none" => api[c].wf \in Wfs
  PROVE  PauseInv'
<1>1. budget'.pause = 1 =>
       /\ \A i \in Wfs : wf'[i].status # "wait" /\ (wf'[i].status = "progress" => wf'[i].current = None)
       /\ \A w \in Workers : job'[w].pc # "park"
       /\ \A c \in Clients : api'[c].op \in {"none", "cancel"}
  BY DEF PauseInv
<1>2. \A i \in Wfs : Launching(i)' =>
        /\ wf'[i].current = None
        /\ \A c \in Clients : api'[c].op # "none" /\ api'[c].wf = i => api'[c].current = None
  BY DEF PauseInv
<1>3. \A c \in Clients : api'[c].op # "none" => wf'[api'[c].wf].status # "none"
  BY DEF PauseInv
<1> QED
  BY <1>1, <1>2, <1>3 DEF PauseInv

\* Such a step parks nothing, and turns to the row of a parent only at the end of a workflow.
LEMMA QuietPcs ==
  ASSUME TypeInv, NEW w \in Workers, CalmAction(w), NEW v \in Workers, job'[v].pc \in {"park", "parent"}
  PROVE  job'[v] = job[v] \/ (v = w /\ Advance(w, FALSE) /\ job'[v].pc = "parent")
<1>t. job \in [Workers -> Job]
  BY DEF TypeInv, TypeOK
<1>1. CASE v # w
  BY <1>t, <1>1
     DEF CalmAction, CheckInputs, BeforeStart, Log, SaveNestedProgress, UserCodeRaises, OnSuccess, Advance,
         WrongConditionResult, CompleteParentTask, OnFailure, HardTimeLimit, HandleTaskSuccess, Goto, Ack, Ends
<1>2. CASE v = w /\ (CheckInputs(w) \/ BeforeStart(w) \/ SaveNestedProgress(w) \/ WrongConditionResult(w)
                     \/ CompleteParentTask(w) \/ HardTimeLimit(w))
  <2>1. job'[w].pc \in {"create", "idle", "run", "returned", "error", "advance"}
    BY <1>t, <1>2 DEF CheckInputs, BeforeStart, SaveNestedProgress, WrongConditionResult, CompleteParentTask,
                      HardTimeLimit, HandleTaskSuccess, Goto, Ack, Idle, Job
  <2> QED
    BY <1>2, <2>1
<1>3. CASE Log(w)
  BY <1>3 DEF Log
<1>4. CASE v = w /\ \E kind \in FailureKinds : UserCodeRaises(w, kind)
  <2>1. job'[w].pc \in {"error", "timeout"}
    BY <1>t, <1>4, RowAssumption DEF UserCodeRaises, Goto, Job
  <2> QED
    BY <1>4, <2>1
<1>5. CASE v = w /\ OnSuccess(w)
  <2>1. job'[w].pc \in {"idle", "advance"}
    BY <1>t, <1>5 DEF OnSuccess, HandleTaskSuccess, Ack, Idle, Job
  <2> QED
    BY <1>5, <2>1
<1>6. CASE v = w /\ Advance(w, FALSE)
  <2>1. job'[w].pc \in {"idle", "parent", "error"}
    BY <1>t, <1>6 DEF Advance, Ack, Idle, Job, Ends
  <2> QED
    BY <1>6, <2>1
<1>7. CASE v = w /\ OnFailure(w, FALSE)
  <2>1. job'[w].pc \in {"idle", "error", "timeout"}
    BY <1>t, <1>7 DEF OnFailure, Ack, Idle, Job, Ends
  <2> QED
    BY <1>7, <2>1
<1> QED
  BY <1>1, <1>2, <1>3, <1>4, <1>5, <1>6, <1>7 DEF CalmAction

LEMMA QuietWorkerPause ==
  ASSUME TreeInv, NEW w \in Workers, CalmAction(w), TypeInv', KeepsRows
  PROVE  ParentInv' /\ PauseInv'
<1>t. /\ TypeInv /\ PauseInv /\ ParentInv /\ LaunchInv
      /\ job \in [Workers -> Job] /\ queue \in [Wfs -> [Slots -> Nat]] /\ wf \in [Wfs -> WfRow]
      /\ budget \in [pause : Nat, resume : Nat, cancel : Nat, crash : Nat, kill : Nat]
  BY DEF TreeInv, TypeInv, TypeOK
<1>1. UNCHANGED <<queue, api>> /\ budget'.pause = budget.pause /\ budget'.crash = budget.crash
  BY <1>t DEF CalmAction, CheckInputs, BeforeStart, Log, SaveNestedProgress, UserCodeRaises, OnSuccess, Advance,
              WrongConditionResult, CompleteParentTask, OnFailure, HardTimeLimit, Ends
<1>2. \A i \in Wfs : Launching(i)' => Launching(i)
  <2>1. \A i \in Wfs : queue'[i][Launch] <= queue[i][Launch]
    BY <1>t, <1>1 DEF Slots
  <2> QED
    BY <1>t, <2>1, QuietActionJob, LaunchingQuiet
<1>3. \A v \in Workers : job'[v].pc \in {"park", "parent"} =>
        job'[v] = job[v] \/ (v = w /\ Advance(w, FALSE) /\ job'[v].pc = "parent")
  BY <1>t, QuietPcs
<1>4. ASSUME NEW i \in Wfs
      PROVE  /\ wf'[i].status = wf[i].status \/ wf'[i].status \in {"success", "error", "timeout"}
             /\ wf'[i].current = wf[i].current \/ (~Launching(i) /\ wf'[i].status = "success")
  <2>1. CASE UNCHANGED wf
    BY <2>1
  <2>2. CASE Advance(w, FALSE) /\ ~UNCHANGED wf
    <3>1. PICK j \in Wfs, n \in Nodes : j = tasks[job[w].row].wf /\ n = tasks[job[w].row].node
      BY <1>t, <2>2, StepFacts DEF Advance, StepPcs, Pcs, Ends
    <3>2. wf' = [wf EXCEPT ![j].status = "success", ![j].current = n]
      BY <2>2, <3>1 DEF Advance, Ends
    <3>3. HasRow(j, n)
      BY <1>t, <2>2, <3>1, StepFacts DEF Advance, StepPcs, Pcs, HasRow, Ends
    <3>4. ~Launching(j)
      BY <1>t, <3>3 DEF LaunchInv, Reached
    <3> QED
      BY <1>t, <3>2, <3>4 DEF WfRow
  <2>3. CASE OnFailure(w, FALSE)
    <3>1. \E j : \E st \in {"error", "timeout"} : wf' = [wf EXCEPT ![j].status = st]
      BY <2>3 DEF OnFailure, Ends
    <3> QED
      BY <1>t, <3>1 DEF WfRow
  <2> QED
    BY <2>1, <2>2, <2>3
       DEF CalmAction, CheckInputs, BeforeStart, Log, SaveNestedProgress, UserCodeRaises, OnSuccess,
           WrongConditionResult, CompleteParentTask, HardTimeLimit
<1>5. \A c \in Clients : api[c].op # "none" => api[c].wf \in Wfs
  BY <1>t DEF TypeInv, RequestFilled
<1>6. PauseInv'
  BY <1>t, <1>1, <1>2, <1>3, <1>4, <1>5, PauseQuiet
<1>7. \A c \in Wfs : wf'[c].parent # None => wf'[c].node \in DOMAIN Nested
  BY <1>t, QuietActionWf DEF ParentInv, KeepsParents
<1>8. ASSUME NEW v \in Workers, job'[v].pc = "parent" PROVE tasks'[job'[v].row].node \in DOMAIN Nested
  <2>1. CASE job[v].pc = "parent" /\ job'[v].row = job[v].row
    <3>1. job[v].row \in TaskIds /\ Exists(job[v].row)
      BY <1>t, <2>1, StepFacts DEF StepPcs, Pcs
    <3> QED
      BY <1>t, <2>1, <3>1 DEF ParentInv, KeepsRows
  <2>2. CASE v = w /\ Advance(w, FALSE) /\ job[w].pc = "advance"
    <3>1. PICK i \in Wfs, t \in TaskIds : ParentTask(i, t) /\ HasParent(i) /\ job'[w].row = t
      <4>1. tasks[job[w].row].wf \in Wfs
        BY <1>t, <2>2, StepFacts DEF StepPcs, Pcs
      <4> QED
        BY <1>t, <1>8, <2>2, <4>1 DEF Advance, Ack, Idle, Job, Ends
    <3>2. Exists(t) /\ tasks[t].node = wf[i].node
      BY <3>1 DEF ParentTask, Rows, Exists
    <3> QED
      BY <1>t, <2>2, <3>1, <3>2 DEF ParentInv, HasParent, KeepsRows
  <2> QED
    BY <1>3, <1>8, <2>1, <2>2 DEF Advance, Ends
<1> QED
  BY <1>6, <1>7, <1>8 DEF ParentInv

\* No parent of a workflow changes, and no worker turns to the row of one.
LEMMA ParentKept ==
  ASSUME TypeInv, ParentInv, KeepsRows, KeepsParents,
         \A v \in Workers : job'[v].pc = "parent" => job'[v] = job[v]
  PROVE  ParentInv'
<1>1. \A c \in Wfs : wf'[c].parent # None => wf'[c].node \in DOMAIN Nested
  BY DEF ParentInv, KeepsParents
<1>2. ASSUME NEW v \in Workers, job'[v].pc = "parent" PROVE tasks'[job'[v].row].node \in DOMAIN Nested
  <2>1. job[v].row \in TaskIds /\ Exists(job[v].row) /\ job'[v] = job[v]
    BY <1>2, StepFacts DEF StepPcs, Pcs
  <2> QED
    BY <1>2, <2>1 DEF ParentInv, KeepsRows
<1> QED
  BY <1>1, <1>2 DEF ParentInv

LEMMA PauseKept ==
  ASSUME PauseInv, UNCHANGED api, budget'.pause = budget.pause, budget'.crash = budget.crash,
         \A c \in Clients : api[c].op # "none" => api[c].wf \in Wfs,
         \A i \in Wfs : Launching(i)' => (Launching(i) \/ wf[i].status = "none") /\ wf'[i].current = None,
         \A i \in Wfs : wf'[i].status = "none" => wf[i].status = "none",
         budget.pause = 1 =>
           /\ \A i \in Wfs : wf'[i].status # "wait" /\ (wf'[i].status = "progress" => wf'[i].current = None)
           /\ \A v \in Workers : job'[v].pc # "park"
  PROVE  PauseInv'
<1>1. \A i \in Wfs : Launching(i)' =>
        /\ wf'[i].current = None
        /\ \A c \in Clients : api'[c].op # "none" /\ api'[c].wf = i => api'[c].current = None
  BY DEF PauseInv
<1>2. \A c \in Clients : api'[c].op # "none" => wf'[api'[c].wf].status # "none"
  BY DEF PauseInv
<1> QED
  BY <1>1, <1>2 DEF PauseInv

LEMMA ExecutePause ==
  ASSUME TreeInv, NEW w \in Workers, NEW i \in Wfs, ExecuteWorkflowV2(w, i), TypeInv', KeepsRows
  PROVE  ParentInv' /\ PauseInv'
<1>t. /\ TypeInv /\ PauseInv /\ ParentInv /\ LaunchInv
      /\ job \in [Workers -> Job] /\ queue \in [Wfs -> [Slots -> Nat]] /\ wf \in [Wfs -> WfRow]
  BY DEF TreeInv, TypeInv, TypeOK
<1>1. /\ UNCHANGED <<tasks, api, budget>> /\ wf' = [wf EXCEPT ![i].status = "progress"]
      /\ queue[i][Launch] > 0 /\ job'[w].pc = "dispatch" /\ job'[w].wf = i
      /\ \A v \in Workers \ {w} : job'[v] = job[v]
      /\ \A j \in Wfs \ {i} : queue'[j] = queue[j]
  BY <1>t DEF ExecuteWorkflowV2, Take, Idle
<1>2. Launching(i)
  BY <1>1 DEF Launching
<1>3. \A j \in Wfs : Launching(j)' => Launching(j)
  BY <1>1, <1>2 DEF Launching, Opening
<1>4. /\ wf'[i].status = "progress" /\ wf'[i].current = wf[i].current
      /\ \A j \in Wfs \ {i} : wf'[j] = wf[j]
  BY <1>t, <1>1 DEF WfRow
<1>5. wf[i].current = None /\ \A j \in Wfs : Launching(j) => wf[j].current = None
  BY <1>t, <1>2 DEF PauseInv
<1>6. PauseInv'
  <2>1. \A d \in Clients : api[d].op # "none" => api[d].wf \in Wfs
    BY <1>t DEF TypeInv, RequestFilled
  <2>2. budget.pause = 1 =>
           /\ \A j \in Wfs : wf'[j].status # "wait" /\ (wf'[j].status = "progress" => wf'[j].current = None)
           /\ \A v \in Workers : job'[v].pc # "park"
    BY <1>t, <1>1, <1>4, <1>5 DEF PauseInv
  <2>3. \A j \in Wfs : Launching(j)' => Launching(j) /\ wf'[j].current = None
    BY <1>3, <1>4, <1>5
  <2> QED
    BY <1>t, <1>1, <1>4, <2>1, <2>2, <2>3, PauseKept
<1>7. ParentInv'
  BY <1>t, <1>1, SavedParents, ParentKept DEF WfStatus
<1> QED
  BY <1>6, <1>7

LEMMA DispatchPause ==
  ASSUME TreeInv, NEW w \in Workers, DispatchStartNodes(w, FALSE), TypeInv', KeepsRows
  PROVE  ParentInv' /\ PauseInv'
<1>t. /\ TypeInv /\ PauseInv /\ ParentInv /\ LaunchInv
      /\ job \in [Workers -> Job] /\ queue \in [Wfs -> [Slots -> Nat]] /\ wf \in [Wfs -> WfRow]
  BY DEF TreeInv, TypeInv, TypeOK
<1>l. Launch \in Slots /\ \A t : Launch \notin StartNodes(t)
  BY RowAssumption DEF Slots, StartNodes
<1>1. /\ UNCHANGED <<wf, tasks, api, budget>> /\ job'[w].pc = "idle"
      /\ \A v \in Workers \ {w} : job'[v] = job[v]
  BY <1>t DEF DispatchStartNodes, Ack, Idle, Ends
<1>2. \A j \in Wfs : queue'[j][Launch] = queue[j][Launch]
  BY <1>t, <1>l DEF DispatchStartNodes, Ends
<1>3. \A j \in Wfs : Launching(j)' => Launching(j)
  BY <1>1, <1>2 DEF Launching, Opening
<1>4. PauseInv'
  <2>1. \A d \in Clients : api[d].op # "none" => api[d].wf \in Wfs
    BY <1>t DEF TypeInv, RequestFilled
  <2> QED
    BY <1>t, <1>1, <1>3, <2>1, PauseQuiet
<1>5. ParentInv'
  BY <1>t, <1>1, SameParents, ParentKept
<1> QED
  BY <1>4, <1>5

LEMMA FetchPause ==
  ASSUME TreeInv, NEW w \in Workers, NEW i \in Wfs, NEW n \in Nodes, FetchWorkflow(w, i, n),
         TypeInv', KeepsRows
  PROVE  ParentInv' /\ PauseInv'
<1>t. /\ TypeInv /\ PauseInv /\ ParentInv /\ LaunchInv
      /\ job \in [Workers -> Job] /\ queue \in [Wfs -> [Slots -> Nat]] /\ wf \in [Wfs -> WfRow]
  BY DEF TreeInv, TypeInv, TypeOK
<1>l. Launch \in Slots /\ n \in Slots /\ Launch # n
  BY RowAssumption DEF Slots
<1>1. /\ UNCHANGED <<wf, tasks, api, budget>> /\ job'[w].pc = (IF wf[i].status = "wait" THEN "park" ELSE "check")
      /\ \A v \in Workers \ {w} : job'[v] = job[v]
  BY <1>t DEF FetchWorkflow, Take, Idle
<1>2. \A j \in Wfs : queue'[j][Launch] = queue[j][Launch]
  BY <1>t, <1>l DEF FetchWorkflow, Take
<1>3. \A j \in Wfs : Launching(j)' => Launching(j)
  BY <1>1, <1>2 DEF Launching, Opening
<1>4. PauseInv'
  <2>1. \A d \in Clients : api[d].op # "none" => api[d].wf \in Wfs
    BY <1>t DEF TypeInv, RequestFilled
  <2>2. \A v \in Workers : budget.pause = 1 => job'[v].pc # "park"
    BY <1>t, <1>1 DEF PauseInv
  <2>3. \A j \in Wfs : Launching(j)' => Launching(j) /\ wf'[j].current = None
    BY <1>t, <1>1, <1>3 DEF PauseInv
  <2>4. budget.pause = 1 =>
          \A j \in Wfs : wf'[j].status # "wait" /\ (wf'[j].status = "progress" => wf'[j].current = None)
    BY <1>t, <1>1 DEF PauseInv
  <2> QED
    BY <1>t, <1>1, <2>1, <2>2, <2>3, <2>4, PauseKept
<1>5. ParentInv'
  BY <1>t, <1>1, SameParents, ParentKept
<1> QED
  BY <1>4, <1>5

LEMMA ParkPause ==
  ASSUME TreeInv, NEW w \in Workers, Park(w, FALSE), TypeInv', KeepsRows
  PROVE  ParentInv' /\ PauseInv'
<1>t. /\ TypeInv /\ PauseInv /\ ParentInv /\ LaunchInv
      /\ job \in [Workers -> Job] /\ queue \in [Wfs -> [Slots -> Nat]] /\ wf \in [Wfs -> WfRow]
  BY DEF TreeInv, TypeInv, TypeOK
<1>n. PICK i \in Wfs, n \in Nodes : i = job[w].wf /\ n = job[w].node
  BY <1>t DEF Park, TypeInv, JobsFilled, JobFilled, Ends
<1>1. /\ UNCHANGED <<queue, tasks, api, budget>> /\ job[w].pc = "park" /\ job'[w].pc = "idle"
      /\ \A v \in Workers \ {w} : job'[v] = job[v]
      /\ wf' = [wf EXCEPT ![i].status = "wait", ![i].current = n]
  BY <1>t, <1>n DEF Park, Ack, Idle, Ends
<1>2. \A j \in Wfs : Launching(j)' => Launching(j)
  BY <1>1 DEF Launching, Opening
<1>3. ~Launching(i)
  <2>1. Holding(w, i, n)
    BY <1>n, <1>1 DEF Holding
  <2> QED
    BY <1>t, <2>1 DEF LaunchInv, Reached
<1>4. wf'[i].status = "wait" /\ \A j \in Wfs \ {i} : wf'[j] = wf[j]
  BY <1>t, <1>1 DEF WfRow
<1>5. PauseInv'
  <2>1. \A d \in Clients : api[d].op # "none" => api[d].wf \in Wfs
    BY <1>t DEF TypeInv, RequestFilled
  <2>2. budget.pause # 1
    BY <1>t, <1>1 DEF PauseInv
  <2>3. \A j \in Wfs : Launching(j)' => Launching(j) /\ wf'[j].current = None
    BY <1>t, <1>2, <1>3, <1>4 DEF PauseInv
  <2> QED
    BY <1>t, <1>1, <1>4, <2>1, <2>2, <2>3, PauseKept
<1>6. ParentInv'
  BY <1>t, <1>1, SavedParents, ParentKept DEF WfStatus
<1> QED
  BY <1>5, <1>6

LEMMA CreatePause ==
  ASSUME TreeInv, NEW w \in Workers, CreateTask(w), TypeInv', KeepsRows
  PROVE  ParentInv' /\ PauseInv'
<1>t. /\ TypeInv /\ PauseInv /\ ParentInv
      /\ job \in [Workers -> Job]
  BY DEF TreeInv, TypeInv, TypeOK
<1>1. /\ UNCHANGED <<wf, queue, api, budget>> /\ job'[w].pc = "before_start"
      /\ \A v \in Workers \ {w} : job'[v] = job[v]
  BY <1>t DEF CreateTask, Job
<1>2. \A j \in Wfs : Launching(j)' => Launching(j)
  BY <1>1 DEF Launching, Opening
<1>3. PauseInv'
  <2>1. \A d \in Clients : api[d].op # "none" => api[d].wf \in Wfs
    BY <1>t DEF TypeInv, RequestFilled
  <2> QED
    BY <1>t, <1>1, <1>2, <2>1, PauseQuiet
<1>4. ParentInv'
  BY <1>t, <1>1, SameParents, ParentKept
<1> QED
  BY <1>3, <1>4

LEMMA DelegatePause ==
  ASSUME TreeInv, NEW w \in Workers, Delegate(w), TypeInv', KeepsRows
  PROVE  ParentInv' /\ PauseInv'
<1>t. /\ TypeInv /\ PauseInv /\ ParentInv
      /\ job \in [Workers -> Job] /\ queue \in [Wfs -> [Slots -> Nat]] /\ wf \in [Wfs -> WfRow]
  BY DEF TreeInv, TypeInv, TypeOK
<1>1. PICK c \in Wfs :
        /\ wf[c].status = "none"
        /\ wf' = [wf EXCEPT ![c] = [status |-> "init", current |-> None, parent |-> job[w].wf,
                                   node |-> job[w].node, template |-> Nested[job[w].node]]]
        /\ queue' = Send(c, Launch)
  BY DEF Delegate
<1>2. /\ UNCHANGED <<tasks, api, budget>> /\ job'[w].pc = "delegated" /\ job[w].node \in DOMAIN Nested
      /\ \A v \in Workers \ {w} : job'[v] = job[v]
  BY <1>t DEF Delegate, Goto, Job
<1>3. /\ wf'[c].status = "init" /\ wf'[c].current = None /\ wf'[c].node = job[w].node
      /\ \A j \in Wfs \ {c} : wf'[j] = wf[j] /\ queue'[j] = queue[j]
  BY <1>t, <1>1 DEF Send
<1>4. \A j \in Wfs : Launching(j)' => (Launching(j) \/ wf[j].status = "none") /\ wf'[j].current = None
  <2>1. \A j \in Wfs \ {c} : Launching(j)' => Launching(j)
    BY <1>2, <1>3 DEF Launching, Opening
  <2> QED
    BY <1>t, <1>1, <1>3, <2>1 DEF PauseInv
<1>5. PauseInv'
  <2>1. \A d \in Clients : api[d].op # "none" => api[d].wf \in Wfs
    BY <1>t DEF TypeInv, RequestFilled
  <2>2. budget.pause = 1 =>
           /\ \A j \in Wfs : wf'[j].status # "wait" /\ (wf'[j].status = "progress" => wf'[j].current = None)
           /\ \A v \in Workers : job'[v].pc # "park"
    BY <1>t, <1>2, <1>3 DEF PauseInv
  <2>3. \A j \in Wfs : wf'[j].status = "none" => wf[j].status = "none"
    BY <1>3
  <2> QED
    BY <1>t, <1>2, <1>4, <2>1, <2>2, <2>3, PauseKept
<1>6. \A j \in Wfs : wf'[j].parent # None => wf'[j].node \in DOMAIN Nested
  BY <1>t, <1>2, <1>3 DEF ParentInv
<1>7. \A v \in Workers : job'[v].pc = "parent" => tasks'[job'[v].row].node \in DOMAIN Nested
  BY <1>t, <1>2 DEF ParentInv
<1> QED
  BY <1>5, <1>6, <1>7 DEF ParentInv

LEMMA AdvancePause ==
  ASSUME TreeInv, NEW w \in Workers, Advance(w, FALSE), ~UNCHANGED queue, TypeInv', KeepsRows
  PROVE  ParentInv' /\ PauseInv'
<1>t. /\ TypeInv /\ PauseInv /\ ParentInv
      /\ job \in [Workers -> Job] /\ queue \in [Wfs -> [Slots -> Nat]]
  BY DEF TreeInv, TypeInv, TypeOK
<1>n. PICK i \in Wfs, n \in Nodes : i = tasks[job[w].row].wf /\ n = tasks[job[w].row].node
  BY <1>t, StepFacts DEF Advance, StepPcs, Pcs, Ends
<1>1. PICK ks \in NextConnections(n) : queue' = Dispatch(i, ks) /\ Ack(w) /\ UNCHANGED wf
  BY <1>n DEF Advance, Ends
<1>2. /\ UNCHANGED <<wf, tasks, api, budget>> /\ job'[w].pc = "idle"
      /\ \A v \in Workers \ {w} : job'[v] = job[v]
  BY <1>t, <1>1 DEF Advance, Ack, Idle, Ends
<1>3. \A j \in Wfs : queue'[j][Launch] = queue[j][Launch]
  <2>1. {k \in ks : Connections[k].target = Launch} = {}
    <3>1. ks \subseteq DOMAIN Connections
      BY NextConnectionsType
    <3> QED
      BY <3>1, ConnectionType, RowAssumption
  <2>2. Cardinality({k \in ks : Connections[k].target = Launch}) = 0
    BY <2>1, FS_EmptySet
  <2>3. Launch \in Slots
    BY DEF Slots
  <2> QED
    BY <1>t, <1>1, <2>2, <2>3 DEF Dispatch
<1>4. \A j \in Wfs : Launching(j)' => Launching(j)
  BY <1>2, <1>3 DEF Launching, Opening
<1>5. PauseInv'
  <2>1. \A d \in Clients : api[d].op # "none" => api[d].wf \in Wfs
    BY <1>t DEF TypeInv, RequestFilled
  <2> QED
    BY <1>t, <1>2, <1>4, <2>1, PauseQuiet
<1>6. ParentInv'
  BY <1>t, <1>2, SameParents, ParentKept
<1> QED
  BY <1>5, <1>6

\* The request that reads the row of a workflow in "progress" for the one pause finds no
\* current node there, and one that resumes comes after it.
LEMMA ApiReadPause ==
  ASSUME TreeInv, NEW c \in Clients, NEW i \in Wfs, PauseRead(c, i) \/ ResumeRead(c, i) \/ CancelRead(c, i), TypeInv'
  PROVE  PauseInv'
<1>t. /\ PauseInv /\ TypeInv /\ api \in [Clients -> ApiRequest]
      /\ budget \in [pause : Nat, resume : Nat, cancel : Nat, crash : Nat, kill : Nat]
  BY DEF TreeInv, TypeInv, TypeOK
<1>1. /\ UNCHANGED <<wf, queue, job>> /\ wf[i].status # "none"
      /\ api'[c].wf = i /\ api'[c].current = wf[i].current
      /\ \A d \in Clients \ {c} : api'[d] = api[d]
  BY <1>t DEF PauseRead, ResumeRead, CancelRead, Request
<1>2. \A j \in Wfs : Launching(j)' <=> Launching(j)
  BY <1>1 DEF Launching, Opening
<1>3. \A j \in Wfs : Launching(j)' =>
        /\ wf'[j].current = None
        /\ \A d \in Clients : api'[d].op # "none" /\ api'[d].wf = j => api'[d].current = None
  BY <1>t, <1>1, <1>2 DEF PauseInv
<1>r. \A d \in Clients : api'[d].op # "none" => wf'[api'[d].wf].status # "none"
  BY <1>t, <1>1 DEF PauseInv
<1>4. CASE PauseRead(c, i)
  <2>1. budget.pause = 1 /\ budget'.pause = 0 /\ budget'.crash = budget.crash /\ api'[c].op = "pause"
    BY <1>t, <1>4 DEF PauseRead, Request, PauseInv
  <2>2. api'[c].current = None
    BY <1>t, <1>1, <1>4, <2>1 DEF PauseInv, PauseRead
  <2>3. \A d \in Clients : api'[d].op = "pause" => api'[d].current = None
    BY <1>t, <1>1, <2>2 DEF PauseInv
  <2> QED
    BY <1>t, <1>3, <1>r, <2>1, <2>3 DEF PauseInv
<1>5. CASE ResumeRead(c, i)
  <2>1. /\ budget.pause # 1 /\ budget'.pause = budget.pause /\ budget'.crash = budget.crash
        /\ api'[c].op = "check"
    BY <1>t, <1>5 DEF ResumeRead, Request, PauseInv
  <2>2. \A d \in Clients : api'[d].op = "pause" => budget'.pause = 0 /\ api'[d].current = None
    BY <1>t, <1>1, <2>1 DEF PauseInv
  <2> QED
    BY <1>t, <1>3, <1>r, <2>1, <2>2 DEF PauseInv
<1>6. CASE CancelRead(c, i)
  <2>1. budget'.pause = budget.pause /\ budget'.crash = budget.crash /\ api'[c].op = "cancel"
    BY <1>t, <1>6 DEF CancelRead, Request
  <2>2. \A d \in Clients : api'[d].op = "pause" => budget'.pause = 0 /\ api'[d].current = None
    BY <1>t, <1>1, <2>1 DEF PauseInv
  <2>3. budget'.pause = 1 => \A d \in Clients : api'[d].op \in {"none", "cancel"}
    BY <1>t, <1>1, <2>1 DEF PauseInv
  <2>4. budget'.pause = 1 =>
       /\ \A j \in Wfs : wf'[j].status # "wait" /\ (wf'[j].status = "progress" => wf'[j].current = None)
       /\ \A w \in Workers : job'[w].pc # "park"
    BY <1>t, <1>1, <2>1 DEF PauseInv
  <2> QED
    BY <1>t, <1>3, <1>r, <2>1, <2>2, <2>3, <2>4 DEF PauseInv
<1> QED
  BY <1>4, <1>5, <1>6

LEMMA ApiSavePause ==
  ASSUME TreeInv, NEW c \in Clients, NEW st \in {"wait", "progress", "canceled"}, SaveRequest(c, st),
         UNCHANGED <<job, budget>>, st = "wait" => api[c].op = "pause", st = "progress" => api[c].op = "resume",
         api[c].op # "none", \A i \in Wfs : queue'[i][Launch] = queue[i][Launch]
  PROVE  PauseInv'
<1>t. PauseInv /\ TypeInv /\ wf \in [Wfs -> WfRow] /\ api \in [Clients -> ApiRequest]
  BY DEF TreeInv, TypeInv, TypeOK
<1>r. PICK i \in Wfs : i = api[c].wf
  BY <1>t DEF TypeInv, RequestFilled
<1>1. /\ api'[c].op = "none" /\ wf'[i].status = st /\ wf'[i].current = api[c].current
      /\ \A j \in Wfs \ {i} : wf'[j] = wf[j]
      /\ \A d \in Clients \ {c} : api'[d] = api[d]
  BY <1>t, <1>r DEF SaveRequest, NoRequest, WfRow
<1>2. \A j \in Wfs : Launching(j)' <=> Launching(j)
  BY DEF Launching, Opening
<1>3. \A j \in Wfs : Launching(j)' => wf'[j].current = None
  BY <1>t, <1>r, <1>1, <1>2 DEF PauseInv
<1>4. budget.pause = 1 => st = "canceled"
  BY <1>t DEF PauseInv
<1>5. budget'.pause = 1 =>
       /\ \A j \in Wfs : wf'[j].status # "wait" /\ (wf'[j].status = "progress" => wf'[j].current = None)
       /\ \A w \in Workers : job'[w].pc # "park"
  BY <1>t, <1>1, <1>4 DEF PauseInv
<1>6. \A d \in Clients : api'[d].op # "none" => api'[d] = api[d] /\ wf[api[d].wf].status # "none" /\ api[d].wf \in Wfs
  BY <1>t, <1>1 DEF PauseInv, TypeInv, RequestFilled
<1>7. \A d \in Clients : api'[d].op # "none" => wf'[api'[d].wf].status # "none"
  BY <1>1, <1>6
<1>8. \A d \in Clients : api'[d].op = "pause" => budget'.pause = 0 /\ api'[d].current = None
  BY <1>t, <1>6 DEF PauseInv
<1>9. /\ \A j \in Wfs, d \in Clients : Launching(j)' /\ api'[d].op # "none" /\ api'[d].wf = j => api'[d].current = None
      /\ budget'.pause = 1 => \A d \in Clients : api'[d].op \in {"none", "cancel"}
  BY <1>t, <1>2, <1>6 DEF PauseInv
<1> QED
  BY <1>t, <1>3, <1>5, <1>7, <1>8, <1>9 DEF PauseInv

\* A request that goes on with the same row, or ends.
LEMMA ApiKeepsPause ==
  ASSUME TreeInv, NEW c \in Clients, UNCHANGED <<wf, queue, job, budget>>,
         \A d \in Clients \ {c} : api'[d] = api[d],
         \/ api'[c].op = "none"
         \/ /\ api'[c].wf = api[c].wf /\ api'[c].current = api[c].current
            /\ \/ api[c].op = "cancel" /\ api'[c].op = "cancel"
               \/ api[c].op = "check" /\ api'[c].op = "resume"
  PROVE  PauseInv'
<1>t. PauseInv
  BY DEF TreeInv
<1>1. \A j \in Wfs : Launching(j)' <=> Launching(j)
  BY DEF Launching, Opening
<1>2. \A d \in Clients :
        /\ api'[d].op # "none" => api[d].op # "none" /\ api'[d].wf = api[d].wf /\ api'[d].current = api[d].current
        /\ api'[d].op = "pause" => api[d].op = "pause"
        /\ api[d].op \in {"none", "cancel"} => api'[d].op \in {"none", "cancel"}
  OBVIOUS
<1>3. \A j \in Wfs : Launching(j)' =>
        /\ wf'[j].current = None
        /\ \A d \in Clients : api'[d].op # "none" /\ api'[d].wf = j => api'[d].current = None
  BY <1>t, <1>1, <1>2 DEF PauseInv
<1>4. budget'.pause = 1 => \A d \in Clients : api'[d].op \in {"none", "cancel"}
  BY <1>t, <1>2 DEF PauseInv
<1>5. \A d \in Clients :
       /\ api'[d].op = "pause" => budget'.pause = 0 /\ api'[d].current = None
       /\ api'[d].op # "none" => wf'[api'[d].wf].status # "none"
  BY <1>t, <1>2 DEF PauseInv
<1> QED
  BY <1>t, <1>3, <1>4, <1>5 DEF PauseInv

LEMMA ApiPause ==
  ASSUME TreeInv, NEW c \in Clients, ApiStep(c), TypeInv', KeepsRows
  PROVE  ParentInv' /\ PauseInv'
<1>t. /\ PauseInv /\ ParentInv /\ TypeInv /\ LaunchInv
      /\ queue \in [Wfs -> [Slots -> Nat]] /\ api \in [Clients -> ApiRequest]
  BY DEF TreeInv, TypeInv, TypeOK
<1>1. ASSUME NEW i \in Wfs, PauseRead(c, i) \/ ResumeRead(c, i) \/ CancelRead(c, i) PROVE ParentInv' /\ PauseInv'
  <2>1. UNCHANGED <<wf, job>>
    BY <1>1 DEF PauseRead, ResumeRead, CancelRead
  <2> QED
    BY <1>t, <1>1, <2>1, ApiReadPause, SameParents, ParentKept
<1>2. ASSUME NEW st \in {"wait", "progress", "canceled"}, SaveRequest(c, st), UNCHANGED job PROVE ParentInv'
  <2>1. wf' = [wf EXCEPT ![api[c].wf].status = st, ![api[c].wf].current = api[c].current]
    BY <1>2 DEF SaveRequest
  <2>2. KeepsParents
    BY <1>t, <2>1, SavedParents DEF WfStatus
  <2> QED
    BY <1>t, <1>2, <2>2, ParentKept
<1>3. CASE PauseSave(c)
  BY <1>2, <1>3, ApiSavePause DEF PauseSave
<1>4. CASE ResumeSave(c)
  <2>1. \A j \in Wfs : queue'[j][Launch] = queue[j][Launch]
    <3>1. api[c].current # Launch
      BY <1>t, RowAssumption DEF ApiRequest
    <3> QED
      BY <1>t, <1>4, <3>1 DEF ResumeSave, Send, Slots
  <2> QED
    BY <1>2, <1>4, <2>1, ApiSavePause DEF ResumeSave
<1>5. CASE CancelSave(c)
  BY <1>2, <1>5, ApiSavePause DEF CancelSave
<1>6. ASSUME NEW t \in TaskIds, CancelTask(c, t) PROVE ParentInv' /\ PauseInv'
  <2>1. /\ UNCHANGED <<wf, queue, job, budget>> /\ api[c].op = "cancel" /\ api'[c].op = "cancel"
        /\ api'[c].wf = api[c].wf /\ api'[c].current = api[c].current
        /\ \A d \in Clients \ {c} : api'[d] = api[d]
    BY <1>t, <1>6 DEF CancelTask, ApiRequest
  <2> QED
    BY <1>t, <2>1, ApiKeepsPause, SameParents, ParentKept
<1>7. CASE ResumeCheck(c)
  <2>1. /\ UNCHANGED <<wf, queue, job, budget>> /\ api[c].op = "check"
        /\ \/ api'[c].op = "none"
           \/ api'[c].op = "resume" /\ api'[c].wf = api[c].wf /\ api'[c].current = api[c].current
        /\ \A d \in Clients \ {c} : api'[d] = api[d]
    BY <1>t, <1>7 DEF ResumeCheck, ApiRequest, NoRequest
  <2> QED
    BY <1>t, <2>1, ApiKeepsPause, SameParents, ParentKept
<1> QED
  BY <1>1, <1>3, <1>4, <1>5, <1>6, <1>7 DEF ApiStep

-----------------------------------------------------------------------------
(* Every node runs once.                                                   *)

LEMMA InitTreeInv ==
  ASSUME Init, Budget.crash = 0, Budget.pause <= 1
  PROVE  TreeInv
<1>t. TypeInv
  BY InitTypeInv
<1>1. /\ \A w \in Workers : job[w].pc = "idle"
      /\ \A t \in TaskIds : ~Exists(t)
      /\ (\A c \in Clients : api[c].op = "none") /\ budget = Budget
  BY DEF Init, Idle, Exists, NoTask, NoRequest
<1>2. \A i \in Wfs : /\ wf[i].current = None /\ wf[i].parent = None
                     /\ wf[i].status = (IF i = Root THEN "init" ELSE "none")
  BY DEF Init, NoWorkflow
<1>3. /\ \A i \in Wfs, n \in Nodes : queue[i][n] = 0
      /\ \A i \in Wfs : queue[i][Launch] = (IF i = Root THEN 1 ELSE 0)
  BY RowAssumption DEF Init, Slots
<1>4. /\ \A w, i, n : w \in Workers => ~Holding(w, i, n) /\ ~Working(w, i, n)
      /\ \A w, i : w \in Workers => ~Opening(w, i)
  BY <1>1 DEF Holding, Working, Opening
<1>5. \A i \in Wfs, n \in Nodes : ~Queued(i, n) /\ ~Parked(i, n) /\ ~HasRow(i, n)
  BY <1>1, <1>2, <1>3 DEF Queued, Parked, HasRow
<1>6. \A i \in Wfs, n \in Nodes : ~Reached(i, n)
  BY <1>4, <1>5 DEF Reached
<1>7. ParentInv
  BY <1>1, <1>2 DEF ParentInv
<1>8. LaunchInv
  BY <1>2, <1>3, <1>4, <1>6 DEF LaunchInv, Launching
<1>9. OnceInv
  <2>1. \A i \in Wfs, n \in Single : OnePlace(i, n)
    BY <1>1, <1>3, <1>4, <1>5 DEF OnePlace, Single
  <2>2. \A i \in Wfs, n \in Single : SentOnce(i, n)
    BY <1>6 DEF SentOnce, Single
  <2>3. \A i \in Wfs, n \in Single : OneWorker(i, n)
    BY <1>4 DEF OneWorker
  <2> QED
    BY <2>1, <2>2, <2>3 DEF OnceInv
<1>10. PauseInv
  BY <1>1, <1>2 DEF PauseInv
<1> QED
  BY <1>t, <1>7, <1>8, <1>9, <1>10 DEF TreeInv

LEMMA TreeInvStuttering ==
  ASSUME TreeInv, UNCHANGED vars
  PROVE  TreeInv'
<1>1. /\ \A i, n : Queued(i, n)' = Queued(i, n)
      /\ \A i, n : Parked(i, n)' = Parked(i, n)
      /\ \A i, n : HasRow(i, n)' = HasRow(i, n)
      /\ \A i : Launching(i)' = Launching(i)
  BY DEF vars, Queued, Parked, HasRow, Launching, Opening, Exists
<1>2. /\ \A w, i, n : Holding(w, i, n)' = Holding(w, i, n)
      /\ \A w, i, n : Working(w, i, n)' = Working(w, i, n)
      /\ \A w, i : Opening(w, i)' = Opening(w, i)
  BY DEF vars, Holding, Working, OwnRow, Opening
<1>3. \A i, n : Reached(i, n)' = Reached(i, n)
  BY <1>1, <1>2 DEF Reached
<1>4. TypeInv'
  BY NextTypeInv DEF TreeInv
<1>5. ParentInv'
  BY DEF TreeInv, ParentInv, vars
<1>6. LaunchInv'
  BY <1>1, <1>2, <1>3 DEF TreeInv, LaunchInv, vars
<1>7. OnceInv'
  BY <1>1, <1>2, <1>3 DEF TreeInv, OnceInv, OnePlace, SentOnce, OneWorker, vars, Exists
<1>8. PauseInv'
  BY <1>1 DEF TreeInv, PauseInv, vars
<1> QED
  BY <1>4, <1>5, <1>6, <1>7, <1>8 DEF TreeInv

LEMMA TreeInvKept ==
  ASSUME Wired, TreeInv, ResumesAlone, [Next]_vars
  PROVE  TreeInv'
<1>1. TypeInv' /\ KeepsRows
  BY NextTypeInv DEF TreeInv
<1> SUFFICES ParentInv' /\ LaunchInv' /\ OnceInv' /\ PauseInv'
  BY <1>1 DEF TreeInv
<1>2. CASE UNCHANGED vars
  BY <1>2, TreeInvStuttering DEF TreeInv
<1>3. ASSUME NEW c \in Clients, ApiStep(c) PROVE ParentInv' /\ LaunchInv' /\ OnceInv' /\ PauseInv'
  BY <1>1, <1>3, ApiPause, ResumeOnce, QuietApiOnce DEF ResumesAlone
<1>4. ASSUME NEW w \in Workers, WorkerStep(w) \/ Fault(w)
      PROVE  ParentInv' /\ LaunchInv' /\ OnceInv' /\ PauseInv'
  <2>1. CASE CalmAction(w)
    BY <1>1, <2>1, QuietWorkerOnce, QuietWorkerPause
  <2>2. ASSUME NEW i \in Wfs, ExecuteWorkflowV2(w, i) PROVE ParentInv' /\ LaunchInv' /\ OnceInv' /\ PauseInv'
    BY <1>1, <2>2, ExecuteOnce, ExecutePause
  <2>3. CASE DispatchStartNodes(w, FALSE)
    BY <1>1, <2>3, DispatchOnce, DispatchPause
  <2>4. ASSUME NEW i \in Wfs, NEW n \in Nodes, FetchWorkflow(w, i, n)
        PROVE  ParentInv' /\ LaunchInv' /\ OnceInv' /\ PauseInv'
    BY <1>1, <2>4, FetchOnce, FetchPause
  <2>5. CASE Park(w, FALSE)
    BY <1>1, <2>5, ParkOnce, ParkPause
  <2>6. CASE CreateTask(w)
    BY <1>1, <2>6, CreateOnce, CreatePause
  <2>7. CASE Delegate(w)
    BY <1>1, <2>7, DelegateOnce, DelegatePause
  <2>8. CASE Advance(w, FALSE) /\ ~UNCHANGED queue
    BY <1>1, <2>8, AdvanceOnce, AdvancePause
  <2>9. budget.crash = 0
    BY DEF TreeInv, PauseInv
  <2> QED
    BY <1>4, <2>1, <2>2, <2>3, <2>4, <2>5, <2>6, <2>7, <2>8, <2>9, NoLoss DEF WorkerStep, Fault, CalmAction
<1> QED
  BY <1>2, <1>3, <1>4 DEF Next

LEMMA AtMostOneAndMore ==
  ASSUME TypeInv, NEW i \in Wfs, NEW S, \A t, u \in S : t = u
  PROVE  Cardinality(S) <= 1 + doubled[i]
<1>1. CASE S = {}
  <2>1. Cardinality(S) = 0 /\ doubled[i] \in Nat
    BY <1>1, FS_EmptySet DEF TypeInv, TypeOK
  <2> QED
    BY <2>1
<1>2. CASE S # {}
  <2>1. PICK t : S = {t}
    BY <1>2
  <2>2. Cardinality({t}) = 1 /\ doubled[i] \in Nat
    BY FS_Singleton DEF TypeInv, TypeOK
  <2> QED
    BY <2>1, <2>2
<1> QED
  BY <1>1, <1>2

\* A step after which no two requests to resume a workflow have overlapped is taken where
\* none had, and resumes alone.
LEMMA NeverDoubledStep ==
  ASSUME TypeInv, [Next]_vars, NeverDoubled'
  PROVE  NeverDoubled /\ ResumesAlone
<1>t. doubled \in [Wfs -> Nat] /\ RequestFilled
  BY DEF TypeInv, TypeOK
<1>1. ASSUME NEW c \in Clients, ResumeSave(c) PROVE NeverDoubled /\ Alone(c)
  <2>1. PICK i \in Wfs : i = api[c].wf
    BY <1>t, <1>1 DEF ResumeSave, RequestFilled
  <2>2. CASE Alone(c)
    <3>1. doubled' = doubled
      BY <1>1, <2>2 DEF ResumeSave, Alone
    <3> QED
      BY <2>2, <3>1 DEF NeverDoubled
  <2>3. CASE ~Alone(c)
    <3>1. doubled' = [doubled EXCEPT ![i] = @ + 1]
      BY <1>1, <2>1, <2>3 DEF ResumeSave, Alone
    <3>2. doubled'[i] = doubled[i] + 1 /\ doubled[i] \in Nat
      BY <1>t, <3>1
    <3> QED
      BY <3>2 DEF NeverDoubled
  <2> QED
    BY <2>2, <2>3
<1>2. CASE UNCHANGED doubled
  BY <1>1, <1>2 DEF NeverDoubled, ResumesAlone
<1>3. CASE UNCHANGED vars
  BY <1>2, <1>3 DEF vars
<1>4. ASSUME NEW c \in Clients, ApiStep(c) PROVE UNCHANGED doubled \/ ResumeSave(c)
  BY <1>4 DEF ApiStep, PauseRead, PauseSave, ResumeRead, ResumeCheck, CancelRead, CancelTask, CancelSave
<1>5. ASSUME NEW w \in Workers, WorkerStep(w) \/ Fault(w) PROVE UNCHANGED doubled
  BY <1>5 DEF WorkerStep, Fault, LostBeforeAck, ExecuteWorkflowV2, DispatchStartNodes, FetchWorkflow, Park, CheckInputs,
              CreateTask, BeforeStart, Log, Delegate, SaveNestedProgress, UserCodeRaises, OnSuccess, Advance,
              WrongConditionResult, CompleteParentTask, OnFailure, Crash, HardTimeLimit
<1> QED
  BY <1>1, <1>2, <1>3, <1>4, <1>5 DEF Next, ResumesAlone

\* process_next_node creates one Task row per workflow and node: in every workflow whose
\* nodes have at most one incoming connection, through one pause, any number of resumes,
\* cancels, kills and failures, and however the workers and the web threads interleave, as
\* long as no two requests to resume the same workflow overlap. When they do, both may have
\* read the row in "wait" and each sends the parked node. Worker crashes are excluded (a
\* redelivered message repeats the node) and so are joins (every input sends the message).
THEOREM NodeRunsOnceHolds ==
  ASSUME Wired, Single = Nodes, Budget.crash = 0, Budget.pause <= 1
  PROVE  Spec => [](NeverDoubled => NodeRunsOnce)
<1> DEFINE Inv == TypeInv /\ (NeverDoubled => TreeInv)
<1>1. Init => Inv
  BY InitTreeInv, InitTypeInv
<1>2. Inv /\ [Next]_vars => Inv'
  <2> SUFFICES ASSUME Inv, [Next]_vars PROVE Inv'
    OBVIOUS
  <2>1. TypeInv'
    BY NextTypeInv
  <2>2. ASSUME NeverDoubled' PROVE TreeInv'
    BY <2>2, NeverDoubledStep, TreeInvKept
  <2> QED
    BY <2>1, <2>2
<1>3. Inv => (NeverDoubled => NodeRunsOnce)
  <2> SUFFICES ASSUME Inv, NeverDoubled, NEW i \in Wfs, NEW n \in Nodes
               PROVE  Cardinality(Rows(i, n)) <= 1 + doubled[i]
    BY DEF NodeRunsOnce
  <2>1. \A t, u \in Rows(i, n) : t = u
    BY DEF TreeInv, OnceInv, OnePlace, Rows, Exists
  <2> QED
    BY <2>1, AtMostOneAndMore
<1> QED
  BY <1>1, <1>2, <1>3, PTL DEF Spec

-----------------------------------------------------------------------------
(* No node is forgotten. What a step may do to the rows that are complete, *)
(* to the messages, to the workers that advance and to the launches.       *)

\* A row becomes complete only under a worker that then looks up the next nodes.
CompleteOnly == \A i \in Wfs, n \in Nodes : Complete(i, n)' => Complete(i, n) \/ Advancing(i, n)'

LEMMA SameComplete ==
  ASSUME UNCHANGED tasks
  PROVE  \A i, n : Complete(i, n)' => Complete(i, n)
BY DEF Complete, Rows

LEMMA SavedComplete ==
  ASSUME TypeInv, NEW t \in TaskIds, Exists(t), NEW st, st \notin {"success", "none"}, SetTask(t, st)
  PROVE  \A i, n : Complete(i, n)' => Complete(i, n)
<1>1. /\ tasks'[t].status = st /\ tasks'[t].wf = tasks[t].wf /\ tasks'[t].node = tasks[t].node
      /\ \A u \in TaskIds \ {t} : tasks'[u] = tasks[u]
  BY DEF TypeInv, TypeOK, TaskRow, SetTask
<1> SUFFICES ASSUME NEW i, NEW n, Complete(i, n)' PROVE Complete(i, n)
  OBVIOUS
<1>2. Rows(i, n)' = Rows(i, n)
  BY <1>1 DEF Rows, Exists
<1>3. t \notin Rows(i, n)
  BY <1>1, <1>2 DEF Complete
<1> QED
  BY <1>1, <1>2, <1>3 DEF Complete, Rows

LEMMA CreatedComplete ==
  ASSUME TypeInv, NEW t \in TaskIds, ~Exists(t), NEW r, tasks' = [tasks EXCEPT ![t] = r], r.status = "init"
  PROVE  \A i, n : Complete(i, n)' => Complete(i, n)
<1>1. tasks'[t] = r /\ \A u \in TaskIds \ {t} : tasks'[u] = tasks[u]
  BY DEF TypeInv, TypeOK
<1> SUFFICES ASSUME NEW i, NEW n, Complete(i, n)' PROVE Complete(i, n)
  OBVIOUS
<1>2. t \notin Rows(i, n)'
  BY <1>1 DEF Complete
<1>3. Rows(i, n)' = Rows(i, n)
  BY <1>1, <1>2 DEF Rows, Exists
<1> QED
  BY <1>1, <1>2, <1>3 DEF Complete, Rows

LEMMA WonComplete ==
  ASSUME TypeInv, NEW w \in Workers, NEW t \in TaskIds, Exists(t), HandleTaskSuccess(w, t)
  PROVE  CompleteOnly
<1>1. /\ tasks'[t].status = "success" /\ tasks'[t].wf = tasks[t].wf /\ tasks'[t].node = tasks[t].node
      /\ \A u \in TaskIds \ {t} : tasks'[u] = tasks[u]
  BY DEF TypeInv, TypeOK, TaskRow, HandleTaskSuccess, SetTask
<1>2. job'[w].pc = "advance" /\ job'[w].row = t
  BY DEF TypeInv, TypeOK, Job, HandleTaskSuccess
<1> SUFFICES ASSUME NEW i, NEW n, Complete(i, n)', ~Complete(i, n) PROVE Advancing(i, n)'
  BY DEF CompleteOnly
<1>3. Rows(i, n)' = Rows(i, n)
  BY <1>1 DEF Rows, Exists
<1>4. t \in Rows(i, n)
  BY <1>1, <1>3 DEF Complete, Rows
<1>5. Working(w, i, n)'
  BY <1>1, <1>2, <1>4 DEF Working, OwnRow, Rows
<1> QED
  BY <1>2, <1>5 DEF Advancing

LEMMA WorkerComplete ==
  ASSUME TypeInv, budget.crash = 0, NEW w \in Workers, WorkerStep(w) \/ Fault(w)
  PROVE  CompleteOnly
<1>1. CASE UNCHANGED tasks
  BY <1>1, SameComplete DEF CompleteOnly
<1>2. ASSUME NEW t \in TaskIds, Exists(t), NEW st, st \notin {"success", "none"}, SetTask(t, st) PROVE CompleteOnly
  BY <1>2, SavedComplete DEF CompleteOnly
<1>3. CASE BeforeStart(w) \/ Log(w) \/ SaveNestedProgress(w)
  BY <1>2, <1>3, StepFacts DEF BeforeStart, Log, SaveNestedProgress, StepPcs, Pcs
<1>4. CASE OnSuccess(w)
  BY <1>1, <1>4, StepFacts, WonComplete DEF OnSuccess, StepPcs, Pcs
<1>5. CASE CompleteParentTask(w)
  BY <1>5, StepFacts, WonComplete DEF CompleteParentTask, StepPcs, Pcs
<1>6. CASE OnFailure(w, FALSE)
  BY <1>2, <1>6, StepFacts DEF OnFailure, StepPcs, Pcs, Ends
<1>7. CASE CreateTask(w)
  BY <1>7, CreatedComplete DEF CreateTask, Exists, CompleteOnly
<1> QED
  BY <1>1, <1>3, <1>4, <1>5, <1>6, <1>7, NoLoss
     DEF WorkerStep, Fault, ExecuteWorkflowV2, DispatchStartNodes, FetchWorkflow, Park, CheckInputs, Delegate,
         UserCodeRaises, Advance, WrongConditionResult, Crash, HardTimeLimit, Ends

LEMMA ApiComplete ==
  ASSUME TypeInv, NEW c \in Clients, ApiStep(c)
  PROVE  CompleteOnly
<1>1. CASE UNCHANGED tasks
  BY <1>1, SameComplete DEF CompleteOnly
<1>2. ASSUME NEW t \in TaskIds, CancelTask(c, t) PROVE CompleteOnly
  BY <1>2, SavedComplete DEF CancelTask, CompleteOnly, TypeInv, RequestFilled
<1> QED
  BY <1>1, <1>2 DEF ApiStep, PauseRead, PauseSave, ResumeRead, ResumeCheck, ResumeSave, CancelRead, CancelSave

\* A message stays in the queue until a worker takes it.
LEMMA QueueStep ==
  ASSUME TypeInv, budget.crash = 0, NEW w \in Workers, WorkerStep(w) \/ Fault(w), NEW i \in Wfs, NEW m \in Slots, queue[i][m] > 0
  PROVE  \/ queue'[i][m] > 0
         \/ m = Launch /\ Opening(w, i)'
         \/ m \in Nodes /\ Holding(w, i, m)'
<1>t. queue \in [Wfs -> [Slots -> Nat]] /\ job \in [Workers -> Job]
  BY DEF TypeInv, TypeOK
<1>1. CASE UNCHANGED queue
  BY <1>1
<1>2. ASSUME NEW j \in Wfs, ExecuteWorkflowV2(w, j), j # i \/ m # Launch PROVE queue'[i][m] = queue[i][m]
  BY <1>t, <1>2 DEF ExecuteWorkflowV2, Take
<1>3. ASSUME ExecuteWorkflowV2(w, i) PROVE Opening(w, i)'
  BY <1>t, <1>3 DEF ExecuteWorkflowV2, Take, Opening, Idle
<1>4. ASSUME NEW j \in Wfs, NEW n \in Nodes, FetchWorkflow(w, j, n), j # i \/ m # n PROVE queue'[i][m] = queue[i][m]
  BY <1>t, <1>4 DEF FetchWorkflow, Take
<1>5. ASSUME m \in Nodes, FetchWorkflow(w, i, m) PROVE Holding(w, i, m)'
  BY <1>t, <1>5 DEF FetchWorkflow, Take, Holding, Idle
<1>6. CASE DispatchStartNodes(w, FALSE)
  <2>1. PICK j \in Wfs : j = job[w].wf
    BY <1>6 DEF DispatchStartNodes, TypeInv, JobsFilled, JobFilled, Ends
  <2>2. queue' = [queue EXCEPT ![j] =
         [q \in Slots |-> queue[j][q] + (IF q \in StartNodes(wf[j].template) THEN 1 ELSE 0)]]
    BY <1>6, <2>1 DEF DispatchStartNodes, Ends
  <2> QED
    BY <1>t, <2>2
<1>7. CASE Delegate(w)
  BY <1>t, <1>7 DEF Delegate, Send
<1>8. CASE Advance(w, FALSE) /\ ~UNCHANGED queue
  <2>1. PICK j \in Wfs, n \in Nodes : j = tasks[job[w].row].wf /\ n = tasks[job[w].row].node
    BY <1>8, StepFacts DEF Advance, StepPcs, Pcs, Ends
  <2>2. PICK ks \in NextConnections(n) : queue' = Dispatch(j, ks)
    BY <1>8, <2>1 DEF Advance, Ends
  <2> DEFINE count(q) == Cardinality({k \in ks : Connections[k].target = q})
  <2>3. \A q : count(q) \in Nat
    BY NextConnectionsType, DispatchCount
  <2>4. queue' = [queue EXCEPT ![j] = [q \in Slots |-> queue[j][q] + count(q)]]
    BY <2>2 DEF Dispatch
  <2> HIDE DEF count
  <2>5. count(m) \in Nat /\ queue[i][m] \in Nat
    BY <1>t, <2>3
  <2>6. queue'[i][m] = queue[i][m] \/ queue'[i][m] = queue[i][m] + count(m)
    BY <1>t, <2>4
  <2> QED
    BY <2>5, <2>6
<1>9. CASE Crash(w)
  BY <1>t, <1>9 DEF Crash, Send
<1> QED
  BY <1>1, <1>2, <1>3, <1>4, <1>5, <1>6, <1>7, <1>8, <1>9, NoLoss
     DEF WorkerStep, Fault, CheckInputs, BeforeStart, Log, SaveNestedProgress, UserCodeRaises, OnSuccess, Park,
         CreateTask, WrongConditionResult, CompleteParentTask, OnFailure, HardTimeLimit, Ends

\* The step a worker takes, by how far it is.
LEMMA StepAt ==
  ASSUME budget.crash = 0, NEW w \in Workers, WorkerStep(w) \/ Fault(w)
  PROVE  /\ job[w].pc = "advance" => Advance(w, FALSE) \/ WrongConditionResult(w)
         /\ job[w].pc = "dispatch" => DispatchStartNodes(w, FALSE)
         /\ job[w].pc = "park" => Park(w, FALSE)
         /\ job[w].pc = "check" => CheckInputs(w)
         /\ job[w].pc = "create" => CreateTask(w)
         /\ job[w].pc \in {"error", "timeout"} => OnFailure(w, FALSE)
<1>1. ~Crash(w)
  BY DEF Crash
<1>2. (\E i \in Wfs : ExecuteWorkflowV2(w, i)) \/ (\E i \in Wfs, n \in Nodes : FetchWorkflow(w, i, n)) => job[w].pc = "idle"
  BY DEF ExecuteWorkflowV2, FetchWorkflow, Take
<1>3. BeforeStart(w) \/ Delegate(w) \/ SaveNestedProgress(w) \/ (\E kind \in FailureKinds : UserCodeRaises(w, kind))
      \/ OnSuccess(w) \/ Log(w) \/ HardTimeLimit(w) => job[w].pc \in {"before_start", "run", "delegated", "returned"}
  BY DEF BeforeStart, Delegate, SaveNestedProgress, UserCodeRaises, OnSuccess, Log, HardTimeLimit
<1>4. CompleteParentTask(w) => job[w].pc = "parent"
  BY DEF CompleteParentTask
<1>5. /\ DispatchStartNodes(w, FALSE) => job[w].pc = "dispatch"
      /\ Park(w, FALSE) => job[w].pc = "park"
      /\ CheckInputs(w) => job[w].pc = "check"
      /\ CreateTask(w) => job[w].pc = "create"
      /\ Advance(w, FALSE) \/ WrongConditionResult(w) => job[w].pc = "advance"
      /\ OnFailure(w, FALSE) => job[w].pc \in {"error", "timeout"}
  BY DEF DispatchStartNodes, Park, CheckInputs, CreateTask, Advance, WrongConditionResult, OnFailure, Ends
<1> QED
  BY <1>1, <1>2, <1>3, <1>4, <1>5, NoLoss DEF WorkerStep, Fault

\* A worker that advances goes on advancing until it sends or fails.
LEMMA AdvancingStep ==
  ASSUME TypeInv, KeepsRows, budget.crash = 0, NEW w \in Workers, WorkerStep(w) \/ Fault(w),
         NEW i, NEW n, Advancing(i, n)
  PROVE  Advancing(i, n)' \/ (Working(w, i, n) /\ (Advance(w, FALSE) \/ WrongConditionResult(w)))
<1>1. PICK v \in Workers : job[v].pc = "advance" /\ Working(v, i, n)
  BY DEF Advancing
<1>2. CASE v # w
  <2>1. job'[v] = job[v]
    BY <1>2, OtherWorkers
  <2> QED
    BY <1>1, <2>1, SameWorking DEF Advancing
<1>3. CASE v = w
  BY <1>1, <1>3, StepAt
<1> QED
  BY <1>2, <1>3

LEMMA LaunchingStep ==
  ASSUME TypeInv, budget.crash = 0, NEW w \in Workers, WorkerStep(w) \/ Fault(w), NEW i \in Wfs, Launching(i)
  PROVE  Launching(i)' \/ (DispatchStartNodes(w, FALSE) /\ job[w].wf = i)
<1>1. CASE queue[i][Launch] > 0
  <2>1. Launch \in Slots /\ Launch \notin Nodes
    BY RowAssumption DEF Slots
  <2>2. queue'[i][Launch] > 0 \/ Opening(w, i)'
    BY <1>1, <2>1, QueueStep
  <2> QED
    BY <2>2 DEF Launching
<1>2. ASSUME NEW v \in Workers, Opening(v, i) PROVE Launching(i)' \/ (DispatchStartNodes(w, FALSE) /\ job[w].wf = i)
  <2>1. CASE v # w
    <3>1. job'[v] = job[v]
      BY <2>1, OtherWorkers
    <3> QED
      BY <1>2, <3>1 DEF Launching, Opening
  <2>2. CASE v = w
    BY <1>2, <2>2, StepAt DEF Opening
  <2> QED
    BY <2>1, <2>2
<1> QED
  BY <1>1, <1>2 DEF Launching

\* are_inputs_ready finds the one row of each input in "success" when all have finished.
LEMMA ReadyInputs ==
  ASSUME Wired, TreeInv, NEW i \in Wfs, NEW n, Ready(i, n)
  PROVE  AreInputsReady(i, n)
<1> SUFFICES ASSUME NEW k \in In(n)
             PROVE  \E t \in TaskIds : Rows(i, Connections[k].source) = {t} /\ tasks[t].status = "success"
  BY DEF AreInputsReady
<1>s. PICK s \in Single : s = Connections[k].source
  BY DEF Wired, In
<1>1. Complete(i, s)
  BY <1>s DEF Ready
<1>2. \A t, u \in Rows(i, s) : t = u
  BY DEF TreeInv, OnceInv, OnePlace, Rows, Exists
<1>3. PICK t \in TaskIds : t \in Rows(i, s)
  BY <1>1 DEF Complete, Rows
<1>4. Rows(i, s) = {t}
  BY <1>2, <1>3
<1> QED
  BY <1>s, <1>1, <1>3, <1>4 DEF Complete

\* A node that was sent stays sent while its inputs are complete.
LEMMA ReachedStep ==
  ASSUME Wired, TreeInv, NoPauseInv, KeepsRows, NEW w \in Workers, WorkerStep(w) \/ Fault(w),
         NEW i \in Wfs, NEW n \in Nodes, Reached(i, n), Ready(i, n)'
  PROVE  Reached(i, n)'
<1>t. TypeInv /\ budget.crash = 0 /\ job \in [Workers -> Job]
  BY DEF TreeInv, TypeInv, TypeOK, PauseInv
<1>1. CASE HasRow(i, n)
  BY <1>1, RowsStay DEF Reached
<1>2. CASE Queued(i, n)
  <2>1. n \in Slots /\ n # Launch
    BY RowAssumption DEF Slots
  <2>2. Queued(i, n)' \/ Holding(w, i, n)'
    BY <1>t, <1>2, <2>1, QueueStep DEF Queued
  <2> QED
    BY <2>2 DEF Reached
<1>3. ~Parked(i, n)
  BY DEF Parked, NoPauseInv
<1>4. ASSUME NEW v \in Workers, Holding(v, i, n) PROVE Reached(i, n)'
  <2>1. CASE v # w
    <3>1. job'[v] = job[v]
      BY <1>t, <2>1, OtherWorkers
    <3> QED
      BY <1>4, <3>1 DEF Reached, Holding
  <2>2. CASE v = w
    <3>1. CheckInputs(w) \/ CreateTask(w)
      BY <1>t, <1>4, <2>2, StepAt DEF Holding, NoPauseInv
    <3>2. CASE CheckInputs(w)
      <4>1. Ready(i, n)
        <5>1. UNCHANGED tasks
          BY <3>2 DEF CheckInputs
        <5> QED
          BY <5>1 DEF Ready, Complete, Rows
      <4>2. Goto(w, "create")
        BY <1>4, <2>2, <3>2, <4>1, ReadyInputs DEF CheckInputs, Holding
      <4> QED
        BY <1>t, <1>4, <2>2, <4>2 DEF Goto, Holding, Reached, Job
    <3>3. CASE CreateTask(w)
      <4>1. PICK t \in TaskIds :
              tasks' = [tasks EXCEPT ![t] = [wf |-> job[w].wf, node |-> job[w].node, status |-> "init"]]
        BY <3>3 DEF CreateTask
      <4>2. tasks'[t].status = "init" /\ tasks'[t].wf = i /\ tasks'[t].node = n
        BY <1>t, <1>4, <2>2, <4>1 DEF Holding, TypeInv, TypeOK
      <4> QED
        BY <4>2 DEF Reached, HasRow, Exists
    <3> QED
      BY <3>1, <3>2, <3>3
  <2> QED
    BY <2>1, <2>2
<1> QED
  BY <1>1, <1>2, <1>3, <1>4 DEF Reached

\* What a step of a worker saves in the Workflow table.
LEMMA WfStep ==
  ASSUME TypeInv, budget.crash = 0, NEW w \in Workers, WorkerStep(w) \/ Fault(w), ~Delegate(w), ~Park(w, FALSE)
  PROVE  \A j \in Wfs : /\ wf'[j].status = "wait" => wf[j].status = "wait"
                        /\ wf'[j].template = wf[j].template
<1>t. wf \in [Wfs -> WfRow]
  BY DEF TypeInv, TypeOK
<1>1. CASE UNCHANGED wf
  BY <1>1
<1>2. ASSUME NEW i, NEW st \in {"progress", "success", "error", "timeout"}, NEW cur,
             \/ wf' = [wf EXCEPT ![i].status = st]
             \/ wf' = [wf EXCEPT ![i].status = st, ![i].current = cur]
      PROVE  \A j \in Wfs : /\ wf'[j].status = "wait" => wf[j].status = "wait"
                            /\ wf'[j].template = wf[j].template
  BY <1>t, <1>2 DEF WfRow
<1>3. CASE \E i \in Wfs : ExecuteWorkflowV2(w, i)
  BY <1>2, <1>3 DEF ExecuteWorkflowV2
<1>4. CASE Advance(w, FALSE) /\ ~UNCHANGED wf
  <2>1. \E i, n : wf' = [wf EXCEPT ![i].status = "success", ![i].current = n]
    BY <1>4 DEF Advance, Ends
  <2> QED
    BY <1>2, <2>1
<1>5. CASE OnFailure(w, FALSE)
  <2>1. \E st \in {"error", "timeout"} : \E i : wf' = [wf EXCEPT ![i].status = st]
    BY <1>5 DEF OnFailure, Ends
  <2> QED
    BY <1>2, <2>1
<1> QED
  BY <1>1, <1>3, <1>4, <1>5, NoLoss
     DEF WorkerStep, Fault, DispatchStartNodes, FetchWorkflow, CheckInputs, CreateTask, BeforeStart, Log,
         SaveNestedProgress, UserCodeRaises, OnSuccess, WrongConditionResult, CompleteParentTask, Crash, HardTimeLimit, Ends

LEMMA NoPauseWorker ==
  ASSUME TypeInv, budget.crash = 0, NoPauseInv, NEW w \in Workers, WorkerStep(w) \/ Fault(w)
  PROVE  NoPauseInv'
<1>t. /\ job \in [Workers -> Job] /\ wf \in [Wfs -> WfRow]
      /\ budget \in [pause : Nat, resume : Nat, cancel : Nat, crash : Nat, kill : Nat]
  BY DEF TypeInv, TypeOK
<1>p. ~Park(w, FALSE)
  BY DEF NoPauseInv, Park, Ends
<1>1. UNCHANGED api /\ budget'.pause = budget.pause
  BY <1>t, NoLoss DEF WorkerStep, Fault, ExecuteWorkflowV2, DispatchStartNodes, FetchWorkflow, Park, CheckInputs, CreateTask,
              BeforeStart, Log, Delegate, SaveNestedProgress, UserCodeRaises, OnSuccess, Advance, WrongConditionResult,
              CompleteParentTask, OnFailure, Crash, HardTimeLimit, Ends
<1>2. \A j \in Wfs : wf'[j].status # "wait"
  <2>1. CASE Delegate(w)
    BY <1>t, <2>1 DEF Delegate, NoPauseInv
  <2>2. CASE ~Delegate(w)
    BY <1>p, <2>2, WfStep DEF NoPauseInv
  <2> QED
    BY <2>1, <2>2
<1>3. ASSUME NEW v \in Workers PROVE job'[v].pc # "park"
  <2>1. CASE v # w
    BY <2>1, OtherWorkers DEF NoPauseInv
  <2>2. CASE CalmAction(w)
    BY <2>2, QuietPcs DEF NoPauseInv
  <2>3. CASE v = w /\ ~CalmAction(w)
    <3>1. job'[w].pc \in {"dispatch", "idle", "check", "before_start", "delegated"}
      <4>1. CASE \E i \in Wfs : ExecuteWorkflowV2(w, i)
        BY <1>t, <4>1 DEF ExecuteWorkflowV2, Take, Idle
      <4>2. CASE DispatchStartNodes(w, FALSE) \/ Crash(w)
        BY <1>t, <4>2 DEF DispatchStartNodes, Crash, Ack, Idle, Ends
      <4>3. CASE \E i \in Wfs, n \in Nodes : FetchWorkflow(w, i, n)
        BY <1>t, <4>3 DEF FetchWorkflow, Take, Idle, NoPauseInv
      <4>4. CASE CreateTask(w)
        BY <1>t, <4>4 DEF CreateTask, Job
      <4>5. CASE Delegate(w)
        BY <1>t, <4>5 DEF Delegate, Goto, Job
      <4>6. CASE Advance(w, FALSE) /\ ~UNCHANGED queue
        BY <1>t, <4>6 DEF Advance, Ack, Idle, Ends
      <4> QED
        BY <1>p, <2>3, <4>1, <4>2, <4>3, <4>4, <4>5, <4>6, NoLoss DEF WorkerStep, Fault, CalmAction
    <3> QED
      BY <2>3, <3>1
  <2> QED
    BY <2>1, <2>2, <2>3
<1> QED
  BY <1>1, <1>2, <1>3 DEF NoPauseInv

\* Without pauses the only requests are cancellations.
LEMMA NoPauseApi ==
  ASSUME TypeInv, NoPauseInv, NEW c \in Clients, ApiStep(c)
  PROVE  /\ (\E i \in Wfs : CancelRead(c, i)) \/ (\E t \in TaskIds : CancelTask(c, t)) \/ CancelSave(c)
         /\ UNCHANGED <<queue, job>>
         /\ \A j \in Wfs : wf'[j].template = wf[j].template
         /\ NoPauseInv'
<1>t. /\ wf \in [Wfs -> WfRow] /\ api \in [Clients -> ApiRequest]
      /\ budget \in [pause : Nat, resume : Nat, cancel : Nat, crash : Nat, kill : Nat]
  BY DEF TypeInv, TypeOK
<1>1. /\ \A i \in Wfs : ~PauseRead(c, i) /\ ~ResumeRead(c, i)
      /\ ~PauseSave(c) /\ ~ResumeCheck(c) /\ ~ResumeSave(c)
  BY DEF NoPauseInv, PauseRead, ResumeRead, PauseSave, ResumeCheck, ResumeSave
<1>2. (\E i \in Wfs : CancelRead(c, i)) \/ (\E t \in TaskIds : CancelTask(c, t)) \/ CancelSave(c)
  BY <1>1 DEF ApiStep
<1>3. UNCHANGED <<queue, job>>
  BY <1>2 DEF CancelRead, CancelTask, CancelSave
<1>4. \A j \in Wfs : wf'[j].template = wf[j].template /\ wf'[j].status # "wait"
  <2>1. CASE CancelSave(c)
    <3>1. \E i, cur : wf' = [wf EXCEPT ![i].status = "canceled", ![i].current = cur]
      BY <2>1 DEF CancelSave, SaveRequest
    <3> QED
      BY <1>t, <3>1 DEF WfRow, NoPauseInv
  <2>2. CASE UNCHANGED wf
    BY <2>2 DEF NoPauseInv
  <2> QED
    BY <1>2, <2>1, <2>2 DEF CancelRead, CancelTask
<1>5. budget'.pause = budget.pause /\ api'[c].op \in {"none", "cancel"}
  BY <1>t, <1>2 DEF CancelRead, CancelTask, CancelSave, Request, SaveRequest, NoRequest, ApiRequest
<1>6. \A d \in Clients \ {c} : api'[d] = api[d]
  BY <1>t, <1>2 DEF CancelRead, CancelTask, CancelSave, Request, SaveRequest
<1> QED
  BY <1>2, <1>3, <1>4, <1>5, <1>6 DEF NoPauseInv

LEMMA DispatchSends ==
  ASSUME TypeInv, NEW i \in Wfs, NEW ks \in SUBSET DOMAIN Connections, NEW k \in ks, queue' = Dispatch(i, ks)
  PROVE  Queued(i, Connections[k].target)'
<1> DEFINE count(q) == Cardinality({j \in ks : Connections[j].target = q})
<1>n. PICK n \in Nodes : n = Connections[k].target
  BY ConnectionType
<1>1. count(n) \in Nat
  BY DispatchCount
<1>2. count(n) # 0
  <2>1. IsFiniteSet(DOMAIN Connections)
    BY GraphAssumption, FS_Interval
  <2>2. IsFiniteSet({j \in ks : Connections[j].target = n})
    BY <2>1, FS_Subset
  <2>3. {j \in ks : Connections[j].target = n} # {}
    BY <1>n
  <2> QED
    BY <2>2, <2>3, FS_EmptySet
<1>3. queue' = [queue EXCEPT ![i] = [q \in Slots |-> queue[i][q] + count(q)]]
  BY DEF Dispatch
<1> HIDE DEF count
<1>4. queue \in [Wfs -> [Slots -> Nat]] /\ n \in Slots
  BY DEF TypeInv, TypeOK, Slots
<1>5. queue'[i][n] = queue[i][n] + count(n)
  BY <1>3, <1>4
<1>6. queue[i][n] \in Nat
  BY <1>4
<1>7. queue'[i][n] > 0
  BY <1>1, <1>2, <1>5, <1>6
<1> QED
  BY <1>n, <1>7 DEF Queued

\* A worker that advances from a node that is no condition sends all the next nodes.
LEMMA AdvanceSends ==
  ASSUME TypeInv, NEW w \in Workers, Advance(w, FALSE), NEW i \in Wfs, NEW n \in Nodes \ Condition, Working(w, i, n),
         NEW k \in Out(n)
  PROVE  Queued(i, Connections[k].target)'
<1>1. i = tasks[job[w].row].wf /\ n = tasks[job[w].row].node
  BY DEF Advance, Working, OwnRow, Ends
<1>2. NextConnections(n) = {Out(n)} /\ Out(n) # {} /\ Out(n) \in SUBSET DOMAIN Connections
  BY DEF NextConnections, Out
<1>3. queue' = Dispatch(i, Out(n))
  BY <1>1, <1>2 DEF Advance, Ends
<1> QED
  BY <1>2, <1>3, DispatchSends

LEMMA NoLostWorker ==
  ASSUME Wired, TreeInv, NoPauseInv, NoLostInv, TypeInv', KeepsRows, NEW w \in Workers, WorkerStep(w) \/ Fault(w)
  PROVE  NoLostInv'
<1>t. /\ TypeInv /\ LaunchInv /\ budget.crash = 0
      /\ wf \in [Wfs -> WfRow] /\ queue \in [Wfs -> [Slots -> Nat]]
  BY DEF TreeInv, TypeInv, TypeOK, PauseInv
<1>p. ~Park(w, FALSE)
  BY DEF NoPauseInv, Park, Ends
<1> SUFFICES ASSUME NEW i \in Wfs, NEW n \in Nodes, Due(i, n)',
                    \A k \in In(n) : ~Advancing(i, Connections[k].source)'
             PROVE  Reached(i, n)' \/ (In(n) = {} /\ Launching(i)')
  BY DEF NoLostInv, Covered, In
<1>1. TemplateOf[n] = wf'[i].template /\ Ready(i, n)' /\ \A k \in In(n) : Connections[k].source \notin Condition
  BY DEF Due, In
<1>2. Ready(i, n)
  <2>1. \A k \in In(n) : Connections[k].source \in Nodes /\ Complete(i, Connections[k].source)'
    BY <1>1, ConnectionType DEF Ready, In
  <2> QED
    BY <1>t, <2>1, WorkerComplete DEF CompleteOnly, Ready
<1>3. CASE Reached(i, n)
  BY <1>1, <1>3, ReachedStep
<1>4. CASE wf'[i].template # wf[i].template
  <2>1. Delegate(w)
    BY <1>t, <1>p, <1>4, WfStep
  <2>2. wf[i].status = "none" /\ queue' = Send(i, Launch)
    BY <1>t, <1>4, <2>1 DEF Delegate
  <2>3. In(n) = {}
    <3>1. ASSUME NEW k \in In(n) PROVE FALSE
      <4>1. HasRow(i, Connections[k].source) /\ Connections[k].source \in Nodes
        BY <1>2, ConnectionType DEF Ready, Complete, Rows, HasRow, Exists, In
      <4> QED
        BY <1>t, <2>2, <4>1 DEF LaunchInv, Reached
    <3> QED
      BY <3>1
  <2>4. queue'[i][Launch] > 0
    BY <1>t, <2>2 DEF Send, Slots
  <2> QED
    BY <2>3, <2>4 DEF Launching
<1>5. CASE wf'[i].template = wf[i].template
  <2>1. Covered(i, n)
    BY <1>1, <1>2, <1>5 DEF NoLostInv, Due
  <2>2. CASE In(n) = {} /\ Launching(i) /\ ~Launching(i)'
    <3>1. DispatchStartNodes(w, FALSE) /\ job[w].wf = i
      BY <1>t, <2>2, LaunchingStep
    <3>2. n \in StartNodes(wf[i].template) /\ n \in Slots
      BY <1>1, <1>5, <2>2 DEF StartNodes, Slots
    <3>3. queue'[i][n] > 0
      BY <1>t, <3>1, <3>2 DEF DispatchStartNodes, Ends
    <3> QED
      BY <3>3 DEF Reached, Queued
  <2>3. ASSUME NEW k \in In(n), Advancing(i, Connections[k].source) PROVE Reached(i, n)'
    <3>s. PICK s \in Nodes : s = Connections[k].source
      BY ConnectionType DEF In
    <3>1. Working(w, i, s) /\ (Advance(w, FALSE) \/ WrongConditionResult(w))
      BY <1>t, <2>3, <3>s, AdvancingStep
    <3>2. s \notin Condition /\ ~WrongConditionResult(w)
      BY <1>1, <3>s, <3>1 DEF WrongConditionResult, Working, OwnRow
    <3>3. k \in Out(s) /\ Connections[k].target = n
      BY <3>s DEF In, Out
    <3> QED
      BY <1>t, <3>1, <3>2, <3>3, AdvanceSends DEF Reached
  <2> QED
    BY <1>3, <2>1, <2>2, <2>3 DEF Covered
<1> QED
  BY <1>4, <1>5

LEMMA NoLostApi ==
  ASSUME TreeInv, NoPauseInv, NoLostInv, TypeInv', KeepsRows, NEW c \in Clients, ApiStep(c)
  PROVE  NoLostInv'
<1>t. TypeInv
  BY DEF TreeInv
<1>1. UNCHANGED <<queue, job>> /\ \A j \in Wfs : wf'[j].template = wf[j].template
  BY <1>t, NoPauseApi
<1>2. \A i, n : Advancing(i, n)' <=> Advancing(i, n)
  BY <1>t, <1>1, SameWorking DEF Advancing
<1>3. \A i, n : Complete(i, n)' => Complete(i, n)
  <2>1. CASE UNCHANGED tasks
    BY <2>1, SameComplete
  <2>2. ASSUME NEW t \in TaskIds, CancelTask(c, t) PROVE \A i, n : Complete(i, n)' => Complete(i, n)
    BY <1>t, <2>2, SavedComplete DEF CancelTask, TypeInv, RequestFilled
  <2> QED
    BY <1>t, <2>1, <2>2, NoPauseApi DEF CancelRead, CancelSave
<1>4. \A i \in Wfs, n \in Nodes : Reached(i, n) => Reached(i, n)'
  <2>1. \A i \in Wfs, n \in Nodes : ~Parked(i, n)
    BY DEF Parked, NoPauseInv
  <2> QED
    BY <1>1, <2>1, RowsStay DEF Reached, Queued, Holding
<1>5. \A i : Launching(i) => Launching(i)'
  BY <1>1 DEF Launching, Opening
<1>6. \A i \in Wfs, n \in Nodes : Due(i, n)' => Due(i, n)
  BY <1>1, <1>3 DEF Due, Ready, In
<1>7. \A i \in Wfs, n \in Nodes : Covered(i, n) => Covered(i, n)'
  BY <1>2, <1>4, <1>5 DEF Covered, In
<1> QED
  BY <1>6, <1>7 DEF NoLostInv

LostInv == TreeInv /\ NoPauseInv /\ NoLostInv

LEMMA InitLostInv ==
  ASSUME Init, Budget.crash = 0, Budget.pause = 0
  PROVE  LostInv
<1>1. TreeInv
  BY InitTreeInv
<1>2. NoPauseInv
  BY DEF Init, NoPauseInv, Idle, NoRequest, NoWorkflow
<1>3. \A i, n : ~Complete(i, n)
  BY DEF Init, Complete, Rows, NoTask
<1>4. ASSUME NEW i \in Wfs, NEW n \in Nodes, Due(i, n) PROVE Covered(i, n)
  <2>1. In(n) = {}
    BY <1>3, <1>4 DEF Due, Ready
  <2>2. i = Root
    <3>1. TemplateOf[n] # None
      BY RowAssumption DEF Templates
    <3> QED
      BY <1>4, <3>1 DEF Due, Init, NoWorkflow
  <2>3. queue[Root][Launch] = 1
    BY RowAssumption DEF Init, Slots
  <2> QED
    BY <2>1, <2>2, <2>3 DEF Covered, Launching
<1> QED
  BY <1>1, <1>2, <1>4 DEF LostInv, NoLostInv

LEMMA LostInvKept ==
  ASSUME Wired, LostInv, [Next]_vars
  PROVE  LostInv'
<1>t. TypeInv' /\ KeepsRows /\ TreeInv' /\ TreeInv /\ NoPauseInv /\ NoLostInv /\ TypeInv
  <2>1. ResumesAlone
    BY DEF LostInv, NoPauseInv, ResumesAlone, ResumeSave
  <2> QED
    BY <2>1, NextTypeInv, TreeInvKept DEF LostInv, TreeInv
<1>1. CASE UNCHANGED vars
  <2>1. NoPauseInv'
    BY <1>t, <1>1 DEF NoPauseInv, vars
  <2>2. \A i, n : Complete(i, n)' => Complete(i, n)
    BY <1>1, SameComplete DEF vars
  <2>3. \A i, n : Reached(i, n)' = Reached(i, n)
    BY <1>1 DEF vars, Reached, Queued, Parked, HasRow, Exists, Holding
  <2>4. \A i, n : Advancing(i, n)' = Advancing(i, n)
    BY <1>1 DEF vars, Advancing, Working, OwnRow
  <2>5. \A i : Launching(i)' = Launching(i)
    BY <1>1 DEF vars, Launching, Opening
  <2>6. \A i \in Wfs, n \in Nodes : Due(i, n)' => Due(i, n)
    BY <1>1, <2>2 DEF Due, Ready, In, vars
  <2>7. \A i \in Wfs, n \in Nodes : Covered(i, n) => Covered(i, n)'
    BY <2>3, <2>4, <2>5 DEF Covered, In
  <2> QED
    BY <1>t, <2>1, <2>6, <2>7 DEF LostInv, NoLostInv
<1>2. ASSUME NEW c \in Clients, ApiStep(c) PROVE LostInv'
  BY <1>t, <1>2, NoPauseApi, NoLostApi DEF LostInv
<1>3. ASSUME NEW w \in Workers, WorkerStep(w) \/ Fault(w) PROVE LostInv'
  <2>1. budget.crash = 0
    BY <1>t DEF TreeInv, PauseInv
  <2> QED
    BY <1>t, <1>3, <2>1, NoPauseWorker, NoLostWorker DEF LostInv
<1> QED
  BY <1>1, <1>2, <1>3 DEF Next

\* When nothing is queued, running or requested, what was reached has its row.
LEMMA QuiescentReached ==
  ASSUME NoPauseInv, Quiescent, NEW i \in Wfs, NEW n \in Nodes, Reached(i, n)
  PROVE  Rows(i, n) # {}
<1>1. ~Queued(i, n)
  BY DEF Quiescent, Queued, Slots
<1>2. \A w \in Workers : ~Holding(w, i, n)
  BY DEF Quiescent, Holding, Idle
<1>3. ~Parked(i, n)
  BY DEF NoPauseInv, Parked
<1>4. HasRow(i, n)
  BY <1>1, <1>2, <1>3 DEF Reached
<1> QED
  BY <1>4 DEF HasRow, Rows, Exists

\* No node of a workflow is forgotten, in every graph in which only single-input nodes that
\* finish by themselves feed others (the nodes they feed may have any number of inputs),
\* for all interleavings of the workers, with cancels, kills and failures. Joins behind joins
\* are excluded (a repeated row makes Task.objects.get fail), and so are pauses (the second
\* message that is parked overwrites the first) and worker crashes.
THEOREM NoLostNodeHolds ==
  ASSUME Wired, Budget.crash = 0, Budget.pause = 0
  PROVE  Spec => []NoLostNode
<1>1. Init => LostInv
  BY InitLostInv
<1>2. LostInv /\ [Next]_vars => LostInv'
  BY LostInvKept
<1>3. LostInv => NoLostNode
  <2> SUFFICES ASSUME LostInv, Quiescent, NEW i \in Wfs, NEW n \in Nodes,
                      TemplateOf[n] = wf[i].template,
                      \A k \in In(n) : Connections[k].source \notin Condition /\ Complete(i, Connections[k].source)
               PROVE  Rows(i, n) # {}
    BY DEF NoLostNode
  <2>1. Covered(i, n)
    BY DEF LostInv, NoLostInv, Due, Ready
  <2>2. ~Launching(i)
    BY DEF Quiescent, Launching, Opening, Idle, Slots
  <2>3. \A s : ~Advancing(i, s)
    BY DEF Quiescent, Advancing, Idle
  <2> QED
    BY <2>1, <2>2, <2>3, QuiescentReached DEF Covered, LostInv
<1> QED
  BY <1>1, <1>2, <1>3, PTL DEF Spec

-----------------------------------------------------------------------------
(* A condition takes one branch.                                           *)

LEMMA AdvanceRowWorker ==
  ASSUME TypeInv, budget.crash = 0, ParentInv, AdvanceRow, KeepsRows, NEW w \in Workers, WorkerStep(w) \/ Fault(w)
  PROVE  AdvanceRow'
<1>t. job \in [Workers -> Job]
  BY DEF TypeInv, TypeOK
<1> SUFFICES ASSUME NEW v \in Workers, job'[v].pc = "advance"
             PROVE  job'[v].row = job'[v].step \/ tasks'[job'[v].row].node \in DOMAIN Nested
  BY DEF AdvanceRow
<1>1. CASE job'[v] = job[v]
  <2>1. job[v].row \in TaskIds /\ Exists(job[v].row)
    BY <1>1, StepFacts DEF StepPcs, Pcs
  <2> QED
    BY <1>1, <2>1 DEF AdvanceRow, KeepsRows
<1>2. CASE v = w /\ OnSuccess(w)
  BY <1>t, <1>2 DEF OnSuccess, HandleTaskSuccess, Ack, Idle, Job
<1>3. CASE v = w /\ CompleteParentTask(w)
  <2>1. job[w].pc = "parent" /\ job'[w].row = job[w].row
    BY <1>t, <1>3 DEF CompleteParentTask, HandleTaskSuccess, Job
  <2>2. job[w].row \in TaskIds /\ Exists(job[w].row)
    BY <2>1, StepFacts DEF StepPcs, Pcs
  <2> QED
    BY <1>3, <2>1, <2>2 DEF ParentInv, KeepsRows
<1>4. CASE v = w /\ ~OnSuccess(w) /\ ~CompleteParentTask(w) /\ job'[w] # job[w]
  <2>1. CASE \E i \in Wfs : ExecuteWorkflowV2(w, i)
    BY <1>t, <1>4, <2>1 DEF ExecuteWorkflowV2, Take, Idle
  <2>2. CASE \E i \in Wfs, n \in Nodes : FetchWorkflow(w, i, n)
    BY <1>t, <1>4, <2>2 DEF FetchWorkflow, Take, Idle
  <2>3. CASE DispatchStartNodes(w, FALSE) \/ Park(w, FALSE) \/ Crash(w) \/ HardTimeLimit(w)
    BY <1>t, <1>4, <2>3 DEF DispatchStartNodes, Park, Crash, HardTimeLimit, Ack, Idle, Ends
  <2>4. CASE CheckInputs(w) \/ BeforeStart(w) \/ SaveNestedProgress(w)
    BY <1>t, <1>4, <2>4 DEF CheckInputs, BeforeStart, SaveNestedProgress, Goto, Ack, Idle, Job
  <2>5. CASE CreateTask(w)
    BY <1>t, <1>4, <2>5 DEF CreateTask, Job
  <2>6. CASE Delegate(w)
    BY <1>t, <1>4, <2>6 DEF Delegate, Goto, Job
  <2>7. CASE \E kind \in FailureKinds : UserCodeRaises(w, kind)
    BY <1>t, <1>4, <2>7, RowAssumption DEF UserCodeRaises, Goto, Job
  <2>8. CASE Advance(w, FALSE)
    BY <1>t, <1>4, <2>8 DEF Advance, Ack, Idle, Job, Ends
  <2>9. CASE WrongConditionResult(w)
    BY <1>t, <1>4, <2>9 DEF WrongConditionResult, Job
  <2>10. CASE OnFailure(w, FALSE)
    <3>1. job'[w].pc \in {"idle", "error", "timeout"}
      BY <1>t, <2>10 DEF OnFailure, Ack, Idle, Job, Ends
    <3> QED
      BY <1>4, <3>1
  <2>11. ~Log(w)
    BY <1>4 DEF Log
  <2> QED
    BY <1>4, <2>1, <2>2, <2>3, <2>4, <2>5, <2>6, <2>7, <2>8, <2>9, <2>10, <2>11, NoLoss DEF WorkerStep, Fault
<1> QED
  BY <1>1, <1>2, <1>3, <1>4, OtherWorkers

\* A message enters the queue when the start nodes or the next nodes are dispatched.
LEMMA QueueGrows ==
  ASSUME TypeInv, budget.crash = 0, NEW w \in Workers, WorkerStep(w) \/ Fault(w), NEW i \in Wfs, NEW n \in Nodes,
         Queued(i, n)', ~Queued(i, n)
  PROVE  \/ \E t : n \in StartNodes(t)
         \/ \E s \in Nodes : \E ks \in NextConnections(s) :
              Working(w, i, s) /\ queue' = Dispatch(i, ks) /\ \E k \in ks : Connections[k].target = n
<1>t. queue \in [Wfs -> [Slots -> Nat]] /\ n \in Slots /\ n # Launch /\ queue[i][n] = 0
  <2>1. queue \in [Wfs -> [Slots -> Nat]] /\ n \in Slots /\ n # Launch
    BY RowAssumption DEF TypeInv, TypeOK, Slots
  <2>2. queue[i][n] \in Nat /\ ~(queue[i][n] > 0)
    BY <2>1 DEF Queued
  <2> QED
    BY <2>1, <2>2
<1>q. queue'[i][n] > 0
  BY DEF Queued
<1>1. CASE UNCHANGED queue
  BY <1>1 DEF Queued
<1>2. CASE \E j \in Wfs : ExecuteWorkflowV2(w, j)
  BY <1>t, <1>q, <1>2 DEF ExecuteWorkflowV2, Take
<1>3. CASE \E j \in Wfs, m \in Nodes : FetchWorkflow(w, j, m)
  <2>1. PICK j \in Wfs, m \in Nodes : FetchWorkflow(w, j, m)
    BY <1>3
  <2>2. queue[j][m] \in Nat /\ m \in Slots /\ queue[j][m] > 0 /\ queue' = [queue EXCEPT ![j][m] = @ - 1]
    BY <1>t, <2>1 DEF FetchWorkflow, Take, Slots
  <2>3. j # i \/ m # n
    BY <1>t, <2>2
  <2> QED
    BY <1>t, <1>q, <2>2, <2>3
<1>4. CASE DispatchStartNodes(w, FALSE)
  <2>1. PICK j \in Wfs : j = job[w].wf
    BY <1>4 DEF DispatchStartNodes, TypeInv, JobsFilled, JobFilled, Ends
  <2>2. queue' = [queue EXCEPT ![j] =
         [q \in Slots |-> queue[j][q] + (IF q \in StartNodes(wf[j].template) THEN 1 ELSE 0)]]
    BY <1>4, <2>1 DEF DispatchStartNodes, Ends
  <2>3. n \in StartNodes(wf[j].template)
    BY <1>t, <1>q, <2>2
  <2> QED
    BY <2>3
<1>5. CASE Delegate(w)
  BY <1>t, <1>q, <1>5 DEF Delegate, Send, Slots
<1>6. CASE Advance(w, FALSE) /\ ~UNCHANGED queue
  <2>1. PICK j \in Wfs, s \in Nodes : j = tasks[job[w].row].wf /\ s = tasks[job[w].row].node
    BY <1>6, StepFacts DEF Advance, StepPcs, Pcs, Ends
  <2>2. PICK ks \in NextConnections(s) : queue' = Dispatch(j, ks)
    BY <1>6, <2>1 DEF Advance, Ends
  <2>3. Working(w, j, s)
    BY <1>6, <2>1 DEF Advance, Working, OwnRow, Ends
  <2>4. j = i /\ \E k \in ks : Connections[k].target = n
    BY <1>q, <2>2, DispatchGrows
  <2> QED
    BY <1>6, <2>2, <2>3, <2>4
<1>7. ~Crash(w)
  BY DEF Crash
<1> QED
  BY <1>1, <1>2, <1>3, <1>4, <1>5, <1>6, <1>7, NoLoss
     DEF WorkerStep, Fault, CheckInputs, BeforeStart, Log, SaveNestedProgress, UserCodeRaises, OnSuccess, Park,
         CreateTask, WrongConditionResult, CompleteParentTask, OnFailure, HardTimeLimit, Ends

\* A node is reached anew only through the queue.
LEMMA ReachedNew ==
  ASSUME TreeInv, NoPauseInv', KeepsRows, NEW w \in Workers, WorkerStep(w) \/ Fault(w),
         NEW i \in Wfs, NEW n \in Nodes, Reached(i, n)', ~Reached(i, n)
  PROVE  Queued(i, n)' /\ ~Queued(i, n)
<1>t. TypeInv /\ budget.crash = 0 /\ job \in [Workers -> Job]
  BY DEF TreeInv, TypeInv, TypeOK, PauseInv
<1>1. ~Queued(i, n) /\ (\A v \in Workers : ~Holding(v, i, n)) /\ ~HasRow(i, n)
  BY DEF Reached
<1>2. ~Parked(i, n)'
  BY DEF Parked, NoPauseInv
<1>3. ASSUME NEW v \in Workers, Holding(v, i, n)' PROVE FALSE
  <2>1. v = w
    BY <1>t, <1>1, <1>3, OtherWorkers DEF Holding
  <2>2. job'[w].pc \in Waits /\ job'[w].wf = i /\ job'[w].node = n
    BY <1>3, <2>1 DEF Holding, Waits
  <2>3. CASE CalmAction(w)
    BY <1>t, <1>1, <1>3, <2>1, <2>3, QuietActionJob DEF JobQuiet, TreeInv
  <2>4. CASE \E j \in Wfs : ExecuteWorkflowV2(w, j)
    BY <1>t, <2>2, <2>4 DEF ExecuteWorkflowV2, Take, Idle, Waits
  <2>5. CASE \E j \in Wfs, m \in Nodes : FetchWorkflow(w, j, m)
    BY <1>t, <1>1, <2>2, <2>5 DEF FetchWorkflow, Take, Idle, Queued
  <2>6. CASE DispatchStartNodes(w, FALSE) \/ Park(w, FALSE)
    BY <1>t, <2>2, <2>6 DEF DispatchStartNodes, Park, Ack, Idle, Waits, Ends
  <2>7. CASE CreateTask(w)
    BY <1>t, <2>2, <2>7 DEF CreateTask, Job, Waits
  <2>8. CASE Delegate(w)
    BY <1>t, <2>2, <2>8 DEF Delegate, Goto, Job, Waits
  <2>9. CASE Advance(w, FALSE) /\ ~UNCHANGED queue
    BY <1>t, <2>2, <2>9 DEF Advance, Ack, Idle, Waits, Ends
  <2>10. ~Crash(w)
    BY <1>t DEF Crash
  <2> QED
    BY <1>t, <2>3, <2>4, <2>5, <2>6, <2>7, <2>8, <2>9, <2>10, NoLoss DEF WorkerStep, Fault, CalmAction
<1>4. ~HasRow(i, n)'
  <2>1. CASE NoNewRows
    BY <1>1, <2>1, RowsQuiet
  <2>2. CASE CreateTask(w)
    <3>1. PICK t \in TaskIds :
            tasks' = [tasks EXCEPT ![t] = [wf |-> job[w].wf, node |-> job[w].node, status |-> "init"]]
      BY <2>2 DEF CreateTask
    <3>2. ~(job[w].wf = i /\ job[w].node = n)
      BY <1>1, <2>2 DEF CreateTask, Holding
    <3>3. tasks \in [TaskIds -> TaskRow]
      BY <1>t DEF TypeInv, TypeOK
    <3>4. /\ tasks'[t].wf = job[w].wf /\ tasks'[t].node = job[w].node
          /\ \A u \in TaskIds \ {t} : tasks'[u] = tasks[u]
      BY <3>1, <3>3
    <3> QED
      BY <1>1, <3>2, <3>4 DEF HasRow, Exists
  <2>3. CASE UNCHANGED tasks
    BY <2>1, <2>3, SameNoNewRows
  <2>4. CASE CalmAction(w)
    BY <1>t, <2>1, <2>4, CalmActionRows
  <2> QED
    BY <1>t, <2>2, <2>3, <2>4, NoLoss
       DEF WorkerStep, Fault, CalmAction, ExecuteWorkflowV2, DispatchStartNodes, FetchWorkflow, Park, Delegate,
           Advance, Crash, Ends
<1> QED
  BY <1>1, <1>2, <1>3, <1>4 DEF Reached

LEMMA BranchFacts ==
  ASSUME NEW n \in Condition
  PROVE  /\ n \in Nodes /\ n \notin DOMAIN Nested
         /\ \A k \in Branches(n) : /\ k \in DOMAIN Connections /\ Connections[k].source = n
                                   /\ Connections[k].target \in Nodes /\ k \in In(Connections[k].target)
         /\ \A ks \in NextConnections(n) : ks \subseteq Branches(n) /\ \A j, k \in ks : j = k
<1>1. n \in Nodes /\ n \notin DOMAIN Nested
  BY GraphAssumption
<1>2. \A k \in Branches(n) : k \in Out(n)
  BY DEF Branches, NextConnections, NextNodeByCondition
<1>3. \A k \in Out(n) : k \in Nat
  <2>1. DOMAIN Connections = 1..Len(Connections) /\ Len(Connections) \in Nat
    BY GraphAssumption
  <2> QED
    BY <2>1 DEF Out
<1>4. ASSUME NEW ks \in NextConnections(n), NEW j \in ks, NEW k \in ks PROVE j = k
  <2>1. PICK o : ks = NextNodeByCondition(n, o)
    BY <1>4 DEF NextConnections
  <2>2. j \in Out(n) /\ k \in Out(n) /\ j <= k /\ k <= j
    BY <2>1 DEF NextNodeByCondition
  <2> QED
    BY <1>3, <2>2
<1>5. \A ks \in NextConnections(n) : ks \subseteq Branches(n)
  BY DEF Branches
<1> QED
  BY <1>1, <1>2, <1>4, <1>5, ConnectionType DEF Out, In

LEMMA OneBranchWorker ==
  ASSUME Branching, TreeInv, NoPauseInv', BranchInv, KeepsRows, NEW w \in Workers, WorkerStep(w) \/ Fault(w),
         NEW i \in Wfs, NEW n \in Condition
  PROVE  OneBranch(i, n)'
<1>t. TypeInv /\ OnceInv /\ budget.crash = 0 /\ OneBranch(i, n)
  BY DEF TreeInv, PauseInv, BranchInv
<1> DEFINE to(k) == Connections[k].target
<1>1. ASSUME NEW k \in Branches(n), Reached(i, to(k))', ~Reached(i, to(k))
      PROVE  /\ Working(w, i, n)
             /\ \E ks \in NextConnections(n) : queue' = Dispatch(i, ks) /\ k \in ks
  <2>1. k \in In(to(k)) /\ Connections[k].source = n /\ to(k) \in Nodes /\ to(k) \in Single
    BY BranchFacts DEF Branching
  <2>2. Queued(i, to(k))' /\ ~Queued(i, to(k))
    BY <1>1, <2>1, ReachedNew
  <2>3. ~ \E t : to(k) \in StartNodes(t)
    BY <2>1 DEF StartNodes
  <2>4. PICK s \in Nodes : /\ Working(w, i, s)
                           /\ \E ks \in NextConnections(s) : /\ queue' = Dispatch(i, ks)
                                                              /\ \E j \in ks : Connections[j].target = to(k)
    <3>1. PICK m \in Nodes : m = to(k)
      BY <2>1
    <3>2. Queued(i, m)' /\ ~Queued(i, m) /\ ~ \E t : m \in StartNodes(t)
      BY <2>2, <2>3, <3>1
    <3> HIDE DEF to
    <3>3. \E s \in Nodes : Working(w, i, s) /\
            \E ks \in NextConnections(s) : queue' = Dispatch(i, ks) /\ \E j \in ks : Connections[j].target = m
      BY <1>t, <3>2, QueueGrows
    <3> QED
      BY <3>1, <3>3
  <2>5. PICK ks \in NextConnections(s) : queue' = Dispatch(i, ks) /\ \E j \in ks : Connections[j].target = to(k)
    BY <2>4
  <2>6. PICK j \in ks : Connections[j].target = to(k)
    BY <2>5
  <2>7. j \in DOMAIN Connections /\ Connections[j].source = s
    BY <2>6 DEF NextConnections, NextNodeByCondition, Out
  <2>8. j = k
    BY <2>1, <2>6, <2>7 DEF Single, In
  <2> QED
    BY <2>1, <2>4, <2>5, <2>6, <2>7, <2>8
<1>2. ASSUME NEW k \in Branches(n), Reached(i, to(k)) PROVE ~Working(w, i, n)
  <2>1. k \in In(to(k)) /\ Connections[k].source = n /\ to(k) \in Single
    BY BranchFacts DEF Branching
  <2> QED
    BY <1>t, <1>2, <2>1 DEF OnceInv, SentOnce
<1> SUFFICES ASSUME NEW j \in Branches(n), NEW k \in Branches(n), Reached(i, to(j))', Reached(i, to(k))'
             PROVE  j = k
  BY DEF OneBranch, Branches, NextConnections, NextNodeByCondition, Out
<1>3. CASE Reached(i, to(j)) /\ Reached(i, to(k))
  BY <1>t, <1>3 DEF OneBranch
<1>4. CASE ~Reached(i, to(j)) /\ ~Reached(i, to(k))
  <2>1. PICK ks \in NextConnections(n) : queue' = Dispatch(i, ks) /\ j \in ks
    BY <1>1, <1>4
  <2>2. k \in ks
    <3>1. k \in In(to(k)) /\ to(k) \in Nodes /\ to(k) \in Single /\ ks \subseteq Branches(n)
      BY BranchFacts DEF Branching
    <3>2. Queued(i, to(k))' /\ ~Queued(i, to(k))
      BY <1>4, <3>1, ReachedNew
    <3>3. PICK l \in ks : Connections[l].target = to(k)
      <4>1. queue'[i][to(k)] > 0
        BY <3>2 DEF Queued
      <4> QED
        BY <1>t, <2>1, <3>1, <3>2, <4>1, DispatchGrows
    <3>4. l \in In(to(k))
      BY <3>1, <3>3, BranchFacts
    <3> QED
      BY <3>1, <3>3, <3>4 DEF Single
  <2> QED
    BY <2>1, <2>2, BranchFacts
<1> QED
  BY <1>1, <1>2, <1>3, <1>4

LEMMA SomeBranchWorker ==
  ASSUME Wired, Branching, TreeInv, NoPauseInv, AdvanceRow, BranchInv, KeepsRows,
         NEW w \in Workers, WorkerStep(w) \/ Fault(w), NEW i \in Wfs, NEW n \in Condition
  PROVE  SomeBranch(i, n)'
<1>t. TypeInv /\ budget.crash = 0 /\ SomeBranch(i, n) /\ job \in [Workers -> Job] /\ tasks \in [TaskIds -> TaskRow]
  BY DEF TreeInv, TypeInv, TypeOK, PauseInv, BranchInv
<1>n. n \in Nodes /\ n \notin DOMAIN Nested
  BY BranchFacts
<1> SUFFICES ASSUME Complete(i, n)', {} \notin NextConnections(n), ~Advancing(i, n)'
             PROVE  Failing(i, n)' \/ \E k \in Branches(n) : Reached(i, Connections[k].target)'
  BY DEF SomeBranch, Branches, NextConnections, NextNodeByCondition, Out
<1>1. Complete(i, n)
  BY <1>t, <1>n, WorkerComplete DEF CompleteOnly
<1>2. CASE Advancing(i, n)
  <2>1. Working(w, i, n) /\ (Advance(w, FALSE) \/ WrongConditionResult(w))
    BY <1>t, <1>2, AdvancingStep
  <2>2. job[w].pc = "advance" /\ tasks[job[w].row].wf = i /\ tasks[job[w].row].node = n
    BY <2>1 DEF Working, OwnRow, Advance, WrongConditionResult, Ends
  <2>3. CASE Advance(w, FALSE)
    <3>1. PICK ks \in NextConnections(n) : ks # {} /\ queue' = Dispatch(i, ks)
      BY <2>2, <2>3 DEF Advance, Ends
    <3>2. PICK k \in ks : TRUE
      BY <3>1
    <3>3. k \in Branches(n) /\ ks \in SUBSET DOMAIN Connections
      BY <3>2, BranchFacts
    <3>4. Queued(i, Connections[k].target)'
      BY <1>t, <3>1, <3>2, <3>3, DispatchSends
    <3> QED
      BY <3>3, <3>4 DEF Reached
  <2>4. CASE WrongConditionResult(w)
    <3>1. job[w].row = job[w].step /\ job[w].row \in TaskIds /\ Exists(job[w].row)
      BY <1>t, <1>n, <2>2, StepFacts DEF AdvanceRow, StepPcs, Pcs
    <3>2. job'[w].pc = "error" /\ job'[w].row = job[w].row
      BY <1>t, <2>4, <3>1 DEF WrongConditionResult, Job
    <3> QED
      BY <2>2, <3>1, <3>2 DEF Failing, KeepsRows
  <2> QED
    BY <2>1, <2>3, <2>4
<1>3. ASSUME NEW v \in Workers, job[v].pc = "error", tasks[job[v].row].wf = i, tasks[job[v].row].node = n
      PROVE  Failing(i, n)'
  <2>1. PICK t \in TaskIds : t = job[v].row /\ Exists(t)
    BY <1>t, <1>3, StepFacts DEF StepPcs, Pcs
  <2>2. CASE v # w
    <3>1. job'[v] = job[v]
      BY <1>t, <2>2, OtherWorkers
    <3> QED
      BY <1>3, <2>1, <3>1 DEF Failing, KeepsRows
  <2>3. CASE v = w
    <3>1. OnFailure(w, FALSE)
      BY <1>t, <1>3, <2>3, StepAt
    <3>2. SetTask(t, "error")
      BY <1>3, <2>1, <2>3, <3>1 DEF OnFailure, Ends
    <3>3. tasks'[t].status = "error" /\ tasks'[t].wf = i /\ tasks'[t].node = n
      BY <1>t, <1>3, <2>1, <3>2 DEF SetTask, TaskRow
    <3>4. t \in Rows(i, n)'
      BY <3>3 DEF Rows
    <3> QED
      BY <3>3, <3>4 DEF Complete
  <2> QED
    BY <2>2, <2>3
<1>4. ASSUME NEW k \in Branches(n), Reached(i, Connections[k].target) PROVE Reached(i, Connections[k].target)'
  <2>1. PICK m \in Single : m = Connections[k].target /\ k \in In(m) /\ Connections[k].source = n /\ m \in Nodes
    BY BranchFacts DEF Branching
  <2>2. \A j \in In(m) : Connections[j].source = n
    BY <2>1 DEF Single
  <2>3. Ready(i, m)'
    BY <2>2 DEF Ready, In
  <2> QED
    BY <1>4, <2>1, <2>3, ReachedStep
<1> QED
  BY <1>t, <1>1, <1>2, <1>3, <1>4 DEF SomeBranch, Failing

LEMMA BranchApi ==
  ASSUME TreeInv, NoPauseInv, NoPauseInv', AdvanceRow, BranchInv, KeepsRows, NEW c \in Clients, ApiStep(c)
  PROVE  AdvanceRow' /\ BranchInv'
<1>t. TypeInv
  BY DEF TreeInv
<1>1. UNCHANGED <<queue, job>>
  BY <1>t, NoPauseApi
<1>r. \A v \in Workers : job[v].pc \in StepPcs =>
        /\ job[v].row \in TaskIds
        /\ tasks'[job[v].row].wf = tasks[job[v].row].wf /\ tasks'[job[v].row].node = tasks[job[v].row].node
  BY <1>t, StepFacts DEF KeepsRows
<1>2. AdvanceRow'
  BY <1>1, <1>r DEF AdvanceRow, StepPcs, Pcs
<1>3. \A i, n : Advancing(i, n)' <=> Advancing(i, n)
  BY <1>t, <1>1, SameWorking DEF Advancing
<1>4. \A i, n : Failing(i, n)' <=> Failing(i, n)
  BY <1>1, <1>r DEF Failing, StepPcs, Pcs
<1>5. NoNewRows /\ \A i, n : Complete(i, n)' => Complete(i, n)
  <2>1. CASE UNCHANGED tasks
    BY <2>1, SameComplete, SameNoNewRows
  <2>2. ASSUME NEW t \in TaskIds, CancelTask(c, t) PROVE NoNewRows /\ \A i, n : Complete(i, n)' => Complete(i, n)
    BY <1>t, <2>2, SavedComplete, SavedNoNewRows DEF CancelTask, TypeInv, RequestFilled
  <2> QED
    BY <1>t, <2>1, <2>2, NoPauseApi DEF CancelRead, CancelSave
<1>6. ASSUME NEW i \in Wfs, NEW n \in Nodes PROVE Reached(i, n)' <=> Reached(i, n)
  <2>1. ~Parked(i, n) /\ ~Parked(i, n)'
    BY DEF Parked, NoPauseInv
  <2>2. HasRow(i, n)' <=> HasRow(i, n)
    BY <1>5, RowsQuiet
  <2>3. (Queued(i, n)' <=> Queued(i, n)) /\ \A w \in Workers : Holding(w, i, n)' <=> Holding(w, i, n)
    BY <1>1 DEF Queued, Holding
  <2> QED
    BY <2>1, <2>2, <2>3 DEF Reached
<1>7. ASSUME NEW i \in Wfs, NEW n \in Condition PROVE OneBranch(i, n)' /\ SomeBranch(i, n)'
  <2>1. Branches(n)' = Branches(n) /\ NextConnections(n)' = NextConnections(n)
    BY DEF Branches, NextConnections, NextNodeByCondition, Out
  <2>2. \A k \in Branches(n) : Reached(i, Connections[k].target)' <=> Reached(i, Connections[k].target)
    BY <1>6, BranchFacts
  <2>3. OneBranch(i, n) /\ SomeBranch(i, n)
    BY DEF BranchInv
  <2>4. OneBranch(i, n)'
    BY <2>1, <2>2, <2>3 DEF OneBranch
  <2>5. SomeBranch(i, n)'
    BY <1>3, <1>4, <1>5, <2>1, <2>2, <2>3 DEF SomeBranch
  <2> QED
    BY <2>4, <2>5
<1> QED
  BY <1>2, <1>7 DEF BranchInv

LEMMA BranchStuttering ==
  ASSUME AdvanceRow, BranchInv, UNCHANGED vars
  PROVE  AdvanceRow' /\ BranchInv'
<1>1. AdvanceRow'
  BY DEF AdvanceRow, vars
<1>2. \A i, n : Reached(i, n)' = Reached(i, n)
  BY DEF vars, Reached, Queued, Parked, HasRow, Exists, Holding
<1>3. \A i, n : Advancing(i, n)' = Advancing(i, n)
  BY DEF vars, Advancing, Working, OwnRow
<1>4. \A i, n : Failing(i, n)' = Failing(i, n)
  BY DEF vars, Failing
<1>5. \A i, n : Complete(i, n)' => Complete(i, n)
  BY SameComplete DEF vars
<1>6. \A n : Branches(n)' = Branches(n) /\ NextConnections(n)' = NextConnections(n)
  BY DEF Branches, NextConnections, NextNodeByCondition, Out
<1> QED
  BY <1>1, <1>2, <1>3, <1>4, <1>5, <1>6 DEF BranchInv, OneBranch, SomeBranch

ChoiceInv == LostInv /\ AdvanceRow /\ BranchInv

LEMMA ChoiceInvKept ==
  ASSUME Wired, Branching, ChoiceInv, [Next]_vars
  PROVE  ChoiceInv'
<1>t. TypeInv /\ TreeInv /\ NoPauseInv /\ ParentInv /\ AdvanceRow /\ BranchInv /\ KeepsRows /\ LostInv' /\ NoPauseInv'
  BY NextTypeInv, LostInvKept DEF ChoiceInv, LostInv, TreeInv
<1>1. CASE UNCHANGED vars
  BY <1>t, <1>1, BranchStuttering DEF ChoiceInv
<1>2. ASSUME NEW c \in Clients, ApiStep(c) PROVE ChoiceInv'
  BY <1>t, <1>2, BranchApi DEF ChoiceInv
<1>3. ASSUME NEW w \in Workers, WorkerStep(w) \/ Fault(w) PROVE ChoiceInv'
  <2>1. AdvanceRow'
    BY <1>t, <1>3, AdvanceRowWorker DEF TreeInv, PauseInv
  <2>2. \A i \in Wfs, n \in Condition : OneBranch(i, n)'
    BY <1>t, <1>3, OneBranchWorker
  <2>3. \A i \in Wfs, n \in Condition : SomeBranch(i, n)'
    BY <1>t, <1>3, SomeBranchWorker
  <2> QED
    BY <1>t, <2>1, <2>2, <2>3 DEF ChoiceInv, BranchInv
<1> QED
  BY <1>1, <1>2, <1>3 DEF Next

\* A condition that completes takes exactly one of its branches, in every graph in which it
\* and its targets have one input, for all interleavings of the workers, with cancels, kills
\* and failures, a result without the "result" key included. Pauses and crashes are excluded
\* as for NoLostNodeHolds.
THEOREM OneBranchTakenHolds ==
  ASSUME Wired, Branching, Budget.crash = 0, Budget.pause = 0
  PROVE  Spec => []OneBranchTaken
<1>1. Init => ChoiceInv
  <2> SUFFICES ASSUME Init PROVE ChoiceInv
    OBVIOUS
  <2>1. LostInv
    BY InitLostInv
  <2>2. AdvanceRow
    BY DEF Init, AdvanceRow, Idle
  <2>3. BranchInv
    <3>1. \A i, n : ~Complete(i, n)
      BY DEF Init, Complete, Rows, NoTask
    <3>2. \A i \in Wfs, n \in Nodes : ~Reached(i, n)
      <4>1. wf[Root].status = "init" /\ queue[Root][Launch] = 1
        BY RowAssumption DEF Init, NoWorkflow, Slots
      <4>2. \A i \in Wfs : i # Root => wf[i].status = "none"
        BY DEF Init, NoWorkflow
      <4>3. LaunchInv /\ Launching(Root)
        BY <2>1, <4>1 DEF LostInv, TreeInv, Launching
      <4> QED
        BY <4>2, <4>3 DEF LaunchInv
    <3> QED
      BY <3>1, <3>2, BranchFacts DEF BranchInv, OneBranch, SomeBranch
  <2> QED
    BY <2>1, <2>2, <2>3 DEF ChoiceInv
<1>2. ChoiceInv /\ [Next]_vars => ChoiceInv'
  BY ChoiceInvKept
<1>3. ChoiceInv => OneBranchTaken
  <2> SUFFICES ASSUME ChoiceInv, Quiescent, NEW i \in Wfs, NEW n \in Condition,
                      Complete(i, n), {} \notin NextConnections(n)
               PROVE  Cardinality({m \in {Connections[k].target : k \in UNION NextConnections(n)} : Rows(i, m) # {}}) = 1
    BY DEF OneBranchTaken
  <2> DEFINE taken == {m \in {Connections[k].target : k \in UNION NextConnections(n)} : Rows(i, m) # {}}
  <2>1. OneBranch(i, n) /\ SomeBranch(i, n) /\ NoPauseInv
    BY DEF ChoiceInv, LostInv, BranchInv
  <2>2. ~Advancing(i, n) /\ ~Failing(i, n)
    BY DEF Quiescent, Advancing, Failing, Idle
  <2>3. PICK k \in Branches(n) : Reached(i, Connections[k].target)
    BY <2>1, <2>2 DEF SomeBranch
  <2>4. Connections[k].target \in taken
    BY <2>1, <2>3, BranchFacts, QuiescentReached DEF Branches
  <2>5. ASSUME NEW m \in taken PROVE m = Connections[k].target
    <3>1. PICK j \in Branches(n) : m = Connections[j].target
      BY DEF Branches
    <3>2. Reached(i, m)
      BY DEF Rows, Reached, HasRow, Exists
    <3> QED
      BY <2>1, <2>3, <3>1, <3>2 DEF OneBranch
  <2>6. taken = {Connections[k].target}
    BY <2>4, <2>5
  <2>7. Cardinality({Connections[k].target}) = 1
    BY FS_Singleton
  <2> HIDE DEF taken
  <2>8. Cardinality(taken) = 1
    BY <2>6, <2>7
  <2> QED
    BY <2>8 DEF taken
<1> QED
  BY <1>1, <1>2, <1>3, PTL DEF Spec

-----------------------------------------------------------------------------
(* The outcome of nested workflows, where one process executes serial      *)
(* templates.                                                              *)

\* Every template has one start node, and the next node is always a single one.
Serial ==
  /\ Single = Nodes
  /\ \A n \in Nodes : \A ks \in NextConnections(n) : \A j, k \in ks : j = k
  /\ \A t \in Templates : \E n \in Nodes : StartNodes(t) = {n}

OneProcess == \A v, w \in Workers : v = w

\* No user interferes, and no fault happens.
Undisturbed == Budget.pause = 0 /\ Budget.cancel = 0 /\ Budget.crash = 0 /\ Budget.kill = 0

CalmInv ==
  /\ budget.pause = 0 /\ budget.cancel = 0 /\ budget.crash = 0 /\ budget.kill = 0
  /\ \A c \in Clients : api[c] = NoRequest
  /\ \A i \in Wfs : wf[i].status # "wait"
  /\ \A w \in Workers : job[w].pc # "park"

\* The workflows that have not ended.
Live == {i \in Wfs : wf[i].status \in {"init", "progress"}}

\* The workflow that a worker is busy with. While a delegating step returns, that is
\* the nested workflow, whose message is already queued.
Away == {"idle", "delegated", "returned"}
Seat(w) == IF job[w].pc \in StepPcs THEN tasks[job[w].row].wf ELSE job[w].wf
Seated(w, i) == job[w].pc \notin Away /\ Seat(w) = i
Token(i) == (\E m \in Slots : Queued(i, m)) \/ \E w \in Workers : Seated(w, i)

\* There is one thing to do at a time.
TokenInv ==
  /\ \A i, j \in Wfs : Token(i) /\ Token(j) => i = j
  /\ \A i \in Wfs : \A m, n \in Slots : Queued(i, m) => queue[i][m] = 1 /\ (Queued(i, n) => m = n)
  /\ \A w \in Workers : job[w].pc \notin Away => \A i \in Wfs, m \in Slots : ~Queued(i, m)
  /\ \A w \in Workers : job[w].pc \in {"delegated", "returned"} =>
       \E c \in Wfs : Queued(c, Launch) /\ wf[c].parent = job[w].wf /\ wf[c].node = job[w].node

\* Workflow c launched workflow i, directly or through others, or is i itself.
Above(i, c) ==
  \A T \in SUBSET Wfs : i \in T /\ (\A j \in T : HasParent(j) => wf[j].parent \in T) => c \in T

\* The live workflows are those above the one where something is to be done.
LiveInv ==
  /\ \A i \in Wfs : Token(i) => i \in Live /\ \A c \in Live : wf[c].parent # i
  /\ \A c \in Live : HasParent(c) =>
       wf[c].parent \in Live /\ \A d \in Live : wf[d].parent = wf[c].parent => d = c
  /\ \A c \in Live : \E i \in Wfs : Token(i) /\ Above(i, c)

\* Task t launched workflow c.
Child(c, t) == HasParent(c) /\ t \in Rows(wf[c].parent, wf[c].node)

Pending(i, n) == Queued(i, n) \/ \E w \in Workers : Holding(w, i, n)

\* A worker, or a workflow that t launched, has yet to complete t or to send it on.
Unfinished(t) ==
  \/ \E w \in Workers : job[w].pc \in Works \union {"parent"} /\ job[w].row = t
  \/ \E c \in Live : Child(c, t)

\* Nodes are executed once, one after the other.
SerialRows ==
  /\ \A i \in Wfs, n \in Nodes : \A t, u \in Rows(i, n) : t = u
  /\ \A i \in Wfs, n \in Nodes : Pending(i, n) =>
       /\ Rows(i, n) = {}
       /\ \A k \in In(n) : \E t \in Rows(i, Connections[k].source) : tasks[t].status = "success"
  /\ \A i \in Wfs : Launching(i) => \A t \in TaskIds : Exists(t) => tasks[t].wf # i
  /\ \A t \in TaskIds : Exists(t) /\ Unfinished(t) =>
       \A k \in Out(tasks[t].node) : Rows(tasks[t].wf, Connections[k].target) = {}

\* What a worker does to a delegating row is what became of its child.
OutcomeStep(w) ==
  /\ job[w].pc \in Works \ {"advance"} => job[w].row = job[w].step
  /\ job[w].pc \in {"before_start", "run"} => \A c \in Wfs : ~Child(c, job[w].step)
  /\ job[w].pc \in {"delegated", "returned"} => job[w].node \in DOMAIN Nested
  /\ job[w].pc = "run" => tasks[job[w].step].status = "progress"
  /\ job[w].pc = "returned" => tasks[job[w].step].status = "nested-progress"
  /\ job[w].pc = "advance" =>
       /\ tasks[job[w].row].status = "success"
       /\ job[w].row = job[w].step \/ tasks[job[w].row].node \in DOMAIN Nested
  /\ job[w].pc = "parent" =>
       /\ tasks[job[w].row].node \in DOMAIN Nested
       /\ \A c \in Wfs : Child(c, job[w].row) => wf[c].status = "success"
  /\ job[w].pc \in {"error", "timeout"} => \A c \in Wfs : Child(c, job[w].row) => wf[c].status = job[w].pc

Settled(c, t) ==
  \/ tasks[t].status = wf[c].status
  \/ \E w \in Workers : job[w].pc \in {"parent", "error", "timeout"} /\ job[w].row = t

OutcomeInv ==
  /\ \A c, d \in Wfs : HasParent(c) /\ wf[c].parent = wf[d].parent /\ wf[c].node = wf[d].node => c = d
  /\ \A c \in Wfs \ Live, t \in TaskIds : Child(c, t) => Settled(c, t)
  /\ \A w \in Workers : OutcomeStep(w)

Opened == \A i \in Wfs : wf[i].status # "none" => wf[i].template \in Templates

SerialBase == RefinementInv /\ HomeInv /\ LaunchedBy /\ CalmInv /\ Opened
SerialInv == SerialBase /\ TokenInv /\ LiveInv /\ SerialRows /\ OutcomeInv

\* The rows of a node stay the same when no row is created.
LEMMA RowsSame ==
  ASSUME KeepsRows, NoNewRows, NEW i, NEW n
  PROVE  Rows(i, n)' = Rows(i, n)
BY DEF KeepsRows, NoNewRows, Rows, Exists

LEMMA ChildSame ==
  ASSUME KeepsRows, NoNewRows, KeepsParents, NEW c \in Wfs, NEW t
  PROVE  Child(c, t)' = Child(c, t)
<1>1. wf'[c].parent = wf[c].parent /\ wf'[c].node = wf[c].node
  BY DEF KeepsParents
<1>2. Rows(wf[c].parent, wf[c].node)' = Rows(wf[c].parent, wf[c].node)
  BY <1>1 DEF KeepsRows, NoNewRows, Rows, Exists
<1> QED
  BY <1>1, <1>2 DEF Child, HasParent

\* The workflows that live, and their parents, stay the same.
SameLives == KeepsParents /\ Live' = Live
SameTokens == \A i \in Wfs : Token(i)' = Token(i)

LEMMA AboveSame ==
  ASSUME KeepsParents, NEW i, NEW c
  PROVE  Above(i, c)' = Above(i, c)
BY DEF KeepsParents, Above, HasParent

LEMMA LiveSame ==
  ASSUME LiveInv, SameLives, SameTokens
  PROVE  LiveInv'
<1>1. \A c \in Wfs : wf'[c].parent = wf[c].parent
  BY DEF SameLives, KeepsParents
<1>2. Live \subseteq Wfs /\ Live' = Live
  BY DEF SameLives, Live
<1>3. \A i \in Wfs : Token(i)' => i \in Live' /\ \A c \in Live' : wf'[c].parent # i
  BY <1>1, <1>2 DEF LiveInv, SameTokens
<1>4. \A c \in Live' : HasParent(c)' =>
        wf'[c].parent \in Live' /\ \A d \in Live' : wf'[d].parent = wf'[c].parent => d = c
  BY <1>1, <1>2 DEF LiveInv, HasParent
<1>5. \A c \in Live' : \E i \in Wfs : Token(i)' /\ Above(i, c)'
  BY <1>2, AboveSame DEF LiveInv, SameTokens, SameLives
<1> QED
  BY <1>3, <1>4, <1>5 DEF LiveInv

\* With one process, the worker that takes a step is the only one.
LEMMA TokenIs ==
  ASSUME OneProcess, NEW w \in Workers, NEW i
  PROVE  Token(i) = ((\E m \in Slots : Queued(i, m)) \/ Seated(w, i))
BY DEF OneProcess, Token

\* The worker goes on with the same workflow.
LEMMA StaysSeated ==
  ASSUME TokenInv, OneProcess, NEW w \in Workers, UNCHANGED queue,
         job[w].pc \notin Away, job'[w].pc \notin Away, Seat(w)' = Seat(w)
  PROVE  TokenInv' /\ SameTokens
<1>1. \A i, m : Queued(i, m)' = Queued(i, m)
  BY DEF Queued
<1>2. \A i : Seated(w, i)' = Seated(w, i)
  BY DEF Seated
<1>3. \A i : Token(i)' = Token(i)
  BY <1>1, <1>2 DEF Token, OneProcess
<1>4. \A v \in Workers : v = w
  BY DEF OneProcess
<1>5. \A v \in Workers : job'[v].pc \notin Away => \A i \in Wfs, m \in Slots : ~Queued(i, m)'
  BY <1>1, <1>4 DEF TokenInv
<1>6. \A v \in Workers : job'[v].pc \notin {"delegated", "returned"}
  BY <1>4 DEF Away
<1>7. \A i, j \in Wfs : Token(i)' /\ Token(j)' => i = j
  BY <1>3 DEF TokenInv
<1>8. \A i \in Wfs : \A m, n \in Slots : Queued(i, m)' => queue'[i][m] = 1 /\ (Queued(i, n)' => m = n)
  BY <1>1 DEF TokenInv
<1> QED
  BY <1>3, <1>5, <1>6, <1>7, <1>8 DEF TokenInv, SameTokens

\* The one message there is goes to the worker.
LEMMA TakesToken ==
  ASSUME TypeInv, TokenInv, OneProcess, NEW w \in Workers, NEW i \in Wfs, NEW m \in Slots,
         NEW pc \in {"dispatch", "check"}, Take(w, i, m, pc)
  PROVE  /\ TokenInv' /\ SameTokens
         /\ Queued(i, m) /\ \A j \in Wfs, n \in Slots : ~Queued(j, n)'
         /\ job[w].pc = "idle"
         /\ job'[w].pc = pc /\ job'[w].wf = i /\ job'[w].node = m
<1>t. queue \in [Wfs -> [Slots -> Nat]] /\ job \in [Workers -> Job]
  BY DEF TypeInv, TypeOK
<1>v. \A v \in Workers : v = w
  BY DEF OneProcess
<1>1. /\ job[w].pc = "idle" /\ Queued(i, m) /\ queue' = [queue EXCEPT ![i][m] = @ - 1]
      /\ job'[w] = [Idle EXCEPT !.pc = pc, !.wf = i, !.node = m]
  BY <1>t DEF Take, Queued
<1>2. job'[w].pc = pc /\ job'[w].wf = i /\ job'[w].node = m /\ pc \notin Away /\ pc \notin StepPcs
  BY <1>1 DEF Idle, Away, StepPcs
<1>3. queue[i][m] = 1 /\ \A j \in Wfs, n \in Slots : Queued(j, n) => j = i /\ n = m
  BY <1>1 DEF TokenInv, Token
<1>4. \A j \in Wfs, n \in Slots : ~Queued(j, n)'
  BY <1>t, <1>1, <1>3 DEF Queued
<1>5. \A j : Seated(w, j)' = (j = i)
  BY <1>2 DEF Seated, Seat
<1>6. \A j : ~Seated(w, j)
  BY <1>1 DEF Seated, Away
<1>7. \A j \in Wfs : Token(j) = (j = i)
  BY <1>1, <1>3, <1>6, TokenIs
<1>8. \A j \in Wfs : Token(j)' = (j = i)
  BY <1>4, <1>5, <1>v DEF Token
<1>9. SameTokens
  BY <1>7, <1>8 DEF SameTokens
<1>10. TokenInv'
  BY <1>2, <1>4, <1>8, <1>v DEF TokenInv, Away
<1> QED
  BY <1>1, <1>2, <1>4, <1>9, <1>10

\* The worker sends one message of its workflow and is done.
LEMMA SendsToken ==
  ASSUME TypeInv, TokenInv, OneProcess, NEW w \in Workers, NEW i \in Wfs, NEW m \in Slots, Seated(w, i), Ack(w),
         \A j \in Wfs, n \in Slots : queue'[j][n] = queue[j][n] + (IF j = i /\ n = m THEN 1 ELSE 0)
  PROVE  /\ TokenInv' /\ SameTokens
         /\ \A j \in Wfs, n \in Slots : Queued(j, n)' = (j = i /\ n = m)
<1>t. queue \in [Wfs -> [Slots -> Nat]] /\ job \in [Workers -> Job]
  BY DEF TypeInv, TypeOK
<1>v. \A v \in Workers : v = w
  BY DEF OneProcess
<1>1. \A j \in Wfs, n \in Slots : ~Queued(j, n) /\ queue[j][n] = 0
  <2>1. \A j \in Wfs, n \in Slots : ~Queued(j, n) /\ queue[j][n] \in Nat
    BY <1>t DEF TokenInv, Seated
  <2> QED
    BY <2>1 DEF Queued
<1>2. \A j \in Wfs, n \in Slots : Queued(j, n)' = (j = i /\ n = m) /\ (Queued(j, n)' => queue'[j][n] = 1)
  BY <1>1 DEF Queued
<1>3. job'[w].pc = "idle"
  BY <1>t DEF Ack, Idle
<1>4. \A j : ~Seated(w, j)'
  BY <1>3 DEF Seated, Away
<1>5. \A j \in Wfs : Token(j)' = (j = i)
  BY <1>2, <1>4, <1>v DEF Token
<1>6. \A j \in Wfs : Token(j) = (j = i)
  BY <1>1, TokenIs DEF Seated
<1>7. SameTokens
  BY <1>5, <1>6 DEF SameTokens
<1>8. TokenInv'
  BY <1>2, <1>3, <1>5, <1>v DEF TokenInv, Away
<1> QED
  BY <1>2, <1>7, <1>8

\* Node n has no row yet, and its inputs have finished.
Fed(i, n) ==
  /\ Rows(i, n) = {}
  /\ \A k \in In(n) : \E t \in Rows(i, Connections[k].source) : tasks[t].status = "success"

\* What a step leaves of the nodes' order when it creates no row.
LEMMA SerialRowsKept ==
  ASSUME SerialRows, TypeInv, KeepsRows, NoNewRows,
         \A t \in TaskIds : tasks[t].status = "success" =>
           tasks'[t].status = "success" \/ \A i \in Wfs, n \in Nodes : ~Pending(i, n)',
         \A i \in Wfs, n \in Nodes : Pending(i, n)' => Pending(i, n) \/ Fed(i, n),
         \A i \in Wfs : Launching(i)' => Launching(i),
         \A t \in TaskIds : Exists(t) /\ Unfinished(t)' => Unfinished(t)
  PROVE  SerialRows'
<1>1. \A i, n : Rows(i, n)' = Rows(i, n)
  BY RowsSame
<1>2. \A i \in Wfs, n \in Nodes : \A t, u \in Rows(i, n)' : t = u
  BY <1>1 DEF SerialRows
<1>3. ASSUME NEW i \in Wfs, NEW n \in Nodes, Pending(i, n)'
      PROVE  /\ Rows(i, n)' = {}
             /\ \A k \in In(n) : \E t \in Rows(i, Connections[k].source)' : tasks'[t].status = "success"
  <2>1. Fed(i, n)
    BY <1>3 DEF SerialRows, Fed
  <2>2. \A j, m : \A t \in Rows(j, m) : t \in TaskIds
    BY DEF Rows
  <2> QED
    BY <1>1, <1>3, <2>1, <2>2 DEF Fed
<1>4. \A i \in Wfs : Launching(i)' => \A t \in TaskIds : Exists(t)' => tasks'[t].wf # i
  BY DEF SerialRows, KeepsRows, NoNewRows
<1>5. ASSUME NEW t \in TaskIds, Exists(t)', Unfinished(t)'
      PROVE  (\A k \in Out(tasks[t].node) : Rows(tasks[t].wf, Connections[k].target) = {})'
  <2>1. Exists(t) /\ tasks'[t].node = tasks[t].node /\ tasks'[t].wf = tasks[t].wf
    BY <1>5 DEF KeepsRows, NoNewRows
  <2>2. \A k \in Out(tasks[t].node) : Rows(tasks[t].wf, Connections[k].target) = {}
    BY <1>5, <2>1 DEF SerialRows
  <2>3. PICK i \in Wfs, n \in Nodes : i = tasks[t].wf /\ n = tasks[t].node
    BY <2>1 DEF TypeInv, RowsFilled
  <2>4. \A k \in Out(n) : Rows(i, Connections[k].target)' = {}
    BY <1>1, <2>2, <2>3
  <2>5. tasks'[t].wf = i /\ tasks'[t].node = n
    BY <2>1, <2>3
  <2> QED
    BY <2>4, <2>5 DEF Rows, Out
<1> QED
  BY <1>2, <1>3, <1>4, <1>5 DEF SerialRows

-----------------------------------------------------------------------------
(* The steps of the process, one by one.                                   *)

Carried == TokenInv' /\ LiveInv' /\ SerialRows' /\ OutcomeInv'

\* While the worker is busy, only the launch of a nested workflow can be queued.
LEMMA NoNodeQueued ==
  ASSUME TokenInv, NEW w \in Workers, job[w].pc # "idle"
  PROVE  \A i \in Wfs, n \in Nodes : ~Queued(i, n)
<1> SUFFICES ASSUME NEW i \in Wfs, NEW n \in Nodes, Queued(i, n) PROVE FALSE
  OBVIOUS
<1>1. n \in Slots /\ Launch \in Slots /\ n # Launch
  BY RowAssumption DEF Slots
<1>2. CASE job[w].pc \notin Away
  BY <1>1, <1>2 DEF TokenInv
<1>3. CASE job[w].pc \in {"delegated", "returned"}
  <2>1. PICK c \in Wfs : Queued(c, Launch)
    BY <1>3 DEF TokenInv
  <2>2. c = i
    BY <1>1, <2>1 DEF TokenInv, Token
  <2> QED
    BY <1>1, <2>1, <2>2 DEF TokenInv
<1> QED
  BY <1>2, <1>3 DEF Away

LEMMA SameLivesWf ==
  ASSUME UNCHANGED wf
  PROVE  SameLives
BY SameParents DEF SameLives, Live

\* A step within a task, which changes no workflow and sends nothing.
LEMMA InPlace ==
  ASSUME SerialInv, OneProcess, NEW w \in Workers, UNCHANGED <<wf, queue>>, KeepsRows, NoNewRows,
         TokenInv', SameTokens, job[w].pc \in StepPcs, job'[w].pc \in StepPcs \union {"idle"},
         job'[w].pc \in Works \union {"parent"} =>
           job[w].pc \in Works \union {"parent"} /\ job'[w].row = job[w].row,
         \A c \in Wfs \ Live, t \in TaskIds : Child(c, t) /\ Settled(c, t) => Settled(c, t)',
         OutcomeStep(w)'
  PROVE  Carried
<1>v. \A v \in Workers : v = w
  BY DEF OneProcess
<1>p. /\ job[w].pc # "idle" /\ job'[w].pc \notin Waits \union {"dispatch"}
      /\ job[w].pc \notin Waits \union {"dispatch"}
  BY DEF StepPcs, Waits
<1>s. SerialRows /\ TypeInv /\ OutcomeInv /\ LiveInv /\ TokenInv
  BY DEF SerialInv, SerialBase, RefinementInv
<1>1. SameLives /\ KeepsParents /\ Live' = Live
  BY SameLivesWf DEF SameLives
<1>2. LiveInv'
  BY <1>s, <1>1, LiveSame
<1>3. \A i, m : Queued(i, m)' = Queued(i, m)
  BY DEF Queued
<1>4. \A i \in Wfs, n \in Nodes : ~Pending(i, n)'
  BY <1>s, <1>p, <1>v, <1>3, NoNodeQueued DEF Pending, Holding, Waits
<1>5. \A i \in Wfs : Launching(i)' => Launching(i)
  BY <1>p, <1>v, <1>3 DEF Launching, Opening, Queued
<1>6. \A c \in Wfs : \A t : Child(c, t)' = Child(c, t)
  BY <1>1, ChildSame
<1>7. \A t \in TaskIds : Exists(t) /\ Unfinished(t)' => Unfinished(t)
  <2>1. Live \subseteq Wfs
    BY DEF Live
  <2> QED
    BY <1>v, <1>1, <1>6, <2>1 DEF Unfinished
<1>8. SerialRows'
  BY <1>s, <1>4, <1>5, <1>7, SerialRowsKept
<1>9. OutcomeInv'
  <2>1. \A c, d \in Wfs : HasParent(c)' /\ wf'[c].parent = wf'[d].parent /\ wf'[c].node = wf'[d].node => c = d
    BY <1>s DEF OutcomeInv, HasParent
  <2>2. \A c \in Wfs \ Live', t \in TaskIds : Child(c, t)' => Settled(c, t)'
    BY <1>s, <1>1, <1>6 DEF OutcomeInv
  <2>3. \A v \in Workers : OutcomeStep(v)'
    BY <1>v
  <2> QED
    BY <2>1, <2>2, <2>3 DEF OutcomeInv
<1> QED
  BY <1>2, <1>8, <1>9 DEF Carried

\* Saving the row of a task that launched nothing, or nothing that has ended.
LEMMA SettledSaved ==
  ASSUME TypeInv, OneProcess, NEW w \in Workers, UNCHANGED wf, NEW r \in TaskIds, NEW st, SetTask(r, st),
         job[w].pc \notin {"parent", "error", "timeout"},
         \A c \in Wfs \ Live : ~Child(c, r)
  PROVE  \A c \in Wfs \ Live, t \in TaskIds : Child(c, t) /\ Settled(c, t) => Settled(c, t)'
<1> SUFFICES ASSUME NEW c \in Wfs \ Live, NEW t \in TaskIds, Child(c, t), Settled(c, t) PROVE Settled(c, t)'
  OBVIOUS
<1>1. t # r
  OBVIOUS
<1>2. tasks'[t] = tasks[t]
  BY <1>1 DEF SetTask, TypeInv, TypeOK
<1>3. tasks[t].status = wf[c].status
  BY DEF Settled, OneProcess
<1> QED
  BY <1>2, <1>3 DEF Settled

\* What is needed of the state in the lemmas on the steps.
LEMMA SerialFacts ==
  ASSUME SerialInv
  PROVE  /\ TypeInv /\ RefinementInv /\ HomeInv /\ LaunchedBy /\ CalmInv /\ Opened
         /\ TokenInv /\ LiveInv /\ SerialRows /\ OutcomeInv /\ StepRows
         /\ job \in [Workers -> Job] /\ tasks \in [TaskIds -> TaskRow] /\ wf \in [Wfs -> WfRow]
         /\ queue \in [Wfs -> [Slots -> Nat]]
BY DEF SerialInv, SerialBase, RefinementInv, TypeInv, TypeOK

LEMMA SerialBeforeStart ==
  ASSUME SerialInv, OneProcess, KeepsRows, NEW w \in Workers, BeforeStart(w)
  PROVE  Carried
<1>t. TypeInv /\ TokenInv /\ OutcomeStep(w) /\ StepRows /\ job \in [Workers -> Job]
  BY SerialFacts DEF OutcomeInv
<1>1. /\ job[w].pc = "before_start" /\ job'[w].pc = "run" /\ job'[w].row = job[w].row /\ job'[w].step = job[w].step
      /\ UNCHANGED <<wf, queue>> /\ SetTask(job[w].step, "progress")
  BY <1>t DEF BeforeStart, Goto, Job
<1>2. job[w].pc \in StepPcs /\ job'[w].pc \in StepPcs
  BY <1>1 DEF StepPcs, Pcs
<1>3. job[w].step \in TaskIds /\ Exists(job[w].step) /\ job[w].row \in TaskIds /\ Exists(job[w].row)
  BY <1>t, <1>2, StepFacts
<1>4. NoNewRows
  BY <1>t, <1>1, <1>3, SavedNoNewRows
<1>5. Seat(w)' = Seat(w)
  BY <1>1, <1>2, <1>3 DEF Seat, KeepsRows
<1>6. TokenInv' /\ SameTokens
  BY <1>t, <1>1, <1>5, StaysSeated DEF Away
<1>7. \A c \in Wfs : ~Child(c, job[w].step)
  BY <1>t, <1>1 DEF OutcomeStep
<1>8. OutcomeStep(w)'
  <2>1. KeepsParents
    BY <1>1, SameParents
  <2>2. \A c \in Wfs : ~Child(c, job[w].step)'
    BY <1>1, <1>4, <1>7, <2>1, ChildSame DEF Child
  <2>3. job'[w].row = job'[w].step
    BY <1>t, <1>1 DEF OutcomeStep, Works
  <2>4. tasks'[job'[w].step].status = "progress"
    BY <1>t, <1>1, <1>3 DEF SetTask, TypeInv, TypeOK, TaskRow
  <2> QED
    BY <1>1, <2>2, <2>3, <2>4 DEF OutcomeStep
<1>9. \A c \in Wfs \ Live, t \in TaskIds : Child(c, t) /\ Settled(c, t) => Settled(c, t)'
  BY <1>t, <1>1, <1>3, <1>7, SettledSaved
<1> QED
  BY <1>1, <1>2, <1>4, <1>6, <1>8, <1>9, InPlace DEF Works

LEMMA SerialLog ==
  ASSUME SerialInv, OneProcess, KeepsRows, NEW w \in Workers, Log(w)
  PROVE  Carried
<1>t. TypeInv /\ TokenInv /\ OutcomeStep(w) /\ StepRows /\ job \in [Workers -> Job]
  BY SerialFacts DEF OutcomeInv
<1>1. /\ job[w].pc = "run" /\ UNCHANGED job
      /\ UNCHANGED <<wf, queue>> /\ SetTask(job[w].step, "progress")
  BY DEF Log
<1>2. job[w].pc \in StepPcs
  BY <1>1 DEF StepPcs, Pcs
<1>3. job[w].step \in TaskIds /\ Exists(job[w].step) /\ job[w].row \in TaskIds /\ Exists(job[w].row)
  BY <1>t, <1>2, StepFacts
<1>4. NoNewRows
  BY <1>t, <1>1, <1>3, SavedNoNewRows
<1>5. Seat(w)' = Seat(w)
  BY <1>1, <1>2, <1>3 DEF Seat, KeepsRows
<1>6. TokenInv' /\ SameTokens
  BY <1>t, <1>1, <1>5, StaysSeated DEF Away
<1>7. \A c \in Wfs : ~Child(c, job[w].step)
  BY <1>t, <1>1 DEF OutcomeStep
<1>8. OutcomeStep(w)'
  <2>1. KeepsParents
    BY <1>1, SameParents
  <2>2. \A c \in Wfs : ~Child(c, job[w].step)'
    BY <1>1, <1>4, <1>7, <2>1, ChildSame DEF Child
  <2>3. tasks'[job'[w].step].status = "progress"
    BY <1>t, <1>1, <1>3 DEF SetTask, TypeInv, TypeOK, TaskRow
  <2> QED
    BY <1>t, <1>1, <2>2, <2>3 DEF OutcomeStep
<1>9. \A c \in Wfs \ Live, t \in TaskIds : Child(c, t) /\ Settled(c, t) => Settled(c, t)'
  BY <1>t, <1>1, <1>3, <1>7, SettledSaved
<1> QED
  BY <1>1, <1>2, <1>4, <1>6, <1>8, <1>9, InPlace

\* The child of a delegating step is launched, and has not begun.
LEMMA SerialSaveNested ==
  ASSUME SerialInv, OneProcess, KeepsRows, NEW w \in Workers, SaveNestedProgress(w)
  PROVE  Carried
<1>t. /\ TypeInv /\ TokenInv /\ LiveInv /\ OutcomeInv /\ OutcomeStep(w) /\ StepRows
      /\ job \in [Workers -> Job] /\ tasks \in [TaskIds -> TaskRow]
  BY SerialFacts DEF OutcomeInv
<1>1. /\ job[w].pc = "delegated" /\ job'[w].pc = "returned" /\ job'[w].row = job[w].row /\ job'[w].step = job[w].step
      /\ job'[w].wf = job[w].wf /\ job'[w].node = job[w].node
      /\ UNCHANGED <<wf, queue>> /\ SetTask(job[w].step, "nested-progress")
  BY <1>t DEF SaveNestedProgress, Goto, Job
<1>2. job[w].pc \in StepPcs /\ job'[w].pc \in StepPcs
  BY <1>1 DEF StepPcs, Pcs
<1>3. job[w].step \in TaskIds /\ Exists(job[w].step)
  BY <1>t, <1>2, StepFacts
<1>4. NoNewRows
  BY <1>t, <1>1, <1>3, SavedNoNewRows
<1>5. TokenInv' /\ SameTokens
  <2>1. \A i, m : Queued(i, m)' = Queued(i, m)
    BY <1>1 DEF Queued
  <2>2. \A i : ~Seated(w, i) /\ ~Seated(w, i)'
    BY <1>1 DEF Seated, Away
  <2>3. \A i : Token(i)' = Token(i)
    BY <2>1, <2>2 DEF Token, OneProcess
  <2>4. \A v \in Workers : v = w
    BY DEF OneProcess
  <2> QED
    BY <1>t, <1>1, <2>1, <2>3, <2>4 DEF TokenInv, SameTokens, Away
<1>6. \A c \in Wfs \ Live : ~Child(c, job[w].step)
  <2>1. PICK d \in Wfs : Queued(d, Launch) /\ wf[d].parent = job[w].wf /\ wf[d].node = job[w].node
    BY <1>t, <1>1 DEF TokenInv
  <2>2. Token(d) /\ d \in Live
    BY <1>t, <2>1 DEF LiveInv, Token, Slots
  <2> SUFFICES ASSUME NEW c \in Wfs, Child(c, job[w].step) PROVE c = d
    BY <2>2
  <2>3. wf[c].parent = job[w].wf /\ wf[c].node = job[w].node /\ HasParent(c)
    BY <1>t, <1>2 DEF Child, Rows, StepRows
  <2> QED
    BY <1>t, <2>1, <2>3 DEF OutcomeInv
<1>7. \A c \in Wfs \ Live, t \in TaskIds : Child(c, t) /\ Settled(c, t) => Settled(c, t)'
  BY <1>t, <1>1, <1>3, <1>6, SettledSaved
<1>8. OutcomeStep(w)'
  <2>1. tasks'[job'[w].step].status = "nested-progress"
    BY <1>t, <1>1, <1>3 DEF SetTask, TaskRow
  <2>2. job'[w].row = job'[w].step /\ job'[w].node \in DOMAIN Nested
    BY <1>t, <1>1 DEF OutcomeStep, Works
  <2> QED
    BY <1>1, <2>1, <2>2 DEF OutcomeStep
<1> QED
  BY <1>1, <1>2, <1>4, <1>5, <1>7, <1>8, InPlace DEF Works

LEMMA SerialRaises ==
  ASSUME SerialInv, OneProcess, KeepsRows, NEW w \in Workers, NEW kind \in FailureKinds, UserCodeRaises(w, kind)
  PROVE  Carried
<1>t. TypeInv /\ TokenInv /\ OutcomeStep(w) /\ StepRows /\ job \in [Workers -> Job]
  BY SerialFacts DEF OutcomeInv
<1>k. kind \in {"error", "timeout"}
  BY RowAssumption
<1>1. /\ job[w].pc = "run" /\ job'[w].pc = kind /\ job'[w].row = job[w].row /\ job'[w].step = job[w].step
      /\ UNCHANGED <<wf, queue, tasks>>
  BY <1>t DEF UserCodeRaises, Goto, Job
<1>2. job[w].pc \in StepPcs /\ job'[w].pc \in StepPcs
  BY <1>k, <1>1 DEF StepPcs, Pcs
<1>4. NoNewRows
  BY <1>1, SameNoNewRows
<1>5. Seat(w)' = Seat(w)
  BY <1>1, <1>2 DEF Seat
<1>6. TokenInv' /\ SameTokens
  BY <1>k, <1>t, <1>1, <1>5, StaysSeated DEF Away
<1>7. \A c \in Wfs : ~Child(c, job[w].row)
  BY <1>t, <1>1 DEF OutcomeStep, Works
<1>8. OutcomeStep(w)'
  <2>2. \A c \in Wfs : ~Child(c, job[w].row)'
    BY <1>1, <1>7 DEF Child, HasParent, Rows
  <2> QED
    BY <1>k, <1>1, <2>2 DEF OutcomeStep, Works
<1>9. \A c \in Wfs \ Live, t \in TaskIds : Child(c, t) /\ Settled(c, t) => Settled(c, t)'
  BY <1>1 DEF Settled, OneProcess
<1>10. job'[w].pc \notin Works \union {"parent"}
  BY <1>k, <1>1 DEF Works
<1> QED
  BY <1>1, <1>2, <1>4, <1>6, <1>8, <1>9, <1>10, InPlace

LEMMA SerialOnSuccess ==
  ASSUME SerialInv, OneProcess, KeepsRows, NEW w \in Workers, OnSuccess(w)
  PROVE  Carried
<1>t. TypeInv /\ TokenInv /\ OutcomeStep(w) /\ job \in [Workers -> Job] /\ tasks \in [TaskIds -> TaskRow]
  BY SerialFacts DEF OutcomeInv
<1>1. job[w].pc \in StepPcs /\ UNCHANGED <<wf, queue>> /\ job[w].row = job[w].step
  BY <1>t DEF OnSuccess, StepPcs, Pcs, OutcomeStep, Works
<1>2. job[w].step \in TaskIds /\ Exists(job[w].step)
  BY <1>t, <1>1, StepFacts
<1>3. CASE job[w].pc = "returned"
  <2>1. job'[w].pc = "idle" /\ UNCHANGED tasks
    BY <1>t, <1>3 DEF OnSuccess, OutcomeStep, Ack, Idle
  <2>2. TokenInv' /\ SameTokens
    <3>1. \A i, m : Queued(i, m)' = Queued(i, m)
      BY <1>1 DEF Queued
    <3>2. \A i : ~Seated(w, i) /\ ~Seated(w, i)'
      BY <1>3, <2>1 DEF Seated, Away
    <3>3. \A i : Token(i)' = Token(i)
      BY <3>1, <3>2 DEF Token, OneProcess
    <3>4. \A v \in Workers : v = w
      BY DEF OneProcess
    <3>5. \A v \in Workers : job'[v].pc = "idle"
      BY <2>1, <3>4
    <3>6. \A i \in Wfs : \A m, n \in Slots : Queued(i, m)' => queue'[i][m] = 1 /\ (Queued(i, n)' => m = n)
      BY <1>t, <1>1, <3>1 DEF TokenInv
    <3>7. \A i, j \in Wfs : Token(i)' /\ Token(j)' => i = j
      BY <1>t, <3>3 DEF TokenInv
    <3> QED
      BY <3>3, <3>5, <3>6, <3>7 DEF TokenInv, SameTokens, Away
  <2>3. NoNewRows
    BY <2>1, SameNoNewRows
  <2>4. OutcomeStep(w)'
    BY <2>1 DEF OutcomeStep, Works
  <2>5. \A c \in Wfs \ Live, t \in TaskIds : Child(c, t) /\ Settled(c, t) => Settled(c, t)'
    BY <1>1, <1>3, <2>1 DEF Settled, OneProcess
  <2> QED
    BY <1>1, <2>1, <2>2, <2>3, <2>4, <2>5, InPlace DEF Works
<1>4. CASE job[w].pc = "run"
  <2>1. /\ job'[w].pc = "advance" /\ job'[w].row = job[w].row /\ job'[w].step = job[w].step
        /\ SetTask(job[w].step, "success")
    BY <1>t, <1>1, <1>4 DEF OnSuccess, OutcomeStep, HandleTaskSuccess, Job
  <2>2. NoNewRows
    BY <1>t, <1>2, <2>1, SavedNoNewRows
  <2>3. job'[w].pc \in StepPcs
    BY <2>1 DEF StepPcs, Pcs
  <2>4. Seat(w)' = Seat(w)
    BY <1>1, <1>2, <2>1, <2>3 DEF Seat, KeepsRows
  <2>5. TokenInv' /\ SameTokens
    BY <1>t, <1>1, <1>4, <2>1, <2>4, StaysSeated DEF Away
  <2>6. \A c \in Wfs \ Live, t \in TaskIds : Child(c, t) /\ Settled(c, t) => Settled(c, t)'
    BY <1>t, <1>1, <1>2, <1>4, <2>1, SettledSaved DEF OutcomeStep
  <2>7. OutcomeStep(w)'
    <3>1. tasks'[job'[w].row].status = "success" /\ job'[w].row = job'[w].step
      BY <1>t, <1>1, <1>2, <2>1 DEF SetTask, TaskRow
    <3> QED
      BY <2>1, <3>1 DEF OutcomeStep, Works
  <2> QED
    BY <1>1, <1>4, <2>1, <2>2, <2>3, <2>5, <2>6, <2>7, InPlace DEF Works
<1> QED
  BY <1>3, <1>4 DEF OnSuccess

LEMMA SerialWrong ==
  ASSUME SerialInv, OneProcess, KeepsRows, NEW w \in Workers, WrongConditionResult(w)
  PROVE  Carried
<1>t. TypeInv /\ TokenInv /\ LaunchedBy /\ OutcomeStep(w) /\ job \in [Workers -> Job]
  BY SerialFacts DEF OutcomeInv
<1>1. /\ job[w].pc = "advance" /\ job'[w].pc = "error" /\ job'[w].row = job[w].step /\ job'[w].step = job[w].step
      /\ UNCHANGED <<wf, queue, tasks>> /\ tasks[job[w].row].node \in Condition
  BY <1>t DEF WrongConditionResult, Job
<1>2. job[w].pc \in StepPcs /\ job'[w].pc \in StepPcs
  BY <1>1 DEF StepPcs, Pcs
<1>3. job'[w].row = job[w].row
  BY <1>t, <1>1, GraphAssumption DEF OutcomeStep
<1>4. NoNewRows
  BY <1>1, SameNoNewRows
<1>5. Seat(w)' = Seat(w)
  BY <1>1, <1>2, <1>3 DEF Seat
<1>6. TokenInv' /\ SameTokens
  BY <1>t, <1>1, <1>5, StaysSeated DEF Away
<1>7. \A c \in Wfs : ~Child(c, job[w].row)'
  <2>1. \A c \in Wfs : ~Child(c, job[w].row)
    BY <1>t, <1>1, GraphAssumption DEF Child, HasParent, Rows, LaunchedBy
  <2> QED
    BY <1>1, <1>3, <2>1 DEF Child, HasParent, Rows
<1>8. OutcomeStep(w)'
  BY <1>1, <1>7 DEF OutcomeStep, Works
<1>9. \A c \in Wfs \ Live, t \in TaskIds : Child(c, t) /\ Settled(c, t) => Settled(c, t)'
  BY <1>1 DEF Settled, OneProcess
<1>10. job'[w].pc \notin Works \union {"parent"}
  BY <1>1 DEF Works
<1> QED
  BY <1>1, <1>2, <1>4, <1>6, <1>8, <1>9, <1>10, InPlace

\* The parent's row gets the status of the child that ended.
LEMMA SerialCompleteParent ==
  ASSUME SerialInv, OneProcess, KeepsRows, NEW w \in Workers, CompleteParentTask(w)
  PROVE  Carried
<1>t. TypeInv /\ TokenInv /\ OutcomeStep(w) /\ job \in [Workers -> Job] /\ tasks \in [TaskIds -> TaskRow]
  BY SerialFacts DEF OutcomeInv
<1>1. /\ job[w].pc = "parent" /\ job'[w].pc = "advance" /\ job'[w].row = job[w].row /\ job'[w].step = job[w].step
      /\ UNCHANGED <<wf, queue>> /\ SetTask(job[w].row, "success")
  BY <1>t DEF CompleteParentTask, HandleTaskSuccess, Job
<1>2. job[w].pc \in StepPcs /\ job'[w].pc \in StepPcs
  BY <1>1 DEF StepPcs, Pcs
<1>3. job[w].row \in TaskIds /\ Exists(job[w].row)
  BY <1>t, <1>2, StepFacts
<1>4. NoNewRows
  BY <1>t, <1>1, <1>3, SavedNoNewRows
<1>5. Seat(w)' = Seat(w)
  BY <1>1, <1>2, <1>3 DEF Seat, KeepsRows
<1>6. TokenInv' /\ SameTokens
  BY <1>t, <1>1, <1>5, StaysSeated DEF Away
<1>7. tasks'[job[w].row].status = "success" /\ \A t \in TaskIds : t # job[w].row => tasks'[t] = tasks[t]
  BY <1>t, <1>1, <1>3 DEF SetTask, TaskRow
<1>8. ASSUME NEW c \in Wfs \ Live, NEW t \in TaskIds, Child(c, t), Settled(c, t)
      PROVE  Settled(c, t)'
  <2>1. CASE t = job[w].row
    <3>1. wf[c].status = "success"
      BY <1>t, <1>1, <1>8, <2>1 DEF OutcomeStep
    <3> QED
      BY <1>1, <1>7, <2>1, <3>1 DEF Settled
  <2>2. CASE t # job[w].row
    <3>1. tasks[t].status = wf[c].status
      BY <1>8, <2>2 DEF Settled, OneProcess
    <3> QED
      BY <1>1, <1>7, <2>2, <3>1 DEF Settled
  <2> QED BY <2>1, <2>2
<1>9. OutcomeStep(w)'
  <2>1. tasks'[job'[w].row].node \in DOMAIN Nested
    BY <1>t, <1>1, <1>3 DEF OutcomeStep, KeepsRows
  <2> QED
    BY <1>1, <1>7, <2>1 DEF OutcomeStep, Works
<1> QED
  BY <1>1, <1>2, <1>4, <1>6, <1>8, <1>9, InPlace

\* A step before a row exists leaves the outcomes alone.
LEMMA OutcomeQuiet ==
  ASSUME SerialInv, OneProcess, NEW w \in Workers, UNCHANGED tasks, SameLives,
         \A c \in Wfs \ Live : wf'[c].status = wf[c].status,
         job[w].pc \notin {"parent", "error", "timeout"}, job'[w].pc \in Waits \union {"idle", "dispatch"}
  PROVE  OutcomeInv'
<1>v. \A v \in Workers : v = w
  BY DEF OneProcess
<1>1. OutcomeInv /\ KeepsParents /\ Live' = Live
  BY SerialFacts DEF SameLives
<1>2. KeepsRows /\ NoNewRows
  BY SameNoNewRows DEF KeepsRows, Exists
<1>3. \A c, d \in Wfs : HasParent(c)' /\ wf'[c].parent = wf'[d].parent /\ wf'[c].node = wf'[d].node => c = d
  BY <1>1 DEF OutcomeInv, HasParent, KeepsParents
<1>4. ASSUME NEW c \in Wfs \ Live, NEW t \in TaskIds, Child(c, t)'
      PROVE  Settled(c, t)'
  <2>1. Child(c, t)
    BY <1>1, <1>2, <1>4, ChildSame
  <2>2. tasks[t].status = wf[c].status
    BY <1>v, <1>1, <1>4, <2>1 DEF OutcomeInv, Settled
  <2> QED
    BY <2>2 DEF Settled
<1>5. \A v \in Workers : OutcomeStep(v)'
  BY <1>v DEF OutcomeStep, Waits, Works
<1> QED
  BY <1>1, <1>3, <1>4, <1>5 DEF OutcomeInv

LEMMA SameUnfinished ==
  ASSUME OneProcess, NEW w \in Workers, KeepsRows, NoNewRows, SameLives, job'[w].pc \notin Works \union {"parent"},
         NEW t, Unfinished(t)'
  PROVE  Unfinished(t)
<1>1. \A c \in Live : c \in Wfs
  BY DEF Live
<1> QED
  BY <1>1, ChildSame DEF Unfinished, OneProcess, SameLives

LEMMA SerialExecute ==
  ASSUME SerialInv, OneProcess, KeepsRows, NEW w \in Workers, NEW i \in Wfs, ExecuteWorkflowV2(w, i)
  PROVE  Carried
<1>t. TypeInv /\ TokenInv /\ LiveInv /\ SerialRows /\ wf \in [Wfs -> WfRow]
  BY SerialFacts
<1>s. Launch \in Slots /\ Nodes \subseteq Slots
  BY DEF Slots
<1>1. Take(w, i, Launch, "dispatch") /\ wf' = [wf EXCEPT ![i].status = "progress"] /\ UNCHANGED tasks
  BY DEF ExecuteWorkflowV2
<1>2. /\ TokenInv' /\ SameTokens /\ Queued(i, Launch) /\ \A j \in Wfs, n \in Slots : ~Queued(j, n)'
      /\ job[w].pc = "idle" /\ job'[w].pc = "dispatch" /\ job'[w].wf = i
  BY <1>t, <1>s, <1>1, TakesToken
<1>3. job'[w].pc = "dispatch" /\ job'[w].wf = i
  BY <1>2
<1>4. i \in Live
  BY <1>t, <1>s, <1>2 DEF LiveInv, Token
<1>5. \A j \in Wfs : j # i => wf'[j] = wf[j]
  BY <1>t, <1>1
<1>6. wf'[i].status = "progress"
  BY <1>t, <1>1 DEF WfRow
<1>7. SameLives
  BY <1>t, <1>1, <1>4, <1>5, <1>6, SavedParents DEF SameLives, Live, WfStatus
<1>8. LiveInv'
  BY <1>t, <1>2, <1>7, LiveSame
<1>9. NoNewRows
  BY <1>1, SameNoNewRows
<1>10. \A j \in Wfs, n \in Nodes : ~Pending(j, n)'
  BY <1>s, <1>2, <1>3 DEF Pending, Holding, OneProcess
<1>11. \A j \in Wfs : Launching(j)' => Launching(j)
  BY <1>s, <1>2, <1>3 DEF Launching, Opening, OneProcess, Queued
<1>12. \A t \in TaskIds : Exists(t) /\ Unfinished(t)' => Unfinished(t)
  BY <1>3, <1>7, <1>9, SameUnfinished DEF Works
<1>13. SerialRows'
  BY <1>t, <1>9, <1>10, <1>11, <1>12, SerialRowsKept
<1>14. OutcomeInv'
  BY <1>1, <1>2, <1>3, <1>4, <1>5, <1>7, OutcomeQuiet
<1> QED
  BY <1>2, <1>8, <1>13, <1>14 DEF Carried

LEMMA SerialFetch ==
  ASSUME SerialInv, OneProcess, KeepsRows, NEW w \in Workers, NEW i \in Wfs, NEW n \in Nodes, FetchWorkflow(w, i, n)
  PROVE  Carried /\ job'[w].pc = "check"
<1>t. TypeInv /\ TokenInv /\ LiveInv /\ SerialRows /\ CalmInv
  BY SerialFacts
<1>s. n \in Slots /\ n # Launch /\ Nodes \subseteq Slots
  BY RowAssumption DEF Slots
<1>1. Take(w, i, n, "check") /\ UNCHANGED <<wf, tasks>>
  BY <1>t DEF FetchWorkflow, CalmInv
<1>2. /\ TokenInv' /\ SameTokens /\ Queued(i, n) /\ \A j \in Wfs, m \in Slots : ~Queued(j, m)'
      /\ job[w].pc = "idle" /\ job'[w].pc = "check" /\ job'[w].wf = i /\ job'[w].node = n
  BY <1>t, <1>s, <1>1, TakesToken
<1>3. job'[w].pc = "check" /\ job'[w].wf = i /\ job'[w].node = n
  BY <1>2
<1>4. SameLives
  BY <1>1, SameLivesWf
<1>5. LiveInv'
  BY <1>t, <1>2, <1>4, LiveSame
<1>6. NoNewRows
  BY <1>1, SameNoNewRows
<1>7. \A j \in Wfs, m \in Nodes : Pending(j, m)' => Pending(j, m)
  BY <1>s, <1>2, <1>3 DEF Pending, Holding, OneProcess
<1>8. \A j \in Wfs : ~Launching(j)'
  BY <1>2, <1>3 DEF Launching, Opening, OneProcess, Queued, Slots
<1>9. \A t \in TaskIds : Exists(t) /\ Unfinished(t)' => Unfinished(t)
  BY <1>3, <1>4, <1>6, SameUnfinished DEF Works
<1>10. SerialRows'
  BY <1>t, <1>1, <1>6, <1>7, <1>8, <1>9, SerialRowsKept
<1>11. OutcomeInv'
  BY <1>1, <1>2, <1>3, <1>4, OutcomeQuiet DEF Waits
<1> QED
  BY <1>2, <1>3, <1>5, <1>10, <1>11 DEF Carried

LEMMA SerialCheck ==
  ASSUME SerialInv, OneProcess, KeepsRows, NEW w \in Workers, CheckInputs(w)
  PROVE  Carried
<1>t. TypeInv /\ TokenInv /\ LiveInv /\ SerialRows /\ job \in [Workers -> Job]
  BY SerialFacts
<1>1. job[w].pc = "check" /\ UNCHANGED <<wf, tasks, queue>>
  BY DEF CheckInputs
<1>2. PICK i \in Wfs, n \in Nodes : i = job[w].wf /\ n = job[w].node
  BY <1>t, <1>1 DEF TypeInv, JobsFilled, JobFilled
<1>3. Pending(i, n)
  BY <1>1, <1>2 DEF Pending, Holding
<1>4. AreInputsReady(i, n)
  <2> SUFFICES ASSUME NEW k \in In(n)
               PROVE  \E t \in TaskIds : Rows(i, Connections[k].source) = {t} /\ tasks[t].status = "success"
    BY DEF AreInputsReady
  <2>1. PICK s \in Nodes : s = Connections[k].source
    BY ConnectionType DEF In
  <2>2. PICK t \in Rows(i, s) : tasks[t].status = "success"
    BY <1>t, <1>3, <2>1 DEF SerialRows
  <2>3. t \in TaskIds /\ Rows(i, s) = {t}
    BY <1>t, <2>2 DEF SerialRows, Rows
  <2> QED
    BY <2>1, <2>2, <2>3
<1>5. job'[w].pc = "create" /\ job'[w].wf = i /\ job'[w].node = n
  BY <1>t, <1>2, <1>4 DEF CheckInputs, Goto, Job
<1>6. Seat(w)' = Seat(w)
  BY <1>1, <1>2, <1>5 DEF Seat, StepPcs
<1>7. TokenInv' /\ SameTokens
  BY <1>t, <1>1, <1>5, <1>6, StaysSeated DEF Away
<1>8. SameLives /\ NoNewRows
  BY <1>1, SameLivesWf, SameNoNewRows
<1>9. LiveInv'
  BY <1>t, <1>7, <1>8, LiveSame
<1>10. \A j \in Wfs, m \in Nodes : Pending(j, m)' => Pending(j, m)
  BY <1>1, <1>2, <1>5 DEF Pending, Holding, OneProcess, Queued
<1>11. \A j \in Wfs : Launching(j)' => Launching(j)
  BY <1>1, <1>5 DEF Launching, Opening, OneProcess
<1>12. \A t \in TaskIds : Exists(t) /\ Unfinished(t)' => Unfinished(t)
  BY <1>5, <1>8, SameUnfinished DEF Works
<1>13. SerialRows'
  BY <1>t, <1>1, <1>8, <1>10, <1>11, <1>12, SerialRowsKept
<1>14. OutcomeInv'
  BY <1>1, <1>5, <1>8, OutcomeQuiet DEF Waits
<1> QED
  BY <1>7, <1>9, <1>13, <1>14 DEF Carried

\* The worker sends node n of its workflow, which has no row, and is done.
LEMMA SerialSends ==
  ASSUME SerialInv, OneProcess, KeepsRows, NEW w \in Workers, NEW i \in Wfs, NEW n \in Nodes,
         Seated(w, i), Ack(w), UNCHANGED <<wf, tasks>>, Fed(i, n), job[w].pc \notin {"parent", "error", "timeout"},
         \A j \in Wfs, m \in Slots : queue'[j][m] = queue[j][m] + (IF j = i /\ m = n THEN 1 ELSE 0)
  PROVE  Carried
<1>t. TypeInv /\ TokenInv /\ LiveInv /\ SerialRows /\ job \in [Workers -> Job]
  BY SerialFacts
<1>s. n \in Slots /\ n # Launch /\ Launch \in Slots /\ Nodes \subseteq Slots
  BY RowAssumption DEF Slots
<1>1. TokenInv' /\ SameTokens /\ \A j \in Wfs, m \in Slots : Queued(j, m)' = (j = i /\ m = n)
  BY <1>t, <1>s, SendsToken
<1>2. job'[w].pc = "idle"
  BY <1>t DEF Ack, Idle
<1>3. SameLives /\ NoNewRows
  BY SameLivesWf, SameNoNewRows
<1>4. LiveInv'
  BY <1>t, <1>1, <1>3, LiveSame
<1>5. \A j \in Wfs, m \in Nodes : Pending(j, m)' => j = i /\ m = n
  BY <1>s, <1>1, <1>2 DEF Pending, Holding, OneProcess
<1>6. \A j \in Wfs : ~Launching(j)'
  BY <1>s, <1>1, <1>2 DEF Launching, Opening, OneProcess, Queued
<1>7. \A t \in TaskIds : Exists(t) /\ Unfinished(t)' => Unfinished(t)
  BY <1>2, <1>3, SameUnfinished DEF Works
<1>8. SerialRows'
  BY <1>t, <1>3, <1>5, <1>6, <1>7, SerialRowsKept
<1>9. OutcomeInv'
  BY <1>2, <1>3, OutcomeQuiet
<1> QED
  BY <1>1, <1>4, <1>8, <1>9 DEF Carried

LEMMA SerialDispatchStart ==
  ASSUME SerialInv, OneProcess, Serial, KeepsRows, NEW w \in Workers, DispatchStartNodes(w, FALSE)
  PROVE  Carried
<1>t. TypeInv /\ HomeInv /\ Opened /\ SerialRows /\ queue \in [Wfs -> [Slots -> Nat]]
  BY SerialFacts
<1>1. job[w].pc = "dispatch" /\ Ack(w) /\ UNCHANGED <<wf, tasks>>
  BY DEF DispatchStartNodes, Ends
<1>2. PICK i \in Wfs : i = job[w].wf
  BY <1>t, <1>1 DEF TypeInv, JobsFilled, JobFilled
<1>3. PICK n \in Nodes : StartNodes(wf[i].template) = {n}
  BY <1>t, <1>1, <1>2 DEF Serial, Opened, HomeInv
<1>4. \A j \in Wfs, m \in Slots : queue'[j][m] = queue[j][m] + (IF j = i /\ m = n THEN 1 ELSE 0)
  <2>1. queue' = [queue EXCEPT ![i] = [m \in Slots |-> queue[i][m] + (IF m = n THEN 1 ELSE 0)]]
    BY <1>2, <1>3 DEF DispatchStartNodes, Ends
  <2>2. \A j \in Wfs, m \in Slots : queue[j][m] \in Nat
    BY <1>t
  <2> QED
    BY <1>t, <2>1, <2>2
<1>5. Seated(w, i)
  BY <1>1, <1>2 DEF Seated, Seat, StepPcs, Away
<1>6. Fed(i, n)
  <2>1. Launching(i) /\ In(n) = {}
    BY <1>1, <1>2, <1>3 DEF Launching, Opening, StartNodes
  <2> QED
    BY <1>t, <2>1 DEF SerialRows, Fed, Rows, Exists
<1> QED
  BY <1>1, <1>4, <1>5, <1>6, SerialSends

\* The next node of a completed row is sent.
LEMMA SerialAdvanceSends ==
  ASSUME SerialInv, OneProcess, Serial, KeepsRows, NEW w \in Workers, job[w].pc = "advance",
         NEW i \in Wfs, NEW s \in Nodes, i = tasks[job[w].row].wf, s = tasks[job[w].row].node,
         NEW ks \in NextConnections(s), ks # {}, queue' = Dispatch(i, ks), Ack(w), UNCHANGED <<wf, tasks>>
  PROVE  Carried
<1>t. TypeInv /\ SerialRows /\ OutcomeStep(w) /\ queue \in [Wfs -> [Slots -> Nat]]
  BY SerialFacts DEF OutcomeInv
<1>1. job[w].pc \in StepPcs
  BY DEF StepPcs, Pcs
<1>2. PICK k \in ks : ks = {k}
  BY DEF Serial
<1>3. k \in DOMAIN Connections /\ Connections[k].source = s
  BY <1>2 DEF NextConnections, NextNodeByCondition, Out
<1>4. PICK n \in Nodes : n = Connections[k].target
  BY <1>3, ConnectionType
<1>5. \A j \in Wfs, m \in Slots : queue'[j][m] = queue[j][m] + (IF j = i /\ m = n THEN 1 ELSE 0)
  <2> DEFINE count(m) == Cardinality({q \in ks : Connections[q].target = m})
  <2>1. \A m \in Slots : count(m) = IF m = n THEN 1 ELSE 0
    <3>1. ASSUME NEW m \in Slots, m = n PROVE count(m) = 1
      BY <1>2, <1>4, <3>1, FS_Singleton
    <3>2. ASSUME NEW m \in Slots, m # n PROVE count(m) = 0
      <4>1. {q \in ks : Connections[q].target = m} = {}
        BY <1>2, <1>4, <3>2
      <4> QED
        BY <4>1, FS_EmptySet
    <3> QED
      BY <3>1, <3>2
  <2>2. queue' = [queue EXCEPT ![i] = [m \in Slots |-> queue[i][m] + count(m)]]
    BY DEF Dispatch
  <2> HIDE DEF count
  <2>3. \A j \in Wfs, m \in Slots : queue[j][m] \in Nat
    BY <1>t
  <2> QED
    BY <1>t, <2>1, <2>2, <2>3
<1>6. Seated(w, i)
  BY <1>1 DEF Seated, Seat, Away
<1>7. job[w].row \in TaskIds /\ Exists(job[w].row)
  BY <1>t, <1>1, StepFacts
<1>8. Fed(i, n)
  <2>1. Rows(i, n) = {}
    BY <1>t, <1>1, <1>3, <1>4, <1>7 DEF SerialRows, Unfinished, Works, Out
  <2>2. k \in In(n) /\ \A j \in In(n) : j = k
    BY <1>3, <1>4 DEF Serial, Single, In
  <2>3. job[w].row \in Rows(i, s) /\ tasks[job[w].row].status = "success"
    BY <1>t, <1>1, <1>7 DEF OutcomeStep, Rows, Exists
  <2> QED
    BY <1>3, <2>1, <2>2, <2>3 DEF Fed
<1> QED
  BY <1>5, <1>6, <1>8, SerialSends

\* The row that is created has no child and no successor.
LEMMA SerialCreate ==
  ASSUME SerialInv, OneProcess, KeepsRows, NEW w \in Workers, CreateTask(w)
  PROVE  Carried
<1>t. /\ TypeInv /\ DependencyInv /\ LaunchedBy /\ TokenInv /\ LiveInv /\ SerialRows /\ OutcomeInv
      /\ job \in [Workers -> Job] /\ tasks \in [TaskIds -> TaskRow] /\ wf \in [Wfs -> WfRow]
  BY SerialFacts DEF RefinementInv
<1>v. \A v \in Workers : v = w
  BY DEF OneProcess
<1>1. job[w].pc = "create" /\ UNCHANGED <<wf, queue>>
  BY DEF CreateTask
<1>2. PICK i \in Wfs, n \in Nodes : i = job[w].wf /\ n = job[w].node
  BY <1>t, <1>1 DEF TypeInv, JobsFilled, JobFilled
<1>3. PICK t \in TaskIds :
        /\ ~Exists(t)
        /\ tasks' = [tasks EXCEPT ![t] = [wf |-> i, node |-> n, status |-> "init"]]
        /\ job' = [job EXCEPT ![w].pc = "before_start", ![w].step = t, ![w].row = t]
  BY <1>2 DEF CreateTask, Exists
<1>4. job'[w].pc = "before_start" /\ job'[w].step = t /\ job'[w].row = t
  BY <1>t, <1>3 DEF Job
<1>5. /\ tasks'[t].wf = i /\ tasks'[t].node = n /\ tasks'[t].status = "init"
      /\ \A u \in TaskIds : u # t => tasks'[u] = tasks[u]
  BY <1>t, <1>3
<1>6. Fed(i, n)
  <2>1. Pending(i, n)
    BY <1>1, <1>2 DEF Pending, Holding
  <2> QED
    BY <1>t, <2>1 DEF SerialRows, Fed
<1>7. Rows(i, n) = {} /\ Rows(i, n)' = {t}
  BY <1>3, <1>5, <1>6 DEF Fed, Rows
<1>8. \A j, m : j # i \/ m # n => Rows(j, m)' = Rows(j, m)
  BY <1>3, <1>5 DEF Rows, Exists
<1>9. \A c \in Wfs : HasParent(c) => wf[c].parent # i \/ wf[c].node # n
  BY <1>t, <1>7 DEF LaunchedBy, HasParent
<1>10. \A c \in Wfs : \A u : Child(c, u)' = Child(c, u)
  BY <1>1, <1>8, <1>9 DEF Child, HasParent
<1>11. \A c \in Wfs : ~Child(c, t)'
  <2>1. \A c \in Wfs : ~Child(c, t)
    BY <1>3 DEF Child, Rows, Exists
  <2> QED
    BY <1>10, <2>1
<1>12. Seated(w, i) /\ job[w].pc \notin Away /\ job'[w].pc \notin Away /\ Seat(w)' = Seat(w)
  BY <1>1, <1>2, <1>4, <1>5 DEF Seated, Seat, StepPcs, Pcs, Away
<1>13. TokenInv' /\ SameTokens
  BY <1>t, <1>1, <1>12, StaysSeated
<1>14. SameLives /\ Live' = Live /\ Live \subseteq Wfs
  BY <1>1, SameLivesWf DEF SameLives, Live
<1>15. LiveInv'
  BY <1>t, <1>13, <1>14, LiveSame
<1>16. \A j \in Wfs, m \in Slots : ~Queued(j, m)'
  BY <1>t, <1>1, <1>12 DEF TokenInv, Queued
<1>17. SerialRows'
  <2>1. \A j \in Wfs, m \in Nodes : \A u, v \in Rows(j, m)' : u = v
    BY <1>t, <1>7, <1>8 DEF SerialRows
  <2>2. \A j \in Wfs, m \in Nodes : ~Pending(j, m)'
    BY <1>v, <1>4, <1>16 DEF Pending, Holding, Slots
  <2>3. \A j \in Wfs : ~Launching(j)'
    BY <1>v, <1>4, <1>16 DEF Launching, Opening, Queued, Slots
  <2>4. ASSUME NEW k \in Out(n) PROVE Rows(i, Connections[k].target)' = {}
    <3>1. k \in DOMAIN Connections /\ Connections[k].source = n /\ k \in In(Connections[k].target)
      BY DEF Out, In
    <3>2. Connections[k].target # n
      BY <1>6, <1>7, <3>1 DEF Fed
    <3>3. ASSUME NEW u \in Rows(i, Connections[k].target) PROVE FALSE
      <4>1. u \in TaskIds /\ tasks[u].status # "none" /\ tasks[u].wf = i /\ tasks[u].node = Connections[k].target
        BY DEF Rows
      <4>2. InputsWon(i, Connections[k].target)
        BY <1>t, <4>1 DEF DependencyInv, DependencyOrder
      <4>3. PICK x \in won : tasks[x].wf = i /\ tasks[x].node = n
        BY <3>1, <4>2 DEF InputsWon
      <4>4. x \in Rows(i, n)
        BY <1>t, <4>3 DEF DependencyInv, WonRows, Rows, Exists, TypeInv, TypeOK
      <4> QED
        BY <1>7, <4>4
    <3> QED
      BY <1>8, <3>2, <3>3
  <2>5. ASSUME NEW u \in TaskIds, Exists(u)', Unfinished(u)'
        PROVE  (\A k \in Out(tasks[u].node) : Rows(tasks[u].wf, Connections[k].target) = {})'
    <3>1. CASE u = t
      BY <1>5, <2>4, <3>1 DEF Out, Rows
    <3>2. CASE u # t
      <4>1. Exists(u) /\ tasks'[u] = tasks[u]
        BY <1>5, <2>5, <3>2 DEF Exists
      <4>2. PICK c \in Live : Child(c, u)
        BY <1>v, <1>4, <1>10, <1>14, <2>5, <3>2 DEF Unfinished
      <4>3. PICK j \in Wfs, m \in Nodes : j = tasks[u].wf /\ m = tasks[u].node
        BY <1>t, <4>1 DEF TypeInv, RowsFilled
      <4>4. \A k \in Out(m) : Rows(j, Connections[k].target) = {}
        BY <1>t, <4>1, <4>2, <4>3 DEF SerialRows, Unfinished
      <4>5. j # i
        <5>1. Token(i)
          BY <1>12 DEF Token
        <5> QED
          BY <1>t, <4>2, <4>3, <5>1 DEF LiveInv, Child, Rows
      <4>6. \A k \in Out(m) : Rows(j, Connections[k].target)' = {}
        BY <1>8, <4>4, <4>5
      <4>7. tasks'[u].wf = j /\ tasks'[u].node = m
        BY <4>1, <4>3
      <4> QED
        BY <4>6, <4>7 DEF Rows, Out
    <3> QED
      BY <3>1, <3>2
  <2> QED
    BY <2>1, <2>2, <2>3, <2>5 DEF SerialRows
<1>18. OutcomeInv'
  <2>1. \A c, d \in Wfs : HasParent(c)' /\ wf'[c].parent = wf'[d].parent /\ wf'[c].node = wf'[d].node => c = d
    BY <1>t, <1>1 DEF OutcomeInv, HasParent
  <2>2. ASSUME NEW c \in Wfs \ Live', NEW u \in TaskIds, Child(c, u)' PROVE Settled(c, u)'
    <3>1. Child(c, u) /\ u # t
      BY <1>10, <1>11, <2>2
    <3>2. tasks[u].status = wf[c].status
      BY <1>t, <1>v, <1>1, <1>14, <2>2, <3>1 DEF OutcomeInv, Settled
    <3> QED
      BY <1>1, <1>5, <3>1, <3>2 DEF Settled
  <2>3. OutcomeStep(w)'
    <3>1. \A c \in Wfs : ~Child(c, job[w].step)'
      BY <1>4, <1>11 DEF Child
    <3> QED
      BY <1>4, <3>1 DEF OutcomeStep
  <2> QED
    BY <1>v, <2>1, <2>2, <2>3 DEF OutcomeInv
<1> QED
  BY <1>13, <1>15, <1>17, <1>18 DEF Carried

\* What there is to do moves from the step to the workflow that it launches.
LEMMA SerialDelegate ==
  ASSUME SerialInv, OneProcess, KeepsRows, NEW w \in Workers, Delegate(w)
  PROVE  Carried
<1>t. /\ TypeInv /\ HomeInv /\ Blank /\ StepRows /\ TokenInv /\ LiveInv /\ SerialRows /\ OutcomeInv /\ OutcomeStep(w)
      /\ job \in [Workers -> Job] /\ wf \in [Wfs -> WfRow] /\ queue \in [Wfs -> [Slots -> Nat]]
  BY SerialFacts DEF RefinementInv, OutcomeInv
<1>v. \A v \in Workers : v = w
  BY DEF OneProcess
<1>s. Launch \in Slots /\ Nodes \subseteq Slots /\ Launch \notin Nodes /\ None \notin Wfs
  BY RowAssumption DEF Slots
<1>1. job[w].pc = "run" /\ job[w].pc \in StepPcs /\ UNCHANGED tasks /\ job[w].node \in DOMAIN Nested
  BY DEF Delegate, StepPcs, Pcs
<1>2. PICK i \in Wfs, n \in Nodes : i = job[w].wf /\ n = job[w].node
  BY <1>t, <1>1, StepFacts
<1>3. PICK c \in Wfs :
        /\ wf[c].status = "none"
        /\ wf' = [wf EXCEPT ![c] = [status |-> "init", current |-> None, parent |-> i,
                                    node |-> n, template |-> Nested[n]]]
        /\ queue' = Send(c, Launch)
  BY <1>2 DEF Delegate
<1>4. /\ job'[w].pc = "delegated" /\ job'[w].wf = i /\ job'[w].node = n
      /\ job'[w].step = job[w].step /\ job'[w].row = job[w].row
  BY <1>t, <1>2 DEF Delegate, Goto, Job
<1>5. job[w].step \in Rows(i, n) /\ job[w].row = job[w].step /\ job[w].step \in TaskIds
  BY <1>t, <1>1, <1>2, StepFacts DEF StepRows, Rows, Exists, OutcomeStep, Works
<1>6. Seated(w, i) /\ Token(i)
  BY <1>1, <1>5 DEF Token, Seated, Seat, Rows, Away
<1>7. \A j \in Wfs, m \in Slots : ~Queued(j, m) /\ queue[j][m] = 0
  <2>1. \A j \in Wfs, m \in Slots : ~Queued(j, m) /\ queue[j][m] \in Nat
    BY <1>t, <1>6 DEF TokenInv, Seated
  <2> QED
    BY <2>1 DEF Queued
<1>8. \A j \in Wfs, m \in Slots : queue'[j][m] = IF j = c /\ m = Launch THEN 1 ELSE 0
  BY <1>t, <1>s, <1>3, <1>7 DEF Send
<1>9. \A j \in Wfs, m \in Slots : Queued(j, m)' = (j = c /\ m = Launch)
  BY <1>8 DEF Queued
<1>10. \A j \in Wfs : Token(j)' = (j = c)
  BY <1>v, <1>s, <1>4, <1>9 DEF Token, Seated, Away
<1>11. /\ wf'[c].status = "init" /\ wf'[c].parent = i /\ wf'[c].node = n
       /\ \A d \in Wfs : d # c => wf'[d] = wf[d]
  BY <1>t, <1>3
<1>12. TokenInv'
  <2>1. \A j \in Wfs : \A m, q \in Slots : Queued(j, m)' => queue'[j][m] = 1 /\ (Queued(j, q)' => m = q)
    BY <1>8, <1>9
  <2>2. \A v \in Workers : job'[v].pc \in Away
    BY <1>v, <1>4 DEF Away
  <2>3. \A v \in Workers : \E d \in Wfs : Queued(d, Launch)' /\ wf'[d].parent = job'[v].wf /\ wf'[d].node = job'[v].node
    BY <1>s, <1>v, <1>4, <1>9, <1>11
  <2> QED
    BY <1>10, <2>1, <2>2, <2>3 DEF TokenInv
<1>13. i \in Live /\ c \notin Live /\ c # i /\ Live \subseteq Wfs /\ Live' = Live \union {c}
  <2>1. i \in Live /\ c \notin Live
    BY <1>t, <1>3, <1>6 DEF LiveInv, Live
  <2> QED
    BY <1>11, <2>1 DEF Live
<1>14. \A d \in Live : wf'[d] = wf[d] /\ wf[d].parent # i /\ wf[d].parent # c
  BY <1>t, <1>s, <1>6, <1>11, <1>13 DEF LiveInv, HasParent
<1>15. LiveInv'
  <2>1. \A j \in Wfs : Token(j)' => j \in Live' /\ \A d \in Live' : wf'[d].parent # j
    BY <1>10, <1>11, <1>13, <1>14
  <2>2. \A d \in Live' : HasParent(d)' =>
          wf'[d].parent \in Live' /\ \A e \in Live' : wf'[e].parent = wf'[d].parent => e = d
    <3>1. \A d \in Live : HasParent(d)' => wf[d].parent \in Live /\ \A e \in Live : wf[e].parent = wf[d].parent => e = d
      BY <1>t, <1>14 DEF LiveInv, HasParent
    <3> QED
      BY <1>11, <1>13, <1>14, <3>1
  <2>3. ASSUME NEW d \in Live PROVE Above(c, d)'
    <3>1. Above(i, d)
      BY <1>t, <1>6, <1>13 DEF LiveInv, TokenInv
    <3> SUFFICES ASSUME NEW T \in SUBSET Wfs, c \in T, \A j \in T : HasParent(j)' => wf'[j].parent \in T
                 PROVE  d \in T
      BY DEF Above
    <3>2. i \in T
      BY <1>s, <1>11 DEF HasParent
    <3>3. \A j \in T : HasParent(j) => wf[j].parent \in T
      BY <1>t, <1>3, <1>11 DEF HasParent, Blank
    <3> QED
      BY <3>1, <3>2, <3>3 DEF Above
  <2>4. Above(c, c)'
    BY DEF Above
  <2>5. \A d \in Live' : \E j \in Wfs : Token(j)' /\ Above(j, d)'
    BY <1>10, <1>13, <2>3, <2>4
  <2> QED
    BY <2>1, <2>2, <2>5 DEF LiveInv
<1>16. \A j, m : Rows(j, m)' = Rows(j, m)
  BY <1>1 DEF Rows
<1>17. \A d \in Wfs : d # c => \A t : Child(d, t)' = Child(d, t)
  BY <1>11, <1>16 DEF Child, HasParent
<1>18. \A t : Child(c, t)' => t = job[w].step
  <2>1. \A t : Child(c, t)' => t \in Rows(i, n)
    BY <1>11, <1>16 DEF Child
  <2> QED
    BY <1>t, <1>5, <2>1 DEF SerialRows
<1>19. SerialRows'
  <2>1. \A j \in Wfs, m \in Nodes : \A u, v \in Rows(j, m)' : u = v
    BY <1>t, <1>16 DEF SerialRows
  <2>2. \A j \in Wfs, m \in Nodes : ~Pending(j, m)'
    BY <1>s, <1>v, <1>4, <1>9 DEF Pending, Holding
  <2>3. \A j \in Wfs : Launching(j)' => \A t \in TaskIds : Exists(t)' => tasks'[t].wf # j
    <3>1. \A j \in Wfs : Launching(j)' => j = c
      BY <1>s, <1>v, <1>4, <1>9 DEF Launching, Opening, Queued
    <3>2. \A t \in TaskIds : Exists(t)' => tasks'[t].wf # c
      BY <1>t, <1>1, <1>3 DEF HomeInv, Home, Exists
    <3> QED
      BY <3>1, <3>2
  <2>4. ASSUME NEW t \in TaskIds, Exists(t)', Unfinished(t)'
        PROVE  (\A k \in Out(tasks[t].node) : Rows(tasks[t].wf, Connections[k].target) = {})'
    <3>1. Exists(t)
      BY <1>1, <2>4 DEF Exists
    <3>2. Unfinished(t)
      <4>1. CASE t = job[w].step
        BY <1>1, <1>5, <4>1 DEF Unfinished, Works
      <4>2. CASE t # job[w].step
        <5>1. PICK d \in Live' : Child(d, t)'
          BY <1>v, <1>4, <1>5, <2>4, <4>2 DEF Unfinished
        <5>2. d # c /\ d \in Live
          BY <1>13, <1>18, <4>2, <5>1
        <5> QED
          BY <1>13, <1>17, <5>1, <5>2 DEF Unfinished
      <4> QED
        BY <4>1, <4>2
    <3>3. \A k \in Out(tasks[t].node) : Rows(tasks[t].wf, Connections[k].target) = {}
      BY <1>t, <3>1, <3>2 DEF SerialRows
    <3> QED
      BY <1>1, <3>3 DEF Rows, Out
  <2> QED
    BY <2>1, <2>2, <2>3, <2>4 DEF SerialRows
<1>20. OutcomeInv'
  <2>1. \A d \in Wfs : ~Child(d, job[w].step)
    BY <1>t, <1>1 DEF OutcomeStep
  <2>2. \A d \in Wfs : wf[d].parent # i \/ wf[d].node # n
    BY <1>s, <1>5, <2>1 DEF Child, HasParent
  <2>3. \A d, e \in Wfs : HasParent(d)' /\ wf'[d].parent = wf'[e].parent /\ wf'[d].node = wf'[e].node => d = e
    BY <1>t, <1>11, <2>2 DEF OutcomeInv, HasParent
  <2>4. ASSUME NEW d \in Wfs \ Live', NEW t \in TaskIds, Child(d, t)' PROVE Settled(d, t)'
    <3>1. d # c /\ d \notin Live /\ Child(d, t)
      BY <1>13, <1>17, <2>4
    <3>2. tasks[t].status = wf[d].status
      BY <1>t, <1>v, <1>1, <3>1 DEF OutcomeInv, Settled
    <3> QED
      BY <1>1, <1>11, <3>1, <3>2 DEF Settled
  <2>5. OutcomeStep(w)'
    BY <1>1, <1>2, <1>4, <1>5 DEF OutcomeStep
  <2> QED
    BY <1>v, <2>3, <2>4, <2>5 DEF OutcomeInv
<1> QED
  BY <1>12, <1>15, <1>19, <1>20 DEF Carried

-----------------------------------------------------------------------------
(* A workflow ends: what there is to do moves up to its parent.            *)

\* The one task that launched workflow i.
LEMMA LauncherUnique ==
  ASSUME SerialInv, NEW i \in Wfs, HasParent(i)
  PROVE  ParentTaskUnique(i)
<1>t. TypeInv /\ LaunchedBy /\ SerialRows
  BY SerialFacts
<1>1. PICK t \in Rows(wf[i].parent, wf[i].node) : t \in TaskIds
  BY <1>t DEF LaunchedBy, HasParent, Rows
<1>2. wf[i].parent \in Wfs /\ wf[i].node \in Nodes
  BY <1>t, <1>1 DEF TypeInv, RowsFilled, Rows, Exists
<1> QED
  BY <1>t, <1>1, <1>2 DEF SerialRows, ParentTaskUnique, ParentTask

\* Worker w ends workflow i, and goes on with the task that launched it, if any.
EndsWorkflow(w, i) ==
  /\ KeepsParents /\ Live' = Live \ {i} /\ UNCHANGED queue
  /\ \A c \in Wfs : c # i => wf'[c].status = wf[c].status
  /\ \/ ~HasParent(i) /\ job'[w].pc = "idle"
     \/ /\ HasParent(i)
        /\ job'[w].pc \in {"parent", "error", "timeout"}
        /\ job'[w].pc = "parent" => wf'[i].status = "success"
        /\ job'[w].pc # "parent" => wf'[i].status = job'[w].pc
        /\ job'[w].row \in TaskIds /\ ParentTask(i, job'[w].row)

LEMMA EndsToken ==
  ASSUME SerialInv, OneProcess, KeepsRows, NEW w \in Workers, NEW i \in Wfs, Seated(w, i), EndsWorkflow(w, i)
  PROVE  TokenInv' /\ LiveInv'
<1>t. TypeInv /\ TokenInv /\ LiveInv /\ wf \in [Wfs -> WfRow]
  BY SerialFacts
<1>v. \A v \in Workers : v = w
  BY DEF OneProcess
<1>1. \A j \in Wfs, m \in Slots : ~Queued(j, m)'
  BY <1>t DEF TokenInv, Seated, EndsWorkflow, Queued
<1>2. job'[w].pc \notin {"delegated", "returned"}
  BY DEF EndsWorkflow
<1>3. Token(i) /\ i \in Live /\ \A c \in Live : wf[c].parent # i
  BY <1>t DEF Token, LiveInv
<1>4. Live \subseteq Wfs /\ Live' = Live \ {i} /\ \A c \in Wfs : wf'[c].parent = wf[c].parent
  BY DEF Live, EndsWorkflow, KeepsParents
<1>5. \A c \in Live : Above(i, c)
  BY <1>t, <1>3, <1>4 DEF LiveInv, TokenInv
<1>6. CASE ~HasParent(i) /\ job'[w].pc = "idle"
  <2>1. \A j \in Wfs : ~Token(j)'
    BY <1>v, <1>1, <1>6 DEF Token, Seated, Away
  <2>2. \A c \in Live : c = i
    <3> SUFFICES ASSUME NEW c \in Live PROVE c \in {i}
      OBVIOUS
    <3> QED
      BY <1>5, <1>6 DEF Above
  <2>3. Live' = {}
    BY <1>4, <2>2
  <2> QED
    BY <1>v, <1>1, <1>6, <2>1, <2>3 DEF TokenInv, LiveInv, Away
<1>7. CASE HasParent(i) /\ job'[w].pc \in {"parent", "error", "timeout"}
  <2>1. PICK p \in Live : p = wf[i].parent
    BY <1>t, <1>3, <1>7 DEF LiveInv
  <2>2. p # i /\ p \in Live' /\ p \in Wfs
    BY <1>3, <1>4, <2>1
  <2>3. Seat(w)' = p
    <3>1. job'[w].row \in Rows(wf[i].parent, wf[i].node)
      BY <1>7 DEF EndsWorkflow, ParentTask
    <3>2. tasks'[job'[w].row].wf = p
      BY <2>1, <3>1 DEF Rows, KeepsRows, Exists
    <3> QED
      BY <1>7, <3>2 DEF Seat, StepPcs, Pcs
  <2>4. \A j \in Wfs : Token(j)' = (j = p)
    BY <1>v, <1>1, <1>7, <2>3 DEF Token, Seated, Away
  <2>5. TokenInv'
    BY <1>v, <1>1, <1>2, <2>4 DEF TokenInv
  <2>6. \A c \in Live' : wf'[c].parent # p
    BY <1>t, <1>3, <1>4, <1>7, <2>1 DEF LiveInv
  <2>7. \A c \in Live' : HasParent(c)' =>
          wf'[c].parent \in Live' /\ \A d \in Live' : wf'[d].parent = wf'[c].parent => d = c
    BY <1>t, <1>3, <1>4 DEF LiveInv, HasParent
  <2>8. ASSUME NEW c \in Live' PROVE Above(p, c)'
    <3> SUFFICES ASSUME NEW T \in SUBSET Wfs, p \in T, \A j \in T : HasParent(j)' => wf'[j].parent \in T
                 PROVE  c \in T
      BY DEF Above
    <3>1. \A j \in T \union {i} : HasParent(j) => wf[j].parent \in T \union {i}
      BY <1>4, <2>1 DEF HasParent
    <3>2. T \union {i} \in SUBSET Wfs /\ i \in T \union {i} /\ Above(i, c)
      BY <1>4, <1>5
    <3>3. c \in T \union {i}
      <4> DEFINE U == T \union {i}
      <4>1. U \in SUBSET Wfs /\ i \in U /\ \A j \in U : HasParent(j) => wf[j].parent \in U
        BY <3>1, <3>2
      <4> HIDE DEF U
      <4>2. c \in U
        BY <3>2, <4>1 DEF Above
      <4> QED
        BY <4>2 DEF U
    <3> QED
      BY <1>4, <3>3
  <2> QED
    BY <2>2, <2>4, <2>5, <2>6, <2>7, <2>8 DEF LiveInv
<1> QED
  BY <1>6, <1>7 DEF EndsWorkflow

\* It carries the outcome with it.
LEMMA SerialEnds ==
  ASSUME SerialInv, OneProcess, KeepsRows, NoNewRows, NEW w \in Workers, NEW i \in Wfs, Seated(w, i), EndsWorkflow(w, i),
         \A c \in Wfs \ Live, t \in TaskIds :
           Child(c, t) /\ Settled(c, t) /\ c # i => tasks'[t].status = wf[c].status
  PROVE  Carried
<1>t. TypeInv /\ TokenInv /\ LiveInv /\ SerialRows /\ OutcomeInv /\ LaunchedBy
  BY SerialFacts
<1>v. \A v \in Workers : v = w
  BY DEF OneProcess
<1>s. Launch \in Slots /\ Nodes \subseteq Slots
  BY DEF Slots
<1>1. TokenInv' /\ LiveInv'
  BY EndsToken
<1>2. /\ Live \subseteq Wfs /\ Live' = Live \ {i} /\ KeepsParents /\ i \in Live
      /\ \A c \in Wfs : c # i => wf'[c].status = wf[c].status
  BY <1>t DEF Live, EndsWorkflow, LiveInv, Token
<1>3. \A j \in Wfs, m \in Slots : ~Queued(j, m)'
  BY <1>t DEF TokenInv, Seated, EndsWorkflow, Queued
<1>4. job'[w].pc \in {"idle", "parent", "error", "timeout"}
  BY DEF EndsWorkflow
<1>5. \A c \in Wfs : \A t : Child(c, t)' = Child(c, t)
  BY <1>2, ChildSame
<1>6. job'[w].pc # "idle" =>
        /\ Child(i, job'[w].row) /\ job'[w].row \in TaskIds /\ tasks'[job'[w].row].node = wf[i].node
        /\ wf[i].node \in DOMAIN Nested
        /\ \A t : Child(i, t) => t = job'[w].row
        /\ \A c \in Wfs : Child(c, job'[w].row) => c = i
  <2> SUFFICES ASSUME job'[w].pc # "idle"
               PROVE  /\ Child(i, job'[w].row) /\ job'[w].row \in TaskIds
                      /\ tasks'[job'[w].row].node = wf[i].node /\ wf[i].node \in DOMAIN Nested
                      /\ \A t : Child(i, t) => t = job'[w].row
                      /\ \A c \in Wfs : Child(c, job'[w].row) => c = i
    OBVIOUS
  <2>1. HasParent(i) /\ job'[w].row \in TaskIds /\ Rows(wf[i].parent, wf[i].node) = {job'[w].row}
    BY DEF EndsWorkflow, ParentTask
  <2>2. Exists(job'[w].row) /\ tasks[job'[w].row].wf = wf[i].parent /\ tasks[job'[w].row].node = wf[i].node
    BY <2>1 DEF Rows, Exists
  <2>3. \A c \in Wfs : Child(c, job'[w].row) => c = i
    BY <1>t, <2>1, <2>2 DEF OutcomeInv, Child, Rows
  <2> QED
    BY <1>t, <2>1, <2>2, <2>3 DEF Child, LaunchedBy, HasParent, KeepsRows
<1>7. SerialRows'
  <2>1. \A j \in Wfs, m \in Nodes : ~Pending(j, m)'
    BY <1>s, <1>v, <1>3, <1>4 DEF Pending, Holding
  <2>2. \A j \in Wfs : ~Launching(j)'
    BY <1>s, <1>v, <1>3, <1>4 DEF Launching, Opening, Queued
  <2>3. \A t \in TaskIds : Exists(t) /\ Unfinished(t)' => Unfinished(t)
    BY <1>v, <1>2, <1>4, <1>5, <1>6 DEF Unfinished, Works
  <2> QED
    BY <1>t, <2>1, <2>2, <2>3, SerialRowsKept
<1>8. OutcomeInv'
  <2>1. \A c, d \in Wfs : HasParent(c)' /\ wf'[c].parent = wf'[d].parent /\ wf'[c].node = wf'[d].node => c = d
    BY <1>t, <1>2 DEF OutcomeInv, HasParent, KeepsParents
  <2>2. ASSUME NEW c \in Wfs \ Live', NEW t \in TaskIds, Child(c, t)' PROVE Settled(c, t)'
    <3>1. Child(c, t)
      BY <1>5, <2>2
    <3>2. CASE c = i
      <4>1. HasParent(i)
        BY <3>1, <3>2 DEF Child
      <4>2. job'[w].pc \in {"parent", "error", "timeout"} /\ job'[w].row = t
        BY <1>6, <3>1, <3>2, <4>1 DEF EndsWorkflow
      <4> QED
        BY <4>2 DEF Settled
    <3>3. CASE c # i
      BY <1>t, <1>2, <2>2, <3>1, <3>3 DEF OutcomeInv, Settled
    <3> QED
      BY <3>2, <3>3
  <2>3. OutcomeStep(w)'
    <3>1. job'[w].pc = "parent" => wf'[i].status = "success"
      BY DEF EndsWorkflow
    <3>2. job'[w].pc \in {"error", "timeout"} => wf'[i].status = job'[w].pc
      BY DEF EndsWorkflow
    <3>3. \A c \in Wfs : job'[w].pc # "idle" /\ Child(c, job[w].row)' => c = i
      BY <1>5, <1>6 DEF Child
    <3> QED
      BY <1>4, <1>6, <3>1, <3>2, <3>3 DEF OutcomeStep, Works
  <2> QED
    BY <1>v, <2>1, <2>2, <2>3 DEF OutcomeInv
<1> QED
  BY <1>1, <1>7, <1>8 DEF Carried

\* A worker that completes saves no row in this step.
LEMMA EndsSettled ==
  ASSUME OneProcess, NEW w \in Workers, job[w].pc = "advance", UNCHANGED tasks
  PROVE  \A c \in Wfs \ Live, t \in TaskIds : Settled(c, t) => tasks'[t].status = wf[c].status
BY DEF Settled, OneProcess

LEMMA SerialAdvance ==
  ASSUME SerialInv, OneProcess, Serial, KeepsRows, NEW w \in Workers, Advance(w, FALSE)
  PROVE  Carried
<1>t. TypeInv /\ OutcomeInv /\ wf \in [Wfs -> WfRow] /\ job \in [Workers -> Job]
  BY SerialFacts
<1>1. job[w].pc = "advance" /\ job[w].pc \in StepPcs /\ UNCHANGED tasks
  BY DEF Advance, StepPcs, Pcs, Ends
<1>2. PICK i \in Wfs, s \in Nodes : i = tasks[job[w].row].wf /\ s = tasks[job[w].row].node
  BY <1>t, <1>1, StepFacts
<1>3. PICK ks \in NextConnections(s) :
        \/ ks # {} /\ queue' = Dispatch(i, ks) /\ Ack(w) /\ UNCHANGED wf
        \/ /\ wf' = [wf EXCEPT ![i].status = "success", ![i].current = s]
           /\ \/ ~HasParent(i) /\ Ack(w)
              \/ HasParent(i) /\ \E t \in TaskIds : ParentTask(i, t)
                   /\ job' = [job EXCEPT ![w].pc = "parent", ![w].row = t]
              \/ HasParent(i) /\ ~ParentTaskUnique(i)
           /\ UNCHANGED queue
  BY <1>2 DEF Advance, Ends
<1>4. CASE ks # {} /\ queue' = Dispatch(i, ks) /\ Ack(w) /\ UNCHANGED wf
  BY <1>1, <1>2, <1>4, SerialAdvanceSends
<1>5. CASE ~(ks # {} /\ queue' = Dispatch(i, ks) /\ Ack(w) /\ UNCHANGED wf)
  <2>1. wf' = [wf EXCEPT ![i].status = "success", ![i].current = s] /\ UNCHANGED queue
    BY <1>3, <1>5
  <2>2. Seated(w, i) /\ NoNewRows /\ KeepsParents
    BY <1>t, <1>1, <1>2, <2>1, SameNoNewRows, SavedParents DEF Seated, Seat, Away, WfStatus
  <2>3. wf'[i].status = "success" /\ \A c \in Wfs : c # i => wf'[c] = wf[c]
    BY <1>t, <2>1 DEF WfRow
  <2>4. Live' = Live \ {i}
    BY <2>3 DEF Live
  <2>5. CASE ~HasParent(i) /\ Ack(w)
    <3>1. job'[w].pc = "idle"
      BY <1>t, <2>5 DEF Ack, Idle
    <3> QED
      BY <2>1, <2>2, <2>3, <2>4, <2>5, <3>1, EndsSettled, SerialEnds, <1>1 DEF EndsWorkflow
  <2>6. ASSUME NEW t \in TaskIds, HasParent(i), ParentTask(i, t), job' = [job EXCEPT ![w].pc = "parent", ![w].row = t]
        PROVE  Carried
    <3>1. job'[w].pc = "parent" /\ job'[w].row = t
      BY <1>t, <2>6 DEF Job
    <3> QED
      BY <2>1, <2>2, <2>3, <2>4, <2>6, <3>1, EndsSettled, SerialEnds, <1>1 DEF EndsWorkflow
  <2> QED
    BY <1>3, <1>5, <2>5, <2>6, LauncherUnique
<1> QED
  BY <1>4, <1>5

LEMMA SerialOnFailure ==
  ASSUME SerialInv, OneProcess, KeepsRows, NEW w \in Workers, OnFailure(w, FALSE)
  PROVE  Carried
<1>t. TypeInv /\ OutcomeStep(w) /\ wf \in [Wfs -> WfRow] /\ job \in [Workers -> Job] /\ tasks \in [TaskIds -> TaskRow]
  BY SerialFacts DEF OutcomeInv
<1>1. job[w].pc \in {"error", "timeout"} /\ job[w].pc \in StepPcs /\ UNCHANGED queue
  BY DEF OnFailure, StepPcs, Pcs, Ends
<1>2. PICK i \in Wfs, r \in TaskIds : r = job[w].row /\ i = tasks[r].wf /\ Exists(r)
  BY <1>t, <1>1, StepFacts
<1>3. SetTask(r, job[w].pc) /\ wf' = [wf EXCEPT ![i].status = job[w].pc]
  BY <1>2 DEF OnFailure, Ends
<1>4. NoNewRows
  BY <1>t, <1>2, <1>3, SavedNoNewRows
<1>5. KeepsParents /\ Seated(w, i)
  <2>1. job[w].pc \in WfStatus
    BY <1>1 DEF WfStatus
  <2> QED
    BY <1>t, <1>1, <1>2, <1>3, <2>1, SavedParents DEF Seated, Seat, Away
<1>6. wf'[i].status = job[w].pc /\ \A c \in Wfs : c # i => wf'[c] = wf[c]
  BY <1>t, <1>3 DEF WfRow
<1>7. Live' = Live \ {i}
  BY <1>1, <1>6 DEF Live
<1>8. tasks'[r].status = job[w].pc /\ \A t \in TaskIds : t # r => tasks'[t] = tasks[t]
  BY <1>t, <1>3 DEF SetTask, TaskRow
<1>9. ASSUME NEW c \in Wfs \ Live, NEW t \in TaskIds, Child(c, t), Settled(c, t)
      PROVE  tasks'[t].status = wf[c].status
  <2>1. CASE t = r
    BY <1>t, <1>1, <1>2, <1>8, <1>9, <2>1 DEF OutcomeStep
  <2>2. CASE t # r
    BY <1>2, <1>8, <1>9, <2>2 DEF Settled, OneProcess
  <2> QED
    BY <2>1, <2>2
<1>10. CASE HasParent(i)
  <2>1. PICK u \in TaskIds : ParentTask(i, u) /\ job' = [job EXCEPT ![w].row = u]
    BY <1>2, <1>10, LauncherUnique DEF OnFailure, Ends
  <2>2. job'[w].pc = job[w].pc /\ job'[w].row = u
    BY <1>t, <2>1 DEF Job
  <2>3. EndsWorkflow(w, i)
    BY <1>1, <1>5, <1>6, <1>7, <1>10, <2>1, <2>2 DEF EndsWorkflow
  <2> QED
    BY <1>4, <1>5, <1>9, <2>3, SerialEnds
<1>11. CASE ~HasParent(i)
  <2>1. Ack(w)
    BY <1>2, <1>11 DEF OnFailure, Ends
  <2>2. job'[w].pc = "idle"
    BY <1>t, <2>1 DEF Ack, Idle
  <2>3. EndsWorkflow(w, i)
    BY <1>1, <1>5, <1>6, <1>7, <1>11, <2>2 DEF EndsWorkflow
  <2> QED
    BY <1>4, <1>5, <1>9, <2>3, SerialEnds
<1> QED
  BY <1>10, <1>11

-----------------------------------------------------------------------------
(* The invariant, and what it says when nothing is left to do.             *)

LEMMA CalmWorker ==
  ASSUME TypeInv, CalmInv, NEW w \in Workers, WorkerStep(w) \/ Fault(w)
  PROVE  CalmInv' /\ ~Crash(w) /\ ~HardTimeLimit(w) /\ ~Park(w, FALSE)
<1>1. ~Crash(w) /\ ~HardTimeLimit(w) /\ ~Park(w, FALSE)
  BY DEF CalmInv, Crash, HardTimeLimit, Park, Ends
<1>c. budget.crash = 0 /\ ~LostBeforeAck(w)
  BY NoLoss DEF CalmInv
<1>2. UNCHANGED <<api, budget>>
  BY <1>1, <1>c DEF WorkerStep, Fault, ExecuteWorkflowV2, DispatchStartNodes, FetchWorkflow, CheckInputs, CreateTask,
       BeforeStart, Log, Delegate, SaveNestedProgress, UserCodeRaises, OnSuccess, Advance, WrongConditionResult,
       CompleteParentTask, OnFailure, Ends
<1>3. NoPauseInv
  BY DEF CalmInv, NoPauseInv, NoRequest
<1>4. NoPauseInv'
  BY <1>c, <1>3, NoPauseWorker
<1> QED
  BY <1>1, <1>2, <1>4 DEF CalmInv, NoPauseInv

LEMMA CalmApi ==
  ASSUME CalmInv, NEW c \in Clients, ApiStep(c)
  PROVE  FALSE
BY DEF CalmInv, NoRequest, ApiStep, PauseRead, ResumeRead, CancelRead, PauseSave, ResumeCheck, ResumeSave, CancelTask, CancelSave

LEMMA OpenedWorker ==
  ASSUME TypeInv, budget.crash = 0, HomeInv, Opened, NEW w \in Workers, WorkerStep(w) \/ Fault(w), ~Park(w, FALSE)
  PROVE  Opened'
<1>1. KeepsHomes /\ wf \in [Wfs -> WfRow]
  BY WorkerHomes DEF TypeInv, TypeOK
<1>2. CASE Delegate(w)
  <2>1. PICK c \in Wfs :
          wf' = [wf EXCEPT ![c] = [status |-> "init", current |-> None, parent |-> job[w].wf,
                                   node |-> job[w].node, template |-> Nested[job[w].node]]]
    BY <1>2 DEF Delegate
  <2>2. wf'[c].template \in Templates
    BY <1>1, <1>2, <2>1, GraphAssumption DEF Delegate
  <2>3. \A d \in Wfs : d # c => wf'[d] = wf[d]
    BY <1>1, <2>1
  <2> QED
    BY <2>2, <2>3 DEF Opened
<1>3. CASE UNCHANGED wf
  BY <1>3 DEF Opened
<1>4. ASSUME NEW j \in Wfs, wf[j].status # "none", \A d \in Wfs : d # j => wf'[d] = wf[d]
      PROVE  Opened'
  BY <1>1, <1>4 DEF Opened, KeepsHomes
<1>5. CASE \E i \in Wfs : ExecuteWorkflowV2(w, i)
  <2>1. PICK i \in Wfs : ExecuteWorkflowV2(w, i)
    BY <1>5
  <2>2. wf[i].status # "none" /\ \A d \in Wfs : d # i => wf'[d] = wf[d]
    BY <1>1, <2>1 DEF ExecuteWorkflowV2, Take, HomeInv, Queued
  <2> QED
    BY <1>4, <2>2
<1>6. CASE Advance(w, FALSE) \/ OnFailure(w, FALSE)
  <2>1. job[w].pc \in StepPcs
    BY <1>6 DEF Advance, OnFailure, StepPcs, Pcs, Ends
  <2>2. PICK i \in Wfs : i = tasks[job[w].row].wf /\ wf[i].status # "none"
    BY <2>1, StepFacts DEF HomeInv, Home
  <2>3. \A d \in Wfs : d # i => wf'[d] = wf[d]
    BY <1>1, <1>6, <2>2 DEF Advance, OnFailure, Ends
  <2> QED
    BY <1>4, <2>2, <2>3
<1> QED
  BY <1>2, <1>3, <1>5, <1>6, NoLoss
     DEF WorkerStep, Fault, DispatchStartNodes, FetchWorkflow, CheckInputs, CreateTask, BeforeStart, Log,
         SaveNestedProgress, UserCodeRaises, OnSuccess, WrongConditionResult, CompleteParentTask, Crash, HardTimeLimit, Ends

LEMMA SerialWorker ==
  ASSUME SerialInv, Inside, Serial, OneProcess, RefinementInv', NEW w \in Workers, WorkerStep(w) \/ Fault(w)
  PROVE  SerialInv'
<1>1. TypeInv /\ RefinementInv /\ HomeInv /\ LaunchedBy /\ CalmInv /\ Opened
  BY SerialFacts
<1>2. KeepsRows /\ KeepsHomes
  BY <1>1, WorkerTypeInv, WorkerHomes
<1>3. CalmInv' /\ ~Crash(w) /\ ~HardTimeLimit(w) /\ ~Park(w, FALSE)
  BY <1>1, CalmWorker
<1>c. budget.crash = 0 /\ ~LostBeforeAck(w)
  BY <1>1, NoLoss DEF CalmInv
<1>4. HomeInv' /\ Opened'
  BY <1>1, <1>3, <1>c, WorkerHomeInv, OpenedWorker
<1>5. LaunchedBy'
  BY <1>1, <1>2, WorkerParents, LaunchedByKept, LaunchedByDelegate
<1>6. Carried
  <2>1. CASE \E i \in Wfs : ExecuteWorkflowV2(w, i)
    BY <1>2, <2>1, SerialExecute
  <2>2. CASE \E i \in Wfs, n \in Nodes : FetchWorkflow(w, i, n)
    BY <1>2, <2>2, SerialFetch
  <2>3. CASE \E kind \in FailureKinds : UserCodeRaises(w, kind)
    BY <1>2, <2>3, SerialRaises
  <2> QED
    BY <1>2, <1>3, <1>c, <2>1, <2>2, <2>3, SerialDispatchStart, SerialCheck, SerialCreate, SerialBeforeStart, SerialLog,
       SerialDelegate, SerialSaveNested, SerialOnSuccess, SerialAdvance, SerialWrong, SerialCompleteParent,
       SerialOnFailure
       DEF WorkerStep, Fault
<1> QED
  BY <1>3, <1>4, <1>5, <1>6 DEF SerialInv, SerialBase, Carried

LEMMA SerialStuttering ==
  ASSUME SerialInv, UNCHANGED vars
  PROVE  SerialInv'
<1> USE DEF vars
<1>1. RefinementInv'
  BY RefinementInvKept DEF SerialInv, SerialBase
<1>2. HomeInv' /\ CalmInv' /\ Opened'
  BY DEF SerialInv, SerialBase, HomeInv, Home, Queued, Exists, CalmInv, Opened
<1>3. \A i, n : Rows(i, n)' = Rows(i, n) /\ Queued(i, n)' = Queued(i, n)
  BY DEF Rows, Queued
<1>4. LaunchedBy'
  BY DEF SerialInv, SerialBase, LaunchedBy, Rows
<1>5. Live' = Live /\ (\A c, t : Child(c, t)' = Child(c, t)) /\ \A i : HasParent(i)' = HasParent(i)
  BY DEF Live, Child, HasParent, Rows
<1>6. \A w \in Workers : \A i : Seated(w, i)' = Seated(w, i)
  BY DEF Seated, Seat
<1>7. \A i \in Wfs : Token(i)' = Token(i)
  BY <1>3, <1>6 DEF Token
<1>8. TokenInv'
  BY <1>3, <1>7 DEF SerialInv, TokenInv
<1>9. LiveInv'
  BY <1>7, LiveSame, SameLivesWf DEF SerialInv, SameTokens
<1>10. SerialRows'
  <2>1. \A i \in Wfs, n \in Nodes : Pending(i, n)' = Pending(i, n)
    BY <1>3 DEF Pending, Holding
  <2>2. \A t : Unfinished(t)' = Unfinished(t)
    BY <1>5 DEF Unfinished
  <2>3. \A i : Launching(i)' = Launching(i)
    BY DEF Launching, Opening
  <2>4. KeepsRows /\ NoNewRows
    BY SameNoNewRows DEF KeepsRows, Exists
  <2> QED
    BY <2>1, <2>2, <2>3, <2>4, SerialRowsKept, SerialFacts
<1>11. OutcomeInv'
  <2>1. \A w \in Workers : OutcomeStep(w)'
    BY DEF SerialInv, OutcomeInv, OutcomeStep, Child, HasParent, Rows
  <2> QED
    BY <1>5, <2>1 DEF SerialInv, OutcomeInv, Settled, HasParent
<1> QED
  BY <1>1, <1>2, <1>4, <1>8, <1>9, <1>10, <1>11 DEF SerialInv, SerialBase

LEMMA SerialInvKept ==
  ASSUME SerialInv, Inside, Serial, OneProcess, [Next]_vars
  PROVE  SerialInv'
<1>1. RefinementInv'
  BY RefinementInvKept DEF SerialInv, SerialBase
<1>2. CASE UNCHANGED vars
  BY <1>2, SerialStuttering
<1>3. ASSUME NEW c \in Clients, ApiStep(c) PROVE FALSE
  BY <1>3, CalmApi, SerialFacts
<1>4. CASE \E w \in Workers : WorkerStep(w) \/ Fault(w)
  BY <1>1, <1>4, SerialWorker
<1> QED
  BY <1>2, <1>3, <1>4 DEF Next

LEMMA InitSerialInv ==
  ASSUME Init, Undisturbed
  PROVE  SerialInv
<1>1. RefinementInv /\ TypeInv
  BY InitRefinementInv DEF RefinementInv
<1>2. /\ \A t \in TaskIds : ~Exists(t)
      /\ \A w \in Workers : job[w].pc = "idle"
      /\ \A i \in Wfs : wf[i].parent = None /\ wf[i].current = None
      /\ \A i \in Wfs : wf[i].status = IF i = Root THEN "init" ELSE "none"
      /\ wf[Root].template = RootTemplate
      /\ Root \in Wfs /\ (\A c \in Clients : api[c] = NoRequest) /\ budget = Budget
  BY RowAssumption DEF Init, NoTask, NoWorkflow, Idle, Exists
<1>3. \A i \in Wfs, m \in Slots : queue[i][m] = IF i = Root /\ m = Launch THEN 1 ELSE 0
  BY DEF Init
<1>4. \A i \in Wfs, m \in Slots : Queued(i, m) = (i = Root /\ m = Launch)
  BY <1>3 DEF Queued
<1>s. Launch \in Slots /\ Nodes \subseteq Slots /\ Launch \notin Nodes /\ None \notin Wfs
  BY RowAssumption DEF Slots
<1>5. HomeInv
  <2>1. \A c \in Clients : api[c].op = "none"
    BY <1>2 DEF NoRequest
  <2> QED
    BY <1>s, <1>2, <1>4, <2>1 DEF HomeInv
<1>6. LaunchedBy /\ Opened
  BY <1>2, GraphAssumption DEF LaunchedBy, Opened
<1>7. CalmInv
  BY <1>2 DEF CalmInv, Undisturbed
<1>8. \A i \in Wfs : Token(i) = (i = Root)
  BY <1>s, <1>2, <1>4 DEF Token, Seated, Away
<1>9. TokenInv
  BY <1>2, <1>3, <1>4, <1>8 DEF TokenInv, Away
<1>10. Live = {Root} /\ \A c \in Wfs : ~HasParent(c)
  BY <1>2 DEF Live, HasParent
<1>11. LiveInv
  <2>1. Above(Root, Root)
    BY DEF Above
  <2>2. \A c \in Wfs : wf[c].parent \notin Wfs
    BY <1>s, <1>2
  <2>3. \A i \in Wfs : Token(i) => i \in Live /\ \A c \in Live : wf[c].parent # i
    <3>1. Root \in Live /\ \A c \in Live : c = Root
      BY <1>10
    <3>2. wf[Root].parent \notin Wfs
      BY <1>2, <2>2
    <3> QED
      BY <1>8, <3>1, <3>2
  <2>4. \A c \in Live : \E i \in Wfs : Token(i) /\ Above(i, c)
    BY <1>2, <1>8, <1>10, <2>1
  <2> QED
    BY <1>2, <1>10, <2>3, <2>4 DEF LiveInv
<1>12. SerialRows
  BY <1>s, <1>2, <1>4 DEF SerialRows, Rows, Exists, Pending, Holding
<1>13. OutcomeInv
  BY <1>2, <1>10 DEF OutcomeInv, OutcomeStep, Works, Child
<1> QED
  BY <1>1, <1>5, <1>6, <1>7, <1>9, <1>11, <1>12, <1>13 DEF SerialInv, SerialBase

\* When nothing is left to do, every workflow has ended, and its outcome is settled.
LEMMA SerialQuiescent ==
  ASSUME SerialInv
  PROVE  NestedOutcome
<1> SUFFICES ASSUME Quiescent, NEW c \in Wfs, wf[c].parent # None, NEW t \in Rows(wf[c].parent, wf[c].node)
             PROVE  tasks[t].status = wf[c].status
  BY DEF NestedOutcome
<1>1. \A w \in Workers : job[w].pc = "idle"
  BY DEF Quiescent, Idle
<1>2. \A i \in Wfs : ~Token(i)
  BY <1>1 DEF Quiescent, Token, Queued, Seated, Away
<1>3. c \notin Live
  BY <1>2 DEF SerialInv, LiveInv
<1>4. Child(c, t) /\ t \in TaskIds
  BY DEF Child, HasParent, Rows
<1> QED
  BY <1>1, <1>3, <1>4 DEF SerialInv, OutcomeInv, Settled

\* Where one process executes serial templates and nobody interferes, a task that
\* delegated has the outcome of the workflow it launched, through any depth of
\* nesting, whether the code succeeds, raises or times out, or a condition has no
\* result: handle_task_success and on_failure climb every parent. A second process may
\* end the child before the step that launched it saves "nested-progress" over the
\* outcome, and a node that joins two others may launch two children with two outcomes.
THEOREM NestedOutcomeHolds ==
  ASSUME Inside, Serial, OneProcess, Undisturbed
  PROVE  Spec => []NestedOutcome
<1>1. Init => SerialInv
  BY InitSerialInv
<1>2. SerialInv /\ [Next]_vars => SerialInv'
  BY SerialInvKept
<1>3. SerialInv => NestedOutcome
  BY SerialQuiescent
<1> QED
  BY <1>1, <1>2, <1>3, PTL DEF Spec

\* In the same setting process_next_node creates one Task row per workflow and node, also
\* where nodes that delegate feed others (which NodeRunsOnceHolds leaves out): a parent's
\* task that its child completes sends the next node only once.
THEOREM SerialNodesRunOnce ==
  ASSUME Inside, Serial, OneProcess, Undisturbed
  PROVE  Spec => []NodeRunsOnce
<1>1. Init => SerialInv
  BY InitSerialInv
<1>2. SerialInv /\ [Next]_vars => SerialInv'
  BY SerialInvKept
<1>3. SerialInv => NodeRunsOnce
  <2> SUFFICES ASSUME SerialInv, NEW i \in Wfs, NEW n \in Nodes PROVE Cardinality(Rows(i, n)) <= 1 + doubled[i]
    BY DEF NodeRunsOnce
  <2>1. \A t, u \in Rows(i, n) : t = u
    BY DEF SerialInv, SerialRows
  <2>2. TypeInv
    BY SerialFacts
  <2> QED
    BY <2>1, <2>2, AtMostOneAndMore
<1> QED
  BY <1>1, <1>2, <1>3, PTL DEF Spec
=============================================================================
