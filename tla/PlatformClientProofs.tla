------------------------ MODULE PlatformClientProofs ------------------------
(* Theorems about PlatformClient for any number of clients, saving         *)
(* processes, retries, calls and lost requests.                            *)
EXTENDS PlatformClient, TLAPS

\* Nothing is known of a job before the platform accepted it, and a call that returned
\* with a job has seen it over.
JobInv ==
  \A c \in Clients :
    /\ calls[c].pc \in {"idle", "sent"} => job[c] = "none"
    /\ calls[c].pc = "returned" /\ job[c] # "none" => job[c] \in {"D", "E", "C"}

Reported == setting.realm /\ setting.linked /\ ~early /\ Reportable(row) => platform = row

Announced ==
  failed =>
    \/ alerted \/ platform = row
    \/ ~(setting.realm /\ setting.linked) /\ (row = "timeout" \/ setting.parent = "lost")

\* What a process that is in a save knows: it reports the status the row has; a handler
\* of a failure has found a Task row, and goes on to the parent and the alert after the
\* report.
InSave(p) ==
  /\ row = saves[p].status /\ Reportable(row)
  /\ failed = saves[p].failing
  /\ saves[p].failing => row \in {"error", "timeout"} /\ ~early
  /\ saves[p].pc = "tasks" => early \/ hasTasks
  /\ saves[p].pc \in {"parent", "alert"} => Reported /\ failed

\* While saves did not overlap and nothing was lost, one process at most is in a save;
\* when none is, report and alert are done.
ReportInv ==
  ~mixed =>
    /\ \A p, q \in Savers : saves[p].pc # "idle" /\ saves[q].pc # "idle" => p = q
    /\ \A p \in Savers : saves[p].pc # "idle" => InSave(p)
    /\ Busy = {} => Reported /\ Announced

-----------------------------------------------------------------------------
(* The calls of a step.                                                    *)

CallInv(c) ==
  /\ calls[c].pc \in {"idle", "sent"} => job[c] = "none"
  /\ calls[c].pc = "returned" /\ job[c] # "none" => job[c] \in {"D", "E", "C"}

\* A step of client c that puts a call in the place of the one it was in.
LEMMA BecomesCall ==
  ASSUME TypeOK, NEW c \in Clients, NEW call \in Call, Becomes(c, call)
  PROVE  /\ calls' \in [Clients -> Call] /\ calls'[c] = call
         /\ \A d \in Clients \ {c} : calls'[d] = calls[d]
BY DEF TypeOK, Becomes

LEMMA IdleCall == Idle \in Call
<1>1. 0 \in 0..Retries
  BY PlatformClientAssumption
<1> QED
  BY <1>1 DEF Idle, Call

LEMMA PcCall ==
  ASSUME TypeOK, NEW c \in Clients,
         NEW pc \in {"started", "waiting", "hung", "returned", "raised", "unknown"},
         Becomes(c, [calls[c] EXCEPT !.pc = pc])
  PROVE  /\ calls' \in [Clients -> Call] /\ calls'[c].pc = pc
         /\ \A d \in Clients \ {c} : calls'[d] = calls[d]
<1>1. calls[c] \in Call
  BY DEF TypeOK
<1>2. [calls[c] EXCEPT !.pc = pc] \in Call /\ [calls[c] EXCEPT !.pc = pc].pc = pc
  BY <1>1 DEF Call
<1> QED
  BY <1>2, BecomesCall

\* What a step of a client does: its own call and job change, and keep their meaning.
ClientStep(c) ==
  /\ calls' \in [Clients -> Call] /\ \A d \in Clients \ {c} : calls'[d] = calls[d]
  /\ job' \in [Clients -> {"none", "I", "P", "D", "E", "C"}]
  /\ \A d \in Clients \ {c} : job'[d] = job[d]
  /\ CallInv(c)'
  /\ budget' \in [ops : Nat, lost : Nat]
  /\ UNCHANGED <<setting, report>>

LEMMA StartCallStep ==
  ASSUME TypeOK, JobInv, NEW c \in Clients, StartCall(c)
  PROVE  ClientStep(c)
<1>1. ASSUME NEW call \in Call, call.pc \in {"sent", "raised"}, CallBegins(c, call)
      PROVE  ClientStep(c)
  <2>1. /\ calls' \in [Clients -> Call] /\ calls'[c] = call
        /\ \A d \in Clients \ {c} : calls'[d] = calls[d]
    BY <1>1, BecomesCall DEF CallBegins
  <2>2. budget' \in [ops : Nat, lost : Nat]
    BY <1>1 DEF CallBegins, TypeOK
  <2>3. job[c] = "none" /\ job' = job /\ UNCHANGED <<setting, report>>
    BY <1>1 DEF CallBegins, JobInv
  <2> QED
    BY <1>1, <2>1, <2>2, <2>3 DEF ClientStep, CallInv, TypeOK
<1>2. ASSUME NEW kind \in {"expression", "secret", "procedure", "task", "workflow"}, Post(c, kind)
      PROVE  ClientStep(c)
  <2> DEFINE call == [Idle EXCEPT !.pc = "sent", !.kind = kind]
  <2>1. call \in Call /\ call.pc = "sent"
    BY IdleCall DEF Idle, Call
  <2> QED
    BY <1>1, <1>2, <2>1 DEF Post
<1>3. CASE ExecuteExpressionProcedure(c)
  <2> DEFINE call == [Idle EXCEPT !.pc = "raised", !.kind = "procedure"]
  <2>1. call \in Call /\ call.pc = "raised"
    BY IdleCall DEF Idle, Call
  <2> QED
    BY <1>1, <1>3, <2>1 DEF ExecuteExpressionProcedure
<1>4. ASSUME CallBegins(c, [Idle EXCEPT !.pc = "raised"]) PROVE ClientStep(c)
  <2> DEFINE call == [Idle EXCEPT !.pc = "raised"]
  <2>1. call \in Call /\ call.pc = "raised"
    BY IdleCall DEF Idle, Call
  <2> QED
    BY <1>1, <1>4, <2>1
<1> QED
  BY <1>2, <1>3, <1>4 DEF StartCall, ExecuteExpression, ExecuteDataProcedure,
     ExecutePricingProcedure, ExecuteTask, ExecuteTransactionImport, ExecuteSimpleImport,
     ExportHistoricalRecords, RunWorkflow, GetRefreshTokenFails, GetSecret

LEMMA AnswerStep ==
  ASSUME TypeOK, JobInv, NEW c \in Clients, Answer(c)
  PROVE  ClientStep(c)
<1>1. job[c] = "none" /\ calls[c].pc = "sent" /\ UNCHANGED <<setting, report, budget>>
  BY DEF Answer, PlatformAccepts, PlatformFails, JobInv
<1>2. CASE PlatformAccepts(c) /\ ~StartsJob(calls[c].kind)
  BY <1>1, <1>2, PcCall DEF PlatformAccepts, Returns, ClientStep, CallInv, TypeOK
<1>3. CASE PlatformAccepts(c) /\ StartsJob(calls[c].kind)
  <2>1. Becomes(c, [calls[c] EXCEPT !.pc = "started"]) /\ job' = [job EXCEPT ![c] = "I"]
    BY <1>3 DEF PlatformAccepts
  <2>2. /\ calls' \in [Clients -> Call] /\ calls'[c].pc = "started"
        /\ \A d \in Clients \ {c} : calls'[d] = calls[d]
    BY <2>1, PcCall
  <2> QED
    BY <1>1, <2>1, <2>2 DEF ClientStep, CallInv, TypeOK
<1>4. CASE PlatformFails(c)
  <2>1. /\ calls' \in [Clients -> Call] /\ calls'[c].pc = "raised"
        /\ \A d \in Clients \ {c} : calls'[d] = calls[d]
    BY <1>4, PcCall DEF PlatformFails, Raises
  <2>2. job' = job \/ job' = [job EXCEPT ![c] = "I"]
    BY <1>4 DEF PlatformFails
  <2> QED
    BY <1>1, <2>1, <2>2 DEF ClientStep, CallInv, TypeOK
<1> QED
  BY <1>2, <1>3, <1>4 DEF Answer

\* A request hangs, and the time limit ends it or counts as one more read that failed.
LEMMA HangStep ==
  ASSUME TypeOK, NEW c \in Clients, NoAnswer(c) \/ TimeLimit(c)
  PROVE  ClientStep(c)
<1>1. UNCHANGED <<setting, job, report, budget>>
  BY DEF NoAnswer, TimeLimit
<1>2. ASSUME NEW pc \in {"hung", "raised"}, Becomes(c, [calls[c] EXCEPT !.pc = pc])
      PROVE  ClientStep(c)
  BY <1>1, <1>2, PcCall DEF ClientStep, CallInv, TypeOK
<1>3. ASSUME calls[c].counter # Retries,
             Becomes(c, [calls[c] EXCEPT !.pc = "waiting", !.counter = @ + 1])
      PROVE  ClientStep(c)
  <2> DEFINE call == [calls[c] EXCEPT !.pc = "waiting", !.counter = @ + 1]
  <2>1. calls[c] \in Call
    BY DEF TypeOK
  <2>4. calls[c].counter + 1 \in 0..Retries
    BY <1>3, <2>1, PlatformClientAssumption DEF Call
  <2>2. call \in Call /\ call.pc = "waiting"
    BY <2>1, <2>4 DEF Call
  <2>3. /\ calls' \in [Clients -> Call] /\ calls'[c] = call
        /\ \A d \in Clients \ {c} : calls'[d] = calls[d]
    BY <1>3, <2>2, BecomesCall
  <2> QED
    BY <1>1, <2>2, <2>3 DEF ClientStep, CallInv, TypeOK
<1> QED
  BY <1>2, <1>3 DEF NoAnswer, TimeLimit, Raises

\* A wait asks again, gives up, or returns what it was told of a job that is over.
LEMMA ReadStep ==
  ASSUME TypeOK, NEW c \in Clients, Wait(c) \/ Read(c)
  PROVE  ClientStep(c)
<1>1. UNCHANGED <<setting, job, report, budget>>
  BY DEF Wait, Read, WaitTaskToComplete, WaitProcedureToComplete, PollWorkflowStatus
<1>2. ASSUME NEW pc \in {"waiting", "raised", "unknown"},
             Becomes(c, [calls[c] EXCEPT !.pc = pc])
      PROVE  ClientStep(c)
  BY <1>1, <1>2, PcCall DEF ClientStep, CallInv, TypeOK
<1>3. ASSUME Returns(c), job[c] \notin {"P", "I"}
      PROVE  ClientStep(c)
  BY <1>1, <1>3, PcCall DEF Returns, ClientStep, CallInv, TypeOK
<1>4. ASSUME AskAgain(c), calls[c].pc = "waiting", calls[c].counter # Retries
      PROVE  ClientStep(c)
  <2> DEFINE call == [calls[c] EXCEPT !.counter = @ + 1]
  <2>1. calls[c] \in Call
    BY DEF TypeOK
  <2>2. call \in Call /\ call.pc = "waiting"
    BY <1>4, <2>1, PlatformClientAssumption DEF Call
  <2>3. /\ calls' \in [Clients -> Call] /\ calls'[c] = call
        /\ \A d \in Clients \ {c} : calls'[d] = calls[d]
    BY <1>4, <2>2, BecomesCall DEF AskAgain
  <2> QED
    BY <1>1, <2>2, <2>3 DEF ClientStep, CallInv, TypeOK
<1>5. CASE Wait(c)
  BY <1>2, <1>5 DEF Wait
<1>6. CASE WaitTaskToComplete(c)
  BY <1>2, <1>3, <1>4, <1>6 DEF WaitTaskToComplete, Reading, Raises, Pending
<1>7. CASE WaitProcedureToComplete(c)
  BY <1>2, <1>3, <1>4, <1>7
     DEF WaitProcedureToComplete, GetDataProcedureInstanceFails, Reading, Raises, Pending
<1>8. CASE PollWorkflowStatus(c)
  BY <1>2, <1>3, <1>4, <1>8 DEF PollWorkflowStatus, Reading, Raises
<1> QED
  BY <1>5, <1>6, <1>7, <1>8 DEF Read

LEMMA StepEndsStep ==
  ASSUME TypeOK, NEW c \in Clients, StepEnds(c)
  PROVE  ClientStep(c)
<1>1. Idle \in Call /\ Idle.pc = "idle"
  BY IdleCall DEF Idle
<1>2. /\ calls' \in [Clients -> Call] /\ calls'[c] = Idle
      /\ \A d \in Clients \ {c} : calls'[d] = calls[d]
  BY <1>1, BecomesCall DEF StepEnds
<1> QED
  BY <1>1, <1>2 DEF StepEnds, ClientStep, CallInv, TypeOK

\* The platform never takes a finished job up again.
LEMMA JobStepStep ==
  ASSUME TypeOK, JobInv, NEW c \in Clients, JobStep(c)
  PROVE  ClientStep(c)
<1>1. PICK st \in {"P", "D", "E", "C"} :
        job' = [job EXCEPT ![c] = st] /\ job[c] \in {"I", "P"}
  BY DEF JobStep
<1>2. UNCHANGED <<setting, calls, report, budget>>
  BY DEF JobStep
<1> QED
  BY <1>1, <1>2 DEF ClientStep, CallInv, JobInv, TypeOK

LEMMA ClientInductive ==
  ASSUME TypeOK, JobInv, NEW c \in Clients,
         \/ StartCall(c) \/ Answer(c) \/ Wait(c) \/ Read(c) \/ StepEnds(c) \/ JobStep(c)
         \/ NoAnswer(c) \/ TimeLimit(c)
  PROVE  TypeOK' /\ JobInv' /\ UNCHANGED <<setting, report>>
<1>1. ClientStep(c)
  BY StartCallStep, AnswerStep, ReadStep, StepEndsStep, JobStepStep, HangStep
<1>2. JobInv'
  BY <1>1 DEF ClientStep, CallInv, JobInv
<1> QED
  BY <1>1, <1>2 DEF ClientStep, TypeOK, report

-----------------------------------------------------------------------------
(* The saves of the reported workflow's row.                               *)

SaveType == [pc : {"idle", "tasks", "report", "parent", "alert"}, status : RowStatus,
             failing : BOOLEAN]

LEMMA ReplaceSave ==
  ASSUME TypeOK, NEW p \in Savers, NEW sv \in SaveType, saves' = [saves EXCEPT ![p] = sv]
  PROVE  /\ saves' \in [Savers -> SaveType] /\ saves'[p] = sv
         /\ \A q \in Savers \ {p} : saves'[q] = saves[q]
BY DEF TypeOK, SaveType

LEMMA NoSaveType == NoSave \in SaveType /\ NoSave.pc = "idle"
BY DEF NoSave, SaveType, RowStatus

LEMMA NextPc ==
  ASSUME TypeOK, NEW p \in Savers, NEW pc \in {"report", "parent", "alert"}
  PROVE  LET sv == [saves[p] EXCEPT !.pc = pc]
         IN  sv \in SaveType /\ sv.pc = pc /\ sv.status = saves[p].status
             /\ sv.failing = saves[p].failing
<1>1. saves[p] \in SaveType
  BY DEF TypeOK, SaveType
<1> QED
  BY <1>1 DEF SaveType

\* A process ends its save, or goes on to the parent.
LEMMA SavedStep ==
  ASSUME TypeOK, NEW p \in Savers, saves' = [saves EXCEPT ![p] = Saved(p)]
  PROVE  /\ saves' \in [Savers -> SaveType] /\ \A q \in Savers \ {p} : saves'[q] = saves[q]
         /\ saves[p].failing =>
              saves'[p].pc = "parent" /\ saves'[p].status = saves[p].status /\ saves'[p].failing
         /\ ~saves[p].failing => saves'[p].pc = "idle"
<1>1. CASE saves[p].failing
  <2>1. saves' = [saves EXCEPT ![p] = [saves[p] EXCEPT !.pc = "parent"]]
    BY <1>1 DEF Saved
  <2> QED
    <3> DEFINE sv == [saves[p] EXCEPT !.pc = "parent"]
    <3>1. sv \in SaveType /\ sv.pc = "parent" /\ sv.status = saves[p].status
          /\ sv.failing = saves[p].failing
      BY NextPc
    <3> HIDE DEF sv
    <3>2. saves' = [saves EXCEPT ![p] = sv]
      BY <2>1 DEF sv
    <3> QED
      BY <1>1, <3>1, <3>2, ReplaceSave
<1>2. CASE ~saves[p].failing
  <2>1. saves' = [saves EXCEPT ![p] = NoSave]
    BY <1>2 DEF Saved
  <2> QED
    BY <1>2, <2>1, NoSaveType, ReplaceSave
<1> QED
  BY <1>1, <1>2

\* A process that goes on with its save, or ends it, keeps the meaning of the others.
LEMMA GoesOn ==
  ASSUME TypeOK, ReportInv, ~mixed, NEW p \in Savers, saves[p].pc # "idle",
         saves' \in [Savers -> SaveType], \A q \in Savers \ {p} : saves'[q] = saves[q],
         saves'[p].pc # "idle" => InSave(p)',
         saves'[p].pc = "idle" => Reported' /\ Announced'
  PROVE  ReportInv'
<1>1. \A q \in Savers \ {p} : saves'[q].pc = "idle"
  BY DEF ReportInv
<1>2. saves'[p].pc # "idle" => Busy' # {}
  BY DEF Busy
<1> QED
  BY <1>1, <1>2 DEF ReportInv

LEMMA SaveRowStep ==
  ASSUME TypeOK, ReportInv, NEW p \in Savers, NEW st \in RowStatus \ {"init"},
         NEW failing \in BOOLEAN, failing => st \in {"error", "timeout"}, SaveRow(p, st, failing)
  PROVE  TypeOK' /\ ReportInv'
<1> DEFINE sv == IF Reportable(st) THEN [pc |-> "tasks", status |-> st, failing |-> failing]
                 ELSE saves[p]
<1>1. /\ saves[p].pc = "idle" /\ row' = st /\ failed' = failing /\ alerted' = FALSE
      /\ failing => hasTasks /\ early' = ~hasTasks
      /\ early' = ~hasTasks
      /\ saves' = [saves EXCEPT ![p] = sv] /\ mixed' = (mixed \/ Busy # {})
      /\ UNCHANGED <<setting, client, hasTasks, platform>>
  BY DEF SaveRow
<1>2. sv \in SaveType
  BY DEF TypeOK, SaveType
<1>3. /\ saves' \in [Savers -> SaveType] /\ saves'[p] = sv
      /\ \A q \in Savers \ {p} : saves'[q] = saves[q]
  BY <1>1, <1>2, ReplaceSave
<1>4. budget' \in [ops : Nat, lost : Nat] /\ mixed' \in BOOLEAN /\ early' \in BOOLEAN
  BY <1>1 DEF SaveRow, TypeOK
<1>5. TypeOK'
  BY <1>1, <1>3, <1>4 DEF TypeOK, SaveType, client
<1>6. ASSUME ~mixed' PROVE ReportInv'
  <2>1. ~mixed /\ Busy = {}
    BY <1>1, <1>6 DEF TypeOK
  <2>2. \A q \in Savers : saves[q].pc = "idle"
    BY <2>1 DEF Busy
  <2>3. CASE Reportable(st)
    <3>1. saves'[p].pc = "tasks" /\ saves'[p].status = st /\ saves'[p].failing = failing
      BY <1>3, <2>3
    <3>2. Busy' # {}
      BY <3>1 DEF Busy
    <3>3. InSave(p)'
      BY <1>1, <2>3, <3>1 DEF InSave, Reportable, TypeOK
    <3>4. \A q \in Savers \ {p} : saves'[q].pc = "idle"
      BY <1>3, <2>2
    <3> QED
      BY <3>1, <3>2, <3>3, <3>4 DEF ReportInv
  <2>4. CASE ~Reportable(st)
    <3>1. saves'[p] = saves[p] /\ ~failing
      BY <1>3, <2>4 DEF Reportable
    <3>2. \A q \in Savers : saves'[q].pc = "idle"
      BY <1>3, <2>2, <3>1
    <3>3. Reported' /\ Announced'
      BY <1>1, <2>4, <3>1 DEF Reported, Announced, Reportable
    <3> QED
      BY <3>2, <3>3 DEF ReportInv
  <2> QED
    BY <2>3, <2>4
<1> QED
  BY <1>5, <1>6 DEF ReportInv

LEMMA ReadTasksStep ==
  ASSUME TypeOK, ReportInv, NEW p \in Savers, ReadTasks(p)
  PROVE  TypeOK' /\ ReportInv'
<1>1. saves[p].pc = "tasks"
      /\ UNCHANGED <<setting, client, row, hasTasks, platform, failed, alerted, early, mixed, budget>>
  BY DEF ReadTasks
<1>2. CASE setting.linked /\ hasTasks /\ setting.realm
  <2>1. saves' = [saves EXCEPT ![p] = [saves[p] EXCEPT !.pc = "report"]]
    BY <1>2 DEF ReadTasks
  <2>2. /\ saves' \in [Savers -> SaveType] /\ \A q \in Savers \ {p} : saves'[q] = saves[q]
        /\ saves'[p].pc = "report" /\ saves'[p].status = saves[p].status
        /\ saves'[p].failing = saves[p].failing
    BY <2>1, NextPc, ReplaceSave
  <2>3. ~mixed => InSave(p)'
    BY <1>1, <2>2 DEF ReportInv, InSave, Reportable
  <2>4. ReportInv'
    BY <1>1, <2>2, <2>3, GoesOn DEF ReportInv
  <2> QED
    BY <1>1, <2>2, <2>4 DEF TypeOK, SaveType, client
<1>3. CASE ~(setting.linked /\ hasTasks /\ setting.realm)
  <2>1. saves' = [saves EXCEPT ![p] = Saved(p)]
    BY <1>3 DEF ReadTasks
  <2>2. /\ saves' \in [Savers -> SaveType] /\ \A q \in Savers \ {p} : saves'[q] = saves[q]
        /\ saves[p].failing =>
             saves'[p].pc = "parent" /\ saves'[p].status = saves[p].status /\ saves'[p].failing
        /\ ~saves[p].failing => saves'[p].pc = "idle"
    BY <2>1, SavedStep
  <2>3. ~mixed => InSave(p) /\ Reported'
    BY <1>1, <1>3 DEF ReportInv, InSave, Reported, TypeOK, Settings
  <2>4. ~mixed /\ saves[p].failing => InSave(p)'
    BY <1>1, <2>2, <2>3 DEF InSave, Reportable
  <2>5. ~mixed /\ ~saves[p].failing => Announced'
    BY <1>1, <2>3 DEF InSave, Announced
  <2>6. ReportInv'
    BY <1>1, <2>2, <2>3, <2>4, <2>5, GoesOn DEF ReportInv
  <2> QED
    BY <1>1, <2>2, <2>6 DEF TypeOK, SaveType, client
<1> QED
  BY <1>2, <1>3

LEMMA UpdateTaskStatusStep ==
  ASSUME TypeOK, ReportInv, NEW p \in Savers, UpdateTaskStatus(p)
  PROVE  TypeOK' /\ ReportInv'
<1>1. /\ saves[p].pc = "report"
      /\ UNCHANGED <<setting, client, row, hasTasks, failed, alerted, early>>
      /\ saves' = [saves EXCEPT ![p] = Saved(p)]
  BY DEF UpdateTaskStatus
<1>2. /\ saves' \in [Savers -> SaveType] /\ \A q \in Savers \ {p} : saves'[q] = saves[q]
      /\ saves[p].failing =>
           saves'[p].pc = "parent" /\ saves'[p].status = saves[p].status /\ saves'[p].failing
      /\ ~saves[p].failing => saves'[p].pc = "idle"
  BY <1>1, SavedStep
<1>3. CASE platform' = saves[p].status /\ UNCHANGED <<mixed, budget>>
  <2>1. ~mixed => InSave(p) /\ Reported'
    BY <1>1, <1>3 DEF ReportInv, InSave, Reported
  <2>2. ~mixed /\ saves[p].failing => InSave(p)'
    BY <1>1, <1>2, <2>1 DEF InSave, Reportable
  <2>3. ~mixed /\ ~saves[p].failing => Announced'
    BY <1>1, <2>1 DEF InSave, Announced
  <2>4. ReportInv'
    BY <1>1, <1>2, <1>3, <2>1, <2>2, <2>3, GoesOn DEF ReportInv
  <2>5. platform' \in RowStatus
    BY <1>3 DEF TypeOK
  <2> QED
    BY <1>1, <1>2, <1>3, <2>4, <2>5 DEF TypeOK, SaveType, client
<1>4. CASE budget.lost > 0 /\ mixed' = TRUE /\ budget' = [budget EXCEPT !.lost = @ - 1]
           /\ UNCHANGED platform
  <2>1. budget' \in [ops : Nat, lost : Nat]
    BY <1>4 DEF TypeOK
  <2> QED
    BY <1>1, <1>2, <1>4, <2>1 DEF TypeOK, SaveType, client, ReportInv
<1> QED
  BY <1>3, <1>4 DEF UpdateTaskStatus

\* The handler ends at a parent it cannot find: the report alone announces the failure.
LEMMA FailParentStep ==
  ASSUME TypeOK, ReportInv, NEW p \in Savers, FailParent(p)
  PROVE  TypeOK' /\ ReportInv'
<1>1. saves[p].pc = "parent"
      /\ UNCHANGED <<setting, client, row, hasTasks, platform, failed, alerted, early, mixed, budget>>
  BY DEF FailParent
<1>2. ~mixed => InSave(p) /\ Reported'
  BY <1>1 DEF ReportInv, InSave, Reported
<1>3. CASE setting.parent = "lost"
  <2>1. saves' = [saves EXCEPT ![p] = NoSave]
    BY <1>3 DEF FailParent
  <2>2. /\ saves' \in [Savers -> SaveType] /\ \A q \in Savers \ {p} : saves'[q] = saves[q]
        /\ saves'[p].pc = "idle"
    BY <2>1, NoSaveType, ReplaceSave
  <2>3. ~mixed => Announced'
    BY <1>1, <1>2, <1>3 DEF InSave, Reported, Announced, TypeOK, Settings
  <2>4. ReportInv'
    BY <1>1, <1>2, <2>2, <2>3, GoesOn DEF ReportInv
  <2> QED
    BY <1>1, <2>2, <2>4 DEF TypeOK, SaveType, client
<1>4. CASE setting.parent # "lost"
  <2>1. saves' = [saves EXCEPT ![p] = [saves[p] EXCEPT !.pc = "alert"]]
    BY <1>4 DEF FailParent
  <2>2. /\ saves' \in [Savers -> SaveType] /\ \A q \in Savers \ {p} : saves'[q] = saves[q]
        /\ saves'[p].pc = "alert" /\ saves'[p].status = saves[p].status
        /\ saves'[p].failing = saves[p].failing
    BY <2>1, NextPc, ReplaceSave
  <2>3. ~mixed => InSave(p)'
    BY <1>1, <1>2, <2>2 DEF InSave, Reportable
  <2>4. ReportInv'
    BY <1>1, <2>2, <2>3, GoesOn DEF ReportInv
  <2> QED
    BY <1>1, <2>2, <2>4 DEF TypeOK, SaveType, client
<1> QED
  BY <1>3, <1>4

LEMMA SendAlertStep ==
  ASSUME TypeOK, ReportInv, NEW p \in Savers, SendAlert(p)
  PROVE  TypeOK' /\ ReportInv'
<1>1. /\ saves[p].pc = "alert"
      /\ UNCHANGED <<setting, client, row, hasTasks, platform, failed, early>>
      /\ saves' = [saves EXCEPT ![p] = NoSave]
  BY DEF SendAlert
<1>2. /\ saves' \in [Savers -> SaveType] /\ saves'[p].pc = "idle"
      /\ \A q \in Savers \ {p} : saves'[q] = saves[q]
  BY <1>1, NoSaveType, ReplaceSave
<1>3. CASE alerted' = (saves[p].status = "error") /\ UNCHANGED <<mixed, budget>>
  <2>1. ~mixed => InSave(p) /\ Reported'
    BY <1>1, <1>3 DEF ReportInv, InSave, Reported
  <2>2. ~mixed => Announced'
    BY <1>1, <1>3, <2>1 DEF InSave, Reported, Announced, TypeOK, Settings
  <2>3. ReportInv'
    BY <1>1, <1>2, <1>3, <2>1, <2>2, GoesOn DEF ReportInv
  <2>4. alerted' \in BOOLEAN
    BY <1>3
  <2> QED
    BY <1>1, <1>2, <1>3, <2>3, <2>4 DEF TypeOK, SaveType, client
<1>4. CASE budget.lost > 0 /\ mixed' = TRUE /\ budget' = [budget EXCEPT !.lost = @ - 1]
           /\ UNCHANGED alerted
  <2>1. budget' \in [ops : Nat, lost : Nat]
    BY <1>4 DEF TypeOK
  <2> QED
    BY <1>1, <1>2, <1>4, <2>1 DEF TypeOK, SaveType, client, ReportInv
<1> QED
  BY <1>3, <1>4 DEF SendAlert

\* A Task row may appear behind a final status: what was to be reported stays the same.
LEMMA CreateTaskStep ==
  ASSUME TypeOK, ReportInv, CreateTask
  PROVE  TypeOK' /\ ReportInv'
<1>1. UNCHANGED <<setting, client, row, saves, platform, failed, alerted, early, mixed, budget>>
      /\ hasTasks' = TRUE
  BY DEF CreateTask
<1>2. \A p \in Savers : InSave(p) => InSave(p)'
  BY <1>1 DEF InSave, Reportable, Reported
<1>3. ReportInv'
  BY <1>1, <1>2 DEF ReportInv, Reported, Announced, Busy
<1> QED
  BY <1>1, <1>3 DEF TypeOK, client

-----------------------------------------------------------------------------

Inv == TypeOK /\ JobInv /\ ReportInv

LEMMA InitInv == Init => Inv
<1> SUFFICES ASSUME Init PROVE Inv
  OBVIOUS
<1>1. TypeOK
  BY IdleCall, PlatformClientAssumption DEF Init, TypeOK, NoSave, RowStatus
<1>2. JobInv
  BY DEF Init, JobInv, Idle
<1>3. ReportInv
  BY DEF Init, ReportInv, Reported, Announced, Reportable, NoSave
<1> QED
  BY <1>1, <1>2, <1>3 DEF Inv

LEMMA Inductive == Inv /\ [Next]_vars => Inv'
<1> SUFFICES ASSUME TypeOK, JobInv, ReportInv, [Next]_vars PROVE Inv'
  BY DEF Inv
<1>1. ASSUME NEW c \in Clients,
             \/ StartCall(c) \/ Answer(c) \/ Wait(c) \/ Read(c) \/ StepEnds(c) \/ JobStep(c)
         \/ NoAnswer(c) \/ TimeLimit(c)
      PROVE  Inv'
  <2>1. TypeOK' /\ JobInv' /\ UNCHANGED <<setting, report>>
    BY <1>1, ClientInductive
  <2>2. ReportInv'
    BY <2>1 DEF ReportInv, InSave, Reported, Announced, Reportable, report, Busy
  <2> QED
    BY <2>1, <2>2 DEF Inv
<1>2. CASE Save
  <2>1. TypeOK' /\ ReportInv'
    BY <1>2, CreateTaskStep, ReadTasksStep, UpdateTaskStatusStep, FailParentStep,
       SendAlertStep, SaveRowStep
       DEF Save, RowStatus
  <2>2. UNCHANGED client
    BY <1>2 DEF Save, CreateTask, ReadTasks, UpdateTaskStatus, FailParent, SendAlert, SaveRow
  <2>3. JobInv'
    BY <2>2 DEF client, JobInv
  <2> QED
    BY <2>1, <2>3 DEF Inv
<1>3. CASE UNCHANGED vars
  BY <1>3 DEF vars, client, report, Inv, TypeOK, JobInv, ReportInv, InSave,
     Reported, Announced, Busy
<1> QED
  BY <1>1, <1>2, <1>3 DEF Next

LEMMA InvAlways == Spec => []Inv
BY InitInv, Inductive, PTL DEF Spec

\* Calls, jobs, saves and counters always have their types; no wait counts past Retries.
THEOREM TypeCorrect == Spec => []TypeOK
<1>1. Inv => TypeOK
  BY DEF Inv
<1> QED
  BY <1>1, InvAlways, PTL

\* A wait that returns a result was asked about a job that is over, for any number of
\* retries and workers and whichever reads fail.
THEOREM WaitTellsTheTruthHolds == Spec => []WaitTellsTheTruth
<1>1. Inv => WaitTellsTheTruth
  BY DEF Inv, JobInv, WaitTellsTheTruth
<1> QED
  BY <1>1, InvAlways, PTL

\* When no save is in progress the platform task has the workflow's final status,
\* unless saves overlapped, a report was lost, or there was nothing to report it with;
\* also when the queued node creates its Task row behind a cancel.
THEOREM ReportAgreesHolds == Spec => []ReportAgrees
<1>1. Inv => ReportAgrees
  BY DEF Inv, ReportInv, Reported, ReportAgrees, Reportable
<1> QED
  BY <1>1, InvAlways, PTL

\* A failure is announced by the time its handler is done, unless a request was lost or
\* saves overlapped, or there is no platform task to report to and the handler sends no
\* alert: the step timed out, or the lookup of its parent's task raised.
THEOREM NoSilentFailureHolds == Spec => []NoSilentFailure
<1>1. Inv => NoSilentFailure
  BY DEF Inv, ReportInv, Announced, NoSilentFailure
<1> QED
  BY <1>1, InvAlways, PTL
=============================================================================
