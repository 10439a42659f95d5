------------------------ MODULE WorkflowChainProofs ------------------------
(* Theorems about WorkflowChain for every chain of steps and groups, any   *)
(* number of workers, and any number of requests, crashes, restarts and    *)
(* broker failures: type correctness, the order of the chain, and that     *)
(* "success" is the truth; and, without cancels and crashes, that no step  *)
(* of the chain undoes a failure.                                          *)
EXTENDS WorkflowChain, FiniteSetTheorems, TLAPS

Pcs == {"idle", "started", "run", "returned", "error", "timeout", "closed", "sent",
        "raised"}

\* Which message a worker holds at each program counter.
JobShape ==
  \A w \in Workers :
    /\ job[w].pc # "idle" => job[w].msg \in Messages
    /\ job[w].pc = "idle" => job[w].msg = None
    /\ job[w].pc \in {"run", "returned", "error", "timeout"} => job[w].msg \in Ids
    /\ job[w].pc = "started" => job[w].msg = "start"
    /\ job[w].pc = "closed" => job[w].msg = "end"

TypeInv == TypeOK /\ JobShape

\* The stages before k have all returned.
Before(k) == \A j \in 1..(k - 1) : Stages[j] \subseteq ran

\* Message m may be executed: what has to come before it has returned.
Ready(m) ==
  /\ m \in Steps => Before(StageOf(m))
  /\ m = "end" \/ (m = SuccessHook /\ SuccessHook # None) => Steps \subseteq ran

\* Every message that waits or is held by a worker, and every unlock task, is ready; a
\* good result is only ever stored for code that returned.
ChainInv ==
  /\ \A t \in Ids : result[t] = "success" => t \in ran
  /\ \A m \in Messages : queue[m] > 0 => Ready(m)
  /\ \A w \in Workers : job[w].pc # "idle" => Ready(job[w].msg)
  /\ \A k \in DOMAIN Stages : chords[k] > 0 => Before(k)
  /\ SuccessMeansDone

-----------------------------------------------------------------------------
(* The chain.                                                              *)

LEMMA StagesShape ==
  /\ Last \in Nat /\ DOMAIN Stages = 1..Last
  /\ \A k \in DOMAIN Stages : Stages[k] \subseteq Ids /\ IsFiniteSet(Stages[k])
BY ChainAssumption DEF Last

\* A step belongs to one stage.
LEMMA StageOfStep ==
  ASSUME NEW t \in Steps
  PROVE  /\ StageOf(t) \in DOMAIN Stages /\ t \in Stages[StageOf(t)]
         /\ \A k \in DOMAIN Stages : t \in Stages[k] => k = StageOf(t)
<1>1. \E k \in DOMAIN Stages : t \in Stages[k]
  BY DEF Steps
<1>2. StageOf(t) \in DOMAIN Stages /\ t \in Stages[StageOf(t)]
  BY <1>1 DEF StageOf
<1> QED
  BY <1>2, ChainAssumption

LEMMA StepIds ==
  /\ Steps \subseteq Ids /\ SuccessHook \notin Steps
  /\ Ids \ Steps \subseteq {SuccessHook}
  /\ Ids \subseteq Messages /\ "start" \notin Ids /\ "end" \notin Ids /\ "launcher" \notin Ids
  /\ None \notin Ids
BY ChainAssumption DEF Steps, Messages

\* A stage that is not a group has one step.
LEMMA SingleStage ==
  ASSUME NEW k \in DOMAIN Stages, NEW t \in Stages[k], ~IsGroup(k)
  PROVE  Stages[k] = {t}
<1>1. IsFiniteSet(Stages[k])
  BY StagesShape
<1>2. Cardinality(Stages[k]) \in Nat /\ Cardinality(Stages[k]) <= 1
  BY <1>1, FS_CardinalityType DEF IsGroup
<1>3. ASSUME NEW u \in Stages[k], u # t PROVE FALSE
  <2>1. {t, u} \subseteq Stages[k] /\ IsFiniteSet({t, u})
    BY <1>1, FS_Subset
  <2>2. Cardinality({t, u}) <= Cardinality(Stages[k])
    BY <1>1, <2>1, FS_Subset
  <2>3. Cardinality({t, u}) = 2
    <3>1. Cardinality({u}) = 1 /\ IsFiniteSet({u})
      BY FS_Singleton
    <3>2. Cardinality({u} \union {t}) = Cardinality({u}) + 1
      BY <1>3, <3>1, FS_AddElement
    <3>3. {u} \union {t} = {t, u}
      OBVIOUS
    <3> QED
      BY <3>1, <3>2, <3>3
  <2> QED
    BY <1>2, <2>2, <2>3
<1> QED
  BY <1>3

\* More returned code makes nothing less ready.
LEMMA ReadyKept ==
  ASSUME ran \subseteq ran'
  PROVE  /\ \A k : Before(k) => Before(k)'
         /\ \A m : Ready(m) => Ready(m)'
BY DEF Before, Ready, StageOf, Steps

-----------------------------------------------------------------------------
(* Type correctness.                                                       *)

JobType == [pc : Pcs, msg : Messages \union {None}]

\* What a worker may hold.
JobFilled(j) ==
  /\ j \in JobType
  /\ j.pc # "idle" => j.msg \in Messages
  /\ j.pc = "idle" => j.msg = None
  /\ j.pc \in {"run", "returned", "error", "timeout"} => j.msg \in Ids
  /\ j.pc = "started" => j.msg = "start"
  /\ j.pc = "closed" => j.msg = "end"

JobsFilled == job \in [Workers -> JobType] /\ JobShape

LEMMA JobUpdate ==
  ASSUME JobsFilled, NEW w \in Workers, NEW j, JobFilled(j), job' = [job EXCEPT ![w] = j]
  PROVE  JobsFilled' /\ job'[w] = j /\ \A v \in Workers \ {w} : job'[v] = job[v]
<1>1. job' \in [Workers -> JobType] /\ job'[w] = j /\ \A v \in Workers \ {w} : job'[v] = job[v]
  BY DEF JobsFilled, JobFilled
<1>2. JobShape'
  BY <1>1 DEF JobsFilled, JobShape, JobFilled
<1> QED
  BY <1>1, <1>2 DEF JobsFilled

LEMMA AckJob ==
  ASSUME JobsFilled, NEW w \in Workers, Ack(w)
  PROVE  JobsFilled' /\ job'[w] = Idle /\ \A v \in Workers \ {w} : job'[v] = job[v]
<1>1. JobFilled(Idle)
  BY DEF Idle, JobFilled, JobType, Pcs
<1> QED
  BY <1>1, JobUpdate DEF Ack

LEMMA GotoJob ==
  ASSUME JobsFilled, NEW w \in Workers, NEW pc \in {"returned", "error", "timeout"},
         job[w].pc \in {"run", "returned"}, Goto(w, pc)
  PROVE  /\ JobsFilled' /\ job'[w].pc = pc /\ job'[w].msg = job[w].msg
         /\ \A v \in Workers \ {w} : job'[v] = job[v]
<1> DEFINE j == [job[w] EXCEPT !.pc = pc]
<1>1. job[w] \in JobType /\ job[w].msg \in Ids
  BY DEF JobsFilled, JobShape
<1>2. j.pc = pc /\ j.msg = job[w].msg /\ j \in JobType
  BY <1>1 DEF JobType, Pcs
<1>3. JobFilled(j)
  BY <1>1, <1>2, StepIds DEF JobFilled
<1>4. job' = [job EXCEPT ![w] = j]
  BY DEF Goto
<1> QED
  BY <1>2, <1>3, <1>4, JobUpdate

\* start and end send what follows them.
LEMMA SentJob ==
  ASSUME JobsFilled, NEW w \in Workers, job[w].pc \in {"started", "closed"}, Goto(w, "sent")
  PROVE  /\ JobsFilled' /\ job'[w].pc = "sent" /\ job'[w].msg = job[w].msg
         /\ \A v \in Workers \ {w} : job'[v] = job[v]
<1> DEFINE j == [job[w] EXCEPT !.pc = "sent"]
<1>1. job[w] \in JobType /\ job[w].msg \in Messages
  BY DEF JobsFilled, JobShape
<1>2. j.pc = "sent" /\ j.msg = job[w].msg /\ j \in JobType
  BY <1>1 DEF JobType, Pcs
<1>3. JobFilled(j)
  BY <1>1, <1>2 DEF JobFilled
<1>4. job' = [job EXCEPT ![w] = j]
  BY DEF Goto
<1> QED
  BY <1>2, <1>3, <1>4, JobUpdate

LEMMA TakeJob ==
  ASSUME JobsFilled, queue \in [Messages -> Nat], NEW w \in Workers, NEW m \in Messages,
         NEW pc \in {"started", "run", "closed", "raised"}, Take(w, m, pc),
         pc = "run" => m \in Ids, pc = "started" => m = "start", pc = "closed" => m = "end"
  PROVE  /\ JobsFilled' /\ job'[w].pc = pc /\ job'[w].msg = m
         /\ \A v \in Workers \ {w} : job'[v] = job[v]
         /\ queue' \in [Messages -> Nat] /\ queue[m] > 0
         /\ \A n \in Messages : queue'[n] <= queue[n]
<1> DEFINE j == [pc |-> pc, msg |-> m]
<1>1. JobFilled(j)
  BY DEF JobFilled, JobType, Pcs
<1>2. job' = [job EXCEPT ![w] = j]
  BY DEF Take
<1>3. JobsFilled' /\ job'[w] = j /\ \A v \in Workers \ {w} : job'[v] = job[v]
  BY <1>1, <1>2, JobUpdate
<1>4. queue' \in [Messages -> Nat] /\ queue[m] > 0 /\ \A n \in Messages : queue'[n] <= queue[n]
  BY DEF Take
<1> QED
  BY <1>3, <1>4

LEMMA SendType ==
  ASSUME queue \in [Messages -> Nat], NEW m \in Messages, Send(m)
  PROVE  /\ queue' \in [Messages -> Nat]
         /\ \A n \in Messages \ {m} : queue'[n] = queue[n]
BY DEF Send

LEMMA SendStageType ==
  ASSUME queue \in [Messages -> Nat], NEW k \in 1..(Last + 1),
         NEW waiting \in [DOMAIN Stages -> Nat], SendStage(k, waiting)
  PROVE  queue' \in [Messages -> Nat] /\ chords' \in [DOMAIN Stages -> Nat]
<1>1. CASE k > Last
  BY <1>1, SendType DEF SendStage, Messages
<1>2. CASE ~(k > Last)
  <2>1. k \in DOMAIN Stages
    BY <1>2, StagesShape
  <2>2. /\ queue' = [m \in Messages |-> queue[m] + (IF m \in Stages[k] THEN 1 ELSE 0)]
        /\ chords' = [waiting EXCEPT ![k] = @ + (IF IsGroup(k) THEN 1 ELSE 0)]
    BY <1>2 DEF SendStage
  <2>3. queue' \in [Messages -> Nat]
    BY <2>2
  <2>4. chords' \in [DOMAIN Stages -> Nat]
    BY <2>1, <2>2
  <2> QED
    BY <2>3, <2>4
<1> QED
  BY <1>1, <1>2

LEMMA InitTypeInv == Init => TypeInv
BY ChainAssumption DEF Init, TypeInv, TypeOK, JobShape, Idle, NoRequest, Status

LEMMA JobsOfType == TypeInv <=> TypeOK /\ JobsFilled
BY DEF TypeInv, TypeOK, JobsFilled, JobType, Pcs

\* The builder's steps.
LEMMA BuildType ==
  ASSUME TypeInv, Build
  PROVE  TypeInv'
<1> USE DEF TypeInv, TypeOK, JobShape
<1>1. ASSUME NEW t \in Ids, NewTask(t) PROVE TypeInv'
  BY <1>1 DEF NewTask, Status
<1>2. CASE Run
  <2>1. queue' \in [Messages -> Nat]
    BY <1>2, SendType DEF Run, Messages
  <2> QED
    BY <1>2, <2>1 DEF Run
<1>3. CASE RunFails
  BY <1>3 DEF RunFails, Status
<1>4. CASE BuildFails
  BY <1>4 DEF BuildFails
<1> QED
  BY <1>1, <1>2, <1>3, <1>4 DEF Build

\* The steps of the requests to cancel, pause and resume.
Request == [op : {"none", "cancel", "pause", "check", "resume"}, rows : SUBSET Ids]

LEMMA RequestType ==
  ASSUME TypeInv, NEW c \in Clients, Cancel(c) \/ Pause(c) \/ Resume(c)
  PROVE  TypeInv'
<1>0. api \in [Clients -> Request] /\ NoRequest \in Request
  BY DEF TypeInv, TypeOK, Request, NoRequest
<1> USE DEF TypeInv, TypeOK, JobShape
<1>1. CASE CancelRead(c)
  <2>1. api' \in [Clients -> Request]
    BY <1>0, <1>1 DEF CancelRead, Ask, Request
  <2> QED
    BY <1>1, <2>1 DEF CancelRead, Request
<1>2. ASSUME NEW t \in Ids, CancelTask(c, t) PROVE TypeInv'
  <2>1. api' \in [Clients -> Request]
    BY <1>0, <1>2 DEF CancelTask, Ask, Request
  <2> QED
    BY <1>2, <2>1 DEF CancelTask, Status, Request
<1>3. CASE CancelSave(c)
  BY <1>0, <1>3 DEF CancelSave, Status, Request
<1>4. CASE PauseRead(c)
  <2>1. api' \in [Clients -> Request]
    BY <1>0, <1>4 DEF PauseRead, Ask, Request
  <2> QED
    BY <1>4, <2>1 DEF PauseRead, Request
<1>5. CASE PauseSave(c)
  BY <1>0, <1>5 DEF PauseSave, Status, Request
<1>6. CASE ResumeRead(c) \/ ResumeCheck(c)
  <2>1. api' \in [Clients -> Request]
    BY <1>0, <1>6 DEF ResumeRead, ResumeCheck, Ask, Request
  <2> QED
    BY <1>6, <2>1 DEF ResumeRead, ResumeCheck, Request
<1>7. CASE ResumeSave(c)
  BY <1>0, <1>7 DEF ResumeSave, Status, Request
<1> QED
  BY <1>1, <1>2, <1>3, <1>4, <1>5, <1>6, <1>7 DEF Cancel, Pause, Resume

LEMMA UnlockType ==
  ASSUME TypeInv, NEW k \in DOMAIN Stages, ChordUnlock(k)
  PROVE  TypeInv'
<1> DEFINE waiting == [chords EXCEPT ![k] = @ - 1]
<1>1. waiting \in [DOMAIN Stages -> Nat]
  BY DEF ChordUnlock, TypeInv, TypeOK
<1>2. k + 1 \in 1..(Last + 1)
  BY StagesShape
<1> HIDE DEF waiting
<1>3. SendStage(k + 1, waiting)
      \/ (/\ queue' = [queue EXCEPT !["launcher"] = @ + (IF FailureHook THEN 1 ELSE 0)]
          /\ chords' = waiting)
  BY DEF ChordUnlock, waiting
<1>4. queue' \in [Messages -> Nat] /\ chords' \in [DOMAIN Stages -> Nat]
  BY <1>1, <1>2, <1>3, SendStageType DEF TypeInv, TypeOK, Messages
<1> QED
  BY <1>4 DEF ChordUnlock, TypeInv, TypeOK, JobShape

LEMMA WorkerType ==
  ASSUME TypeInv, NEW w \in Workers, WorkerStep(w)
  PROVE  TypeInv'
<1>0. TypeOK /\ JobsFilled
  BY JobsOfType
<1> SUFFICES TypeOK' /\ JobsFilled'
  BY DEF TypeInv, JobsFilled
<1>1. /\ queue \in [Messages -> Nat] /\ chords \in [DOMAIN Stages -> Nat]
      /\ job[w] \in JobType /\ 1 \in 1..(Last + 1)
  BY <1>0, StagesShape DEF TypeOK, JobsFilled
<1>2. job[w].pc = "run" => job[w].msg \in Ids
  BY <1>0 DEF JobsFilled, JobShape
<1>3. CASE Start(w)
  <2>1. JobsFilled' /\ queue' \in [Messages -> Nat]
    BY <1>0, <1>1, <1>3, TakeJob DEF Start, Messages
  <2> QED
    BY <1>0, <1>3, <2>1 DEF Start, TypeOK, JobsFilled, JobType, Pcs, Status
<1>4. CASE StartReturns(w)
  <2>1. JobsFilled' /\ queue' \in [Messages -> Nat] /\ chords' \in [DOMAIN Stages -> Nat]
    BY <1>0, <1>1, <1>4, SendStageType, SentJob DEF StartReturns
  <2> QED
    BY <1>0, <1>4, <2>1 DEF StartReturns, TypeOK, JobsFilled, JobType, Pcs
<1>5. ASSUME NEW t \in Ids, StartStep(w, t) PROVE TypeOK' /\ JobsFilled'
  <2>1. JobsFilled' /\ queue' \in [Messages -> Nat]
    BY <1>0, <1>1, <1>5, TakeJob, StepIds DEF StartStep
  <2> QED
    BY <1>0, <1>5, <2>1 DEF StartStep, TypeOK, JobsFilled, JobType, Pcs, Status
<1>6. ASSUME NEW t \in Ids, DiscardRevoked(w, t) PROVE TypeOK' /\ JobsFilled'
  BY <1>0, <1>6, StepIds DEF DiscardRevoked, TypeOK, JobsFilled, JobShape
<1>7. CASE StepReturns(w)
  <2>1. JobsFilled'
    BY <1>0, <1>7, GotoJob DEF StepReturns
  <2>2. queue' \in [Messages -> Nat] /\ chords' \in [DOMAIN Stages -> Nat]
    <3>1. CASE UNCHANGED <<queue, chords>>
      BY <1>1, <3>1
    <3>2. CASE ~UNCHANGED <<queue, chords>>
      <4>1. job[w].msg \in Steps /\ SendStage(StageOf(job[w].msg) + 1, chords)
        BY <1>2, <1>7, <3>2, StepIds DEF StepReturns
      <4>2. StageOf(job[w].msg) + 1 \in 1..(Last + 1)
        BY <4>1, StageOfStep, StagesShape
      <4> QED
        BY <1>1, <4>1, <4>2, SendStageType
    <3> QED
      BY <3>1, <3>2
  <2> QED
    BY <1>0, <1>2, <1>7, <2>1, <2>2 DEF StepReturns, TypeOK, JobsFilled, JobType, Pcs
<1>8. CASE OnSuccess(w)
  <2>1. JobsFilled'
    BY <1>0, <1>8, AckJob, GotoJob DEF OnSuccess
  <2> QED
    BY <1>0, <1>8, <2>1 DEF OnSuccess, TypeOK, JobsFilled, JobType, Pcs, Status
<1>9. ASSUME NEW kind \in FailureKinds, UserCodeRaises(w, kind) PROVE TypeOK' /\ JobsFilled'
  <2>1. JobsFilled'
    BY <1>0, <1>9, GotoJob, ChainAssumption DEF UserCodeRaises
  <2>2. queue' \in [Messages -> Nat]
    BY <1>1, <1>9 DEF UserCodeRaises, Messages
  <2> QED
    BY <1>0, <1>2, <1>9, <2>1, <2>2 DEF UserCodeRaises, TypeOK, JobsFilled, JobType, Pcs
<1>10. CASE OnFailure(w)
  <2>1. JobsFilled'
    BY <1>0, <1>10, AckJob DEF OnFailure
  <2> QED
    BY <1>0, <1>10, <2>1 DEF OnFailure, TypeOK, JobsFilled, JobType, Pcs, Status
<1>11. CASE End(w)
  <2>1. JobsFilled' /\ queue' \in [Messages -> Nat]
    BY <1>0, <1>1, <1>11, TakeJob DEF End, Messages
  <2> QED
    BY <1>0, <1>11, <2>1 DEF End, TypeOK, JobsFilled, JobType, Pcs, Status
<1>12. CASE EndReturns(w)
  <2>1. JobsFilled'
    BY <1>0, <1>12, SentJob DEF EndReturns
  <2>2. queue' \in [Messages -> Nat]
    BY <1>1, <1>12, SendType, ChainAssumption DEF EndReturns, Messages
  <2> QED
    BY <1>0, <1>12, <2>1, <2>2 DEF EndReturns, TypeOK, JobsFilled, JobType, Pcs
<1>13. CASE FailureHooksLauncher(w)
  <2>1. JobsFilled' /\ queue' \in [Messages -> Nat]
    BY <1>0, <1>1, <1>13, TakeJob DEF FailureHooksLauncher, Messages
  <2> QED
    BY <1>0, <1>13, <2>1 DEF FailureHooksLauncher, TypeOK, JobsFilled, JobType, Pcs
<1>14. CASE LauncherFails(w)
  <2>1. JobsFilled'
    BY <1>0, <1>14, AckJob DEF LauncherFails
  <2> QED
    BY <1>0, <1>14, <2>1 DEF LauncherFails, TypeOK, JobsFilled, JobType, Pcs
<1>15. CASE Acknowledge(w)
  <2>1. JobsFilled'
    BY <1>0, <1>15, AckJob DEF Acknowledge
  <2> QED
    BY <1>0, <1>15, <2>1 DEF Acknowledge, TypeOK, JobsFilled, JobType, Pcs
<1> QED
  BY <1>3, <1>4, <1>5, <1>6, <1>7, <1>8, <1>9, <1>10, <1>11, <1>12, <1>13, <1>14, <1>15
     DEF WorkerStep

\* A worker that is lost, a revocation that reaches a worker, and a node that restarts.
LEMMA CrashType ==
  ASSUME TypeInv, NEW w \in Workers, Crash(w) \/ KillRevoked(w)
  PROVE  TypeInv'
<1>0. TypeOK /\ JobsFilled
  BY JobsOfType
<1> SUFFICES TypeOK' /\ JobsFilled'
  BY DEF TypeInv, JobsFilled
<1>1. JobsFilled'
  BY <1>0, AckJob DEF Crash, KillRevoked
<1>2. CASE Crash(w)
  <2>1. job[w].msg \in Messages
    BY <1>0, <1>2 DEF Crash, JobsFilled, JobShape
  <2>2. queue' \in [Messages -> Nat]
    BY <1>0, <1>2, <2>1, SendType DEF Crash, TypeOK
  <2>3. budget' \in [cancel : Nat, pause : Nat, crash : Nat, broker : Nat]
    BY <1>0, <1>2 DEF Crash, TypeOK
  <2> QED
    BY <1>0, <1>1, <1>2, <2>2, <2>3 DEF Crash, TypeOK, JobsFilled, JobType, Pcs
<1>3. CASE KillRevoked(w)
  BY <1>0, <1>1, <1>3 DEF KillRevoked, TypeOK, JobsFilled, JobType, Pcs
<1> QED
  BY <1>2, <1>3

Held(m) == {w \in Workers : job[w].msg = m}

LEMMA HeldCount ==
  ASSUME NEW m
  PROVE  /\ Cardinality(Held(m)) \in Nat
         /\ Cardinality(Held(m)) > 0 => \E w \in Workers : job[w].msg = m
<1>1. IsFiniteSet(Held(m))
  <2>1. IsFiniteSet(Workers) /\ Held(m) \in SUBSET Workers
    BY ChainAssumption DEF Held
  <2> QED
    BY <2>1, FS_Subset
<1>2. Cardinality(Held(m)) \in Nat
  BY <1>1, FS_CardinalityType
<1>3. ASSUME Cardinality(Held(m)) > 0 PROVE Held(m) # {}
  BY <1>1, <1>2, <1>3, FS_EmptySet
<1> QED
  BY <1>2, <1>3 DEF Held

LEMMA RestartType ==
  ASSUME TypeInv, Restart
  PROVE  TypeInv'
<1>1. queue' = [m \in Messages |-> queue[m] + Cardinality(Held(m))]
  BY DEF Restart, Held
<1>2. queue' \in [Messages -> Nat]
  BY <1>1, HeldCount DEF TypeInv, TypeOK
<1>3. job' = [w \in Workers |-> Idle]
  BY DEF Restart
<1>4. job' \in [Workers -> [pc : Pcs, msg : Messages \union {None}]] /\ JobShape'
  BY <1>3 DEF Idle, JobShape, Pcs
<1>5. rows' \in [Ids -> Status \union {"none"}] /\ status' \in Status
  BY DEF Restart, TypeInv, TypeOK, Status
<1>6. budget' \in [cancel : Nat, pause : Nat, crash : Nat, broker : Nat]
  BY DEF Restart, TypeInv, TypeOK
<1>7. UNCHANGED <<result, ran, chords, api, builder, template>> /\ revoked' = {}
  BY DEF Restart
<1> QED
  BY <1>2, <1>4, <1>5, <1>6, <1>7 DEF TypeInv, TypeOK, Pcs

LEMMA TypeInductive == TypeInv /\ [Next]_vars => TypeInv'
<1> SUFFICES ASSUME TypeInv, [Next]_vars PROVE TypeInv'
  OBVIOUS
<1>1. CASE UNCHANGED vars
  BY <1>1 DEF vars, TypeInv, TypeOK, JobShape
<1>2. CASE Next
  BY <1>2, BuildType, WorkerType, CrashType, UnlockType, RequestType, RestartType DEF Next
<1> QED
  BY <1>1, <1>2

\* The rows, results, messages and what the workers hold always have their types: a
\* Task row only ever gets a status of Task's choices, whatever fails.
THEOREM TypeCorrect == Spec => []TypeOK
<1>1. TypeInv => TypeOK
  BY DEF TypeInv
<1> QED
  BY <1>1, InitTypeInv, TypeInductive, PTL DEF Spec

-----------------------------------------------------------------------------
(* The order of the chain.                                                 *)

\* What a step may add: messages that are ready by then.
Added ==
  /\ \A m \in Messages : queue'[m] > 0 => queue[m] > 0 \/ Ready(m)'
  /\ \A k \in DOMAIN Stages : chords'[k] > 0 => chords[k] > 0 \/ Before(k)'

\* Sending stage k when everything before it has returned.
LEMMA SendStageReady ==
  ASSUME queue \in [Messages -> Nat], NEW k \in 1..(Last + 1),
         NEW waiting \in [DOMAIN Stages -> Nat],
         \A j \in DOMAIN Stages : waiting[j] <= chords[j],
         chords \in [DOMAIN Stages -> Nat],
         SendStage(k, waiting), Before(k)'
  PROVE  Added
<1>1. CASE k > Last
  <2>1. k = Last + 1
    BY <1>1, StagesShape
  <2>2. Steps \subseteq ran'
    BY <2>1, StagesShape DEF Before, Steps
  <2>3. Ready("end")'
    BY <2>2, StepIds DEF Ready
  <2>4. Send("end") /\ chords' = waiting
    BY <1>1 DEF SendStage
  <2>5. \A m \in Messages \ {"end"} : queue'[m] = queue[m]
    BY <2>4, SendType DEF Messages
  <2> QED
    BY <2>3, <2>4, <2>5 DEF Added
<1>2. CASE ~(k > Last)
  <2>1. k \in DOMAIN Stages
    BY <1>2, StagesShape
  <2>2. /\ queue' = [m \in Messages |-> queue[m] + (IF m \in Stages[k] THEN 1 ELSE 0)]
        /\ chords' = [waiting EXCEPT ![k] = @ + (IF IsGroup(k) THEN 1 ELSE 0)]
    BY <1>2 DEF SendStage
  <2>3. ASSUME NEW m \in Stages[k] PROVE Ready(m)'
    <3>1. m \in Steps /\ StageOf(m) = k
      BY <2>1, StageOfStep DEF Steps
    <3> QED
      BY <3>1, StepIds DEF Ready, StageOf
  <2>4. \A m \in Messages : queue'[m] > 0 => queue[m] > 0 \/ Ready(m)'
    BY <2>2, <2>3
  <2>5. \A j \in DOMAIN Stages : chords'[j] > 0 => chords[j] > 0 \/ j = k
    BY <2>2
  <2> QED
    BY <2>4, <2>5 DEF Added
<1> QED
  BY <1>1, <1>2

\* A step keeps ChainInv when what it adds to the queue, the unlock tasks and the
\* workers is ready, and its status and results are the truth.
LEMMA ChainInvKept ==
  ASSUME ChainInv, ran \subseteq ran', Added,
         \A t \in Ids : result'[t] = "success" => result[t] = "success" \/ t \in ran',
         \A w \in Workers : job'[w].pc # "idle" =>
            (job[w].pc # "idle" /\ job'[w].msg = job[w].msg) \/ Ready(job'[w].msg),
         status' = "success" => status = "success" \/ Steps \subseteq ran'
  PROVE  ChainInv'
<1>1. \A m \in Messages : queue'[m] > 0 => Ready(m)'
  BY ReadyKept DEF ChainInv, Added
<1>2. \A k \in DOMAIN Stages : chords'[k] > 0 => Before(k)'
  BY ReadyKept DEF ChainInv, Added
<1>3. ASSUME NEW w \in Workers, job'[w].pc # "idle" PROVE Ready(job[w].msg)'
  <2>1. PICK m : m = job'[w].msg
    OBVIOUS
  <2>2. Ready(m)
    BY <1>3, <2>1 DEF ChainInv
  <2>3. Ready(m)'
    BY <2>2, ReadyKept
  <2> QED
    BY <2>1, <2>3 DEF Ready, Before, StageOf
<1>4. \A t \in Ids : result'[t] = "success" => t \in ran'
  BY DEF ChainInv
<1>5. SuccessMeansDone'
  BY DEF ChainInv, SuccessMeansDone
<1> QED
  BY <1>1, <1>2, <1>3, <1>4, <1>5 DEF ChainInv

LEMMA WorkerChain ==
  ASSUME TypeInv, ChainInv, NEW w \in Workers, WorkerStep(w)
  PROVE  ChainInv'
<1>0. TypeOK /\ JobsFilled
  BY JobsOfType
<1>1. /\ queue \in [Messages -> Nat] /\ chords \in [DOMAIN Stages -> Nat]
      /\ result \in [Ids -> {"none", "success", "failure"}] /\ 1 \in 1..(Last + 1)
  BY <1>0, StagesShape DEF TypeOK
<1>2. job[w].pc = "run" => job[w].msg \in Ids
  BY <1>0 DEF JobsFilled, JobShape
\* A worker takes a message that is ready.
<1>3. ASSUME NEW m \in Messages, NEW pc \in {"started", "run", "closed", "raised"}, Take(w, m, pc),
             pc = "run" => m \in Ids, pc = "started" => m = "start", pc = "closed" => m = "end",
             UNCHANGED <<result, ran, chords>>,
             status' = "success" => status = "success" \/ Steps \subseteq ran
      PROVE  ChainInv'
  <2>1. /\ job'[w].pc = pc /\ job'[w].msg = m /\ \A v \in Workers \ {w} : job'[v] = job[v]
        /\ queue[m] > 0 /\ \A n \in Messages : queue'[n] <= queue[n]
        /\ queue' \in [Messages -> Nat]
    BY <1>0, <1>1, <1>3, TakeJob
  <2>2. Ready(m)
    BY <2>1 DEF ChainInv
  <2>3. Added
    BY <1>1, <1>3, <2>1 DEF Added
  <2> QED
    BY <1>3, <2>1, <2>2, <2>3, ChainInvKept
\* A worker is done with its message, and sends at most messages that are ready.
<1>4. ASSUME Ack(w), UNCHANGED <<result, ran>>, Added, status' = "success" => status = "success"
      PROVE  ChainInv'
  <2>1. job'[w].pc = "idle" /\ \A v \in Workers \ {w} : job'[v] = job[v]
    BY <1>0, <1>4, AckJob DEF Idle
  <2> QED
    BY <1>4, <2>1, ChainInvKept
<1>5. UNCHANGED <<queue, chords>> => Added
  BY DEF Added
\* start or end sends messages that are ready, and keeps its own.
<1>5a. ASSUME job[w].pc \in {"started", "closed"}, Goto(w, "sent"), UNCHANGED <<status, result, ran>>,
              Added
       PROVE  ChainInv'
  <2>1. job'[w].msg = job[w].msg /\ \A v \in Workers \ {w} : job'[v] = job[v]
    BY <1>0, <1>5a, SentJob
  <2> QED
    BY <1>5a, <2>1, ChainInvKept
<1>6. CASE Start(w)
  BY <1>3, <1>6 DEF Start, Messages
<1>7. CASE StartReturns(w)
  <2>1. Before(1)'
    BY DEF Before
  <2>2. Added
    BY <1>1, <1>7, <2>1, SendStageReady DEF StartReturns
  <2> QED
    BY <1>7, <1>5a, <2>2 DEF StartReturns
<1>8. ASSUME NEW t \in Ids, StartStep(w, t) PROVE ChainInv'
  BY <1>3, <1>8, StepIds DEF StartStep
<1>9. ASSUME NEW t \in Ids, DiscardRevoked(w, t) PROVE ChainInv'
  <2>1. Added
    BY <1>1, <1>9 DEF DiscardRevoked, Added
  <2>2. \A u \in Ids : result'[u] = "success" => result[u] = "success"
    BY <1>1, <1>9 DEF DiscardRevoked
  <2> QED
    BY <1>9, <2>1, <2>2, ChainInvKept DEF DiscardRevoked
<1>10. CASE StepReturns(w)
  <2> DEFINE t == job[w].msg
  <2>1. /\ job[w].pc = "run" /\ t \in Ids
        /\ ran' = ran \union {t} /\ result' = [result EXCEPT ![t] = "success"] /\ status' = status
    BY <1>2, <1>10 DEF StepReturns
  <2>2. /\ job'[w].pc = "returned" /\ job'[w].msg = t
        /\ \A v \in Workers \ {w} : job'[v] = job[v]
    BY <1>0, <1>10, GotoJob DEF StepReturns
  <2>3. Added
    <3>1. CASE t = SuccessHook \/ IsGroup(StageOf(t))
      BY <1>5, <1>10, <3>1 DEF StepReturns
    <3>2. CASE ~(t = SuccessHook \/ IsGroup(StageOf(t)))
      <4>1. t \in Steps /\ SendStage(StageOf(t) + 1, chords)
        BY <1>10, <2>1, <3>2, StepIds DEF StepReturns
      <4>2. /\ StageOf(t) \in DOMAIN Stages /\ Stages[StageOf(t)] = {t}
            /\ StageOf(t) + 1 \in 1..(Last + 1)
        BY <3>2, <4>1, StageOfStep, StagesShape, SingleStage
      <4>3. Before(StageOf(t))
        BY <2>1, <4>1 DEF ChainInv, Ready
      <4> HIDE DEF t
      <4>4. PICK k \in DOMAIN Stages : k = StageOf(t)
        BY <4>2
      <4>5. Before(k + 1)'
        BY <2>1, <4>2, <4>3, <4>4, StagesShape DEF Before
      <4> QED
        BY <1>1, <4>1, <4>2, <4>4, <4>5, SendStageReady
    <3> QED
      BY <3>1, <3>2
  <2>4. \A u \in Ids : result'[u] = "success" => result[u] = "success" \/ u \in ran'
    BY <1>1, <2>1
  <2> QED
    BY <2>1, <2>2, <2>3, <2>4, ChainInvKept
<1>11. CASE OnSuccess(w)
  <2>1. CASE Ack(w)
    BY <1>4, <1>5, <1>11, <2>1 DEF OnSuccess
  <2>2. CASE Goto(w, "error")
    <3>1. /\ job'[w].msg = job[w].msg /\ job[w].pc = "returned"
          /\ \A v \in Workers \ {w} : job'[v] = job[v]
      BY <1>0, <1>11, <2>2, GotoJob DEF OnSuccess
    <3> QED
      BY <1>5, <1>11, <3>1, ChainInvKept DEF OnSuccess
  <2> QED
    BY <1>11, <2>1, <2>2 DEF OnSuccess
<1>12. ASSUME NEW kind \in FailureKinds, UserCodeRaises(w, kind) PROVE ChainInv'
  <2>1. /\ job'[w].msg = job[w].msg /\ job[w].pc = "run"
        /\ \A v \in Workers \ {w} : job'[v] = job[v]
    BY <1>0, <1>12, GotoJob, ChainAssumption DEF UserCodeRaises
  <2>2. Ready("launcher")'
    BY StepIds, ChainAssumption DEF Ready
  <2>3. \A m \in Messages \ {"launcher"} : queue'[m] = queue[m]
    BY <1>1, <1>12 DEF UserCodeRaises
  <2>4. Added
    BY <1>12, <2>2, <2>3 DEF Added, UserCodeRaises
  <2>5. \A u \in Ids : result'[u] = "success" => result[u] = "success"
    BY <1>1, <1>12 DEF UserCodeRaises
  <2> QED
    BY <1>12, <2>1, <2>4, <2>5, ChainInvKept DEF UserCodeRaises
<1>13. CASE OnFailure(w)
  BY <1>4, <1>5, <1>13 DEF OnFailure
<1>14. CASE End(w)
  <2>1. Take(w, "end", "closed") /\ queue["end"] > 0 /\ UNCHANGED <<result, ran, chords>>
    BY <1>14 DEF End, Take
  <2>2. Steps \subseteq ran
    BY <2>1 DEF ChainInv, Ready, Messages
  <2> QED
    BY <1>3, <2>1, <2>2 DEF Messages
<1>15. CASE EndReturns(w)
  <2>1. Steps \subseteq ran
    BY <1>0, <1>15 DEF EndReturns, ChainInv, Ready, JobsFilled, JobShape
  <2>2. CASE SuccessHook = None
    BY <1>5, <1>15, <1>5a, <2>2 DEF EndReturns
  <2>3. CASE SuccessHook # None
    <3>1. Send(SuccessHook) /\ SuccessHook \in Messages /\ UNCHANGED <<ran, chords>>
      BY <1>15, <2>3, ChainAssumption DEF EndReturns, Messages
    <3>2. Ready(SuccessHook)'
      BY <2>1, <3>1, StepIds DEF Ready
    <3>3. Added
      BY <1>1, <3>1, <3>2, SendType DEF Added
    <3> QED
      BY <1>15, <1>5a, <3>3 DEF EndReturns
  <2> QED
    BY <2>2, <2>3
<1>16. CASE FailureHooksLauncher(w)
  BY <1>3, <1>16 DEF FailureHooksLauncher, Messages
<1>17. CASE LauncherFails(w)
  BY <1>4, <1>5, <1>17 DEF LauncherFails
<1>18. CASE Acknowledge(w)
  BY <1>4, <1>5, <1>18 DEF Acknowledge
<1> QED
  BY <1>6, <1>7, <1>8, <1>9, <1>10, <1>11, <1>12, <1>13, <1>14, <1>15, <1>16, <1>17, <1>18
     DEF WorkerStep

LEMMA ChainInductive == TypeInv /\ ChainInv /\ [Next]_vars => ChainInv'
<1> SUFFICES ASSUME TypeInv, ChainInv, [Next]_vars PROVE ChainInv'
  OBVIOUS
<1>0. TypeOK /\ JobsFilled
  BY JobsOfType
<1>1. /\ queue \in [Messages -> Nat] /\ chords \in [DOMAIN Stages -> Nat]
      /\ result \in [Ids -> {"none", "success", "failure"}]
  BY <1>0 DEF TypeOK
<1>2. UNCHANGED <<queue, chords>> => Added
  BY DEF Added
<1>3. CASE Build
  <2>1. /\ UNCHANGED <<ran, result, job>> /\ (status' = "success" => status = "success")
        /\ Added
    <3>1. CASE Run
      <4>1. Ready("start")'
        BY StepIds, ChainAssumption DEF Ready
      <4>2. Added
        BY <1>1, <3>1, <4>1, SendType DEF Run, Added, Messages
      <4> QED
        BY <3>1, <4>2 DEF Run
    <3>2. CASE RunFails \/ BuildFails \/ \E t \in Ids : NewTask(t)
      BY <1>2, <3>2 DEF RunFails, BuildFails, NewTask
    <3> QED
      BY <1>3, <3>1, <3>2 DEF Build
  <2> QED
    BY <2>1, ChainInvKept
<1>4. ASSUME NEW w \in Workers, Crash(w) PROVE ChainInv'
  <2>1. job'[w].pc = "idle" /\ \A v \in Workers \ {w} : job'[v] = job[v]
    BY <1>0, <1>4, AckJob DEF Crash, Idle
  <2>2. PICK m \in Messages : m = job[w].msg
    BY <1>0, <1>4 DEF Crash, JobsFilled, JobShape
  <2>3. Send(m) /\ UNCHANGED <<result, ran, chords, status>> /\ Ready(m)
    BY <1>4, <2>2 DEF Crash, ChainInv
  <2>4. Added
    BY <1>1, <2>3, SendType, ReadyKept DEF Added
  <2> QED
    BY <2>1, <2>3, <2>4, ChainInvKept
<1>5. ASSUME NEW w \in Workers, KillRevoked(w) PROVE ChainInv'
  <2>1. job'[w].pc = "idle" /\ \A v \in Workers \ {w} : job'[v] = job[v]
    BY <1>0, <1>5, AckJob DEF KillRevoked, Idle
  <2>2. \A u \in Ids : result'[u] = "success" => result[u] = "success"
    BY <1>1, <1>5 DEF KillRevoked
  <2> QED
    BY <1>2, <1>5, <2>1, <2>2, ChainInvKept DEF KillRevoked
<1>6. ASSUME NEW k \in DOMAIN Stages, ChordUnlock(k) PROVE ChainInv'
  <2> DEFINE waiting == [chords EXCEPT ![k] = @ - 1]
  <2>1. /\ waiting \in [DOMAIN Stages -> Nat] /\ \A j \in DOMAIN Stages : waiting[j] <= chords[j]
        /\ k + 1 \in 1..(Last + 1)
    BY <1>1, <1>6, StagesShape DEF ChordUnlock
  <2> HIDE DEF waiting
  <2>2. UNCHANGED <<result, ran, job, status>> /\ chords[k] > 0
    BY <1>6 DEF ChordUnlock
  <2>3. Added
    <3>1. CASE \A t \in Stages[k] : result[t] = "success"
      <4>1. Stages[k] \subseteq ran /\ Before(k)
        BY <2>2, <3>1, StagesShape DEF ChainInv
      <4>2. Before(k + 1)'
        BY <2>2, <4>1, StagesShape DEF Before
      <4>3. SendStage(k + 1, waiting)
        BY <1>6, <3>1 DEF ChordUnlock, waiting
      <4> QED
        BY <1>1, <2>1, <4>2, <4>3, SendStageReady
    <3>2. CASE ~(\A t \in Stages[k] : result[t] = "success")
      <4>1. /\ queue' = [queue EXCEPT !["launcher"] = @ + (IF FailureHook THEN 1 ELSE 0)]
            /\ chords' = waiting
        BY <1>6, <3>2 DEF ChordUnlock, waiting
      <4>2. Ready("launcher")'
        BY StepIds, ChainAssumption DEF Ready
      <4>3. \A m \in Messages \ {"launcher"} : queue'[m] = queue[m]
        BY <1>1, <4>1
      <4>4. \A j \in DOMAIN Stages : chords'[j] > 0 => chords[j] > 0
        BY <1>1, <2>1, <4>1
      <4> QED
        BY <4>2, <4>3, <4>4 DEF Added
    <3> QED
      BY <3>1, <3>2
  <2> QED
    BY <2>2, <2>3, ChainInvKept
<1>7. ASSUME NEW c \in Clients, Cancel(c) \/ Pause(c) \/ Resume(c) PROVE ChainInv'
  <2>1. UNCHANGED <<ran, result, job, queue, chords>> /\ (status' = "success" => status = "success")
    BY <1>7 DEF Cancel, CancelRead, CancelTask, CancelSave, Pause, PauseRead, PauseSave, Resume,
                ResumeRead, ResumeCheck, ResumeSave
  <2> QED
    BY <1>2, <2>1, ChainInvKept
<1>8. CASE Restart
  <2>1. queue' = [m \in Messages |-> queue[m] + Cardinality(Held(m))]
    BY <1>8 DEF Restart, Held
  <2>2. /\ UNCHANGED <<result, ran, chords>> /\ job' = [w \in Workers |-> Idle]
        /\ status' = "success" => status = "success"
    BY <1>8 DEF Restart
  <2>3. ASSUME NEW m \in Messages, queue'[m] > 0 PROVE queue[m] > 0 \/ Ready(m)'
    <3>1. queue[m] > 0 \/ Cardinality(Held(m)) > 0
      BY <1>1, <2>1, <2>3, HeldCount
    <3>2. CASE Cardinality(Held(m)) > 0
      <4>1. PICK w \in Workers : job[w].msg = m
        BY <3>2, HeldCount
      <4>2. job[w].pc # "idle"
        BY <1>0, <4>1, StepIds, ChainAssumption DEF JobsFilled, JobShape, Messages
      <4>3. Ready(m)
        BY <4>1, <4>2 DEF ChainInv
      <4> QED
        BY <2>2, <4>3, ReadyKept
    <3> QED
      BY <3>1, <3>2
  <2>4. Added
    BY <2>2, <2>3 DEF Added
  <2> QED
    BY <2>2, <2>4, ChainInvKept DEF Idle
<1>9. CASE UNCHANGED vars
  BY <1>2, <1>9, ChainInvKept DEF vars
<1> QED
  BY <1>3, <1>4, <1>5, <1>6, <1>7, <1>8, <1>9, WorkerChain DEF Next

LEMMA ChainAlways == Spec => [](TypeInv /\ ChainInv)
<1>1. Init => ChainInv
  BY ChainAssumption DEF Init, ChainInv, Idle, SuccessMeansDone
<1> QED
  BY <1>1, InitTypeInv, TypeInductive, ChainInductive, PTL DEF Spec

\* No step starts before all steps of the earlier stages returned, and the success hook
\* only after all steps: for every chain, through redelivery after any number of crashes
\* and restarts, revocation, and groups whose members finish in any order.
THEOREM ChainOrderHolds == Spec => []ChainOrder
<1>1. TypeInv /\ ChainInv => ChainOrder
  <2> SUFFICES ASSUME TypeInv, ChainInv, NEW w \in Workers
               PROVE  /\ job[w].msg \in Steps =>
                           \A k \in 1..(StageOf(job[w].msg) - 1) : Stages[k] \subseteq ran
                      /\ job[w].msg = SuccessHook /\ SuccessHook # None => Steps \subseteq ran
    BY DEF ChainOrder
  <2>1. job[w].pc = "idle" => job[w].msg = None
    BY DEF TypeInv, JobShape
  <2>2. job[w].pc # "idle" => Ready(job[w].msg)
    BY DEF ChainInv
  <2> QED
    BY <2>1, <2>2, StepIds DEF Ready, Before
<1> QED
  BY <1>1, ChainAlways, PTL

\* A workflow reported successful has no step whose code did not return.
THEOREM SuccessMeansDoneHolds == Spec => []SuccessMeansDone
<1>1. ChainInv => SuccessMeansDone
  BY DEF ChainInv
<1> QED
  BY <1>1, ChainAlways, PTL

-----------------------------------------------------------------------------
(* A failure is undone by no step of the chain, when nothing is delivered  *)
(* twice and nothing is canceled.                                          *)

\* The messages that carry the chain on.
Relay == Messages \ {"launcher"}

\* Worker w holds m and has not yet sent what follows it.
Holds(w, m) == job[w].msg = m /\ job[w].pc # "sent"

\* Message m waits, is worked on, or has a result.
Seen(m) == queue[m] > 0 \/ (\E w \in Workers : Holds(w, m)) \/ (m \in Ids /\ result[m] # "none")

\* The stages before k have good results, and what comes after stage k.
Passed(k) == \A j \in 1..(k - 1) : \A t \in Stages[j] : result[t] = "success"
Behind(k) == {t \in Steps : StageOf(t) > k} \union {"end"} \union ({SuccessHook} \ {None})

NoFaultInv ==
  /\ budget.crash = 0 /\ budget.cancel = 0 /\ revoked = {}
  /\ \A c \in Clients : api[c].op # "cancel"

\* A message is sent once and executed once, and has its result after that.
OnceInv ==
  \A m \in Relay :
    /\ queue[m] <= 1
    /\ queue[m] > 0 => \A w \in Workers : ~Holds(w, m)
    /\ \A v, w \in Workers : Holds(v, m) /\ Holds(w, m) => v = w
    /\ m \in Ids /\ queue[m] > 0 => result[m] = "none"
    /\ \A w \in Workers : job[w].pc = "run" /\ Holds(w, m) => result[m] = "none"

\* Nothing is seen before the start of the chain, nor of a stage before the earlier
\* stages succeeded, nor of the success hook before the end.
FrontInv ==
  /\ builder # "sent" => ~Seen("start")
  /\ builder # "sent" \/ Seen("start") =>
       (\A m \in Ids \union {"end"} : ~Seen(m)) /\ (\A k \in DOMAIN Stages : chords[k] = 0)
  /\ \A t \in Steps : Seen(t) => Passed(StageOf(t))
  /\ \A m \in Behind(Last) : Seen(m) => Passed(Last + 1)
  /\ SuccessHook # None /\ Seen("end") => ~Seen(SuccessHook)

\* While an unlock task waits for its group, nothing beyond the group is seen.
ChordInv ==
  \A k \in DOMAIN Stages : chords[k] > 0 =>
    /\ chords[k] = 1 /\ IsGroup(k) /\ Passed(k)
    /\ \A m \in Behind(k) : ~Seen(m)
    /\ \A j \in DOMAIN Stages : j # k => chords[j] = 0

\* What a step that ended leaves behind: a result, and a bad one when it ran out of time;
\* an error may also come from on_success, behind a good one.
Ended == {"returned", "error", "timeout"}
Leaves(kind, t) == result[t] = "failure" \/ (kind # "timeout" /\ result[t] # "none")

\* A failed workflow has the result of the step that failed, or was never sent.
FailInv ==
  /\ \A w \in Workers : job[w].pc \in Ended => Leaves(job[w].pc, job[w].msg)
  /\ status \in {"error", "timeout"} => builder = "failed" \/ \E t \in Ids : Leaves(status, t)

StickInv == NoFaultInv /\ OnceInv /\ FrontInv /\ ChordInv /\ FailInv

\* No result changes once it is there.
ResultsStay == \A t \in Ids : result[t] # "none" => result'[t] = result[t]

\* Nothing is seen that was not, except the messages in new.
SeesOnly(new) == \A m \in Relay : Seen(m)' => Seen(m) \/ m \in new

LEMMA RelayShape ==
  /\ Ids \subseteq Relay /\ "start" \in Relay /\ "end" \in Relay /\ None \notin Messages
  /\ \A k : Behind(k) \subseteq Relay
  /\ SuccessHook # None => SuccessHook \in Ids /\ \A k : SuccessHook \in Behind(k)
<1>1. Ids \subseteq Relay /\ "start" \in Relay /\ "end" \in Relay /\ None \notin Messages
  BY StepIds, ChainAssumption DEF Relay, Messages
<1>2. SuccessHook # None => SuccessHook \in Ids
  BY ChainAssumption
<1> QED
  BY <1>1, <1>2, StepIds DEF Behind

LEMMA PassedStays ==
  ASSUME ResultsStay
  PROVE  \A k \in 1..(Last + 1) : Passed(k) => Passed(k)'
BY StagesShape DEF Passed, ResultsStay

\* A step that sends only what was not seen, takes nothing, and stores results only
\* for code that was running.
LEMMA OnceKept ==
  ASSUME TypeInv, OnceInv,
         \A m \in Relay : queue'[m] = queue[m] \/ (~Seen(m) /\ queue'[m] = 1),
         \A w \in Workers, m \in Relay : Holds(w, m)' =>
           Holds(w, m) /\ (job'[w].pc = "run" => job[w].pc = "run"),
         \A t \in Ids : \/ result'[t] = result[t]
                        \/ \E w \in Workers : Holds(w, t) /\ job[w].pc = "run" /\ job'[w].pc # "run"
  PROVE  /\ OnceInv' /\ ResultsStay
         /\ SeesOnly({m \in Relay : queue'[m] # queue[m]})
<1>0. \A m \in Relay : queue[m] \in Nat
  BY DEF TypeInv, TypeOK, Relay
<1>1. ResultsStay
  BY RelayShape DEF OnceInv, ResultsStay
<1>2. ASSUME NEW m \in Relay
      PROVE  /\ queue'[m] <= 1
             /\ queue'[m] > 0 => \A w \in Workers : ~Holds(w, m)'
             /\ \A v, w \in Workers : Holds(v, m)' /\ Holds(w, m)' => v = w
             /\ m \in Ids /\ queue'[m] > 0 => result'[m] = "none"
             /\ \A w \in Workers : job'[w].pc = "run" /\ Holds(w, m)' => result'[m] = "none"
  <2>1. /\ queue[m] <= 1
        /\ queue[m] > 0 => \A w \in Workers : ~Holds(w, m)
        /\ \A v, w \in Workers : Holds(v, m) /\ Holds(w, m) => v = w
        /\ m \in Ids /\ queue[m] > 0 => result[m] = "none"
        /\ \A w \in Workers : job[w].pc = "run" /\ Holds(w, m) => result[m] = "none"
    BY DEF OnceInv
  <2>2. queue'[m] <= 1 /\ (queue'[m] > 0 => \A w \in Workers : ~Holds(w, m))
    BY <1>0, <2>1 DEF Seen
  <2>3. m \in Ids /\ queue'[m] > 0 => result[m] = "none"
    BY <1>0, <2>1 DEF Seen
  <2>4. m \in Ids /\ queue'[m] > 0 => result'[m] = result[m]
    BY <2>2
  <2>5. ASSUME NEW w \in Workers, job'[w].pc = "run", Holds(w, m)' PROVE result'[m] = "none"
    <3>1. Holds(w, m) /\ job[w].pc = "run" /\ result[m] = "none"
      BY <2>1, <2>5
    <3>2. m \in Ids
      BY <3>1 DEF TypeInv, JobShape, Holds
    <3> QED
      BY <2>1, <2>5, <3>1, <3>2
  <2> QED
    BY <2>1, <2>2, <2>3, <2>4, <2>5
<1>3. OnceInv'
  BY <1>2 DEF OnceInv
<1>4. SeesOnly({m \in Relay : queue'[m] # queue[m]})
  BY DEF SeesOnly, Seen
<1> QED
  BY <1>1, <1>3, <1>4

\* A step by which nothing new is seen.
LEMMA FrontKept ==
  ASSUME TypeInv, TypeInv', FrontInv, ChordInv, ResultsStay, SeesOnly({}),
         \A k \in DOMAIN Stages : chords'[k] <= chords[k],
         builder' # "sent" => builder # "sent"
  PROVE  FrontInv' /\ ChordInv'
<1>0. \A k \in DOMAIN Stages : chords[k] \in Nat /\ chords'[k] \in Nat
  BY DEF TypeInv, TypeOK
<1>1. \A m \in Relay : Seen(m)' => Seen(m)
  BY DEF SeesOnly
<1>2. \A t \in Steps : Seen(t)' => Passed(StageOf(t))'
  BY <1>1, StepIds, RelayShape, StageOfStep, StagesShape, PassedStays DEF FrontInv
<1>3. \A m \in Behind(Last) : Seen(m)' => Passed(Last + 1)'
  BY <1>1, RelayShape, StagesShape, PassedStays DEF FrontInv
<1>4. /\ builder' # "sent" => ~Seen("start")'
      /\ builder' # "sent" \/ Seen("start")' =>
           (\A m \in Ids \union {"end"} : ~Seen(m)') /\ (\A k \in DOMAIN Stages : chords'[k] = 0)
      /\ SuccessHook # None /\ Seen("end")' => ~Seen(SuccessHook)'
  BY <1>0, <1>1, RelayShape DEF FrontInv
<1>5. FrontInv'
  BY <1>2, <1>3, <1>4 DEF FrontInv, Behind, StageOf
<1>6. ASSUME NEW k \in DOMAIN Stages, chords'[k] > 0
      PROVE  /\ chords'[k] = 1 /\ IsGroup(k) /\ Passed(k)'
             /\ \A m \in Behind(k) : ~Seen(m)'
             /\ \A j \in DOMAIN Stages : j # k => chords'[j] = 0
  <2>1. /\ chords[k] = 1 /\ IsGroup(k) /\ Passed(k)
        /\ \A m \in Behind(k) : ~Seen(m)
        /\ \A j \in DOMAIN Stages : j # k => chords[j] = 0
    BY <1>0, <1>6 DEF ChordInv
  <2>2. Passed(k)'
    BY <2>1, StagesShape, PassedStays
  <2> QED
    BY <1>0, <1>1, <1>6, <2>1, <2>2, RelayShape
<1>7. ChordInv'
  BY <1>6 DEF ChordInv, Behind, IsGroup, StageOf
<1> QED
  BY <1>5, <1>7

\* The messages of stage k, of which the one past the last is end.
StageMessages(k) == IF k > Last THEN {"end"} ELSE Stages[k]

\* Stage k is sent when the earlier ones have succeeded and nothing from k on was seen.
LEMMA FrontSends ==
  ASSUME TypeInv, FrontInv, ResultsStay, NEW k \in 1..(Last + 1),
         SeesOnly(StageMessages(k)), Passed(k)', builder' = "sent", ~Seen("start")',
         \A m \in Behind(k - 1) : ~Seen(m),
         \A j \in DOMAIN Stages : chords'[j] = IF j = k /\ IsGroup(j) THEN 1 ELSE 0
  PROVE  FrontInv' /\ ChordInv'
<1>1. \A m \in StageMessages(k) : (m = "end" /\ k = Last + 1) \/ (m \in Steps /\ StageOf(m) = k)
  <2>1. CASE k > Last
    BY <2>1, StagesShape DEF StageMessages
  <2>2. CASE ~(k > Last)
    <3>1. k \in DOMAIN Stages
      BY <2>2, StagesShape
    <3> QED
      BY <2>2, <3>1, StageOfStep DEF StageMessages, Steps
  <2> QED
    BY <2>1, <2>2
<1>2. \A m \in Relay : Seen(m)' => Seen(m) \/ m \in StageMessages(k)
  BY DEF SeesOnly
<1>3. \A t \in Steps : Seen(t)' => Passed(StageOf(t))'
  BY <1>1, <1>2, StepIds, RelayShape, StageOfStep, StagesShape, PassedStays DEF FrontInv
<1>4. \A m \in Behind(Last) : Seen(m)' => Passed(Last + 1)'
  <2> SUFFICES ASSUME NEW m \in Behind(Last), Seen(m)' PROVE Passed(Last + 1)'
    OBVIOUS
  <2>1. ~(m \in Steps /\ StageOf(m) = k)
    BY StageOfStep, StagesShape, StepIds DEF Behind
  <2>2. CASE Seen(m)
    BY <2>2, StagesShape, PassedStays DEF FrontInv
  <2>3. CASE ~Seen(m)
    BY <1>1, <1>2, <2>1, <2>3, RelayShape
  <2> QED
    BY <2>2, <2>3
<1>5. SuccessHook # None => ~Seen(SuccessHook)'
  BY <1>1, <1>2, RelayShape, StepIds
<1>6. FrontInv'
  BY <1>3, <1>4, <1>5 DEF FrontInv, Behind, StageOf
<1>7. ASSUME NEW j \in DOMAIN Stages, chords'[j] > 0
      PROVE  /\ chords'[j] = 1 /\ IsGroup(j) /\ Passed(j)'
             /\ \A m \in Behind(j) : ~Seen(m)'
             /\ \A l \in DOMAIN Stages : l # j => chords'[l] = 0
  <2>1. j = k /\ IsGroup(j) /\ chords'[j] = 1
    BY <1>7
  <2>2. ASSUME NEW m \in Behind(j), Seen(m)' PROVE FALSE
    <3>1. m \in Behind(k - 1)
      BY <2>1, StageOfStep, StagesShape DEF Behind
    <3>2. m \in StageMessages(k)
      BY <1>2, <2>2, <3>1, RelayShape
    <3> QED
      BY <1>1, <2>1, <2>2, <3>2, StageOfStep, StagesShape, StepIds DEF Behind
  <2> QED
    BY <2>1, <2>2
<1>8. ChordInv'
  BY <1>7 DEF ChordInv, Behind, IsGroup, StageOf
<1> QED
  BY <1>6, <1>8

\* Sending stage k, in terms of the messages seen and the unlock tasks.
LEMMA SendStageNew ==
  ASSUME TypeInv, NEW k \in 1..(Last + 1), NEW waiting \in [DOMAIN Stages -> Nat],
         SendStage(k, waiting), \A j \in DOMAIN Stages : waiting[j] = 0,
         \A m \in Behind(k - 1) : ~Seen(m)
  PROVE  /\ \A m \in Relay : queue'[m] = queue[m] \/ (m \in StageMessages(k) /\ ~Seen(m) /\ queue'[m] = 1)
         /\ \A j \in DOMAIN Stages : chords'[j] = IF j = k /\ IsGroup(j) THEN 1 ELSE 0
<1>0. queue \in [Messages -> Nat]
  BY DEF TypeInv, TypeOK
<1>1. CASE k > Last
  <2>1. k = Last + 1 /\ k \notin DOMAIN Stages
    BY <1>1, StagesShape
  <2>2. ~Seen("end")
    BY DEF Behind
  <2>3. queue' = [queue EXCEPT !["end"] = @ + 1] /\ chords' = waiting
    BY <1>1 DEF SendStage, Send
  <2>4. queue["end"] = 0
    BY <1>0, <2>2 DEF Seen, Messages
  <2> QED
    BY <1>0, <1>1, <2>1, <2>2, <2>3, <2>4 DEF StageMessages, Messages, Relay
<1>2. CASE ~(k > Last)
  <2>1. k \in DOMAIN Stages
    BY <1>2, StagesShape
  <2>2. /\ queue' = [m \in Messages |-> queue[m] + (IF m \in Stages[k] THEN 1 ELSE 0)]
        /\ chords' = [waiting EXCEPT ![k] = @ + (IF IsGroup(k) THEN 1 ELSE 0)]
    BY <1>2 DEF SendStage
  <2>3. ASSUME NEW m \in Stages[k] PROVE ~Seen(m) /\ m \in Messages
    <3>1. m \in Steps /\ StageOf(m) = k
      BY <2>1, StageOfStep DEF Steps
    <3>2. m \in Behind(k - 1)
      BY <3>1 DEF Behind
    <3> QED
      BY <3>1, <3>2, StepIds
  <2>4. \A m \in Stages[k] : queue[m] = 0
    BY <1>0, <2>3 DEF Seen
  <2>5. \A m \in Relay : queue'[m] = queue[m] \/ (m \in Stages[k] /\ ~Seen(m) /\ queue'[m] = 1)
    BY <1>0, <2>2, <2>3, <2>4 DEF Relay
  <2>6. \A j \in DOMAIN Stages : chords'[j] = IF j = k /\ IsGroup(j) THEN 1 ELSE 0
    BY <2>1, <2>2
  <2> QED
    BY <1>2, <2>5, <2>6 DEF StageMessages
<1> QED
  BY <1>1, <1>2

\* What is left of Next when the budgets are used up.
LEMMA FaultFree ==
  ASSUME TypeInv, NoFaultInv, Next
  PROVE  /\ NoFaultInv'
         /\ \/ Build
            \/ \E w \in Workers :
                 \/ Start(w) \/ StartReturns(w) \/ (\E t \in Ids : StartStep(w, t))
                 \/ StepReturns(w) \/ OnSuccess(w)
                 \/ (\E kind \in FailureKinds : UserCodeRaises(w, kind))
                 \/ OnFailure(w) \/ End(w) \/ EndReturns(w)
                 \/ FailureHooksLauncher(w) \/ LauncherFails(w) \/ Acknowledge(w)
            \/ \E k \in DOMAIN Stages : ChordUnlock(k)
            \/ \E c \in Clients : Pause(c) \/ Resume(c)
<1>1. ~Restart /\ \A w \in Workers : ~Crash(w) /\ ~KillRevoked(w)
  BY DEF NoFaultInv, Restart, Crash, KillRevoked
<1>1a. ASSUME NEW c \in Clients PROVE ~Cancel(c)
  <2>1. api[c].op # "cancel" /\ ~(budget.cancel > 0)
    BY DEF NoFaultInv
  <2> QED
    BY <2>1 DEF Cancel, CancelRead, CancelTask, CancelSave
<1>2. \A w \in Workers, t \in Ids : ~DiscardRevoked(w, t)
  BY DEF NoFaultInv, DiscardRevoked
<1>3. \/ Build \/ (\E w \in Workers : WorkerStep(w)) \/ (\E k \in DOMAIN Stages : ChordUnlock(k))
      \/ \E c \in Clients : Pause(c) \/ Resume(c)
  BY <1>1, <1>1a DEF Next
<1>4. CASE Build
  <2>1. budget'.crash = budget.crash /\ budget'.cancel = budget.cancel /\ UNCHANGED <<api, revoked>>
    BY <1>4 DEF Build, Run, RunFails, BuildFails, NewTask, TypeInv, TypeOK
  <2> QED
    BY <1>4, <2>1 DEF NoFaultInv
<1>5. ASSUME NEW k \in DOMAIN Stages, ChordUnlock(k) PROVE NoFaultInv'
  BY <1>5 DEF ChordUnlock, NoFaultInv
<1>6. ASSUME NEW w \in Workers, WorkerStep(w)
      PROVE  /\ NoFaultInv'
             /\ \/ Start(w) \/ StartReturns(w) \/ (\E t \in Ids : StartStep(w, t))
                \/ StepReturns(w) \/ OnSuccess(w)
                \/ (\E kind \in FailureKinds : UserCodeRaises(w, kind))
                \/ OnFailure(w) \/ End(w) \/ EndReturns(w)
                \/ FailureHooksLauncher(w) \/ LauncherFails(w) \/ Acknowledge(w)
  <2>1. UNCHANGED <<api, revoked, budget>>
    BY <1>2, <1>6 DEF WorkerStep, Start, StartReturns, StartStep, StepReturns, OnSuccess,
                      UserCodeRaises, OnFailure, End, EndReturns, FailureHooksLauncher, LauncherFails,
                      Acknowledge
  <2> QED
    BY <1>2, <1>6, <2>1 DEF WorkerStep, NoFaultInv
<1>7. ASSUME NEW c \in Clients, Pause(c) \/ Resume(c) PROVE NoFaultInv'
  <2>1. /\ budget'.crash = budget.crash /\ budget'.cancel = budget.cancel /\ UNCHANGED revoked
    BY <1>7 DEF Pause, PauseRead, PauseSave, Resume, ResumeRead, ResumeCheck, ResumeSave, TypeInv, TypeOK
  <2>2. \E r : api' = [api EXCEPT ![c] = r] /\ r.op # "cancel"
    BY <1>7 DEF Pause, PauseRead, PauseSave, Resume, ResumeRead, ResumeCheck, ResumeSave, Ask, NoRequest
  <2>3. \A d \in Clients : api'[d].op # "cancel"
    BY <2>2 DEF NoFaultInv, TypeInv, TypeOK
  <2> QED
    BY <2>1, <2>3 DEF NoFaultInv
<1> QED
  BY <1>3, <1>4, <1>5, <1>6, <1>7

\* A worker takes a message: it is the only one, and nothing new is seen.
LEMMA TakeOnce ==
  ASSUME TypeInv, TypeInv', OnceInv, FrontInv, ChordInv, NEW w \in Workers, NEW m \in Messages,
         NEW pc \in {"started", "run", "closed", "raised"}, Take(w, m, pc),
         pc = "run" => m \in Ids, pc = "started" => m = "start", pc = "closed" => m = "end",
         UNCHANGED <<result, chords, builder>>
  PROVE  OnceInv' /\ FrontInv' /\ ChordInv' /\ ResultsStay
<1>0. queue \in [Messages -> Nat] /\ JobsFilled
  BY JobsOfType DEF TypeOK
<1>1. /\ job'[w].pc = pc /\ job'[w].msg = m /\ \A v \in Workers \ {w} : job'[v] = job[v]
      /\ queue[m] > 0 /\ job[w].pc = "idle" /\ job[w].msg = None
  BY <1>0, TakeJob DEF Take, JobsFilled, JobShape
<1>2. queue'[m] = queue[m] - 1 /\ \A n \in Messages \ {m} : queue'[n] = queue[n]
  BY <1>0 DEF Take
<1>3. ASSUME NEW n \in Relay
      PROVE  /\ queue'[n] <= 1
             /\ queue'[n] > 0 => \A v \in Workers : ~Holds(v, n)'
             /\ \A u, v \in Workers : Holds(u, n)' /\ Holds(v, n)' => u = v
             /\ n \in Ids /\ queue'[n] > 0 => result'[n] = "none"
             /\ \A v \in Workers : job'[v].pc = "run" /\ Holds(v, n)' => result'[n] = "none"
             /\ Seen(n)' => Seen(n)
  <2>1. /\ queue[n] <= 1 /\ n \in Messages /\ queue[n] \in Nat
        /\ queue[n] > 0 => \A v \in Workers : ~Holds(v, n)
        /\ \A u, v \in Workers : Holds(u, n) /\ Holds(v, n) => u = v
        /\ n \in Ids /\ queue[n] > 0 => result[n] = "none"
        /\ \A v \in Workers : job[v].pc = "run" /\ Holds(v, n) => result[n] = "none"
    BY <1>0 DEF OnceInv, Relay
  <2>2. CASE n = m
    <3>1. queue'[n] = 0 /\ \A v \in Workers : Holds(v, n)' => v = w
      BY <1>1, <1>2, <2>1, <2>2 DEF Holds
    <3>2. Seen(n)
      BY <1>1, <2>2 DEF Seen
    <3> QED
      BY <1>1, <2>1, <2>2, <3>1, <3>2
  <2>3. CASE n # m
    <3>1. queue'[n] = queue[n] /\ ~Holds(w, n)' /\ \A v \in Workers \ {w} : Holds(v, n)' <=> Holds(v, n)
      BY <1>1, <1>2, <2>1, <2>3 DEF Holds
    <3>2. \A v \in Workers : Holds(v, n)' => Holds(v, n) /\ job'[v] = job[v]
      BY <1>1, <3>1
    <3> QED
      BY <2>1, <3>1, <3>2 DEF Seen
  <2> QED
    BY <2>2, <2>3
<1>4. OnceInv' /\ SeesOnly({}) /\ ResultsStay
  BY <1>3 DEF OnceInv, SeesOnly, ResultsStay
<1>5. \A k \in DOMAIN Stages : chords'[k] <= chords[k]
  BY DEF TypeInv, TypeOK
<1> QED
  BY <1>4, <1>5, FrontKept

LEMMA FailKept ==
  ASSUME FailInv, TypeInv, ResultsStay, builder = "failed" => builder' = "failed",
         \A v \in Workers : job'[v].pc \in Ended =>
            job'[v] = job[v] \/ Leaves(job[v].pc, job[v].msg)',
         status' \in {"error", "timeout"} =>
            \/ status' = status \/ builder' = "failed"
            \/ \E t \in Ids : Leaves(status', t)
  PROVE  FailInv'
<1>1. \A v \in Workers : job[v].pc \in Ended => job[v].msg \in Ids
  BY DEF TypeInv, JobShape, Ended
<1>2. \A t \in Ids : result[t] # "none" => result'[t] = result[t]
  BY DEF ResultsStay
<1>3. \A v \in Workers : job'[v].pc \in Ended => Leaves(job[v].pc, job[v].msg)'
  BY <1>1, <1>2 DEF FailInv, Leaves
<1>4. status' \in {"error", "timeout"} => builder' = "failed" \/ \E t \in Ids : Leaves(status, t)'
  BY <1>2 DEF FailInv, Leaves
<1> QED
  BY <1>3, <1>4 DEF FailInv, Ended

\* A step that takes and sends nothing but launchers.
LEMMA QuietStick ==
  ASSUME TypeInv, TypeInv', StickInv, NoFaultInv',
         \A m \in Relay : queue'[m] = queue[m],
         \A v \in Workers, m \in Relay : Holds(v, m)' =>
           Holds(v, m) /\ (job'[v].pc = "run" => job[v].pc = "run"),
         \A t \in Ids : \/ result'[t] = result[t]
                        \/ \E v \in Workers : Holds(v, t) /\ job[v].pc = "run" /\ job'[v].pc # "run",
         UNCHANGED chords, builder' = builder \/ (builder = "build" /\ builder' \in {"failed", "invalid"}),
         \A v \in Workers : job'[v].pc \in Ended =>
            job'[v] = job[v] \/ Leaves(job[v].pc, job[v].msg)',
         status' \in {"error", "timeout"} =>
            \/ status' = status \/ builder' = "failed"
            \/ \E t \in Ids : Leaves(status', t)
  PROVE  StickInv'
<1>1. OnceInv' /\ ResultsStay /\ SeesOnly({})
  BY OnceKept DEF StickInv, SeesOnly
<1>2. \A k \in DOMAIN Stages : chords'[k] <= chords[k]
  BY DEF TypeInv, TypeOK
<1>3. FrontInv' /\ ChordInv'
  BY <1>1, <1>2, FrontKept DEF StickInv
<1>4. FailInv'
  BY <1>1, FailKept DEF StickInv
<1> QED
  BY <1>1, <1>3, <1>4 DEF StickInv

\* What a worker leaves behind when it is done with its message.
LEMMA AckHolds ==
  ASSUME TypeInv, NEW w \in Workers, Ack(w)
  PROVE  /\ job'[w].pc = "idle" /\ \A v \in Workers \ {w} : job'[v] = job[v]
         /\ \A m \in Relay : ~Holds(w, m)'
         /\ \A v \in Workers, m \in Relay : Holds(v, m)' =>
              Holds(v, m) /\ (job'[v].pc = "run" => job[v].pc = "run")
<1>1. job'[w] = Idle /\ \A v \in Workers \ {w} : job'[v] = job[v]
  BY JobsOfType, AckJob
<1> QED
  BY <1>1, RelayShape DEF Idle, Holds, Relay

\* A worker that has sent what follows start or end holds neither any more.
LEMMA SentHolds ==
  ASSUME TypeInv, NEW w \in Workers, job[w].pc \in {"started", "closed"}, Goto(w, "sent")
  PROVE  /\ job'[w].pc = "sent" /\ \A v \in Workers \ {w} : job'[v] = job[v]
         /\ \A m \in Relay : ~Holds(w, m)'
         /\ \A v \in Workers, m \in Relay : Holds(v, m)' =>
              Holds(v, m) /\ (job'[v].pc = "run" => job[v].pc = "run")
<1>1. job'[w].pc = "sent" /\ \A v \in Workers \ {w} : job'[v] = job[v]
  BY JobsOfType, SentJob
<1> QED
  BY <1>1 DEF Holds

\* The chain goes on: stage k is sent by a worker or an unlock task that is done with
\* stage k - 1, while no unlock task waits.
LEMMA SendsStick ==
  ASSUME TypeInv, TypeInv', StickInv, NoFaultInv', NEW k \in 1..(Last + 1),
         NEW waiting \in [DOMAIN Stages -> Nat], SendStage(k, waiting),
         \A j \in DOMAIN Stages : waiting[j] = 0,
         \A m \in Behind(k - 1) : ~Seen(m), Passed(k)', ~Seen("start")',
         \A v \in Workers, m \in Relay : Holds(v, m)' =>
           Holds(v, m) /\ (job'[v].pc = "run" => job[v].pc = "run"),
         \A t \in Ids : \/ result'[t] = result[t]
                        \/ \E v \in Workers : Holds(v, t) /\ job[v].pc = "run" /\ job'[v].pc # "run",
         UNCHANGED <<builder, status>>, builder = "sent",
         \A v \in Workers : job'[v].pc \in Ended =>
            job'[v] = job[v] \/ Leaves(job[v].pc, job[v].msg)'
  PROVE  StickInv'
<1>1. /\ \A m \in Relay : queue'[m] = queue[m] \/ (m \in StageMessages(k) /\ ~Seen(m) /\ queue'[m] = 1)
      /\ \A j \in DOMAIN Stages : chords'[j] = IF j = k /\ IsGroup(j) THEN 1 ELSE 0
  BY SendStageNew
<1>2. OnceInv' /\ ResultsStay /\ SeesOnly({m \in Relay : queue'[m] # queue[m]})
  BY <1>1, OnceKept DEF StickInv
<1>3. SeesOnly(StageMessages(k))
  BY <1>1, <1>2 DEF SeesOnly
<1>4. FrontInv' /\ ChordInv'
  BY <1>1, <1>2, <1>3, FrontSends DEF StickInv
<1>5. FailInv'
  BY <1>2, FailKept DEF StickInv
<1> QED
  BY <1>2, <1>4, <1>5 DEF StickInv

\* The builder sends the start of the chain, or fails to.
LEMMA BuildStick ==
  ASSUME TypeInv, TypeInv', StickInv, NoFaultInv', Build
  PROVE  StickInv'
<1>0. queue \in [Messages -> Nat]
  BY DEF TypeInv, TypeOK
<1>1. CASE Run
  <2>1. /\ UNCHANGED <<status, rows, result, chords, job>> /\ builder = "build" /\ builder' = "sent"
        /\ Send("start")
    BY <1>1 DEF Run
  <2>2. (\A m \in Ids \union {"end", "start"} : ~Seen(m)) /\ (\A k \in DOMAIN Stages : chords[k] = 0)
    BY <2>1 DEF StickInv, FrontInv
  <2>3. \A m \in Relay : queue'[m] = queue[m] \/ (m = "start" /\ ~Seen(m) /\ queue'[m] = 1)
    BY <1>0, <2>1, <2>2 DEF Send, Relay, Messages, Seen
  <2>4. OnceInv' /\ ResultsStay /\ SeesOnly({m \in Relay : queue'[m] # queue[m]})
    <3>1. \A w \in Workers, m \in Relay : Holds(w, m)' <=> Holds(w, m)
      BY <2>1 DEF Holds
    <3>2. \A m \in Relay : queue'[m] = queue[m] \/ (~Seen(m) /\ queue'[m] = 1)
      BY <2>3
    <3> QED
      BY <2>1, <3>1, <3>2, OnceKept DEF StickInv
  <2>5. \A m \in Ids \union {"end"} : ~Seen(m)'
    BY <2>2, <2>3, <2>4, RelayShape, StepIds DEF SeesOnly
  <2>6. FrontInv'
    <3>1. \A m \in Behind(Last) : ~Seen(m)'
      BY <2>5, StepIds, RelayShape DEF Behind
    <3> QED
      BY <2>1, <2>2, <2>5, <3>1, StepIds DEF FrontInv, Behind, StageOf
  <2>7. ChordInv'
    BY <2>1, <2>2 DEF ChordInv
  <2>8. FailInv'
    BY <2>1, <2>4, FailKept DEF StickInv
  <2> QED
    BY <2>4, <2>6, <2>7, <2>8 DEF StickInv
<1>2. CASE RunFails
  <2>1. /\ UNCHANGED <<result, queue, chords, job>> /\ builder = "build" /\ builder' = "failed"
    BY <1>2 DEF RunFails
  <2> QED
    BY <2>1, QuietStick DEF Holds
<1>3. ASSUME NEW t \in Ids, NewTask(t) PROVE StickInv'
  <2>1. UNCHANGED <<status, result, queue, chords, job, builder>>
    BY <1>3 DEF NewTask
  <2> QED
    BY <2>1, QuietStick DEF Holds
<1>4. CASE BuildFails
  <2>1. /\ UNCHANGED <<status, result, queue, chords, job>> /\ builder = "build" /\ builder' = "invalid"
    BY <1>4 DEF BuildFails
  <2> QED
    BY <2>1, QuietStick DEF Holds
<1> QED
  BY <1>1, <1>2, <1>3, <1>4 DEF Build

\* A step returns: the only one of its stage sends the next stage.
LEMMA ReturnStick ==
  ASSUME TypeInv, TypeInv', StickInv, NoFaultInv', NEW w \in Workers, StepReturns(w)
  PROVE  StickInv'
<1> DEFINE t == job[w].msg
<1>0. /\ chords \in [DOMAIN Stages -> Nat] /\ result \in [Ids -> {"none", "success", "failure"}]
      /\ job[w].pc = "run" /\ t \in Ids /\ JobsFilled
  BY JobsOfType DEF StepReturns, TypeInv, TypeOK, JobShape
<1>1. UNCHANGED <<status, builder>> /\ result' = [result EXCEPT ![t] = "success"]
  BY DEF StepReturns
<1>2. job'[w].pc = "returned" /\ job'[w].msg = t /\ \A v \in Workers \ {w} : job'[v] = job[v]
  BY <1>0, GotoJob DEF StepReturns
<1>3. \A v \in Workers, m \in Relay : Holds(v, m)' =>
        Holds(v, m) /\ (job'[v].pc = "run" => job[v].pc = "run")
  BY <1>0, <1>2 DEF Holds
<1>4. \A u \in Ids : \/ result'[u] = result[u]
                     \/ \E v \in Workers : Holds(v, u) /\ job[v].pc = "run" /\ job'[v].pc # "run"
  BY <1>0, <1>1, <1>2 DEF Holds
<1>5. \A v \in Workers : job'[v].pc \in Ended =>
        job'[v] = job[v] \/ Leaves(job[v].pc, job[v].msg)'
  BY <1>0, <1>1, <1>2 DEF Leaves
<1>6. Seen(t) /\ result[t] = "none"
  BY <1>0, RelayShape DEF Seen, Holds, StickInv, OnceInv
<1>7. builder = "sent" /\ ~Seen("start")
  BY <1>0, <1>6 DEF StickInv, FrontInv
<1>8. CASE UNCHANGED <<queue, chords>>
  BY <1>1, <1>3, <1>4, <1>5, <1>8, QuietStick
<1>9. CASE ~UNCHANGED <<queue, chords>>
  <2>1. t \in Steps /\ ~IsGroup(StageOf(t)) /\ SendStage(StageOf(t) + 1, chords)
    BY <1>0, <1>9, StepIds DEF StepReturns
  <2> HIDE DEF t
  <2>2. PICK k \in DOMAIN Stages : k = StageOf(t)
    BY <2>1, StageOfStep
  <2>3. Stages[k] = {t} /\ k + 1 \in 1..(Last + 1) /\ (k + 1) - 1 = k /\ k \in 1..Last
    BY <2>1, <2>2, StageOfStep, StagesShape, SingleStage
  <2>4. Passed(k)
    BY <1>6, <2>1, <2>2 DEF StickInv, FrontInv
  <2>5. ASSUME NEW j \in 1..(Last + 1), Passed(j), j > k PROVE FALSE
    BY <1>6, <2>3, <2>5 DEF Passed
  <2>6. \A m \in Behind(k) : ~Seen(m)
    <3> SUFFICES ASSUME NEW m \in Behind(k), Seen(m) PROVE FALSE
      OBVIOUS
    <3>1. CASE m \in Steps /\ StageOf(m) > k
      BY <2>5, <3>1, StageOfStep, StagesShape DEF StickInv, FrontInv
    <3>2. CASE m \in Behind(Last)
      BY <2>3, <2>5, <3>2, StagesShape DEF StickInv, FrontInv
    <3> QED
      BY <3>1, <3>2 DEF Behind
  <2>7. \A j \in DOMAIN Stages : chords[j] = 0
    <3> SUFFICES ASSUME NEW j \in DOMAIN Stages, chords[j] > 0 PROVE FALSE
      BY <1>0
    <3>1. IsGroup(j) /\ Passed(j) /\ \A m \in Behind(j) : ~Seen(m)
      BY DEF StickInv, ChordInv
    <3>2. CASE j < k
      BY <1>6, <2>1, <2>2, <3>1, <3>2 DEF Behind
    <3>3. CASE j = k
      BY <2>1, <2>2, <3>1, <3>3
    <3>4. CASE j > k
      BY <2>5, <3>1, <3>4, StagesShape
    <3> QED
      BY <3>2, <3>3, <3>4, StagesShape
  <2>8. ResultsStay
    BY <1>0, <1>1, <1>6 DEF ResultsStay
  <2>9. Passed(k + 1)'
    <3>1. Passed(k)'
      BY <2>3, <2>4, <2>8, PassedStays, StagesShape
    <3>2. \A u \in Stages[k] : result'[u] = "success"
      BY <1>0, <1>1, <2>3
    <3> QED
      BY <2>3, <3>1, <3>2 DEF Passed
  <2>10. ~Seen("start")'
    <3>1. queue'["start"] = queue["start"]
      <4>1. /\ \A m \in Relay : queue'[m] = queue[m] \/ (m \in StageMessages(k + 1) /\ ~Seen(m) /\ queue'[m] = 1)
        BY <1>0, <2>1, <2>2, <2>3, <2>6, <2>7, SendStageNew
      <4>2. "start" \notin StageMessages(k + 1)
        BY <2>3, StagesShape, StepIds DEF StageMessages
      <4> QED
        BY <4>1, <4>2, RelayShape
    <3> QED
      BY <1>3, <1>7, <3>1, RelayShape, StepIds DEF Seen
  <2> QED
    BY <1>0, <1>1, <1>3, <1>4, <1>5, <1>7, <2>1, <2>2, <2>3, <2>6, <2>7, <2>9, <2>10, SendsStick
<1> QED
  BY <1>8, <1>9

LEMMA StartReturnsStick ==
  ASSUME TypeInv, TypeInv', StickInv, NoFaultInv', NEW w \in Workers, StartReturns(w)
  PROVE  StickInv'
<1>1. /\ job[w].pc = "started" /\ SendStage(1, chords) /\ Goto(w, "sent")
      /\ UNCHANGED <<status, result, builder>>
  BY DEF StartReturns
<1>2. Holds(w, "start")
  BY <1>1 DEF TypeInv, JobShape, Holds
<1>3. /\ builder = "sent" /\ (\A m \in Ids \union {"end"} : ~Seen(m))
      /\ \A k \in DOMAIN Stages : chords[k] = 0
  BY <1>2 DEF StickInv, FrontInv, Seen
<1>4. /\ \A m \in Behind(0) : ~Seen(m)
      /\ chords \in [DOMAIN Stages -> Nat] /\ 1 \in 1..(Last + 1) /\ 1 - 1 = 0
  BY <1>3, StepIds, StagesShape, RelayShape DEF Behind, TypeInv, TypeOK
<1>5. /\ job'[w].pc = "sent" /\ \A v \in Workers \ {w} : job'[v] = job[v]
      /\ \A m \in Relay : ~Holds(w, m)'
      /\ \A v \in Workers, m \in Relay : Holds(v, m)' =>
              Holds(v, m) /\ (job'[v].pc = "run" => job[v].pc = "run")
  BY <1>1, SentHolds
<1>6. ~Seen("start")'
  <2>1. queue'["start"] = queue["start"]
    <3>1. \A m \in Relay : queue'[m] = queue[m] \/ (m \in StageMessages(1) /\ ~Seen(m) /\ queue'[m] = 1)
      BY <1>1, <1>3, <1>4, SendStageNew
    <3>2. "start" \notin StageMessages(1)
      BY StagesShape, StepIds DEF StageMessages
    <3> QED
      BY <3>1, <3>2, RelayShape
  <2>2. queue["start"] \in Nat /\ ~(queue["start"] > 0)
    BY <1>2, RelayShape DEF StickInv, OnceInv, TypeInv, TypeOK, Messages
  <2>3. \A v \in Workers : ~Holds(v, "start")'
    BY <1>2, <1>5, RelayShape DEF StickInv, OnceInv
  <2> QED
    BY <2>1, <2>2, <2>3, StepIds DEF Seen
<1>7. Passed(1)'
  BY DEF Passed
<1>8. \A v \in Workers : job'[v].pc \in Ended => job'[v] = job[v]
  BY <1>5 DEF Ended
<1> QED
  BY <1>1, <1>3, <1>4, <1>5, <1>6, <1>7, <1>8, SendsStick

LEMMA UnlockStick ==
  ASSUME TypeInv, TypeInv', StickInv, NoFaultInv', NEW k \in DOMAIN Stages, ChordUnlock(k)
  PROVE  StickInv'
<1> DEFINE waiting == [chords EXCEPT ![k] = @ - 1]
<1>0. /\ queue \in [Messages -> Nat] /\ chords \in [DOMAIN Stages -> Nat] /\ chords[k] > 0
      /\ UNCHANGED <<status, result, job, builder>>
  BY DEF ChordUnlock, TypeInv, TypeOK
<1>1. /\ chords[k] = 1 /\ Passed(k) /\ \A m \in Behind(k) : ~Seen(m)
      /\ \A j \in DOMAIN Stages : j # k => chords[j] = 0
  BY <1>0 DEF StickInv, ChordInv
<1>2. waiting \in [DOMAIN Stages -> Nat] /\ \A j \in DOMAIN Stages : waiting[j] = 0
  BY <1>0, <1>1
<1>3. builder = "sent" /\ ~Seen("start")
  BY <1>0 DEF StickInv, FrontInv
<1> HIDE DEF waiting
<1>4. \A v \in Workers, m \in Relay : Holds(v, m)' => Holds(v, m)
  BY <1>0 DEF Holds
<1>5. k + 1 \in 1..(Last + 1) /\ (k + 1) - 1 = k
  BY StagesShape
<1>6. CASE \A t \in Stages[k] : result[t] = "success"
  <2>1. SendStage(k + 1, waiting)
    BY <1>6 DEF ChordUnlock, waiting
  <2>2. Passed(k + 1)'
    BY <1>0, <1>1, <1>6, StagesShape DEF Passed
  <2>3. ~Seen("start")'
    <3>1. \A m \in Relay : queue'[m] = queue[m] \/ (m \in StageMessages(k + 1) /\ ~Seen(m) /\ queue'[m] = 1)
      BY <1>1, <1>2, <1>5, <2>1, SendStageNew
    <3>2. "start" \notin StageMessages(k + 1)
      BY <1>5, StagesShape, StepIds DEF StageMessages
    <3>3. queue'["start"] = queue["start"]
      BY <3>1, <3>2, RelayShape
    <3> QED
      BY <1>3, <1>4, <3>3, RelayShape, StepIds DEF Seen
  <2> QED
    BY <1>0, <1>1, <1>2, <1>3, <1>4, <1>5, <2>1, <2>2, <2>3, SendsStick
<1>7. CASE ~(\A t \in Stages[k] : result[t] = "success")
  <2>1. /\ queue' = [queue EXCEPT !["launcher"] = @ + (IF FailureHook THEN 1 ELSE 0)]
        /\ chords' = waiting
    BY <1>7 DEF ChordUnlock, waiting
  <2>2. \A m \in Relay : queue'[m] = queue[m]
    BY <1>0, <2>1 DEF Relay
  <2>3. OnceInv' /\ ResultsStay /\ SeesOnly({})
    BY <1>0, <1>4, <2>2, OnceKept DEF StickInv, SeesOnly
  <2>4. FrontInv' /\ ChordInv'
    BY <1>0, <1>2, <2>1, <2>3, FrontKept DEF StickInv
  <2>5. FailInv'
    BY <1>0, <2>3, FailKept DEF StickInv
  <2> QED
    BY <2>3, <2>4, <2>5 DEF StickInv
<1> QED
  BY <1>6, <1>7

\* The end of the chain sends the success hook, once.
LEMMA EndReturnsStick ==
  ASSUME TypeInv, TypeInv', StickInv, NoFaultInv', NEW w \in Workers, EndReturns(w)
  PROVE  StickInv'
<1>0. queue \in [Messages -> Nat] /\ chords \in [DOMAIN Stages -> Nat]
  BY DEF TypeInv, TypeOK
<1>1. /\ job[w].pc = "closed" /\ Goto(w, "sent") /\ UNCHANGED <<status, result, chords, builder>>
      /\ IF SuccessHook = None THEN UNCHANGED queue ELSE Send(SuccessHook)
  BY DEF EndReturns
<1>2. Holds(w, "end") /\ Seen("end")
  BY <1>1 DEF TypeInv, JobShape, Holds, Seen
<1>3. /\ builder = "sent" /\ ~Seen("start") /\ Passed(Last + 1)
      /\ SuccessHook # None => ~Seen(SuccessHook)
      /\ \A k \in DOMAIN Stages : chords[k] = 0
  <2>1. \A k \in DOMAIN Stages : "end" \in Behind(k) /\ "end" \in Behind(Last)
    BY DEF Behind
  <2>2. \A k \in DOMAIN Stages : chords[k] = 0
    BY <1>0, <1>2, <2>1 DEF StickInv, ChordInv
  <2> QED
    BY <1>2, <2>1, <2>2 DEF StickInv, FrontInv, Behind
<1>4. /\ job'[w].pc = "sent" /\ \A v \in Workers \ {w} : job'[v] = job[v]
      /\ \A m \in Relay : ~Holds(w, m)'
      /\ \A v \in Workers, m \in Relay : Holds(v, m)' =>
              Holds(v, m) /\ (job'[v].pc = "run" => job[v].pc = "run")
  BY <1>1, SentHolds
<1>5. \A m \in Relay : queue'[m] = queue[m] \/ (m = SuccessHook /\ m # None /\ ~Seen(m) /\ queue'[m] = 1)
  <2>1. CASE SuccessHook = None
    BY <1>1, <2>1
  <2>2. CASE SuccessHook # None
    <3>1. SuccessHook \in Messages /\ queue[SuccessHook] = 0
      BY <1>0, <1>3, <2>2, RelayShape, StepIds DEF Seen
    <3> QED
      BY <1>0, <1>1, <1>3, <2>2, <3>1 DEF Send, Relay
  <2> QED
    BY <2>1, <2>2
<1>6. OnceInv' /\ ResultsStay /\ SeesOnly({m \in Relay : queue'[m] # queue[m]})
  <2>1. \A m \in Relay : queue'[m] = queue[m] \/ (~Seen(m) /\ queue'[m] = 1)
    BY <1>5
  <2> QED
    BY <1>1, <1>4, <2>1, OnceKept DEF StickInv
<1>7. \A m \in Relay : Seen(m)' => Seen(m) \/ (m = SuccessHook /\ m # None)
  BY <1>5, <1>6 DEF SeesOnly
<1>8. ~Seen("end")'
  <2>1. SuccessHook # "end"
    BY ChainAssumption, StepIds
  <2>2. queue'["end"] = queue["end"] /\ queue["end"] = 0
    BY <1>0, <1>2, <1>5, <2>1, RelayShape DEF StickInv, OnceInv, Messages
  <2>3. \A v \in Workers : ~Holds(v, "end")'
    BY <1>2, <1>4, RelayShape DEF StickInv, OnceInv
  <2> QED
    BY <2>2, <2>3, StepIds DEF Seen
<1>9. FrontInv'
  <2>1. Passed(Last + 1)' /\ \A t \in Steps : Seen(t)' => Passed(StageOf(t))'
    <3>1. \A t \in Steps : Seen(t)' => Seen(t)
      BY <1>7, StepIds, RelayShape
    <3> QED
      BY <1>3, <1>6, <3>1, PassedStays, StagesShape, StageOfStep DEF StickInv, FrontInv
  <2>2. ~Seen("start")'
    BY <1>3, <1>7, RelayShape, StepIds
  <2> QED
    BY <1>1, <1>3, <1>8, <2>1, <2>2 DEF FrontInv, Behind, StageOf
<1>10. ChordInv'
  BY <1>1, <1>3 DEF ChordInv
<1>11. FailInv'
  BY <1>1, <1>4, <1>6, FailKept DEF StickInv, Ended
<1> QED
  BY <1>6, <1>9, <1>10, <1>11 DEF StickInv

\* A worker's step other than those that send.
LEMMA WorkerStick ==
  ASSUME TypeInv, TypeInv', StickInv, NoFaultInv', NEW w \in Workers,
         \/ Start(w) \/ (\E t \in Ids : StartStep(w, t)) \/ OnSuccess(w)
         \/ (\E kind \in FailureKinds : UserCodeRaises(w, kind))
         \/ OnFailure(w) \/ End(w) \/ FailureHooksLauncher(w) \/ LauncherFails(w) \/ Acknowledge(w)
  PROVE  StickInv'
<1>0. /\ TypeOK /\ JobsFilled /\ queue \in [Messages -> Nat]
      /\ result \in [Ids -> {"none", "success", "failure"}]
  BY JobsOfType DEF TypeOK
<1>1. ASSUME NEW m \in Messages, NEW pc \in {"started", "run", "closed", "raised"}, Take(w, m, pc),
             pc = "run" => m \in Ids, pc = "started" => m = "start", pc = "closed" => m = "end",
             UNCHANGED <<result, chords, builder>>,
             status' \in {"error", "timeout"} => status' = status
      PROVE  StickInv'
  <2>1. OnceInv' /\ FrontInv' /\ ChordInv' /\ ResultsStay
    BY <1>1, TakeOnce DEF StickInv
  <2>2. job'[w].pc = pc /\ \A v \in Workers \ {w} : job'[v] = job[v]
    BY <1>0, <1>1, TakeJob
  <2>3. FailInv'
    BY <1>1, <2>1, <2>2, FailKept DEF StickInv, Ended
  <2> QED
    BY <2>1, <2>3 DEF StickInv
<1>2. ASSUME Ack(w), UNCHANGED <<result, queue, chords, builder>>,
             status' \in {"error", "timeout"} =>
               status' = status \/ \E t \in Ids : Leaves(status', t)
      PROVE  StickInv'
  <2>1. /\ job'[w].pc = "idle" /\ \A v \in Workers \ {w} : job'[v] = job[v]
        /\ \A v \in Workers, m \in Relay : Holds(v, m)' =>
              Holds(v, m) /\ (job'[v].pc = "run" => job[v].pc = "run")
    BY <1>2, AckHolds
  <2>2. \A v \in Workers : job'[v].pc \in Ended => job'[v] = job[v]
    BY <2>1 DEF Ended
  <2> QED
    BY <1>2, <2>1, <2>2, QuietStick
<1>3. CASE Start(w)
  BY <1>1, <1>3 DEF Start, Messages
<1>4. ASSUME NEW t \in Ids, StartStep(w, t) PROVE StickInv'
  BY <1>1, <1>4, StepIds DEF StartStep
<1>5. CASE OnSuccess(w)
  <2>1. /\ job[w].pc = "returned" /\ UNCHANGED <<status, result, queue, chords, builder>>
        /\ Ack(w) \/ Goto(w, "error")
    BY <1>5 DEF OnSuccess
  <2>2. CASE Ack(w)
    BY <1>2, <2>1, <2>2
  <2>3. CASE Goto(w, "error")
    <3>1. job'[w].pc = "error" /\ job'[w].msg = job[w].msg /\ \A v \in Workers \ {w} : job'[v] = job[v]
      BY <1>0, <2>1, <2>3, GotoJob
    <3>2. Leaves(job[w].pc, job[w].msg)'
      BY <2>1, <3>1 DEF StickInv, FailInv, Leaves, Ended
    <3>3. \A v \in Workers, m \in Relay : Holds(v, m)' =>
            Holds(v, m) /\ (job'[v].pc = "run" => job[v].pc = "run")
      BY <2>1, <3>1 DEF Holds
    <3>4. \A v \in Workers : job'[v].pc \in Ended =>
            job'[v] = job[v] \/ Leaves(job[v].pc, job[v].msg)'
      BY <3>1, <3>2
    <3> QED
      BY <2>1, <3>3, <3>4, QuietStick
  <2> QED
    BY <2>1, <2>2, <2>3
<1>6. ASSUME NEW kind \in FailureKinds, UserCodeRaises(w, kind) PROVE StickInv'
  <2>1. job[w].pc = "run" /\ job[w].msg \in Ids /\ kind \in {"error", "timeout"}
    BY <1>0, <1>6, ChainAssumption DEF UserCodeRaises, JobsFilled, JobShape
  <2>2. job'[w].pc = kind /\ job'[w].msg = job[w].msg /\ \A v \in Workers \ {w} : job'[v] = job[v]
    BY <1>0, <1>6, <2>1, GotoJob DEF UserCodeRaises
  <2>3. /\ result' = [result EXCEPT ![job[w].msg] = "failure"] /\ UNCHANGED <<status, chords, builder>>
    BY <1>6 DEF UserCodeRaises
  <2>4. \A m \in Relay : queue'[m] = queue[m]
    BY <1>0, <1>6 DEF UserCodeRaises, Relay
  <2>5. \A v \in Workers, m \in Relay : Holds(v, m)' =>
          Holds(v, m) /\ (job'[v].pc = "run" => job[v].pc = "run")
    BY <2>1, <2>2 DEF Holds
  <2>6. \A t \in Ids : \/ result'[t] = result[t]
                       \/ \E v \in Workers : Holds(v, t) /\ job[v].pc = "run" /\ job'[v].pc # "run"
    BY <1>0, <2>1, <2>2, <2>3 DEF Holds
  <2>7. \A v \in Workers : job'[v].pc \in Ended =>
            job'[v] = job[v] \/ Leaves(job[v].pc, job[v].msg)'
    BY <1>0, <2>1, <2>2, <2>3 DEF Leaves
  <2> QED
    BY <2>3, <2>4, <2>5, <2>6, <2>7, QuietStick
<1>7. CASE OnFailure(w)
  <2>1. job[w].msg \in Ids /\ Leaves(status', job[w].msg)
    BY <1>0, <1>7 DEF OnFailure, JobsFilled, JobShape, StickInv, FailInv, Ended
  <2> QED
    BY <1>2, <1>7, <2>1 DEF OnFailure
<1>8. CASE End(w)
  BY <1>1, <1>8 DEF End, Messages
<1>9. CASE FailureHooksLauncher(w)
  BY <1>1, <1>9 DEF FailureHooksLauncher, Messages
<1>10. CASE LauncherFails(w)
  BY <1>2, <1>10 DEF LauncherFails
<1>11. CASE Acknowledge(w)
  BY <1>2, <1>11 DEF Acknowledge
<1> QED
  BY <1>3, <1>4, <1>5, <1>6, <1>7, <1>8, <1>9, <1>10, <1>11

\* A pause or resume request changes no message and no result, and no failure comes of it.
LEMMA RequestStick ==
  ASSUME TypeInv, TypeInv', StickInv, NoFaultInv', NEW c \in Clients, Pause(c) \/ Resume(c)
  PROVE  StickInv'
<1>1. /\ UNCHANGED <<queue, job, result, chords, builder>>
      /\ status' = status \/ status' \in {"wait", "progress"}
  BY DEF Pause, PauseRead, PauseSave, Resume, ResumeRead, ResumeCheck, ResumeSave
<1> QED
  BY <1>1, QuietStick DEF Holds

LEMMA StickInductive == TypeInv /\ StickInv /\ [Next]_vars => StickInv'
<1> SUFFICES ASSUME TypeInv, StickInv, [Next]_vars PROVE StickInv'
  OBVIOUS
<1>1. TypeInv'
  BY TypeInductive
<1>2. CASE UNCHANGED vars
  BY <1>2 DEF vars, StickInv, NoFaultInv, OnceInv, FrontInv, ChordInv, FailInv, Seen, Holds, Passed,
              Behind, IsGroup, StageOf, Leaves
<1>3. CASE Next
  BY <1>1, <1>3, FaultFree, BuildStick, WorkerStick, StartReturnsStick, ReturnStick, EndReturnsStick,
     UnlockStick, RequestStick DEF StickInv
<1> QED
  BY <1>2, <1>3

\* A failed chain has no start before it, and a chain that ran out of time no end either.
LEMMA FailureFinal ==
  ASSUME TypeInv, StickInv, status \in {"error", "timeout"}
  PROVE  ~Seen("start") /\ (status = "timeout" => ~Seen("end"))
<1>1. CASE builder = "failed"
  BY <1>1 DEF StickInv, FrontInv
<1>2. CASE builder # "failed"
  <2>1. PICK t \in Ids : Leaves(status, t)
    BY <1>2 DEF StickInv, FailInv
  <2>2. Seen(t)
    BY <2>1 DEF Seen, Leaves
  <2>3. ~Seen("start")
    BY <2>2 DEF StickInv, FrontInv
  <2>4. ASSUME status = "timeout", Seen("end") PROVE FALSE
    <3>1. Passed(Last + 1) /\ result[t] = "failure"
      BY <2>1, <2>4 DEF StickInv, FrontInv, Behind, Leaves
    <3>2. CASE t \in Steps
      BY <3>1, <3>2, StageOfStep, StagesShape DEF Passed
    <3>3. CASE t \notin Steps
      BY <2>2, <2>4, <3>3, StepIds DEF StickInv, FrontInv
    <3> QED
      BY <3>2, <3>3
  <2> QED
    BY <2>3, <2>4
<1> QED
  BY <1>1, <1>2

\* Without cancels, crashes and restarts, only the late save of a pause or resume request
\* undoes a failure, for every chain, any number of workers and of requests: a stage is sent
\* once, behind stages that succeeded, so a chain with a bad result has no end left that could
\* report "success" over it, and end leaves "error" alone.
THEOREM FailureSticksHolds ==
  ASSUME Budget.cancel = 0, Budget.crash = 0
  PROVE  Spec => FailureSticks
<1>1. Init => TypeInv /\ StickInv
  <2> SUFFICES ASSUME Init PROVE StickInv
    BY InitTypeInv
  <2>1. \A m \in Relay : ~Seen(m)
    BY RelayShape DEF Init, Seen, Holds, Idle, Relay
  <2>2. FrontInv
    <3>1. \A m \in Behind(Last) \union Steps \union Ids : m \in Relay
      BY RelayShape, StepIds
    <3> QED
      BY <2>1, <3>1, RelayShape DEF Init, FrontInv
  <2>3. OnceInv
    <3>1. \A w \in Workers, m \in Relay : ~Holds(w, m)
      BY <2>1 DEF Seen
    <3>2. \A m \in Relay : queue[m] = 0
      BY DEF Init, Relay
    <3> QED
      BY <3>1, <3>2 DEF OnceInv
  <2>4. NoFaultInv /\ ChordInv /\ FailInv
    BY DEF Init, NoFaultInv, NoRequest, ChordInv, FailInv, Idle, Ended
  <2> QED
    BY <2>2, <2>3, <2>4 DEF StickInv
<1>2. TypeInv /\ StickInv /\ [Next]_vars => TypeInv' /\ StickInv'
  BY TypeInductive, StickInductive
<1> DEFINE Undone == (status \in {"error", "timeout"} /\ status' \notin {"error", "timeout"}) =>
       (\E c \in Clients : api[c].op \in {"pause", "resume"} /\ api'[c] = NoRequest)
<1>3. TypeInv /\ StickInv /\ [Next]_vars => [Undone]_vars
  <2> SUFFICES ASSUME TypeInv, StickInv, Next, status \in {"error", "timeout"},
                      status' \notin {"error", "timeout"}
               PROVE  \E c \in Clients : api[c].op \in {"pause", "resume"} /\ api'[c] = NoRequest
    OBVIOUS
  <2>1. ~Seen("start") /\ (status = "timeout" => ~Seen("end"))
    BY FailureFinal
  <2>2. \A w \in Workers : ~Start(w) /\ (status = "timeout" => ~End(w))
    BY <2>1 DEF Start, End, Take, Seen
  <2>3. PICK c \in Clients : Pause(c) \/ Resume(c)
    BY <2>2, FaultFree
       DEF StickInv, Build, Run, RunFails, BuildFails, NewTask, StartReturns, StartStep, StepReturns,
           OnSuccess, UserCodeRaises, OnFailure, End, EndReturns, FailureHooksLauncher, LauncherFails,
           Acknowledge, ChordUnlock
  <2>4. PauseSave(c) \/ ResumeSave(c)
    BY <2>3 DEF Pause, Resume, PauseRead, ResumeRead, ResumeCheck
  <2> QED
    BY <2>4 DEF PauseSave, ResumeSave, TypeInv, TypeOK
<1> QED
  BY <1>1, <1>2, <1>3, PTL DEF Spec, FailureSticks
=============================================================================
