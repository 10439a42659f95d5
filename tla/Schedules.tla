----------------------------- MODULE Schedules -----------------------------
(***************************************************************************)
(* Periodic execution. A Schedule is a row of its space's schema, beat     *)
(* holds the schedules of all schemas in one dictionary and sends an       *)
(* execute message when one is due, the task execute makes a workflow of   *)
(* it, and the first step of that workflow may ask whether another run of  *)
(* the same workflow is in progress.                                       *)
(*                                                                         *)
(* Beat learns of changes by polling one timestamp per schema and comparing*)
(* the largest with the one it saw last, so a timestamp that is committed  *)
(* late is not noticed; a full read every five minutes makes up for it.    *)
(*                                                                         *)
(* A run of a crontab line is abstracted to a period: a schedule is due    *)
(* when its entry last ran before the current period.                      *)
(***************************************************************************)
EXTENDS Naturals, FiniteSets

CONSTANTS
  Schemas,      \* the tenant schemas
  Names,        \* the names of schedules; each schema has its own
  Threads,      \* web threads
  RunIds,       \* identities of workflows
  Existing,     \* the schedules that exist at first
  Budget,       \* how many requests, periods, faults, and messages of beat
  None

ASSUME SchedulesAssumption ==
  /\ Schemas # {}     \* the public schema is always there
  /\ None \notin RunIds
  /\ Existing \subseteq Schemas \X Names
  /\ Budget \in [requests : Nat, periods : Nat, faults : Nat, sends : Nat]

VARIABLES
  rows,        \* rows[s]: the Schedule row
  lastUpdate,  \* lastUpdate[a]: PeriodicTasks.last_update of schema a; 0 if none
  time,        \* the time that the next timestamp will carry
  requests,    \* requests[t]: the request that thread t is in, with the row it read
  entries,     \* entries[s]: beat's entry for schedule s
  lastSeen,    \* beat's _last_timestamp; 0 stands for None
  beat,        \* what beat does next: "poll" or "read"
  queue,       \* queue[s][k]: how many execute messages of kind k wait for a worker
  period,      \* the current period
  sent,        \* history: how often beat sent s, with arguments, in this period
  repeats,     \* history: how often s was made due again in this period
  missed,      \* history: a timestamp was committed late, or met the first poll
  runs,        \* runs[r]: a workflow made by execute
  budget

scheduler == <<entries, lastSeen, beat, sent, repeats, missed>>
database == <<rows, lastUpdate, time, requests>>
vars == <<database, scheduler, queue, period, runs, budget>>

Schedules == Schemas \X Names
SchemaOf(s) == s[1]
Kinds == {"due", "bare", "manual"}    \* sent by beat, sent without arguments, by hand
Never == Budget.periods + 1           \* a last_run_at that is null
NoRow == [exists |-> FALSE, fresh |-> TRUE, enabled |-> FALSE, complete |-> FALSE, last |-> Never]
DeletedRow == [NoRow EXCEPT !.fresh = FALSE]
NoEntry == [known |-> FALSE, complete |-> FALSE, last |-> 0]
NoRun == [of |-> None, status |-> "none", phase |-> "none", left |-> FALSE]
Quiet == [pc |-> "idle", of |-> None, creating |-> FALSE, stamp |-> 0, row |-> NoRow]

Largest(S) == CHOOSE n \in S : \A m \in S : m <= n

-----------------------------------------------------------------------------
(* Requests that change a schedule: the row is committed, then             *)
(* PeriodicTasks.last_update is set, to a time taken before its commit. A  *)
(* new row is saved twice: only the second save knows the id that the      *)
(* task's arguments carry. An edit reads the row and later saves all of    *)
(* it, whatever happened to the row in between. A schedule stands for one  *)
(* row id, which is given out once.                                        *)

\* The row of s is written; the request goes on to its timestamp.
Ask(t, s, row, creating) ==
  /\ rows' = [rows EXCEPT ![s] = row]
  /\ requests' = [requests EXCEPT ![t] = [pc |-> "commit", of |-> s, creating |-> creating, stamp |-> time, row |-> NoRow]]
  /\ time' = time + 1

Begin(t) ==
  /\ requests[t].pc = "idle" /\ budget.requests > 0
  /\ budget' = [budget EXCEPT !.requests = @ - 1]

CreateSchedule(t, s) ==
  /\ rows[s].fresh
  /\ Begin(t)
  /\ Ask(t, s, [NoRow EXCEPT !.exists = TRUE, !.fresh = FALSE, !.enabled = TRUE], TRUE)
  /\ UNCHANGED <<lastUpdate, scheduler, queue, period, runs>>

\* An edit or a deletion begins with get_object.
ReadSchedule(t, s) ==
  /\ rows[s].exists
  /\ Begin(t)
  /\ requests' = [requests EXCEPT ![t] = [Quiet EXCEPT !.pc = "edit", !.of = s, !.row = rows[s]]]
  /\ UNCHANGED <<rows, lastUpdate, time, scheduler, queue, period, runs>>

\* What an edit writes: every column as it was read, with complete arguments. A
\* PeriodicTask that is saved disabled loses its last_run_at.
Edited(row, enabled) ==
  [row EXCEPT !.enabled = enabled, !.complete = TRUE, !.last = IF enabled THEN @ ELSE Never]

\* The save also inserts a row that was deleted meanwhile. It may put back an older
\* last_run_at than the one that execute has noted.
SaveSchedule(t, enabled) ==
  LET op == requests[t] new == Edited(op.row, enabled) IN
  /\ op.pc = "edit"
  /\ Ask(t, op.of, new, FALSE)
  /\ repeats' = [repeats EXCEPT ![op.of] = IF new.last \in {rows[op.of].last, Never} THEN @ ELSE @ + 1]
  /\ UNCHANGED <<lastUpdate, entries, lastSeen, beat, sent, missed, queue, period, runs, budget>>

DeleteSchedule(t) ==
  /\ requests[t].pc = "edit"
  /\ Ask(t, requests[t].of, DeletedRow, FALSE)
  /\ UNCHANGED <<lastUpdate, scheduler, queue, period, runs, budget>>

CommitStamp(t) ==
  LET op == requests[t] IN
  /\ op.pc = "commit"
  /\ lastUpdate' = [lastUpdate EXCEPT ![SchemaOf(op.of)] = op.stamp]
  /\ requests' = [requests EXCEPT ![t] = IF op.creating THEN [op EXCEPT !.pc = "second"] ELSE Quiet]
  /\ missed' = (missed \/ op.stamp < lastSeen \/ \E a \in Schemas : op.stamp < lastUpdate[a])
  /\ UNCHANGED <<rows, time, entries, lastSeen, beat, sent, repeats, queue, period, runs, budget>>

\* The second save of a new row: update_fields=["kwargs"]; it raises when the row is gone.
SaveKwargs(t) ==
  LET s == requests[t].of IN
  /\ requests[t].pc = "second"
  /\ IF rows[s].exists
       THEN Ask(t, s, [rows[s] EXCEPT !.complete = TRUE], FALSE)
       ELSE requests' = [requests EXCEPT ![t] = Quiet] /\ UNCHANGED <<rows, time>>
  /\ UNCHANGED <<lastUpdate, scheduler, queue, period, runs, budget>>

RunManual(t, s) ==
  /\ rows[s].exists /\ rows[s].enabled
  /\ Begin(t)
  /\ queue' = [queue EXCEPT ![s]["manual"] = @ + 1]
  /\ UNCHANGED <<database, scheduler, period, runs>>

-----------------------------------------------------------------------------
(* Beat.                                                                   *)

\* The enabled rows of every schema, under the key "schema:name".
AllAsSchedule(s) ==
  IF rows[s].exists /\ rows[s].enabled
    THEN [known |-> TRUE, complete |-> rows[s].complete,
          last |-> IF rows[s].last = Never THEN period ELSE rows[s].last]
    ELSE NoEntry

\* Seeded bug: only the schema read last counts.
NewestChange_LastSchema == lastUpdate[CHOOSE a \in Schemas : TRUE]

NewestChange == Largest({lastUpdate[a] : a \in Schemas})

\* Seeded bug: the time of the poll is remembered, not the timestamp it found.
ScheduleChanged_Now ==
  /\ beat = "poll" /\ lastSeen # time
  /\ lastSeen' = time
  /\ beat' = IF lastSeen # 0 /\ NewestChange > lastSeen THEN "read" ELSE "poll"
  /\ missed' = (missed \/ (lastSeen = 0 /\ NewestChange > 1))
  /\ UNCHANGED <<database, entries, sent, repeats, queue, period, runs, budget>>

\* The first poll after the start has nothing to compare with and sees no change. A
\* database error leaves everything for the next poll.
ScheduleChanged ==
  /\ beat = "poll" /\ lastSeen # NewestChange
  /\ lastSeen' = NewestChange
  /\ beat' = IF lastSeen # 0 /\ NewestChange > lastSeen THEN "read" ELSE "poll"
  /\ missed' = (missed \/ (lastSeen = 0 /\ NewestChange > 1))
  /\ UNCHANGED <<database, entries, sent, repeats, queue, period, runs, budget>>

Due(entry) == entry.known /\ entry.last < period

\* The row does not yet say that s was sent, because no worker has taken the message.
ReadTooEarly(s) ==
  /\ sent[s] > 0 /\ queue[s]["due"] > 0
  /\ Due(AllAsSchedule(s)) /\ ~Due(entries[s])

Read ==
  /\ entries' = [s \in Schedules |-> AllAsSchedule(s)]
  /\ repeats' = [s \in Schedules |-> IF ReadTooEarly(s) THEN repeats[s] + 1 ELSE repeats[s]]
  /\ beat' = "poll"
  /\ missed' = FALSE

ReadSchedules ==
  /\ beat = "read"
  /\ Read
  /\ UNCHANGED <<database, lastSeen, sent, queue, period, runs, budget>>

\* django-celery-beat reads everything again after SCHEDULE_SYNC_MAX_INTERVAL.
FullSync ==
  /\ beat = "poll"
  /\ entries # [s \in Schedules |-> AllAsSchedule(s)]
  /\ Read
  /\ UNCHANGED <<database, lastSeen, sent, queue, period, runs, budget>>

\* The initial read; a restart forgets the timestamp.
RestartBeat ==
  /\ budget.faults > 0
  /\ Read
  /\ lastSeen' = 0
  /\ budget' = [budget EXCEPT !.faults = @ - 1]
  /\ UNCHANGED <<database, sent, queue, period, runs>>

\* Beat does not save last_run_at: it looks its entry up without the schema.
SendDue(s) ==
  /\ Due(entries[s])
  /\ sent[s] + queue[s]["bare"] < Budget.sends
  /\ queue' = [queue EXCEPT ![s][IF entries[s].complete THEN "due" ELSE "bare"] = @ + 1]
  /\ entries' = [entries EXCEPT ![s].last = period]
  /\ sent' = [sent EXCEPT ![s] = IF entries[s].complete THEN @ + 1 ELSE @]
  /\ UNCHANGED <<database, lastSeen, beat, repeats, missed, period, runs, budget>>

NextPeriod ==
  /\ period < Budget.periods
  /\ period' = period + 1
  /\ sent' = [s \in Schedules |-> 0]
  /\ repeats' = [s \in Schedules |-> 0]
  /\ UNCHANGED <<database, entries, lastSeen, beat, missed, queue, runs, budget>>

-----------------------------------------------------------------------------
(* The task execute: note the time in the row, then make a workflow. What  *)
(* goes wrong is logged and forgotten.                                     *)

Make(s) ==
  \E r \in RunIds :
    /\ runs[r] = NoRun
    /\ runs' = [runs EXCEPT ![r] = [of |-> s, status |-> "init", phase |-> "start", left |-> FALSE]]

\* Seeded bug: last_run_at is left to beat.
Execute_NoLastRun(s, m) ==
  /\ queue[s][m] > 0
  /\ queue' = [queue EXCEPT ![s][m] = @ - 1]
  /\ IF m # "bare" /\ rows[s].exists THEN Make(s) ELSE UNCHANGED runs
  /\ UNCHANGED <<database, scheduler, period, budget>>

Execute(s, m) ==
  /\ queue[s][m] > 0
  /\ queue' = [queue EXCEPT ![s][m] = @ - 1]
  /\ IF m # "bare" /\ rows[s].exists
       THEN rows' = [rows EXCEPT ![s].last = period] /\ Make(s)
       ELSE UNCHANGED <<rows, runs>>
  /\ UNCHANGED <<lastUpdate, time, requests, scheduler, period, budget>>

-----------------------------------------------------------------------------
(* Runs of one workflow that must not overlap. The status of a run is what *)
(* others see of it; its phase is what its steps do. The status may leave  *)
(* "progress" while steps still work, and `left` remembers that it did.    *)

\* The start task sets the status without looking at it.
StartRun(r) ==
  /\ runs[r].phase = "start"
  /\ runs' = [runs EXCEPT ![r] = [@ EXCEPT !.status = "progress", !.phase = "check", !.left = FALSE]]
  /\ UNCHANGED <<database, scheduler, queue, period, budget>>

\* Seeded bug: every run of the same workflow is excluded from the count.
IsWorkflowAlreadyRunning_ExcludesAll(r) ==
  \E q \in RunIds : runs[q].of = runs[r].of /\ runs[q].of # runs[r].of /\ runs[q].status = "progress"

IsWorkflowAlreadyRunning(r) ==
  \E q \in RunIds \ {r} : runs[q].of = runs[r].of /\ runs[q].status = "progress"

\* The first step asks, and ends the run if another one is in progress.
CheckOverlap(r) ==
  /\ runs[r].phase = "check"
  /\ runs' = [runs EXCEPT ![r].phase = IF IsWorkflowAlreadyRunning(r) THEN "withdraw" ELSE "work"]
  /\ UNCHANGED <<database, scheduler, queue, period, budget>>

\* The first last node to end saves success, a failing branch saves error and a cancel
\* saves canceled, while other branches and the step under way go on.
CloseEarly(r) ==
  /\ runs[r].status \in {"init", "progress", "wait"} /\ budget.faults > 0
  /\ runs' = [runs EXCEPT ![r] = [@ EXCEPT !.status = "over", !.left = TRUE]]
  /\ budget' = [budget EXCEPT !.faults = @ - 1]
  /\ UNCHANGED <<database, scheduler, queue, period>>

\* The last step of a run ends. The run is forgotten, so that its identity can be used
\* again.
FinishRun(r) ==
  /\ runs[r].phase \in {"work", "withdraw"}
  /\ runs' = [runs EXCEPT ![r] = NoRun]
  /\ UNCHANGED <<database, scheduler, queue, period, budget>>

\* A paused workflow is waiting, which the check does not look for.
PauseWorkflow(r) ==
  /\ runs[r].status = "progress" /\ budget.faults > 0
  /\ runs' = [runs EXCEPT ![r] = [@ EXCEPT !.status = "wait", !.left = TRUE]]
  /\ budget' = [budget EXCEPT !.faults = @ - 1]
  /\ UNCHANGED <<database, scheduler, queue, period>>

ResumeWorkflow(r) ==
  /\ runs[r].status = "wait"
  /\ runs' = [runs EXCEPT ![r].status = "progress"]
  /\ UNCHANGED <<database, scheduler, queue, period, budget>>

-----------------------------------------------------------------------------

Init ==
  /\ rows = [s \in Schedules |-> IF s \in Existing
               THEN [exists |-> TRUE, fresh |-> FALSE, enabled |-> TRUE, complete |-> TRUE, last |-> 0] ELSE NoRow]
  /\ lastUpdate = [a \in Schemas |-> 1]
  /\ time = 2
  /\ requests = [t \in Threads |-> Quiet]
  /\ entries = [s \in Schedules |-> AllAsSchedule(s)]
  /\ lastSeen = 0
  /\ beat = "poll"
  /\ queue = [s \in Schedules |-> [k \in Kinds |-> 0]]
  /\ period = 0
  /\ sent = [s \in Schedules |-> 0]
  /\ repeats = [s \in Schedules |-> 0]
  /\ missed = FALSE
  /\ runs = [r \in RunIds |-> NoRun]
  /\ budget = Budget

Request ==
  \E t \in Threads :
    \/ CommitStamp(t) \/ SaveKwargs(t) \/ DeleteSchedule(t)
    \/ \E b \in BOOLEAN : SaveSchedule(t, b)
    \/ \E s \in Schedules : CreateSchedule(t, s) \/ ReadSchedule(t, s) \/ RunManual(t, s)

Beat == ScheduleChanged \/ ReadSchedules \/ FullSync \/ RestartBeat \/ \E s \in Schedules : SendDue(s)

Work ==
  \/ \E s \in Schedules, m \in Kinds : Execute(s, m)
  \/ \E r \in RunIds :
       \/ StartRun(r) \/ CheckOverlap(r) \/ CloseEarly(r) \/ FinishRun(r)
       \/ PauseWorkflow(r) \/ ResumeWorkflow(r)

Next == Request \/ Beat \/ Work \/ NextPeriod

Spec == Init /\ [][Next]_vars

-----------------------------------------------------------------------------
(* Properties.                                                             *)

Row == [exists : BOOLEAN, fresh : BOOLEAN, enabled : BOOLEAN, complete : BOOLEAN, last : 0..Never]
Entry == [known : BOOLEAN, complete : BOOLEAN, last : 0..Budget.periods]
Save == [pc : {"idle", "edit", "commit", "second"}, of : Schedules \union {None}, creating : BOOLEAN, stamp : Nat, row : Row]
Run == [of : Schedules \union {None}, status : {"none", "init", "progress", "wait", "over"},
        phase : {"none", "start", "check", "work", "withdraw"}, left : BOOLEAN]

TypeOK ==
  /\ rows \in [Schedules -> Row] /\ entries \in [Schedules -> Entry]
  /\ requests \in [Threads -> Save] /\ runs \in [RunIds -> Run]
  /\ \A t \in Threads : requests[t].pc # "idle" => requests[t].of \in Schedules
  /\ time \in Nat /\ lastUpdate \in [Schemas -> Nat] /\ lastSeen \in Nat
  /\ lastSeen < time /\ \A a \in Schemas : lastUpdate[a] < time
  /\ beat \in {"poll", "read"} /\ missed \in BOOLEAN
  /\ queue \in [Schedules -> [Kinds -> Nat]]
  /\ period \in 0..Budget.periods
  /\ sent \in [Schedules -> Nat] /\ repeats \in [Schedules -> Nat]
  /\ budget \in [requests : Nat, periods : Nat, faults : Nat, sends : Nat]

\* Polling one number per schema is enough: when every save is over and beat has seen
\* the newest timestamp, it holds exactly the enabled schedules of all schemas, each
\* with complete arguments, unless a timestamp was committed late or beat had just
\* started; only then is the full read needed (schedule_changed, all_as_schedule).
PollSuffices ==
  (/\ beat = "poll" /\ lastSeen = NewestChange /\ ~missed
   /\ \A t \in Threads : requests[t] = Quiet) =>
     \A s \in Schedules :
       /\ entries[s].known = (rows[s].exists /\ rows[s].enabled)
       /\ entries[s].known => entries[s].complete

\* Beat sends a schedule once in a period, although it never saves the time of the last
\* run itself (execute does): every further message is paid for by one of two events
\* that made the entry due again, a read of the row while no worker had taken the
\* message, or an edit that put back the last_run_at it had read before.
OncePerPeriod == \A s \in Schedules : sent[s] <= 1 + repeats[s]

\* Two runs of one workflow are never both past the check while both rows have said
\* "progress" since their start, however the two starts and checks interleave: the one
\* that asked last saw the other (BaseTask.is_workflow_already_running).
NoOverlap ==
  \A q, r \in RunIds :
    q # r /\ runs[q].of = runs[r].of /\ runs[q].phase = "work" /\ runs[r].phase = "work" =>
      runs[q].left \/ runs[r].left
=============================================================================
