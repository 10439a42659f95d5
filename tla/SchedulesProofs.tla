--------------------------- MODULE SchedulesProofs ---------------------------
(* Theorems about Schedules for any number of schemas, schedules, web      *)
(* threads, runs, periods and faults.                                      *)
EXTENDS Schedules, TLAPS, WellFoundedInduction

\* A run past its first task is in progress, unless its row left that status.
RunInv(r) ==
  runs[r].phase \in {"check", "work", "withdraw"} => runs[r].status = "progress" \/ runs[r].left

OverlapInv == NoOverlap /\ \A r \in RunIds : RunInv(r)

\* Beat is about to send s: its entry is due, or will be after the next read, because the
\* row is older than this period and no message is on its way that would change it.
Waits(s) == Due(entries[s]) \/ (queue[s]["due"] = 0 /\ rows[s].last < period)

\* What was sent and what is about to be sent are paid for.
SendInv(s) ==
  /\ ~rows[s].exists => rows[s].last = Never
  /\ sent[s] <= 1 + repeats[s]
  /\ Waits(s) => sent[s] <= repeats[s]

OnceInv == \A s \in Schedules : SendInv(s)

\* What beat holds of a schedule is what its row says.
Agree(s) ==
  /\ entries[s].known = (rows[s].exists /\ rows[s].enabled)
  /\ entries[s].known => entries[s].complete

Pending(s) == \E t \in Threads : requests[t].pc = "commit" /\ requests[t].of = s

\* The request that made the row has yet to save it a second time.
Unfinished(s) ==
  \E t \in Threads :
    /\ requests[t].of = s
    /\ requests[t].pc = "second" \/ (requests[t].pc = "commit" /\ requests[t].creating)

\* The timestamps under way are new to beat and to every schema; an edit holds a row that
\* existed when it was read.
StampInv ==
  /\ time > 1
  /\ \A t \in Threads : requests[t].pc = "edit" => requests[t].row.exists
  /\ \A t \in Threads : requests[t].pc = "commit" =>
       /\ requests[t].stamp > 1 /\ requests[t].stamp < time
       /\ requests[t].stamp # lastSeen
       /\ \A a \in Schemas : requests[t].stamp # lastUpdate[a]
       /\ \A u \in Threads \ {t} : requests[u].pc = "commit" => requests[u].stamp # requests[t].stamp

\* A row without its arguments will be saved again. A change that beat does not know of is
\* in such a row, or still being saved, or about to be read, or behind a timestamp that
\* the next poll finds, or was missed.
ChangeInv ==
  /\ \A s \in Schedules : rows[s].exists /\ ~rows[s].complete => Unfinished(s)
  /\ \A s \in Schedules :
       Agree(s) \/ Pending(s) \/ beat = "read" \/ missed
         \/ (rows[s].exists /\ ~rows[s].complete)
         \/ \E a \in Schemas : lastUpdate[a] > lastSeen /\ lastUpdate[a] > 1

-----------------------------------------------------------------------------
(* The requests.                                                           *)

LEMMA PeriodsNat == Budget.periods \in Nat /\ Never \in Nat /\ Never \in 0..Never /\ 0 \in 0..Never
BY SchedulesAssumption DEF Never

LEMMA Literals ==
  /\ NoRow \in Row /\ ~NoRow.exists /\ NoRow.last = Never
  /\ DeletedRow \in Row /\ ~DeletedRow.exists /\ DeletedRow.last = Never
  /\ NoEntry \in Entry /\ NoRun \in Run /\ Quiet \in Save
<1>1. NoRow \in Row /\ ~NoRow.exists /\ NoRow.last = Never
  BY PeriodsNat DEF NoRow, Row
<1>2. DeletedRow \in Row /\ ~DeletedRow.exists /\ DeletedRow.last = Never
  BY <1>1 DEF DeletedRow, Row
<1>3. NoEntry \in Entry /\ NoRun \in Run
  BY PeriodsNat DEF NoEntry, Entry, NoRun, Run
<1>4. Quiet \in Save
  BY <1>1 DEF Quiet, Save
<1> QED
  BY <1>1, <1>2, <1>3, <1>4

BudgetType == [requests : Nat, periods : Nat, faults : Nat, sends : Nat]

LEMMA BeginType ==
  ASSUME TypeOK, NEW t \in Threads, Begin(t)
  PROVE  budget' \in BudgetType /\ requests[t].pc = "idle"
<1>1. budget' = [budget EXCEPT !.requests = budget.requests - 1] /\ budget.requests > 0 /\ requests[t].pc = "idle"
  BY DEF Begin
<1>2. budget \in BudgetType
  BY DEF TypeOK, BudgetType
<1> QED
  BY <1>1, <1>2 DEF BudgetType

\* A request writes one row and takes the next timestamp. If it puts back another time
\* of the last run, this is counted.
Saves(t, s, row) ==
  /\ row \in Row /\ (row.exists \/ row.last = Never)
  /\ rows' = [rows EXCEPT ![s] = row]
  /\ time' = time + 1
  /\ requests[t].pc = "idle" \/ (requests[t].pc \in {"edit", "second"} /\ requests[t].of = s)
  /\ requests'[t].pc = "commit" /\ requests'[t].of = s /\ requests'[t].stamp = time
  /\ row.exists /\ ~row.complete => requests'[t].creating
  /\ \A u \in Threads \ {t} : requests'[u] = requests[u]
  /\ \A z \in Schedules \ {s} : repeats'[z] = repeats[z]
  /\ \/ repeats'[s] = repeats[s] /\ row.last \in {rows[s].last, Never}
     \/ repeats'[s] = repeats[s] + 1
  /\ UNCHANGED <<lastUpdate, entries, lastSeen, beat, sent, missed, queue, period, runs>>

LEMMA AskSaves ==
  ASSUME TypeOK, NEW t \in Threads, NEW s \in Schedules, NEW row \in Row, NEW c \in BOOLEAN, Ask(t, s, row, c),
         row.exists \/ row.last = Never,
         row.exists /\ ~row.complete => c,
         requests[t].pc = "idle" \/ (requests[t].pc \in {"edit", "second"} /\ requests[t].of = s),
         repeats' \in [Schedules -> Nat],
         \A z \in Schedules \ {s} : repeats'[z] = repeats[z],
         \/ repeats'[s] = repeats[s] /\ row.last \in {rows[s].last, Never}
         \/ repeats'[s] = repeats[s] + 1,
         budget' \in BudgetType,
         UNCHANGED <<lastUpdate, entries, lastSeen, beat, sent, missed, queue, period, runs>>
  PROVE  TypeOK' /\ Saves(t, s, row)
<1> DEFINE new == [pc |-> "commit", of |-> s, creating |-> c, stamp |-> time, row |-> NoRow]
<1>1. new \in Save
  BY Literals DEF TypeOK, Save
<1>2. requests' = [requests EXCEPT ![t] = new]
  BY DEF Ask
<1>3. requests' \in [Threads -> Save] /\ requests'[t] = new /\ \A u \in Threads \ {t} : requests'[u] = requests[u]
  BY <1>1, <1>2 DEF TypeOK
<1>4. rows' \in [Schedules -> Row] /\ rows' = [rows EXCEPT ![s] = row] /\ time' = time + 1
  BY DEF TypeOK, Ask
<1>5. requests'[t].pc = "commit" /\ requests'[t].of = s /\ requests'[t].stamp = time /\ requests'[t].creating = c
  BY <1>3
<1> HIDE DEF new
<1>6. TypeOK'
  <2>1. \A u \in Threads : requests'[u].pc # "idle" => requests'[u].of \in Schedules
    BY <1>3, <1>5 DEF TypeOK
  <2>2. time' \in Nat /\ lastUpdate' = lastUpdate /\ lastSeen' = lastSeen /\ lastSeen' < time' /\ \A a \in Schemas : lastUpdate'[a] < time'
    BY <1>4 DEF TypeOK
  <2> QED
    BY <1>3, <1>4, <2>1, <2>2 DEF TypeOK, BudgetType
<1>7. Saves(t, s, row)
  BY <1>3, <1>4, <1>5 DEF Saves
<1> QED
  BY <1>6, <1>7

LEMMA CreateSaves ==
  ASSUME TypeOK, NEW t \in Threads, NEW s \in Schedules, CreateSchedule(t, s)
  PROVE  TypeOK' /\ \E row \in Row : Saves(t, s, row)
<1> DEFINE row == [NoRow EXCEPT !.exists = TRUE, !.fresh = FALSE, !.enabled = TRUE]
<1>1. row \in Row /\ row.exists /\ row.last = Never
  BY Literals DEF Row
<1>2. /\ Ask(t, s, row, TRUE) /\ Begin(t)
      /\ UNCHANGED <<lastUpdate, scheduler, queue, period, runs>>
  BY DEF CreateSchedule
<1> HIDE DEF row
<1>3. UNCHANGED <<lastUpdate, entries, lastSeen, beat, sent, missed, queue, period, runs, repeats>>
  BY <1>2 DEF scheduler
<1>4. repeats' \in [Schedules -> Nat]
  BY <1>3 DEF TypeOK
<1>5. TypeOK' /\ Saves(t, s, row)
  BY <1>1, <1>2, <1>3, <1>4, AskSaves, BeginType
<1> QED
  BY <1>1, <1>5

LEMMA SaveSaves ==
  ASSUME TypeOK, StampInv, NEW t \in Threads, NEW b \in BOOLEAN, SaveSchedule(t, b)
  PROVE  TypeOK' /\ \E s \in Schedules, row \in Row : Saves(t, s, row)
<1> DEFINE s == requests[t].of
           old == requests[t].row
           row == Edited(old, b)
<1>1. s \in Schedules /\ old \in Row /\ old.exists /\ requests[t].pc = "edit"
  BY DEF SaveSchedule, TypeOK, Save, StampInv
<1>2. row \in Row /\ row.exists /\ row.complete
  BY <1>1, PeriodsNat DEF Edited, Row
<1>3. /\ Ask(t, s, row, FALSE)
      /\ repeats' = [repeats EXCEPT ![s] = IF row.last \in {rows[s].last, Never} THEN @ ELSE @ + 1]
      /\ UNCHANGED <<lastUpdate, entries, lastSeen, beat, sent, missed, queue, period, runs, budget>>
  BY DEF SaveSchedule
<1> HIDE DEF s, old, row
<1>4. repeats \in [Schedules -> Nat] /\ budget' \in BudgetType
  BY <1>3 DEF TypeOK, BudgetType
<1>5. /\ repeats' \in [Schedules -> Nat] /\ \A z \in Schedules \ {s} : repeats'[z] = repeats[z]
      /\ \/ repeats'[s] = repeats[s] /\ row.last \in {rows[s].last, Never}
         \/ repeats'[s] = repeats[s] + 1
  BY <1>1, <1>3, <1>4
<1>6. requests[t].of = s
  BY DEF s
<1>7. TypeOK' /\ Saves(t, s, row)
  BY <1>1, <1>2, <1>3, <1>4, <1>5, <1>6, AskSaves
<1> QED
  BY <1>1, <1>2, <1>7

LEMMA DeleteSaves ==
  ASSUME TypeOK, NEW t \in Threads, DeleteSchedule(t)
  PROVE  TypeOK' /\ \E s \in Schedules, row \in Row : Saves(t, s, row)
<1> DEFINE s == requests[t].of
<1>1. s \in Schedules /\ requests[t].pc = "edit"
  BY DEF DeleteSchedule, TypeOK
<1>2. /\ Ask(t, s, DeletedRow, FALSE)
      /\ UNCHANGED <<lastUpdate, entries, lastSeen, beat, sent, missed, queue, period, runs, repeats, budget>>
  BY DEF DeleteSchedule, scheduler
<1>3. repeats' \in [Schedules -> Nat] /\ budget' \in BudgetType
  BY <1>2 DEF TypeOK, BudgetType
<1>4. requests[t].of = s
  OBVIOUS
<1> HIDE DEF s
<1>5. TypeOK' /\ Saves(t, s, DeletedRow)
  BY <1>1, <1>2, <1>3, <1>4, Literals, AskSaves
<1> QED
  BY <1>1, <1>5, Literals

\* A request goes on without writing anything.
Moves(t) ==
  /\ requests[t].pc \in {"idle", "second"} /\ requests'[t].pc \in {"idle", "edit"}
  /\ requests[t].pc = "second" => ~rows[requests[t].of].exists
  /\ requests'[t].pc = "edit" => requests'[t].row.exists
  /\ \A u \in Threads \ {t} : requests'[u] = requests[u]
  /\ UNCHANGED <<rows, lastUpdate, time, scheduler, queue, period, runs>>

LEMMA ReadMoves ==
  ASSUME TypeOK, NEW t \in Threads, NEW s \in Schedules, ReadSchedule(t, s)
  PROVE  TypeOK' /\ Moves(t)
<1> DEFINE new == [Quiet EXCEPT !.pc = "edit", !.of = s, !.row = rows[s]]
<1>1. new \in Save /\ new.pc = "edit" /\ new.of = s /\ new.row = rows[s]
  BY Literals DEF Save, TypeOK
<1>2. requests' = [requests EXCEPT ![t] = new] /\ rows[s].exists
  BY DEF ReadSchedule
<1> HIDE DEF new
<1>3. requests' \in [Threads -> Save] /\ requests'[t] = new /\ \A u \in Threads \ {t} : requests'[u] = requests[u]
  BY <1>1, <1>2 DEF TypeOK
<1>4. budget' \in BudgetType /\ requests[t].pc = "idle"
  BY BeginType DEF ReadSchedule
<1>5. \A u \in Threads : requests'[u].pc # "idle" => requests'[u].of \in Schedules
  BY <1>1, <1>3 DEF TypeOK
<1>6. TypeOK'
  BY <1>3, <1>4, <1>5 DEF TypeOK, ReadSchedule, scheduler, BudgetType
<1>7. Moves(t)
  BY <1>1, <1>2, <1>3, <1>4 DEF Moves, ReadSchedule
<1> QED
  BY <1>6, <1>7

LEMMA KwargsSaves ==
  ASSUME TypeOK, NEW t \in Threads, SaveKwargs(t)
  PROVE  /\ TypeOK'
         /\ Moves(t) \/ \E s \in Schedules, row \in Row : Saves(t, s, row)
<1> DEFINE s == requests[t].of
           row == [rows[s] EXCEPT !.complete = TRUE]
<1>1. s \in Schedules /\ rows[s] \in Row /\ requests[t].pc = "second" /\ requests[t].of = s
  BY DEF TypeOK, SaveKwargs
<1>2. UNCHANGED <<lastUpdate, entries, lastSeen, beat, sent, missed, queue, period, runs, repeats, budget>>
  BY DEF SaveKwargs, scheduler
<1>3. repeats' \in [Schedules -> Nat] /\ budget' \in BudgetType
  BY <1>2 DEF TypeOK, BudgetType
<1>4. CASE rows[s].exists
  <2>1. row \in Row /\ row.exists /\ row.complete /\ row.last = rows[s].last
    BY <1>1, <1>4 DEF Row
  <2>2. Ask(t, s, row, FALSE)
    BY <1>4 DEF SaveKwargs
  <2> HIDE DEF s, row
  <2>3. TypeOK' /\ Saves(t, s, row)
    BY <1>1, <1>2, <1>3, <2>1, <2>2, AskSaves
  <2> QED
    BY <1>1, <2>1, <2>3
<1>5. CASE ~rows[s].exists
  <2>1. requests' = [requests EXCEPT ![t] = Quiet] /\ rows' = rows /\ time' = time
    BY <1>5 DEF SaveKwargs
  <2>2. requests' \in [Threads -> Save] /\ requests'[t] = Quiet /\ \A u \in Threads \ {t} : requests'[u] = requests[u]
    BY <2>1, Literals DEF TypeOK
  <2>3. requests'[t].pc = "idle"
    BY <2>2 DEF Quiet
  <2>4. Moves(t)
    BY <1>1, <1>2, <1>5, <2>1, <2>2, <2>3 DEF Moves, scheduler
  <2>5. \A u \in Threads : requests'[u].pc # "idle" => requests'[u].of \in Schedules
    BY <2>2, <2>3 DEF TypeOK
  <2>6. TypeOK'
    BY <1>2, <1>3, <2>1, <2>2, <2>5 DEF TypeOK, BudgetType
  <2> QED
    BY <2>4, <2>6
<1> QED
  BY <1>4, <1>5

\* The timestamp of a save reaches the database.
Commits(t) ==
  /\ requests[t].pc = "commit" /\ requests[t].of \in Schedules
  /\ lastUpdate' = [lastUpdate EXCEPT ![SchemaOf(requests[t].of)] = requests[t].stamp]
  /\ requests'[t].pc \in {"idle", "second"}
  /\ requests[t].creating => requests'[t].pc = "second" /\ requests'[t].of = requests[t].of
  /\ \A u \in Threads \ {t} : requests'[u] = requests[u]
  /\ missed' = (missed \/ requests[t].stamp < lastSeen \/ \E a \in Schemas : requests[t].stamp < lastUpdate[a])
  /\ UNCHANGED <<rows, time, entries, lastSeen, beat, sent, repeats, queue, period, runs, budget>>

LEMMA CommitStampCommits ==
  ASSUME TypeOK, StampInv, NEW t \in Threads, CommitStamp(t)
  PROVE  TypeOK' /\ Commits(t)
<1> DEFINE op == requests[t]
           new == IF op.creating THEN [op EXCEPT !.pc = "second"] ELSE Quiet
<1>0. op \in Save /\ op.of \in Schedules /\ SchemaOf(op.of) \in Schemas /\ op.stamp \in Nat /\ op.stamp < time
  BY DEF TypeOK, CommitStamp, StampInv, Save, Schedules, SchemaOf
<1>1. new \in Save /\ new.pc \in {"idle", "second"} /\ (op.creating => new.pc = "second" /\ new.of = op.of)
  BY <1>0, Literals DEF Save, Quiet
<1>2. new.pc = "idle" \/ new.of = op.of
  BY <1>0 DEF Save, Quiet
<1>3. requests' \in [Threads -> Save] /\ requests'[t] = new /\ \A u \in Threads \ {t} : requests'[u] = requests[u]
  BY <1>1 DEF TypeOK, CommitStamp
<1> HIDE DEF new
<1>4. \A u \in Threads : requests'[u].pc # "idle" => requests'[u].of \in Schedules
  BY <1>0, <1>2, <1>3 DEF TypeOK
<1>5. lastUpdate' \in [Schemas -> Nat] /\ missed' \in BOOLEAN /\ \A a \in Schemas : lastUpdate'[a] < time
  BY <1>0 DEF TypeOK, CommitStamp
<1>6. TypeOK'
  BY <1>3, <1>4, <1>5 DEF TypeOK, CommitStamp
<1>7. Commits(t)
  BY <1>0, <1>1, <1>3 DEF CommitStamp, Commits
<1> QED
  BY <1>6, <1>7

LEMMA ManualType ==
  ASSUME TypeOK, NEW t \in Threads, NEW s \in Schedules, RunManual(t, s)
  PROVE  /\ TypeOK' /\ UNCHANGED <<database, scheduler, period, runs>>
         /\ \A u \in Schedules : queue'[u]["due"] = queue[u]["due"]
<1>1. queue[s] \in [Kinds -> Nat]
  BY DEF TypeOK
<1>2. [queue[s] EXCEPT !["manual"] = @ + 1] \in [Kinds -> Nat]
  BY <1>1 DEF Kinds
<1>3. queue' = [queue EXCEPT ![s] = [queue[s] EXCEPT !["manual"] = @ + 1]]
  BY DEF RunManual, TypeOK
<1>4. queue' \in [Schedules -> [Kinds -> Nat]] /\ \A u \in Schedules : queue'[u]["due"] = queue[u]["due"]
  BY <1>1, <1>2, <1>3 DEF TypeOK, Kinds
<1>5. budget' \in BudgetType
  BY BeginType DEF RunManual
<1> QED
  BY <1>4, <1>5 DEF TypeOK, RunManual, database, scheduler, BudgetType

-----------------------------------------------------------------------------
(* Beat.                                                                   *)

\* A finite set of numbers that is not empty has a largest one.
LEMMA LargestExists ==
  ASSUME NEW S \in SUBSET Nat, S # {}, NEW bound \in Nat, \A n \in S : n < bound
  PROVE  Largest(S) \in S /\ \A m \in S : m <= Largest(S)
<1> DEFINE gaps == {n \in Nat : \E m \in S : n = bound - m}
<1>1. gaps \subseteq Nat /\ gaps # {}
  <2>1. PICK m \in S : TRUE
    OBVIOUS
  <2>2. m \in Nat /\ m < bound
    OBVIOUS
  <2>3. bound - m \in Nat
    BY <2>2
  <2> QED
    BY <2>3
<1>2. IsWellFoundedOn(OpToRel(<, Nat), Nat)
  BY NatLessThanWellFounded
<1>3. \E g \in gaps : \A h \in gaps : ~(<<h, g>> \in OpToRel(<, Nat))
  <2> HIDE DEF gaps
  <2> QED BY <1>1, <1>2, WFMin
<1>4. PICK g \in gaps : \A h \in gaps : ~(<<h, g>> \in OpToRel(<, Nat))
  BY <1>3
<1>5. \A h \in gaps : ~(h < g)
  BY <1>1, <1>4 DEF OpToRel
<1>6. PICK n \in S : g = bound - n
  OBVIOUS
<1>7. \A m \in S : m <= n
  <2> TAKE m \in S
  <2>1. m \in Nat /\ n \in Nat /\ m < bound /\ n < bound
    OBVIOUS
  <2>2. bound - m \in gaps
    BY <2>1
  <2> QED
    BY <1>5, <1>6, <2>1, <2>2
<1> QED
  BY <1>7 DEF Largest

LEMMA NewestIsMax ==
  ASSUME TypeOK
  PROVE  /\ NewestChange \in Nat /\ NewestChange < time
         /\ \E a \in Schemas : NewestChange = lastUpdate[a]
         /\ \A a \in Schemas : lastUpdate[a] <= NewestChange
<1> DEFINE S == {lastUpdate[a] : a \in Schemas}
<1>1. S \in SUBSET Nat /\ S # {} /\ time \in Nat /\ \A n \in S : n < time
  BY SchedulesAssumption DEF TypeOK
<1>2. Largest(S) \in S /\ \A m \in S : m <= Largest(S)
  <2> HIDE DEF S
  <2> QED BY <1>1, LargestExists
<1>3. NewestChange = Largest(S)
  BY DEF NewestChange
<1>4. NewestChange \in S /\ \A m \in S : m <= NewestChange
  BY <1>2, <1>3
<1>5. NewestChange \in Nat /\ NewestChange < time
  BY <1>1, <1>4
<1>6. \A a \in Schemas : lastUpdate[a] <= NewestChange
  <2> HIDE DEF NewestChange
  <2> QED BY <1>4
<1>7. \E a \in Schemas : NewestChange = lastUpdate[a]
  BY <1>4
<1> QED
  BY <1>5, <1>6, <1>7

LEMMA PollType ==
  ASSUME TypeOK, ScheduleChanged
  PROVE  TypeOK'
<1>1. lastSeen' \in Nat /\ lastSeen' < time /\ beat' \in {"poll", "read"} /\ missed' \in BOOLEAN
  BY NewestIsMax DEF ScheduleChanged, TypeOK
<1> QED
  BY <1>1 DEF ScheduleChanged, TypeOK, database

LEMMA EntryType ==
  ASSUME TypeOK, NEW s \in Schedules
  PROVE  /\ AllAsSchedule(s) \in Entry
         /\ AllAsSchedule(s).known = (rows[s].exists /\ rows[s].enabled)
         /\ AllAsSchedule(s).known => AllAsSchedule(s).complete = rows[s].complete
         /\ Due(AllAsSchedule(s)) => rows[s].last < period
<1>1. rows[s] \in Row
  BY DEF TypeOK
<1>2. period \in 0..Budget.periods
  BY DEF TypeOK
<1> DEFINE last == IF rows[s].last = Never THEN period ELSE rows[s].last
<1>3. last \in 0..Budget.periods /\ (last < period => rows[s].last < period)
  BY <1>1, <1>2, PeriodsNat DEF Row, Never
<1> HIDE DEF last
<1>4. CASE rows[s].exists /\ rows[s].enabled
  <2> DEFINE entry == [known |-> TRUE, complete |-> rows[s].complete, last |-> last]
  <2>1. AllAsSchedule(s) = entry
    BY <1>4 DEF AllAsSchedule, last
  <2>2. entry \in Entry
    BY <1>1, <1>3 DEF Row, Entry
  <2>3. AllAsSchedule(s).known = TRUE /\ AllAsSchedule(s).complete = rows[s].complete /\ AllAsSchedule(s).last = last
    BY <2>1
  <2>4. (rows[s].exists /\ rows[s].enabled) = TRUE
    BY <1>4, Zenon
  <2>5. AllAsSchedule(s).known = (rows[s].exists /\ rows[s].enabled)
    BY <2>3, <2>4, Zenon
  <2>6. Due(AllAsSchedule(s)) => rows[s].last < period
    BY <1>3, <2>3 DEF Due
  <2> QED
    BY <1>3, <2>1, <2>2, <2>3, <2>5, <2>6
<1>5. CASE ~(rows[s].exists /\ rows[s].enabled)
  <2>1. AllAsSchedule(s) = NoEntry
    BY <1>5 DEF AllAsSchedule
  <2>2. AllAsSchedule(s).known = FALSE /\ AllAsSchedule(s) \in Entry
    BY <2>1, Literals DEF NoEntry
  <2>3. (rows[s].exists /\ rows[s].enabled) = FALSE
    BY <1>5, Zenon
  <2>4. AllAsSchedule(s).known = (rows[s].exists /\ rows[s].enabled)
    BY <2>2, <2>3, Zenon
  <2> QED
    BY <2>2, <2>4 DEF Due
<1> QED
  BY <1>4, <1>5

LEMMA ReadType ==
  ASSUME TypeOK, Read
  PROVE  /\ entries' \in [Schedules -> Entry] /\ repeats' \in [Schedules -> Nat]
         /\ beat' = "poll" /\ missed' = FALSE
BY EntryType DEF Read, TypeOK

LEMMA RestartType ==
  ASSUME TypeOK, ReadSchedules \/ FullSync \/ RestartBeat
  PROVE  TypeOK' /\ Read /\ lastSeen' \in {lastSeen, 0} /\ UNCHANGED <<database, sent, queue, period, runs>>
<1>1. Read
  BY DEF ReadSchedules, FullSync, RestartBeat
<1>2. lastSeen' \in {lastSeen, 0} /\ budget' \in [requests : Nat, periods : Nat, faults : Nat, sends : Nat]
  BY DEF ReadSchedules, FullSync, RestartBeat, TypeOK
<1>3. UNCHANGED <<database, sent, queue, period, runs>>
  BY DEF ReadSchedules, FullSync, RestartBeat
<1>4. lastSeen' \in Nat /\ lastSeen' < time
  BY <1>2, SMT DEF TypeOK
<1> QED
  BY <1>1, <1>2, <1>3, <1>4, ReadType DEF TypeOK, database

\* A due schedule is sent: with its arguments if the entry has them.
Sends(s) ==
  /\ Due(entries[s])
  /\ entries'[s].known = entries[s].known /\ entries'[s].complete = entries[s].complete /\ entries'[s].last = period
  /\ \A u \in Schedules \ {s} : entries'[u] = entries[u] /\ sent'[u] = sent[u] /\ queue'[u] = queue[u]
  /\ \/ sent'[s] = sent[s] + 1 /\ queue'[s]["due"] = queue[s]["due"] + 1
     \/ sent'[s] = sent[s] /\ queue'[s]["due"] = queue[s]["due"]
  /\ UNCHANGED <<database, lastSeen, beat, repeats, missed, period, runs, budget>>

LEMMA SendDueSends ==
  ASSUME TypeOK, NEW s \in Schedules, SendDue(s)
  PROVE  TypeOK' /\ Sends(s)
<1>1. entries[s] \in Entry /\ queue[s] \in [Kinds -> Nat] /\ sent[s] \in Nat
  BY DEF TypeOK
<1> DEFINE kind == IF entries[s].complete THEN "due" ELSE "bare"
           n == IF entries[s].complete THEN sent[s] + 1 ELSE sent[s]
           new == [entries[s] EXCEPT !.last = period]
<1>2. /\ kind \in Kinds /\ n \in Nat
      /\ (kind = "due" /\ n = sent[s] + 1) \/ (kind = "bare" /\ n = sent[s])
  BY <1>1 DEF Kinds
<1>3. new \in Entry /\ new.known = entries[s].known /\ new.complete = entries[s].complete /\ new.last = period
  BY <1>1 DEF Entry, TypeOK
<1>4. entries' = [entries EXCEPT ![s] = new] /\ sent' = [sent EXCEPT ![s] = n]
  BY DEF SendDue, TypeOK
<1>5. queue' = [queue EXCEPT ![s] = [queue[s] EXCEPT ![kind] = @ + 1]]
  BY DEF SendDue, TypeOK
<1> HIDE DEF kind, n, new
<1> DEFINE line == [queue[s] EXCEPT ![kind] = @ + 1]
<1>6. line \in [Kinds -> Nat] /\ (kind = "due" => line["due"] = queue[s]["due"] + 1) /\ (kind = "bare" => line["due"] = queue[s]["due"])
  BY <1>1, <1>2 DEF Kinds
<1>7. queue' = [queue EXCEPT ![s] = line]
  BY <1>5
<1> HIDE DEF line
<1>8. /\ entries' \in [Schedules -> Entry] /\ entries'[s] = new
      /\ sent' \in [Schedules -> Nat] /\ sent'[s] = n
      /\ queue' \in [Schedules -> [Kinds -> Nat]] /\ queue'[s] = line
      /\ \A u \in Schedules \ {s} : entries'[u] = entries[u] /\ sent'[u] = sent[u] /\ queue'[u] = queue[u]
  BY <1>2, <1>3, <1>4, <1>6, <1>7 DEF TypeOK
<1>9. TypeOK'
  BY <1>8 DEF TypeOK, SendDue, database
<1>10. Sends(s)
  BY <1>2, <1>3, <1>6, <1>8 DEF SendDue, Sends
<1> QED
  BY <1>9, <1>10

LEMMA PeriodType ==
  ASSUME TypeOK, NextPeriod
  PROVE  TypeOK'
<1>1. period' \in 0..Budget.periods
  BY PeriodsNat DEF TypeOK, NextPeriod
<1>2. sent' \in [Schedules -> Nat] /\ repeats' \in [Schedules -> Nat]
  BY DEF NextPeriod
<1> QED
  BY <1>1, <1>2 DEF TypeOK, NextPeriod, database

-----------------------------------------------------------------------------
(* The workers.                                                            *)

\* A step that gives run r the value new.
Becomes(r, new) ==
  /\ new \in Run /\ runs'[r] = new
  /\ \A q \in RunIds \ {r} : runs'[q] = runs[q]

\* What execute leaves: one message less, and the time of the run in a row that exists.
Executed(s, m) ==
  /\ \A u \in Schedules \ {s} : rows'[u] = rows[u] /\ queue'[u] = queue[u]
  /\ rows'[s].exists = rows[s].exists /\ rows'[s].enabled = rows[s].enabled /\ rows'[s].complete = rows[s].complete
  /\ rows'[s].last = IF m # "bare" /\ rows[s].exists THEN period ELSE rows[s].last
  /\ m # "due" => queue'[s]["due"] = queue[s]["due"]
  /\ runs' = runs \/ \E r \in RunIds : Becomes(r, [of |-> s, status |-> "init", phase |-> "start", left |-> FALSE])
  /\ UNCHANGED <<lastUpdate, time, requests, scheduler, period, budget>>

LEMMA ExecuteType ==
  ASSUME TypeOK, NEW s \in Schedules, NEW m \in Kinds, Execute(s, m)
  PROVE  TypeOK' /\ Executed(s, m)
<1>1. rows[s] \in Row /\ queue[s] \in [Kinds -> Nat] /\ queue[s][m] > 0
  BY DEF TypeOK, Execute
<1> DEFINE line == [queue[s] EXCEPT ![m] = @ - 1]
<1>2. line \in [Kinds -> Nat] /\ (m # "due" => line["due"] = queue[s]["due"])
  BY <1>1 DEF Kinds
<1>3. queue' = [queue EXCEPT ![s] = line]
  BY DEF Execute, TypeOK
<1> HIDE DEF line
<1>4. /\ queue' \in [Schedules -> [Kinds -> Nat]] /\ queue'[s] = line
      /\ \A u \in Schedules \ {s} : queue'[u] = queue[u]
  BY <1>2, <1>3 DEF TypeOK
<1>5. CASE m # "bare" /\ rows[s].exists
  <2> DEFINE row == [rows[s] EXCEPT !.last = period]
             run == [of |-> s, status |-> "init", phase |-> "start", left |-> FALSE]
  <2>1. /\ row \in Row /\ row.exists = rows[s].exists /\ row.enabled = rows[s].enabled
        /\ row.complete = rows[s].complete /\ row.last = period
    <3>1. period \in 0..Never
      BY PeriodsNat DEF TypeOK, Never
    <3> QED
      BY <1>1, <3>1 DEF Row
  <2>2. rows' = [rows EXCEPT ![s] = row]
    BY <1>5 DEF Execute, TypeOK
  <2>3. run \in Run
    BY DEF Run
  <2>4. PICK r \in RunIds : runs' = [runs EXCEPT ![r] = run]
    BY <1>5 DEF Execute, Make
  <2> HIDE DEF row, run
  <2>5. rows' \in [Schedules -> Row] /\ rows'[s] = row /\ \A u \in Schedules \ {s} : rows'[u] = rows[u]
    BY <2>1, <2>2 DEF TypeOK
  <2>6. runs' \in [RunIds -> Run] /\ Becomes(r, run)
    BY <2>3, <2>4 DEF TypeOK, Becomes
  <2>7. TypeOK'
    BY <1>4, <2>5, <2>6 DEF TypeOK, Execute, scheduler
  <2>8. Executed(s, m)
    BY <1>2, <1>4, <1>5, <2>1, <2>5, <2>6 DEF Execute, Executed, run
  <2> QED
    BY <2>7, <2>8
<1>6. CASE ~(m # "bare" /\ rows[s].exists)
  <2>1. rows' = rows /\ runs' = runs
    BY <1>6 DEF Execute
  <2> QED
    BY <1>2, <1>4, <1>6, <2>1 DEF TypeOK, Execute, scheduler, Executed
<1> QED
  BY <1>5, <1>6

\* The steps of one run.
RunStep(r) ==
  \/ StartRun(r) \/ CheckOverlap(r) \/ CloseEarly(r) \/ FinishRun(r)
  \/ PauseWorkflow(r) \/ ResumeWorkflow(r)

LEMMA RunFrame ==
  ASSUME NEW r \in RunIds, RunStep(r)
  PROVE  UNCHANGED <<database, scheduler, queue, period>>
BY DEF RunStep, StartRun, CheckOverlap, CloseEarly, FinishRun, PauseWorkflow, ResumeWorkflow

\* What a step does to its run, and to no other.
LEMMA RunStepBecomes ==
  ASSUME TypeOK, NEW r \in RunIds, RunStep(r)
  PROVE  \E new \in Run :
           /\ Becomes(r, new) /\ runs' \in [RunIds -> Run]
           /\ \/ new = NoRun
              \/ new.phase = "check" /\ new.status = "progress"
              \/ /\ runs[r].phase = "check" /\ new.of = runs[r].of /\ new.status = runs[r].status
                 /\ new.left = runs[r].left /\ new.phase \in {"work", "withdraw"}
                 /\ new.phase = "work" => ~IsWorkflowAlreadyRunning(r)
              \/ /\ new.of = runs[r].of /\ new.phase = runs[r].phase
                 /\ runs[r].left => new.left
                 /\ new.left \/ new.status = "progress"
<1>1. runs[r] \in Run
  BY DEF TypeOK
<1> USE <1>1
<1>2. ASSUME NEW new \in Run, runs' = [runs EXCEPT ![r] = new]
      PROVE  Becomes(r, new) /\ runs' \in [RunIds -> Run]
  BY <1>2 DEF TypeOK, Becomes
<1>3. CASE StartRun(r)
  <2> DEFINE new == [runs[r] EXCEPT !.status = "progress", !.phase = "check", !.left = FALSE]
  <2>1. new \in Run /\ new.phase = "check" /\ new.status = "progress"
    BY DEF Run
  <2>2. runs' = [runs EXCEPT ![r] = new]
    BY <1>3 DEF StartRun, TypeOK
  <2> HIDE DEF new
  <2> QED BY <1>2, <2>1, <2>2
<1>4. CASE CheckOverlap(r)
  <2>1. PICK phase \in {"work", "withdraw"} :
          runs' = [runs EXCEPT ![r].phase = phase] /\ (phase = "work" => ~IsWorkflowAlreadyRunning(r))
    BY <1>4 DEF CheckOverlap
  <2> DEFINE new == [runs[r] EXCEPT !.phase = phase]
  <2>2. /\ new \in Run /\ new.of = runs[r].of /\ new.status = runs[r].status
        /\ new.left = runs[r].left /\ new.phase = phase
    BY DEF Run
  <2>3. runs' = [runs EXCEPT ![r] = new] /\ runs[r].phase = "check"
    BY <1>4, <2>1 DEF CheckOverlap, TypeOK
  <2> HIDE DEF new
  <2> QED BY <1>2, <2>1, <2>2, <2>3
<1>5. CASE FinishRun(r)
  BY <1>2, <1>5, Literals DEF FinishRun
<1>6. ASSUME NEW status \in {"wait", "over"},
             runs' = [runs EXCEPT ![r] = [@ EXCEPT !.status = status, !.left = TRUE]]
      PROVE  \E new \in Run :
               /\ Becomes(r, new) /\ runs' \in [RunIds -> Run]
               /\ new.of = runs[r].of /\ new.phase = runs[r].phase /\ new.left
  <2> DEFINE new == [runs[r] EXCEPT !.status = status, !.left = TRUE]
  <2>1. new \in Run /\ new.of = runs[r].of /\ new.phase = runs[r].phase /\ new.left
    BY DEF Run
  <2>2. runs' = [runs EXCEPT ![r] = new]
    BY <1>6 DEF TypeOK
  <2> HIDE DEF new
  <2> QED BY <1>2, <2>1, <2>2
<1>7. CASE PauseWorkflow(r)
  BY <1>6, <1>7 DEF PauseWorkflow
<1>8. CASE CloseEarly(r)
  BY <1>6, <1>8 DEF CloseEarly
<1>9. CASE ResumeWorkflow(r)
  <2> DEFINE new == [runs[r] EXCEPT !.status = "progress"]
  <2>1. /\ new \in Run /\ new.of = runs[r].of /\ new.phase = runs[r].phase
        /\ new.status = "progress" /\ new.left = runs[r].left
    BY DEF Run
  <2>2. runs' = [runs EXCEPT ![r] = new]
    BY <1>9 DEF ResumeWorkflow, TypeOK
  <2> HIDE DEF new
  <2> QED BY <1>2, <2>1, <2>2
<1> QED
  BY <1>3, <1>4, <1>5, <1>7, <1>8, <1>9 DEF RunStep

LEMMA RunStepType ==
  ASSUME TypeOK, NEW r \in RunIds, RunStep(r)
  PROVE  TypeOK'
<1>1. runs' \in [RunIds -> Run]
  BY RunStepBecomes
<1>2. budget' \in [requests : Nat, periods : Nat, faults : Nat, sends : Nat]
  <2>1. budget' = budget \/ (budget.faults > 0 /\ budget' = [budget EXCEPT !.faults = budget.faults - 1])
    BY DEF RunStep, StartRun, CheckOverlap, CloseEarly, FinishRun, PauseWorkflow, ResumeWorkflow
  <2> QED
    BY <2>1 DEF TypeOK
<1>3. UNCHANGED <<database, scheduler, queue, period>>
  BY RunFrame
<1> QED
  BY <1>1, <1>2, <1>3 DEF TypeOK, database, scheduler

-----------------------------------------------------------------------------
(* Type correctness, with the timestamps under way.                        *)

\* The next-state relation as the requests that save, the commit of a timestamp, and
\* the steps that touch no request.
LEMMA Cases ==
  ASSUME TypeOK, StampInv, [Next]_vars
  PROVE  /\ TypeOK'
         /\ \/ \E t \in Threads, s \in Schedules, row \in Row : Saves(t, s, row)
            \/ \E t \in Threads : Commits(t) \/ Moves(t)
            \/ ScheduleChanged
            \/ Read /\ lastSeen' \in {lastSeen, 0} /\ UNCHANGED <<database, sent, queue, period, runs>>
            \/ \E s \in Schedules : Sends(s)
            \/ \E s \in Schedules, m \in Kinds : Executed(s, m) /\ (m = "due" => queue[s]["due"] > 0)
            \/ NextPeriod
            \/ /\ UNCHANGED <<database, scheduler, period>>
               /\ \A u \in Schedules : queue'[u]["due"] = queue[u]["due"]
               /\ UNCHANGED runs \/ \E r \in RunIds : RunStep(r)
<1>1. CASE UNCHANGED vars
  BY <1>1 DEF vars, TypeOK, database, scheduler
<1>2. CASE Request
  <2>1. PICK t \in Threads :
          \/ CommitStamp(t) \/ SaveKwargs(t) \/ DeleteSchedule(t)
          \/ \E b \in BOOLEAN : SaveSchedule(t, b)
          \/ \E s \in Schedules : CreateSchedule(t, s) \/ ReadSchedule(t, s) \/ RunManual(t, s)
    BY <1>2 DEF Request
  <2>2. CASE CommitStamp(t)
    BY <2>2, CommitStampCommits
  <2>3. CASE SaveKwargs(t)
    BY <2>3, KwargsSaves
  <2>4. CASE DeleteSchedule(t)
    BY <2>4, DeleteSaves
  <2>5. CASE \E b \in BOOLEAN : SaveSchedule(t, b)
    BY <2>5, SaveSaves
  <2>6. CASE \E s \in Schedules : CreateSchedule(t, s)
    BY <2>6, CreateSaves
  <2>7. CASE \E s \in Schedules : ReadSchedule(t, s)
    BY <2>7, ReadMoves
  <2>8. CASE \E s \in Schedules : RunManual(t, s)
    BY <2>8, ManualType
  <2> QED
    BY <2>1, <2>2, <2>3, <2>4, <2>5, <2>6, <2>7, <2>8
<1>3. CASE Beat
  <2>1. CASE ScheduleChanged
    BY <2>1, PollType
  <2>2. CASE ReadSchedules \/ FullSync \/ RestartBeat
    BY <2>2, RestartType
  <2>3. CASE \E s \in Schedules : SendDue(s)
    BY <2>3, SendDueSends
  <2> QED
    BY <1>3, <2>1, <2>2, <2>3 DEF Beat
<1>4. CASE Work
  <2>1. ASSUME NEW s \in Schedules, NEW m \in Kinds, Execute(s, m)
        PROVE  TypeOK' /\ Executed(s, m) /\ (m = "due" => queue[s]["due"] > 0)
    BY <2>1, ExecuteType DEF Execute
  <2>2. CASE \E s \in Schedules, m \in Kinds : Execute(s, m)
    BY <2>1, <2>2
  <2>3. CASE \E r \in RunIds : RunStep(r)
    BY <2>3, RunStepType, RunFrame
  <2> QED
    BY <1>4, <2>2, <2>3 DEF Work, RunStep
<1>5. CASE NextPeriod
  BY <1>5, PeriodType
<1> QED
  BY <1>1, <1>2, <1>3, <1>4, <1>5 DEF Next

LEMMA StampStep ==
  ASSUME TypeOK, StampInv, [Next]_vars
  PROVE  StampInv'
<1>1. ASSUME NEW t \in Threads, NEW s \in Schedules, NEW row \in Row, Saves(t, s, row)
      PROVE  StampInv'
  <2>1. lastSeen' = lastSeen /\ lastUpdate' = lastUpdate /\ time' = time + 1
    BY <1>1 DEF Saves
  <2>2. time \in Nat /\ lastSeen < time /\ lastSeen \in Nat /\ \A a \in Schemas : lastUpdate[a] < time /\ lastUpdate[a] \in Nat
    BY DEF TypeOK
  <2>3. \A u \in Threads : requests[u].stamp \in Nat
    BY DEF TypeOK, Save
  <2> QED
    BY <1>1, <2>1, <2>2, <2>3 DEF StampInv, Saves
<1>0. ASSUME NEW t \in Threads, Moves(t)
      PROVE  StampInv'
  BY <1>0 DEF StampInv, Moves, scheduler
<1>2. ASSUME NEW t \in Threads, Commits(t)
      PROVE  StampInv'
  <2>1. \A a \in Schemas : lastUpdate'[a] \in {lastUpdate[a], requests[t].stamp}
    BY <1>2 DEF Commits, TypeOK
  <2> QED
    BY <1>2, <2>1 DEF StampInv, Commits
<1>3. ASSUME requests' = requests, lastUpdate' = lastUpdate, time' = time,
             lastSeen' \in {lastSeen, 0, NewestChange}
      PROVE  StampInv'
  BY <1>3, NewestIsMax DEF StampInv
<1>4. CASE ScheduleChanged
  BY <1>3, <1>4 DEF ScheduleChanged, database
<1>5. CASE Read /\ lastSeen' \in {lastSeen, 0} /\ UNCHANGED <<database, sent, queue, period, runs>>
  BY <1>3, <1>5 DEF database
<1>6. ASSUME NEW s \in Schedules, Sends(s)
      PROVE  StampInv'
  BY <1>3, <1>6 DEF Sends, database
<1>7. ASSUME NEW s \in Schedules, NEW m \in Kinds, Executed(s, m)
      PROVE  StampInv'
  BY <1>3, <1>7 DEF Executed, scheduler
<1>8. CASE NextPeriod
  BY <1>3, <1>8 DEF NextPeriod, database
<1>9. CASE UNCHANGED <<database, scheduler, period>>
  BY <1>3, <1>9 DEF database, scheduler
<1> QED
  BY <1>0, <1>1, <1>2, <1>4, <1>5, <1>6, <1>7, <1>8, <1>9, Cases

LEMMA InitType == Init => TypeOK /\ StampInv
<1> SUFFICES ASSUME Init PROVE TypeOK /\ StampInv
  OBVIOUS
<1>1. rows \in [Schedules -> Row]
  BY Literals, PeriodsNat DEF Init, Row
<1>2. period = 0 /\ period \in 0..Budget.periods
  BY PeriodsNat DEF Init
<1>3. \A s \in Schedules : AllAsSchedule(s) \in Entry
  BY <1>1, <1>2, PeriodsNat, Literals DEF AllAsSchedule, Row, Entry, Never
<1>4. entries \in [Schedules -> Entry]
  BY <1>3 DEF Init
<1>5. requests \in [Threads -> Save] /\ runs \in [RunIds -> Run] /\ \A t \in Threads : requests[t].pc = "idle"
  BY Literals DEF Init, Quiet
<1>6. queue \in [Schedules -> [Kinds -> Nat]] /\ sent \in [Schedules -> Nat] /\ repeats \in [Schedules -> Nat]
  BY DEF Init
<1>7. budget \in [requests : Nat, periods : Nat, faults : Nat, sends : Nat]
  BY SchedulesAssumption DEF Init
<1>8. time = 2 /\ lastSeen = 0 /\ lastUpdate \in [Schemas -> Nat] /\ \A a \in Schemas : lastUpdate[a] < time
  BY DEF Init
<1>9. beat \in {"poll", "read"} /\ missed \in BOOLEAN
  BY DEF Init
<1> QED
  BY <1>1, <1>2, <1>4, <1>5, <1>6, <1>7, <1>8, <1>9 DEF TypeOK, StampInv

\* The rows, beat's entries, the messages and the runs keep their form; every
\* timestamp lies in the past.
THEOREM TypeCorrect == Spec => []TypeOK
<1>1. TypeOK /\ StampInv /\ [Next]_vars => (TypeOK /\ StampInv)'
  BY Cases, StampStep
<1> QED
  BY <1>1, InitType, PTL DEF Spec

-----------------------------------------------------------------------------
(* A schedule is sent once in a period.                                    *)

LEMMA OnceStep ==
  ASSUME TypeOK, StampInv, OnceInv, [Next]_vars
  PROVE  OnceInv'
<1> SUFFICES ASSUME NEW z \in Schedules PROVE SendInv(z)'
  BY DEF OnceInv
<1>0. SendInv(z)
  BY DEF OnceInv
<1>types. /\ sent[z] \in Nat /\ repeats[z] \in Nat /\ queue[z]["due"] \in Nat /\ queue'[z]["due"] \in Nat
          /\ period \in Nat /\ Never \in Nat /\ rows[z].last \in Nat /\ period < Never
  BY Cases, PeriodsNat DEF TypeOK, Kinds, Row, Never
<1>same. ASSUME rows'[z] = rows[z], entries'[z] = entries[z], queue'[z]["due"] = queue[z]["due"],
                UNCHANGED <<sent, repeats, period>>
         PROVE  SendInv(z)'
  BY <1>0, <1>same DEF SendInv, Waits, Due
<1>1. ASSUME NEW t \in Threads, NEW s \in Schedules, NEW row \in Row, Saves(t, s, row)
      PROVE  SendInv(z)'
  <2>1. UNCHANGED <<entries, sent, queue, period>>
    BY <1>1 DEF Saves
  <2>2. CASE z # s
    <3>1. rows'[z] = rows[z] /\ repeats'[z] = repeats[z]
      BY <1>1, <2>2 DEF Saves, TypeOK
    <3> QED
      BY <1>0, <2>1, <3>1 DEF SendInv, Waits, Due
  <2>3. CASE z = s
    <3>1. rows'[z] = row /\ (row.exists \/ row.last = Never)
      BY <1>1, <2>3 DEF Saves, TypeOK
    <3>2. CASE repeats'[z] = repeats[z] /\ row.last \in {rows[z].last, Never}
      <4>1. Waits(z)' => Waits(z)
        BY <1>types, <2>1, <3>1, <3>2 DEF Waits, Due
      <4> QED
        BY <1>0, <2>1, <3>1, <3>2, <4>1 DEF SendInv
    <3>3. CASE repeats'[z] = repeats[z] + 1
      BY <1>0, <1>types, <2>1, <3>1, <3>3 DEF SendInv
    <3> QED
      BY <1>1, <2>3, <3>2, <3>3 DEF Saves
  <2> QED
    BY <2>2, <2>3
<1>2. ASSUME NEW t \in Threads, Commits(t) \/ Moves(t)
      PROVE  SendInv(z)'
  BY <1>same, <1>2 DEF Commits, Moves, scheduler
<1>3. CASE ScheduleChanged
  BY <1>same, <1>3 DEF ScheduleChanged, database
<1>4. CASE Read /\ lastSeen' \in {lastSeen, 0} /\ UNCHANGED <<database, sent, queue, period, runs>>
  <2>1. UNCHANGED <<rows, sent, queue, period>>
    BY <1>4 DEF database
  <2>2. entries'[z] = AllAsSchedule(z) /\ repeats'[z] = IF ReadTooEarly(z) THEN repeats[z] + 1 ELSE repeats[z]
    BY <1>4 DEF Read
  <2>3. Due(AllAsSchedule(z)) => rows[z].last < period
    BY EntryType
  <2>4. Due(entries[z])' <=> Due(AllAsSchedule(z))
    BY <2>1, <2>2 DEF Due
  <2>5. CASE ReadTooEarly(z)
    BY <1>0, <1>types, <2>1, <2>2, <2>5 DEF SendInv
  <2>6. CASE ~ReadTooEarly(z)
    <3>1. Waits(z)' => Waits(z) \/ sent[z] = 0
      BY <1>types, <2>1, <2>3, <2>4, <2>6 DEF Waits, ReadTooEarly
    <3> QED
      BY <1>0, <1>types, <2>1, <2>2, <2>6, <3>1 DEF SendInv
  <2> QED
    BY <2>5, <2>6
<1>5. ASSUME NEW s \in Schedules, Sends(s)
      PROVE  SendInv(z)'
  <2>1. UNCHANGED <<rows, repeats, period>>
    BY <1>5 DEF Sends, database
  <2>2. CASE z # s
    <3>1. entries'[z] = entries[z] /\ sent'[z] = sent[z] /\ queue'[z] = queue[z]
      BY <1>5, <2>2 DEF Sends
    <3> QED
      BY <1>0, <2>1, <3>1 DEF SendInv, Waits, Due
  <2>3. CASE z = s
    <3>1. sent[z] <= repeats[z]
      BY <1>0, <1>5, <2>3 DEF Sends, SendInv, Waits
    <3>2. ~Due(entries[z])'
      BY <1>5, <1>types, <2>1, <2>3 DEF Sends, Due
    <3>3. \/ sent'[z] = sent[z] + 1 /\ queue'[z]["due"] = queue[z]["due"] + 1
          \/ sent'[z] = sent[z]
      BY <1>5, <2>3 DEF Sends
    <3> QED
      BY <1>0, <1>types, <2>1, <3>1, <3>2, <3>3 DEF SendInv, Waits
  <2> QED
    BY <2>2, <2>3
<1>6. ASSUME NEW s \in Schedules, NEW m \in Kinds, Executed(s, m)
      PROVE  SendInv(z)'
  <2>1. UNCHANGED <<entries, sent, repeats, period>>
    BY <1>6 DEF Executed, scheduler
  <2>2. CASE z # s
    <3>1. rows'[z] = rows[z] /\ queue'[z] = queue[z]
      BY <1>6, <2>2 DEF Executed
    <3> QED
      BY <1>same, <2>1, <3>1
  <2>3. CASE z = s
    <3>1. /\ rows'[z].exists = rows[z].exists
          /\ rows'[z].last = IF m # "bare" /\ rows[z].exists THEN period ELSE rows[z].last
          /\ m # "due" => queue'[z]["due"] = queue[z]["due"]
      BY <1>6, <2>3 DEF Executed
    <3>2. Waits(z)' => Waits(z)
      BY <1>0, <1>types, <2>1, <3>1 DEF SendInv, Waits, Due
    <3> QED
      BY <1>0, <2>1, <3>1, <3>2 DEF SendInv
  <2> QED
    BY <2>2, <2>3
<1>7. CASE NextPeriod
  <2>1. sent'[z] = 0 /\ repeats'[z] = 0 /\ rows' = rows
    BY <1>7 DEF NextPeriod, database
  <2> QED
    BY <1>0, <2>1 DEF SendInv
<1>8. CASE /\ UNCHANGED <<database, scheduler, period>>
           /\ \A u \in Schedules : queue'[u]["due"] = queue[u]["due"]
  BY <1>same, <1>8 DEF database, scheduler
<1> QED
  BY <1>1, <1>2, <1>3, <1>4, <1>5, <1>6, <1>7, <1>8, Cases

\* Beat sends a schedule once in a period, although it never saves the time of the last
\* run itself (execute does): every further message is paid for by a read of the row
\* before a worker had taken the message, or by an edit that put back an old last_run_at.
THEOREM OncePerPeriodHolds == Spec => []OncePerPeriod
<1>1. Init => OnceInv
  BY Literals DEF Init, OnceInv, SendInv
<1>2. TypeOK /\ StampInv /\ OnceInv /\ [Next]_vars => (TypeOK /\ StampInv /\ OnceInv)'
  BY Cases, StampStep, OnceStep
<1>3. OnceInv => OncePerPeriod
  BY DEF OnceInv, SendInv, OncePerPeriod
<1> QED
  BY <1>1, <1>2, <1>3, InitType, PTL DEF Spec

-----------------------------------------------------------------------------
(* Polling is enough.                                                      *)

\* A request that is not the one making a step stays under way.
LEMMA OthersPending ==
  ASSUME NEW t \in Threads, NEW z \in Schedules, \A u \in Threads \ {t} : requests'[u] = requests[u]
  PROVE  /\ Pending(z) /\ ~(requests[t].pc = "commit" /\ requests[t].of = z) => Pending(z)'
         /\ Unfinished(z) /\ ~(requests[t].pc # "idle" /\ requests[t].of = z) => Unfinished(z)'
BY DEF Pending, Unfinished

LEMMA ChangeStep ==
  ASSUME TypeOK, StampInv, ChangeInv, [Next]_vars
  PROVE  ChangeInv'
<1> DEFINE Newer == \E a \in Schemas : lastUpdate[a] > lastSeen /\ lastUpdate[a] > 1
           Goal(z) == /\ rows'[z].exists /\ ~rows'[z].complete => Unfinished(z)'
                      /\ \/ Agree(z)' \/ Pending(z)' \/ beat' = "read" \/ missed' \/ Newer'
                         \/ rows'[z].exists /\ ~rows'[z].complete
<1> SUFFICES ASSUME NEW z \in Schedules PROVE Goal(z)
  BY DEF ChangeInv
<1>0. /\ rows[z].exists /\ ~rows[z].complete => Unfinished(z)
      /\ \/ Agree(z) \/ Pending(z) \/ beat = "read" \/ missed \/ Newer
         \/ rows[z].exists /\ ~rows[z].complete
  BY DEF ChangeInv
<1>1. ASSUME NEW t \in Threads, NEW s \in Schedules, NEW row \in Row, Saves(t, s, row)
      PROVE  Goal(z)
  <2>1. CASE z = s
    <3>1. rows'[z] = row /\ requests'[t].pc = "commit" /\ requests'[t].of = z
      BY <1>1, <2>1 DEF Saves, TypeOK
    <3>2. Pending(z)'
      BY <3>1 DEF Pending
    <3>3. rows'[z].exists /\ ~rows'[z].complete => Unfinished(z)'
      BY <1>1, <3>1 DEF Saves, Unfinished
    <3> QED
      BY <3>2, <3>3
  <2>2. CASE z # s
    <3>1. rows'[z] = rows[z] /\ UNCHANGED <<entries, beat, missed, lastSeen, lastUpdate>>
      BY <1>1, <2>2 DEF Saves, TypeOK
    <3>2. (Pending(z) => Pending(z)') /\ (Unfinished(z) => Unfinished(z)')
      BY <1>1, <2>2, OthersPending DEF Saves
    <3> QED
      BY <1>0, <3>1, <3>2 DEF Agree
  <2> QED
    BY <2>1, <2>2
<1>10. ASSUME NEW t \in Threads, Moves(t)
      PROVE  Goal(z)
  <2>1. UNCHANGED <<rows, entries, beat, missed, lastSeen, lastUpdate>>
    BY <1>10 DEF Moves, scheduler
  <2>2. Pending(z) => Pending(z)'
    BY <1>10 DEF Moves, Pending
  <2>3. rows[z].exists /\ Unfinished(z) => Unfinished(z)'
    BY <1>10 DEF Moves, Unfinished
  <2> QED
    BY <1>0, <2>1, <2>2, <2>3 DEF Agree
<1>2. ASSUME NEW t \in Threads, Commits(t)
      PROVE  Goal(z)
  <2> DEFINE stamp == requests[t].stamp
             a0 == SchemaOf(requests[t].of)
  <2>1. UNCHANGED <<rows, entries, beat, lastSeen>>
    BY <1>2 DEF Commits
  <2>2. a0 \in Schemas /\ lastUpdate'[a0] = stamp /\ \A a \in Schemas \ {a0} : lastUpdate'[a] = lastUpdate[a]
    BY <1>2 DEF Commits, TypeOK, Schedules, SchemaOf
  <2>3. stamp > 1 /\ stamp # lastSeen /\ stamp \in Nat /\ lastSeen \in Nat
    BY <1>2 DEF Commits, StampInv, TypeOK, Save
  <2>4. missed' \/ Newer'
    <3>1. CASE stamp < lastSeen
      BY <1>2, <3>1 DEF Commits
    <3>2. CASE stamp > lastSeen
      BY <2>1, <2>2, <2>3, <3>2
    <3> QED
      BY <2>3, <3>1, <3>2
  <2>5. Unfinished(z) => Unfinished(z)'
    <3>1. CASE requests[t].of = z /\ requests[t].creating
      BY <1>2, <3>1 DEF Commits, Unfinished
    <3>2. CASE ~(requests[t].of = z /\ requests[t].creating)
      BY <1>2, <3>2 DEF Commits, Unfinished
    <3> QED
      BY <3>1, <3>2
  <2> QED
    BY <1>0, <2>1, <2>4, <2>5
<1>3. CASE ScheduleChanged
  <2>1. UNCHANGED <<rows, requests, lastUpdate, entries>> /\ beat = "poll"
    BY <1>3 DEF ScheduleChanged, database
  <2>2. (Pending(z) <=> Pending(z)') /\ (Unfinished(z) <=> Unfinished(z)') /\ (Agree(z) <=> Agree(z)')
    BY <2>1 DEF Pending, Unfinished, Agree
  <2>3. Newer => beat' = "read" \/ missed'
    <3> SUFFICES ASSUME Newer PROVE beat' = "read" \/ missed'
      OBVIOUS
    <3>1. PICK a \in Schemas : lastUpdate[a] > lastSeen /\ lastUpdate[a] > 1
      OBVIOUS
    <3>2. lastUpdate[a] \in Nat /\ lastSeen \in Nat /\ NewestChange \in Nat /\ lastUpdate[a] <= NewestChange
      BY NewestIsMax DEF TypeOK
    <3>3. NewestChange > lastSeen /\ NewestChange > 1
      BY <3>1, <3>2
    <3> QED
      BY <1>3, <3>3 DEF ScheduleChanged
  <2>4. missed => missed'
    BY <1>3 DEF ScheduleChanged
  <2> QED
    BY <1>0, <2>1, <2>2, <2>3, <2>4
<1>4. CASE Read /\ lastSeen' \in {lastSeen, 0} /\ UNCHANGED <<database, sent, queue, period, runs>>
  <2>1. UNCHANGED <<rows, requests>> /\ entries'[z] = AllAsSchedule(z)
    BY <1>4 DEF Read, database
  <2>2. (Pending(z) <=> Pending(z)') /\ (Unfinished(z) <=> Unfinished(z)')
    BY <2>1 DEF Pending, Unfinished
  <2>4. /\ AllAsSchedule(z).known = (rows[z].exists /\ rows[z].enabled)
        /\ AllAsSchedule(z).known => AllAsSchedule(z).complete = rows[z].complete
    BY EntryType
  <2>5. (rows[z].exists /\ ~rows[z].complete) \/ Agree(z)'
    BY <2>1, <2>4, Zenon DEF Agree
  <2> QED
    BY <1>0, <2>1, <2>2, <2>5
<1>5. ASSUME UNCHANGED <<requests, lastUpdate, lastSeen, beat, missed>>,
             /\ rows'[z].exists = rows[z].exists /\ rows'[z].enabled = rows[z].enabled
             /\ rows'[z].complete = rows[z].complete,
             entries'[z].known = entries[z].known /\ entries'[z].complete = entries[z].complete
      PROVE  Goal(z)
  <2>1. (Pending(z) <=> Pending(z)') /\ (Unfinished(z) <=> Unfinished(z)') /\ (Agree(z) <=> Agree(z)')
    BY <1>5 DEF Pending, Unfinished, Agree
  <2> QED
    BY <1>0, <1>5, <2>1
<1> HIDE DEF Goal, Newer
<1>6. ASSUME NEW s \in Schedules, Sends(s)
      PROVE  Goal(z)
  BY <1>5, <1>6 DEF Sends, database
<1>7. ASSUME NEW s \in Schedules, NEW m \in Kinds, Executed(s, m)
      PROVE  Goal(z)
  BY <1>5, <1>7 DEF Executed, scheduler
<1>8. CASE NextPeriod
  BY <1>5, <1>8 DEF NextPeriod, database
<1>9. CASE UNCHANGED <<database, scheduler, period>>
  BY <1>5, <1>9 DEF database, scheduler
<1> QED
  BY <1>1, <1>2, <1>3, <1>4, <1>6, <1>7, <1>8, <1>9, <1>10, Cases

LEMMA InitChange == Init => ChangeInv
<1> SUFFICES ASSUME Init, NEW s \in Schedules
             PROVE  (rows[s].exists => rows[s].complete) /\ Agree(s)
  BY DEF ChangeInv
<1>1. TypeOK
  BY InitType
<1>2. rows[s].exists => rows[s].complete
  BY DEF Init, NoRow
<1>3. entries[s] = AllAsSchedule(s)
  BY DEF Init
<1>4. /\ AllAsSchedule(s).known = (rows[s].exists /\ rows[s].enabled)
      /\ AllAsSchedule(s).known => AllAsSchedule(s).complete = rows[s].complete
  BY <1>1, EntryType
<1>5. Agree(s)
  BY <1>2, <1>3, <1>4, Zenon DEF Agree
<1> QED
  BY <1>2, <1>5

\* Polling one number per schema is enough: when every save is over and beat has seen
\* the newest timestamp, it holds exactly the enabled schedules of all schemas, unless a
\* timestamp was committed late or beat had just started (schedule_changed).
THEOREM PollSufficesHolds == Spec => []PollSuffices
<1>1. TypeOK /\ StampInv /\ ChangeInv /\ [Next]_vars => (TypeOK /\ StampInv /\ ChangeInv)'
  BY Cases, StampStep, ChangeStep
<1>2. ASSUME TypeOK, ChangeInv PROVE PollSuffices
  <2> SUFFICES ASSUME beat = "poll", lastSeen = NewestChange, ~missed,
                      \A t \in Threads : requests[t] = Quiet,
                      NEW s \in Schedules
               PROVE  Agree(s)
    BY DEF PollSuffices, Agree
  <2>1. ~Pending(s) /\ ~Unfinished(s)
    BY DEF Pending, Unfinished, Quiet
  <2>2. ~\E a \in Schemas : lastUpdate[a] > lastSeen /\ lastUpdate[a] > 1
    <3>1. \A a \in Schemas : lastUpdate[a] \in Nat /\ lastUpdate[a] <= lastSeen /\ lastSeen \in Nat
      BY <1>2, NewestIsMax DEF TypeOK
    <3> QED
      BY <3>1
  <2> QED
    BY <1>2, <2>1, <2>2 DEF ChangeInv
<1> QED
  BY <1>1, <1>2, InitType, InitChange, PTL DEF Spec

-----------------------------------------------------------------------------
(* Runs do not overlap.                                                    *)

LEMMA OverlapStep ==
  ASSUME TypeOK, StampInv, OverlapInv, [Next]_vars
  PROVE  OverlapInv'
<1>1. CASE runs' = runs
  BY <1>1 DEF OverlapInv, NoOverlap, RunInv
<1>2. ASSUME NEW r \in RunIds, NEW new \in Run, Becomes(r, new),
             new.phase \in {"none", "start"} \/ (new.phase = "check" /\ new.status = "progress")
      PROVE  OverlapInv'
  BY <1>2 DEF OverlapInv, NoOverlap, RunInv, Becomes
<1>3. ASSUME NEW s \in Schedules, NEW m \in Kinds, Executed(s, m)
      PROVE  OverlapInv'
  <2> DEFINE new == [of |-> s, status |-> "init", phase |-> "start", left |-> FALSE]
  <2>1. new \in Run /\ new.phase = "start" /\ new.status = "init"
    BY DEF Run
  <2>2. runs' = runs \/ \E r \in RunIds : Becomes(r, new)
    BY <1>3 DEF Executed
  <2> HIDE DEF new
  <2> QED
    BY <1>1, <1>2, <2>1, <2>2
<1>4. ASSUME NEW r \in RunIds, RunStep(r)
      PROVE  OverlapInv'
  <2>1. PICK new \in Run :
          /\ Becomes(r, new)
          /\ \/ new = NoRun
             \/ new.phase = "check" /\ new.status = "progress"
             \/ /\ runs[r].phase = "check" /\ new.of = runs[r].of /\ new.status = runs[r].status
                /\ new.left = runs[r].left /\ new.phase \in {"work", "withdraw"}
                /\ new.phase = "work" => ~IsWorkflowAlreadyRunning(r)
             \/ /\ new.of = runs[r].of /\ new.phase = runs[r].phase
                /\ runs[r].left => new.left
                /\ new.left \/ new.status = "progress"
    BY <1>4, RunStepBecomes
  <2>2. CASE new = NoRun \/ (new.phase = "check" /\ new.status = "progress")
    BY <1>2, <2>1, <2>2 DEF NoRun
  <2>3. CASE /\ runs[r].phase = "check" /\ new.of = runs[r].of /\ new.status = runs[r].status
             /\ new.left = runs[r].left /\ new.phase \in {"work", "withdraw"}
             /\ new.phase = "work" => ~IsWorkflowAlreadyRunning(r)
    <3>1. \A q \in RunIds \ {r} : runs[q].of = runs[r].of /\ runs[q].phase = "work" /\ new.phase = "work" => runs[q].left
      BY <2>3 DEF OverlapInv, RunInv, IsWorkflowAlreadyRunning
    <3>2. \A q \in RunIds : RunInv(q)'
      BY <2>1, <2>3 DEF OverlapInv, RunInv, Becomes
    <3>3. NoOverlap'
      BY <2>1, <2>3, <3>1 DEF OverlapInv, NoOverlap, Becomes
    <3> QED
      BY <3>2, <3>3 DEF OverlapInv
  <2>4. CASE /\ new.of = runs[r].of /\ new.phase = runs[r].phase
             /\ runs[r].left => new.left
             /\ new.left \/ new.status = "progress"
    <3>1. \A q \in RunIds : RunInv(q)'
      BY <2>1, <2>4 DEF OverlapInv, RunInv, Becomes
    <3>2. NoOverlap'
      BY <2>1, <2>4 DEF OverlapInv, NoOverlap, Becomes
    <3> QED
      BY <3>1, <3>2 DEF OverlapInv
  <2> QED
    BY <2>1, <2>2, <2>3, <2>4
<1>5. ASSUME NEW t \in Threads, NEW s \in Schedules, NEW row \in Row, Saves(t, s, row)
      PROVE  OverlapInv'
  BY <1>1, <1>5 DEF Saves
<1>6. ASSUME NEW t \in Threads, Commits(t) \/ Moves(t)
      PROVE  OverlapInv'
  BY <1>1, <1>6 DEF Commits, Moves
<1>7. ASSUME NEW s \in Schedules, Sends(s)
      PROVE  OverlapInv'
  BY <1>1, <1>7 DEF Sends
<1>8. CASE ScheduleChanged \/ NextPeriod
  BY <1>1, <1>8 DEF ScheduleChanged, NextPeriod
<1> QED
  BY <1>1, <1>3, <1>4, <1>5, <1>6, <1>7, <1>8, Cases

\* Two runs of one workflow are never both past the check while both rows have said
\* "progress" since their start, however starts, checks, pauses, early ends and resumes
\* interleave (BaseTask.is_workflow_already_running).
THEOREM NoOverlapHolds == Spec => []NoOverlap
<1>1. Init => OverlapInv
  BY DEF Init, OverlapInv, NoOverlap, RunInv, NoRun
<1>2. TypeOK /\ StampInv /\ OverlapInv /\ [Next]_vars => (TypeOK /\ StampInv /\ OverlapInv)'
  BY Cases, StampStep, OverlapStep
<1>3. OverlapInv => NoOverlap
  BY DEF OverlapInv
<1> QED
  BY <1>1, <1>2, <1>3, InitType, PTL DEF Spec
=============================================================================
