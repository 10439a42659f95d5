-------------------------- MODULE DefinitionsProofs --------------------------
(* Theorems about Definitions for any number of workflows, web threads,    *)
(* workers, edits, uploads and faults.                                     *)
EXTENDS Definitions, TLAPS

DefFile(f) == <<f, "definition">>
CodeFile(f) == <<f, "code">>

\* Every change of a version takes one from the budget.
BoundInv ==
  \A f \in Flows :
    /\ template[f] + budget.changes <= MaxVersion
    /\ remote[CodeFile(f)].version + budget.changes <= MaxVersion

\* What the place a thread has reached says of its operation.
Shape(op) ==
  /\ op.kind \in {"edit", "launch", "step"} => op.flow \in Flows
  /\ op.kind = "refresh" => op.flow = None
  /\ op.kind = "edit" => op.pc \in {"delete", "put"}
  /\ op.pc \in {"delete", "put"} => op.kind = "edit" /\ op.held[1] = DefFile(op.flow)
  /\ op.pc # "idle" => op.kind # "none"
  /\ op.pc \in {"lookup", "build", "notfound"} => op.kind # "refresh"
  /\ op.pc = "refreshed" => op.kind = "refresh"
  /\ op.pc \in {"import", "call", "ran"} \/ op.then = "import" => op.kind = "step"
  /\ op.pc \in {"remove", "copy", "write"} => op.todo \subseteq Files
  /\ op.pc = "remove" => \A x \in op.todo : x[1] \in op.scope
  /\ op.pc \in {"load", "enter"} => op.todo \subseteq Flows
  /\ op.pc = "write" => op.held[1] \in Files
  /\ op.pc = "enter" => op.held[1] \in Flows \X {"definition"} /\ op.held[2] # 0

\* Workers run the steps, web threads serve the refreshes.
Placed(t, op) ==
  (op.kind = "step" => t \in Workers) /\ (op.kind = "refresh" => t \in WebThreads)

ShapeInv == \A t \in Threads : Shape(ops[t]) /\ Placed(t, ops[t])

\* The version of file x in the directory once the write under way is done, and of
\* workflow f in the dictionary once the entry under way is made.
Arriving(op, directory, x) == IF op.pc = "write" /\ op.held[1] = x THEN op.held[2] ELSE directory[x]
Entering(op, dictionary, f) == IF op.pc = "enter" /\ op.held[1] = DefFile(f) THEN op.held[2] ELSE dictionary[f]

\* The two errors that let a step meet an old file: the directory stayed, and the copy failed.
Missed(op) == op.stuck /\ CodeFile(op.flow) \in op.logged

\* A version that cannot be imported, or is no older than s.
Safe(v, s) == v = 0 \/ v >= s

\* The code of a step on its way from the storage to the call: still to be copied, in
\* the hand of the copy, in the directory, registered. Nothing is registered before, and
\* nothing old is left once the directory was removed.
CodeOK(op, function, directory) ==
  LET x == CodeFile(op.flow) IN
  op.kind = "step" =>
    /\ op.pc \notin Resting \union {"call"} => function = NoFunction
    /\ op.pc \in {"copy", "write"} /\ op.then = "import" /\ ~op.stuck =>
         Safe(directory[x], op.seen[x]) /\ Safe(Arriving(op, directory, x), op.seen[x])
    /\ op.pc \in {"remove", "copy", "write"} /\ op.then = "import" /\ ~Missed(op) =>
         x \in op.todo \/ Safe(Arriving(op, directory, x), op.seen[x])
    /\ op.pc = "import" /\ ~Missed(op) => Safe(directory[x], op.seen[x])
    /\ op.pc = "call" => function = NoFunction \/ (function[1] = op.flow /\ (~Missed(op) => function[2] >= op.seen[x]))
    /\ op.pc = "ran" => op.used[1] = op.flow /\ (~Missed(op) => op.used[2] >= op.seen[x])

CodeInv(w) == CodeOK(ops[w], registered[w], local[w])

\* What was in the storage stays there, uploads apart.
RemoteCodeInv ==
  \A t \in Threads, f \in Flows : Opened(remote[CodeFile(f)]) >= ops[t].seen[CodeFile(f)]

\* Nobody disturbed the operation at its work on f, and it logged no error with f's definition.
Clear(op, f) == f \in About(op) /\ f \notin op.disturbed /\ DefFile(f) \notin op.logged

\* A definition on its way from the storage to the dictionary.
DefOK(op, storage, directory, dictionary) ==
  \A f \in Flows : Clear(op, f) =>
    /\ op.pc = "lookup" \/ (op.pc \in {"remove", "copy", "write"} /\ op.then = "load") =>
         Opened(storage[DefFile(f)]) >= op.seen[DefFile(f)]
    /\ op.pc = "remove" /\ op.then = "load" => DefFile(f) \in op.todo
    /\ op.pc \in {"copy", "write"} /\ op.then = "load" =>
         DefFile(f) \in op.todo \/ Arriving(op, directory, DefFile(f)) >= op.seen[DefFile(f)]
    /\ op.pc \in {"load", "enter"} =>
         /\ directory[DefFile(f)] >= op.seen[DefFile(f)]
         /\ f \in op.todo \/ Entering(op, dictionary, f) >= op.seen[DefFile(f)]
    /\ op.pc = "refreshed" => dictionary[f] >= op.seen[DefFile(f)]
    /\ op.pc = "notfound" => op.seen[DefFile(f)] = 0

DefInv(t) == DefOK(ops[t], remote, local[HostOf(t)], Known(t))

\* Unless its last save failed, was cut short or overlapped another: a template has one
\* editor at most, who holds the version of the row; without one, the file has it.
EditOK(f) ==
  ~torn[f] =>
    /\ \A t, u \in Editing(f) : t = u
    /\ \A t \in Editing(f) : ops[t].held[2] = template[f]
    /\ Editing(f) = {} => Opened(remote[DefFile(f)]) = template[f]

EditInv == \A f \in Flows : EditOK(f)

StepsInv == (\A w \in Workers : CodeInv(w)) /\ RemoteCodeInv
LoadInv == \A t \in Threads : DefInv(t)

Inv == TypeOK /\ BoundInv /\ ShapeInv /\ StepsInv /\ LoadInv

-----------------------------------------------------------------------------
(* The values an operation goes through.                                   *)

LEMMA VersionFacts == 0 \in Versions /\ 1 \in Versions /\ MaxVersion \in Nat /\ Versions \subseteq Nat
BY DefinitionsAssumption DEF Versions, MaxVersion

LEMMA FileFacts ==
  ASSUME NEW f \in Flows
  PROVE  /\ DefFile(f) \in Files /\ CodeFile(f) \in Files /\ DefFile(f) # CodeFile(f)
         /\ DefFile(f)[1] = f /\ CodeFile(f)[1] = f
         /\ \A g \in Flows : DefFile(g) # CodeFile(f) /\ (DefFile(g) = DefFile(f) => f = g) /\ (CodeFile(g) = CodeFile(f) => f = g)
BY DEF DefFile, CodeFile, Files

LEMMA ThreadFacts ==
  ASSUME NEW t \in Threads
  PROVE  /\ HostOf(t) \in Hosts
         /\ t \in Workers => HostOf(t) = t /\ t # Web /\ t \notin WebThreads
         /\ t \in WebThreads => HostOf(t) = Web /\ t \notin Workers
         /\ \A u \in Workers \ {t} : HostOf(u) # HostOf(t)
BY DefinitionsAssumption DEF HostOf, Hosts, Threads

LEMMA ScopeFacts ==
  ASSUME NEW h \in Hosts, NEW S \in SUBSET Flows
  PROVE  /\ FilesOf(h, S) \subseteq Files /\ \A x \in FilesOf(h, S) : x[1] \in S
         /\ \A f \in Flows : f \in S <=> DefFile(f) \in FilesOf(h, S)
         /\ h # Web => \A f \in Flows : f \in S <=> CodeFile(f) \in FilesOf(h, S)
BY DEF FilesOf, Files, DefFile, CodeFile

LEMMA StorageFacts ==
  /\ Absent \in [sealed : BOOLEAN, version : Versions] /\ Opened(Absent) = 0
  /\ \A v \in Versions : Stored(v) \in [sealed : BOOLEAN, version : Versions] /\ Opened(Stored(v)) = v
  /\ \A c \in [sealed : BOOLEAN, version : Versions] : Opened(c) \in Versions /\ Opened(c) <= c.version
BY VersionFacts, DefinitionsAssumption DEF Absent, Stored, Opened

\* Two operations that differ in what is named only.
SameTarget(a, b) == a.kind = b.kind /\ a.flow = b.flow /\ a.seen = b.seen
SameMarks(a, b) == a.disturbed = b.disturbed /\ a.logged = b.logged /\ a.stuck = b.stuck

LEMMA SameFacts ==
  ASSUME NEW a, NEW b, SameTarget(a, b), SameMarks(a, b)
  PROVE  (Missed(a) <=> Missed(b)) /\ \A f : Clear(a, f) <=> Clear(b, f)
BY DEF SameTarget, SameMarks, Missed, Clear, About

LEMMA IdleOp ==
  /\ Idle \in Op /\ Idle.kind = "none" /\ Idle.pc = "idle" /\ Idle.then = "load" /\ Idle.flow = None
  /\ Idle.disturbed = {} /\ Idle.logged = {}
  /\ \A x \in Files : Idle.seen[x] = 0
BY VersionFacts DEF Idle, Op, Pcs, Resting, NoFunction

LEMMA EndsIdle ==
  ASSUME NEW op, NEW outcome \in {"saved", "failed", "launched", "nofunction"}
  PROVE  Ends(op, outcome) = Idle
BY DEF Ends, Told

LEMMA EndsOp ==
  ASSUME NEW op \in Op, NEW pc \in Told
  PROVE  /\ Ends(op, pc) \in Op /\ SameTarget(Ends(op, pc), op) /\ SameMarks(Ends(op, pc), op)
         /\ Ends(op, pc).pc = pc /\ Ends(op, pc).then = "load" /\ Ends(op, pc).used = op.used
<1>1. pc \in Pcs
  BY DEF Pcs, Resting
<1>2. <<None, 0>> \in (Files \union {None}) \X Versions
  BY VersionFacts
<1>3. Ends(op, pc) = [op EXCEPT !.pc = pc, !.scope = {}, !.then = "load", !.todo = {}, !.held = <<None, 0>>]
  BY DEF Ends
<1> QED
  BY <1>1, <1>2, <1>3 DEF Op, SameTarget, SameMarks

LEMMA UsedOp ==
  ASSUME NEW op \in Op, NEW used \in (Flows \union {None}) \X Versions
  PROVE  LET new == [op EXCEPT !.used = used] IN
         new \in Op /\ SameTarget(new, op) /\ SameMarks(new, op) /\ new.pc = op.pc /\ new.then = op.then /\ new.used = used
BY DEF Op, SameTarget, SameMarks

\* All that a disturbance changes is the mark it leaves.
Kept(old, new) ==
  /\ new.kind = old.kind /\ new.pc = old.pc /\ new.flow = old.flow /\ new.scope = old.scope
  /\ new.then = old.then /\ new.todo = old.todo /\ new.held = old.held /\ new.seen = old.seen
  /\ new.used = old.used /\ new.logged = old.logged /\ new.stuck = old.stuck
  /\ old.disturbed \subseteq new.disturbed

Busy(op) == op.pc \notin Resting \ {"refreshed"}

LEMMA DisturbOp ==
  ASSUME NEW op \in Op, NEW S
  PROVE  /\ Disturb(op, S) \in Op /\ Kept(op, Disturb(op, S))
         /\ Busy(op) => S \intersect About(op) \subseteq Disturb(op, S).disturbed
<1>1. CASE op.pc \in Resting \ {"refreshed"}
  BY <1>1 DEF Disturb, Kept, Busy
<1>2. CASE op.pc \notin Resting \ {"refreshed"}
  <2>1. PICK D : D = op.disturbed \union (S \intersect About(op))
    BY Zenon
  <2>2. Disturb(op, S) = [op EXCEPT !.disturbed = D]
    BY <1>2, <2>1 DEF Disturb
  <2>3. D \in SUBSET Flows
    BY <2>1 DEF About, Op
  <2> QED
    BY <2>1, <2>2, <2>3 DEF Op, Kept
<1> QED
  BY <1>1, <1>2

LEMMA LoggedOp ==
  ASSUME NEW op \in Op, NEW X \in SUBSET Files
  PROVE  LET new == Logged(op, X) IN
         /\ new \in Op /\ SameTarget(new, op) /\ new.pc = op.pc /\ new.then = op.then /\ new.scope = op.scope
         /\ new.todo = op.todo /\ new.held = op.held /\ new.disturbed = op.disturbed /\ new.stuck = op.stuck
         /\ op.logged \subseteq new.logged
         /\ \A x \in X : x[1] \in About(op) => x \in new.logged
         /\ \A f : Clear(new, f) => Clear(op, f) /\ DefFile(f) \notin X
         /\ op.flow \in Flows => (~Missed(new) => ~Missed(op) /\ (op.stuck => CodeFile(op.flow) \notin X))
<1> DEFINE new == Logged(op, X)
<1>1. PICK L : L = op.logged \union {x \in X : x[1] \in About(op)}
  BY Zenon
<1>2. new = [op EXCEPT !.logged = L]
  BY <1>1 DEF Logged
<1>3. L \in SUBSET Files
  BY <1>1 DEF Op
<1> HIDE DEF new
<1>4. /\ new \in Op /\ SameTarget(new, op) /\ new.pc = op.pc /\ new.then = op.then /\ new.scope = op.scope
      /\ new.todo = op.todo /\ new.held = op.held /\ new.disturbed = op.disturbed /\ new.stuck = op.stuck
      /\ new.logged = L
  BY <1>2, <1>3 DEF Op, SameTarget
<1>5. About(new) = About(op)
  BY <1>4 DEF About, SameTarget
<1>6. \A f : Clear(new, f) => Clear(op, f) /\ DefFile(f) \notin X
  BY <1>1, <1>4, <1>5 DEF Clear, DefFile
<1>7. op.flow \in Flows => (~Missed(new) => ~Missed(op) /\ (op.stuck => CodeFile(op.flow) \notin X))
  <2>1. op.flow \in Flows => op.flow \in About(op)
    BY DefinitionsAssumption DEF About
  <2> QED
    BY <1>1, <1>4, <2>1 DEF Missed, SameTarget, CodeFile
<1> QED
  BY <1>1, <1>4, <1>6, <1>7 DEF new

\* What a synchronisation of S is when it begins.
Started(op, new, S, then) ==
  /\ new \in Op /\ SameTarget(new, op) /\ SameMarks(new, op) /\ new.pc = "remove" /\ new.then = then /\ new.scope = S
  /\ new.todo \subseteq Files /\ \A x \in new.todo : x[1] \in S

LEMMA StartSyncOp ==
  ASSUME NEW t \in Threads, NEW op \in Op, NEW S \in SUBSET Flows, NEW K \in SUBSET Kinds, NEW then \in {"load", "import"}
  PROVE  Started(op, StartSync(t, op, S, K, then), S, then)
<1> DEFINE new == StartSync(t, op, S, K, then)
<1>0. HostOf(t) \in Hosts
  BY ThreadFacts
<1>1. PICK todo : todo = {x \in FilesOf(HostOf(t), S) : x[2] \in K}
  BY Zenon
<1>2. todo \subseteq Files /\ \A x \in todo : x[1] \in S
  BY <1>0, <1>1, ScopeFacts
<1>3. new = [op EXCEPT !.pc = "remove", !.scope = S, !.then = then, !.todo = todo]
  BY <1>1 DEF StartSync
<1> HIDE DEF new
<1>4. /\ new \in Op /\ SameTarget(new, op) /\ SameMarks(new, op) /\ new.pc = "remove" /\ new.then = then /\ new.scope = S
      /\ new.todo = todo
  BY <1>2, <1>3 DEF Op, SameTarget, SameMarks, Pcs
<1> QED
  BY <1>2, <1>4 DEF new, Started

LEMMA StartSyncAll ==
  ASSUME NEW t \in Threads, NEW op \in Op, NEW S \in SUBSET Flows, NEW then \in {"load", "import"}
  PROVE  LET new == StartSync(t, op, S, Kinds, then) IN
         /\ Started(op, new, S, then)
         /\ \A f \in S : DefFile(f) \in new.todo
         /\ t \in Workers => \A f \in S : CodeFile(f) \in new.todo
<1> DEFINE new == StartSync(t, op, S, Kinds, then)
<1>1. PICK todo : todo = {x \in FilesOf(HostOf(t), S) : x[2] \in Kinds}
  BY Zenon
<1>2. new = [op EXCEPT !.pc = "remove", !.scope = S, !.then = then, !.todo = todo]
  BY <1>1 DEF StartSync
<1>3. Started(op, new, S, then)
  BY StartSyncOp
<1>4. new.todo = todo
  BY <1>2 DEF Op
<1>5. \A f : DefFile(f)[2] = "definition" /\ CodeFile(f)[2] = "code"
  BY DEF DefFile, CodeFile
<1>6. HostOf(t) \in Hosts /\ (t \in Workers => HostOf(t) # Web)
  BY ThreadFacts
<1> HIDE DEF new
<1>7. /\ \A f \in S : DefFile(f) \in new.todo
      /\ t \in Workers => \A f \in S : CodeFile(f) \in new.todo
  BY <1>1, <1>4, <1>5, <1>6, ScopeFacts DEF Kinds
<1> QED
  BY <1>3, <1>7 DEF new

LEMMA PcOp ==
  ASSUME NEW op \in Op, NEW pc \in Pcs
  PROVE  LET new == [op EXCEPT !.pc = pc] IN
         /\ new \in Op /\ SameTarget(new, op) /\ SameMarks(new, op) /\ new.pc = pc /\ new.then = op.then
         /\ new.scope = op.scope /\ new.todo = op.todo /\ new.held = op.held
BY DEF Op, SameTarget, SameMarks

LEMMA NextOp ==
  ASSUME NEW op \in Op, NEW X
  PROVE  LET new == [op EXCEPT !.todo = @ \ X] IN
         /\ new \in Op /\ SameTarget(new, op) /\ SameMarks(new, op) /\ new.pc = op.pc /\ new.then = op.then
         /\ new.scope = op.scope /\ new.todo = op.todo \ X /\ new.held = op.held
BY DEF Op, SameTarget, SameMarks

\* The copy of one file is over, one way or another.
LEMMA CopiedOp ==
  ASSUME NEW op \in Op, NEW pc \in Pcs
  PROVE  LET new == [op EXCEPT !.pc = pc, !.held = <<None, 0>>] IN
         /\ new \in Op /\ SameTarget(new, op) /\ SameMarks(new, op) /\ new.pc = pc /\ new.then = op.then
         /\ new.scope = op.scope /\ new.todo = op.todo
<1> DEFINE new == [op EXCEPT !.pc = pc, !.held = <<None, 0>>]
<1>1. PICK held \in (Files \union {None}) \X Versions : held = <<None, 0>>
  BY VersionFacts
<1>2. new = [op EXCEPT !.pc = pc, !.held = held]
  BY <1>1
<1> HIDE DEF new
<1>3. /\ new \in Op /\ SameTarget(new, op) /\ SameMarks(new, op) /\ new.pc = pc /\ new.then = op.then
      /\ new.scope = op.scope /\ new.todo = op.todo
  BY <1>2 DEF Op, SameTarget, SameMarks
<1> QED
  BY <1>3 DEF new

-----------------------------------------------------------------------------
(* What a step leaves alone.                                               *)

\* Thread u does not take part in the step: it keeps its operation, apart from a
\* disturbance, and of every workflow it is about, unless it is disturbed there or has
\* nothing to lose, it finds the files and the entry as they were.
Frame(u) ==
  /\ ops'[u] \in Op /\ Kept(ops[u], ops'[u])
  /\ u \in Workers => registered'[u] = registered[u] /\ local'[u] = local[u]
  /\ Busy(ops[u]) => \A f \in Flows :
       \/ f \in About(ops[u]) => f \in ops'[u].disturbed
       \/ /\ local'[HostOf(u)][DefFile(f)] = local[HostOf(u)][DefFile(f)]
          /\ Known(u)'[f] = Known(u)[f]
          /\ remote'[DefFile(f)] = remote[DefFile(f)]

CodeGrows == \A f \in Flows : Opened(remote'[CodeFile(f)]) >= Opened(remote[CodeFile(f)])

\* What the thread that takes the step has to show.
Own(t) ==
  /\ Shape(ops'[t]) /\ Placed(t, ops'[t])
  /\ t \in Workers => CodeInv(t)'
  /\ DefInv(t)'
  /\ \A f \in Flows : Opened(remote'[CodeFile(f)]) >= ops'[t].seen[CodeFile(f)]

LEMMA KeptShape ==
  ASSUME NEW a \in Op, NEW b \in Op, Kept(a, b), Shape(a)
  PROVE  Shape(b)
BY DEF Kept, Shape

LEMMA KeptCode ==
  ASSUME NEW a \in Op, NEW b \in Op, Kept(a, b), NEW r, NEW d, CodeOK(a, r, d)
  PROVE  CodeOK(b, r, d)
BY DEF Kept, CodeOK, Arriving, Missed

LEMMA KeptDef ==
  ASSUME NEW a \in Op, NEW b \in Op, Kept(a, b), NEW s1, NEW s2, NEW l1, NEW l2, NEW d1, NEW d2,
         DefOK(a, s1, l1, d1),
         Busy(a) => \A f \in Flows :
           \/ f \in About(a) => f \in b.disturbed
           \/ l2[DefFile(f)] = l1[DefFile(f)] /\ d2[f] = d1[f] /\ s2[DefFile(f)] = s1[DefFile(f)]
  PROVE  DefOK(b, s2, l2, d2)
<1>1. ASSUME NEW f \in Flows, Clear(b, f) PROVE Clear(a, f)
  BY <1>1 DEF Clear, Kept, About
<1>2. CASE ~Busy(a)
  <2>1. a.pc \in {"idle", "notfound", "ran"} /\ b.pc = a.pc /\ b.seen = a.seen
    BY <1>2 DEF Busy, Resting, Told, Kept
  <2> QED
    BY <1>1, <2>1 DEF DefOK, Arriving, Entering
<1>3. CASE Busy(a)
  <2> SUFFICES ASSUME NEW f \in Flows, Clear(b, f)
               PROVE  /\ b.pc = "lookup" \/ (b.pc \in {"remove", "copy", "write"} /\ b.then = "load") =>
                           Opened(s2[DefFile(f)]) >= b.seen[DefFile(f)]
                      /\ b.pc = "remove" /\ b.then = "load" => DefFile(f) \in b.todo
                      /\ b.pc \in {"copy", "write"} /\ b.then = "load" =>
                           DefFile(f) \in b.todo \/ Arriving(b, l2, DefFile(f)) >= b.seen[DefFile(f)]
                      /\ b.pc \in {"load", "enter"} =>
                           /\ l2[DefFile(f)] >= b.seen[DefFile(f)]
                           /\ f \in b.todo \/ Entering(b, d2, f) >= b.seen[DefFile(f)]
                      /\ b.pc = "refreshed" => d2[f] >= b.seen[DefFile(f)]
                      /\ b.pc = "notfound" => b.seen[DefFile(f)] = 0
    BY DEF DefOK
  <2>1. Clear(a, f) /\ l2[DefFile(f)] = l1[DefFile(f)] /\ d2[f] = d1[f] /\ s2[DefFile(f)] = s1[DefFile(f)]
    BY <1>1, <1>3 DEF Clear, Kept, About
  <2> QED
    BY <2>1 DEF DefOK, Arriving, Entering, Kept
<1> QED
  BY <1>2, <1>3

LEMMA Compose ==
  ASSUME Inv, TypeOK', BoundInv', CodeGrows, NEW T \in SUBSET Threads,
         \A t \in T : Own(t), \A u \in Threads \ T : Frame(u)
  PROVE  Inv'
<1>1. ASSUME NEW u \in Threads \ T
      PROVE  /\ Shape(ops'[u]) /\ Placed(u, ops'[u])
             /\ u \in Workers => CodeInv(u)'
             /\ DefInv(u)'
             /\ \A f \in Flows : Opened(remote'[CodeFile(f)]) >= ops'[u].seen[CodeFile(f)]
  <2>1. ops[u] \in Op /\ ops'[u] \in Op /\ Kept(ops[u], ops'[u]) /\ Frame(u)
    BY <1>1 DEF Inv, TypeOK, Frame
  <2>2. Shape(ops'[u])
    BY <2>1, KeptShape DEF Inv, ShapeInv
  <2>3. Placed(u, ops'[u])
    BY <2>1 DEF Inv, ShapeInv, Kept, Placed
  <2>4. ASSUME u \in Workers PROVE CodeInv(u)'
    <3>1. registered'[u] = registered[u] /\ local'[u] = local[u] /\ CodeOK(ops[u], registered[u], local[u])
      BY <2>1, <2>4 DEF Frame, Inv, StepsInv, CodeInv
    <3>2. CodeOK(ops'[u], registered[u], local[u])
      BY <2>1, <3>1, KeptCode
    <3> QED
      BY <3>1, <3>2 DEF CodeInv
  <2>5. DefInv(u)'
    <3>1. DefOK(ops[u], remote, local[HostOf(u)], Known(u))
      BY DEF Inv, LoadInv, DefInv
    <3>2. PICK r, l, d : r = remote' /\ l = local'[HostOf(u)] /\ d = Known(u)'
      OBVIOUS
    <3>3. DefOK(ops'[u], r, l, d)
      BY <2>1, <3>1, <3>2, KeptDef DEF Frame
    <3> QED
      BY <3>2, <3>3 DEF DefInv
  <2>6. \A f \in Flows : Opened(remote'[CodeFile(f)]) >= ops'[u].seen[CodeFile(f)]
    <3> TAKE f \in Flows
    <3>1. Opened(remote[CodeFile(f)]) >= ops[u].seen[CodeFile(f)] /\ ops'[u].seen = ops[u].seen
      BY <2>1 DEF Inv, StepsInv, RemoteCodeInv, Kept
    <3>2. Opened(remote'[CodeFile(f)]) >= Opened(remote[CodeFile(f)])
      BY DEF CodeGrows
    <3>3. Opened(remote'[CodeFile(f)]) \in Nat /\ Opened(remote[CodeFile(f)]) \in Nat /\ ops[u].seen[CodeFile(f)] \in Nat
      <4>1. remote[CodeFile(f)] \in [sealed : BOOLEAN, version : Versions]
              /\ remote'[CodeFile(f)] \in [sealed : BOOLEAN, version : Versions]
        BY FileFacts DEF Inv, TypeOK
      <4>2. ops[u].seen[CodeFile(f)] \in Versions
        BY <2>1, FileFacts DEF Op
      <4> QED
        BY <4>1, <4>2, StorageFacts, VersionFacts
    <3> QED
      BY <3>1, <3>2, <3>3
  <2> QED
    BY <2>2, <2>3, <2>4, <2>5, <2>6
<1>2. ShapeInv'
  BY <1>1 DEF ShapeInv, Own
<1>3. StepsInv'
  BY <1>1 DEF StepsInv, RemoteCodeInv, Own, Threads
<1>4. LoadInv'
  BY <1>1 DEF LoadInv, Own
<1> QED
  BY <1>2, <1>3, <1>4 DEF Inv

LEMMA ComposeOne ==
  ASSUME Inv, TypeOK', BoundInv', CodeGrows, NEW t \in Threads, Own(t), \A u \in Threads \ {t} : Frame(u)
  PROVE  Inv'
<1>1. {t} \in SUBSET Threads /\ \A u \in {t} : Own(u)
  OBVIOUS
<1> QED
  BY <1>1, Compose

Registrations == (Flows \union {None}) \X Versions
Budgets == [ops : Nat, changes : Nat, faults : Nat]

LEMMA BecomesFrame ==
  ASSUME TypeOK, NEW t \in Threads, NEW new \in Op, Becomes(t, new),
         \A u \in Threads \ {t} :
           /\ local'[HostOf(u)] = local[HostOf(u)] /\ Known(u)' = Known(u)
           /\ u \in Workers => registered'[u] = registered[u],
         \A f \in Flows : remote'[DefFile(f)] = remote[DefFile(f)]
  PROVE  ops' \in [Threads -> Op] /\ ops'[t] = new /\ \A u \in Threads \ {t} : Frame(u)
<1>1. ops' \in [Threads -> Op] /\ ops'[t] = new /\ \A u \in Threads \ {t} : ops'[u] = ops[u] /\ ops[u] \in Op
  BY DEF TypeOK, Becomes
<1>2. \A u \in Threads \ {t} : Kept(ops[u], ops'[u])
  BY <1>1 DEF Kept
<1>3. \A u \in Threads \ {t} : u \in Workers => registered'[u] = registered[u] /\ local'[u] = local[u]
  BY ThreadFacts
<1> QED
  BY <1>1, <1>2, <1>3 DEF Frame

\* A step that changes the operation of a thread, and perhaps its registered function.
LEMMA OpsStep ==
  ASSUME Inv, NEW t \in Threads, NEW new \in Op, Becomes(t, new),
         UNCHANGED <<template, remote, local, workflows, child>>, torn' \in [Flows -> BOOLEAN],
         budget' \in Budgets, budget'.changes = budget.changes,
         registered' \in [Workers -> Registrations], \A u \in Workers \ {t} : registered'[u] = registered[u],
         Shape(new), Placed(t, new),
         t \in Workers => CodeOK(new, registered'[t], local[t]),
         DefOK(new, remote, local[HostOf(t)], Known(t)),
         \A f \in Flows : Opened(remote[CodeFile(f)]) >= new.seen[CodeFile(f)]
  PROVE  Inv'
<1>0. TypeOK
  BY DEF Inv
<1>1. \A u \in Threads : local'[HostOf(u)] = local[HostOf(u)] /\ Known(u)' = Known(u)
  BY DEF Known
<1>2. ops' \in [Threads -> Op] /\ ops'[t] = new /\ \A u \in Threads \ {t} : Frame(u)
  BY <1>0, <1>1, BecomesFrame
<1>3. TypeOK'
  BY <1>0, <1>2 DEF TypeOK, Budgets, Registrations
<1>4. BoundInv'
  BY DEF Inv, BoundInv
<1>5. CodeGrows
  <2> SUFFICES ASSUME NEW f \in Flows PROVE Opened(remote[CodeFile(f)]) \in Nat
    BY DEF CodeGrows
  <2>1. remote[CodeFile(f)] \in [sealed : BOOLEAN, version : Versions]
    BY <1>0, FileFacts DEF TypeOK
  <2> QED
    BY <2>1, StorageFacts, VersionFacts
<1>6. Own(t)
  BY <1>1, <1>2 DEF Own, CodeInv, DefInv
<1> QED
  BY <1>2, <1>3, <1>4, <1>5, <1>6, ComposeOne

\* The same, when the operation keeps its target and nothing is registered.
LEMMA PlainStep ==
  ASSUME Inv, NEW t \in Threads, NEW new \in Op, Becomes(t, new), SameTarget(new, ops[t]),
         UNCHANGED <<template, remote, local, workflows, child, torn, registered>>,
         budget' \in Budgets, budget'.changes = budget.changes,
         Shape(new),
         t \in Workers => CodeOK(new, registered[t], local[t]),
         DefOK(new, remote, local[HostOf(t)], Known(t))
  PROVE  Inv'
<1>1. \A f \in Flows : Opened(remote[CodeFile(f)]) >= new.seen[CodeFile(f)]
  BY DEF Inv, StepsInv, RemoteCodeInv, SameTarget
<1>2. Placed(t, new)
  BY DEF Inv, ShapeInv, SameTarget, Placed
<1>3. registered' \in [Workers -> Registrations] /\ torn' \in [Flows -> BOOLEAN]
  BY DEF Inv, TypeOK, Registrations
<1> QED
  BY <1>1, <1>2, <1>3, OpsStep

\* Nothing is asked of a thread that is idle.
LEMMA IdleOK ==
  /\ Shape(Idle) /\ \A t : Placed(t, Idle)
  /\ \A r, d : CodeOK(Idle, r, d)
  /\ \A s, l, d : DefOK(Idle, s, l, d)
BY IdleOp DEF Shape, Placed, Resting, Told, CodeOK, DefOK

LEMMA IdleStep ==
  ASSUME Inv, NEW t \in Threads, Becomes(t, Idle),
         UNCHANGED <<template, remote, local, workflows, child, registered>>, torn' \in [Flows -> BOOLEAN],
         budget' \in Budgets, budget'.changes = budget.changes
  PROVE  Inv'
<1>1. \A f \in Flows : Opened(remote[CodeFile(f)]) >= Idle.seen[CodeFile(f)]
  <2> TAKE f \in Flows
  <2>1. CodeFile(f) \in Files /\ Opened(remote[CodeFile(f)]) \in Nat
    BY FileFacts, StorageFacts, VersionFacts DEF Inv, TypeOK
  <2> QED
    BY <2>1, IdleOp
<1>2. registered' \in [Workers -> Registrations]
  BY DEF Inv, TypeOK, Registrations
<1> QED
  BY <1>1, <1>2, IdleOp, IdleOK, OpsStep

\* What holds of a thread before its step.
LEMMA Before ==
  ASSUME Inv, NEW t \in Threads
  PROVE  /\ ops[t] \in Op /\ Shape(ops[t]) /\ (ops[t].kind = "step" => t \in Workers) /\ Placed(t, ops[t])
         /\ t \in Workers => CodeOK(ops[t], registered[t], local[t])
         /\ DefOK(ops[t], remote, local[HostOf(t)], Known(t))
         /\ HostOf(t) \in Hosts /\ local[HostOf(t)] \in [Files -> Versions] /\ Known(t) \in [Flows -> Versions]
         /\ budget \in Budgets /\ torn \in [Flows -> BOOLEAN]
<1>1. HostOf(t) \in Hosts /\ Web \in Hosts
  BY ThreadFacts DEF Hosts
<1>2. Known(t) \in [Flows -> Versions]
  BY <1>1 DEF Inv, TypeOK, Known, Threads
<1> QED
  BY <1>1, <1>2 DEF Inv, TypeOK, ShapeInv, Placed, StepsInv, LoadInv, CodeInv, DefInv, Budgets

-----------------------------------------------------------------------------
(* Operations that end, and look-ups.                                      *)

LEMMA GetTasksInv ==
  ASSUME Inv, NEW t \in Threads, GetTasks(t) \/ RefuseManager(t)
  PROVE  Inv'
<1>1. PICK outcome \in {"launched", "failed"} : Becomes(t, Ends(ops[t], outcome))
  BY DEF GetTasks, RefuseManager
<1>2. UNCHANGED <<template, remote, local, workflows, child, registered, torn, budget>>
  BY DEF GetTasks, RefuseManager
<1> QED
  BY <1>1, <1>2, Before, EndsIdle, IdleStep

LEMMA SaveRaisesInv ==
  ASSUME Inv, NEW t \in Threads, SaveRaises(t)
  PROVE  Inv'
<1>1. budget' \in Budgets /\ budget'.changes = budget.changes
  BY Before DEF SaveRaises, Budgets
<1>2. Becomes(t, Idle)
  BY EndsIdle DEF SaveRaises
<1>3. torn' \in [Flows -> BOOLEAN]
  BY Before DEF SaveRaises
<1> QED
  BY <1>1, <1>2, <1>3, IdleStep DEF SaveRaises

LEMMA StorageFailsInv ==
  ASSUME Inv, NEW t \in Threads, StorageFails(t)
  PROVE  Inv'
<1> DEFINE op == ops[t]
           seen == Logged(op, Files)
           new == Ends(seen, "refreshed")
<1>0. op \in Op /\ UNCHANGED <<template, remote, local, workflows, child, registered, torn>>
  BY Before DEF StorageFails
<1>1. budget' \in Budgets /\ budget'.changes = budget.changes
  BY Before DEF StorageFails, Budgets
<1>2. CASE op.kind # "refresh"
  <2>1. Becomes(t, Idle)
    BY <1>2, EndsIdle DEF StorageFails
  <2> QED
    BY <1>0, <1>1, <2>1, Before, IdleStep
<1>3. CASE op.kind = "refresh"
  <2>1. Becomes(t, new)
    BY <1>3 DEF StorageFails
  <2>2. seen \in Op /\ SameTarget(seen, op) /\ \A f : Clear(seen, f) => DefFile(f) \notin Files
    BY <1>0, LoggedOp
  <2> HIDE DEF seen
  <2>3. new \in Op /\ SameTarget(new, seen) /\ SameMarks(new, seen) /\ new.pc = "refreshed" /\ new.then = "load"
    BY <2>2, EndsOp DEF Told
  <2> HIDE DEF new
  <2>4. SameTarget(new, op) /\ new.kind = "refresh" /\ new.flow = None
    BY <1>3, <2>2, <2>3, Before DEF SameTarget, Shape
  <2>5. Shape(new)
    BY <2>3, <2>4 DEF Shape
  <2>6. \A r, d : CodeOK(new, r, d)
    BY <2>4 DEF CodeOK
  <2>7. \A f \in Flows : ~Clear(new, f)
    BY <2>2, <2>3, SameFacts, FileFacts
  <2>8. DefOK(new, remote, local[HostOf(t)], Known(t))
    BY <2>7 DEF DefOK
  <2> QED
    BY <1>0, <1>1, <2>1, <2>3, <2>4, <2>5, <2>6, <2>8, PlainStep
<1> QED
  BY <1>2, <1>3

\* Looking a definition up.
LEMMA FoundInv ==
  ASSUME Inv, NEW t \in Threads, ops[t].pc \in {"lookup", "load"}, ops[t].kind # "refresh",
         Becomes(t, Found(t)),
         UNCHANGED <<template, remote, local, workflows, child, registered, torn, budget>>
  PROVE  Inv'
<1> DEFINE op == ops[t]
           new == Found(t)
<1>0. op \in Op /\ op.kind \in {"launch", "step"} /\ op.flow \in Flows
  BY Before DEF Shape, Op
<1>1. CASE op.kind = "step"
  <2>0. t \in Workers
    BY <1>1, Before
  <2>1. new = StartSync(t, op, {op.flow}, Kinds, "import") /\ {op.flow} \in SUBSET Flows
    BY <1>0, <1>1 DEF Found
  <2>2. /\ new \in Op /\ SameTarget(new, op) /\ SameMarks(new, op) /\ new.pc = "remove" /\ new.then = "import"
        /\ new.scope = {op.flow} /\ new.todo \subseteq Files /\ (\A x \in new.todo : x[1] \in new.scope)
        /\ CodeFile(op.flow) \in new.todo
    BY <1>0, <2>0, <2>1, StartSyncAll DEF Started
  <2> HIDE DEF new
  <2>3. Shape(new)
    BY <1>0, <1>1, <2>2 DEF Shape, SameTarget
  <2>4. t \in Workers => CodeOK(new, registered[t], local[t])
    BY <1>1, <2>2, Before DEF CodeOK, Arriving, SameTarget, Resting, Told
  <2>5. DefOK(new, remote, local[HostOf(t)], Known(t))
    BY <2>2 DEF DefOK, Arriving, Entering
  <2> QED
    BY <2>2, <2>3, <2>4, <2>5, Before, PlainStep DEF new
<1>2. CASE op.kind # "step"
  <2>1. new = [op EXCEPT !.pc = "build"] /\ "build" \in Pcs
    BY <1>2 DEF Found, Pcs
  <2>2. new \in Op /\ SameTarget(new, op) /\ new.pc = "build" /\ new.then = op.then
    BY <1>0, <2>1, PcOp
  <2> HIDE DEF new
  <2>3. Shape(new)
    BY <1>0, <1>2, <2>2, Before DEF Shape, SameTarget
  <2>4. \A r, d : CodeOK(new, r, d)
    BY <1>2, <2>2 DEF CodeOK, Arriving, SameTarget
  <2>5. DefOK(new, remote, local[HostOf(t)], Known(t))
    BY <2>2 DEF DefOK, Arriving, Entering
  <2> QED
    BY <2>2, <2>3, <2>4, <2>5, Before, PlainStep DEF new
<1> QED
  BY <1>1, <1>2

LEMMA GetByUserCodeInv ==
  ASSUME Inv, NEW t \in Threads, GetByUserCode(t)
  PROVE  Inv'
<1> DEFINE op == ops[t]
           S == {f \in Flows : ModuleOf[f] = ModuleOf[op.flow]}
           new == StartSync(t, op, S, Kinds, "load")
<1>0. op \in Op /\ op.pc = "lookup" /\ op.kind \in {"launch", "step"} /\ op.flow \in Flows
  BY Before DEF Shape, Op, GetByUserCode
<1>1. UNCHANGED <<template, remote, local, workflows, child, registered, torn, budget>>
  BY DEF GetByUserCode
<1>2. CASE Known(t)[op.flow] # 0
  BY <1>0, <1>1, <1>2, FoundInv DEF GetByUserCode
<1>3. CASE Known(t)[op.flow] = 0
  <2>1. Becomes(t, new)
    BY <1>3 DEF GetByUserCode
  <2>2. S \in SUBSET Flows /\ op.flow \in S
    BY <1>0
  <2>3. /\ new \in Op /\ SameTarget(new, op) /\ SameMarks(new, op) /\ new.pc = "remove" /\ new.then = "load" /\ new.scope = S
        /\ new.todo \subseteq Files /\ (\A x \in new.todo : x[1] \in S) /\ DefFile(op.flow) \in new.todo
    BY <1>0, <2>2, StartSyncAll DEF Started
  <2> HIDE DEF new, S
  <2>4. Shape(new)
    BY <1>0, <2>3 DEF Shape, SameTarget
  <2>5. t \in Workers => CodeOK(new, registered[t], local[t])
    BY <1>0, <2>3, Before DEF CodeOK, Arriving, SameTarget, Resting, Told
  <2>6. DefOK(new, remote, local[HostOf(t)], Known(t))
    <3> SUFFICES ASSUME NEW f \in Flows, Clear(op, f)
                 PROVE  Opened(remote[DefFile(f)]) >= op.seen[DefFile(f)] /\ DefFile(f) \in new.todo
      BY <2>3, SameFacts DEF DefOK, Arriving, Entering, SameTarget
    <3>1. f = op.flow
      BY <1>0, DefinitionsAssumption DEF Clear, About
    <3> QED
      BY <1>0, <2>3, <3>1, Before DEF DefOK
  <2> QED
    BY <1>1, <2>1, <2>3, <2>4, <2>5, <2>6, Before, PlainStep
<1> QED
  BY <1>2, <1>3

LEMMA GetAfterSyncInv ==
  ASSUME Inv, NEW t \in Threads, GetAfterSync(t)
  PROVE  Inv'
<1> DEFINE op == ops[t]
           new == Ends(op, "notfound")
<1>0. op \in Op /\ op.pc = "load" /\ op.todo = {} /\ op.kind \in {"launch", "step"} /\ op.flow \in Flows
  BY Before DEF Shape, Op, GetAfterSync
<1>1. UNCHANGED <<template, remote, local, workflows, child, registered, torn, budget>>
  BY DEF GetAfterSync
<1>2. CASE Known(t)[op.flow] # 0
  BY <1>0, <1>1, <1>2, FoundInv DEF GetAfterSync
<1>3. CASE Known(t)[op.flow] = 0
  <2>1. Becomes(t, new)
    BY <1>3 DEF GetAfterSync
  <2>2. new \in Op /\ SameTarget(new, op) /\ SameMarks(new, op) /\ new.pc = "notfound" /\ new.then = "load"
    BY <1>0, EndsOp DEF Told
  <2> HIDE DEF new
  <2>3. Shape(new)
    BY <1>0, <2>2 DEF Shape, SameTarget
  <2>4. \A r, d : CodeOK(new, r, d)
    BY <2>2 DEF CodeOK, Arriving, Resting, Told
  <2>5. ASSUME NEW f \in Flows, Clear(op, f) PROVE op.seen[DefFile(f)] = 0
    <3>0. f = op.flow
      BY <1>0, <2>5, DefinitionsAssumption DEF Clear, About
    <3>1. Known(t)[f] >= op.seen[DefFile(f)]
      BY <1>0, <2>5, Before DEF DefOK, Entering
    <3>2. op.seen[DefFile(f)] \in Nat
      BY <1>0, FileFacts, VersionFacts DEF Op
    <3> QED
      BY <1>3, <3>0, <3>1, <3>2
  <2>6. DefOK(new, remote, local[HostOf(t)], Known(t))
    BY <2>2, <2>5, SameFacts DEF DefOK, Arriving, Entering, SameTarget
  <2> QED
    BY <1>1, <2>1, <2>2, <2>3, <2>4, <2>6, Before, PlainStep
<1> QED
  BY <1>2, <1>3

\* Loading the definitions of the directory.
LEMMA SyncDoneInv ==
  ASSUME Inv, NEW t \in Threads, SyncDone(t)
  PROVE  Inv'
<1> DEFINE op == ops[t]
<1>0. op \in Op /\ op.pc = "copy" /\ op.todo = {} /\ op.then \in {"load", "import"}
  BY Before DEF Op, SyncDone
<1>1. PICK todo \in SUBSET (Files \union Flows) :
        /\ todo = IF op.then = "load" THEN Flows ELSE {}
        /\ Becomes(t, [op EXCEPT !.pc = op.then, !.todo = todo])
  BY DEF SyncDone
<1> DEFINE new == [op EXCEPT !.pc = op.then, !.todo = todo]
<1>2. /\ new \in Op /\ SameTarget(new, op) /\ SameMarks(new, op) /\ new.pc = op.then /\ new.then = op.then
      /\ new.todo = todo
  <2>1. op.then \in Pcs
    BY <1>0 DEF Pcs
  <2> HIDE DEF op
  <2> QED
    BY <1>0, <2>1 DEF Op, SameTarget, SameMarks
<1> HIDE DEF new
<1>3. Shape(new)
  BY <1>0, <1>1, <1>2, Before DEF Shape, SameTarget
<1>4. t \in Workers => CodeOK(new, registered[t], local[t])
  BY <1>0, <1>2, Before, SameFacts DEF CodeOK, Arriving, SameTarget, Resting, Told
<1>5. DefOK(new, remote, local[HostOf(t)], Known(t))
  BY <1>0, <1>1, <1>2, Before, SameFacts DEF DefOK, Arriving, Entering, SameTarget
<1> QED
  BY <1>1, <1>2, <1>3, <1>4, <1>5, Before, PlainStep DEF SyncDone, new

LEMMA LoadDefinitionInv ==
  ASSUME Inv, NEW t \in Threads, LoadDefinition(t)
  PROVE  Inv'
<1> DEFINE op == ops[t]
           f == First(op.todo)
           v == local[HostOf(t)][DefFile(f)]
           rest == [op EXCEPT !.todo = @ \ {f}]
<1>0. op \in Op /\ op.pc = "load" /\ op.todo # {} /\ op.todo \subseteq Flows
  BY Before DEF LoadDefinition, Shape
<1>1. f \in op.todo /\ f \in Flows
  BY <1>0 DEF First
<1>2. v \in Versions /\ v \in Nat
  BY <1>1, FileFacts, Before, VersionFacts
<1>3. /\ rest \in Op /\ SameTarget(rest, op) /\ SameMarks(rest, op) /\ rest.pc = op.pc /\ rest.then = op.then
      /\ rest.todo = op.todo \ {f}
  BY <1>0, NextOp
<1>4. Becomes(t, IF v = 0 THEN rest ELSE [rest EXCEPT !.pc = "enter", !.held = <<DefFile(f), v>>])
  BY DEF LoadDefinition, DefFile
<1>5. UNCHANGED <<template, remote, local, workflows, child, registered, torn, budget>>
  BY DEF LoadDefinition
<1>6. \A g \in Flows : op.seen[DefFile(g)] \in Nat /\ Known(t)[g] \in Nat
  BY <1>0, FileFacts, VersionFacts, Before DEF Op
<1>7. ASSUME NEW g \in Flows, Clear(op, g)
      PROVE  /\ local[HostOf(t)][DefFile(g)] >= op.seen[DefFile(g)]
             /\ g \in op.todo \/ Known(t)[g] >= op.seen[DefFile(g)]
  BY <1>0, <1>7, Before DEF DefOK, Entering
<1>8. CASE v = 0
  <2> HIDE DEF rest, f, v
  <2>1. Shape(rest)
    BY <1>0, <1>3, Before DEF Shape, SameTarget
  <2>2. t \in Workers => CodeOK(rest, registered[t], local[t])
    BY <1>0, <1>3, Before DEF CodeOK, Arriving, SameTarget, Resting, Told
  <2>3. Clear(op, f) => op.seen[DefFile(f)] = 0
    BY <1>1, <1>2, <1>6, <1>7, <1>8 DEF v
  <2>4. DefOK(rest, remote, local[HostOf(t)], Known(t))
    <3> SUFFICES ASSUME NEW g \in Flows, Clear(op, g)
                 PROVE  /\ local[HostOf(t)][DefFile(g)] >= op.seen[DefFile(g)]
                        /\ g \in rest.todo \/ Known(t)[g] >= op.seen[DefFile(g)]
      BY <1>0, <1>3, SameFacts DEF DefOK, Arriving, Entering, SameTarget
    <3> QED
      BY <1>3, <1>6, <1>7, <2>3
  <2> QED
    BY <1>3, <1>4, <1>5, <1>8, <2>1, <2>2, <2>4, Before, PlainStep
<1>9. CASE v # 0
  <2> DEFINE new == [rest EXCEPT !.pc = "enter", !.held = <<DefFile(f), v>>]
  <2> HIDE DEF rest, f, v
  <2>2. /\ new \in Op /\ SameTarget(new, rest) /\ SameMarks(new, rest) /\ new.pc = "enter" /\ new.then = op.then
        /\ new.todo = op.todo \ {f} /\ new.held[1] = DefFile(f) /\ new.held[2] = v
    <3>1. PICK held \in (Files \union {None}) \X Versions : held = <<DefFile(f), v>>
      BY <1>1, <1>2, FileFacts
    <3>2. new = [rest EXCEPT !.pc = "enter", !.held = held]
      BY <3>1
    <3> HIDE DEF new
    <3> QED
      BY <1>3, <3>1, <3>2 DEF Op, SameTarget, SameMarks, Pcs
  <2> HIDE DEF new
  <2>3. SameTarget(new, op) /\ SameMarks(new, op)
    BY <1>3, <2>2 DEF SameTarget, SameMarks
  <2>4. Shape(new)
    <3>1. new.held[1] \in Flows \X {"definition"} /\ new.held[2] # 0
      BY <1>1, <1>9, <2>2 DEF DefFile
    <3> QED
      BY <1>0, <2>2, <2>3, <3>1, Before DEF Shape, SameTarget
  <2>5. t \in Workers => CodeOK(new, registered[t], local[t])
    BY <1>0, <2>2, <2>3, Before DEF CodeOK, Arriving, SameTarget, Resting, Told
  <2>6. DefOK(new, remote, local[HostOf(t)], Known(t))
    <3> SUFFICES ASSUME NEW g \in Flows, Clear(op, g)
                 PROVE  /\ local[HostOf(t)][DefFile(g)] >= op.seen[DefFile(g)]
                        /\ g \in new.todo \/ Entering(new, Known(t), g) >= op.seen[DefFile(g)]
      BY <2>2, <2>3, SameFacts DEF DefOK, SameTarget
    <3>1. CASE g = f
      BY <1>7, <2>2, <3>1 DEF v, Entering
    <3>2. CASE g # f
      BY <1>1, <1>7, <2>2, <3>2, FileFacts DEF Entering
    <3> QED
      BY <3>1, <3>2, <1>7
  <2>7. Becomes(t, new)
    BY <1>4, <1>9 DEF new
  <2> QED
    BY <1>5, <2>2, <2>3, <2>4, <2>5, <2>6, <2>7, Before, PlainStep
<1> QED
  BY <1>8, <1>9

LEMMA LoadRaisesInv ==
  ASSUME Inv, NEW t \in Threads, LoadRaises(t)
  PROVE  Inv'
<1> DEFINE op == ops[t]
<1>0. op \in Op /\ op.pc = "load" /\ op.todo # {} /\ op.todo \subseteq Flows
  BY Before DEF LoadRaises, Shape
<1>1. PICK S \in SUBSET Flows : Becomes(t, Logged([op EXCEPT !.todo = @ \ S], S \X {"definition"}))
  BY <1>0 DEF LoadRaises, First
<1> DEFINE rest == [op EXCEPT !.todo = @ \ S]
           X == S \X {"definition"}
           new == Logged(rest, X)
<1>2. /\ rest \in Op /\ SameTarget(rest, op) /\ SameMarks(rest, op) /\ rest.pc = "load" /\ rest.then = op.then
      /\ rest.todo = op.todo \ S
  BY <1>0, NextOp
<1>3. X \in SUBSET Files /\ \A f \in S : DefFile(f) \in X
  BY DEF Files, DefFile
<1> HIDE DEF rest, X
<1>4. /\ new \in Op /\ SameTarget(new, rest) /\ new.pc = "load" /\ new.then = op.then /\ new.todo = op.todo \ S
      /\ \A f : Clear(new, f) => Clear(rest, f) /\ DefFile(f) \notin X
  BY <1>2, <1>3, LoggedOp
<1>5. Becomes(t, new)
  BY <1>1 DEF rest, X
<1> HIDE DEF new
<1>6. SameTarget(new, op) /\ \A f : Clear(new, f) => Clear(op, f) /\ f \notin S
  BY <1>2, <1>3, <1>4, SameFacts DEF SameTarget
<1>7. Shape(new)
  BY <1>0, <1>4, <1>6, Before DEF Shape, SameTarget
<1>8. t \in Workers => CodeOK(new, registered[t], local[t])
  BY <1>0, <1>4, <1>6, Before DEF CodeOK, Arriving, SameTarget, Resting, Told
<1>9. DefOK(new, remote, local[HostOf(t)], Known(t))
  <2> SUFFICES ASSUME NEW g \in Flows, Clear(new, g)
               PROVE  /\ local[HostOf(t)][DefFile(g)] >= op.seen[DefFile(g)]
                      /\ g \in new.todo \/ Known(t)[g] >= op.seen[DefFile(g)]
    BY <1>4, <1>6 DEF DefOK, Arriving, Entering, SameTarget
  <2>1. Clear(op, g) /\ g \notin S
    BY <1>6
  <2> QED
    BY <1>0, <1>4, <2>1, Before DEF DefOK, Entering
<1>10. budget' \in Budgets /\ budget'.changes = budget.changes
  BY Before DEF LoadRaises, Budgets
<1> QED
  BY <1>4, <1>5, <1>6, <1>7, <1>8, <1>9, <1>10, PlainStep DEF LoadRaises

LEMMA RegisterDoneInv ==
  ASSUME Inv, NEW t \in Threads, RegisterDone(t)
  PROVE  Inv'
<1> DEFINE op == ops[t]
           new == Ends(op, "refreshed")
<1>0. op \in Op /\ op.pc = "load" /\ op.todo = {} /\ op.kind = "refresh" /\ op.flow = None
  BY Before DEF RegisterDone, Shape
<1>1. new \in Op /\ SameTarget(new, op) /\ SameMarks(new, op) /\ new.pc = "refreshed" /\ new.then = "load"
  BY <1>0, EndsOp DEF Told
<1> HIDE DEF new
<1>2. Shape(new)
  BY <1>0, <1>1 DEF Shape, SameTarget
<1>3. \A r, d : CodeOK(new, r, d)
  BY <1>0, <1>1 DEF CodeOK, Arriving, SameTarget
<1>4. DefOK(new, remote, local[HostOf(t)], Known(t))
  BY <1>0, <1>1, Before, SameFacts DEF DefOK, Arriving, Entering, SameTarget
<1> QED
  BY <1>1, <1>2, <1>3, <1>4, Before, PlainStep DEF RegisterDone, new

-----------------------------------------------------------------------------
(* Running a step.                                                         *)

LEMMA SyncImportsInv ==
  ASSUME Inv, NEW t \in Threads, NEW f \in Flows, NEW K \in SUBSET Kinds, SyncImports(t, f, K)
  PROVE  Inv'
<1> DEFINE op == ops[t]
           new == StartSync(t, op, {f}, K, "import")
<1>0. op \in Op /\ op.pc = "import" /\ op.kind = "step" /\ t \in Workers /\ op.flow \in Flows
  BY Before DEF SyncImports, Shape
<1>1. /\ new \in Op /\ SameTarget(new, op) /\ SameMarks(new, op) /\ new.pc = "remove" /\ new.then = "import"
      /\ new.scope = {f} /\ new.todo \subseteq Files /\ \A x \in new.todo : x[1] \in new.scope
  <2>1. {f} \in SUBSET Flows
    OBVIOUS
  <2>2. Started(op, new, {f}, "import")
    BY <1>0, <2>1, StartSyncOp
  <2> HIDE DEF new
  <2> QED
    BY <2>2 DEF Started
<1>2. Becomes(t, new)
  BY DEF SyncImports
<1> HIDE DEF new
<1>3. Shape(new)
  BY <1>0, <1>1 DEF Shape, SameTarget
<1>4. CodeOK(new, registered[t], local[t])
  BY <1>0, <1>1, Before, SameFacts DEF CodeOK, Arriving, SameTarget, Resting, Told
<1>5. DefOK(new, remote, local[HostOf(t)], Known(t))
  BY <1>1 DEF DefOK, Arriving, Entering
<1>6. budget' \in Budgets /\ budget'.changes = budget.changes
  BY Before DEF SyncImports, Budgets
<1> QED
  BY <1>1, <1>2, <1>3, <1>4, <1>5, <1>6, PlainStep DEF SyncImports

LEMMA ImportInv ==
  ASSUME Inv, NEW t \in Threads, ImportUserTasks(t)
  PROVE  Inv'
<1> DEFINE op == ops[t]
           x == CodeFile(op.flow)
           v == local[t][x]
           new == [op EXCEPT !.pc = "call"]
<1>0. op \in Op /\ op.pc = "import" /\ op.kind = "step" /\ t \in Workers /\ op.flow \in Flows /\ HostOf(t) = t
  BY Before, ThreadFacts DEF ImportUserTasks, Shape
<1>1. new \in Op /\ SameTarget(new, op) /\ SameMarks(new, op) /\ new.pc = "call" /\ new.then = op.then
  BY <1>0, PcOp DEF Pcs
<1>2. registered[t] = NoFunction /\ (~Missed(op) => Safe(v, op.seen[x])) /\ registered \in [Workers -> Registrations]
  BY <1>0, Before DEF CodeOK, Arriving, Resting, Told, Inv, TypeOK, Registrations
<1>3. v \in Versions
  BY <1>0, FileFacts, Before
<1>4. registered' = [registered EXCEPT ![t] = IF v = 0 THEN registered[t] ELSE <<op.flow, v>>]
  BY <1>0 DEF ImportUserTasks, CodeFile
<1>5. <<op.flow, v>> \in Registrations /\ <<op.flow, v>>[1] = op.flow /\ <<op.flow, v>>[2] = v
  BY <1>0, <1>3 DEF Registrations
<1> HIDE DEF new, v
<1>6. /\ registered' \in [Workers -> Registrations] /\ \A u \in Workers \ {t} : registered'[u] = registered[u]
      /\ registered'[t] = NoFunction \/ (registered'[t][1] = op.flow /\ (~Missed(op) => registered'[t][2] >= op.seen[x]))
  BY <1>0, <1>2, <1>4, <1>5 DEF Safe
<1>7. Shape(new)
  BY <1>0, <1>1, Before DEF Shape, SameTarget
<1>8. CodeOK(new, registered'[t], local[t])
  BY <1>1, <1>6, SameFacts DEF CodeOK, Arriving, SameTarget, Resting, Told
<1>9. DefOK(new, remote, local[HostOf(t)], Known(t))
  BY <1>1 DEF DefOK, Arriving, Entering
<1>10. \A f \in Flows : Opened(remote[CodeFile(f)]) >= new.seen[CodeFile(f)]
  BY <1>1 DEF Inv, StepsInv, RemoteCodeInv, SameTarget
<1>11. Becomes(t, new) /\ UNCHANGED <<template, remote, local, workflows, child, torn, budget>>
  BY DEF ImportUserTasks, new
<1> QED
  BY <1>0, <1>1, <1>6, <1>7, <1>8, <1>9, <1>10, <1>11, Before, OpsStep DEF SameTarget, Placed

LEMMA CallInv ==
  ASSUME Inv, NEW t \in Threads, CallFunction(t)
  PROVE  Inv'
<1> DEFINE op == ops[t]
           end == Ends(op, "ran")
           new == [end EXCEPT !.used = registered[t]]
<1>0. op \in Op /\ op.pc = "call" /\ op.kind = "step" /\ t \in Workers /\ registered[t] \in Registrations
  BY Before DEF CallFunction, Shape, Inv, TypeOK, Registrations
<1>1. UNCHANGED <<template, remote, local, workflows, child, registered, torn, budget>>
  BY DEF CallFunction
<1>2. CASE registered[t] = NoFunction
  <2>1. Becomes(t, Idle)
    BY <1>2, EndsIdle DEF CallFunction
  <2> QED
    BY <1>1, <2>1, Before, IdleStep
<1>3. CASE registered[t] # NoFunction
  <2>1. Becomes(t, new)
    BY <1>3 DEF CallFunction
  <2>2. end \in Op /\ SameTarget(end, op) /\ SameMarks(end, op) /\ end.pc = "ran" /\ end.then = "load"
    BY <1>0, EndsOp DEF Told
  <2> HIDE DEF end
  <2>3. /\ new \in Op /\ SameTarget(new, end) /\ SameMarks(new, end) /\ new.pc = "ran" /\ new.then = "load"
        /\ new.used = registered[t]
    BY <1>0, <2>2, UsedOp DEF Registrations
  <2> HIDE DEF new
  <2>4. SameTarget(new, op) /\ SameMarks(new, op)
    BY <2>2, <2>3 DEF SameTarget, SameMarks
  <2>5. Shape(new)
    BY <1>0, <2>3, <2>4, Before DEF Shape, SameTarget
  <2>6. CodeOK(new, registered[t], local[t])
    BY <1>0, <1>3, <2>3, <2>4, Before, SameFacts DEF CodeOK, Arriving, SameTarget, Resting, Told
  <2>7. DefOK(new, remote, local[HostOf(t)], Known(t))
    BY <2>3 DEF DefOK, Arriving, Entering
  <2> QED
    BY <1>1, <2>1, <2>3, <2>4, <2>5, <2>6, <2>7, Before, PlainStep
<1> QED
  BY <1>2, <1>3

-----------------------------------------------------------------------------
(* The beginning of a request or task.                                     *)

\* What an operation is when it begins, but for what it sees of the storage.
Beginning(t, op) ==
  /\ op \in Op /\ op.then = "load"
  /\ Placed(t, op)
  /\ \/ op.kind \in {"launch", "step"} /\ op.flow \in Flows /\ op.pc = "lookup"
     \/ /\ op.kind = "refresh" /\ op.flow = None /\ op.pc = "remove" /\ op.todo \subseteq Files
        /\ (\A x \in op.todo : x[1] \in op.scope) /\ \A f \in Flows : DefFile(f) \in op.todo

LEMMA BeginInv ==
  ASSUME Inv, NEW t \in Threads, NEW op, Beginning(t, op), Begin(t, op),
         UNCHANGED <<template, remote, local, workflows, child, torn>>,
         registered' \in [Workers -> Registrations], \A u \in Workers \ {t} : registered'[u] = registered[u],
         op.kind = "step" => registered'[t] = NoFunction
  PROVE  Inv'
<1> DEFINE seen == [x \in Files |-> IF x \in FilesOf(HostOf(t), About(op)) THEN Opened(remote[x]) ELSE 0]
           new == [op EXCEPT !.seen = seen]
<1>0. op \in Op
  BY DEF Beginning
<1>1. \A x \in Files : Opened(remote[x]) \in Versions
  BY StorageFacts DEF Inv, TypeOK
<1>2. seen \in [Files -> Versions] /\ \A x \in Files : seen[x] <= Opened(remote[x])
  <2>1. \A x \in Files : Opened(remote[x]) \in Nat
    BY <1>1, VersionFacts
  <2>2. seen \in [Files -> Versions]
    BY <1>1, VersionFacts
  <2>3. \A x \in Files : seen[x] = 0 \/ seen[x] = Opened(remote[x])
    OBVIOUS
  <2> HIDE DEF seen
  <2> QED
    BY <2>1, <2>2, <2>3
<1>3. Becomes(t, new)
  BY DEF Begin
<1> HIDE DEF seen
<1>4. /\ new \in Op /\ new.kind = op.kind /\ new.pc = op.pc /\ new.flow = op.flow /\ new.scope = op.scope
      /\ new.then = op.then /\ new.todo = op.todo /\ new.seen = seen
  BY <1>0, <1>2 DEF Op
<1> HIDE DEF new
<1>5. Shape(new)
  BY <1>4 DEF Shape, Beginning
<1>6. t \in Workers => CodeOK(new, registered'[t], local[t])
  BY <1>4 DEF CodeOK, Arriving, Beginning, Resting, Told
<1>7. \A f \in Flows : Opened(remote[DefFile(f)]) >= seen[DefFile(f)] /\ Opened(remote[CodeFile(f)]) >= seen[CodeFile(f)]
  <2> TAKE f \in Flows
  <2>1. DefFile(f) \in Files /\ CodeFile(f) \in Files
    BY FileFacts
  <2>2. /\ Opened(remote[DefFile(f)]) \in Nat /\ seen[DefFile(f)] \in Nat
        /\ Opened(remote[CodeFile(f)]) \in Nat /\ seen[CodeFile(f)] \in Nat
    BY <1>1, <1>2, <2>1, VersionFacts
  <2> QED
    BY <1>2, <2>1, <2>2
<1>8. DefOK(new, remote, local[HostOf(t)], Known(t))
  BY <1>4, <1>7 DEF DefOK, Arriving, Entering, Beginning
<1>9. budget' \in Budgets /\ budget'.changes = budget.changes
  BY Before DEF Begin, Budgets
<1> QED
  BY <1>3, <1>4, <1>5, <1>6, <1>7, <1>8, <1>9, Before, OpsStep DEF Beginning, Placed

LEMMA RequestsInv ==
  ASSUME Inv, NEW t \in Threads, NEW f \in Flows,
         RunWorkflow(t, f) \/ Relaunch(t, f) \/ RunNewWorkflow(t, f)
  PROVE  Inv'
<1> DEFINE op == [Idle EXCEPT !.kind = "launch", !.flow = f, !.pc = "lookup"]
<1>1. Beginning(t, op) /\ op.kind = "launch"
  <2>1. op \in Op /\ op.kind = "launch" /\ op.flow = f /\ op.pc = "lookup" /\ op.then = "load"
    BY IdleOp DEF Op, Pcs
  <2> HIDE DEF op
  <2> QED
    BY <2>1 DEF Beginning, Placed
<1>2. Begin(t, op) /\ UNCHANGED <<template, remote, local, workflows, child, torn, registered>>
  BY DEF RunWorkflow, Relaunch, RunNewWorkflow
<1>3. registered' \in [Workers -> Registrations]
  BY <1>2 DEF Inv, TypeOK, Registrations
<1> HIDE DEF op
<1> QED
  BY <1>1, <1>2, <1>3, BeginInv

LEMMA ExecuteStepInv ==
  ASSUME Inv, NEW t \in Threads, NEW f \in Flows, ExecuteStep(t, f)
  PROVE  Inv'
<1> DEFINE op == [Idle EXCEPT !.kind = "step", !.flow = f, !.pc = "lookup"]
<1>0. t \in Workers
  BY DEF ExecuteStep
<1>1. Beginning(t, op)
  <2>1. op \in Op /\ op.kind = "step" /\ op.flow = f /\ op.pc = "lookup" /\ op.then = "load"
    BY IdleOp DEF Op, Pcs
  <2> HIDE DEF op
  <2> QED
    BY <1>0, <2>1 DEF Beginning, Placed
<1>2. Begin(t, op) /\ UNCHANGED <<template, remote, local, workflows, child, torn>>
  BY DEF ExecuteStep
<1>3. /\ registered' \in [Workers -> Registrations] /\ registered'[t] = NoFunction
      /\ \A u \in Workers \ {t} : registered'[u] = registered[u]
  BY <1>0, VersionFacts DEF Inv, TypeOK, Registrations, ExecuteStep, NoFunction
<1> HIDE DEF op
<1> QED
  BY <1>1, <1>2, <1>3, BeginInv

LEMMA RefreshInv ==
  ASSUME Inv, NEW t \in Threads, RefreshStorage(t)
  PROVE  Inv'
<1> DEFINE start == [Idle EXCEPT !.kind = "refresh"]
           op == StartSync(t, start, Flows, Kinds, "load")
<1>1. Beginning(t, op) /\ op.kind = "refresh"
  <2>1. start \in Op /\ start.kind = "refresh" /\ start.flow = None
    BY IdleOp DEF Op
  <2> HIDE DEF start
  <2>2. Started(start, op, Flows, "load") /\ \A f \in Flows : DefFile(f) \in op.todo
    BY <2>1, StartSyncAll
  <2> HIDE DEF op
  <2> QED
    BY <2>1, <2>2 DEF Beginning, Started, SameTarget, Placed, RefreshStorage
<1>2. Begin(t, op) /\ UNCHANGED <<template, remote, local, workflows, child, torn, registered>>
  BY DEF RefreshStorage
<1>3. registered' \in [Workers -> Registrations]
  BY <1>2 DEF Inv, TypeOK, Registrations
<1> HIDE DEF op
<1> QED
  BY <1>1, <1>2, <1>3, BeginInv

-----------------------------------------------------------------------------
(* Copying files, and entering definitions.                                *)

\* A step that the other threads of the host notice in their work on S.
LEMMA AloneFrame ==
  ASSUME Inv, NEW t \in Threads, NEW new \in Op, NEW S, BecomesAlone(t, new, S),
         UNCHANGED <<remote, registered>>,
         \A u \in Threads :
           /\ HostOf(u) # HostOf(t) => local'[HostOf(u)] = local[HostOf(u)] /\ Known(u)' = Known(u)
           /\ HostOf(u) = HostOf(t) => \A f \in Flows \ S :
                /\ local'[HostOf(u)][DefFile(f)] = local[HostOf(u)][DefFile(f)]
                /\ Known(u)'[f] = Known(u)[f]
  PROVE  ops' \in [Threads -> Op] /\ ops'[t] = new /\ CodeGrows /\ \A u \in Threads \ {t} : Frame(u)
<1>1. \A u \in Threads : ops[u] \in Op /\ Disturb(ops[u], S) \in Op
  BY DisturbOp DEF Inv, TypeOK
<1>2. ops' \in [Threads -> Op] /\ ops'[t] = new
  BY <1>1 DEF BecomesAlone
<1>3. CodeGrows
  <2> SUFFICES ASSUME NEW f \in Flows PROVE Opened(remote[CodeFile(f)]) \in Nat
    BY DEF CodeGrows
  <2>1. remote[CodeFile(f)] \in [sealed : BOOLEAN, version : Versions]
    BY FileFacts DEF Inv, TypeOK
  <2> QED
    BY <2>1, StorageFacts, VersionFacts
<1>4. ASSUME NEW u \in Threads \ {t} PROVE Frame(u)
  <2>1. CASE HostOf(u) = HostOf(t)
    <3>1. ops'[u] = Disturb(ops[u], S) /\ u \notin Workers
      BY <1>4, <2>1, ThreadFacts DEF BecomesAlone
    <3>2. ops'[u] \in Op /\ Kept(ops[u], ops'[u]) /\ (Busy(ops[u]) => S \intersect About(ops[u]) \subseteq ops'[u].disturbed)
      BY <1>1, <3>1, DisturbOp
    <3> QED
      BY <2>1, <3>1, <3>2 DEF Frame
  <2>2. CASE HostOf(u) # HostOf(t)
    <3>1. ops'[u] = ops[u] /\ local'[HostOf(u)] = local[HostOf(u)] /\ Known(u)' = Known(u)
      BY <1>4, <2>2 DEF BecomesAlone
    <3>2. Kept(ops[u], ops'[u]) /\ (u \in Workers => local'[u] = local[u])
      BY <3>1, ThreadFacts DEF Kept
    <3> QED
      BY <1>1, <3>1, <3>2 DEF Frame
  <2> QED
    BY <2>1, <2>2
<1> QED
  BY <1>2, <1>3, <1>4

\* A step that changes files of S in the directory of the host.
LEMMA DirectoryStep ==
  ASSUME Inv, NEW t \in Threads, NEW new \in Op, NEW d \in [Files -> Versions], NEW S,
         BecomesAlone(t, new, S), SameTarget(new, ops[t]),
         local' = [local EXCEPT ![HostOf(t)] = d],
         \A f \in Flows \ S : d[DefFile(f)] = local[HostOf(t)][DefFile(f)],
         UNCHANGED <<template, remote, workflows, child, registered, torn>>,
         budget' \in Budgets, budget'.changes = budget.changes,
         Shape(new),
         t \in Workers => CodeOK(new, registered[t], d),
         DefOK(new, remote, d, Known(t))
  PROVE  Inv'
<1>1. \A u \in Threads : HostOf(u) \in Hosts /\ Known(u)' = Known(u)
  BY ThreadFacts DEF Known
<1>2. local' \in [Hosts -> [Files -> Versions]] /\ local'[HostOf(t)] = d
        /\ \A u \in Threads : HostOf(u) # HostOf(t) => local'[HostOf(u)] = local[HostOf(u)]
  BY <1>1 DEF Inv, TypeOK
<1>3. ops' \in [Threads -> Op] /\ ops'[t] = new /\ CodeGrows /\ \A u \in Threads \ {t} : Frame(u)
  <2>1. \A u \in Threads :
           /\ HostOf(u) # HostOf(t) => local'[HostOf(u)] = local[HostOf(u)] /\ Known(u)' = Known(u)
           /\ HostOf(u) = HostOf(t) => \A f \in Flows \ S :
                /\ local'[HostOf(u)][DefFile(f)] = local[HostOf(u)][DefFile(f)]
                /\ Known(u)'[f] = Known(u)[f]
    BY <1>1, <1>2
  <2> QED
    BY <2>1, AloneFrame
<1>4. TypeOK' /\ BoundInv'
  BY <1>2, <1>3 DEF Inv, TypeOK, BoundInv, Budgets
<1>5. Own(t)
  <2>1. \A f \in Flows : Opened(remote'[CodeFile(f)]) >= ops'[t].seen[CodeFile(f)]
    BY <1>3 DEF Inv, StepsInv, RemoteCodeInv, SameTarget
  <2>2. Placed(t, ops'[t])
    BY <1>3 DEF Inv, ShapeInv, SameTarget, Placed
  <2>3. t \in Workers => local'[t] = d
    BY <1>2, ThreadFacts
  <2>4. t \in Workers => CodeInv(t)'
    BY <1>3, <2>3 DEF CodeInv
  <2>5. DefInv(t)'
    BY <1>1, <1>2, <1>3 DEF DefInv
  <2> QED
    BY <1>3, <2>1, <2>2, <2>4, <2>5 DEF Own
<1> QED
  BY <1>3, <1>4, <1>5, ComposeOne

\* All or some of the directory is removed.
LEMMA RemovedInv ==
  ASSUME Inv, NEW t \in Threads, ops[t].pc = "remove",
         NEW X \in SUBSET FilesOf(HostOf(t), ops[t].scope), NEW d,
         d = [x \in Files |-> IF x \in X THEN 0 ELSE local[HostOf(t)][x]],
         NEW new \in Op, SameTarget(new, ops[t]), new.pc = "copy", new.then = ops[t].then, new.todo = ops[t].todo,
         new.disturbed = ops[t].disturbed, new.logged = ops[t].logged,
         new.stuck \/ (new.stuck = ops[t].stuck /\ X = FilesOf(HostOf(t), ops[t].scope)),
         local' = [local EXCEPT ![HostOf(t)] = d], BecomesAlone(t, new, ops[t].scope),
         budget' \in Budgets, budget'.changes = budget.changes,
         UNCHANGED <<template, remote, workflows, child, registered, torn>>
  PROVE  Inv'
<1> DEFINE op == ops[t]
           h == HostOf(t)
<1>0. op \in Op /\ h \in Hosts /\ op.scope \in SUBSET Flows
  BY Before DEF Op
<1>1. /\ d \in [Files -> Versions] /\ (\A x \in Files : d[x] \in Nat)
      /\ \A x \in Files : d[x] = 0 \/ (d[x] = local[h][x] /\ x \notin X)
  BY Before, VersionFacts
<1>2. \A f \in Flows \ op.scope : d[DefFile(f)] = local[h][DefFile(f)]
  BY <1>0, ScopeFacts, FileFacts
<1>3. Shape(new)
  BY <1>0, Before DEF Shape, SameTarget
<1>4. t \in Workers => CodeOK(new, registered[t], d)
  <2> SUFFICES ASSUME t \in Workers, op.kind = "step"
               PROVE  CodeOK(new, registered[t], d)
    BY DEF CodeOK, SameTarget
  <2> DEFINE x == CodeFile(op.flow)
  <2>1. h # Web /\ h = t /\ op.flow \in Flows /\ x \in Files
    BY ThreadFacts, Before, FileFacts DEF Shape
  <2>2. new.kind = "step" /\ new.flow = op.flow /\ new.seen = op.seen
    BY DEF SameTarget
  <2>3. registered[t] = NoFunction
    BY Before DEF CodeOK, Resting, Told
  <2>4. ~Missed(new) => ~Missed(op)
    BY <2>2 DEF Missed
  <2>5. op.then = "import" /\ ~Missed(op) => x \in op.todo \/ Safe(local[t][x], op.seen[x])
    BY Before DEF CodeOK, Arriving
  <2>6. Safe(local[t][x], op.seen[x]) => Safe(d[x], op.seen[x])
    BY <1>1, <2>1 DEF Safe
  <2>7. x \in op.todo => op.flow \in op.scope
    BY <2>1, Before, FileFacts DEF Shape
  <2>8. op.flow \in op.scope /\ X = FilesOf(h, op.scope) => d[x] = 0
    BY <1>0, <1>1, <2>1, ScopeFacts
  <2>9. op.then = "import" /\ ~new.stuck => Safe(d[x], op.seen[x])
    <3> SUFFICES ASSUME op.then = "import", ~new.stuck PROVE Safe(d[x], op.seen[x])
      OBVIOUS
    <3>1. ~Missed(op) /\ X = FilesOf(h, op.scope)
      BY <2>4 DEF Missed
    <3> QED
      BY <2>5, <2>6, <2>7, <2>8, <3>1 DEF Safe
  <2> QED
    BY <2>2, <2>3, <2>4, <2>5, <2>6, <2>9 DEF CodeOK, Arriving
<1>5. DefOK(new, remote, d, Known(t))
  <2> SUFFICES ASSUME NEW f \in Flows, Clear(new, f), op.then = "load"
               PROVE  /\ Opened(remote[DefFile(f)]) >= op.seen[DefFile(f)]
                      /\ DefFile(f) \in op.todo
    BY DEF DefOK, SameTarget
  <2>1. Clear(op, f)
    BY DEF Clear, About, SameTarget
  <2> QED
    BY <2>1, Before DEF DefOK
<1> QED
  BY <1>1, <1>2, <1>3, <1>4, <1>5, DirectoryStep

LEMMA RemoveInv ==
  ASSUME Inv, NEW t \in Threads, RemoveDirectory(t)
  PROVE  Inv'
<1> DEFINE op == ops[t]
           h == HostOf(t)
           X == FilesOf(h, op.scope)
           d == [x \in Files |-> IF x \in X THEN 0 ELSE local[h][x]]
           new == [op EXCEPT !.pc = "copy"]
<1>0. op \in Op /\ op.pc = "remove" /\ h \in Hosts
  BY Before DEF RemoveDirectory
<1>1. /\ new \in Op /\ SameTarget(new, op) /\ SameMarks(new, op) /\ new.pc = "copy" /\ new.then = op.then
      /\ new.todo = op.todo
  BY <1>0, PcOp DEF Pcs
<1>2. local' = [local EXCEPT ![h] = d] /\ BecomesAlone(t, new, op.scope)
  BY <1>0 DEF RemoveDirectory, Inv, TypeOK
<1>3. UNCHANGED <<template, remote, workflows, child, registered, torn, budget>>
  BY DEF RemoveDirectory
<1> HIDE DEF new, d
<1> QED
  BY <1>0, <1>1, <1>2, <1>3, Before, RemovedInv DEF SameMarks, d

LEMMA RemoveRaisesInv ==
  ASSUME Inv, NEW t \in Threads, RemoveRaises(t)
  PROVE  Inv'
<1> DEFINE op == ops[t]
           h == HostOf(t)
           new == [op EXCEPT !.pc = "copy", !.stuck = TRUE]
<1>0. op \in Op /\ op.pc = "remove" /\ h \in Hosts
  BY Before DEF RemoveRaises
<1>1. PICK X \in SUBSET FilesOf(h, op.scope) :
        local' = [local EXCEPT ![h] = [x \in Files |-> IF x \in X THEN 0 ELSE local[h][x]]]
  BY <1>0 DEF RemoveRaises, Inv, TypeOK
<1> DEFINE d == [x \in Files |-> IF x \in X THEN 0 ELSE local[h][x]]
<1>2. /\ new \in Op /\ SameTarget(new, op) /\ new.pc = "copy" /\ new.then = op.then /\ new.todo = op.todo
      /\ new.disturbed = op.disturbed /\ new.logged = op.logged /\ new.stuck
  <2> HIDE DEF op
  <2> QED
    BY <1>0 DEF Op, SameTarget, Pcs
<1>3. BecomesAlone(t, new, op.scope) /\ UNCHANGED <<template, remote, workflows, child, registered, torn>>
  BY DEF RemoveRaises
<1>4. budget' \in Budgets /\ budget'.changes = budget.changes
  BY Before DEF RemoveRaises, Budgets
<1> HIDE DEF new
<1>5. PICK e : e = d
  BY Zenon
<1> QED
  BY <1>0, <1>1, <1>2, <1>3, <1>4, <1>5, RemovedInv

\* The code of a step while its files are copied, in terms of what the directory will hold.
LEMMA CopyingCode ==
  ASSUME NEW op, NEW r, NEW d, op.kind = "step", op.pc \in {"copy", "write"}
  PROVE  CodeOK(op, r, d) <=>
           /\ r = NoFunction
           /\ op.then = "import" /\ ~op.stuck =>
                /\ Safe(d[CodeFile(op.flow)], op.seen[CodeFile(op.flow)])
                /\ Safe(Arriving(op, d, CodeFile(op.flow)), op.seen[CodeFile(op.flow)])
           /\ op.then = "import" /\ ~Missed(op) =>
                \/ CodeFile(op.flow) \in op.todo
                \/ Safe(Arriving(op, d, CodeFile(op.flow)), op.seen[CodeFile(op.flow)])
BY DEF CodeOK, Resting, Told

\* The definitions in the same terms.
LEMMA CopyingDef ==
  ASSUME NEW op, NEW s, NEW d, NEW k, op.pc \in {"copy", "write"}
  PROVE  DefOK(op, s, d, k) <=>
           \A f \in Flows : Clear(op, f) /\ op.then = "load" =>
             /\ Opened(s[DefFile(f)]) >= op.seen[DefFile(f)]
             /\ DefFile(f) \in op.todo \/ Arriving(op, d, DefFile(f)) >= op.seen[DefFile(f)]
BY DEF DefOK

LEMMA ReadFileInv ==
  ASSUME Inv, NEW t \in Threads, ReadFile(t)
  PROVE  Inv'
<1> DEFINE op == ops[t]
           h == HostOf(t)
           x == First(op.todo)
           v == Opened(remote[x])
           rest == [op EXCEPT !.todo = @ \ {x}]
<1>0. op \in Op /\ op.pc = "copy" /\ op.todo # {} /\ op.todo \subseteq Files /\ h \in Hosts
  BY Before DEF ReadFile, Shape
<1>1. x \in op.todo /\ x \in Files
  BY <1>0 DEF First
<1>2. v \in Versions /\ v \in Nat
  BY <1>1, StorageFacts, VersionFacts DEF Inv, TypeOK
<1>3. /\ rest \in Op /\ SameTarget(rest, op) /\ SameMarks(rest, op) /\ rest.pc = op.pc /\ rest.then = op.then
      /\ rest.todo = op.todo \ {x}
  BY <1>0, NextOp
<1>4. UNCHANGED <<template, remote, workflows, child, registered, torn, budget>>
  BY DEF ReadFile
<1>5. /\ v = 0 => Becomes(t, rest) /\ local' = local
      /\ v # 0 => /\ local' = [local EXCEPT ![h][x] = 0]
                  /\ BecomesAlone(t, [rest EXCEPT !.pc = "write", !.held = <<x, v>>], {x[1]})
  BY DEF ReadFile
<1>6. \A y \in Files : op.seen[y] \in Nat /\ local[h][y] \in Nat
  <2>1. op.seen \in [Files -> Versions]
    BY <1>0 DEF Op
  <2>2. local[h] \in [Files -> Versions]
    BY Before
  <2> HIDE DEF op, h
  <2> QED
    BY <2>1, <2>2, VersionFacts
\* What the storage has of the file is as new as what the operation has seen of it.
<1>7. op.kind = "step" /\ x = CodeFile(op.flow) => v >= op.seen[x]
  BY Before DEF Inv, StepsInv, RemoteCodeInv, Shape
<1>8. \A f \in Flows : Clear(op, f) /\ op.then = "load" =>
        /\ Opened(remote[DefFile(f)]) >= op.seen[DefFile(f)]
        /\ DefFile(f) \in op.todo \/ local[h][DefFile(f)] >= op.seen[DefFile(f)]
  BY <1>0, Before DEF DefOK, Arriving
<1>9. op.kind = "step" => /\ t \in Workers /\ h = t /\ op.flow \in Flows /\ CodeFile(op.flow) \in Files
                          /\ registered[t] = NoFunction
                          /\ op.then = "import" /\ ~op.stuck => Safe(local[h][CodeFile(op.flow)], op.seen[CodeFile(op.flow)])
                          /\ op.then = "import" /\ ~Missed(op) =>
                               \/ CodeFile(op.flow) \in op.todo
                               \/ Safe(local[h][CodeFile(op.flow)], op.seen[CodeFile(op.flow)])
  <2> SUFFICES ASSUME op.kind = "step"
               PROVE  /\ t \in Workers /\ h = t /\ op.flow \in Flows /\ CodeFile(op.flow) \in Files
                      /\ registered[t] = NoFunction
                      /\ op.then = "import" /\ ~op.stuck => Safe(local[h][CodeFile(op.flow)], op.seen[CodeFile(op.flow)])
                      /\ op.then = "import" /\ ~Missed(op) =>
                           \/ CodeFile(op.flow) \in op.todo
                           \/ Safe(local[h][CodeFile(op.flow)], op.seen[CodeFile(op.flow)])
    OBVIOUS
  <2>1. t \in Workers /\ h = t /\ op.flow \in Flows /\ CodeFile(op.flow) \in Files
    BY Before, ThreadFacts, FileFacts DEF Shape
  <2>2. CodeOK(op, registered[t], local[h])
    BY <2>1, Before
  <2> QED
    BY <1>0, <2>1, <2>2 DEF CodeOK, Arriving, Resting, Told
<1>10. CASE v = 0
  <2> HIDE DEF rest, x, v
  <2>1. Shape(rest)
    BY <1>0, <1>3, Before DEF Shape, SameTarget
  <2>2. t \in Workers => CodeOK(rest, registered[t], local[t])
    <3> SUFFICES ASSUME op.kind = "step" PROVE CodeOK(rest, registered[t], local[t])
      BY <1>3 DEF SameTarget, CodeOK
    <3>1. rest.kind = op.kind /\ rest.flow = op.flow /\ rest.seen = op.seen /\ rest.stuck = op.stuck /\ (Missed(rest) <=> Missed(op))
      BY <1>3, SameFacts DEF SameTarget, SameMarks
    <3>2. x = CodeFile(op.flow) => Safe(local[h][CodeFile(op.flow)], op.seen[CodeFile(op.flow)])
      BY <1>2, <1>6, <1>7, <1>9, <1>10 DEF Safe
    <3>3. Arriving(rest, local[t], CodeFile(op.flow)) = local[h][CodeFile(op.flow)]
      BY <1>0, <1>3, <1>9 DEF Arriving
    <3> QED
      BY <1>0, <1>3, <1>9, <3>1, <3>2, <3>3, CopyingCode
  <2>3. DefOK(rest, remote, local[HostOf(t)], Known(t))
    <3> SUFFICES ASSUME NEW f \in Flows, Clear(op, f), op.then = "load"
                 PROVE  /\ Opened(remote[DefFile(f)]) >= op.seen[DefFile(f)]
                        /\ DefFile(f) \in rest.todo \/ local[h][DefFile(f)] >= op.seen[DefFile(f)]
      BY <1>0, <1>3, SameFacts, CopyingDef DEF Arriving, SameTarget
    <3>1. x = DefFile(f) => local[h][DefFile(f)] >= op.seen[DefFile(f)]
      BY <1>2, <1>6, <1>8, <1>10, FileFacts DEF v
    <3> QED
      BY <1>3, <1>8, <3>1
  <2> QED
    BY <1>3, <1>4, <1>5, <1>10, <2>1, <2>2, <2>3, Before, PlainStep
<1>11. CASE v # 0
  <2> DEFINE d == [local[h] EXCEPT ![x] = 0]
             new == [rest EXCEPT !.pc = "write", !.held = <<x, v>>]
  <2>1. d \in [Files -> Versions] /\ d[x] = 0 /\ \A y \in Files \ {x} : d[y] = local[h][y]
    BY <1>1, VersionFacts, Before
  <2>2. local' = [local EXCEPT ![h] = d]
    BY <1>5, <1>11, <1>0 DEF Inv, TypeOK
  <2> HIDE DEF d, rest, x, v
  <2>3. /\ new \in Op /\ SameTarget(new, rest) /\ SameMarks(new, rest) /\ new.pc = "write" /\ new.then = op.then
        /\ new.todo = op.todo \ {x} /\ new.held = <<x, v>>
    <3>1. PICK held \in (Files \union {None}) \X Versions : held = <<x, v>>
      BY <1>1, <1>2
    <3>2. new = [rest EXCEPT !.pc = "write", !.held = held]
      BY <3>1
    <3> HIDE DEF new
    <3> QED
      BY <1>3, <3>1, <3>2 DEF Op, SameTarget, SameMarks, Pcs
  <2> HIDE DEF new
  <2>4. /\ BecomesAlone(t, new, {x[1]}) /\ SameTarget(new, op) /\ SameMarks(new, op)
        /\ new.held[1] = x /\ new.held[2] = v
    BY <1>3, <1>5, <1>11, <2>3 DEF new, SameTarget, SameMarks
  <2>5. Shape(new)
    BY <1>0, <1>1, <2>3, <2>4, Before DEF Shape, SameTarget
  <2>6. t \in Workers => CodeOK(new, registered[t], d)
    <3> SUFFICES ASSUME op.kind = "step" PROVE CodeOK(new, registered[t], d)
      BY <2>4 DEF SameTarget, CodeOK
    <3>1. new.kind = op.kind /\ new.flow = op.flow /\ new.seen = op.seen /\ new.stuck = op.stuck /\ (Missed(new) <=> Missed(op))
      BY <2>4, SameFacts DEF SameTarget, SameMarks
    <3>2. Safe(local[h][CodeFile(op.flow)], op.seen[CodeFile(op.flow)]) => Safe(d[CodeFile(op.flow)], op.seen[CodeFile(op.flow)])
      BY <1>9, <2>1 DEF Safe
    <3>3. x = CodeFile(op.flow) => Safe(Arriving(new, d, CodeFile(op.flow)), op.seen[CodeFile(op.flow)])
      BY <1>7, <2>3, <2>4 DEF Arriving, Safe
    <3>4. x # CodeFile(op.flow) => Arriving(new, d, CodeFile(op.flow)) = d[CodeFile(op.flow)]
      BY <2>4 DEF Arriving
    <3> QED
      BY <1>9, <2>3, <3>1, <3>2, <3>3, <3>4, CopyingCode
  <2>7. DefOK(new, remote, d, Known(t))
    <3> SUFFICES ASSUME NEW f \in Flows, Clear(op, f), op.then = "load"
                 PROVE  /\ Opened(remote[DefFile(f)]) >= op.seen[DefFile(f)]
                        /\ DefFile(f) \in new.todo \/ Arriving(new, d, DefFile(f)) >= op.seen[DefFile(f)]
      BY <2>3, <2>4, SameFacts, CopyingDef DEF SameTarget
    <3>1. DefFile(f) \in Files
      BY FileFacts
    <3>2. x = DefFile(f) => Arriving(new, d, DefFile(f)) = Opened(remote[DefFile(f)])
      BY <2>3, <2>4 DEF Arriving, v
    <3>3. x # DefFile(f) => Arriving(new, d, DefFile(f)) = local[h][DefFile(f)]
      BY <2>1, <2>4, <3>1 DEF Arriving
    <3> QED
      BY <1>8, <2>3, <3>2, <3>3
  <2>8. \A f \in Flows \ {x[1]} : d[DefFile(f)] = local[h][DefFile(f)]
    BY <2>1, FileFacts
  <2> QED
    BY <1>4, <2>1, <2>2, <2>3, <2>4, <2>5, <2>6, <2>7, <2>8, Before, DirectoryStep
<1> QED
  BY <1>10, <1>11

\* A file is skipped: it is marked, and what the directory has of it stays.
LEMMA SkipInv ==
  ASSUME Inv, NEW t \in Threads, ops[t].pc \in {"copy", "write"}, NEW x \in Files,
         NEW new \in Op, SameTarget(new, ops[t]), new.pc = "copy", new.then = ops[t].then,
         new.todo \subseteq Files, ops[t].todo \ {x} \subseteq new.todo,
         ops[t].pc = "write" => x = ops[t].held[1],
         new.stuck = ops[t].stuck,
         \A f : Clear(new, f) => Clear(ops[t], f) /\ DefFile(f) # x,
         ops[t].flow \in Flows => (~Missed(new) => ~Missed(ops[t]) /\ (ops[t].stuck => CodeFile(ops[t].flow) # x)),
         Becomes(t, new),
         budget' \in Budgets, budget'.changes = budget.changes,
         UNCHANGED <<template, remote, local, workflows, child, registered, torn>>
  PROVE  Inv'
<1> DEFINE op == ops[t]
           h == HostOf(t)
<1>1. Shape(new)
  BY Before DEF Shape, SameTarget
<1>2. t \in Workers => CodeOK(new, registered[t], local[t])
  <2> SUFFICES ASSUME t \in Workers, op.kind = "step" PROVE CodeOK(new, registered[t], local[t])
    BY DEF SameTarget, CodeOK
  <2>0. op.flow \in Flows /\ new.kind = "step" /\ new.flow = op.flow /\ new.seen = op.seen
    BY Before DEF Shape, SameTarget
  <2> DEFINE y == CodeFile(op.flow)
  <2>1. /\ registered[t] = NoFunction
        /\ op.then = "import" /\ ~op.stuck => Safe(local[t][y], op.seen[y])
        /\ op.then = "import" /\ ~Missed(op) => y \in op.todo \/ Safe(Arriving(op, local[t], y), op.seen[y])
    BY Before DEF CodeOK, Resting, Told
  <2>2. Arriving(new, local[t], y) = local[t][y] /\ (x # y => Arriving(op, local[t], y) = local[t][y])
    BY DEF Arriving
  <2>3. op.then = "import" /\ ~Missed(new) => y \in new.todo \/ Safe(local[t][y], op.seen[y])
    BY <2>0, <2>1, <2>2
  <2> QED
    BY <2>0, <2>1, <2>2, <2>3, CopyingCode
<1>3. DefOK(new, remote, local[h], Known(t))
  <2> SUFFICES ASSUME NEW f \in Flows, Clear(new, f), op.then = "load"
               PROVE  /\ Opened(remote[DefFile(f)]) >= op.seen[DefFile(f)]
                      /\ DefFile(f) \in new.todo \/ local[h][DefFile(f)] >= op.seen[DefFile(f)]
    BY CopyingDef DEF Arriving, SameTarget
  <2>1. Clear(op, f) /\ DefFile(f) # x
    OBVIOUS
  <2>2. /\ Opened(remote[DefFile(f)]) >= op.seen[DefFile(f)]
        /\ DefFile(f) \in op.todo \/ Arriving(op, local[h], DefFile(f)) >= op.seen[DefFile(f)]
    BY <2>1, Before DEF DefOK
  <2>3. Arriving(op, local[h], DefFile(f)) = local[h][DefFile(f)]
    BY <2>1 DEF Arriving
  <2> QED
    BY <2>1, <2>2, <2>3
<1> QED
  BY <1>1, <1>2, <1>3, PlainStep

LEMMA CopyRaisesInv ==
  ASSUME Inv, NEW t \in Threads, CopyRaises(t)
  PROVE  Inv'
<1> DEFINE op == ops[t]
<1>0. op \in Op /\ op.pc \in {"copy", "write"} /\ op.todo \subseteq Files
  BY Before DEF CopyRaises, Shape
<1>1. budget' \in Budgets /\ budget'.changes = budget.changes
  BY Before DEF CopyRaises, Budgets
<1>2. UNCHANGED <<template, remote, local, workflows, child, registered, torn>>
  BY DEF CopyRaises
<1>3. ASSUME NEW x \in Files, NEW rest \in Op, SameTarget(rest, op), SameMarks(rest, op), rest.pc = "copy",
             rest.then = op.then, rest.todo \subseteq Files, op.todo \ {x} \subseteq rest.todo,
             op.pc = "write" => x = op.held[1], Becomes(t, Logged(rest, {x}))
      PROVE  Inv'
  <2> DEFINE new == Logged(rest, {x})
  <2>1. /\ new \in Op /\ SameTarget(new, rest) /\ new.pc = rest.pc /\ new.then = rest.then /\ new.todo = rest.todo
        /\ new.stuck = rest.stuck
        /\ \A f : Clear(new, f) => Clear(rest, f) /\ DefFile(f) \notin {x}
        /\ rest.flow \in Flows => (~Missed(new) => ~Missed(rest) /\ (rest.stuck => CodeFile(rest.flow) \notin {x}))
    <3>1. {x} \in SUBSET Files
      BY <1>3
    <3> QED
      BY <1>3, <3>1, LoggedOp
  <2>2. Becomes(t, new)
    BY <1>3
  <2> HIDE DEF new
  <2>3. SameTarget(new, op) /\ new.stuck = op.stuck
    BY <1>3, <2>1 DEF SameTarget, SameMarks
  <2>4. (Missed(rest) <=> Missed(op)) /\ \A f : Clear(rest, f) <=> Clear(op, f)
    BY <1>3, SameFacts
  <2>5. rest.flow = op.flow /\ rest.stuck = op.stuck
    BY <1>3 DEF SameTarget, SameMarks
  <2>6. \A f : Clear(new, f) => Clear(op, f) /\ DefFile(f) # x
    BY <2>1, <2>4
  <2>7. op.flow \in Flows => (~Missed(new) => ~Missed(op) /\ (op.stuck => CodeFile(op.flow) # x))
    BY <2>1, <2>4, <2>5
  <2>8. new.todo \subseteq Files /\ op.todo \ {x} \subseteq new.todo /\ new.pc = "copy" /\ new.then = op.then
    BY <1>3, <2>1
  <2> QED
    BY <1>0, <1>1, <1>2, <1>3, <2>1, <2>2, <2>3, <2>6, <2>7, <2>8, SkipInv
<1>4. CASE op.pc = "copy"
  <2> DEFINE x == First(op.todo)
             rest == [op EXCEPT !.todo = @ \ {x}]
  <2>1. op.todo # {} /\ Becomes(t, Logged(rest, {x}))
    BY <1>4 DEF CopyRaises
  <2>2. x \in Files
    BY <1>0, <2>1 DEF First
  <2>3. /\ rest \in Op /\ SameTarget(rest, op) /\ SameMarks(rest, op) /\ rest.pc = op.pc /\ rest.then = op.then
        /\ rest.todo = op.todo \ {x}
    BY <1>0, NextOp
  <2> HIDE DEF rest, x
  <2> QED
    BY <1>0, <1>3, <1>4, <2>1, <2>2, <2>3
<1>5. CASE op.pc = "write"
  <2> DEFINE x == op.held[1]
             rest == [op EXCEPT !.pc = "copy", !.held = <<None, 0>>]
  <2>1. Becomes(t, Logged(rest, {x})) /\ x \in Files
    BY <1>5, Before DEF CopyRaises, Shape
  <2>2. /\ rest \in Op /\ SameTarget(rest, op) /\ SameMarks(rest, op) /\ rest.pc = "copy" /\ rest.then = op.then
        /\ rest.todo = op.todo
    BY <1>0, CopiedOp DEF Pcs
  <2> HIDE DEF rest
  <2> QED
    BY <1>0, <1>3, <1>5, <2>1, <2>2
<1> QED
  BY <1>0, <1>4, <1>5

LEMMA WriteFileInv ==
  ASSUME Inv, NEW t \in Threads, WriteFile(t)
  PROVE  Inv'
<1> DEFINE op == ops[t]
           h == HostOf(t)
           x == op.held[1]
           v == op.held[2]
           d == [local[h] EXCEPT ![x] = v]
           new == [op EXCEPT !.pc = "copy", !.held = <<None, 0>>]
<1>0. op \in Op /\ op.pc = "write" /\ x \in Files /\ v \in Versions /\ h \in Hosts
  BY Before DEF WriteFile, Shape, Op
<1>1. /\ local' = [local EXCEPT ![h] = d] /\ BecomesAlone(t, new, {x[1]})
      /\ UNCHANGED <<template, remote, workflows, child, registered, torn, budget>>
  BY <1>0 DEF WriteFile, Inv, TypeOK
<1>2. d \in [Files -> Versions] /\ d[x] = v /\ \A y \in Files \ {x} : d[y] = local[h][y]
  BY <1>0, Before
<1> HIDE DEF d
<1>3. /\ new \in Op /\ SameTarget(new, op) /\ SameMarks(new, op) /\ new.pc = "copy" /\ new.then = op.then
      /\ new.todo = op.todo
  BY <1>0, CopiedOp DEF Pcs
<1> HIDE DEF new
<1>4. Shape(new)
  BY <1>0, <1>3, Before DEF Shape, SameTarget
<1>5. new.kind = op.kind /\ new.flow = op.flow /\ new.seen = op.seen /\ new.stuck = op.stuck /\ (Missed(new) <=> Missed(op))
  BY <1>3, SameFacts DEF SameTarget, SameMarks
<1>6. t \in Workers => CodeOK(new, registered[t], d)
  <2> SUFFICES ASSUME t \in Workers, op.kind = "step" PROVE CodeOK(new, registered[t], d)
    BY <1>5 DEF CodeOK
  <2> DEFINE y == CodeFile(op.flow)
  <2>1. h = t /\ op.flow \in Flows /\ y \in Files
    BY ThreadFacts, Before, FileFacts DEF Shape
  <2>2. /\ registered[t] = NoFunction
        /\ op.then = "import" /\ ~op.stuck => Safe(Arriving(op, local[h], y), op.seen[y])
        /\ op.then = "import" /\ ~Missed(op) => y \in op.todo \/ Safe(Arriving(op, local[h], y), op.seen[y])
    BY <1>0, <2>1, Before DEF CodeOK, Resting, Told
  <2>3. Arriving(op, local[h], y) = d[y] /\ Arriving(new, d, y) = d[y]
    BY <1>0, <1>2, <1>3, <2>1 DEF Arriving
  <2> QED
    BY <1>3, <1>5, <2>2, <2>3, CopyingCode
<1>7. DefOK(new, remote, d, Known(t))
  <2> SUFFICES ASSUME NEW f \in Flows, Clear(op, f), op.then = "load"
               PROVE  /\ Opened(remote[DefFile(f)]) >= op.seen[DefFile(f)]
                      /\ DefFile(f) \in op.todo \/ d[DefFile(f)] >= op.seen[DefFile(f)]
    BY <1>3, SameFacts, CopyingDef DEF Arriving, SameTarget
  <2>1. Arriving(op, local[h], DefFile(f)) = d[DefFile(f)]
    BY <1>0, <1>2, FileFacts DEF Arriving
  <2> QED
    BY <1>0, <2>1, Before DEF DefOK
<1>8. \A f \in Flows \ {x[1]} : d[DefFile(f)] = local[h][DefFile(f)]
  BY <1>2, FileFacts
<1> QED
  BY <1>1, <1>2, <1>3, <1>4, <1>6, <1>7, <1>8, Before, DirectoryStep

LEMMA EnterInv ==
  ASSUME Inv, NEW t \in Threads, EnterDefinition(t)
  PROVE  Inv'
<1> DEFINE op == ops[t]
           f == op.held[1][1]
           v == op.held[2]
           d == [Known(t) EXCEPT ![f] = v]
           new == [op EXCEPT !.pc = "load", !.held = <<None, 0>>]
<1>0. op \in Op /\ op.pc = "enter" /\ f \in Flows /\ op.held[1] = DefFile(f) /\ v \in Versions /\ v # 0
  BY Before DEF EnterDefinition, Shape, Op, DefFile
<1>1. d \in [Flows -> Versions] /\ d[f] = v /\ \A g \in Flows \ {f} : d[g] = Known(t)[g]
  BY <1>0, Before
<1>2. UNCHANGED <<template, remote, local, registered, torn, budget>> /\ BecomesAlone(t, new, {f})
  BY DEF EnterDefinition
<1>3. /\ workflows' \in [Hosts -> [Flows -> Versions]] /\ child' \in [Workers -> [Flows -> Versions]]
      /\ Known(t)' = d
      /\ \A u \in Threads : HostOf(u) # HostOf(t) => Known(u)' = Known(u)
  <2>0. workflows \in [Hosts -> [Flows -> Versions]] /\ child \in [Workers -> [Flows -> Versions]] /\ Web \in Hosts
    BY DEF Inv, TypeOK, Hosts
  <2>1. CASE t \in WebThreads
    <3>1. workflows' = [workflows EXCEPT ![Web] = d] /\ child' = child
      BY <2>0, <2>1 DEF EnterDefinition, Known
    <3>2. \A u \in Threads : HostOf(u) # HostOf(t) => u \notin WebThreads
      BY <2>1 DEF HostOf
    <3> HIDE DEF d
    <3> QED
      BY <1>1, <2>0, <2>1, <3>1, <3>2 DEF Known
  <2>2. CASE t \notin WebThreads
    <3>0. t \in Workers
      BY <2>2 DEF Threads
    <3>1. child' = [child EXCEPT ![t] = d] /\ workflows' = workflows
      BY <2>0, <2>2, <3>0 DEF EnterDefinition, Known
    <3>2. \A u \in Threads : HostOf(u) # HostOf(t) => u # t
      OBVIOUS
    <3> HIDE DEF d
    <3> QED
      BY <1>1, <2>0, <2>2, <3>0, <3>1, <3>2 DEF Known, Threads
  <2> QED
    BY <2>1, <2>2
<1> HIDE DEF d
<1>4. /\ new \in Op /\ SameTarget(new, op) /\ SameMarks(new, op) /\ new.pc = "load" /\ new.then = op.then
      /\ new.todo = op.todo
  BY <1>0, CopiedOp DEF Pcs
<1> HIDE DEF new
<1>5. ops' \in [Threads -> Op] /\ ops'[t] = new /\ CodeGrows /\ \A u \in Threads \ {t} : Frame(u)
  <2>1. \A u \in Threads : HostOf(u) = HostOf(t) => Known(u) = Known(t) /\ Known(u)' = Known(t)'
    BY ThreadFacts DEF Known, Threads
  <2>2. \A u \in Threads :
           /\ HostOf(u) # HostOf(t) => local'[HostOf(u)] = local[HostOf(u)] /\ Known(u)' = Known(u)
           /\ HostOf(u) = HostOf(t) => \A g \in Flows \ {f} :
                /\ local'[HostOf(u)][DefFile(g)] = local[HostOf(u)][DefFile(g)]
                /\ Known(u)'[g] = Known(u)[g]
    BY <1>1, <1>2, <1>3, <2>1
  <2> QED
    BY <1>2, <1>4, <2>2, AloneFrame
<1>6. TypeOK' /\ BoundInv'
  BY <1>2, <1>3, <1>5 DEF Inv, TypeOK, BoundInv
<1>7. Shape(new)
  BY <1>0, <1>4, Before DEF Shape, SameTarget
<1>8. t \in Workers => CodeOK(new, registered[t], local[t])
  BY <1>0, <1>4, Before DEF CodeOK, SameTarget, Resting, Told
<1>9. DefOK(new, remote, local[HostOf(t)], d)
  <2> SUFFICES ASSUME NEW g \in Flows, Clear(op, g)
               PROVE  /\ local[HostOf(t)][DefFile(g)] >= new.seen[DefFile(g)]
                      /\ g \in new.todo \/ d[g] >= new.seen[DefFile(g)]
    BY <1>4, SameFacts DEF DefOK, Entering
  <2>1. /\ local[HostOf(t)][DefFile(g)] >= op.seen[DefFile(g)]
        /\ g \in op.todo \/ Entering(op, Known(t), g) >= op.seen[DefFile(g)]
    BY <1>0, <1>4, Before DEF DefOK
  <2>2. Entering(op, Known(t), g) = d[g]
    <3>1. CASE g = f
      BY <1>0, <1>1, <3>1 DEF Entering
    <3>2. CASE g # f
      BY <1>0, <1>1, <3>2, FileFacts DEF Entering
    <3> QED
      BY <3>1, <3>2
  <2> QED
    BY <1>4, <2>1, <2>2 DEF SameTarget
<1>10. Own(t)
  <2>1. \A g \in Flows : Opened(remote'[CodeFile(g)]) >= ops'[t].seen[CodeFile(g)]
    BY <1>2, <1>4, <1>5 DEF Inv, StepsInv, RemoteCodeInv, SameTarget
  <2>2. Placed(t, ops'[t])
    BY <1>4, <1>5 DEF Inv, ShapeInv, SameTarget, Placed
  <2>3. t \in Workers => CodeInv(t)'
    BY <1>2, <1>5, <1>8 DEF CodeInv
  <2>4. DefInv(t)'
    BY <1>2, <1>3, <1>5, <1>9 DEF DefInv
  <2> QED
    BY <1>5, <1>7, <2>1, <2>2, <2>3, <2>4 DEF Own
<1> QED
  BY <1>5, <1>6, <1>10, ComposeOne

-----------------------------------------------------------------------------
(* Changes of the storage and of the templates.                            *)

LEMMA UploadInv ==
  ASSUME Inv, NEW f \in Flows, UploadCode(f)
  PROVE  Inv'
<1> DEFINE x == CodeFile(f)
           v == remote[x].version
<1>0. x \in Files /\ remote[x] \in [sealed : BOOLEAN, version : Versions] /\ v \in Versions /\ v \in Nat
  BY FileFacts, VersionFacts DEF Inv, TypeOK
<1>1. budget \in Budgets /\ budget.changes \in Nat /\ budget.changes > 0
  BY DEF UploadCode, Inv, TypeOK, Budgets
<1>2. v + budget.changes <= MaxVersion /\ MaxVersion \in Nat
  BY VersionFacts DEF Inv, BoundInv
<1>3. v + 1 \in Versions
  BY <1>0, <1>1, <1>2 DEF Versions
<1>4. remote' = [remote EXCEPT ![x] = Stored(v + 1)] /\ UNCHANGED <<template, local, workflows, child, registered, ops, torn>>
  BY DEF UploadCode, CodeFile
<1>5. budget' \in Budgets /\ budget'.changes = budget.changes - 1
  BY <1>1 DEF UploadCode, Budgets
<1>6. /\ remote' \in [Files -> [sealed : BOOLEAN, version : Versions]]
      /\ remote'[x] = Stored(v + 1) /\ \A y \in Files \ {x} : remote'[y] = remote[y]
  BY <1>0, <1>3, <1>4, StorageFacts DEF Inv, TypeOK
<1>7. TypeOK'
  BY <1>4, <1>5, <1>6 DEF Inv, TypeOK, Budgets
<1>8. \A g \in Flows : template[g] \in Nat /\ remote[CodeFile(g)].version \in Nat
  BY FileFacts, VersionFacts DEF Inv, TypeOK
<1>9. BoundInv'
  <2> SUFFICES ASSUME NEW g \in Flows
               PROVE  /\ template[g] + budget'.changes <= MaxVersion
                      /\ remote'[CodeFile(g)].version + budget'.changes <= MaxVersion
    BY <1>4 DEF BoundInv, MaxVersion
  <2>1. /\ template[g] + budget.changes <= MaxVersion
        /\ remote[CodeFile(g)].version + budget.changes <= MaxVersion
    BY DEF Inv, BoundInv
  <2>2. CASE g = f
    <3>1. remote'[CodeFile(g)].version = v + 1
      BY <1>6, <2>2 DEF Stored
    <3> QED
      BY <1>0, <1>1, <1>2, <1>5, <1>8, <2>1, <3>1
  <2>3. CASE g # f
    <3>1. remote'[CodeFile(g)] = remote[CodeFile(g)]
      BY <1>6, <2>3, FileFacts
    <3> QED
      BY <1>1, <1>2, <1>5, <1>8, <2>1, <3>1
  <2> QED
    BY <2>2, <2>3
<1>10. CodeGrows
  <2> SUFFICES ASSUME NEW g \in Flows PROVE Opened(remote'[CodeFile(g)]) >= Opened(remote[CodeFile(g)])
    BY DEF CodeGrows
  <2>1. remote[CodeFile(g)] \in [sealed : BOOLEAN, version : Versions]
    BY FileFacts DEF Inv, TypeOK
  <2>2. Opened(remote[CodeFile(g)]) \in Nat /\ Opened(remote[CodeFile(g)]) <= remote[CodeFile(g)].version
    BY <2>1, StorageFacts, VersionFacts
  <2>3. CASE g = f
    <3>1. Opened(remote'[CodeFile(g)]) = v + 1
      BY <1>3, <1>6, <2>3, StorageFacts
    <3> QED
      BY <1>0, <2>2, <2>3, <3>1
  <2>4. CASE g # f
    <3>1. remote'[CodeFile(g)] = remote[CodeFile(g)]
      BY <1>6, <2>4, FileFacts
    <3> QED
      BY <2>2, <3>1
  <2> QED
    BY <2>3, <2>4
<1>11. \A u \in Threads : Frame(u)
  <2> TAKE u \in Threads
  <2>1. ops'[u] = ops[u] /\ ops[u] \in Op /\ Kept(ops[u], ops'[u])
    BY <1>4 DEF Inv, TypeOK, Kept
  <2>2. Known(u)' = Known(u)
    BY <1>4 DEF Known
  <2>3. \A g \in Flows : remote'[DefFile(g)] = remote[DefFile(g)]
    BY <1>6, FileFacts
  <2> QED
    BY <1>4, <2>1, <2>2, <2>3 DEF Frame
<1>12. {} \in SUBSET Threads /\ \A t \in {} : Own(t)
  OBVIOUS
<1> QED
  BY <1>7, <1>9, <1>10, <1>11, <1>12, Compose

LEMMA UpdateInv ==
  ASSUME Inv, NEW t \in Threads, NEW f \in Flows, UpdateTemplate(t, f)
  PROVE  Inv'
<1> DEFINE v == template[f] + 1
           new == [Idle EXCEPT !.kind = "edit", !.flow = f, !.pc = "delete", !.held = <<<<f, "definition">>, v>>]
<1>1. budget \in Budgets /\ budget.changes \in Nat /\ budget.changes > 0
  BY DEF UpdateTemplate, Inv, TypeOK, Budgets
<1>2. \A g \in Flows : template[g] \in Nat /\ template[g] + budget.changes <= MaxVersion
                         /\ remote[CodeFile(g)].version \in Nat /\ remote[CodeFile(g)].version + budget.changes <= MaxVersion
  BY FileFacts, VersionFacts DEF Inv, TypeOK, BoundInv
<1>3. v \in Versions /\ MaxVersion \in Nat
  BY <1>1, <1>2, VersionFacts DEF Versions
<1>4. budget' \in Budgets /\ budget'.changes = budget.changes - 1
  BY <1>1 DEF UpdateTemplate, Budgets
<1>5. Becomes(t, new) /\ UNCHANGED <<remote, local, workflows, child, registered>>
  BY DEF UpdateTemplate
<1>6. template' \in [Flows -> Versions] /\ template'[f] = v /\ \A g \in Flows \ {f} : template'[g] = template[g]
  BY <1>3 DEF UpdateTemplate, Inv, TypeOK
<1>7. torn' \in [Flows -> BOOLEAN]
  <2>1. (Editing(f) # {}) \in BOOLEAN
    BY Zenon
  <2> QED
    BY <2>1 DEF UpdateTemplate, Overlapping, Inv, TypeOK
<1>8. /\ new \in Op /\ new.kind = "edit" /\ new.flow = f /\ new.pc = "delete" /\ new.then = "load"
      /\ new.held[1] = DefFile(f) /\ new.seen = Idle.seen
  <2>1. PICK held \in (Files \union {None}) \X Versions : held = <<DefFile(f), v>>
    BY <1>3, FileFacts
  <2>2. new = [Idle EXCEPT !.kind = "edit", !.flow = f, !.pc = "delete", !.held = held]
    BY <2>1 DEF DefFile
  <2>3. held[1] = DefFile(f)
    BY <2>1
  <2> HIDE DEF new
  <2> QED
    BY <2>2, <2>3, IdleOp DEF Op, Pcs
<1> HIDE DEF new, v
<1>9. \A u \in Threads : local'[HostOf(u)] = local[HostOf(u)] /\ Known(u)' = Known(u)
  BY <1>5 DEF Known
<1>10. ops' \in [Threads -> Op] /\ ops'[t] = new /\ \A u \in Threads \ {t} : Frame(u)
  BY <1>5, <1>8, <1>9, BecomesFrame DEF Inv
<1>11. TypeOK'
  BY <1>4, <1>5, <1>6, <1>7, <1>10 DEF Inv, TypeOK, Budgets
<1>12. BoundInv'
  <2> SUFFICES ASSUME NEW g \in Flows
               PROVE  /\ template'[g] + budget'.changes <= MaxVersion
                      /\ remote[CodeFile(g)].version + budget'.changes <= MaxVersion
    BY <1>5 DEF BoundInv, MaxVersion
  <2> QED
    BY <1>1, <1>2, <1>3, <1>4, <1>6 DEF v
<1>13. \A g \in Flows : Opened(remote[CodeFile(g)]) \in Nat /\ CodeFile(g) \in Files
  BY StorageFacts, FileFacts, VersionFacts DEF Inv, TypeOK
<1>14. CodeGrows
  BY <1>5, <1>13 DEF CodeGrows
<1>15. Own(t)
  <2>1. Shape(new) /\ Placed(t, new)
    BY <1>8 DEF Shape, Placed
  <2>2. \A r, d : CodeOK(new, r, d)
    BY <1>8 DEF CodeOK
  <2>3. \A s, l, d : DefOK(new, s, l, d)
    BY <1>8 DEF DefOK
  <2>4. \A g \in Flows : Opened(remote[CodeFile(g)]) >= new.seen[CodeFile(g)]
    BY <1>8, <1>13, IdleOp
  <2> QED
    BY <1>5, <1>10, <2>1, <2>2, <2>3, <2>4 DEF Own, CodeInv, DefInv
<1> QED
  BY <1>10, <1>11, <1>12, <1>14, <1>15, ComposeOne

\* An editor writes the file of its template, which every operation notices.
LEMMA FileStep ==
  ASSUME Inv, NEW t \in Threads, ops[t].pc \in {"delete", "put"},
         NEW new \in Op, new = Idle \/ (SameTarget(new, ops[t]) /\ new.held = ops[t].held /\ new.pc = "put" /\ new.then = ops[t].then),
         NEW c \in [sealed : BOOLEAN, version : Versions],
         remote' = [remote EXCEPT ![ops[t].held[1]] = c],
         BecomesPublic(t, new, {ops[t].flow}),
         UNCHANGED <<template, local, workflows, child, registered, torn, budget>>
  PROVE  Inv'
<1> DEFINE op == ops[t]
<1>0. op.kind = "edit" /\ op.flow \in Flows /\ op.held[1] = DefFile(op.flow) /\ DefFile(op.flow) \in Files
  BY Before, FileFacts DEF Shape
<1>1. \A u \in Threads : ops[u] \in Op /\ Disturb(ops[u], {op.flow}) \in Op
  BY DisturbOp DEF Inv, TypeOK
<1>2. ops' \in [Threads -> Op] /\ ops'[t] = new /\ \A u \in Threads \ {t} : ops'[u] = Disturb(ops[u], {op.flow})
  BY <1>1 DEF BecomesPublic
<1>3. /\ remote' \in [Files -> [sealed : BOOLEAN, version : Versions]]
      /\ \A f \in Flows : remote'[CodeFile(f)] = remote[CodeFile(f)]
      /\ \A f \in Flows \ {op.flow} : remote'[DefFile(f)] = remote[DefFile(f)]
  <2>1. /\ \A f \in Flows : CodeFile(f) \in Files /\ CodeFile(f) # op.held[1]
        /\ \A f \in Flows \ {op.flow} : DefFile(f) \in Files /\ DefFile(f) # op.held[1]
    BY <1>0, FileFacts
  <2> QED
    BY <1>0, <2>1 DEF Inv, TypeOK
<1>4. TypeOK' /\ BoundInv'
  BY <1>2, <1>3 DEF Inv, TypeOK, BoundInv
<1>5. \A f \in Flows : Opened(remote[CodeFile(f)]) \in Nat
  BY StorageFacts, FileFacts, VersionFacts DEF Inv, TypeOK
<1>6. CodeGrows
  BY <1>3, <1>5 DEF CodeGrows
<1>7. ASSUME NEW u \in Threads \ {t} PROVE Frame(u)
  <2>1. /\ ops'[u] \in Op /\ Kept(ops[u], ops'[u])
        /\ Busy(ops[u]) => {op.flow} \intersect About(ops[u]) \subseteq ops'[u].disturbed
    BY <1>1, <1>2, DisturbOp
  <2>2. Known(u)' = Known(u)
    BY DEF Known
  <2> QED
    BY <1>3, <2>1, <2>2 DEF Frame
<1>8. Own(t)
  <2>1. Shape(new) /\ Placed(t, new) /\ (\A r, d : CodeOK(new, r, d)) /\ (\A s, l, d : DefOK(new, s, l, d))
    <3>1. CASE new = Idle
      BY <3>1, IdleOK
    <3>2. CASE new # Idle
      <4>1. new.kind = "edit" /\ new.flow = op.flow /\ new.pc = "put" /\ new.held = op.held /\ new.then = "load"
        BY <1>0, <3>2, Before DEF SameTarget, Shape, Op
      <4> QED
        BY <1>0, <4>1 DEF Shape, Placed, CodeOK, DefOK
    <3> QED
      BY <3>1, <3>2
  <2>2. \A f \in Flows : Opened(remote'[CodeFile(f)]) >= new.seen[CodeFile(f)]
    <3>1. CASE new = Idle
      BY <1>3, <1>5, <3>1, IdleOp, FileFacts
    <3>2. CASE new # Idle
      BY <1>3, <3>2 DEF Inv, StepsInv, RemoteCodeInv, SameTarget
    <3> QED
      BY <3>1, <3>2
  <2> QED
    BY <1>2, <2>1, <2>2 DEF Own, CodeInv, DefInv
<1> QED
  BY <1>4, <1>6, <1>7, <1>8, ComposeOne

LEMMA DeleteInv ==
  ASSUME Inv, NEW t \in Threads, GetAvailableName(t)
  PROVE  Inv'
<1> DEFINE op == ops[t]
           new == [op EXCEPT !.pc = "put"]
<1>0. op \in Op /\ op.pc = "delete"
  BY Before DEF GetAvailableName
<1>1. new \in Op /\ SameTarget(new, op) /\ new.pc = "put" /\ new.then = op.then /\ new.held = op.held
  BY <1>0, PcOp DEF Pcs
<1>2. BecomesPublic(t, new, {op.flow}) /\ UNCHANGED <<template, local, workflows, child, registered, torn, budget>>
  BY DEF GetAvailableName
<1> HIDE DEF new
<1>3. remote' = [remote EXCEPT ![op.held[1]] = Absent] /\ Absent \in [sealed : BOOLEAN, version : Versions]
  BY StorageFacts DEF GetAvailableName
<1> QED
  BY <1>0, <1>1, <1>2, <1>3, FileStep

LEMMA PutInv ==
  ASSUME Inv, NEW t \in Threads, SaveToStorage(t)
  PROVE  Inv'
<1> DEFINE op == ops[t]
<1>0. op \in Op /\ op.pc = "put" /\ op.held[2] \in Versions
  BY Before DEF SaveToStorage, Op
<1>1. BecomesPublic(t, Idle, {op.flow}) /\ UNCHANGED <<template, local, workflows, child, registered, torn, budget>>
  BY EndsIdle DEF SaveToStorage
<1>2. /\ remote' = [remote EXCEPT ![op.held[1]] = Stored(op.held[2])]
      /\ Stored(op.held[2]) \in [sealed : BOOLEAN, version : Versions]
  BY <1>0, StorageFacts DEF SaveToStorage
<1> QED
  BY <1>0, <1>1, <1>2, IdleOp, FileStep

-----------------------------------------------------------------------------
(* Processes come and go.                                                  *)

LEMMA RecycleInv ==
  ASSUME Inv, NEW w \in Threads, RecycleChild(w)
  PROVE  Inv'
<1>0. w \in Workers /\ w \in Hosts /\ ops[w].pc \in Resting
  BY DEF RecycleChild, Free, Hosts
<1>1. UNCHANGED <<template, remote, local, workflows, ops, torn, budget>>
  BY DEF RecycleChild
<1>2. /\ child' \in [Workers -> [Flows -> Versions]] /\ \A u \in Workers \ {w} : child'[u] = child[u]
      /\ registered' \in [Workers -> Registrations] /\ \A u \in Workers \ {w} : registered'[u] = registered[u]
  BY <1>0, VersionFacts DEF RecycleChild, Inv, TypeOK, Registrations, NoFunction
<1>3. TypeOK' /\ BoundInv'
  BY <1>1, <1>2 DEF Inv, TypeOK, BoundInv, Registrations
<1>4. CodeGrows
  <2>1. \A f \in Flows : Opened(remote[CodeFile(f)]) \in Nat
    BY StorageFacts, FileFacts, VersionFacts DEF Inv, TypeOK
  <2> QED
    BY <1>1, <2>1 DEF CodeGrows
<1>5. ASSUME NEW u \in Threads \ {w} PROVE Frame(u)
  <2>1. Known(u)' = Known(u)
    BY <1>1, <1>2 DEF Known, Threads
  <2>2. ops[u] \in Op /\ Kept(ops[u], ops'[u])
    BY <1>1 DEF Inv, TypeOK, Kept
  <2> QED
    BY <1>1, <1>2, <2>1, <2>2 DEF Frame
<1>6. Own(w)
  <2>1. CodeOK(ops[w], registered'[w], local[w])
    BY <1>0, Before DEF CodeOK, Resting, Told
  <2>2. ops[w].pc # "refreshed"
    BY <1>0, Before, ThreadFacts DEF Shape, Placed
  <2>3. \A d : DefOK(ops[w], remote, local[HostOf(w)], d)
    BY <1>0, <2>2, Before DEF DefOK, Resting, Told
  <2> QED
    BY <1>1, <2>1, <2>3, Before DEF Own, CodeInv, DefInv, Inv, StepsInv, RemoteCodeInv
<1> QED
  BY <1>3, <1>4, <1>5, <1>6, ComposeOne

LEMMA RestartInv ==
  ASSUME Inv, NEW h \in Hosts, Restart(h)
  PROVE  Inv'
<1> DEFINE d == [f \in Flows |-> local[h][DefFile(f)]]
           T == {t \in Threads : HostOf(t) = h}
<1>0. d \in [Flows -> Versions]
  BY FileFacts DEF Inv, TypeOK
<1>1. /\ workflows' = [workflows EXCEPT ![h] = d]
      /\ child' = IF h \in Workers THEN [child EXCEPT ![h] = d] ELSE child
      /\ registered' = IF h \in Workers THEN [registered EXCEPT ![h] = NoFunction] ELSE registered
      /\ UNCHANGED <<template, remote, local>>
  BY DEF Restart, DefFile
<1> HIDE DEF d
<1>2. /\ workflows' \in [Hosts -> [Flows -> Versions]] /\ \A g \in Hosts \ {h} : workflows'[g] = workflows[g]
      /\ child' \in [Workers -> [Flows -> Versions]] /\ \A u \in Workers \ {h} : child'[u] = child[u]
  BY <1>0, <1>1 DEF Inv, TypeOK
<1>3. registered' \in [Workers -> Registrations] /\ \A u \in Workers \ {h} : registered'[u] = registered[u]
  <2>1. NoFunction \in Registrations
    BY VersionFacts DEF NoFunction, Registrations
  <2> QED
    BY <1>1, <2>1 DEF Inv, TypeOK, Registrations
<1>4. /\ ops' \in [Threads -> Op] /\ \A t \in T : ops'[t] = Idle
      /\ \A t \in Threads \ T : ops'[t] = ops[t] /\ ops[t] \in Op
  BY IdleOp DEF Restart, Inv, TypeOK
<1>5. budget \in Budgets /\ budget' = [budget EXCEPT !.faults = budget.faults - 1] /\ budget.faults > 0
  BY DEF Restart, Inv, TypeOK, Budgets
<1>6. budget' \in Budgets /\ budget'.changes = budget.changes
  BY <1>5 DEF Budgets
<1>7. torn' \in [Flows -> BOOLEAN]
  <2>1. \A f \in Flows : (torn[f] \/ \E t \in Editing(f) : HostOf(t) = h) \in BOOLEAN
    BY Zenon
  <2> QED
    BY <2>1 DEF Restart
<1>8. TypeOK'
  BY <1>1, <1>2, <1>3, <1>4, <1>6, <1>7 DEF Inv, TypeOK, Registrations, Budgets
<1>9. BoundInv'
  BY <1>1, <1>6 DEF Inv, BoundInv
<1>10. \A f \in Flows : Opened(remote[CodeFile(f)]) \in Nat /\ CodeFile(f) \in Files
  BY StorageFacts, FileFacts, VersionFacts DEF Inv, TypeOK
<1>11. CodeGrows
  BY <1>1, <1>10 DEF CodeGrows
<1>12. ASSUME NEW t \in T PROVE Own(t)
  <2>1. ops'[t] = Idle
    BY <1>4
  <2>5. \A f \in Flows : Opened(remote'[CodeFile(f)]) >= Idle.seen[CodeFile(f)]
    BY <1>1, <1>10, IdleOp
  <2> QED
    BY <2>1, <2>5, IdleOK DEF Own, CodeInv, DefInv
<1>13. ASSUME NEW u \in Threads \ T PROVE Frame(u)
  <2>1. HostOf(u) # h /\ HostOf(u) \in Hosts /\ (u \in Workers => u # h)
    BY ThreadFacts
  <2>2. u \in WebThreads => h # Web
    BY <2>1, ThreadFacts
  <2>3. Known(u)' = Known(u)
    <3>1. CASE u \in WebThreads
      BY <1>2, <2>2, <3>1 DEF Known, Hosts
    <3>2. CASE u \notin WebThreads
      BY <1>2, <2>1, <3>2 DEF Known, Threads
    <3> QED
      BY <3>1, <3>2
  <2>4. ops'[u] = ops[u] /\ ops[u] \in Op /\ Kept(ops[u], ops'[u])
    BY <1>4 DEF Kept
  <2> QED
    BY <1>1, <1>3, <2>1, <2>3, <2>4 DEF Frame
<1>14. T \in SUBSET Threads
  OBVIOUS
<1> HIDE DEF T
<1> QED
  BY <1>8, <1>9, <1>11, <1>12, <1>13, <1>14, Compose

-----------------------------------------------------------------------------
(* The invariant, and what follows from it.                                *)

LEMMA InitInv == Init => Inv
<1> SUFFICES ASSUME Init PROVE Inv
  OBVIOUS
<1>1. \A t \in Threads : ops[t] = Idle
  BY DEF Init
<1>2. /\ remote \in [Files -> [sealed : BOOLEAN, version : Versions]]
      /\ \A f \in Flows : remote[CodeFile(f)].version \in {0, 1}
  <2>1. /\ Stored(1) \in [sealed : BOOLEAN, version : Versions] /\ Absent \in [sealed : BOOLEAN, version : Versions]
        /\ Stored(1).version = 1 /\ Absent.version = 0
    BY StorageFacts, VersionFacts DEF Stored, Absent
  <2>2. \A x \in Files : remote[x] \in {Stored(1), Absent}
    BY DEF Init
  <2>3. \A f \in Flows : CodeFile(f) \in Files
    BY FileFacts
  <2>4. remote = [x \in Files |-> IF x[2] = "definition" \/ x[1] \in Uploaded THEN Stored(1) ELSE Absent]
    BY DEF Init
  <2> QED
    BY <2>1, <2>2, <2>3, <2>4
<1>3. registered \in [Workers -> Registrations]
  BY VersionFacts DEF Init, NoFunction, Registrations
<1>4. TypeOK
  BY <1>2, <1>3, VersionFacts, IdleOp, DefinitionsAssumption DEF Init, TypeOK, Registrations
<1>5. BoundInv
  <2>1. budget.changes \in Nat /\ MaxVersion = 1 + budget.changes
    BY DefinitionsAssumption DEF Init, MaxVersion
  <2>2. \A f \in Flows : template[f] = 1
    BY DEF Init
  <2> QED
    BY <1>2, <2>1, <2>2 DEF BoundInv
<1>6. Shape(Idle) /\ (\A t \in Threads : Placed(t, Idle)) /\ (\A r, l : CodeOK(Idle, r, l)) /\ (\A s, l, k : DefOK(Idle, s, l, k))
  BY IdleOK
<1>7. \A f \in Flows : Opened(remote[CodeFile(f)]) >= Idle.seen[CodeFile(f)]
  <2>1. \A f \in Flows : Opened(remote[CodeFile(f)]) \in Nat /\ CodeFile(f) \in Files
    BY <1>2, StorageFacts, FileFacts, VersionFacts
  <2> QED
    BY <2>1, IdleOp
<1> QED
  BY <1>1, <1>4, <1>5, <1>6, <1>7 DEF Inv, ShapeInv, StepsInv, RemoteCodeInv, LoadInv, CodeInv, DefInv, Threads

LEMMA StutterInv == Inv /\ UNCHANGED vars => Inv'
BY DEF vars, Inv, TypeOK, BoundInv, ShapeInv, StepsInv, RemoteCodeInv, LoadInv, CodeInv, DefInv, Known

LEMMA NextInv == Inv /\ [Next]_vars => Inv'
<1> SUFFICES ASSUME Inv, [Next]_vars PROVE Inv'
  OBVIOUS
<1>1. CASE UNCHANGED vars
  BY <1>1, StutterInv
<1>2. CASE \E f \in Flows : UploadCode(f)
  BY <1>2, UploadInv
<1>3. ASSUME NEW t \in Threads, NEW f \in Flows,
             \/ UpdateTemplate(t, f) \/ RunWorkflow(t, f) \/ Relaunch(t, f)
             \/ RunNewWorkflow(t, f) \/ ExecuteStep(t, f)
      PROVE  Inv'
  BY <1>3, UpdateInv, RequestsInv, ExecuteStepInv
<1>4. ASSUME NEW t \in Threads,
             \/ GetAvailableName(t) \/ SaveToStorage(t) \/ SaveRaises(t) \/ RefreshStorage(t)
             \/ GetByUserCode(t) \/ GetAfterSync(t) \/ GetTasks(t) \/ RefuseManager(t) \/ Sync(t) \/ Register(t)
             \/ \E f \in Flows, kinds \in SUBSET Kinds : SyncImports(t, f, kinds)
             \/ ImportUserTasks(t) \/ CallFunction(t) \/ RecycleChild(t)
      PROVE  Inv'
  <2>1. CASE Sync(t)
    BY <2>1, RemoveInv, RemoveRaisesInv, ReadFileInv, WriteFileInv, CopyRaisesInv, SyncDoneInv, StorageFailsInv DEF Sync
  <2>2. CASE Register(t)
    BY <2>2, LoadDefinitionInv, EnterInv, LoadRaisesInv, RegisterDoneInv DEF Register
  <2> QED
    BY <1>4, <2>1, <2>2, DeleteInv, PutInv, SaveRaisesInv, SyncImportsInv, RefreshInv, GetByUserCodeInv, GetAfterSyncInv, GetTasksInv,
       ImportInv, CallInv, RecycleInv
<1>5. CASE \E h \in Hosts : Restart(h)
  BY <1>5, RestartInv
<1> QED
  BY <1>1, <1>2, <1>3, <1>4, <1>5 DEF Next

LEMMA InvHolds == Spec => []Inv
BY InitInv, NextInv, PTL DEF Spec

\* Templates, files, dictionaries and operations keep their form, and no version
\* exceeds the number of changes made.
THEOREM TypeCorrect == Spec => []TypeOK
<1>1. Inv => TypeOK
  BY DEF Inv
<1> QED
  BY <1>1, InvHolds, PTL

\* A step never runs the function another workflow's import left behind in the
\* thread, not even when its own file is missing (clear_registered_task).
THEOREM RightFunctionHolds == Spec => []RightFunction
<1>1. Inv => RightFunction
  BY Before DEF RightFunction, CodeOK, Shape, Threads
<1> QED
  BY <1>1, InvHolds, PTL

\* A step runs code at least as new as the storage held when the step began, whatever
\* edits, uploads, aborted copies, further imports and restarts happen meanwhile, unless
\* two errors were logged: the directory not removed and the file not copied
\* (execute_workflow_step).
THEOREM FreshCodeHolds == Spec => []FreshCode
<1>1. Inv => FreshCode
  BY Before DEF FreshCode, CodeOK, Missed, Shape, Threads, CodeFile
<1> QED
  BY <1>1, InvHolds, PTL

\* A workflow whose definition was in the storage when the request came is reported as not
\* found only if another thread of the process, or an edit, changed the files of this very
\* workflow meanwhile, or an error with its own file was logged (get_by_user_code).
THEOREM NotFoundIsRealHolds == Spec => []NotFoundIsReal
<1>1. ASSUME Inv, NEW t \in Threads, ops[t].pc = "notfound", ops[t].flow \notin ops[t].disturbed,
             DefFile(ops[t].flow) \notin ops[t].logged
      PROVE  ops[t].seen[DefFile(ops[t].flow)] = 0
  <2>1. ops[t].flow \in Flows
    BY <1>1, Before DEF Shape, Op
  <2>2. Clear(ops[t], ops[t].flow)
    BY <1>1, <2>1, DefinitionsAssumption DEF Clear, About
  <2> QED
    BY <1>1, <2>1, <2>2, Before DEF DefOK
<1>2. Inv => NotFoundIsReal
  BY <1>1 DEF NotFoundIsReal, DefFile
<1> QED
  BY <1>2, InvHolds, PTL

\* When a refresh has answered, the web process knows every definition in the version the
\* storage held, or newer, except where an error with that very file was logged or another
\* thread or an edit changed it (RefreshStorageViewSet).
THEOREM RefreshTakesEffectHolds == Spec => []RefreshTakesEffect
<1>1. ASSUME Inv, NEW t \in WebThreads, NEW f \in Flows, ops[t].pc = "refreshed", f \notin ops[t].disturbed,
             DefFile(f) \notin ops[t].logged
      PROVE  workflows[Web][f] >= ops[t].seen[DefFile(f)]
  <2>0. t \in Threads
    BY DEF Threads
  <2>1. Clear(ops[t], f)
    BY <1>1, <2>0, Before DEF Clear, About, Shape
  <2> QED
    BY <1>1, <2>0, <2>1, Before DEF DefOK, Known
<1>2. Inv => RefreshTakesEffect
  BY <1>1 DEF RefreshTakesEffect, DefFile
<1> QED
  BY <1>2, InvHolds, PTL

-----------------------------------------------------------------------------
(* A definition that is known stays known.                                 *)

LEMMA WorkflowsChange ==
  ASSUME Inv, [Next]_vars
  PROVE  \/ workflows' = workflows
         \/ \E t \in Threads : EnterDefinition(t)
         \/ \E h \in Hosts : Restart(h)
BY DEF Next, vars, UploadCode, UpdateTemplate, RunWorkflow, Relaunch, RunNewWorkflow, ExecuteStep, GetAvailableName,
       SaveToStorage, SaveRaises, RefreshStorage, GetByUserCode, GetAfterSync, GetTasks, RefuseManager, Sync, RemoveDirectory,
       RemoveRaises, ReadFile, WriteFile, CopyRaises, SyncDone, StorageFails, Register, LoadDefinition, LoadRaises,
       RegisterDone, SyncImports, ImportUserTasks, CallFunction, RecycleChild

\* A definition that the web process knows stays known while it lives, even when
\* the directory was emptied and the storage cannot be read (register_workflows).
THEOREM KnownStaysKnownHolds == Spec => KnownStaysKnown
<1> DEFINE Stays == ~Restart(Web) => \A f \in Flows : workflows[Web][f] # 0 => workflows'[Web][f] # 0
<1>1. ASSUME Inv, [Next]_vars PROVE Stays
  <2> SUFFICES ASSUME ~Restart(Web), NEW f \in Flows, workflows[Web][f] # 0
               PROVE  workflows'[Web][f] # 0
    OBVIOUS
  <2>0. workflows \in [Hosts -> [Flows -> Versions]] /\ Web \in Hosts
    BY <1>1 DEF Inv, TypeOK, Hosts
  <2>1. CASE workflows' = workflows
    BY <2>1
  <2>2. ASSUME NEW t \in Threads, EnterDefinition(t)
        PROVE  workflows'[Web][f] # 0
    <3>1. ops[t].held[2] # 0
      BY <1>1, <2>2, Before DEF EnterDefinition, Shape
    <3>2. CASE t \notin WebThreads
      BY <2>2, <3>2 DEF EnterDefinition
    <3>3. CASE t \in WebThreads
      <4>1. workflows' = [workflows EXCEPT ![Web] = [workflows[Web] EXCEPT ![ops[t].held[1][1]] = ops[t].held[2]]]
        BY <2>0, <2>2, <3>3 DEF EnterDefinition
      <4> QED
        BY <2>0, <3>1, <4>1
    <3> QED
      BY <3>2, <3>3
  <2>3. ASSUME NEW h \in Hosts, Restart(h)
        PROVE  workflows'[Web][f] # 0
    <3>1. h # Web
      BY <2>3
    <3>2. workflows'[Web] = workflows[Web]
      BY <2>0, <2>3, <3>1 DEF Restart
    <3> QED
      BY <3>2
  <2> QED
    BY <1>1, <2>1, <2>2, <2>3, WorkflowsChange
<1>2. Inv /\ [Next]_vars => [Stays]_vars
  BY <1>1
<1>3. KnownStaysKnown <=> [][Stays]_vars
  BY DEF KnownStaysKnown
<1> HIDE DEF Stays
<1> QED
  BY <1>2, <1>3, InvHolds, PTL DEF Spec

-----------------------------------------------------------------------------
(* The file of a template follows its row.                                 *)

IsEdit(op) == op.kind = "edit" /\ op.pc \notin Resting

\* Nobody starts or ends an edit of f.
EditsKept(f) == Editing(f)' = Editing(f) /\ \A t \in Editing(f) : ops'[t].held = ops[t].held

LEMMA EditsKeptInv ==
  ASSUME NEW f \in Flows, EditOK(f), EditsKept(f), template'[f] = template[f], torn[f] => torn'[f],
         Editing(f) = {} => remote'[DefFile(f)] = remote[DefFile(f)]
  PROVE  EditOK(f)'
<1> SUFFICES ASSUME ~torn'[f]
             PROVE  /\ \A t, u \in Editing(f)' : t = u
                    /\ \A t \in Editing(f)' : ops'[t].held[2] = template'[f]
                    /\ Editing(f)' = {} => Opened(remote'[DefFile(f)]) = template'[f]
  BY DEF EditOK
<1>1. /\ \A t, u \in Editing(f) : t = u
      /\ \A t \in Editing(f) : ops[t].held[2] = template[f]
      /\ Editing(f) = {} => Opened(remote[DefFile(f)]) = template[f]
  BY DEF EditOK
<1> QED
  BY <1>1 DEF EditsKept

\* Thread u keeps its edit, if it has one.
SameEdit(u) == ops'[u].kind = ops[u].kind /\ ops'[u].pc = ops[u].pc /\ ops'[u].flow = ops[u].flow /\ ops'[u].held = ops[u].held

\* A step of t leaves the edits of the other threads alone.
LEMMA OthersKeep ==
  ASSUME Inv, NEW t \in Threads, NEW new, NEW S,
         Becomes(t, new) \/ BecomesAlone(t, new, S) \/ BecomesPublic(t, new, S)
  PROVE  ops'[t] = new /\ \A u \in Threads \ {t} : SameEdit(u)
<1>1. ops'[t] = new
  BY DEF Becomes, BecomesAlone, BecomesPublic, Inv, TypeOK
<1>2. \A u \in Threads \ {t} : ops'[u] \in {ops[u], Disturb(ops[u], S)} /\ ops[u] \in Op
  BY DEF Becomes, BecomesAlone, BecomesPublic, Inv, TypeOK
<1> QED
  BY <1>1, <1>2, DisturbOp DEF Kept, SameEdit

\* A thread that does not edit f, before or after its step.
LEMMA NotItsEdit ==
  ASSUME NEW f \in Flows, NEW t \in Threads, t \notin Editing(f), t \notin Editing(f)', \A u \in Threads \ {t} : SameEdit(u)
  PROVE  EditsKept(f)
BY DEF EditsKept, Editing, SameEdit

\* A thread that edits nothing, before or after its step.
LEMMA NoEdit ==
  ASSUME Inv, NEW t \in Threads, NEW new, NEW S, ~IsEdit(ops[t]), new.kind # "edit",
         Becomes(t, new) \/ BecomesAlone(t, new, S)
  PROVE  \A f \in Flows : EditsKept(f)
<1> TAKE f \in Flows
<1>1. ops'[t] = new /\ \A u \in Threads \ {t} : SameEdit(u)
  BY OthersKeep
<1>2. t \notin Editing(f) /\ t \notin Editing(f)'
  BY <1>1 DEF Editing, IsEdit
<1> QED
  BY <1>1, <1>2, NotItsEdit

\* The steps of an operation that is no edit.
OtherStep(t) ==
  \/ GetByUserCode(t) \/ GetAfterSync(t) \/ GetTasks(t) \/ RefuseManager(t) \/ Sync(t) \/ Register(t)
  \/ \E f \in Flows, kinds \in SUBSET Kinds : SyncImports(t, f, kinds)
  \/ ImportUserTasks(t) \/ CallFunction(t)

LEMMA OtherStepKeeps ==
  ASSUME Inv, NEW t \in Threads, OtherStep(t)
  PROVE  (\A f \in Flows : EditsKept(f)) /\ UNCHANGED <<template, remote, torn>>
<1> DEFINE op == ops[t]
<1>0. op \in Op /\ op.pc \in {"lookup", "load", "build", "remove", "copy", "write", "enter", "import", "call"}
  BY Before DEF OtherStep, GetByUserCode, GetAfterSync, GetTasks, RefuseManager, Sync, RemoveDirectory, RemoveRaises, ReadFile,
     WriteFile, CopyRaises, SyncDone, StorageFails, Register, LoadDefinition, EnterDefinition, LoadRaises, RegisterDone,
     SyncImports, ImportUserTasks, CallFunction
<1>1. op.kind # "edit"
  BY <1>0, Before DEF Shape
<1>2. UNCHANGED <<template, remote, torn>>
  BY DEF OtherStep, GetByUserCode, GetAfterSync, GetTasks, RefuseManager, Sync, RemoveDirectory, RemoveRaises, ReadFile,
     WriteFile, CopyRaises, SyncDone, StorageFails, Register, LoadDefinition, EnterDefinition, LoadRaises, RegisterDone,
     SyncImports, ImportUserTasks, CallFunction
<1>3. ASSUME NEW new, new.kind = op.kind, Becomes(t, new)
      PROVE  \A f \in Flows : EditsKept(f)
  BY <1>1, <1>3, NoEdit DEF IsEdit
<1>4. ASSUME NEW new, new.kind \in {op.kind, "none"}, Becomes(t, new)
      PROVE  \A f \in Flows : EditsKept(f)
  BY <1>1, <1>4, NoEdit DEF IsEdit
<1>5. ASSUME NEW new, NEW S, new.kind = op.kind, BecomesAlone(t, new, S)
      PROVE  \A f \in Flows : EditsKept(f)
  BY <1>1, <1>5, NoEdit DEF IsEdit
<1>6. \A a \in Op : \A pc : Ends(a, pc).kind \in {a.kind, "none"}
  BY IdleOp DEF Ends, Op
<1>7. Found(t).kind = op.kind /\ \A S, K, then : StartSync(t, op, S, K, then).kind = op.kind
  BY <1>0 DEF Found, StartSync, Op
<1>8. \A a \in Op : \A X : Logged(a, X).kind = a.kind
  BY DEF Logged, Op
<1>9. CASE GetByUserCode(t) \/ GetAfterSync(t)
  BY <1>0, <1>2, <1>4, <1>6, <1>7, <1>9 DEF GetByUserCode, GetAfterSync
<1>10. CASE GetTasks(t) \/ RefuseManager(t) \/ RegisterDone(t)
  BY <1>0, <1>2, <1>4, <1>6, <1>10 DEF GetTasks, RefuseManager, RegisterDone
<1>11. CASE StorageFails(t)
  <2>1. Logged(op, Files) \in Op
    BY <1>0, LoggedOp
  <2>2. Ends(Logged(op, Files), "refreshed").kind \in {op.kind, "none"}
    BY <1>0, <1>6, <1>8, <2>1
  <2> QED
    BY <1>0, <1>2, <1>4, <1>6, <1>11, <2>2 DEF StorageFails
<1>12. CASE RemoveDirectory(t)
  <2>1. PICK new : BecomesAlone(t, new, op.scope) /\ new = [op EXCEPT !.pc = "copy"]
    BY <1>12 DEF RemoveDirectory
  <2>2. new.kind = op.kind
    BY <1>0, <2>1 DEF Op
  <2> QED
    BY <1>2, <1>5, <2>1, <2>2
<1>13. CASE RemoveRaises(t)
  <2>1. PICK new : BecomesAlone(t, new, op.scope) /\ new = [op EXCEPT !.pc = "copy", !.stuck = TRUE]
    BY <1>13 DEF RemoveRaises
  <2>2. new.kind = op.kind
    BY <1>0, <2>1 DEF Op
  <2> QED
    BY <1>2, <1>5, <2>1, <2>2
<1>14. CASE ReadFile(t)
  <2>1. PICK x, h, rest, S :
          /\ rest = [op EXCEPT !.todo = @ \ {x}]
          /\ Becomes(t, rest) \/ BecomesAlone(t, [rest EXCEPT !.pc = "write", !.held = h], S)
    BY <1>14 DEF ReadFile
  <2>2. rest \in Op /\ rest.kind = op.kind
    BY <1>0, <2>1, NextOp DEF SameTarget
  <2>3. [rest EXCEPT !.pc = "write", !.held = h].kind = op.kind
    BY <2>2 DEF Op
  <2> QED
    BY <1>2, <1>3, <1>5, <2>1, <2>2, <2>3
<1>15. CASE WriteFile(t) \/ EnterDefinition(t)
  <2>1. PICK pc, S : BecomesAlone(t, [op EXCEPT !.pc = pc, !.held = <<None, 0>>], S)
    BY <1>15 DEF WriteFile, EnterDefinition
  <2>2. [op EXCEPT !.pc = pc, !.held = <<None, 0>>].kind = op.kind
    BY <1>0 DEF Op
  <2> QED
    BY <1>2, <1>5, <2>1, <2>2
<1>16. CASE CopyRaises(t) \/ LoadRaises(t)
  <2>1. PICK new, X, Y : Becomes(t, Logged(new, X)) /\
          \/ new = [op EXCEPT !.todo = @ \ Y]
          \/ new = [op EXCEPT !.pc = "copy", !.held = <<None, 0>>]
    BY <1>16 DEF CopyRaises, LoadRaises
  <2>2. CASE new = [op EXCEPT !.todo = @ \ Y]
    <3>1. new \in Op /\ new.kind = op.kind
      BY <1>0, <2>2, NextOp DEF SameTarget
    <3> QED
      BY <1>2, <1>3, <1>8, <2>1, <3>1
  <2>3. CASE new = [op EXCEPT !.pc = "copy", !.held = <<None, 0>>]
    <3>1. new \in Op /\ new.kind = op.kind
      BY <1>0, <2>3, CopiedOp DEF SameTarget, Pcs
    <3> QED
      BY <1>2, <1>3, <1>8, <2>1, <3>1
  <2> QED
    BY <2>1, <2>2, <2>3
<1>17. CASE SyncDone(t)
  <2>1. PICK todo : Becomes(t, [op EXCEPT !.pc = op.then, !.todo = todo])
    BY <1>17 DEF SyncDone
  <2>2. [op EXCEPT !.pc = op.then, !.todo = todo].kind = op.kind
    BY <1>0 DEF Op
  <2> QED
    BY <1>2, <1>3, <2>1, <2>2
<1>18. CASE LoadDefinition(t)
  <2>1. PICK x, h, rest :
          /\ rest = [op EXCEPT !.todo = @ \ {x}]
          /\ Becomes(t, rest) \/ Becomes(t, [rest EXCEPT !.pc = "enter", !.held = h])
    BY <1>18 DEF LoadDefinition
  <2>2. rest \in Op /\ rest.kind = op.kind
    BY <1>0, <2>1, NextOp DEF SameTarget
  <2>3. [rest EXCEPT !.pc = "enter", !.held = h].kind = op.kind
    BY <2>2 DEF Op
  <2> QED
    BY <1>2, <1>3, <2>1, <2>2, <2>3
<1>19. CASE \E f \in Flows, kinds \in SUBSET Kinds : SyncImports(t, f, kinds)
  BY <1>2, <1>3, <1>7, <1>19 DEF SyncImports
<1>20. CASE ImportUserTasks(t)
  <2>1. [op EXCEPT !.pc = "call"].kind = op.kind
    BY <1>0 DEF Op
  <2> QED
    BY <1>2, <1>3, <1>20, <2>1 DEF ImportUserTasks
<1>21. CASE CallFunction(t)
  <2>1. Ends(op, "ran") \in Op /\ Ends(op, "ran").kind = op.kind
    BY <1>0, EndsOp DEF Told, SameTarget
  <2>2. \A a \in Op : \A r : [a EXCEPT !.used = r].kind = a.kind
    BY DEF Op
  <2>3. [Ends(op, "ran") EXCEPT !.used = registered[t]].kind = op.kind
    BY <2>1, <2>2
  <2>4. PICK new : Becomes(t, new) /\ (new = Ends(op, "nofunction") \/ new = [Ends(op, "ran") EXCEPT !.used = registered[t]])
    BY <1>21 DEF CallFunction
  <2>5. new.kind \in {op.kind, "none"}
    BY <1>0, <1>6, <2>3, <2>4
  <2> QED
    BY <1>2, <1>4, <2>4, <2>5
<1> QED
  BY <1>9, <1>10, <1>11, <1>12, <1>13, <1>14, <1>15, <1>16, <1>17, <1>18, <1>19, <1>20, <1>21 DEF OtherStep, Sync, Register

LEMMA BeginKeeps ==
  ASSUME Inv, NEW t \in Threads,
         RefreshStorage(t) \/ \E f \in Flows : RunWorkflow(t, f) \/ Relaunch(t, f) \/ RunNewWorkflow(t, f) \/ ExecuteStep(t, f)
  PROVE  (\A f \in Flows : EditsKept(f)) /\ UNCHANGED <<template, remote, torn>>
<1>0. ops[t].pc \in Resting /\ UNCHANGED <<template, remote, torn>>
  BY DEF RefreshStorage, RunWorkflow, Relaunch, RunNewWorkflow, ExecuteStep, Begin, Free
<1>1. PICK op \in Op : op.kind # "edit" /\ Begin(t, op)
  <2>1. CASE RefreshStorage(t)
    <3> DEFINE start == [Idle EXCEPT !.kind = "refresh"]
    <3>1. start \in Op /\ start.kind = "refresh"
      BY IdleOp DEF Op
    <3> HIDE DEF start
    <3>2. PICK sync : sync = StartSync(t, start, Flows, Kinds, "load")
      BY Zenon
    <3>3. Started(start, sync, Flows, "load")
      BY <3>1, <3>2, StartSyncOp
    <3>4. sync \in Op /\ sync.kind = "refresh"
      BY <3>1, <3>3 DEF SameTarget, Started
    <3> QED
      BY <2>1, <3>2, <3>4 DEF RefreshStorage, start
  <2>2. ASSUME NEW f \in Flows, RunWorkflow(t, f) \/ Relaunch(t, f) \/ RunNewWorkflow(t, f)
        PROVE  \E op \in Op : op.kind # "edit" /\ Begin(t, op)
    <3>1. /\ [Idle EXCEPT !.kind = "launch", !.flow = f, !.pc = "lookup"] \in Op
          /\ [Idle EXCEPT !.kind = "launch", !.flow = f, !.pc = "lookup"].kind = "launch"
      BY IdleOp DEF Op, Pcs
    <3> QED
      BY <2>2, <3>1 DEF RunWorkflow, Relaunch, RunNewWorkflow
  <2>3. ASSUME NEW f \in Flows, ExecuteStep(t, f)
        PROVE  \E op \in Op : op.kind # "edit" /\ Begin(t, op)
    <3>1. /\ [Idle EXCEPT !.kind = "step", !.flow = f, !.pc = "lookup"] \in Op
          /\ [Idle EXCEPT !.kind = "step", !.flow = f, !.pc = "lookup"].kind = "step"
      BY IdleOp DEF Op, Pcs
    <3> QED
      BY <2>3, <3>1 DEF ExecuteStep
  <2> QED
    BY <2>1, <2>2, <2>3
<1>2. PICK seen : Becomes(t, [op EXCEPT !.seen = seen])
  BY <1>1 DEF Begin
<1>3. [op EXCEPT !.seen = seen].kind # "edit"
  BY <1>1 DEF Op
<1> QED
  BY <1>0, <1>2, <1>3, NoEdit DEF IsEdit

\* An editor is one of its template's, and of no other.
LEMMA EditingFacts ==
  ASSUME Inv, NEW t \in Threads
  PROVE  IsEdit(ops[t]) => ops[t].flow \in Flows /\ \A f \in Flows : t \in Editing(f) <=> f = ops[t].flow
BY Before DEF IsEdit, Shape, Editing

LEMMA UpdateEdits ==
  ASSUME Inv, EditInv, NEW t \in Threads, NEW f \in Flows, UpdateTemplate(t, f)
  PROVE  EditInv'
<1> DEFINE v == template[f] + 1
           new == [Idle EXCEPT !.kind = "edit", !.flow = f, !.pc = "delete", !.held = <<<<f, "definition">>, v>>]
<1>0. ~IsEdit(ops[t]) /\ remote' = remote /\ Becomes(t, new)
  BY DEF UpdateTemplate, Free, IsEdit
<1>1. template' = [template EXCEPT ![f] = v] /\ template \in [Flows -> Versions]
  BY DEF UpdateTemplate, Inv, TypeOK
<1>2. torn' = [torn EXCEPT ![f] = Editing(f) # {}] /\ torn \in [Flows -> BOOLEAN]
  BY DEF UpdateTemplate, Overlapping, Inv, TypeOK
<1>3. new.kind = "edit" /\ new.flow = f /\ new.pc = "delete" /\ new.held[2] = v
  <2>0. <<<<f, "definition">>, v>>[2] = v
    OBVIOUS
  <2>1. PICK held : held = <<<<f, "definition">>, v>>
    BY Zenon
  <2>2. new = [Idle EXCEPT !.kind = "edit", !.flow = f, !.pc = "delete", !.held = held]
    BY <2>1
  <2> HIDE DEF new
  <2> QED
    BY <2>0, <2>1, <2>2, IdleOp DEF Op
<1> HIDE DEF new, v
<1>4. ops'[t] = new /\ \A u \in Threads \ {t} : SameEdit(u)
  BY <1>0, OthersKeep
<1>5. torn'[f] <=> Editing(f) # {}
  BY <1>2
<1>6. EditOK(f)'
  <2> SUFFICES ASSUME ~torn'[f] PROVE EditOK(f)'
    BY DEF EditOK
  <2>1. Editing(f)' = {t}
    <3>1. \A u \in Threads \ {t} : u \notin Editing(f)'
      BY <1>4, <1>5 DEF Editing, SameEdit
    <3>2. t \in Editing(f)'
      BY <1>3, <1>4 DEF Editing, Resting, Told
    <3>3. Editing(f)' \subseteq Threads
      BY DEF Editing
    <3> QED
      BY <3>1, <3>2, <3>3
  <2>2. template'[f] = v
    BY <1>1
  <2> QED
    BY <1>3, <1>4, <2>1, <2>2 DEF EditOK
<1>7. ASSUME NEW g \in Flows \ {f} PROVE EditOK(g)'
  <2>1. EditsKept(g)
    <3>1. t \notin Editing(g) /\ t \notin Editing(g)'
      BY <1>0, <1>3, <1>4 DEF Editing, IsEdit
    <3> QED
      BY <1>4, <3>1, NotItsEdit
  <2>2. template'[g] = template[g] /\ torn'[g] = torn[g] /\ EditOK(g)
    BY <1>1, <1>2 DEF EditInv
  <2> QED
    BY <1>0, <2>1, <2>2, EditsKeptInv
<1> QED
  BY <1>6, <1>7 DEF EditInv

LEMMA DeleteEdits ==
  ASSUME Inv, EditInv, NEW t \in Threads, GetAvailableName(t)
  PROVE  EditInv'
<1> DEFINE op == ops[t]
           new == [op EXCEPT !.pc = "put"]
<1>0. op \in Op /\ op.pc = "delete" /\ op.kind = "edit" /\ op.flow \in Flows /\ op.held[1] = DefFile(op.flow)
  BY Before DEF GetAvailableName, Shape
<1>1. BecomesPublic(t, new, {op.flow}) /\ UNCHANGED <<template, torn>>
  BY DEF GetAvailableName
<1>2. new.kind = "edit" /\ new.pc = "put" /\ new.flow = op.flow /\ new.held = op.held
  BY <1>0 DEF Op
<1> HIDE DEF new
<1>3. ops'[t] = new /\ \A u \in Threads \ {t} : SameEdit(u)
  BY <1>1, OthersKeep
<1>4. \A f \in Flows : EditsKept(f)
  BY <1>0, <1>2, <1>3 DEF EditsKept, Editing, SameEdit, Resting, Told
<1>5. \A f \in Flows : Editing(f) = {} => remote'[DefFile(f)] = remote[DefFile(f)]
  <2> TAKE f \in Flows
  <2>1. CASE f = op.flow
    BY <1>0, <2>1 DEF Editing, Resting, Told
  <2>2. CASE f # op.flow
    BY <1>0, <2>2, FileFacts DEF GetAvailableName, Inv, TypeOK
  <2> QED
    BY <2>1, <2>2
<1> QED
  BY <1>1, <1>4, <1>5, EditsKeptInv DEF EditInv

LEMMA PutEdits ==
  ASSUME Inv, EditInv, NEW t \in Threads, SaveToStorage(t)
  PROVE  EditInv'
<1> DEFINE op == ops[t]
<1> PICK f : f = op.flow
  BY Zenon
<1>0. op \in Op /\ op.pc = "put" /\ op.kind = "edit" /\ f \in Flows /\ op.held[1] = DefFile(f) /\ op.held[2] \in Versions
  BY Before DEF SaveToStorage, Shape, Op
<1>1. BecomesPublic(t, Idle, {f}) /\ UNCHANGED <<template, torn>>
  BY EndsIdle DEF SaveToStorage
<1>2. ops'[t] = Idle /\ \A u \in Threads \ {t} : SameEdit(u)
  BY <1>1, OthersKeep
<1>3. DefFile(f) \in Files /\ remote'[DefFile(f)] = Stored(op.held[2]) /\ \A g \in Flows \ {f} : remote'[DefFile(g)] = remote[DefFile(g)]
  BY <1>0, FileFacts DEF SaveToStorage, Inv, TypeOK
<1>4. t \in Editing(f) /\ \A g \in Flows : t \notin Editing(g)' /\ (g # f => t \notin Editing(g))
  BY <1>0, <1>2, IdleOp DEF Editing, Resting, Told
<1>5. EditOK(f)'
  <2> SUFFICES ASSUME ~torn[f] PROVE EditOK(f)'
    BY <1>1 DEF EditOK
  <2>1. (\A u \in Editing(f) : u = t) /\ op.held[2] = template[f]
    BY <1>0, <1>4 DEF EditInv, EditOK
  <2>2. Editing(f)' = {}
    <3>1. \A u \in Threads \ {t} : u \notin Editing(f)
      BY <2>1
    <3>2. \A u \in Threads \ {t} : u \notin Editing(f)'
      BY <1>2, <3>1 DEF Editing, SameEdit
    <3>3. Editing(f)' \subseteq Threads
      BY DEF Editing
    <3> QED
      BY <1>0, <1>4, <3>2, <3>3
  <2>3. Opened(remote'[DefFile(f)]) = op.held[2]
    BY <1>0, <1>3, StorageFacts
  <2> QED
    BY <1>1, <2>1, <2>2, <2>3 DEF EditOK
<1>6. ASSUME NEW g \in Flows \ {f} PROVE EditOK(g)'
  BY <1>1, <1>2, <1>3, <1>4, NotItsEdit, EditsKeptInv DEF EditInv
<1> QED
  BY <1>5, <1>6 DEF EditInv

\* A save that raises leaves the template torn until it is saved again.
LEMMA SaveRaisesEdits ==
  ASSUME Inv, EditInv, NEW t \in Threads, SaveRaises(t)
  PROVE  EditInv'
<1> DEFINE op == ops[t]
<1> PICK f : f = op.flow
  BY Zenon
<1>0. op \in Op /\ op.kind = "edit" /\ f \in Flows
  BY Before DEF SaveRaises, Shape
<1>1. Becomes(t, Idle) /\ UNCHANGED <<template, remote>> /\ torn' = [torn EXCEPT ![f] = TRUE] /\ torn \in [Flows -> BOOLEAN]
  BY EndsIdle DEF SaveRaises, Inv, TypeOK
<1>2. ops'[t] = Idle /\ \A u \in Threads \ {t} : SameEdit(u)
  BY <1>1, OthersKeep
<1>3. EditOK(f)'
  <2>1. torn'[f]
    BY <1>0, <1>1
  <2> QED
    BY <2>1 DEF EditOK
<1>4. ASSUME NEW g \in Flows \ {f} PROVE EditOK(g)'
  <2>1. t \notin Editing(g) /\ t \notin Editing(g)'
    BY <1>2, IdleOp DEF Editing
  <2>2. EditsKept(g) /\ torn'[g] = torn[g]
    BY <1>0, <1>1, <1>2, <2>1, NotItsEdit
  <2> QED
    BY <1>1, <2>2, EditsKeptInv DEF EditInv
<1> QED
  BY <1>3, <1>4 DEF EditInv

LEMMA RestartEdits ==
  ASSUME Inv, EditInv, NEW h \in Hosts, Restart(h)
  PROVE  EditInv'
<1> SUFFICES ASSUME NEW f \in Flows PROVE EditOK(f)'
  BY DEF EditInv
<1>1. torn'[f] <=> (torn[f] \/ \E t \in Editing(f) : HostOf(t) = h)
  BY DEF Restart
<1>2. CASE \E t \in Editing(f) : HostOf(t) = h
  BY <1>1, <1>2 DEF EditOK
<1>3. CASE \A t \in Editing(f) : HostOf(t) # h
  <2>1. \A t \in Threads : ops'[t] = IF HostOf(t) = h THEN Idle ELSE ops[t]
    BY DEF Restart
  <2>2. EditsKept(f)
    BY <1>3, <2>1, IdleOp DEF EditsKept, Editing
  <2>3. template' = template /\ remote' = remote
    BY DEF Restart
  <2> QED
    BY <1>1, <2>2, <2>3, EditsKeptInv DEF EditInv
<1> QED
  BY <1>2, <1>3

LEMMA EditStep ==
  ASSUME Inv, EditInv, [Next]_vars
  PROVE  EditInv'
<1>1. ASSUME \A f \in Flows : EditsKept(f), UNCHANGED <<template, torn>>,
             \A f \in Flows : remote'[DefFile(f)] = remote[DefFile(f)]
      PROVE  EditInv'
  BY <1>1, EditsKeptInv DEF EditInv
<1>2. ASSUME UNCHANGED ops PROVE \A f \in Flows : EditsKept(f)
  BY <1>2 DEF EditsKept, Editing
<1>3. CASE UNCHANGED vars
  BY <1>1, <1>2, <1>3 DEF vars
<1>4. ASSUME NEW f \in Flows, UploadCode(f)
      PROVE  EditInv'
  <2>1. \A g \in Flows : remote'[DefFile(g)] = remote[DefFile(g)]
    <3>1. \A g \in Flows : DefFile(g) \in Files /\ DefFile(g) # CodeFile(f)
      BY FileFacts
    <3> QED
      BY <1>4, <3>1 DEF UploadCode, CodeFile, Inv, TypeOK
  <2> QED
    BY <1>1, <1>2, <1>4, <2>1 DEF UploadCode
<1>5. ASSUME NEW t \in Threads, NEW f \in Flows,
             RunWorkflow(t, f) \/ Relaunch(t, f) \/ RunNewWorkflow(t, f) \/ ExecuteStep(t, f)
      PROVE  EditInv'
  BY <1>1, <1>5, BeginKeeps
<1>6. ASSUME NEW t \in Threads, RefreshStorage(t)
      PROVE  EditInv'
  BY <1>1, <1>6, BeginKeeps
<1>7. ASSUME NEW t \in Threads, OtherStep(t)
      PROVE  EditInv'
  BY <1>1, <1>7, OtherStepKeeps
<1>8. ASSUME NEW t \in Threads, RecycleChild(t)
      PROVE  EditInv'
  BY <1>1, <1>2, <1>8 DEF RecycleChild
<1> QED
  BY <1>3, <1>4, <1>5, <1>6, <1>7, <1>8, UpdateEdits, DeleteEdits, PutEdits, SaveRaisesEdits, RestartEdits DEF Next, OtherStep

\* The file of a template agrees with its row whenever nobody is saving it, unless the last
\* save failed, was cut short or overlapped another one (WorkflowTemplateSerializer).
THEOREM FileFollowsRowHolds == Spec => []FileFollowsRow
<1>1. Init => EditInv
  <2> SUFFICES ASSUME Init, NEW f \in Flows
               PROVE  Editing(f) = {} /\ Opened(remote[DefFile(f)]) = template[f]
    BY DEF EditInv, EditOK
  <2>1. Editing(f) = {}
    BY IdleOp DEF Init, Editing
  <2>2. remote[DefFile(f)] = Stored(1) /\ template[f] = 1
    BY FileFacts DEF Init, DefFile
  <2> QED
    BY <2>1, <2>2, StorageFacts, VersionFacts
<1>2. Inv /\ EditInv /\ [Next]_vars => EditInv'
  BY EditStep
<1>3. EditInv => FileFollowsRow
  BY DEF EditInv, EditOK, FileFollowsRow, DefFile
<1> QED
  BY <1>1, <1>2, <1>3, InvHolds, PTL DEF Spec
=============================================================================
