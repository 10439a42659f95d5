---------------------------- MODULE SchedulesMC ----------------------------
(* Two schemas, each with one schedule of the same name.                   *)
EXTENDS Schedules, TLC

OneSchedule == {<<a, n>> \in Schemas \X Names : a = CHOOSE b \in Schemas : TRUE}
Symmetry == Permutations(Threads) \union Permutations(RunIds)
Limits == [requests |-> 2, periods |-> 1, faults |-> 1, sends |-> 2]
=============================================================================
