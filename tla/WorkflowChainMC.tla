-------------------------- MODULE WorkflowChainMC --------------------------
(* Small chains and fault budgets for model checking WorkflowChain.        *)
EXTENDS WorkflowChain, TLC

\* A step, a group of two, a step, and a success hook.
GroupIds == {"a", "b", "c", "d", "hook"}
GroupStages == <<{"a"}, {"b", "c"}, {"d"}>>

\* A step and a group that ends the chain.
ShortIds == {"a", "b", "c"}
ShortStages == <<{"a"}, {"b", "c"}>>

NoFaults == [cancel |-> 0, pause |-> 0, crash |-> 0, broker |-> 0]
BrokerAndPauses == [NoFaults EXCEPT !.broker = 1, !.pause = 2]
CancelAndCrash == [NoFaults EXCEPT !.cancel = 1, !.crash = 1, !.broker = 1]

Symmetry == Permutations(Workers)
=============================================================================
