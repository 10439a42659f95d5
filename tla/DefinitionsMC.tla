--------------------------- MODULE DefinitionsMC ---------------------------
(* Two workflows of one module, a web process with two threads, a worker.  *)
EXTENDS Definitions, TLC

Mods == [f \in Flows |-> "module"]
Limits == [ops |-> 2, changes |-> 1, faults |-> 1]

Symmetry == Permutations(WebThreads)
=============================================================================
