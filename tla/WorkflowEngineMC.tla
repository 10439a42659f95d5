-------------------------- MODULE WorkflowEngineMC --------------------------
(* Small workflow templates and fault budgets for model checking           *)
(* WorkflowEngine. Templates are named "T" (root) and "U" (nested).        *)
EXTENDS WorkflowEngine, TLC

Edge(s, t) == [source |-> s, target |-> t, output |-> "out"]
Branch(s, t, o) == [source |-> s, target |-> t, output |-> o]
NoNested == [n \in {} |-> "T"]
AllOfT(nodes) == [n \in nodes |-> "T"]

\* Two inputs that join, and a node behind the join.
JoinNodes == {"a", "b", "j", "e"}
JoinTemplates == AllOfT(JoinNodes)
JoinConnections == <<Edge("a", "j"), Edge("b", "j"), Edge("j", "e")>>

\* A nested workflow and a plain node that join.
MixedNodes == {"n", "b", "j", "u"}
MixedTemplates == [k \in MixedNodes |-> IF k = "u" THEN "U" ELSE "T"]
MixedConnections == <<Edge("n", "j"), Edge("b", "j")>>
MixedIn == [k \in {"n"} |-> "U"]

\* Two inputs that join in the last node; a condition with two connections on
\* its true output, of which only the first counts.
TreeNodes == {"a", "b", "j", "c", "x", "y", "z"}
TreeTemplates == AllOfT(TreeNodes)
TreeCondition == {"c"}
TreeConnections == <<Edge("a", "j"), Edge("b", "j"), Edge("a", "c"),
                     Branch("c", "x", "out_true"), Branch("c", "y", "out_true"),
                     Branch("c", "z", "out_false")>>

\* A fork into a nested workflow and a condition without a false branch.
ForkNodes == {"a", "n", "c", "x", "u"}
ForkTemplates == [k \in ForkNodes |-> IF k = "u" THEN "U" ELSE "T"]
ForkCondition == {"c"}
ForkConnections == <<Edge("a", "n"), Edge("a", "c"), Branch("c", "x", "out_true")>>
ForkIn == [k \in {"n"} |-> "U"]

\* Node n of T runs template U, then m follows.
NestedNodes == {"n", "m", "u"}
NestedTemplates == [k \in NestedNodes |-> IF k = "u" THEN "U" ELSE "T"]
NestedConnections == <<Edge("n", "m")>>
NestedIn == [k \in {"n"} |-> "U"]

\* Node n of T runs U, whose only node runs V.
DeepNodes == {"n", "m", "u", "v", "x"}
DeepTemplates == [k \in DeepNodes |-> CASE k \in {"n", "m"} -> "T" [] k = "u" -> "U" [] OTHER -> "V"]
DeepConnections == <<Edge("n", "m"), Edge("v", "x")>>
DeepIn == [k \in {"n", "u"} |-> IF k = "n" THEN "U" ELSE "V"]

NoFaults == [pause |-> 0, resume |-> 0, cancel |-> 0, crash |-> 0, kill |-> 0]
PauseAndKill == [NoFaults EXCEPT !.pause = 1, !.resume = 3, !.kill = 1]
CancelAndCrash == [NoFaults EXCEPT !.cancel = 1, !.crash = 1]

Symmetry == Permutations(Workers) \union Permutations(Clients)
=============================================================================
