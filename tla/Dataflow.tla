------------------------------ MODULE Dataflow ------------------------------
(***************************************************************************)
(* What the graph engine promises, without rows, messages and workers: in  *)
(* every workflow a node starts when the nodes that feed it are complete,  *)
(* and a node that delegates is complete when a last node of the workflow  *)
(* it launched is.                                                         *)
(***************************************************************************)
CONSTANTS
  Nodes,      \* the nodes of all templates
  Wfs,        \* the workflows
  Feeds,      \* <<m, n>>: the result of m is an input of n
  Last,       \* nodes that may end a workflow
  Delegating  \* nodes that are complete when their nested workflow is

VARIABLES
  started,    \* <<i, n>>: node n of workflow i was started
  completed,  \* <<i, n>>: it was completed
  launched    \* <<i, n, c>>: node n of workflow i launched workflow c

flow == <<started, completed, launched>>

Init == started = {} /\ completed = {} /\ launched = {}

InputsComplete(i, n) == \A m \in Nodes : <<m, n>> \in Feeds => <<i, m>> \in completed

Start(i, n) ==
  /\ InputsComplete(i, n)
  /\ started' = started \union {<<i, n>>}
  /\ UNCHANGED <<completed, launched>>

LaunchNested(i, n, c) ==
  /\ <<i, n>> \in started
  /\ \A j \in Wfs, m \in Nodes : <<j, m, c>> \notin launched
  /\ launched' = launched \union {<<i, n, c>>}
  /\ UNCHANGED <<started, completed>>

\* A node is completed by its own code, or by the workflow that it launched.
Complete(i, n) ==
  /\ <<i, n>> \in started
  /\ n \in Delegating =>
       \E c \in Wfs, m \in Last : <<i, n, c>> \in launched /\ <<c, m>> \in completed
  /\ completed' = completed \union {<<i, n>>}
  /\ UNCHANGED <<started, launched>>

Next ==
  \E i \in Wfs, n \in Nodes :
    \/ Start(i, n)
    \/ Complete(i, n)
    \/ \E c \in Wfs : LaunchNested(i, n, c)

Spec == Init /\ [][Next]_flow
=============================================================================
