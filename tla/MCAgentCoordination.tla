------------------------ MODULE MCAgentCoordination ------------------------
(***************************************************************************)
(* Small instances of AgentCoordination for TLC: plans of one or two tasks *)
(* and children for a plan and its replacement.                            *)
(***************************************************************************)
EXTENDS AgentCoordination, TLC

CONSTANTS t1, t2, c1, c2, c3, w1, w2

\* Task names, child ids and threads are interchangeable.
Symmetric == Permutations(Tasks) \cup Permutations(Children) \cup Permutations(Workers)

\* Bound: no second wake_parent() begins while one is still to come.  A wake-up
\* queues the parent, and two of them do no more than one.
OneWakeUp == Cardinality(waking) <= 1
=============================================================================
