----------------------------- MODULE TaskPlans -----------------------------
(***************************************************************************)
(* The plans a coordinator's model may draw up: each task of the plan with *)
(* the tasks it depends on (depends_on).                                   *)
(***************************************************************************)

\* Any list of tasks with any prerequisites, even ones that are no task of it.
Candidates(names) == UNION {[T -> SUBSET names] : T \in SUBSET names \ {{}}}

\* A plan that can be carried out: every prerequisite is a task of the plan,
\* and among any tasks one waits for none of the others.
Orderable(p) ==
  /\ \A t \in DOMAIN p : p[t] \subseteq DOMAIN p
  /\ \A S \in SUBSET DOMAIN p : S # {} => \E t \in S : p[t] \cap S = {}
=============================================================================
