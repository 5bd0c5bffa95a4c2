----------------------------- MODULE TaskGraph -----------------------------
(***************************************************************************)
(* The check a coordinator makes of the plan its model drew up, before it  *)
(* starts any child (_validate_tasks() in services/agent_runs.py): rounds  *)
(* that each move the tasks whose prerequisites are done to done, until    *)
(* all are, or none can be.  A plan maps its tasks to their depends_on;    *)
(* the model may name tasks there that the plan does not have.             *)
(***************************************************************************)
EXTENDS TaskPlans, Naturals, FiniteSets

CONSTANT Names      \* the task names a model may write

VARIABLES plan, done, verdict
graphVars == <<plan, done, verdict>>

ReadyIgnoringOne(p, d) ==                                                  \* mutant
  {t \in DOMAIN p \ d : Cardinality(p[t] \ d) <= 1}
Ready(p, d) == {t \in DOMAIN p \ d : p[t] \subseteq d}

GraphInit == plan \in Candidates(Names) /\ done = {} /\ verdict = "checking"

Round ==
  /\ verdict = "checking" /\ done # DOMAIN plan /\ Ready(plan, done) # {}
  /\ done' = done \cup Ready(plan, done)
  /\ UNCHANGED <<plan, verdict>>
RejectNever == FALSE /\ UNCHANGED graphVars                                \* mutant
Reject ==
  /\ verdict = "checking" /\ done # DOMAIN plan /\ Ready(plan, done) = {}
  /\ verdict' = "rejected" /\ UNCHANGED <<plan, done>>
Accept ==
  /\ verdict = "checking" /\ done = DOMAIN plan
  /\ verdict' = "accepted" /\ UNCHANGED <<plan, done>>

GraphNext == Round \/ Reject \/ Accept
GraphSpec == GraphInit /\ [][GraphNext]_graphVars
GraphFairSpec == GraphSpec /\ WF_graphVars(GraphNext)   \* the loop is not left before its end

-----------------------------------------------------------------------------
\* The verdict is right: a plan is accepted exactly if its tasks can be run
\* in some order (_validate_tasks()).
VerdictIsRight ==
  /\ verdict = "accepted" => Orderable(plan)
  /\ verdict = "rejected" => ~Orderable(plan)

\* The loop comes to an end on every plan: no plan keeps a worker busy for ever.
Ends == <>(verdict # "checking")
=============================================================================
