---------------------------- MODULE MCAgentRuns ----------------------------
(***************************************************************************)
(* Small instances of AgentRuns for TLC: one run with every kind of        *)
(* interference, or two runs that compete for a resource.                  *)
(***************************************************************************)
EXTENDS AgentRuns, TLC

CONSTANTS r1, r2, w1, w2, plain, gated, other, ask, a1, a2

OneConversation == [r \in Runs |-> "conversation"]
OwnConversations == [r \in Runs |-> r]
Kinds == [c \in Calls |-> CASE c \in {gated, other} -> "gated" [] c = ask -> "ask" [] OTHER -> "plain"]
OneWorkspace == [c \in Calls |-> "workspace"]

\* Worker threads are interchangeable.
Symmetric == Permutations(Workers)
\* So are two calls of a kind, and the administrators.
SymmetricRequests == Permutations({gated, other}) \cup Permutations(Admins)
=============================================================================
