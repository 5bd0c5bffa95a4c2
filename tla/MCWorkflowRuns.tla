--------------------------- MODULE MCWorkflowRuns ---------------------------
(***************************************************************************)
(* A small instance of WorkflowRuns for TLC.  The run passes, by one       *)
(* branch or the other, a node of every kind:                              *)
(*                                                                         *)
(*   fetch (retry) -> decide -true-> pay (gated) -> pause (delay) -> done  *)
(*                       \            \ -error-> form (input) -> done      *)
(*                        -false-> ask (approval) -approved-> send (write) *)
(*                                 -> done;  -rejected-> nothing           *)
(***************************************************************************)
EXTENDS WorkflowRuns

CONSTANTS w1, w2

MCNodes == {"fetch", "decide", "pay", "pause", "form", "ask", "send", "done"}
MCKind == [fetch |-> "step", decide |-> "choice", pay |-> "gated", pause |-> "delay",
           form |-> "input", ask |-> "approval", send |-> "write", done |-> "end"]
MCOnError == [n \in MCNodes |-> CASE n = "fetch" -> "retry" [] n = "pay" -> "error_branch"
                                  [] n = "send" -> "continue" [] OTHER -> "stop"]
Edges == {<<"fetch", "default", "decide">>, <<"decide", "true", "pay">>, <<"decide", "false", "ask">>,
          <<"pay", "default", "pause">>, <<"pay", "error", "form">>, <<"form", "default", "done">>,
          <<"pause", "default", "done">>, <<"ask", "approved", "send">>, <<"send", "default", "done">>}
MCTargets == [n \in MCNodes |-> [p \in Ports |-> SetToSeq({m \in MCNodes : <<n, p, m>> \in Edges})]]
MCStart == [r \in Runs |-> "fetch"]
=============================================================================
