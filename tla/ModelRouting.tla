---------------------------- MODULE ModelRouting ----------------------------
(***************************************************************************)
(* Which model answers: ModelRouter and ModelSession (modeling/router.py)  *)
(* with the bounded retries of modeling/retry.py.  Turns run on threads of *)
(* their own; the panel repoints the slots while they do.                  *)
(***************************************************************************)
EXTENDS Naturals

CONSTANTS
  Profiles,      \* loaded model profiles
  Turns,         \* bound: turns at the same time
  Attempts,      \* DEFAULT_ATTEMPTS
  MaxRebinds     \* bound: changes of the slots

VARIABLES
  slots,         \* primary and fallback
  cooling,       \* the cooldown runs, and whose failure began it
  turn,          \* each turn: its place, mode, model, attempts so far, the
                 \* model whose failure it deals with, the binding it saw
  binding        \* how often the slots were repointed

routeVars == <<slots, cooling, turn, binding>>

Modes == {"auto", "chosen"}   \* chosen: local, flash, pro, or a picture to look at
NoTurn == [at |-> "none", mode |-> "auto", model |-> slots.primary, tries |-> 0,
           failed |-> slots.primary, saw |-> 0]

Init ==
  /\ \E p, f \in Profiles : slots = [primary |-> p, fallback |-> f]
  /\ cooling = [on |-> FALSE, of |-> slots.primary] /\ binding = 0
  /\ turn = [t \in Turns |-> NoTurn]

Set(t, r) == turn' = [turn EXCEPT ![t] = r]

\* initial_profile(): a new turn goes to the primary unless that is cooling down;
\* a mode, or a picture, has a profile of its own.
Open(t) ==
  /\ turn[t].at = "none"
  /\ \E m \in Modes, p \in Profiles :
       /\ m = "auto" => p = IF cooling.on THEN slots.fallback ELSE slots.primary
       /\ Set(t, [turn[t] EXCEPT !.at = "call", !.mode = m, !.model = p, !.tries = 1])
  /\ UNCHANGED <<slots, cooling, binding>>

Answered(t) ==
  /\ turn[t].at \in {"call", "second"}
  /\ Set(t, [turn[t] EXCEPT !.at = "answered", !.tries = 0, !.failed = turn[t].model, !.saw = 0])
  /\ UNCHANGED <<slots, cooling, binding>>

\* A failure that may pass is tried again, Attempts times in all.
TriesLeftAndOne(t) == turn[t].tries <= Attempts                             \* mutant
TriesLeft(t) == turn[t].tries < Attempts
Counted(t) == turn[t].tries + 1

Retry(t) ==
  /\ turn[t].at \in {"call", "second"} /\ TriesLeft(t)
  /\ Set(t, [turn[t] EXCEPT !.tries = Counted(t)])
  /\ UNCHANGED <<slots, cooling, binding>>

CanFailOverToItself(t) == turn[t].mode = "auto" /\ turn[t].model = slots.primary     \* mutant
CanFailOverAnyMode(t) ==                                                             \* mutant
  turn[t].model = slots.primary /\ slots.fallback # slots.primary
CanFailOver(t) ==
  /\ turn[t].mode = "auto" /\ turn[t].model = slots.primary /\ slots.fallback # slots.primary

\* Another failure, or the last attempt.
GiveUp(t) ==
  /\ turn[t].at \in {"call", "second"}
  /\ Set(t, IF turn[t].at = "call" /\ CanFailOver(t)
            THEN [turn[t] EXCEPT !.at = "record", !.failed = turn[t].model, !.saw = binding]
            ELSE [turn[t] EXCEPT !.at = "raised"])
  /\ UNCHANGED <<slots, cooling, binding>>

RecordPrimaryFailure(t) ==
  /\ turn[t].at = "record"
  /\ cooling' = [on |-> TRUE, of |-> turn[t].failed]
  /\ Set(t, [turn[t] EXCEPT !.at = "switch"])
  /\ UNCHANGED <<slots, binding>>

\* self._profile_id = self._router.fallback_profile_id
Switch(t) ==
  /\ turn[t].at = "switch"
  /\ Set(t, [turn[t] EXCEPT !.at = "second", !.model = slots.fallback, !.tries = 1])
  /\ UNCHANGED <<slots, cooling, binding>>

\* The next request of the turn goes to the model it has come to.
NextRequest(t) ==
  /\ turn[t].at = "answered"
  /\ Set(t, [turn[t] EXCEPT !.at = "call", !.tries = 1])
  /\ UNCHANGED <<slots, cooling, binding>>

Rebind ==
  /\ binding < MaxRebinds /\ binding' = binding + 1
  /\ \E p, f \in Profiles : slots' = [primary |-> p, fallback |-> f] /\ cooling' = [on |-> FALSE, of |-> p]
  /\ UNCHANGED turn

CooldownEnds ==
  /\ cooling.on /\ cooling' = [cooling EXCEPT !.on = FALSE]
  /\ UNCHANGED <<slots, turn, binding>>

Close(t) ==
  /\ turn[t].at \in {"answered", "raised"}
  /\ Set(t, NoTurn)
  /\ UNCHANGED <<slots, cooling, binding>>

InCall(t) == Answered(t) \/ Retry(t) \/ GiveUp(t) \/ RecordPrimaryFailure(t) \/ Switch(t)

Next ==
  \/ \E t \in Turns : Open(t) \/ InCall(t) \/ NextRequest(t) \/ Close(t)
  \/ Rebind \/ CooldownEnds

\* A request comes back, with an answer or an error.
Fairness == \A t \in Turns : WF_routeVars(InCall(t))

Spec == Init /\ [][Next]_routeVars
FairSpec == Spec /\ Fairness

-----------------------------------------------------------------------------
(* What the component promises.                                              *)

RoutingTypeOK ==
  /\ slots \in [primary : Profiles, fallback : Profiles] /\ binding \in 0 .. MaxRebinds
  /\ cooling \in [on : BOOLEAN, of : Profiles]
  /\ turn \in [Turns -> [at : {"none", "call", "record", "switch", "second", "answered", "raised"},
                         mode : Modes, model : Profiles, tries : 0 .. Attempts, failed : Profiles, saw : 0 .. MaxRebinds]]

\* "Bounded exponential backoff": whatever the models do, a request ends, through
\* the retries of one model and those of its stand-in.
RequestEnds == \A t \in Turns : turn[t].at \in {"call", "second"} ~> turn[t].at \in {"answered", "raised"}

\* "Keep one conversation/tool turn on a stable model": a turn leaves its model only
\* for the stand-in of a primary that failed, never if the model was chosen, and
\* unless the slots are repointed meanwhile the stand-in is another model.
TurnChangesForCause ==
  [][\A t \in Turns : turn[t].at # "none" /\ turn'[t].at # "none" /\ turn'[t].model # turn[t].model =>
       turn[t].mode = "auto" /\ turn[t].failed = turn[t].model]_routeVars
StandInIsAnother ==
  \A t \in Turns : turn[t].at = "second" /\ turn[t].saw = binding => turn[t].model # turn[t].failed

TurnIsStable == TurnChangesForCause /\ []StandInIsAnother

\* A primary is avoided only for a failure of its own.
CooldownIsDeserved == cooling.on => cooling.of = slots.primary
=============================================================================
