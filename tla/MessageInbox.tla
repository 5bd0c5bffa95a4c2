---------------------------- MODULE MessageInbox ----------------------------
(***************************************************************************)
(* Inbound messages: the table message_inbox (messaging/store.py), the     *)
(* consumer thread that handles its rows one by one (ChannelManager in     *)
(* messaging/manager.py, MessageBot in application/bot.py), and the loop   *)
(* that builds the channels from the saved configuration and builds them   *)
(* anew when it changes (application/bootstrap.py).                        *)
(*                                                                         *)
(* shutdown() waits five seconds for a consumer, a message may take        *)
(* minutes: the consumer that is left behind finishes its message beside   *)
(* the next one.  The lease of 120 s is never renewed.  A consumer whose     *)
(* claim() or finish() is refused by the database ends, and only the next  *)
(* change of the configuration, or the next process, starts another.       *)
(***************************************************************************)
EXTENDS Naturals, FiniteSets

CONSTANTS
  Messages,     \* inbox ids; the order of arrival is the order of numbers
  Unaddressed,  \* messages of groups that do not address the bot
  Consumers,    \* bound: consumer threads alive at the same time
  MaxChanges,   \* bound: changes of the channel configuration
  MaxCrashes    \* bound: process crashes, and errors of the database

VARIABLES
  msg,        \* message_inbox: status; a retry that is due; the lease
  cpc, cur,   \* each consumer: its place, and its message
  stopping,   \* consumers of a manager that is shut down
  handled,    \* how often a message had its effects
  again,      \* messages whose reply failed, or whose lease ended under a consumer
  saved,      \* organization_runtime_revisions
  sup,        \* the supervising loop: its place, the revision the channels are
              \* built from, and the one it took for applied
  crashes

vars == <<msg, cpc, cur, stopping, handled, again, saved, sup, crashes>>
consumer == <<cpc, cur, stopping>>

Final == {"done", "ignored", "failed"}
Nothing == 0

Init ==
  /\ msg = [m \in Messages |-> [status |-> "absent", due |-> FALSE, lease |-> "none"]]
  /\ cpc = [c \in Consumers |-> "none"] /\ cur = [c \in Consumers |-> Nothing] /\ stopping = {}
  /\ handled = [m \in Messages |-> 0] /\ again = {}
  /\ saved = 0 /\ crashes = 0
  /\ sup = [at |-> "read", built |-> 0, applied |-> 0]

-----------------------------------------------------------------------------
(* The table.                                                                *)

\* emit(): a second event of the same id adds nothing.
Enqueue(m) ==
  /\ msg[m].status = "absent" /\ \A n \in Messages : n < m => msg[n].status # "absent"
  /\ msg' = [msg EXCEPT ![m].status = "pending"]
  /\ UNCHANGED <<consumer, handled, again, saved, sup, crashes>>

EligibleInProcess(m) == msg[m].status \in {"pending", "processing"}         \* mutant
EligibleNew(m) == msg[m].status = "pending"                                 \* mutant
Eligible(m) ==
  \/ msg[m].status = "pending"
  \/ msg[m].status = "retry" /\ msg[m].due
  \/ msg[m].status = "processing" /\ msg[m].lease = "lapsed"

Claim(c, m) ==
  /\ cpc[c] = "loop" /\ c \notin stopping
  /\ Eligible(m) /\ \A n \in Messages : Eligible(n) => m <= n
  /\ msg' = [msg EXCEPT ![m] = [status |-> "processing", due |-> FALSE, lease |-> "live"]]
  /\ cpc' = [cpc EXCEPT ![c] = "handle"] /\ cur' = [cur EXCEPT ![c] = m]
  /\ UNCHANGED <<stopping, handled, again, saved, sup, crashes>>

\* decode() and the handler.  A message that is unreadable, or not for the bot,
\* has no effects.  An error inside the handler is answered and the message is
\* done; what escapes, before the effects or with the reply after them, is not.
Handle(c) ==
  /\ cpc[c] = "handle"
  /\ \/ cur[c] \in Unaddressed /\ cpc' = [cpc EXCEPT ![c] = "ignored"] /\ UNCHANGED <<handled, again>>
     \/ /\ cur[c] \notin Unaddressed
        /\ \E o \in {"failed", "retry"} : cpc' = [cpc EXCEPT ![c] = o]
        /\ UNCHANGED <<handled, again>>
     \/ /\ cur[c] \notin Unaddressed
        /\ handled' = [handled EXCEPT ![cur[c]] = IF @ < 2 THEN @ + 1 ELSE @]
        /\ \E o \in {"done", "retry"} :
             /\ cpc' = [cpc EXCEPT ![c] = o]
             /\ again' = IF o = "retry" THEN again \cup {cur[c]} ELSE again
  /\ UNCHANGED <<msg, cur, stopping, saved, sup, crashes>>

\* finish() writes to the row whatever became of it.
Kept(c) == cur                                                              \* mutant
Dropped(c) == [cur EXCEPT ![c] = Nothing]

Finish(c) ==
  /\ cpc[c] \in Final \cup {"retry"}
  /\ msg' = [msg EXCEPT ![cur[c]] = [status |-> cpc[c], due |-> FALSE, lease |-> "none"]]
  /\ cpc' = [cpc EXCEPT ![c] = "loop"] /\ cur' = Dropped(c)
  /\ UNCHANGED <<stopping, handled, again, saved, sup, crashes>>

\* Neither the claim nor the finish stands in a try that would catch its error: the
\* thread ends, and what it had stays under its lease.  Only the note of an ignored
\* message is caught, and the message is put back.
Dies(c) ==
  /\ crashes < MaxCrashes /\ crashes' = crashes + 1
  /\ cpc' = [cpc EXCEPT ![c] = "none"] /\ cur' = [cur EXCEPT ![c] = Nothing] /\ stopping' = stopping \ {c}

ClaimRaises(c) ==
  /\ cpc[c] = "loop" /\ c \notin stopping /\ Dies(c)
  /\ UNCHANGED <<msg, handled, again, saved, sup>>

FinishRaises(c) ==
  /\ \/ cpc[c] \in {"done", "failed", "retry"} /\ Dies(c)
     \/ /\ cpc[c] = "ignored" /\ cpc' = [cpc EXCEPT ![c] = "retry"]
        /\ crashes < MaxCrashes /\ crashes' = crashes + 1 /\ UNCHANGED <<cur, stopping>>
  /\ UNCHANGED <<msg, handled, again, saved, sup>>

\* while not self._stop.is_set()
Exit(c) ==
  /\ cpc[c] = "loop" /\ c \in stopping
  /\ cpc' = [cpc EXCEPT ![c] = "none"] /\ stopping' = stopping \ {c}
  /\ UNCHANGED <<msg, cur, handled, again, saved, sup, crashes>>

\* The two seconds of a retry are over.
Ripens(m) ==
  /\ msg[m].status = "retry" /\ ~msg[m].due
  /\ msg' = [msg EXCEPT ![m].due = TRUE]
  /\ UNCHANGED <<consumer, handled, again, saved, sup, crashes>>

\* 120 s are over; under a consumer that is still busy this is bounded to once
\* for each message.
LeaseLapses(m) ==
  /\ msg[m].status = "processing" /\ msg[m].lease = "live"
  /\ LET held == \E c \in Consumers : cur[c] = m IN
     /\ held => m \notin again
     /\ again' = IF held \/ handled[m] > 0 THEN again \cup {m} ELSE again
  /\ msg' = [msg EXCEPT ![m].lease = "lapsed"]
  /\ UNCHANGED <<consumer, handled, saved, sup, crashes>>

-----------------------------------------------------------------------------
(* The supervising loop.                                                     *)

SaveConfiguration ==
  /\ saved < MaxChanges /\ saved' = saved + 1
  /\ UNCHANGED <<msg, consumer, handled, again, sup, crashes>>

\* configured_channels(); the adapters are built, which may include a login.
ReadConfiguration ==
  /\ sup.at = "read" /\ sup' = [sup EXCEPT !.at = "start", !.built = saved]
  /\ UNCHANGED <<msg, consumer, handled, again, saved, crashes>>

\* A new ChannelManager with a stop event and threads of its own.
Start ==
  /\ sup.at = "start"
  /\ \E c \in Consumers :
       cpc[c] = "none" /\ cpc' = [cpc EXCEPT ![c] = "loop"]
  /\ sup' = [sup EXCEPT !.at = "note"]
  /\ UNCHANGED <<msg, cur, stopping, handled, again, saved, crashes>>

\* applied_revisions = runtime_revisions()
NoteRevisions ==
  /\ sup.at = "note" /\ sup' = [sup EXCEPT !.at = "watch", !.applied = saved]
  /\ UNCHANGED <<msg, consumer, handled, again, saved, crashes>>

\* Once a second: another revision than the one applied means shutdown().
StoppedIdle == {c \in Consumers : cpc[c] = "loop"}                          \* mutant
Stopped == {c \in Consumers : cpc[c] # "none"}
BuiltAgain == "start"                                                       \* mutant
Rebuilt == "read"

Shutdown ==
  /\ sup.at = "watch" /\ saved # sup.applied
  /\ sup' = [sup EXCEPT !.at = Rebuilt]
  /\ stopping' = Stopped
  /\ UNCHANGED <<msg, cpc, cur, handled, again, saved, crashes>>

Crash ==
  /\ crashes < MaxCrashes /\ crashes' = crashes + 1
  /\ cpc' = [c \in Consumers |-> "none"] /\ cur' = [c \in Consumers |-> Nothing] /\ stopping' = {}
  /\ sup' = [at |-> "read", built |-> 0, applied |-> 0]
  /\ UNCHANGED <<msg, handled, again, saved>>

-----------------------------------------------------------------------------
Supervise == ReadConfiguration \/ Start \/ NoteRevisions \/ Shutdown

Next ==
  \/ (\E m \in Messages : Enqueue(m) \/ Ripens(m) \/ LeaseLapses(m))
  \/ (\E c \in Consumers : (\E m \in Messages : Claim(c, m)) \/ Handle(c) \/ Finish(c) \/ Exit(c)
                               \/ ClaimRaises(c) \/ FinishRaises(c))
  \/ SaveConfiguration \/ Supervise \/ Crash

\* Threads run and time passes.  Strong fairness for the claims of a message: a
\* consumer looks again as soon as it has finished, long before the two seconds
\* of an earlier message's retry are over.
Fairness ==
  /\ WF_vars(Supervise)
  /\ \A c \in Consumers : WF_vars(Handle(c) \/ Finish(c) \/ Exit(c))
  /\ \A m \in Messages : /\ WF_vars(Ripens(m)) /\ WF_vars(LeaseLapses(m))
                         /\ SF_vars(\E c \in Consumers : Claim(c, m))

Spec == Init /\ [][Next]_vars
FairSpec == Spec /\ Fairness

-----------------------------------------------------------------------------
(* What the component promises.                                              *)

InboxTypeOK ==
  /\ msg \in [Messages -> [status : Final \cup {"absent", "pending", "retry", "processing"},
                           due : BOOLEAN, lease : {"none", "live", "lapsed"}]]
  /\ cpc \in [Consumers -> Final \cup {"none", "loop", "handle", "retry"}]
  /\ cur \in [Consumers -> Messages \cup {Nothing}]
  /\ \A c \in Consumers : cur[c] = Nothing <=> cpc[c] \in {"none", "loop"}
  /\ stopping \subseteq Consumers /\ handled \in [Messages -> 0 .. 2] /\ again \subseteq Messages
  /\ saved \in 0 .. MaxChanges /\ crashes \in 0 .. MaxCrashes
  /\ sup \in [at : {"read", "start", "note", "watch"}, built : 0 .. MaxChanges, applied : 0 .. MaxChanges]

\* A message takes effect a second time only if its reply failed, or if its
\* lease of 120 s ended before it was settled.
EffectsRepeatOnlyForCause == \A m \in Messages : handled[m] > 1 => m \in again

\* At most one consumer looks for new messages, whatever becomes of those that
\* were stopped: what they leave behind is finished, not added to.
OneLivingConsumer == Cardinality({c \in Consumers : cpc[c] # "none" /\ c \notin stopping}) <= 1

HandledByOne == EffectsRepeatOnlyForCause /\ OneLivingConsumer

\* The consumer of the running channels ended with an error of the database.
ConsumerIsGone == sup.at = "watch" /\ \A c \in Consumers : cpc[c] = "none" \/ c \in stopping

\* No message is left in the hands of a consumer that is gone: each is settled
\* or put back, through crashes and reconfigurations, as long as there is a consumer.
MessageIsSettledOrRetried ==
  \A m \in Messages : msg[m].status \in {"pending", "processing"} ~>
                        msg[m].status \in Final \cup {"retry"} \/ ConsumerIsGone

\* A change of the configuration that comes while the loop watches is applied.
WatchedChangeIsApplied ==
  \A v \in 1 .. MaxChanges : sup.at = "watch" /\ sup.applied < v /\ saved = v ~> sup.built >= v

\* "Messages ... are handled by the core one after the other."
HandledSerially == \A c, d \in Consumers : cpc[c] = "handle" /\ cpc[d] = "handle" => c = d
=============================================================================
