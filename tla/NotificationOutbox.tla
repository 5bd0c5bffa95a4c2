------------------------- MODULE NotificationOutbox -------------------------
(***************************************************************************)
(* Proactive notifications: the table notification_outbox and the threads  *)
(* that empty it (services/notification.py), the address a tenant can be   *)
(* reached at (ChannelAddressStore in messaging/store.py), and the message *)
(* from the recipient that makes a stale address good again.               *)
(*                                                                         *)
(* Every method of the stores is one transaction and one action.  Between  *)
(* claim_due() and finish() a dispatcher picks an address and sends; the   *)
(* rows of a batch wait for their turn with their leases running.          *)
(***************************************************************************)
EXTENDS Naturals, Sequences, FiniteSets, SequencesExt

CONSTANTS
  Rows,         \* outbox ids, in the order of insertion
  Tenants,
  Owner,        \* [Rows -> Tenants]
  Images,       \* the rows of kind image
  Dispatchers,  \* the dispatcher thread and the request threads that try at once
  Limit,        \* limit of claim_due()
  MaxAttempts,  \* max_attempts of requeue_aged_waiting_recipient(): 20
  MaxFaults     \* bound: crashes and failed transactions

ASSUME OutboxAssumption ==
  /\ Rows \subseteq Nat \ {0} /\ IsFiniteSet(Rows) /\ Owner \in [Rows -> Tenants] /\ Images \subseteq Rows
  /\ Limit \in Nat \ {0} /\ MaxAttempts \in Nat \ {0} /\ MaxFaults \in Nat

VARIABLES
  row,        \* the table, without the payload
  active,     \* the tenant's endpoint has the status active
  pc, batch,  \* each dispatcher: its place, and the rows it has claimed and not settled
  delivered,  \* sends of each row that the channel confirmed
  waited,     \* rows that had to wait for their recipient at some time
  lapsed,     \* rows whose lease ended at some time under their dispatcher
  faults

vars == <<row, active, pc, batch, delivered, waited, lapsed, faults>>
history == <<delivered, waited, lapsed>>

Open == {"pending", "sending", "retry"}
Statuses == Open \cup {"absent", "waiting_recipient", "sent", "failed"}
\* What a dispatcher is about to report with finish().
Outcomes == {"sent", "failed", "retry", "waiting_recipient"}

Init ==
  /\ row = [r \in Rows |-> [status |-> "absent", attempts |-> 0, lease |-> "none"]]
  /\ active = [t \in Tenants |-> TRUE]
  /\ pc = [d \in Dispatchers |-> "idle"]
  /\ batch = [d \in Dispatchers |-> <<>>]
  /\ delivered = [r \in Rows |-> 0]
  /\ waited = {} /\ lapsed = {} /\ faults = 0

-----------------------------------------------------------------------------
(* The table. *)

\* INSERT OR IGNORE: a row whose source key is known adds nothing.
Enqueue(r) ==
  /\ row[r].status = "absent" /\ \A q \in Rows : q < r => row[q].status # "absent"
  /\ row' = [row EXCEPT ![r].status = "pending"]
  /\ UNCHANGED <<active, pc, batch, history, faults>>

\* A row is due when it is new, when its delay is over (which may be so at any
\* look, as time passes), or when its dispatcher has let the lease run out.
DueWhileSending(r) == row[r].status \in Open                                \* mutant
DuePendingOnly(r) == row[r].status \in {"pending", "retry"}                  \* mutant
Due(r) ==
  \/ row[r].status \in {"pending", "retry"}
  \/ row[r].status = "sending" /\ row[r].lease = "lapsed"

Earlier(r) == {q \in Rows : q < r /\ Owner[q] = Owner[r]}
ClaimableInAnyOrder(r) == Due(r)                                            \* mutant
Claimable(r) == Due(r) /\ \A q \in Earlier(r) : row[q].status \notin Open

\* The first n of S in the order of their ids.
FirstOf(S, n) ==
  [i \in 1 .. (IF Cardinality(S) < n THEN Cardinality(S) ELSE n) |->
     CHOOSE r \in S : Cardinality({q \in S : q < r}) = i - 1]

ClaimDue(d) ==
  /\ pc[d] = "idle"
  /\ LET claimed == FirstOf({r \in Rows : Claimable(r)}, Limit) IN
     /\ claimed # <<>>
     /\ row' = [r \in Rows |-> IF Contains(claimed, r)
                  THEN [row[r] EXCEPT !.status = "sending", !.lease = "live"]
                  ELSE row[r]]
     /\ batch' = [batch EXCEPT ![d] = claimed]
  /\ pc' = [pc EXCEPT ![d] = "pick"]
  /\ UNCHANGED <<active, history, faults>>

\* finish(): only a row that is being sent is settled, by whomever.  attempts
\* only matter up to MaxAttempts.
Settled(r, status) ==
  IF row[r].status # "sending" THEN row[r]
  ELSE [row[r] EXCEPT !.status = status, !.lease = "none",
          !.attempts = IF @ < MaxAttempts THEN @ + 1 ELSE @]

\* The message is over for this dispatcher, which goes on with its batch.
NextInBatchAlways(d) ==                                                     \* mutant
  batch' = [batch EXCEPT ![d] = Tail(@)] /\ pc' = [pc EXCEPT ![d] = "pick"]
NextInBatch(d) ==
  /\ batch' = [batch EXCEPT ![d] = Tail(@)]
  /\ pc' = [pc EXCEPT ![d] = IF Len(batch[d]) > 1 THEN "pick" ELSE "idle"]

Finish(d) ==
  /\ pc[d] \in Outcomes
  /\ LET r == Head(batch[d]) IN
     /\ row' = [row EXCEPT ![r] = Settled(r, pc[d])]
     /\ waited' = IF row'[r].status = "waiting_recipient" THEN waited \cup {r} ELSE waited
  /\ NextInBatch(d)
  /\ UNCHANGED <<active, delivered, lapsed, faults>>

\* The transaction of finish() fails: the exception leaves dispatch_due(), and
\* the rest of the batch stays "sending".
FinishRaises(d) ==
  /\ pc[d] \in Outcomes /\ faults < MaxFaults
  /\ faults' = faults + 1
  /\ pc' = [pc EXCEPT ![d] = "idle"] /\ batch' = [batch EXCEPT ![d] = <<>>]
  /\ UNCHANGED <<row, active, history>>

\* requeue_waiting_recipient()
Requeued(S) == [r \in Rows |-> IF r \in S /\ row[r].status = "waiting_recipient"
                  THEN [row[r] EXCEPT !.status = "pending"] ELSE row[r]]

\* The watchdog's requeue_aged_waiting_recipient(): any waiting row may have
\* reached the age, so that rows requeued together are requeued one by one.
RequeueAged(r) ==
  /\ row[r].status = "waiting_recipient" /\ row[r].attempts < MaxAttempts
  /\ row' = Requeued({r})
  /\ UNCHANGED <<active, pc, batch, history, faults>>

-----------------------------------------------------------------------------
(* A dispatcher with a claimed row. *)

\* _selected_endpoint(): an active address, or the one the row was pinned to
\* when it was stored or picked before, whatever that one's status is now.
Pick(d) ==
  /\ pc[d] = "pick"
  /\ \E place \in {"send"} \cup (IF active[Owner[Head(batch[d])]] THEN {} ELSE {"waiting_recipient"}) :
       pc' = [pc EXCEPT ![d] = place]
  /\ UNCHANGED <<row, active, batch, history, faults>>

\* send_text_to_tenant(), send_image_to_tenant(): confirmed, failed for now,
\* refused because the address is stale, or, for an image, given up.
Send(d) ==
  /\ pc[d] = "send"
  /\ LET r == Head(batch[d]) IN
     \E o \in {"sent", "retry", "stale"} \cup (IF r \in Images THEN {"failed"} ELSE {}) :
       /\ pc' = [pc EXCEPT ![d] = o]
       /\ delivered' = IF o = "sent" /\ delivered[r] < 2
                       THEN [delivered EXCEPT ![r] = @ + 1] ELSE delivered
  /\ UNCHANGED <<row, active, batch, waited, lapsed, faults>>

\* _deliver_endpoint(): the address is marked, whoever wrote meanwhile, and the
\* row is unpinned before it is settled.
MarkStale(d) ==
  /\ pc[d] = "stale"
  /\ active' = [active EXCEPT ![Owner[Head(batch[d])]] = FALSE]
  /\ pc' = [pc EXCEPT ![d] = "waiting_recipient"]
  /\ UNCHANGED <<row, batch, history, faults>>

-----------------------------------------------------------------------------
(* The recipient, time, and crashes. *)

\* A private message makes the address good: record_endpoint().
RecipientWrites(t) ==
  /\ ~active[t] /\ active' = [active EXCEPT ![t] = TRUE]
  /\ UNCHANGED <<row, pc, batch, history, faults>>

\* on_recipient_refreshed(), a transaction later.  A message that was recorded
\* while the address was good has left no trace, so that there may be one at
\* this place at any moment.
RequeueWaiting(t) ==
  /\ row' = Requeued({r \in Rows : Owner[r] = t}) /\ row' # row
  /\ UNCHANGED <<active, pc, batch, history, faults>>

Held(r) == \E d \in Dispatchers : Contains(batch[d], r)

\* 180 s are over.  A dispatcher may still be at the row, or at one before it
\* in its batch; this is bounded to once for each row.
LeaseLapses(r) ==
  /\ row[r].status = "sending" /\ row[r].lease = "live" /\ (Held(r) => r \notin lapsed)
  /\ row' = [row EXCEPT ![r].lease = "lapsed"] /\ lapsed' = lapsed \cup {r}
  /\ UNCHANGED <<active, pc, batch, delivered, waited, faults>>

Crash ==
  /\ faults < MaxFaults /\ faults' = faults + 1
  /\ pc' = [d \in Dispatchers |-> "idle"] /\ batch' = [d \in Dispatchers |-> <<>>]
  /\ UNCHANGED <<row, active, history>>

-----------------------------------------------------------------------------
Work(d) == Pick(d) \/ Send(d) \/ MarkStale(d) \/ Finish(d)

Next ==
  \/ (\E r \in Rows : Enqueue(r) \/ RequeueAged(r) \/ LeaseLapses(r))
  \/ (\E d \in Dispatchers : ClaimDue(d) \/ Work(d) \/ FinishRaises(d))
  \/ (\E t \in Tenants : RecipientWrites(t) \/ RequeueWaiting(t))
  \/ Crash

\* The dispatcher thread looks every two seconds and on every wake-up, sends
\* carry time limits, and time passes.
Fairness ==
  /\ \A d \in Dispatchers : WF_vars(ClaimDue(d)) /\ WF_vars(Work(d))
  /\ \A r \in Rows : WF_vars(RequeueAged(r)) /\ WF_vars(LeaseLapses(r))

Spec == Init /\ [][Next]_vars
FairSpec == Spec /\ Fairness

-----------------------------------------------------------------------------
(* What the component promises. *)

OutboxTypeOK ==
  /\ row \in [Rows -> [status : Statuses, attempts : 0 .. MaxAttempts,
                       lease : {"none", "live", "lapsed"}]]
  /\ active \in [Tenants -> BOOLEAN]
  /\ pc \in [Dispatchers -> {"idle", "pick", "send", "stale"} \cup Outcomes]
  /\ batch \in [Dispatchers -> Seq(Rows)]
  /\ \A d \in Dispatchers : pc[d] = "idle" <=> batch[d] = <<>>
  /\ delivered \in [Rows -> 0 .. 2] /\ waited \subseteq Rows /\ lapsed \subseteq Rows
  /\ faults \in 0 .. MaxFaults

\* A notification overtakes an earlier one of its tenant only if that one had
\* to wait for its recipient (the NOT EXISTS of claim_due(), and waiting rows
\* that come back behind it).
OnlyWaitingIsOvertaken ==
  \A r \in Rows : \A q \in Earlier(r) :
    delivered[r] > 0 /\ delivered[q] = 0 => q \in waited \/ row[q].status = "failed"

\* The channel confirms a notification a second time only if the lease ran out
\* on the first dispatcher, which stalled, died or could not record it.
RedeliveryNeedsLapse == \A r \in Rows : delivered[r] > 1 => r \in lapsed

DeliveredOnceInOrder == OnlyWaitingIsOvertaken /\ RedeliveryNeedsLapse

\* Once the channel confirms whatever it is given and rows that wait are left
\* alone, every notification goes out or waits for its recipient: none stays
\* behind with a dispatcher that died or stalled, nor behind a row that does.
Calm ==
  /\ \A d \in Dispatchers : pc[d] = "send" => pc'[d] \notin {"retry", "stale"}
  /\ \A r \in Rows : row[r].status = "waiting_recipient" => row'[r].status = "waiting_recipient"
DrainsInTheCalm ==
  <>[][Calm]_vars => \A r \in Rows : row[r].status \in Open ~> row[r].status \notin Open
=============================================================================
