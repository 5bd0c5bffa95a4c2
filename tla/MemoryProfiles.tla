---------------------------- MODULE MemoryProfiles ----------------------------
(***************************************************************************)
(* The long-term memory of one tenant (services/memory.py): what is        *)
(* remembered, row by row, and SOUL.md, the file made of the rows that are *)
(* active.  Rows change in transactions that mark the profile as dirty;    *)
(* the file is made afterwards, under the tenant's lock, from rows read    *)
(* then, and the mark is taken away without asking who set it.  One thread *)
(* judges what users said as it comes in, another scans for what was       *)
(* missed, and users confirm, forget and ask.                              *)
(***************************************************************************)
EXTENDS Naturals, FiniteSets

CONSTANTS
  Facts,        \* what a row can say
  Topic,        \* normalized_key of a fact
  MaxEvents,    \* bound: messages
  MaxRequests,  \* bound: what users confirm, forget and clear
  MaxMishaps,   \* bound: errors on the way, a damaged file, deaths of the process
  Users

VARIABLES
  remembered,   \* memory_items: the status of the newest row of each fact
  profile,      \* soul_profiles (whole: the last compaction left nothing out)
  soul,         \* SOUL.md
  said, taken,  \* conversation_events, and how many of them extract_async() has worked off
  actor,        \* the threads
  locked,       \* who holds the tenant's lock
  overtaken,    \* rows changed while the last file was made; "left": and who would make it
                \* anew ended without (no variable of the code)
  requests, mishaps

memoryVars == <<remembered, profile, soul, said, taken, actor, locked, overtaken, requests, mishaps>>

Threads == {"async", "daily"} \cup Users
Nobody == "nobody"
Resting == [at |-> "idle", event |-> 0, last |-> 0, fact |-> Nobody, as |-> "none", changed |-> FALSE,
            force |-> FALSE, rows |-> {}, text |-> {}]
Damaged == [of |-> {}, rev |-> 0]

Init ==
  /\ remembered = [f \in Facts |-> "none"]
  /\ profile = [dirty |-> TRUE, of |-> {}, rev |-> 0, scanned |-> 0, whole |-> TRUE]
  /\ soul = Damaged /\ said = 0 /\ taken = 0
  /\ actor = [a \in Threads |-> Resting] /\ locked = Nobody
  /\ overtaken = "no" /\ requests = 0 /\ mishaps = 0

Open == {"active", "pending"}
Active == {f \in Facts : remembered[f] = "active"}
Rivals(f) == {g \in Facts \ {f} : Topic[g] = Topic[f] /\ remembered[g] \in Open}

RivalsKept(f) == {}                                                         \* mutant
Superseded(f) == Rivals(f)

\* f becomes active; the other rows of its key are superseded.
Activated(f) ==
  [g \in Facts |-> IF g = f THEN "active" ELSE IF g \in Superseded(f) THEN "superseded" ELSE remembered[g]]

MarkDirty == profile' = [profile EXCEPT !.dirty = TRUE]
Sets(a, s) == actor' = [actor EXCEPT ![a] = s]
Then(a, changed) == IF changed THEN [Resting EXCEPT !.at = "rebuild"] ELSE Resting

-----------------------------------------------------------------------------
(* What users say, and what the model makes of it.                           *)

Say ==
  /\ said < MaxEvents /\ said' = said + 1
  /\ UNCHANGED <<remembered, profile, soul, taken, actor, locked, overtaken, requests, mishaps>>

\* The model's answer, outside any transaction: no candidate, or one, explicit or inferred.
Verdict(a, s) ==
  \/ Sets(a, [s EXCEPT !.at = "store"])
  \/ \E f \in Facts, as \in Open : Sets(a, [s EXCEPT !.at = "store", !.fact = f, !.as = as])

\* extract_async(): one thread, in order; a call that fails is not repeated.
ExtractNext ==
  /\ actor["async"].at = "idle" /\ taken < said /\ taken' = taken + 1
  /\ Verdict("async", [Resting EXCEPT !.event = taken + 1]) \/ UNCHANGED actor
  /\ UNCHANGED <<remembered, profile, soul, said, locked, overtaken, requests, mishaps>>

\* scan_tenant(): the messages behind the cursor.
StartScan ==
  /\ actor["daily"].at = "idle" /\ profile.scanned < said
  /\ Sets("daily", [Resting EXCEPT !.at = "scan", !.event = profile.scanned, !.last = said])
  /\ UNCHANGED <<remembered, profile, soul, said, taken, locked, overtaken, requests, mishaps>>

\* A failed call ends the scan.
ScanNext ==
  LET s == actor["daily"] IN
  /\ s.at = "scan"
  /\ IF s.event = s.last THEN Sets("daily", Then("daily", s.changed))
     ELSE Verdict("daily", [s EXCEPT !.event = @ + 1]) \/ Sets("daily", Then("daily", s.changed))
  /\ UNCHANGED <<remembered, profile, soul, said, taken, locked, overtaken, requests, mishaps>>

Promoted(f, as) == as = "active" /\ remembered[f] # "active"

\* The transaction of _extract_once().
StoreCandidate(a) ==
  LET s == actor[a]
      changed == s.fact # Nobody /\ Promoted(s.fact, s.as)
  IN
  /\ s.at = "store"
  /\ remembered' = IF s.fact = Nobody \/ (remembered[s.fact] \in Open /\ ~changed) THEN remembered
                   ELSE IF changed THEN Activated(s.fact) ELSE [remembered EXCEPT ![s.fact] = "pending"]
  /\ profile' = [profile EXCEPT !.dirty = @ \/ changed,
                                !.scanned = IF a = "daily" /\ s.event > @ THEN s.event ELSE @]
  /\ Sets(a, IF a = "daily" THEN [Resting EXCEPT !.at = "scan", !.event = s.event, !.last = s.last,
                                                 !.changed = s.changed \/ changed]
             ELSE Then(a, changed))
  /\ UNCHANGED <<soul, said, taken, locked, overtaken, requests, mishaps>>

Happens == mishaps < MaxMishaps /\ mishaps' = mishaps + 1

\* Whatever raises in the judging or the storing ends the work; a scan forgets with it
\* that it has changed rows.
GivesUp(a) ==
  /\ Happens /\ actor[a].at \in {"scan", "store"} /\ Sets(a, Resting)
  /\ overtaken' = IF actor[a].changed THEN "left" ELSE overtaken
  /\ UNCHANGED <<remembered, profile, soul, said, taken, locked, requests>>

-----------------------------------------------------------------------------
(* Requests.                                                                 *)

Asks(a) == actor[a].at = "idle" /\ requests < MaxRequests /\ requests' = requests + 1

Confirm(a, f) ==
  /\ Asks(a) /\ remembered[f] = "pending"
  /\ remembered' = Activated(f) /\ MarkDirty /\ Sets(a, Then(a, TRUE))
  /\ UNCHANGED <<soul, said, taken, locked, overtaken, mishaps>>

Unmarked(changed) == UNCHANGED profile                                      \* mutant
Marked(changed) == profile' = [profile EXCEPT !.dirty = @ \/ changed]

\* forget() and clear().
Delete(a, which) ==
  LET changed == which \cap Active # {} IN
  /\ Asks(a) /\ \A f \in which : remembered[f] \in Open
  /\ remembered' = [f \in Facts |-> IF f \in which THEN "deleted" ELSE remembered[f]]
  /\ Marked(changed) /\ Sets(a, Then(a, changed))
  /\ UNCHANGED <<soul, said, taken, locked, overtaken, mishaps>>

Valid == ~profile.dirty /\ soul # Damaged /\ soul = [of |-> profile.of, rev |-> profile.rev]

\* get_soul(): the file as it is, or made anew.
GetSoul(a) ==
  /\ actor[a].at = "idle" /\ locked = Nobody /\ ~Valid
  /\ Sets(a, Then(a, TRUE))
  /\ UNCHANGED <<remembered, profile, soul, said, taken, locked, overtaken, requests, mishaps>>

\* run_weekly_compaction()
StartCompaction ==
  /\ actor["daily"].at = "idle" /\ requests < MaxRequests /\ requests' = requests + 1
  /\ Sets("daily", [Resting EXCEPT !.at = "rebuild", !.force = TRUE])
  /\ UNCHANGED <<remembered, profile, soul, said, taken, locked, overtaken, mishaps>>

-----------------------------------------------------------------------------
(* rebuild_soul()                                                            *)

\* Under the lock the rows are read; the model may leave out some of them.  If the file
\* passes for nothing now, whatever overtook it does not matter any more.
ReadRows(a) ==
  /\ actor[a].at = "rebuild" /\ locked = Nobody /\ locked' = a
  /\ \E text \in {Active} \cup (IF actor[a].force THEN SUBSET Active \ {{}} ELSE {}) :
       Sets(a, [Resting EXCEPT !.at = "write", !.rows = Active, !.text = text])
  /\ overtaken' = IF Valid THEN overtaken ELSE "no"
  /\ UNCHANGED <<remembered, profile, soul, said, taken, requests, mishaps>>

IsThere(text) == profile.of = text /\ soul # Damaged /\ soul = [of |-> text, rev |-> profile.rev]

Releases(a) == locked' = Nobody /\ Sets(a, Resting)
Overtaken(rows) == IF rows = Active THEN "no" ELSE IF overtaken = "left" THEN "left" ELSE "yes"

\* The file says so already: only the mark goes.
LeaveFile(a) ==
  /\ actor[a].at = "write" /\ IsThere(actor[a].text) /\ Releases(a)
  /\ profile' = [profile EXCEPT !.dirty = FALSE, !.whole = actor[a].text = actor[a].rows]
  /\ overtaken' = Overtaken(actor[a].rows)
  /\ UNCHANGED <<remembered, soul, said, taken, requests, mishaps>>

WriteFile(a) ==
  /\ actor[a].at = "write" /\ ~IsThere(actor[a].text)
  /\ soul' = [of |-> actor[a].text, rev |-> profile.rev + 1] /\ Sets(a, [actor[a] EXCEPT !.at = "commit"])
  /\ UNCHANGED <<remembered, profile, said, taken, locked, overtaken, requests, mishaps>>

Commit(a) ==
  /\ actor[a].at = "commit" /\ Releases(a)
  /\ profile' = [profile EXCEPT !.dirty = FALSE, !.of = actor[a].text, !.rev = @ + 1, !.whole = actor[a].text = actor[a].rows]
  /\ overtaken' = Overtaken(actor[a].rows)
  /\ UNCHANGED <<remembered, soul, said, taken, requests, mishaps>>

\* The writing of the file, or of the profile, raises; without the lock the error is
\* noted with the mark (_record_error()), unless the database refuses that too.
Raise(a) ==
  /\ Happens /\ actor[a].at \in {"write", "commit"}
  /\ locked' = Nobody /\ Sets(a, [Resting EXCEPT !.at = "error"])
  /\ UNCHANGED <<remembered, profile, soul, said, taken, overtaken, requests>>

LeftBehind == IF overtaken = "yes" THEN "left" ELSE overtaken

RecordError(a) ==
  /\ actor[a].at = "error" /\ Sets(a, Resting)
  /\ \/ MarkDirty /\ UNCHANGED overtaken
     \/ overtaken' = LeftBehind /\ UNCHANGED profile
  /\ UNCHANGED <<remembered, soul, said, taken, locked, requests, mishaps>>

\* Somebody else's hand is on the file.
Damage ==
  /\ Happens /\ soul' = Damaged
  /\ UNCHANGED <<remembered, profile, said, taken, actor, locked, overtaken, requests>>

\* The process dies and starts, with recover_dirty(); what was queued for the extractor is gone.
Crash ==
  /\ Happens /\ locked' = Nobody /\ taken' = said
  /\ actor' = [a \in Threads |-> IF a = "daily" /\ ~Valid THEN Then(a, TRUE) ELSE Resting]
  /\ overtaken' = LeftBehind
  /\ UNCHANGED <<remembered, profile, soul, said, requests>>

RebuildStep(a) == ReadRows(a) \/ LeaveFile(a) \/ WriteFile(a) \/ Commit(a) \/ RecordError(a)

Next ==
  \/ Say \/ ExtractNext \/ StartScan \/ ScanNext \/ StartCompaction \/ Damage \/ Crash
  \/ \E a \in {"async", "daily"} : StoreCandidate(a) \/ GivesUp(a)
  \/ \E a \in Users : \/ GetSoul(a)
                      \/ \E f \in Facts : Confirm(a, f) \/ Delete(a, {f})
                      \/ Delete(a, {f \in Facts : remembered[f] \in Open})
  \/ \E a \in Threads : RebuildStep(a) \/ Raise(a)

Spec == Init /\ [][Next]_memoryVars

\* The threads go on; the profile is asked for with every turn of the conversation (bot.py).
Fairness ==
  /\ WF_memoryVars(ExtractNext) /\ WF_memoryVars(ScanNext)
  /\ \A a \in {"async", "daily"} : WF_memoryVars(StoreCandidate(a))
  /\ \A a \in Threads : WF_memoryVars(ReadRows(a))
  /\ \A a \in Threads : WF_memoryVars(LeaveFile(a) \/ WriteFile(a) \/ Commit(a) \/ RecordError(a))
  /\ \A a \in Users : WF_memoryVars(GetSoul(a))

FairSpec == Spec /\ Fairness

-----------------------------------------------------------------------------
(* Properties.                                                               *)

MemoryTypeOK ==
  /\ remembered \in [Facts -> {"none", "active", "pending", "superseded", "deleted"}]
  /\ profile \in [dirty : BOOLEAN, of : SUBSET Facts, rev : Nat, scanned : 0 .. said, whole : BOOLEAN]
  /\ soul \in [of : SUBSET Facts, rev : Nat] /\ taken <= said
  /\ locked = Nobody \/ actor[locked].at \in {"write", "commit"}
  /\ \A a \in Threads : actor[a].at \in {"write", "commit"} => locked = a

\* Two active rows never contradict each other (_extract_once(), confirm()).
OneActivePerTopic == \A f, g \in Active : Topic[f] = Topic[g] => f = g

OnTheWay == \E a \in Threads : actor[a].changed \/ actor[a].at \in {"rebuild", "write", "commit", "error"}

\* A file that passes for current says what is active.  If rows changed while it was
\* made, somebody is on the way to make it anew, or ended without: with the process, by
\* an error that could not be noted, or with a scan that gave up after it had changed
\* rows (rebuild_soul(), forget(), _record_error(), scan_tenant()).
SoulIsCurrent ==
  Valid => \/ profile.of \subseteq Active /\ (profile.whole => profile.of = Active)
           \/ overtaken = "left" \/ (overtaken = "yes" /\ OnTheWay)

MemoryIsTrue == OneActivePerTopic /\ SoulIsCurrent

\* A dirty profile is made anew (get_soul()).
SoulCatchesUp == []<>Valid

-----------------------------------------------------------------------------
(* What the code does not promise.                                           *)

\* A file that passes for current never holds what was forgotten.
ForgottenIsGone == Valid => profile.of \subseteq Active \/ OnTheWay
=============================================================================
