-------------------------- MODULE PlatformResources --------------------------
(***************************************************************************)
(* The platform's catalog (services/resources.py) and the configuration    *)
(* the process runs with (ProjectConfig, filled by the activation handler  *)
(* of api/app.py).  An administrator saves a version and publishes it in   *)
(* two steps of one request; the handler runs BEFORE the catalog's         *)
(* pointers move, under a lock that only publications and deletions share. *)
(* A payload is what it says of its resource; that of the settings is the  *)
(* model they bind.                                                        *)
(***************************************************************************)
EXTENDS Naturals, Sequences, SequencesExt

CONSTANTS
  Resources,      \* ids of the catalog
  Kind,           \* [Resources -> {"skill", "chat", "embedding", "settings"}]
  Payloads,       \* [Resources -> what may be published of each]
  Seeded,         \* [Resources -> payload of the configuration files, or None]
  Editors,        \* requests of administrators under way together
  MaxRevision,    \* bound: versions of a resource
  MaxBoots        \* bound: restarts of the process

None == "none"

VARIABLES
  row,       \* a resource: its versions, and the pointers of platform_resources (0: none)
  running,   \* what the process runs with, by resource
  editor,    \* where each request stands, and the version it publishes
  holder,    \* who holds the activation lock
  unrecorded,   \* resources that the handler changed, where the catalog could not follow (no
                \* variable of the code)
  boots

resourceVars == <<row, running, editor, holder, unrecorded, boots>>

\* The version a resource begins with: none, or the one of the files.
NoRow == [versions |-> <<>>, published |-> 0, active |-> 0, state |-> "absent"]
SeededRow(r) ==
  IF Seeded[r] = None THEN NoRow
  ELSE [versions |-> <<Seeded[r]>>, published |-> 1, active |-> 1, state |-> "active"]
Idle == [pc |-> "idle", res |-> None, rev |-> 0]

Known(r) == row[r].state # "absent"
At(entry, n) == IF n \in DOMAIN entry.versions THEN entry.versions[n] ELSE None
Active(r) == At(row[r], row[r].active)

Init ==
  /\ row = [r \in Resources |-> SeededRow(r)]
  /\ running = [r \in Resources |-> Seeded[r]]
  /\ editor = [e \in Editors |-> Idle]
  /\ holder = None /\ unrecorded = {} /\ boots = 0

-----------------------------------------------------------------------------
(* upsert_public(): save_draft(), then publish() of that very revision. *)

SaveDraft(e, r, p) ==
  /\ editor[e] = Idle /\ Len(row[r].versions) < MaxRevision
  /\ row' = [row EXCEPT ![r].versions = Append(@, p),
                        ![r].state = IF Known(r) THEN @ ELSE "inactive"]
  /\ editor' = [editor EXCEPT ![e] = [pc |-> "publish", res |-> r, rev |-> Len(row[r].versions) + 1]]
  /\ UNCHANGED <<running, holder, unrecorded, boots>>

\* Under the lock; the version may be gone with its resource.
Enter(e) ==
  LET r == editor[e].res IN
  /\ editor[e].pc = "publish" /\ holder = None
  /\ IF At(row[r], editor[e].rev) = None
     THEN editor' = [editor EXCEPT ![e] = Idle] /\ UNCHANGED holder
     ELSE editor' = [editor EXCEPT ![e].pc = "apply"] /\ holder' = e
  /\ UNCHANGED <<row, running, unrecorded, boots>>

\* Settings wait for a restart when the embedding model changes, which is left
\* out; the first settings and whatever else is hot are applied at once.
RequiresRestart(r) == Kind[r] = "embedding"

\* The handler.  What is listed beside the resource itself are the active versions ...
Listed(r) == {x \in Resources \ {r} : Kind[x] = Kind[r]}
Models == {x \in Resources : Kind[x] \in {"chat", "embedding"}}
\* ... with the payload in the place of the resource; but the models are all
\* built from the catalog, in which the old version is still active.
OwnPayloadListed(r, p) == Active(r)                                        \* mutant
OwnPayload(r, p) == p
Applied(r, p) ==
  [x \in Resources |->
     CASE Kind[r] = "chat" /\ x \in Models -> Active(x)
       [] Kind[r] # "chat" /\ x = r -> OwnPayload(r, p)
       [] Kind[r] = "skill" /\ x \in Listed(r) -> Active(x)
       [] OTHER -> running[x]]
Relisted(r) ==
  CASE Kind[r] = "chat" -> Models [] Kind[r] = "skill" -> Listed(r) [] OTHER -> {}

\* The settings may only bind a model that runs.
Applicable(r, p) == Kind[r] = "settings" => p \in Resources /\ running[p] # None

Apply(e) ==
  LET r == editor[e].res  p == At(row[r], editor[e].rev) IN
  /\ editor[e].pc = "apply"
  /\ IF RequiresRestart(r)
     THEN editor' = [editor EXCEPT ![e].pc = "write"] /\ UNCHANGED <<row, running, holder, unrecorded>>
     ELSE \/ /\ Applicable(r, p)
             /\ running' = Applied(r, p) /\ unrecorded' = unrecorded \ Relisted(r)
             /\ editor' = [editor EXCEPT ![e].pc = "write"]
             /\ UNCHANGED <<row, holder>>
          \/ \* it raises before it has changed anything; the note of it may be refused
             /\ row' \in {row, [row EXCEPT ![r].state = "failed"]}
             /\ editor' = [editor EXCEPT ![e] = Idle] /\ holder' = None
             /\ UNCHANGED <<running, unrecorded>>
  /\ UNCHANGED boots

\* Then the pointers move, the active one only if nothing waits for a restart.
ActiveAlways(r, n) == n                                                    \* mutant
NewActive(r, n) == IF RequiresRestart(r) THEN row[r].active ELSE n
Write(e) ==
  LET r == editor[e].res  n == editor[e].rev IN
  /\ editor[e].pc = "write"
  /\ row' = [row EXCEPT ![r].published = n, ![r].active = NewActive(r, n),
                        ![r].state = IF RequiresRestart(r) THEN "restart_required" ELSE "active"]
  /\ editor' = [editor EXCEPT ![e] = Idle] /\ holder' = None
  /\ unrecorded' = IF RequiresRestart(r) THEN unrecorded ELSE unrecorded \ {r}
  /\ UNCHANGED <<running, boots>>

\* The transaction of a publication, or a deletion from the keychain or the database,
\* raises: nobody takes back what the handler did.
RecordingRaises(e) ==
  LET r == editor[e].res IN
  /\ editor[e].pc \in {"write", "erase"}
  /\ unrecorded' = IF editor[e].pc = "write" /\ RequiresRestart(r) THEN unrecorded ELSE unrecorded \cup {r}
  /\ editor' = [editor EXCEPT ![e] = Idle] /\ holder' = None
  /\ UNCHANGED <<row, running, boots>>

-----------------------------------------------------------------------------
(* delete_public(): the references are looked at before the lock is taken. *)

Bound == {Active(s) : s \in {s \in Resources : Kind[s] = "settings"}}
Delete(e, r) ==
  /\ editor[e] = Idle /\ Kind[r] # "settings" /\ r \notin Bound
  /\ editor' = [editor EXCEPT ![e] = [pc |-> "delete", res |-> r, rev |-> 0]]
  /\ UNCHANGED <<row, running, holder, unrecorded, boots>>

\* The handler takes a model out of the list, and lists the other skills anew.
Withdrawn(r) == IF Kind[r] = "chat" THEN [running EXCEPT ![r] = None] ELSE Applied(r, None)
LeftUnrecorded(r) == IF Kind[r] = "skill" THEN unrecorded \ Listed(r) ELSE unrecorded

\* What was never active is unknown to get_public(); and the handler may raise.
Forget(e) ==
  LET r == editor[e].res IN
  /\ editor[e].pc = "delete" /\ holder = None
  /\ \/ editor' = [editor EXCEPT ![e] = Idle] /\ UNCHANGED <<running, holder, unrecorded>>
     \/ /\ Active(r) # None /\ running' = Withdrawn(r) /\ unrecorded' = LeftUnrecorded(r)
        /\ editor' = [editor EXCEPT ![e].pc = "erase"] /\ holder' = e
  /\ UNCHANGED <<row, boots>>
Erase(e) ==
  /\ editor[e].pc = "erase"
  /\ row' = [row EXCEPT ![editor[e].res] = NoRow]
  /\ editor' = [editor EXCEPT ![e] = Idle] /\ holder' = None /\ unrecorded' = unrecorded \ {editor[e].res}
  /\ UNCHANGED <<running, boots>>

-----------------------------------------------------------------------------
(* A new process: bootstrap_public(), _activate_pending_on_startup() and     *)
(* build_project_config().                                                   *)

Activated(entry) ==
  IF entry.published # 0 /\ entry.active # entry.published
  THEN [entry EXCEPT !.active = entry.published, !.state = "active"] ELSE entry
Restart ==
  /\ boots < MaxBoots /\ boots' = boots + 1
  /\ row' = [r \in Resources |-> Activated(IF Known(r) THEN row[r] ELSE SeededRow(r))]
  /\ running' = [r \in Resources |-> At(row'[r], row'[r].active)]
  /\ editor' = [e \in Editors |-> Idle] /\ holder' = None /\ unrecorded' = {}

EditorStep(e) == Enter(e) \/ Apply(e) \/ Write(e) \/ RecordingRaises(e) \/ Forget(e) \/ Erase(e)
Next ==
  \/ \E e \in Editors, r \in Resources :
       Delete(e, r) \/ \E p \in Payloads[r] : SaveDraft(e, r, p)
  \/ \E e \in Editors : EditorStep(e)
  \/ Restart
Spec == Init /\ [][Next]_resourceVars

-----------------------------------------------------------------------------
(* What the catalog promises. *)

\* The rows, the configuration and the requests have their types.
CatalogTypeOK ==
  /\ \A r \in Resources :
       /\ row[r].versions \in SeqOf(Payloads[r], MaxRevision)
       /\ {row[r].published, row[r].active} \subseteq 0 .. Len(row[r].versions)
       /\ row[r].state \in {"absent", "inactive", "active", "failed", "restart_required"}
       /\ running[r] \in Payloads[r] \cup {None}
  /\ editor \in [Editors -> [pc : {"idle", "publish", "apply", "write", "delete", "erase"},
                             res : Resources \cup {None}, rev : 0 .. MaxRevision]]
  /\ holder \in Editors \cup {None} /\ unrecorded \subseteq Resources /\ boots \in 0 .. MaxBoots

\* While nobody publishes or deletes, the process runs the active version of every
\* resource but those whose own change could not be recorded after the handler had
\* made it, until they are published, deleted or listed anew or the process restarts;
\* and a version that waits for a restart is said to wait.  A restart in the middle, a
\* handler that failed and a second editor leave the two agreed (publish(),
\* delete_public(), the handlers that use the payload they are given).
RunsTheActive(kinds) ==
  holder = None =>
    \A r \in Resources \ unrecorded : Kind[r] \in kinds => running[r] = Active(r)
PendingIsShown ==
  \A r \in Resources : row[r].active # row[r].published => row[r].state \in {"restart_required", "failed"}
CatalogIsTrue == RunsTheActive({"skill", "embedding", "settings"}) /\ PendingIsShown

\* A published chat model is applied while the process runs.
ChatModelIsRunning == RunsTheActive({"chat"})

\* The settings bind a model that exists.
BoundIsKept == holder = None => \A m \in Bound : m \in Resources => Known(m)
=============================================================================
