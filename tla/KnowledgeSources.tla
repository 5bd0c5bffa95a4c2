-------------------------- MODULE KnowledgeSources --------------------------
(***************************************************************************)
(* One file of the drive and the knowledge source made of it: the row of   *)
(* knowledge_sources, its chunks and their vectors (services/knowledge.py) *)
(* and what the drive reports (services/drive.py).  Requests read the row, *)
(* look at the file and ask the embedding service outside of transactions; *)
(* scripts and tools change the file without telling anybody.              *)
(***************************************************************************)
EXTENDS Naturals

CONSTANTS
  Requests,    \* requests under way at the same time
  Texts,       \* what may stand in the file
  Categories,  \* knowledge bases of one scope
  NoText,      \* no text, no vector
  MaxWrites     \* bound: changes of the file

VARIABLES
  document,  \* there: whether it exists; text; stamp: its size and time of change
  report,    \* what the drive has still to tell: nothing, that it changed, or is deleted
  source,    \* the row: status, category, hash of the text indexed, stamp of the file then
  chunks,    \* of the source: text, category, the text the vectors stand for
  request    \* what each request does, and what it has read

knowledgeVars == <<document, report, source, chunks, request>>

ActiveStatuses == {"ready", "pending_embedding"}
SourceStatuses == ActiveStatuses \cup {"stale_modified", "source_missing", "failed"}

NoRequest == [op |-> "idle", status |-> "ready", category |-> CHOOSE c \in Categories : TRUE,
              text |-> NoText, stamp |-> 0, fresh |-> FALSE, vector |-> NoText]

KnowledgeInit ==
  /\ \E t \in Texts : document = [there |-> TRUE, text |-> t, stamp |-> 0]
  /\ report = "nothing"
  /\ source = [status |-> "ready", category |-> NoRequest.category, hash |-> document.text, stamp |-> 0]
  /\ chunks = [text |-> document.text, category |-> NoRequest.category, vector |-> document.text]
  /\ request = [r \in Requests |-> NoRequest]

Go(r, op) == request' = [request EXCEPT ![r].op = op]
Done(r) == request' = [request EXCEPT ![r] = NoRequest]

-----------------------------------------------------------------------------
(* The drive.                                                                *)

\* The file is written.  save_file() tells the knowledge base of it when it
\* replaces one, in a second step; a script or a tool does not.
Write(t, tell) ==
  /\ document.stamp < MaxWrites /\ (tell => report = "nothing")
  /\ document' = [there |-> TRUE, text |-> t, stamp |-> document.stamp + 1]
  /\ report' = IF tell /\ document.there THEN "changed" ELSE report
  /\ UNCHANGED <<source, chunks, request>>

Delete ==
  /\ document.there /\ report = "nothing"
  /\ document' = [document EXCEPT !.there = FALSE] /\ report' = "deleted"
  /\ UNCHANGED <<source, chunks, request>>

MarkDriveChanged ==
  /\ report = "changed" /\ report' = "nothing"
  /\ source' = [source EXCEPT !.status = "stale_modified"]
  /\ UNCHANGED <<document, chunks, request>>

MarkDriveDeleted ==
  /\ report = "deleted" /\ report' = "nothing"
  /\ source' = [source EXCEPT !.status = "source_missing"]
  /\ UNCHANGED <<document, chunks, request>>

-----------------------------------------------------------------------------
(* refresh(): the row, the text, the stamp, the vectors, then the transaction *)
(* of _index().                                                              *)

RefreshRead(r) ==
  /\ request[r].op = "idle"
  /\ request' = [request EXCEPT ![r] = [NoRequest EXCEPT !.op = "read", !.category = source.category]]
  /\ UNCHANGED <<document, report, source, chunks>>

ReadDocument(r) ==
  /\ request[r].op = "read"
  /\ request' = [request EXCEPT ![r].op = IF document.there THEN "stat" ELSE "refused", ![r].text = document.text]
  /\ UNCHANGED <<document, report, source, chunks>>

Stat(r) ==
  /\ request[r].op = "stat"
  /\ request' = [request EXCEPT ![r].op = IF document.there THEN "embed" ELSE "refused", ![r].stamp = document.stamp]
  /\ UNCHANGED <<document, report, source, chunks>>

\* The embedding service answers, or fails and leaves the vectors to reindex().
EmbedChunks(r) ==
  /\ request[r].op = "embed"
  /\ \E v \in {NoText, request[r].text} :
       request' = [request EXCEPT ![r].op = "index", ![r].vector = v]
  /\ UNCHANGED <<document, report, source, chunks>>

\* New chunks have new ids: vectors made for the old ones find no chunk.
Replaced(r) == [q \in Requests |-> IF q = r THEN NoRequest ELSE [request[q] EXCEPT !.fresh = FALSE]]
Unchanged(r) == source.hash = request[r].text /\ source.status \in ActiveStatuses

Index(r) ==
  /\ request[r].op = "index"
  /\ IF Unchanged(r)
     THEN /\ source' = [source EXCEPT !.stamp = request[r].stamp]
          /\ Done(r) /\ UNCHANGED chunks
     ELSE /\ source' = [status |-> IF request[r].vector = NoText THEN "pending_embedding" ELSE "ready",
                        category |-> request[r].category, hash |-> request[r].text, stamp |-> request[r].stamp]
          /\ chunks' = [text |-> request[r].text, category |-> request[r].category, vector |-> request[r].vector]
          /\ request' = Replaced(r)
  /\ UNCHANGED <<document, report>>

\* Whatever stood in the way of refresh() is written into the row as it is now.
RefreshFails(r) ==
  /\ request[r].op = "refused"
  /\ \E st \in {"source_missing", "failed"} : source' = [source EXCEPT !.status = st]
  /\ Done(r) /\ UNCHANGED <<document, report, chunks>>

-----------------------------------------------------------------------------
(* _reconcile(): before a listing or a search the rows are compared with the *)
(* files; statuses read at the start are written at the end.                 *)

ReconcileRead(r) ==
  /\ request[r].op = "idle"
  /\ request' = [request EXCEPT ![r] = [NoRequest EXCEPT
       !.op = "look", !.status = source.status, !.text = source.hash, !.stamp = source.stamp]]
  /\ UNCHANGED <<document, report, source, chunks>>

Look(r) ==
  /\ request[r].op = "look"
  /\ LET q == request[r] IN request' = [request EXCEPT ![r] =
       IF ~document.there THEN [q EXCEPT !.op = "note", !.status = "source_missing"]
       ELSE IF document.stamp = q.stamp THEN NoRequest
       ELSE [q EXCEPT !.op = "note", !.stamp = document.stamp,
                      !.status = IF document.text = q.text THEN q.status ELSE "stale_modified"]]
  /\ UNCHANGED <<document, report, source, chunks>>

\* The file goes while it is looked at, or cannot be read.
LookFails(r) ==
  /\ request[r].op = "look"
  /\ request' = [request EXCEPT ![r].op = "note", ![r].status = "failed"]
  /\ UNCHANGED <<document, report, source, chunks>>

Note(r) ==
  /\ request[r].op = "note"
  /\ source' = [source EXCEPT !.status = request[r].status,
       !.stamp = IF request[r].status \in {"source_missing", "failed"} THEN @ ELSE request[r].stamp]
  /\ Done(r) /\ UNCHANGED <<document, report, chunks>>

-----------------------------------------------------------------------------
(* reindex() makes the vectors that are missing, reembed_sources() all of    *)
(* them; both read the chunks, ask the service, and write in a transaction.  *)

ReadChunks(r, op) ==
  /\ request[r].op = "idle"
  /\ op = "reindex" => source.status \in ActiveStatuses
  /\ request' = [request EXCEPT ![r] = [NoRequest EXCEPT !.op = op, !.text = chunks.text, !.fresh = TRUE]]
  /\ UNCHANGED <<document, report, source, chunks>>

\* Vectors refer to the chunk they were made for: with that chunk gone the
\* transaction fails as a whole.
HasChunkAnyway(r) == TRUE                                                  \* mutant
HasChunk(r) == request[r].fresh

Reembed(r) ==
  /\ request[r].op = "reembed" /\ HasChunk(r)
  /\ chunks' = [chunks EXCEPT !.vector = request[r].text]
  /\ source' = [source EXCEPT !.status = "ready"]
  /\ Done(r) /\ UNCHANGED <<document, report>>

ReembedFails(r) ==
  /\ request[r].op = "reembed"
  /\ source' = [source EXCEPT !.status = "pending_embedding"]
  /\ Done(r) /\ UNCHANGED <<document, report, chunks>>

StoreVectors(r) ==
  /\ request[r].op = "reindex" /\ HasChunk(r)
  /\ chunks' = [chunks EXCEPT !.vector = request[r].text]
  /\ Go(r, "reindexed") /\ UNCHANGED <<document, report, source>>

ReindexFails(r) ==
  /\ request[r].op = "reindex" /\ Go(r, "reindexed") /\ UNCHANGED <<document, report, source, chunks>>

IntegrityError(r) ==
  /\ request[r].op \in {"reindex", "reembed"} /\ ~HasChunk(r)
  /\ Done(r) /\ UNCHANGED <<document, report, source, chunks>>

\* Rows that wait for vectors and lack none are ready.
MarkReady(r) ==
  /\ request[r].op = "reindexed"
  /\ source' = IF source.status = "pending_embedding" /\ chunks.vector # NoText
               THEN [source EXCEPT !.status = "ready"] ELSE source
  /\ Done(r) /\ UNCHANGED <<document, report, chunks>>

-----------------------------------------------------------------------------
\* move_sources(): the row, its chunks and their index entries in one transaction.
Moved(c) == [chunks EXCEPT !.category = c]

MoveSources(c) ==
  /\ source.category # c
  /\ source' = [source EXCEPT !.category = c]
  /\ chunks' = Moved(c)
  /\ UNCHANGED <<document, report, request>>

RequestStep(r) ==
  \/ RefreshRead(r) \/ ReadDocument(r) \/ Stat(r) \/ EmbedChunks(r) \/ Index(r) \/ RefreshFails(r)
  \/ ReconcileRead(r) \/ Look(r) \/ LookFails(r) \/ Note(r)
  \/ \E op \in {"reindex", "reembed"} : ReadChunks(r, op)
  \/ Reembed(r) \/ ReembedFails(r) \/ StoreVectors(r) \/ ReindexFails(r) \/ IntegrityError(r) \/ MarkReady(r)

KnowledgeNext ==
  \/ \E t \in Texts, tell \in BOOLEAN : Write(t, tell)
  \/ Delete \/ MarkDriveChanged \/ MarkDriveDeleted
  \/ \E r \in Requests : RequestStep(r)
  \/ \E c \in Categories : MoveSources(c)

KnowledgeSpec == KnowledgeInit /\ [][KnowledgeNext]_knowledgeVars

-----------------------------------------------------------------------------
KnowledgeTypeOK ==
  /\ document \in [there : BOOLEAN, text : Texts, stamp : 0 .. MaxWrites]
  /\ report \in {"nothing", "changed", "deleted"}
  /\ source \in [status : SourceStatuses, category : Categories, hash : Texts, stamp : 0 .. MaxWrites]
  /\ chunks \in [text : Texts, category : Categories, vector : Texts \cup {NoText}]
  /\ request \in [Requests -> [op : {"idle", "read", "stat", "embed", "index", "refused", "look", "note",
                                     "reindex", "reindexed", "reembed"},
                               status : SourceStatuses, category : Categories, text : Texts \cup {NoText},
                               stamp : 0 .. MaxWrites, fresh : BOOLEAN, vector : Texts \cup {NoText}]]

\* What is searched is what was indexed: row, chunks and vectors stand for one
\* text in one knowledge base, whichever requests run side by side (_index(),
\* move_sources(), reindex(), reembed_sources()).
SourceIsWhole ==
  /\ chunks.text = source.hash /\ chunks.category = source.category
  /\ chunks.vector \in {NoText, chunks.text}

\* A change of the file made behind the knowledge base's back is seen by the
\* next listing (_reconcile()): a source that is searched is one of the present
\* text, or its stamp shows that it is not.
ChangeIsNoticed ==
  source.status = "ready" /\ document.there /\ document.text # source.hash => document.stamp # source.stamp
=============================================================================
