----------------------------- MODULE WebCrawls ------------------------------
(***************************************************************************)
(* The site crawler (plugins/web_crawler.py): the runs of one source, each *)
(* with its frontier of addresses, worked by threads that take one run     *)
(* each; the pages they store, and the knowledge made of them.  Deleting   *)
(* the source is left out, and so is what is extracted from a page.        *)
(***************************************************************************)
EXTENDS Naturals, FiniteSets

CONSTANTS
  Crawls,       \* bound: runs, in the order they are created
  Fetchers,     \* worker threads
  Urls, Seeds,  \* canonical addresses in scope, and those of the configuration
  Links,        \* [Urls -> SUBSET Urls]: what a page links to
  MaxPages, MaxDepth,
  FetchAttempts, \* how often a page is tried (3)
  MaxVersions,  \* bound: contents of a page, one after the other
  MaxRestarts   \* bound: stops of the process

VARIABLES
  site,      \* of each address, the version of its content, external
  crawl,     \* crawl_runs
  frontier,  \* crawl_frontier: of each run its addresses
  page,      \* crawl_pages: the version stored last, or None
  indexed,   \* the version the knowledge base has, or None
  fetcher,   \* what each thread does
  stops

crawlVars == <<site, crawl, frontier, page, indexed, fetcher, stops>>

None == 0
Ended == {"succeeded", "failed", "canceled"}
Away == {"idle", "gone", "stuck"}    \* a thread that works no run: at rest, or ended without or with one
FrontierStatuses == {"absent", "queued", "processing", "done", "failed", "skipped"}
Resting == [at |-> "idle", run |-> 1, url |-> CHOOSE u \in Urls : TRUE, saw |-> None, got |-> None, left |-> {}]

Init ==
  /\ site = [u \in Urls |-> 1]
  /\ crawl = [r \in Crawls |-> [status |-> "none", cancel |-> FALSE, fetched |-> FALSE, failed |-> FALSE]]
  /\ frontier = [r \in Crawls |-> [u \in Urls |-> [status |-> "absent", depth |-> 0, attempts |-> 0]]]
  /\ page = [u \in Urls |-> None] /\ indexed = [u \in Urls |-> None]
  /\ fetcher = [w \in Fetchers |-> Resting]
  /\ stops = 0

-----------------------------------------------------------------------------
(* Requests.                                                                 *)

\* enqueue_run() asks for nothing, schedule_due() for no other run of the source.
Enqueue(r, trigger) ==
  /\ crawl[r].status = "none" /\ \A q \in Crawls : q < r => crawl[q].status # "none"
  /\ trigger = "schedule" => \A q \in Crawls : crawl[q].status \notin {"queued", "running"}
  /\ crawl' = [crawl EXCEPT ![r].status = "queued"]
  /\ UNCHANGED <<site, frontier, page, indexed, fetcher, stops>>

CancelRun(r) ==
  /\ crawl[r].status \in {"queued", "running"}
  /\ crawl' = [crawl EXCEPT ![r].cancel = TRUE, ![r].status = IF @ = "queued" THEN "canceled" ELSE @]
  /\ UNCHANGED <<site, frontier, page, indexed, fetcher, stops>>

Edit(u) ==
  /\ site[u] < MaxVersions /\ site' = [site EXCEPT ![u] = @ + 1]
  /\ UNCHANGED <<crawl, frontier, page, indexed, fetcher, stops>>

-----------------------------------------------------------------------------
(* process_run(), transaction by transaction.                                *)

Go(w, at) == fetcher' = [fetcher EXCEPT ![w].at = at]
Rest(w) == fetcher' = [fetcher EXCEPT ![w] = Resting]
FinishRun(r, s) == crawl' = [crawl EXCEPT ![r].status = s]
FinishFrontier(w, s) == frontier' = [frontier EXCEPT ![fetcher[w].run][fetcher[w].url].status = s]
Row(w) == frontier[fetcher[w].run][fetcher[w].url]

ClaimableAnyway(r) == crawl[r].status \in {"queued", "running"}                 \* mutant
Claimable(r) == crawl[r].status = "queued"

ClaimRun(w) ==
  /\ fetcher[w].at = "idle"
  /\ \E r \in Crawls :
       /\ Claimable(r) /\ \A q \in Crawls : Claimable(q) => r <= q
       /\ FinishRun(r, "running")
       /\ fetcher' = [fetcher EXCEPT ![w].at = "seed", ![w].run = r, ![w].left = Seeds]
  /\ UNCHANGED <<site, frontier, page, indexed, stops>>

\* add_frontier(): an address once in a run, and no more of them than max_pages.
Known(r) == {u \in Urls : frontier[r][u].status # "absent"}
AddFrontier(r, u, depth) ==
  frontier' = IF u \in Known(r) \/ Cardinality(Known(r)) >= MaxPages THEN frontier
              ELSE [frontier EXCEPT ![r][u] = [status |-> "queued", depth |-> depth, attempts |-> 0]]

AddOne(w, at, depth, next) ==
  /\ fetcher[w].at = at
  /\ \/ /\ fetcher[w].left = {} /\ Go(w, next) /\ UNCHANGED frontier
     \/ \E u \in fetcher[w].left :
          AddFrontier(fetcher[w].run, u, depth) /\ fetcher' = [fetcher EXCEPT ![w].left = @ \ {u}]
  /\ UNCHANGED <<site, crawl, page, indexed, stops>>

AddSeeds(w) == AddOne(w, "seed", 0, "next")
AddLinks(w) == AddOne(w, "link", Row(w).depth + 1, "done")

\* What is not caught as the fault of one page, and what is raised where that is noted,
\* ends the run (_worker()); its frontier stays as it is.
RunRaises(w) ==
  /\ fetcher[w].at \notin Away /\ FinishRun(fetcher[w].run, "failed") /\ Rest(w)
  /\ UNCHANGED <<site, frontier, page, indexed, stops>>

\* claim_run() and the finish_run() after an error stand in no try: the thread ends, and
\* a run it had goes on running without one.
ThreadEnds(w) ==
  /\ \/ fetcher[w].at = "idle" /\ Go(w, "gone")
     \/ fetcher[w].at \notin Away
        /\ fetcher' = [fetcher EXCEPT ![w] = [Resting EXCEPT !.at = "stuck", !.run = fetcher[w].run]]
  /\ UNCHANGED <<site, crawl, frontier, page, indexed, stops>>

NextFrontier(w) ==
  LET r == fetcher[w].run
      Queued == {u \in Urls : frontier[r][u].status = "queued"} IN
  /\ fetcher[w].at = "next"
  /\ \/ crawl[r].cancel /\ FinishRun(r, "canceled") /\ Rest(w) /\ UNCHANGED frontier
     \/ /\ ~crawl[r].cancel /\ Queued = {} /\ Go(w, "conclude") /\ UNCHANGED <<crawl, frontier>>
     \/ \E u \in Queued :
          /\ ~crawl[r].cancel /\ \A v \in Queued : frontier[r][u].depth <= frontier[r][v].depth
          /\ frontier' = [frontier EXCEPT ![r][u].status = "processing", ![r][u].attempts = @ + 1]
          /\ fetcher' = [fetcher EXCEPT ![w].at = "fetch", ![w].url = u, ![w].saw = page[u]]
          /\ UNCHANGED crawl
  /\ UNCHANGED <<site, page, indexed, stops>>

Skip(w) ==
  /\ fetcher[w].at = "fetch" /\ FinishFrontier(w, "skipped") /\ Go(w, "next")
  /\ UNCHANGED <<site, crawl, page, indexed, stops>>

\* The page is what was stored (304, or the same digest): its links are not looked at.
MarkUnchanged(w) ==
  /\ fetcher[w].at = "fetch" /\ fetcher[w].saw = site[fetcher[w].url]
  /\ crawl' = [crawl EXCEPT ![fetcher[w].run].fetched = TRUE] /\ Go(w, "done")
  /\ UNCHANGED <<site, frontier, page, indexed, stops>>

Fetch(w) ==
  LET v == site[fetcher[w].url] IN
  /\ fetcher[w].at = "fetch" /\ fetcher[w].saw # v
  /\ fetcher' = [fetcher EXCEPT ![w].at = "store", ![w].got = v]
  /\ UNCHANGED <<site, crawl, frontier, page, indexed, stops>>

TriesLeft(w) == Row(w).attempts < FetchAttempts

RetryFrontier(w) ==
  /\ fetcher[w].at = "fetch" /\ TriesLeft(w)
  /\ FinishFrontier(w, "queued") /\ Go(w, "next")
  /\ UNCHANGED <<site, crawl, page, indexed, stops>>

\* An error of the fetch, or of anything else that is done with the page.
PageRaises(w) ==
  /\ fetcher[w].at \in {"fetch", "store", "index", "link", "done"} /\ FinishFrontier(w, "failed") /\ Go(w, "failed")
  /\ UNCHANGED <<site, crawl, page, indexed, stops>>

\* store_page() inserts what was not there when the fetch began: a page another
\* run has stored since makes it fail.
StorePage(w) ==
  LET u == fetcher[w].url IN
  /\ fetcher[w].at = "store"
  /\ IF fetcher[w].saw = None /\ page[u] # None
     THEN FinishFrontier(w, "failed") /\ Go(w, "failed") /\ UNCHANGED <<crawl, page>>
     ELSE /\ page' = [page EXCEPT ![u] = fetcher[w].got]
          /\ crawl' = [crawl EXCEPT ![fetcher[w].run].fetched = TRUE]
          /\ Go(w, "index") /\ UNCHANGED frontier
  /\ UNCHANGED <<site, indexed, stops>>

\* Without the knowledge base the crawl goes on.
Index(w) ==
  LET u == fetcher[w].url IN
  /\ fetcher[w].at = "index"
  /\ \E v \in {indexed[u], fetcher[w].got} : indexed' = [indexed EXCEPT ![u] = v]
  /\ fetcher' = [fetcher EXCEPT ![w].at = "link", ![w].left = IF Row(w).depth < MaxDepth THEN Links[u] ELSE {}]
  /\ UNCHANGED <<site, crawl, frontier, page, stops>>

FinishPage(w) ==
  /\ fetcher[w].at = "done" /\ FinishFrontier(w, "done") /\ Go(w, "next")
  /\ UNCHANGED <<site, crawl, page, indexed, stops>>

PageFailed(w) ==
  /\ fetcher[w].at = "failed"
  /\ crawl' = [crawl EXCEPT ![fetcher[w].run].failed = TRUE] /\ Go(w, "next")
  /\ UNCHANGED <<site, frontier, page, indexed, stops>>

Conclude(w) ==
  LET r == fetcher[w].run IN
  /\ fetcher[w].at = "conclude"
  /\ FinishRun(r, IF ~crawl[r].fetched /\ crawl[r].failed THEN "failed" ELSE "succeeded") /\ Rest(w)
  /\ UNCHANGED <<site, frontier, page, indexed, stops>>

-----------------------------------------------------------------------------
\* recover(): runs under way go back into the queue, and their addresses too.
RecoveredRunsOnly == frontier                                              \* mutant
RecoveredFrontier ==
  [r \in Crawls |-> [u \in Urls |->
     [frontier[r][u] EXCEPT !.status = IF @ = "processing" THEN "queued" ELSE @]]]

Restart ==
  /\ stops < MaxRestarts /\ stops' = stops + 1
  /\ crawl' = [r \in Crawls |-> [crawl[r] EXCEPT !.status = IF @ = "running" THEN "queued" ELSE @]]
  /\ frontier' = RecoveredFrontier
  /\ fetcher' = [w \in Fetchers |-> Resting]
  /\ UNCHANGED <<site, page, indexed>>

FetcherStep(w) ==
  \/ ClaimRun(w) \/ AddSeeds(w) \/ RunRaises(w) \/ NextFrontier(w) \/ Skip(w) \/ MarkUnchanged(w) \/ Fetch(w)
  \/ RetryFrontier(w) \/ PageRaises(w) \/ StorePage(w) \/ Index(w) \/ AddLinks(w) \/ FinishPage(w)
  \/ PageFailed(w) \/ Conclude(w)

Next ==
  \/ \E r \in Crawls : CancelRun(r) \/ \E trigger \in {"manual", "schedule"} : Enqueue(r, trigger)
  \/ \E u \in Urls : Edit(u)
  \/ \E w \in Fetchers : FetcherStep(w) \/ ThreadEnds(w)
  \/ Restart

Fairness == \A w \in Fetchers : WF_crawlVars(FetcherStep(w))

Spec == Init /\ [][Next]_crawlVars
FairSpec == Spec /\ Fairness

-----------------------------------------------------------------------------
CrawlTypeOK ==
  /\ site \in [Urls -> 1 .. MaxVersions]
  /\ crawl \in [Crawls -> [status : {"none", "queued", "running"} \cup Ended, cancel : BOOLEAN,
                           fetched : BOOLEAN, failed : BOOLEAN]]
  /\ frontier \in [Crawls -> [Urls -> [status : FrontierStatuses, depth : 0 .. MaxDepth,
                                       attempts : 0 .. FetchAttempts + MaxRestarts]]]
  /\ page \in [Urls -> 0 .. MaxVersions] /\ indexed \in [Urls -> 0 .. MaxVersions]
  /\ fetcher \in [Fetchers -> [at : {"idle", "seed", "next", "fetch", "store", "index", "link", "done",
                                     "failed", "conclude", "gone", "stuck"},
                               run : Crawls, url : Urls, saw : 0 .. MaxVersions, got : 0 .. MaxVersions,
                               left : SUBSET Urls]]
  /\ stops \in 0 .. MaxRestarts

\* A run is worked by one thread, or was by one that ended under it, as long as it runs
\* (claim_run(), recover()).
WorkedByOne ==
  \A r \in Crawls :
    LET At == {w \in Fetchers : fetcher[w].at \notin {"idle", "gone"} /\ fetcher[w].run = r} IN
    Cardinality(At) = IF crawl[r].status = "running" THEN 1 ELSE 0

\* A run that succeeded has an answer for every address of its frontier, through
\* crashes inside of pages, and looked at no more addresses, nor more often, than
\* it may (process_run(), add_frontier(), next_frontier()).
SuccessIsComplete ==
  \A r \in Crawls :
    /\ Cardinality(Known(r)) <= MaxPages
    /\ \A u \in Urls : frontier[r][u].attempts <= FetchAttempts + stops
    /\ crawl[r].status = "succeeded" =>
         /\ \A u \in Known(r) : frontier[r][u].status \in {"done", "failed", "skipped"}
         /\ Seeds \subseteq Known(r) \/ Cardinality(Known(r)) = MaxPages

\* The thread of the run ended, or there is no thread left.
Abandoned(r) ==
  \/ \E w \in Fetchers : fetcher[w].at = "stuck" /\ fetcher[w].run = r
  \/ \A w \in Fetchers : fetcher[w].at \in {"gone", "stuck"}

\* Every run that is asked for ends, through crashes and cancellations, as long as the
\* threads live.
CrawlEnds ==
  \A r \in Crawls : crawl[r].status \in {"queued", "running"} ~> crawl[r].status \in Ended \/ Abandoned(r)

\* A run that succeeded and had room left has looked at what its pages link to.
LinksAreFollowed ==
  \A r \in Crawls : crawl[r].status = "succeeded" /\ Cardinality(Known(r)) < MaxPages =>
    \A u \in Known(r) :
      frontier[r][u].status = "done" /\ frontier[r][u].depth < MaxDepth => Links[u] \subseteq Known(r)

\* What the knowledge base has of a page is what was stored of it last.
IndexedIsStored ==
  (\A w \in Fetchers : fetcher[w].at = "idle") => \A u \in Urls : indexed[u] \in {None, page[u]}
=============================================================================
