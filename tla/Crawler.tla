------------------------------ MODULE Crawler ------------------------------
(***************************************************************************)
(* The crawl frontier and its worker pool: Crawler::enqueue, workerLoop,   *)
(* process, setCallbacks and stop of src/crawler.cpp.                      *)
(*                                                                         *)
(* Every critical section of mtx_ is one action.  The condition variable   *)
(* cv_ is the set of workers whose pc is "wait": notify_one moves one of   *)
(* them, notify_all moves all of them, back to the mutex (pc "lock").      *)
(*                                                                         *)
(* What robots.txt and the network answer for a page is left open here:    *)
(* each page may be blocked, may fail to load, or may load and be indexed. *)
(***************************************************************************)
EXTENDS Integers, Sequences, FiniteSets

CONSTANTS
    URLs,         \* URLs that clients submit or pages link to
    Seeds,        \* the URLs that clients submit
    Workers,      \* the max(1, workerCount) threads of the pool
    Stoppers,     \* threads that call stop(); the destructor is one of them
    MaxPages,     \* Options::maxPages
    MaxDepth,     \* Options::maxDepth
    Priorities,   \* values of enqueue's priority argument (-1: use depth)
    Links,        \* what htmlExtractLinks returns for each page, in page order
    BloomBits,    \* the bits that the k_ hashes of a URL select
    MaxCallbacks, \* bound: how often setCallbacks is called
    NoItem        \* what a worker that processes nothing holds

ASSUME CrawlerAssumption ==
    /\ IsFiniteSet(Workers) /\ Workers # {}
    /\ MaxPages \in Nat /\ MaxDepth \in Nat /\ MaxCallbacks \in Nat
    /\ Seeds \subseteq URLs
    /\ Priorities \subseteq Int
    /\ Links \in [URLs -> Seq(URLs)]
    /\ DOMAIN BloomBits = URLs

Item == [url : URLs, depth : Nat, priority : Int, seq : Nat]

ASSUME NoItemAssumption == NoItem \notin Item

VARIABLES
    queue,     \* queue_: a set, popped in the order of ItemCompare
    seenUrls,  \* seenUrls_
    bloom,     \* bloom_: the bits that are set
    pending,   \* pending_
    crawled,   \* crawled_
    seq,       \* seq_
    stop,      \* stop_
    running,   \* running_
    callback,  \* onDoc_ and onErr_: 0 when unset, else which installation
    pc,        \* where each worker is
    item,      \* the Item each worker is processing
    links,     \* the links each worker has still to enqueue
    result,    \* what became of each worker's page
    held,      \* the copy of the callback each worker took under the lock
    spc,       \* where each stop() call is
    docs,      \* the index, reduced to the URL and depth of its documents
    fetched,   \* history: how often each page was fetched
    reported   \* history: the callback invocations

frontier == <<queue, seenUrls, bloom, pending, crawled, seq, running>>
local == <<item, links, result, held>>
outcome == <<docs, fetched, reported>>
vars == <<frontier, stop, callback, pc, local, spc, outcome>>

Outcome == {"none", "document", "error"}
Waiting == {w \in Workers : pc[w] = "wait"}
BusyStates == {"process", "report", "call", "links"}
Busy == {w \in Workers : pc[w] \in BusyStates}

----------------------------------------------------------------------------
(* enqueue *)

MaybeContains(u) == BloomBits[u] \subseteq bloom

\* Mutant: a Bloom hit alone rejects the URL.
TrustBloom(u) ==
    /\ ~stop
    /\ crawled + pending < MaxPages
    /\ ~MaybeContains(u)
    /\ u \notin seenUrls

\* Mutant: pages in progress do not count towards the cap.
CapOnCrawledOnly(u) ==
    /\ ~stop
    /\ crawled < MaxPages
    /\ u \notin seenUrls

Accepts(u) ==
    /\ ~stop
    /\ crawled + pending < MaxPages
    /\ ~(MaybeContains(u) /\ u \in seenUrls)
    /\ u \notin seenUrls

Started(pcs) == IF running THEN pcs ELSE [w \in Workers |-> "lock"]

\* Mutant: the wakeup is forgotten.
NeverNotify(pcs) == {pcs}

\* The states of the workers after cv_.notify_one().
NotifyOne(pcs) ==
    LET waiters == {w \in Workers : pcs[w] = "wait"}
    IN  IF waiters = {} THEN {pcs}
        ELSE {[pcs EXCEPT ![w] = "lock"] : w \in waiters}

\* Mutant: the URL is never entered in the exact set.
ForgetSeen(u, d, p) ==
    /\ queue' = queue \cup {[url |-> u, depth |-> d,
                             priority |-> IF p < 0 THEN d ELSE p, seq |-> seq]}
    /\ bloom' = bloom \cup BloomBits[u]
    /\ seq' = seq + 1
    /\ pending' = pending + 1
    /\ running' = TRUE
    /\ pc' \in NotifyOne(Started(pc))
    /\ UNCHANGED <<seenUrls, crawled>>

\* The accepting path of enqueue(u, d, p); a rejected call changes nothing.
Accept(u, d, p) ==
    /\ seenUrls' = seenUrls \cup {u}
    /\ bloom' = bloom \cup BloomBits[u]
    /\ queue' = queue \cup {[url |-> u, depth |-> d,
                             priority |-> IF p < 0 THEN d ELSE p, seq |-> seq]}
    /\ seq' = seq + 1
    /\ pending' = pending + 1
    /\ running' = TRUE
    /\ pc' \in NotifyOne(Started(pc))
    /\ UNCHANGED crawled

\* Engine::crawl, or any other client of enqueue.
Submit(u, p) ==
    /\ Accepts(u)
    /\ Accept(u, 0, p)
    /\ UNCHANGED <<stop, callback, local, spc, outcome>>

SetCallbacks ==
    /\ callback < MaxCallbacks
    /\ callback' = callback + 1
    /\ UNCHANGED <<frontier, stop, pc, local, spc, outcome>>

----------------------------------------------------------------------------
(* workerLoop *)

\* ItemCompare: lower priority value first, then first in first out.
Before(i, j) ==
    \/ i.priority < j.priority
    \/ i.priority = j.priority /\ i.seq < j.seq

\* The predicate of cv_.wait is false: the worker sleeps.
Sleep(w) ==
    /\ pc[w] = "lock"
    /\ ~stop /\ queue = {}
    /\ pc' = [pc EXCEPT ![w] = "wait"]
    /\ UNCHANGED <<frontier, stop, callback, local, spc, outcome>>

\* A wakeup that nobody caused, which cv_.wait may show.
SpuriousWakeup(w) ==
    /\ pc[w] = "wait"
    /\ pc' = [pc EXCEPT ![w] = "lock"]
    /\ UNCHANGED <<frontier, stop, callback, local, spc, outcome>>

\* Mutant: the item is read but not popped.
TopWithoutPop(w) ==
    /\ pc[w] = "lock"
    /\ \E i \in queue :
          /\ \A j \in queue \ {i} : Before(i, j)
          /\ item' = [item EXCEPT ![w] = i]
    /\ pc' = [pc EXCEPT ![w] = "process"]
    /\ UNCHANGED <<frontier, stop, callback, links, result, held, spc, outcome>>

Take(w) ==
    /\ pc[w] = "lock"
    /\ \E i \in queue :
          /\ \A j \in queue \ {i} : Before(i, j)
          /\ item' = [item EXCEPT ![w] = i]
          /\ queue' = queue \ {i}
    /\ pc' = [pc EXCEPT ![w] = "process"]
    /\ UNCHANGED <<seenUrls, bloom, pending, crawled, seq, running,
                   stop, callback, links, result, held, spc, outcome>>

\* Mutant: a stopped worker leaves without draining the queue.
ExitAtOnce(w) ==
    /\ pc[w] = "lock"
    /\ stop
    /\ pc' = [pc EXCEPT ![w] = "exited"]
    /\ UNCHANGED <<frontier, stop, callback, local, spc, outcome>>

Exit(w) ==
    /\ pc[w] = "lock"
    /\ stop /\ queue = {}
    /\ pc' = [pc EXCEPT ![w] = "exited"]
    /\ UNCHANGED <<frontier, stop, callback, local, spc, outcome>>

\* The variables of one iteration go out of scope.
Forget(w) ==
    /\ item' = [item EXCEPT ![w] = NoItem]
    /\ result' = [result EXCEPT ![w] = "none"]
    /\ held' = [held EXCEPT ![w] = 0]

\* process has returned: the counters are updated and the loop restarts.
Finish(w) ==
    /\ pc[w] = "links" /\ links[w] = <<>>
    /\ pending' = pending - 1
    /\ crawled' = crawled + 1
    /\ pc' = [pc EXCEPT ![w] = "lock"]
    /\ Forget(w)
    /\ UNCHANGED <<queue, seenUrls, bloom, seq, running,
                   stop, callback, links, spc, outcome>>

----------------------------------------------------------------------------
(* process *)

\* robots_.allowed answers no: nothing is fetched, the error is reported.
Blocked(w) ==
    /\ pc[w] = "process"
    /\ pc' = [pc EXCEPT ![w] = "report"]
    /\ result' = [result EXCEPT ![w] = "error"]
    /\ UNCHANGED <<frontier, stop, callback, item, links, held, spc, outcome>>

\* Mutant: the error path already counts the page as done.
FailureCountedTwice(w) ==
    /\ pc[w] = "process"
    /\ pc' = [pc EXCEPT ![w] = "report"]
    /\ result' = [result EXCEPT ![w] = "error"]
    /\ fetched' = [fetched EXCEPT ![item[w].url] = @ + 1]
    /\ pending' = pending - 1
    /\ UNCHANGED <<queue, seenUrls, bloom, crawled, seq, running, stop, callback,
                   item, links, held, spc, docs, reported>>

FetchFailed(w) ==
    /\ pc[w] = "process"
    /\ pc' = [pc EXCEPT ![w] = "report"]
    /\ result' = [result EXCEPT ![w] = "error"]
    /\ fetched' = [fetched EXCEPT ![item[w].url] = @ + 1]
    /\ UNCHANGED <<frontier, stop, callback, item, links, held, spc,
                   docs, reported>>

\* fetch succeeds and index_.addDocument replaces or adds the document.
IndexPage(w) ==
    /\ pc[w] = "process"
    /\ LET u == item[w].url
       IN  /\ fetched' = [fetched EXCEPT ![u] = @ + 1]
           /\ docs' = {d \in docs : d.url # u}
                        \cup {[url |-> u, depth |-> item[w].depth]}
    /\ pc' = [pc EXCEPT ![w] = "report"]
    /\ result' = [result EXCEPT ![w] = "document"]
    /\ UNCHANGED <<frontier, stop, callback, item, links, held, spc, reported>>

\* onDoc_ or onErr_ is copied under the lock ...
CopyCallback(w) ==
    /\ pc[w] = "report"
    /\ held' = [held EXCEPT ![w] = callback]
    /\ pc' = [pc EXCEPT ![w] = "call"]
    /\ UNCHANGED <<frontier, stop, callback, item, links, result, spc, outcome>>

\* Mutant: links are followed one level too deep.
FollowTooDeep(w) ==
    IF result[w] = "document" /\ item[w].depth <= MaxDepth
    THEN Links[item[w].url] ELSE <<>>

\* The links process will enqueue: none after an error or past the depth limit.
LinksToFollow(w) ==
    IF result[w] = "document" /\ item[w].depth + 1 <= MaxDepth
    THEN Links[item[w].url] ELSE <<>>

\* ... and called, when set, without it.
InvokeCallback(w) ==
    /\ pc[w] = "call"
    /\ reported' = IF held[w] = 0 THEN reported
                   ELSE reported \cup {[url |-> item[w].url, kind |-> result[w],
                                        by |-> held[w]]}
    /\ links' = [links EXCEPT ![w] = LinksToFollow(w)]
    /\ pc' = [pc EXCEPT ![w] = "links"]
    /\ UNCHANGED <<frontier, stop, callback, item, result, held, spc,
                   docs, fetched>>

\* enqueue takes the next link ...
FollowLink(w) ==
    /\ pc[w] = "links" /\ links[w] # <<>>
    /\ Accepts(Head(links[w]))
    /\ Accept(Head(links[w]), item[w].depth + 1, item[w].depth + 1)
    /\ links' = [links EXCEPT ![w] = Tail(@)]
    /\ UNCHANGED <<stop, callback, item, result, held, spc, outcome>>

\* ... or refuses it, which ends the scan of the page.
BreakScan(w) ==
    /\ pc[w] = "links" /\ links[w] # <<>>
    /\ ~Accepts(Head(links[w]))
    /\ links' = [links EXCEPT ![w] = <<>>]
    /\ UNCHANGED <<frontier, stop, callback, pc, item, result, held, spc, outcome>>

----------------------------------------------------------------------------
(* stop *)

\* stop_.exchange(true): the first caller is the one that will join.
StopFlag(s) ==
    /\ spc[s] = "idle"
    /\ spc' = [spc EXCEPT ![s] = IF stop THEN "notify" ELSE "notifyJoin"]
    /\ stop' = TRUE
    /\ UNCHANGED <<frontier, callback, pc, local, outcome>>

\* Mutant: only one sleeping worker is woken.
StopNotifiesOne(s) ==
    /\ spc[s] \in {"notify", "notifyJoin"}
    /\ pc' \in NotifyOne(pc)
    /\ spc' = [spc EXCEPT ![s] = IF @ = "notify" THEN "returned" ELSE "join"]
    /\ UNCHANGED <<frontier, stop, callback, local, outcome>>

\* cv_.notify_all(), outside the lock; later callers then return at once.
StopNotify(s) ==
    /\ spc[s] \in {"notify", "notifyJoin"}
    /\ pc' = [w \in Workers |-> IF pc[w] = "wait" THEN "lock" ELSE pc[w]]
    /\ spc' = [spc EXCEPT ![s] = IF @ = "notify" THEN "returned" ELSE "join"]
    /\ UNCHANGED <<frontier, stop, callback, local, outcome>>

\* Mutant: the workers are detached instead of joined.
StopDetaches(s) ==
    /\ spc[s] = "join"
    /\ running' = FALSE
    /\ spc' = [spc EXCEPT ![s] = "joined"]
    /\ UNCHANGED <<queue, seenUrls, bloom, pending, crawled, seq,
                   stop, callback, pc, local, outcome>>

\* Every thread of workers_ has been joined; "absent" ones were never started.
StopJoin(s) ==
    /\ spc[s] = "join"
    /\ \A w \in Workers : pc[w] \in {"absent", "exited"}
    /\ running' = FALSE
    /\ spc' = [spc EXCEPT ![s] = "joined"]
    /\ UNCHANGED <<queue, seenUrls, bloom, pending, crawled, seq,
                   stop, callback, pc, local, outcome>>

----------------------------------------------------------------------------
Init ==
    /\ queue = {} /\ seenUrls = {} /\ bloom = {}
    /\ pending = 0 /\ crawled = 0 /\ seq = 0
    /\ stop = FALSE /\ running = FALSE /\ callback = 0
    /\ pc = [w \in Workers |-> "absent"]
    /\ item = [w \in Workers |-> NoItem]
    /\ links = [w \in Workers |-> <<>>]
    /\ result = [w \in Workers |-> "none"]
    /\ held = [w \in Workers |-> 0]
    /\ spc = [s \in Stoppers |-> "idle"]
    /\ docs = {} /\ reported = {}
    /\ fetched = [u \in URLs |-> 0]

\* What a worker thread does of its own accord.
WorkerStep(w) ==
    \/ Sleep(w) \/ Take(w) \/ Exit(w) \/ Finish(w)
    \/ Blocked(w) \/ FetchFailed(w) \/ IndexPage(w)
    \/ CopyCallback(w) \/ InvokeCallback(w)
    \/ FollowLink(w) \/ BreakScan(w)

StopStep(s) == StopNotify(s) \/ StopJoin(s)

Next ==
    \/ \E u \in Seeds, p \in Priorities : Submit(u, p)
    \/ SetCallbacks
    \/ \E w \in Workers : WorkerStep(w) \/ SpuriousWakeup(w)
    \/ \E s \in Stoppers : StopFlag(s) \/ StopStep(s)

Spec == Init /\ [][Next]_vars

\* Threads that can run do run: the mutex is granted eventually, fetches time
\* out (CURLOPT_TIMEOUT) and callbacks return.  Clients owe nothing.
Fairness ==
    /\ \A w \in Workers : WF_vars(WorkerStep(w))
    /\ \A s \in Stoppers : WF_vars(StopStep(s))

FairSpec == Spec /\ Fairness
----------------------------------------------------------------------------
(* Properties *)

InFlight == queue \cup {item[w] : w \in Busy}
InFlightUrls == {i.url : i \in InFlight}

\* The values each variable ranges over; a busy worker holds an item.
TypeOK ==
    /\ queue \subseteq Item
    /\ seenUrls \subseteq URLs
    /\ bloom \subseteq UNION {BloomBits[u] : u \in URLs}
    /\ pending \in Nat /\ crawled \in Nat /\ seq \in Nat
    /\ stop \in BOOLEAN /\ running \in BOOLEAN
    /\ callback \in 0..MaxCallbacks
    /\ pc \in [Workers -> {"absent", "lock", "wait", "exited"} \cup BusyStates]
    /\ item \in [Workers -> Item \cup {NoItem}]
    /\ \A w \in Busy : item[w] \in Item
    /\ links \in [Workers -> Seq(URLs)]
    /\ result \in [Workers -> Outcome]
    /\ held \in [Workers -> 0..MaxCallbacks]
    /\ spc \in [Stoppers -> {"idle", "notify", "notifyJoin", "join",
                             "returned", "joined"}]
    /\ docs \subseteq [url : URLs, depth : Nat]
    /\ fetched \in [URLs -> Nat]
    /\ reported \subseteq [url : URLs, kind : Outcome, by : 1..MaxCallbacks]

\* pending_ is exactly what is queued or being processed (so the unsigned
\* --pending_ of workerLoop never wraps), every URL ever accepted is counted
\* once in crawled_ + pending_, and the hard cap maxPages holds.
CountersExact ==
    /\ pending = Cardinality(queue) + Cardinality(Busy)
    /\ crawled + pending = Cardinality(seenUrls)
    /\ Cardinality(seenUrls) <= MaxPages

\* No two workers process the same URL, no URL is both queued and processed,
\* and over the whole life of the crawler a page is fetched at most once,
\* never before it was accepted (the dedup of enqueue plus the pop of
\* workerLoop).
ExactlyOnce ==
    /\ \A i, j \in queue : i.url = j.url => i = j
    /\ \A v, w \in Busy : item[v].url = item[w].url => v = w
    /\ \A i \in queue, w \in Busy : i.url # item[w].url
    /\ InFlightUrls \subseteq seenUrls
    /\ \A u \in URLs :
          /\ fetched[u] <= 1
          /\ fetched[u] = 1 => u \in seenUrls /\ u \notin {i.url : i \in queue}

\* Work never waits for sleeping workers only: while an item is queued some
\* worker is awake, and once the notify_all of a stop() has run no worker
\* sleeps (the condition variable loses no wakeup).
NoLostWakeup ==
    /\ queue # {} => \E w \in Workers : pc[w] \in {"lock"} \cup BusyStates
    /\ (\E s \in Stoppers : spc[s] \in {"join", "joined", "returned"})
          => Waiting = {}

\* enqueue refuses a URL for the documented reasons only: stopped, page cap
\* reached, or really a duplicate.  A Bloom filter false positive, or a page
\* counted twice, would refuse more.
RefusesOnlyForCause ==
    \A u \in URLs :
        ~Accepts(u) => \/ stop
                       \/ Cardinality(seenUrls) >= MaxPages
                       \/ u \in seenUrls

\* A page at depth d > 0 was found on an indexed page at depth d - 1, and no
\* page below maxDepth is ever taken up (process, links loop).
DepthProvenance ==
    \A i \in InFlight : i.depth > 0 =>
        /\ i.depth <= MaxDepth
        /\ \E d \in docs : /\ d.depth = i.depth - 1
                            /\ \E k \in 1..Len(Links[d.url]) :
                                   Links[d.url][k] = i.url

\* Callbacks agree with the index: one report per URL, and a URL is reported
\* as a document exactly when its document is in the index.
ReportsAgree ==
    \A r \in reported :
        /\ r.kind \in {"document", "error"}
        /\ r.kind = "document" <=> \E d \in docs : d.url = r.url
        /\ \A q \in reported : q.url = r.url => q = r

\* When the stop() that joins returns, the queue is drained: everything
\* accepted has been processed and no worker is left ("workers drain the
\* remaining queue and exit").
JoinedMeansDrained ==
    (\E s \in Stoppers : spc[s] = "joined") =>
        /\ queue = {} /\ pending = 0
        /\ crawled = Cardinality(seenUrls)
        /\ \A w \in Workers : pc[w] \in {"absent", "exited"}

\* Once that stop() has returned nothing the crawler owns moves any more, so
\* the Engine may save or destroy the index.
QuietAfterJoin ==
    [][(\E s \in Stoppers : spc[s] = "joined")
         => UNCHANGED <<frontier, pc, local, outcome>>]_vars

\* The scan of a page ends early only when the crawler is stopping, when the
\* cap is reached or on a flood of duplicates ("cap reached or duplicate
\* flood; stop scanning", crawler.cpp): one link that is already known does
\* not cost the page its other links.
SingleDuplicateCostsNothing ==
    [][\A w \in Workers :
         (BreakScan(w) /\ ~stop /\ crawled + pending < MaxPages)
            => \A k \in 1..Len(links[w]) : links[w][k] \in seenUrls]_vars

----------------------------------------------------------------------------
(* The strengthening that makes the safety properties inductive. *)

\* Workers exist from the first accepted URL on, and leave only after stop()
\* has found the queue empty; only stop() calls raise the flag.
Lifecycle ==
    /\ ~running /\ ~stop => \A w \in Workers : pc[w] = "absent"
    /\ running => \A w \in Workers : pc[w] # "absent"
    /\ \A w \in Workers : pc[w] = "exited" => stop /\ queue = {}
    /\ stop <=> \E s \in Stoppers : spc[s] # "idle"
    /\ (\E s \in Stoppers : spc[s] = "joined") => ~running

\* A page that is about to be fetched has not been fetched or indexed before.
Fresh ==
    /\ \A w \in Workers : pc[w] = "process" => fetched[item[w].url] = 0
    /\ \A d \in docs : fetched[d.url] = 1

\* A worker that got a document, and has links of it left to follow, has put
\* that document in the index; one that got none has not.
Indexed ==
    /\ \A w \in Workers :
          pc[w] \in {"report", "call"} =>
              /\ result[w] = "document" =>
                    [url |-> item[w].url, depth |-> item[w].depth] \in docs
              /\ result[w] # "document" => \A d \in docs : d.url # item[w].url
              /\ result[w] # "none"
    /\ \A w \in Workers :
          pc[w] = "links" /\ links[w] # <<>> =>
              /\ item[w].depth + 1 <= MaxDepth
              /\ [url |-> item[w].url, depth |-> item[w].depth] \in docs
              /\ \A k \in 1..Len(links[w]) :
                    \E m \in 1..Len(Links[item[w].url]) :
                        Links[item[w].url][m] = links[w][k]

\* A URL is reported after its fate is decided.
Settled ==
    \A r \in reported :
        /\ r.url \in seenUrls /\ r.url \notin {i.url : i \in queue}
        /\ \A w \in Busy : item[w].url = r.url => pc[w] = "links"

\* The inductive invariant of the safety proof.
Strengthening == Lifecycle /\ Fresh /\ Indexed /\ Settled

----------------------------------------------------------------------------
(* Refinement: seen URLs are accepted, those no longer in flight are done. *)

Contract == INSTANCE CrawlContract WITH
    accepted <- seenUrls,
    done <- seenUrls \ InFlightUrls,
    closed <- stop,
    drained <- \E s \in Stoppers : spc[s] = "joined"

\* The crawler implements its contract, liveness included: every accepted URL
\* is eventually processed and every stop() that joins eventually returns.
ImplementsContract == Contract!ASpec

\* The safety part of the contract.
ImplementsContractSafety == Contract!ASafety
=============================================================================
