# Shadow SE: TLA+ models, model checking and proofs

Shadow SE is a C++20 search engine: a multi-threaded crawler with robots.txt
and per-domain politeness, fetches through a pool of Tor proxies, an inverted
index ranked with BM25, encrypted and plain snapshots, and a console, a web
front end, an admin dashboard and a JSON gateway on top. The modules here
follow the code under `src/` and `include/shadowse/`; `PROJECT.json` maps every
definition to the lines it models.

## 1. Inventory

| Component | State | Operations | What makes it correct |
| --- | --- | --- | --- |
| Crawl frontier (`crawler.cpp`) | `queue_`, `seenUrls_`, `bloom_`, `pending_`, `crawled_`, `stop_`, `running_`, workers | `enqueue`, `setCallbacks`, `workerLoop`, `process`, `stop` | every accepted URL processed once, page cap, no lost wakeup, drained stop |
| Bloom filter (`bloom_filter.cpp`) | bit array | `insert`, `maybeContains` | a false positive never costs a page |
| Politeness (`crawler.cpp`) | `lastFetch_` per domain | `politenessWait` | minimal gap between fetches of a domain, every wait ends |
| robots.txt (`robots_txt.cpp`) | policies per origin, loaded flags | `hasRules`, `loadDomain`, `allowed` | forbidden pages are not fetched, nothing else is blocked |
| Tor pool (`tor_proxy_pool.cpp`) | endpoints with health and cooldown, cursor, rotation clock | `selectProxy`, `reportSuccess`, `reportFailure`, `probe`, `probeEndpoint`, `addProxy`, `removeProxy` | onion traffic always proxied, failover, even load |
| Single-proxy manager (`tor_proxy_manager.cpp`) | one endpoint and its status | same interface | onion traffic proxied or refused |
| Tor options (`tor_proxy_manager.cpp`, `engine.cpp`) | `Engine::Config` | `parseTorFlag`, `parseProxyList`, `Engine::Engine` | the manager starts with the endpoints asked for |
| Curl fetcher (`fetcher.cpp`) | attempt counter | `fetch` | bounded retries, every outcome reported |
| Inverted index (`inverted_index.cpp`) | postings, documents, URL map, lengths, total | `addDocument`, `removeDocument`, `clear`, `replaceAll`, readers | the maps agree with the documents after any sequence of writes |
| BM25 search (`bm25.cpp`) | accumulators of one query | `rank` | finds exactly the matching documents |
| Snapshots (`snapshot.cpp`, `crypto.cpp`) | a file | save and load, plain and encrypted | a saved snapshot loads back; nothing else loads |
| Web server (`web_server.cpp`) | `running_`, `listenFd_`, `active_`, threads | `start`, `runAsync`, `runForever`, `stop`, handlers | connection cap, no leaked slot or socket, stop ends |
| Admin server and log (`admin.cpp`) | as the web server; a bounded queue of events | the same, `add`, `recent` | the newest events kept, and one for each page counted |
| JSON gateway (`gateway.cpp`) | an httplib server | `/search`, `/crawl`, `/status` | every request is answered with JSON that says what happened |
| Console (`main.cpp`) | engine, spinner, admin server | the commands | start-up ends, commands do what they print |
| Tokenizer (`tokenizer.cpp`) | none | `tokenize` | pages and queries are cut alike; malformed UTF-8 only separates |
| JSON library (`json.cpp`) | a value | `dump`, `parse` | printer and parser are inverse to one another |
| HTML extraction, key generator, scripts | none shared | text functions and wiring | — |

How they interact. A client of the `Engine` (console, gateway) calls `crawl`,
which enqueues a URL. Workers sleep on one condition variable, pop the item of
highest priority, ask the robots cache (which fetches robots.txt through the
same fetcher), wait for politeness, fetch through a proxy manager, add the
document to the index, call back, and enqueue links. Searches read the index at
the same time from other threads. Snapshots copy all documents and replace all
documents. Each part has a mutex of its own; what is done between two critical
sections is where the difficulties are.

Hard behaviours: lost wakeups and joins (crawler, web server), check-then-act
over two critical sections (politeness, robots cache), pointers kept after
unlock (index), clocks read before a lock (Tor pool), retries against a changing
pool, sockets closed under a thread that waits on them, files cut short by a
crash or read while they are written, a flag whose meaning two threads disagree
on (spinner), reads of two locks shown as one picture (dashboard). `PROJECT.json` lists them as hazards with
their lines.

## 2. Modules

| Module | Models | Role |
| --- | --- | --- |
| `CrawlContract` | what `crawler.hpp` promises: bounded set of accepted URLs, each completed once, a stop that drains | abstract specification |
| `Crawler` | frontier, workers, callbacks, stop, Bloom filter | implements `CrawlContract` |
| `PoliteFetch` | a worker's path through robots.txt and `politenessWait` | component |
| `RobotsRules` | `parseBody` and the rule loop of `allowed`, with a definition of what a file means as a whole | pure algorithm |
| `RobotsFiles` | the cache with the policies of files | composition of `PoliteFetch` and `RobotsRules` |
| `TorPool` | pooled and default proxy manager with the retry loop of `CurlFetcher::fetch` | composition of components |
| `TorArgs` | the Tor options, flag by flag, with a definition of what a command line asks for | pure algorithm |
| `TorOptions` | the managers with the options of a command line | composition of `TorPool` and `TorArgs` |
| `CorpusContract` | a corpus: one version per URL | abstract specification |
| `InvertedIndex` | all writers and bookkeeping maps | implements `CorpusContract` |
| `Search` | `BM25Ranker::rank` against concurrent writers | extends `InvertedIndex` |
| `Tokenizer` | `tokenize` on bytes | pure algorithm |
| `Lexicon` | the tokens of pages and queries as the terms of index and search | composition of `Search` and `Tokenizer` |
| `Json`, `Gateway` | printer, parser and the gateway's handlers | pure algorithms on the results of a search |
| `WebServer` | owner, accept loop, connection threads | component |
| `Snapshot` | file formats, save, load, crash, a reading server | component |
| `Console` | start-up, commands, crawl reports, activity log, dashboard, exit and new start | extends `Snapshot` |
| `CrawlerProofs`, `PoliteFetchProofs`, `TorPoolProofs`, `IndexProofs`, `SearchProofs`, `WebServerProofs`, `ConsoleProofs` | theorems about the module they are named after; `PoliteFetchProofs` also of `RobotsRules` and `RobotsFiles`, `TorPoolProofs` of `TorArgs` and `TorOptions`, `SearchProofs` of `Tokenizer` and `Lexicon`, `ConsoleProofs` of `Snapshot` | TLAPS |
| `Loops` | lemmas about loops over lists, for lists of any length | used by the proofs |
| `MC…` | instances for TLC | bounds, small sites, policies |

### Crawler

State is named after the fields. `pc[w]` is the place of a worker: `absent`
(before the first accepted URL), `lock`, `wait` (on `cv_`), the `BusyStates` of
`process`, `exited`. A step is a critical section or a shared access outside
one: `Take` (pop), `Blocked`, `FetchFailed` and `IndexPage` (the ways
`process` learns its outcome; answers of robots.txt and fetcher are left open), `CopyCallback` and
`InvokeCallback`, `FollowLink` and `BreakScan` (one `enqueue` per link),
`Finish` (`--pending_`). `StopFlag`, `StopNotify` and `StopJoin` split `stop()`
at its lock boundaries; only the caller that finds the workers joins them.
Spurious wakeups happen. The Bloom filter is the set of bits that URLs select,
so that false positives occur. Priorities order the queue together with the
sequence number.

### PoliteFetch

The clock is unbounded in the code. The model keeps how long ago each domain
was stamped and each worker sent its last request, saturated at the delay: that
is all `politenessWait` compares, so time itself needs no bound. `loadDomain` is
three steps: test of the loaded flag, unlocked fetch, store. A policy is the
set of URLs it forbids. `RobotsFiles` says where it comes from
(`RobotsFilesAssumption`): an origin has a file, and its policy is what the file as a
whole does not permit (`Permits`, of `RobotsRules`). `RobotsFollowed` says that what a
domain has stored is what `AllowedBy(ParseBody(f), p)` refuses for its file, and compares
the two for every file of up to four lines: `ParseBody` and `AllowedBy` read the lines in
order and weigh rule by rule, as the code does, `Permits` speaks of the file
as a whole (a rule is in force when the nearest agent line above names us; a
forbidding rule needs an allowing one at least as long).

### TorPool

Entries keep host, health and last probe. `Ask` reads the clock before the lock
is taken, `Select` is the critical section of `selectProxy` with rotation,
candidates, cursor and the lazy probe under the lock. `Transfer` may end in
success, an HTTP error, a transient or another curl error; `Report` gives the
outcome to the pool and retries or returns. `Probe`, `ProbeEndpoint`,
`AddProxy` and `RemoveProxy` are called by anybody at any time. With `pooled`
false the same fetches run on the default manager, which has one endpoint,
offers it when its last probe was answered, and ignores reports.

`suspect` records the endpoints that failed and have not answered since,
`forgiven` those of them that a rotation has declared healthy: `FailedStaysOut`
leaves the latter out, `RotationReprobes` does not and is violated.

`TorArgs` follows the options into `Engine::Config` and out again: the first
endpoint goes to fields of its own, the others are printed, and `Engine` parses
them a second time. `TorOptions` starts the managers of `TorPool` with the result.
Its assumption says what the constants of `TorPool` are in terms of the command
line as a whole (`AskedFor`, `RetriesAskedFor`, `RotationAskedFor`), and
`ConfigAsGiven` that this is what parsing flag by flag hands to the manager, for the command
line of the instance and for every pair of flags from a small set.

### InvertedIndex and Search

The index is a record of the fields of the class; each writing method is one
step because it holds `mtx_` throughout. Text is abstracted to how often each
term occurs in title and text of a version of a page. `Search` splits `rank`
at every call it makes on the index. `postings()` and `document()` return
pointers; a writer that touches what a pointer refers to makes it stale, and
reading a stale pointer is undefined behaviour, kept as a state of its own.

`Lexicon` says where terms come from: `LexiconAssumption` that the terms are the
tokens of the pages and each version's counts are what `Tokenize` finds in its title
and text, which TLC evaluates for the instance (capitals, a two-byte letter, a truncated
sequence, a lone continuation byte). `FoundAsTyped` then speaks of bytes on both
sides: the search for a text finds the pages that have a token in common with it.
`TokenizerSound` says why that is what one would expect: decoding accepts exactly
what encoding yields, a space cuts whatever surrounds it, folding is idempotent,
and a token typed as a query is that token. `Tokenize` is the loop of the code as a
recursive function, one `Turn` for each time round.

`GatewayAnswers` follows the results of a search to the client:
whatever was found, `SearchAnswer` prints a text that `Parse` reads back as the
query that was run and as many hits; any value survives printing and parsing,
compact and pretty; any body posted to `/crawl` is answered. `Json` is recursive like
the code and is used by runs only, not by proofs.

### WebServer

`owner` goes through `start`, `runAsync` and the steps of `stop`; `serve` is the
accept loop; each connection has a thread that reads chunks up to the limit,
answers, closes and gives back its slot. `listenFd_` is a plain `int` written
while the loop reads it: it may read either value.

### Snapshot and Console

A file is the sequence of fields written to it. Ciphertext blocks carry their
key and nonce, so that a changed key, a missing block or blocks of two saves
are refused. A server started with `--load` reads field by field while the
console writes.

`Console` puts `main` around these operations. `main` is the place of the main
thread: it builds the engine (or fails to) while the spinner runs, joins the
spinner, takes commands, drains the crawler, ends, and is started again. It may
be killed at any point, in the middle of a write too (`Dies`), and the next
process finds the file as it is. A crawl is what `main` and its callbacks see of
it: a page is queued, fetched into the index or not, reported to the activity
log, counted. The `admin` command opens the dashboard, whose request reads the
number of crawled pages and then, under another lock, the log.

## 3. Runs

Passing:

| Run | Instance | Shows |
| --- | --- | --- |
| `crawler` | 4 pages, cap 3, depth 1, 2 workers, 2 stop callers, 2 priorities, 1 callback change | counters, single processing, wakeups, depths, reports, draining, and refinement of `CrawlContract` with liveness |
| `tor_safety` | 2 endpoints from a command line of 7 flags, both managers, 2 threads with a fetch each, 1 retry, cooldown 1, rotation every 2 ticks, 2 ticks, 1 pool change | onion requests proxied, failed endpoints out until they answer, even load, monotone clocks, attempts bounded, endpoints as asked for |
| `polite` | 1 host over http and https, 5 pages, 2 workers, delay 2 | robots.txt read right, obeyed and not over-applied, bounded loads, per-worker gap, every page ends |
| `search` | 3 URLs, 3 versions, 2 terms, 3 writes, 2 loads, 1 search | index bookkeeping exact, refinement of `CorpusContract`, searches by terms and by text, tokens from bytes, answers in JSON |
| `web` | 3 connections, cap 2, 2 chunks, 1 accept error | slots, sockets, quiet after stop, liveness |
| `console` | 3 documents, 2 of them crawled, 2 interchangeable passwords, 2 saves, count limit 2, 1 worker, a log of 1 event, any number of crashes, loads, exits and new starts | round trip, all-or-nothing loads, dashboard covers the count, commands run one at a time after the spinner is gone |

Violations, each a disagreement between the code and its own documentation:

| Run | The code | The document |
| --- | --- | --- |
| `crawler_scan` | one known link ends the scan of a page | "cap reached or duplicate flood" |
| `tor_rotate` | rotation marks failed endpoints healthy, so they are not probed | "reset health so the next selection re-probes" |
| `polite_gap` | two workers pass `politenessWait` together | "min gap between fetches per domain" |
| `polite_sticks` | a late, failed fetch erases cached rules for good | "idempotent" |
| `console_spinner` | the spinner's flag is set before and cleared after the engine is built, and the spinner loops while it is clear: start-up may wait for ever in `join` | "until `done` is set" |
| `search_race` | `rank` reads through pointers that a writer has invalidated | "thread-safe" |

Further disagreements follow from the models and have no run of their own.
`selectProxy` answers none when the lazy probe of the one endpoint it picked
fails, although another is healthy. A `--tor-proxy` list that names an endpoint
twice puts it into the pool twice, and failures reach only the first entry.
`rank` may return a document without any of the terms when the page was indexed
again between scoring and lookup. Handler threads of the web and admin servers
are detached: they may use the server after `stop()` has returned and it is
gone. The `admin` command says "Type 'quit' later to stop", but its server is
stopped when the command ends (`AdminEnds`). The gateway answers a search
without hits with `"results": null` (`SearchJson`), since a JSON array comes into
being with its first element. `foldCase` pairs even capitals with odd small
letters in all of Latin Extended-A, so that `Ĺ`/`ĺ` or `Ž`/`ž`, where it is the
other way round, are different terms.

### Why the bounds are enough

*Crawler.* Two workers and two stop callers give every pair of racing steps;
three accepted pages out of four reach the cap with a page left over, and depth
one cuts off the links of a linked page; the link structure has a self link, a
link shared by two pages and a Bloom collision.
*TorPool.* Two threads suffice for a stale clock and a report that overtakes
another; time 2 covers before, at and after a cooldown of 1 and reaches a
rotation. *PoliteFetch.* Ages saturate: the run covers
unbounded time; one origin has a policy with rules and one without, and the
second has more pages than there are workers. *Search.* Readers do not
write, so searchers do not influence each other and one is enough; three writes
and two loads cover add, replace, remove, clear and reuse of ids. *WebServer.*
Three connections exceed a cap of two. *Console.* Two saves make an old and a
new file; three documents exceed the count limit of two. Crashes are not
counted, so they are not bounded. Two pages overflow a log of one event, before,
between and after the two reads of the dashboard. The two passwords are compared for
equality only, and the instance is reduced by their symmetry; no property of it
is a liveness property. *Pure algorithms.* Files of four lines hold two groups
with a rule each, or a group with two rules in either order; texts of four bytes
hold the longest UTF-8 sequence and each way to cut it short; JSON values nest to
depth two, and any sequence of four tokens is parsed.

### Fairness

Weak fairness on each thread's own next step, and nothing else: mutexes are
granted, `sleep_for` and backoffs end, fetches end by `CURLOPT_TIMEOUT`, `recv`
by its ten-second timeout, and callbacks return. `PoliteFetch` also needs time
to pass. Nobody has to submit a URL, connect or call `stop()`; but a `stop()`
that has begun goes on. `CFairSpec` of `Console` leaves out `Dies`: that start-up
ends is asked of a program nobody kills. Deadlock is not checked because every part may stop for
good: clients owe nothing, and bounded counters run out.

## 4. Proofs

TLAPS proves the following for every number of workers, threads, pages, terms,
connections, passwords and snapshots, and for every cap, delay and interval. The
assumptions are those of the modules: constants have their types, worker sets
and the demo corpus are finite, each version of a page has finitely many terms,
and markers such as `NoItem` or `NoResult` are not values. `LexiconAssumption`,
`RobotsFilesAssumption` and `TorOptionsAssumption` say besides that terms, policies and
endpoints are those of the texts, the files and the command line they stand for, each read as
a whole; that the code gets them from these byte by byte, line by line and flag by flag
is what the theorems show. Two theorems of
`TorPoolProofs` have a hypothesis of their own, explained there.

`CrawlerProofs`. The inductive invariant is `TypeOK`, the safety properties and
`Strengthening` together. None of the properties is inductive alone: that
`pending_` equals queued plus busy needs that each busy worker holds an item no
one else has; that a page is fetched once needs that an item about to be
processed has not been fetched (`Fresh`); that a drained stop leaves nothing
needs that workers exit only with the stop flag and an empty queue
(`Lifecycle`); reports agree with the index because a worker that reports has
indexed, or not (`Indexed`), and its fate is settled (`Settled`). One lemma per
action shows that it keeps the conjuncts it can disturb. From the invariant
follow `Typing`, `Counting`, `FetchedOnce`, `WakeupsKept`, `Provenance`,
`Reporting`, `Draining` and `RefusalForCause`; `Quiescence` is an action property,
and `Refinement` shows that every step is a step of `CrawlContract` or leaves
it unchanged.

`PoliteFetchProofs`. `Typing`; `Compliance` through `RobotsInv` (a cached
policy is the origin's own or empty after a failed fetch, and a worker past the
check has been let through by such a policy); `Politeness` through `GapInv`
(the stamp of a domain is never older than the last request of a worker to it,
until it waits again). The same invariant shows why two workers together do not
keep the gap: it speaks of each worker by itself. `FewLoads` (an origin's
robots.txt is fetched at most once per worker) through `LoadsInv`: until the first
policy is stored, whoever has fetched one is about to store it, and from then on
only those may fetch who had passed the test of the loaded flag before.
`RulesReadRight` is about `RobotsRules`, for files and paths of any length:
line by line, `KeptBy` is the set of rules in force so far (`LineRead`), and
rule by rule, the length that is remembered is that of the longest matching one
(`RuleWeighed`), so that what `allowed` answers is what the file permits.
`FilesFollowed` joins it to the cache: by `WholePolicies` what a worker holds and what is
stored is the whole policy of its origin or nothing, however fetches and stores of
several workers overlap.

`TorPoolProofs`. `Typing` rests on the guard of the retry loop: no attempt is begun
beyond the number computed when the fetch began. `OnionThroughProxy`
needs no more than the property itself: only `Select` brings an onion request to
its transfer, with the endpoint it was given. `ClocksForward` through `ClockInv`: a reading taken before the lock may be
old, but each clock that moves is compared with it first. `FailedOut` and
`Balance` assume that the configuration names no endpoint twice
(`DistinctConfig`). The assumption is needed, since the command line is not
checked for it: an endpoint given twice gets two entries, reports reach the
first only, and the second goes on being handed out. With it, `Unique` holds,
because `addProxy` returns early for a known endpoint, and `HealthyAnswered` says
that a healthy entry belongs to an endpoint that has answered or been forgiven.
`BalanceInv` says that as long as nothing failed the cursor is the number of
selections, round by round. `OptionsAsGiven` is about `TorArgs`, for command
lines of any length: whatever the flags and their order, parsing them one by one,
keeping the first endpoint apart, printing the others and parsing them again
gives the endpoints, retries and rotation that the line as a whole asks for.
`StartsAsGiven` joins it to the managers: by `EntriesAsGiven` no step but `addProxy` and
`removeProxy` changes which endpoint an entry is of.

`WebServerProofs`. The invariant adds three parts to the properties. `SlotsInv`: the
accept loop alone raises `active_` and goes on to create a thread only when it has
seen a free slot, so that no thread can take it away meanwhile. `LifeInv`: the
place of the owner tells whether there is a listening socket, and only an open
one has a backlog. `BelowInv`: a thread that goes on reading is below its limit.
`Slots`, `NoLeak` and `QuietAfterReturn` follow.

`IndexProofs`. `Exact(x)` says of an index record that its postings, URL map,
lengths and total are what its documents make them. Each writing method is shown to
take an exact record to an exact one, in the steps of the code (`Unindexed`,
`Removed`, `Added`, `AddedAll` for the loop of `replaceAll`), and from this follow
`AlwaysExact` and `Implements`, the refinement of `CorpusContract`. The total is the
cardinality of a set of pairs, so that adding and subtracting lengths are facts
about finite sets. The loops over posting lists and documents need that the function
they define exists and what it yields for every length.

`Loops` gives these: `AllNumbers` is induction for one given set of numbers (from the
well-foundedness of their order), and `Iterates` that a loop which takes values of a
set to values of that set can be run to its end. With them a loop over a list, written as a
recursive function, is proved about without induction theorems, for posting lists,
lines of a file, rules, pieces of a list of proxies and flags alike.

`SearchProofs`. `UnderSearch`: searching threads do not write, so `SSpec` implies
`Spec` of the index and its theorems hold under any number of searches. `PlaceInv`
says where a search holds a pointer, and that one which no writer has touched
refers to something that is there; `QuietInv` which hits and results a search has
while nobody writes; `ScoredInv` that ids are not reused without a load, hence a
hit keeps its URL. `QuietExact` and `Scored` follow. The undefined place stays
reachable, as the run `search_race` shows; the theorems say what holds short of it.

Of `Tokenizer`, for every sequence of bytes: `DecodingExact` and `EncodingsRead` make
`decodeUtf8` and `appendCodepoint` inverse to one another, width by width, from
what shifting by six bits does and undoes (`ShiftBack`). A decoding depends on the bytes it
consumes only, so it is the same when text is put before it (`DecodeAfter`) or
after it, unless that begins with a continuation byte (`DecodeBefore`). The loop
therefore goes through the same states for a text and for its beginning
(`ScanBefore`), and from a place where no token is open it does what it does for
the rest alone (`ScanAfter`): `Separation`. While it runs, the token that is open is
`Whole`, that is, a run over it alone ends with it open: each folded character that
is appended is read back and not folded again (`WholeGrows`, by `EncodingsRead` and
`Folding`). `TokensFindThemselves` follows. Of `Lexicon`: `TextsAreSound` is all of this for
the texts of the model, and `FoundByText` joins it to `QuietExact`, since a term is
counted for a version just when it is one of its tokens.

`ConsoleProofs`. Of `Snapshot`: `Saved`, the invariant, says that the file is a start of
one job's contents, that no two jobs share a salt, and that what a server has read
may be a mixture of the fields of several jobs. `Loadable`, `WholeLoads` and
`WholeServed` follow: a mixture that passes the checks has one key, so one salt, so it is
one job's file. Of `Console`: `BehavesAsSnapshot` maps the program, its threads and
its restarts to `Snapshot` (leaving the program is a crash there), so that the
theorems hold of it (`ConsoleSavesLoadable`, `ConsoleLoadsWhole`); `ConsoleTyping`; and
`DashboardComplete`, because each page that has been reported has an event in the
log or the log is full, and a page is counted after it was reported.

Only model-checked: all liveness (`EveryPageEnds`, `ConnectionsEnd`, `StopReturns`,
the liveness part of `ImplementsContract`, and that start-up ends); `GatewayAnswers`,
whose modules are recursive like the code; and the violations. The other way round, the
type invariant of `WebServer` is proved (`Typing`) and checked by no run of its own.

## 5. What is not modelled

HTML extraction, the cutting of URLs into origin, path and domain, URL decoding,
page rendering and the key generator are sequential text processing. libcurl,
libsodium, httplib and the SOCKS5 probe are external and answer arbitrarily;
with httplib goes the life cycle of the gateway's server. BM25 scores are real
numbers; they decide the order of results, not which are found. The digits of
numbers are single tokens in `Json` and `TorArgs`. Statistics, latencies and
circuit names decide nothing. `addProxy`, `removeProxy` and `probeEndpoint` of
the default proxy manager have no caller in any program. The accept loop of
`AdminServer` is that of `WebServer` without the cap and is not modelled again.
The commands `search`, `status` and `help` change nothing. Power failures, which
may lose data already written, are left out of `Snapshot`, and `send` is taken
not to block in `WebServer`.

## 6. Plan

Done: the crawler, politeness and robots cache with the rules of a file, both
proxy managers with the fetcher and the options, index and search with the
tokenizer and the gateway, the web server, snapshots and the console. Every
safety property that a run checks is proved, but for those of the gateway and its
JSON.

To model, if wanted: the limits of HTML extraction,
and the programs around the web server and the gateway.
