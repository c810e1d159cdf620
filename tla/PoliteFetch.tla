---------------------------- MODULE PoliteFetch ----------------------------
(***************************************************************************)
(* What Crawler::process (src/crawler.cpp) does before it fetches a page:  *)
(* politenessWait, and the robots.txt cache RobotsTxt (src/robots_txt.cpp).*)
(*                                                                         *)
(* Several workers run process at once.  Each access to lastFetch_ or to   *)
(* domains_ under its mutex is a step, and so is each fetch.  Instants are *)
(* kept as ages, the time elapsed since then, up to Delay: politenessWait  *)
(* asks only whether an age has reached Delay, so a saturated age is exact *)
(* and time has no bound.  A policy is the set of URLs that it forbids,    *)
(* and one that forbids nothing is one without rules.                      *)
(***************************************************************************)
EXTENDS Naturals, FiniteSets

CONSTANTS
    Workers,
    Urls,        \* the pages of the frontier; each is processed once (Crawler)
    DomainOf,    \* Crawler::domainOf: the key of lastFetch_
    OriginOf,    \* RobotsTxt::originOf: the key of domains_
    Policy,      \* what robots.txt of an origin forbids
    RobotsUrls,  \* the URLs that isRobotsUrl exempts
    Obey,        \* Options::obeyRobots
    Delay,       \* Options::domainDelay, in ticks
    NoUrl        \* an idle worker's page

Domains == {DomainOf[u] : u \in Urls}
Origins == {OriginOf[u] : u \in Urls}

ASSUME PoliteFetchAssumption ==
    /\ IsFiniteSet(Workers)
    /\ DomainOf \in [Urls -> Domains] /\ OriginOf \in [Urls -> Origins]
    /\ Policy \in [Origins -> SUBSET Urls]
    /\ RobotsUrls \subseteq Urls
    /\ Obey \in BOOLEAN
    /\ Delay \in Nat
    /\ NoUrl \notin Urls

VARIABLES
    age,      \* age of lastFetch_, per domain
    loaded,   \* DomainRules::loaded, of the origins in domains_
    rules,    \* DomainRules::rules: what they forbid
    pc,       \* where each worker is in process
    url,      \* its page
    seen,     \* age of the value of lastFetch_ that politenessWait read
    got,      \* the policy that loadDomain has fetched
    outcome,  \* what became of each page
    own,      \* history: age of the worker's own last stamp, per domain
    failed,   \* history: origins whose robots.txt could not be fetched
    learned,  \* history: origins whose rules have been stored
    knew,     \* history: were the rules stored when the worker began?
    loads     \* history: fetches of robots.txt, per origin

wait == <<age, seen, own>>
robots == <<loaded, rules, got, failed, learned, loads>>
vars == <<wait, robots, pc, url, outcome, knew>>

d(w) == DomainOf[url[w]]
o(w) == OriginOf[url[w]]
Go(w, label) == pc' = [pc EXCEPT ![w] = label]

\* One tick older, up to Delay.
Older(a) == IF a < Delay THEN a + 1 ELSE Delay

----------------------------------------------------------------------------
(* Crawler::process *)

Begin(w, u) ==
    /\ pc[w] = "idle" /\ outcome[u] = "none" /\ \A v \in Workers : url[v] # u
    /\ url' = [url EXCEPT ![w] = u]
    /\ knew' = [knew EXCEPT ![w] = OriginOf[u] \in learned]
    /\ Go(w, IF Obey /\ u \notin RobotsUrls THEN "rules" ELSE "readPage")
    /\ UNCHANGED <<wait, robots, outcome>>

\* process returns, having blocked or fetched its page.
Return(w, result) ==
    /\ outcome' = [outcome EXCEPT ![url[w]] = result]
    /\ url' = [url EXCEPT ![w] = NoUrl]
    /\ knew' = [knew EXCEPT ![w] = FALSE]
    /\ Go(w, "idle")

\* Mutant: an origin that is not cached counts as known.
UnknownIsKnown(w) == o(w) \in loaded => rules[o(w)] # {}

\* RobotsTxt::hasRules
HasRules(w) == o(w) \in loaded /\ rules[o(w)] # {}

CheckRules(w) ==
    /\ pc[w] = "rules"
    /\ Go(w, IF HasRules(w) THEN "allowed" ELSE "readRobots")
    /\ UNCHANGED <<wait, robots, url, outcome, knew>>

\* Mutant: an origin without rules is fetched again.
LoadedMeansRules(w) == HasRules(w)

\* loadDomain's test of the loaded flag.
Loaded(w) == o(w) \in loaded

LoadDomain(w) ==
    /\ pc[w] = "load"
    /\ Go(w, IF Loaded(w) THEN "allowed" ELSE "get")
    /\ UNCHANGED <<wait, robots, url, outcome, knew>>

\* The fetch of robots.txt, without a lock; a failure means no rules.
GetRobots(w) ==
    /\ pc[w] = "get"
    /\ \/ got' = [got EXCEPT ![w] = Policy[o(w)]] /\ UNCHANGED failed
       \/ got' = [got EXCEPT ![w] = {}] /\ failed' = failed \cup {o(w)}
    /\ loads' = [loads EXCEPT ![o(w)] = @ + 1]
    /\ Go(w, "store")
    /\ UNCHANGED <<wait, loaded, rules, learned, url, outcome, knew>>

\* Mutant: a fetched policy is not marked as loaded.
NotMarked(w) == loaded

\* Fetched or not, the policy counts as loaded.
Marked(w) == loaded \cup {o(w)}

\* The entry is added or overwritten.
StoreRules(w) ==
    /\ pc[w] = "store"
    /\ loaded' = Marked(w)
    /\ rules' = [rules EXCEPT ![o(w)] = got[w]]
    /\ learned' = IF got[w] # {} THEN learned \cup {o(w)} ELSE learned
    /\ got' = [got EXCEPT ![w] = {}]
    /\ Go(w, "allowed")
    /\ UNCHANGED <<wait, failed, loads, url, outcome, knew>>

\* RobotsTxt::allowed; an origin without an entry is allowed.
Allowed(w) == url[w] \notin rules[o(w)]

CheckAllowed(w) ==
    /\ pc[w] = "allowed"
    /\ IF Allowed(w)
       THEN Go(w, "readPage") /\ UNCHANGED <<url, outcome, knew>>
       ELSE Return(w, "blocked")
    /\ UNCHANGED <<wait, robots>>

FetchPage(w) ==
    /\ pc[w] = "page"
    /\ Return(w, "fetched")
    /\ UNCHANGED <<wait, robots>>

----------------------------------------------------------------------------
(* Crawler::politenessWait, before robots.txt and before the page *)

\* Mutant: looking at lastFetch_ renews it.
ReadRenews(w) ==
    /\ \/ pc[w] = "readRobots" /\ Go(w, "testRobots")
       \/ pc[w] = "readPage" /\ Go(w, "testPage")
    /\ seen' = [seen EXCEPT ![w] = age[d(w)]]
    /\ age' = [age EXCEPT ![d(w)] = 0]
    /\ UNCHANGED <<own, robots, url, outcome, knew>>

ReadLastFetch(w) ==
    /\ \/ pc[w] = "readRobots" /\ Go(w, "testRobots")
       \/ pc[w] = "readPage" /\ Go(w, "testPage")
    /\ seen' = [seen EXCEPT ![w] = age[d(w)]]
    /\ UNCHANGED <<age, own, robots, url, outcome, knew>>

\* Without the lock: stamp when the delay has passed, else sleep and read again.
TestDelay(w) ==
    /\ \/ pc[w] = "testRobots" /\ Go(w, IF seen[w] >= Delay THEN "stampRobots" ELSE "readRobots")
       \/ pc[w] = "testPage" /\ Go(w, IF seen[w] >= Delay THEN "stampPage" ELSE "readPage")
    /\ UNCHANGED <<wait, robots, url, outcome, knew>>

\* Mutant: the stamp is the instant that was tested, not the present one.
StampSeen(w) == seen[w]

\* lastFetch_ is set to the present.
StampAge(w) == 0

Stamping(w) == pc[w] \in {"stampRobots", "stampPage"}

Stamp(w) ==
    /\ \/ pc[w] = "stampRobots" /\ Go(w, "load")
       \/ pc[w] = "stampPage" /\ Go(w, "page")
    /\ age' = [age EXCEPT ![d(w)] = StampAge(w)]
    /\ own' = [own EXCEPT ![w][d(w)] = 0]
    /\ UNCHANGED <<seen, robots, url, outcome, knew>>

----------------------------------------------------------------------------
\* Time passes.
Tick ==
    /\ age' = [x \in Domains |-> Older(age[x])]
    /\ seen' = [w \in Workers |-> Older(seen[w])]
    /\ own' = [w \in Workers |-> [x \in Domains |-> Older(own[w][x])]]
    /\ UNCHANGED <<robots, pc, url, outcome, knew>>

Init ==
    /\ age = [x \in Domains |-> Delay]
    /\ loaded = {} /\ rules = [x \in Origins |-> {}]
    /\ pc = [w \in Workers |-> "idle"]
    /\ url = [w \in Workers |-> NoUrl]
    /\ seen = [w \in Workers |-> Delay]
    /\ got = [w \in Workers |-> {}]
    /\ outcome = [u \in Urls |-> "none"]
    /\ own = [w \in Workers |-> [x \in Domains |-> Delay]]
    /\ failed = {} /\ learned = {}
    /\ knew = [w \in Workers |-> FALSE]
    /\ loads = [x \in Origins |-> 0]

Step(w) ==
    \/ CheckRules(w) \/ LoadDomain(w) \/ GetRobots(w) \/ StoreRules(w)
    \/ CheckAllowed(w) \/ FetchPage(w)
    \/ ReadLastFetch(w) \/ TestDelay(w) \/ Stamp(w)

Next ==
    \/ \E w \in Workers : Step(w) \/ \E u \in Urls : Begin(w, u)
    \/ Tick

Spec == Init /\ [][Next]_vars

\* Time passes, and a worker with a page runs on: mutexes are granted, sleeps
\* end and fetches time out.
FairSpec == Spec /\ WF_vars(Tick) /\ \A w \in Workers : WF_vars(Step(w))

----------------------------------------------------------------------------
(* Properties *)

Labels == {"idle", "rules", "readRobots", "testRobots", "stampRobots", "load", "get",
           "store", "allowed", "readPage", "testPage", "stampPage", "page"}

\* The values each variable ranges over.
TypeOK ==
    /\ age \in [Domains -> 0..Delay]
    /\ loaded \subseteq Origins /\ rules \in [Origins -> SUBSET Urls]
    /\ \A x \in Origins : rules[x] # {} => x \in loaded
    /\ pc \in [Workers -> Labels]
    /\ url \in [Workers -> Urls \cup {NoUrl}]
    /\ \A w \in Workers : pc[w] = "idle" <=> url[w] = NoUrl
    /\ seen \in [Workers -> 0..Delay]
    /\ got \in [Workers -> SUBSET Urls]
    /\ outcome \in [Urls -> {"none", "blocked", "fetched"}]
    /\ own \in [Workers -> [Domains -> 0..Delay]]
    /\ failed \subseteq Origins /\ learned \subseteq Origins
    /\ knew \in [Workers -> BOOLEAN]
    /\ loads \in [Origins -> Nat]

\* Whatever the other workers stamp meanwhile, a worker leaves at least
\* domainDelay between its own requests to a domain: a domain sees at most one
\* request per worker in any window of that length.
PerWorkerGap ==
    [][\A w \in Workers : Stamping(w) /\ ~Stamping(w)' => own[w][d(w)] >= Delay]_vars

\* A page that its origin's robots.txt forbids is fetched only if a fetch of
\* that robots.txt failed, and only a forbidden page is blocked: no policy of
\* another origin of the same host counts, and an unreachable one never blocks.
RobotsExact ==
    \A u \in Urls :
        /\ outcome[u] = "blocked" => u \in Policy[OriginOf[u]]
        /\ (/\ outcome[u] = "fetched" /\ Obey
            /\ u \in Policy[OriginOf[u]] \ RobotsUrls) => OriginOf[u] \in failed

\* loadDomain is idempotent: a worker fetches an origin's robots.txt at most
\* once, an empty or unreachable one included.
LoadsBounded == \A x \in Origins : loads[x] <= Cardinality(Workers)

\* Every page that is begun is fetched or blocked, though other workers keep
\* renewing the stamp that it waits for.
EveryPageEnds == \A w \in Workers : pc[w] # "idle" ~> pc[w] = "idle"

\* Requests to a domain keep the "min gap between fetches per domain"
\* (include/shadowse/crawler.hpp, domainDelay).
GapKept ==
    [][\A w \in Workers : Stamping(w) /\ ~Stamping(w)' => age[d(w)] >= Delay]_vars

\* Once the rules of an origin are cached, a page begun later that they forbid
\* is not fetched: loadDomain "Fetches + caches the policy" and is "(idempotent)"
\* (include/shadowse/robots_txt.hpp).
PolicySticks ==
    \A w \in Workers :
        pc[w] = "page" /\ knew[w] /\ Obey /\ url[w] \notin RobotsUrls
            => url[w] \notin Policy[o(w)]
=============================================================================
