------------------------- MODULE PoliteFetchProofs -------------------------
(***************************************************************************)
(* Proofs about PoliteFetch, for every number of workers, set of pages,    *)
(* policies and delay: type correctness, that robots.txt is respected      *)
(* exactly unless a fetch of it failed, that a worker fetches it at most   *)
(* once, and that each worker keeps the politeness delay between its own   *)
(* requests.  Then, for robots.txt files of any length, that RobotsRules   *)
(* reads them as they are meant.                                           *)
(***************************************************************************)
EXTENDS RobotsFiles, Loops

\* The page that a worker with a page has, its domain and its origin.
LEMMA PageOf ==
    ASSUME TypeOK, NEW w \in Workers, pc[w] # "idle"
    PROVE  url[w] \in Urls /\ d(w) \in Domains /\ o(w) \in Origins
BY PoliteFetchAssumption DEF TypeOK, d, o

\* Ages grow in step and stay within the delay.
LEMMA Ageing ==
    ASSUME NEW a \in 0..Delay, NEW b \in 0..Delay
    PROVE  /\ Older(a) \in 0..Delay
           /\ a <= b => Older(a) <= Older(b)
           /\ a = Delay => Older(a) = Delay
BY PoliteFetchAssumption DEF Older

\* Every step keeps the types: process never acts on an idle worker's page,
\* and rules are only ever held for an origin that is marked as loaded.
LEMMA TypePreserved ==
    ASSUME TypeOK, [Next]_vars
    PROVE  TypeOK'
<1> USE PoliteFetchAssumption
<1>1. ASSUME NEW w \in Workers, NEW u \in Urls, Begin(w, u)
      PROVE  TypeOK'
  BY <1>1 DEF TypeOK, Begin, Go, wait, robots, Labels
<1>2. ASSUME NEW w \in Workers, CheckRules(w)
      PROVE  TypeOK'
  BY <1>2, PageOf DEF TypeOK, CheckRules, Go, wait, robots, Labels
<1>3. ASSUME NEW w \in Workers, LoadDomain(w)
      PROVE  TypeOK'
  BY <1>3, PageOf DEF TypeOK, LoadDomain, Go, wait, robots, Labels
<1>4. ASSUME NEW w \in Workers, GetRobots(w)
      PROVE  TypeOK'
  <2>1. url[w] \in Urls /\ o(w) \in Origins
    BY <1>4, PageOf DEF GetRobots
  <2>2. /\ got' \in [Workers -> SUBSET Urls] /\ failed' \subseteq Origins
        /\ loads' \in [Origins -> Nat]
    <3>1. Policy[o(w)] \in SUBSET Urls
      BY <2>1
    <3>2. got' \in [Workers -> SUBSET Urls]
      BY <1>4, <3>1 DEF TypeOK, GetRobots
    <3>3. failed' \subseteq Origins
      BY <1>4, <2>1 DEF TypeOK, GetRobots
    <3>4. loads' \in [Origins -> Nat]
      BY <1>4, <2>1 DEF TypeOK, GetRobots
    <3> QED
      BY <3>2, <3>3, <3>4
  <2> QED
    BY <1>4, <2>2 DEF TypeOK, GetRobots, Go, wait, Labels
<1>5. ASSUME NEW w \in Workers, StoreRules(w)
      PROVE  TypeOK'
  <2>1. o(w) \in Origins
    BY <1>5, PageOf DEF StoreRules
  <2>2. /\ loaded' \subseteq Origins /\ learned' \subseteq Origins
        /\ rules' \in [Origins -> SUBSET Urls]
        /\ \A x \in Origins : rules'[x] # {} => x \in loaded'
        /\ got' \in [Workers -> SUBSET Urls]
    BY <1>5, <2>1 DEF TypeOK, StoreRules, Marked
  <2> QED
    BY <1>5, <2>2 DEF TypeOK, StoreRules, Go, wait, Labels
<1>6. ASSUME NEW w \in Workers, CheckAllowed(w)
      PROVE  TypeOK'
  <2>1. url[w] \in Urls
    BY <1>6, PageOf DEF CheckAllowed
  <2>2. CASE Allowed(w)
    BY <1>6, <2>2 DEF TypeOK, CheckAllowed, Go, wait, robots, Labels
  <2>3. CASE ~Allowed(w)
    <3>1. /\ outcome' = [outcome EXCEPT ![url[w]] = "blocked"]
          /\ url' = [url EXCEPT ![w] = NoUrl] /\ knew' = [knew EXCEPT ![w] = FALSE]
          /\ pc' = [pc EXCEPT ![w] = "idle"]
      BY <1>6, <2>3 DEF CheckAllowed, Return, Go
    <3>2. UNCHANGED <<wait, robots>>
      BY <1>6 DEF CheckAllowed
    <3> QED
      BY <2>1, <3>1, <3>2 DEF TypeOK, wait, robots, Labels
  <2> QED
    BY <2>2, <2>3
<1>7. ASSUME NEW w \in Workers, FetchPage(w)
      PROVE  TypeOK'
  BY <1>7, PageOf DEF TypeOK, FetchPage, Return, Go, wait, robots, Labels
<1>8. ASSUME NEW w \in Workers, ReadLastFetch(w)
      PROVE  TypeOK'
  BY <1>8, PageOf DEF TypeOK, ReadLastFetch, Go, robots, Labels
<1>9. ASSUME NEW w \in Workers, TestDelay(w)
      PROVE  TypeOK'
  BY <1>9, PageOf DEF TypeOK, TestDelay, Go, wait, robots, Labels
<1>10. ASSUME NEW w \in Workers, Stamp(w)
       PROVE  TypeOK'
  <2>1. d(w) \in Domains
    BY <1>10, PageOf DEF Stamp
  <2>2. age' \in [Domains -> 0..Delay] /\ own' \in [Workers -> [Domains -> 0..Delay]]
    BY <1>10, <2>1 DEF TypeOK, Stamp, StampAge
  <2> QED
    BY <1>10, <2>2 DEF TypeOK, Stamp, Go, robots, Labels
<1>11. CASE Tick
  <2>1. /\ age' \in [Domains -> 0..Delay] /\ seen' \in [Workers -> 0..Delay]
        /\ own' \in [Workers -> [Domains -> 0..Delay]]
    BY <1>11, Ageing DEF TypeOK, Tick
  <2> QED
    BY <1>11, <2>1 DEF TypeOK, Tick, robots
<1>12. CASE UNCHANGED vars
  BY <1>12 DEF TypeOK, vars, wait, robots
<1> QED
  BY <1>1, <1>2, <1>3, <1>4, <1>5, <1>6, <1>7, <1>8, <1>9, <1>10, <1>11, <1>12
  DEF Next, Step

\* Type correctness, for all constants.
THEOREM Typing == Spec => []TypeOK
<1>1. Init => TypeOK
  BY PoliteFetchAssumption DEF Init, TypeOK, Labels
<1> QED
  BY <1>1, TypePreserved, PTL DEF Spec

----------------------------------------------------------------------------
(* robots.txt *)

\* What makes RobotsExact inductive: unless a fetch of robots.txt failed, what
\* is fetched or stored for an origin is its policy, and a worker past the
\* check of a forbidden page had a policy with a failure behind it.
RobotsInv ==
    /\ \A w \in Workers : pc[w] = "store" =>
          /\ got[w] \subseteq Policy[o(w)]
          /\ o(w) \notin failed => got[w] = Policy[o(w)]
    /\ \A x \in Origins :
          /\ rules[x] \subseteq Policy[x]
          /\ x \in loaded /\ x \notin failed => rules[x] = Policy[x]
    /\ \A w \in Workers : pc[w] = "allowed" => o(w) \in loaded
    /\ \A w \in Workers :
          (/\ pc[w] \in {"readPage", "testPage", "stampPage", "page"}
           /\ Obey /\ url[w] \in Policy[o(w)] \ RobotsUrls) => o(w) \in failed
    /\ RobotsExact

\* Every step keeps RobotsInv.
LEMMA RobotsPreserved ==
    ASSUME TypeOK, RobotsInv, [Next]_vars
    PROVE  RobotsInv'
<1> USE PoliteFetchAssumption
<1>1. ASSUME NEW w \in Workers, NEW u \in Urls, Begin(w, u)
      PROVE  RobotsInv'
  BY <1>1 DEF TypeOK, RobotsInv, RobotsExact, Begin, Go, wait, robots, o
<1>2. ASSUME NEW w \in Workers, CheckRules(w)
      PROVE  RobotsInv'
  BY <1>2 DEF TypeOK, RobotsInv, RobotsExact, CheckRules, HasRules, Go, wait, robots, o
<1>3. ASSUME NEW w \in Workers, LoadDomain(w)
      PROVE  RobotsInv'
  BY <1>3 DEF TypeOK, RobotsInv, RobotsExact, LoadDomain, Loaded, Go, wait, robots, o
<1>4. ASSUME NEW w \in Workers, GetRobots(w)
      PROVE  RobotsInv'
  <2>1. o(w) \in Origins
    BY <1>4, PageOf DEF GetRobots
  <2> QED
    BY <1>4, <2>1 DEF TypeOK, RobotsInv, RobotsExact, GetRobots, Go, wait, o
<1>5. ASSUME NEW w \in Workers, StoreRules(w)
      PROVE  RobotsInv'
  <2>1. o(w) \in Origins
    BY <1>5, PageOf DEF StoreRules
  <2> QED
    BY <1>5, <2>1 DEF TypeOK, RobotsInv, RobotsExact, StoreRules, Marked, Go, wait, o
<1>6. ASSUME NEW w \in Workers, CheckAllowed(w)
      PROVE  RobotsInv'
  <2>1. url[w] \in Urls /\ o(w) \in Origins
    BY <1>6, PageOf DEF CheckAllowed
  <2>2. CASE Allowed(w)
    BY <1>6, <2>1, <2>2, SMTT(30) DEF TypeOK, RobotsInv, RobotsExact, CheckAllowed, Allowed, Go,
                            wait, robots, o
  <2>3. CASE ~Allowed(w)
    <3>1. url[w] \in Policy[OriginOf[url[w]]]
      BY <2>1, <2>3 DEF RobotsInv, Allowed, o
    <3>2. RobotsExact'
      BY <1>6, <2>1, <2>3, <3>1 DEF TypeOK, RobotsInv, RobotsExact, CheckAllowed, Return, robots
    <3>3. \A v \in Workers : pc'[v] # "idle" => pc'[v] = pc[v] /\ url'[v] = url[v]
      BY <1>6, <2>3 DEF TypeOK, CheckAllowed, Return, Go
    <3> QED
      BY <1>6, <3>2, <3>3 DEF RobotsInv, CheckAllowed, robots, o
  <2> QED
    BY <2>2, <2>3
<1>7. ASSUME NEW w \in Workers, FetchPage(w)
      PROVE  RobotsInv'
  <2>1. url[w] \in Urls /\ o(w) \in Origins
    BY <1>7, PageOf DEF FetchPage
  <2> QED
    BY <1>7, <2>1 DEF TypeOK, RobotsInv, RobotsExact, FetchPage, Return, Go, wait, robots, o
<1>8. ASSUME NEW w \in Workers, ReadLastFetch(w)
      PROVE  RobotsInv'
  BY <1>8 DEF TypeOK, RobotsInv, RobotsExact, ReadLastFetch, Go, robots, o
<1>9. ASSUME NEW w \in Workers, TestDelay(w)
      PROVE  RobotsInv'
  BY <1>9 DEF TypeOK, RobotsInv, RobotsExact, TestDelay, Go, wait, robots, o
<1>10. ASSUME NEW w \in Workers, Stamp(w)
       PROVE  RobotsInv'
  BY <1>10 DEF TypeOK, RobotsInv, RobotsExact, Stamp, Go, robots, o
<1>11. CASE Tick
  BY <1>11 DEF RobotsInv, RobotsExact, Tick, robots, o
<1>12. CASE UNCHANGED vars
  BY <1>12 DEF RobotsInv, RobotsExact, vars, wait, robots, o
<1> QED
  BY <1>1, <1>2, <1>3, <1>4, <1>5, <1>6, <1>7, <1>8, <1>9, <1>10, <1>11, <1>12
  DEF Next, Step

\* Compliance: process fetches a forbidden page only after a failed fetch of
\* robots.txt and blocks no other page, however many workers share the cache.
THEOREM Compliance == Spec => []RobotsExact
<1>1. Init => RobotsInv
  BY PoliteFetchAssumption DEF Init, RobotsInv, RobotsExact
<1>2. RobotsInv => RobotsExact
  BY DEF RobotsInv
<1> QED
  BY <1>1, <1>2, Typing, RobotsPreserved, PTL DEF Spec

----------------------------------------------------------------------------
(* politenessWait *)

\* What makes PerWorkerGap inductive: the stamp of a domain is at least as
\* recent as each worker's own, so a worker that finds it old enough has kept
\* its own distance, and time only adds to that.
GapInv ==
    /\ \A w \in Workers, x \in Domains : age[x] <= own[w][x]
    /\ \A w \in Workers :
          pc[w] \in {"testRobots", "testPage"} => seen[w] <= own[w][d(w)]
    /\ \A w \in Workers : Stamping(w) => own[w][d(w)] >= Delay

\* Every step keeps GapInv.
LEMMA GapPreserved ==
    ASSUME TypeOK, GapInv, [Next]_vars
    PROVE  GapInv'
<1> USE PoliteFetchAssumption
<1>1. ASSUME NEW w \in Workers, NEW u \in Urls, Begin(w, u)
      PROVE  GapInv'
  BY <1>1 DEF TypeOK, GapInv, Stamping, Begin, Go, wait, d
<1>2. ASSUME NEW w \in Workers,
             \/ CheckRules(w) \/ LoadDomain(w) \/ GetRobots(w) \/ StoreRules(w)
             \/ CheckAllowed(w) \/ FetchPage(w)
      PROVE  GapInv'
  <2> DEFINE Waiting == {"testRobots", "testPage", "stampRobots", "stampPage"}
  <2>1. UNCHANGED wait
    BY <1>2 DEF CheckRules, LoadDomain, GetRobots, StoreRules, CheckAllowed, FetchPage
  <2>2. \A v \in Workers : pc'[v] \in Waiting => pc'[v] = pc[v] /\ url'[v] = url[v]
    <3>1. CASE CheckRules(w) \/ LoadDomain(w)
      BY <3>1 DEF TypeOK, CheckRules, LoadDomain, Go
    <3>2. CASE GetRobots(w) \/ StoreRules(w)
      BY <3>2 DEF TypeOK, GetRobots, StoreRules, Go
    <3>3. CASE CheckAllowed(w) \/ FetchPage(w)
      BY <3>3 DEF TypeOK, CheckAllowed, FetchPage, Return, Go
    <3> QED
      BY <1>2, <3>1, <3>2, <3>3
  <2> QED
    BY <2>1, <2>2 DEF GapInv, Stamping, wait, d
<1>3. ASSUME NEW w \in Workers, ReadLastFetch(w)
      PROVE  GapInv'
  <2>1. d(w) \in Domains
    BY <1>3, PageOf DEF ReadLastFetch
  <2> QED
    BY <1>3, <2>1 DEF TypeOK, GapInv, Stamping, ReadLastFetch, Go, d
<1>4. ASSUME NEW w \in Workers, TestDelay(w)
      PROVE  GapInv'
  <2>1. d(w) \in Domains
    BY <1>4, PageOf DEF TestDelay
  <2> QED
    BY <1>4, <2>1 DEF TypeOK, GapInv, Stamping, TestDelay, Go, wait, d
<1>5. ASSUME NEW w \in Workers, Stamp(w)
      PROVE  GapInv'
  <2>1. d(w) \in Domains
    BY <1>5, PageOf DEF Stamp
  <2>2. ASSUME NEW v \in Workers, pc[v] # "idle"
        PROVE  d(v) \in Domains
    BY <2>2, PageOf
  <2> QED
    BY <1>5, <2>1, <2>2 DEF TypeOK, GapInv, Stamping, Stamp, StampAge, Go, d
<1>6. CASE Tick
  <2>1. ASSUME NEW v \in Workers, NEW x \in Domains
        PROVE  age'[x] <= own'[v][x]
    <3>1. age[x] \in 0..Delay /\ own[v][x] \in 0..Delay /\ age[x] <= own[v][x]
      BY DEF TypeOK, GapInv
    <3> QED
      BY <1>6, <3>1, Ageing DEF Tick
  <2>2. ASSUME NEW v \in Workers, pc[v] \in {"testRobots", "testPage"}
        PROVE  seen'[v] <= own'[v][d(v)]
    <3>1. d(v) \in Domains
      BY <2>2, PageOf
    <3>2. seen[v] \in 0..Delay /\ own[v][d(v)] \in 0..Delay /\ seen[v] <= own[v][d(v)]
      BY <2>2, <3>1 DEF TypeOK, GapInv
    <3> QED
      BY <1>6, <3>1, <3>2, Ageing DEF Tick
  <2>3. ASSUME NEW v \in Workers, Stamping(v)
        PROVE  own'[v][d(v)] >= Delay
    <3>1. d(v) \in Domains
      BY <2>3, PageOf DEF Stamping
    <3>2. own[v][d(v)] \in 0..Delay /\ own[v][d(v)] = Delay
      <4>1. own[v][d(v)] \in 0..Delay
        BY <3>1 DEF TypeOK
      <4>2. own[v][d(v)] >= Delay
        BY <2>3 DEF GapInv
      <4> QED
        BY <4>1, <4>2
    <3> QED
      BY <1>6, <3>1, <3>2, Ageing DEF Tick
  <2> QED
    BY <1>6, <2>1, <2>2, <2>3 DEF GapInv, Stamping, Tick, d
<1>7. CASE UNCHANGED vars
  BY <1>7 DEF GapInv, Stamping, vars, wait, d
<1> QED
  BY <1>1, <1>2, <1>3, <1>4, <1>5, <1>6, <1>7 DEF Next, Step

\* Politeness: each worker keeps domainDelay between its own requests to a
\* domain, although politenessWait tests and stamps in two critical sections.
THEOREM Politeness == Spec => PerWorkerGap
<1>1. Init => GapInv
  BY PoliteFetchAssumption DEF Init, GapInv, Stamping
<1>2. GapInv => [\A w \in Workers :
                    Stamping(w) /\ ~Stamping(w)' => own[w][d(w)] >= Delay]_vars
  BY DEF GapInv
<1> QED
  BY <1>1, <1>2, Typing, GapPreserved, PTL DEF Spec, PerWorkerGap

----------------------------------------------------------------------------
(* How often robots.txt is fetched *)

Getting(x) == {w \in Workers : pc[w] = "get" /\ o(w) = x}
Storing(x) == {w \in Workers : pc[w] = "store" /\ o(w) = x}

\* What makes LoadsBounded inductive: until the first policy is stored, whoever
\* has fetched one is about to store it; from then on only those may still fetch
\* who had passed the test of the loaded flag before.
LoadsInv ==
    \A x \in Origins :
        /\ loads[x] + Cardinality(Getting(x)) <= Cardinality(Workers)
        /\ x \notin loaded => loads[x] = Cardinality(Storing(x))

\* The sizes of two groups of workers that have no worker in common.
LEMMA Groups ==
    ASSUME NEW A \in SUBSET Workers, NEW B \in SUBSET Workers, A \cap B = {}
    PROVE  /\ IsFiniteSet(A) /\ IsFiniteSet(B)
           /\ Cardinality(A) \in Nat /\ Cardinality(B) \in Nat /\ Cardinality(Workers) \in Nat
           /\ Cardinality(A) + Cardinality(B) <= Cardinality(Workers)
<1>1. IsFiniteSet(Workers)
  BY PoliteFetchAssumption
<1>2. IsFiniteSet(A) /\ IsFiniteSet(B)
  BY <1>1, FS_Subset
<1>3. Cardinality(A) \in Nat /\ Cardinality(B) \in Nat /\ Cardinality(A \cap B) = 0
  BY <1>2, FS_CardinalityType, FS_EmptySet
<1>4. Cardinality(A \cup B) = Cardinality(A) + Cardinality(B) - Cardinality(A \cap B)
  BY <1>2, FS_Union
<1>5. A \cup B \in SUBSET Workers
  OBVIOUS
<1>6. Cardinality(A \cup B) <= Cardinality(Workers)
  BY <1>1, <1>5, FS_Subset
<1> QED
  BY <1>1, <1>2, <1>3, <1>4, <1>6, FS_CardinalityType

LEMMA GroupsOf ==
    ASSUME NEW x
    PROVE  /\ IsFiniteSet(Getting(x)) /\ IsFiniteSet(Storing(x))
           /\ Cardinality(Getting(x)) \in Nat /\ Cardinality(Storing(x)) \in Nat
           /\ Cardinality(Workers) \in Nat
<1>1. /\ Getting(x) \in SUBSET Workers /\ Storing(x) \in SUBSET Workers
      /\ Getting(x) \cap Storing(x) = {}
  BY DEF Getting, Storing
<1> QED
  BY <1>1, Groups

\* A step that leaves both groups as they are, and the counters, keeps LoadsInv.
LEMMA SameGroups ==
    ASSUME LoadsInv, loads' = loads, loaded \subseteq loaded',
           \A x \in Origins : Getting(x)' = Getting(x) /\ Storing(x)' = Storing(x)
    PROVE  LoadsInv'
BY DEF LoadsInv

\* Nobody enters or leaves a group but the worker whose step it is.
LEMMA OthersStay ==
    ASSUME TypeOK, NEW w \in Workers, NEW label, pc' = [pc EXCEPT ![w] = label],
           \A v \in Workers \ {w} : url'[v] = url[v], NEW x
    PROVE  \A v \in Workers \ {w} : /\ v \in Getting(x)' <=> v \in Getting(x)
                                    /\ v \in Storing(x)' <=> v \in Storing(x)
BY DEF TypeOK, Getting, Storing, o

\* A step between labels outside the two groups.
LEMMA Outside ==
    ASSUME TypeOK, LoadsInv, UNCHANGED <<loads, loaded>>, NEW w \in Workers, NEW label,
           pc[w] \notin {"get", "store"}, label \notin {"get", "store"},
           pc' = [pc EXCEPT ![w] = label], \A v \in Workers \ {w} : url'[v] = url[v]
    PROVE  LoadsInv'
<1>1. ASSUME NEW x \in Origins
      PROVE  Getting(x)' = Getting(x) /\ Storing(x)' = Storing(x)
  <2>1. w \notin Getting(x) /\ w \notin Storing(x) /\ w \notin Getting(x)' /\ w \notin Storing(x)'
    BY DEF TypeOK, Getting, Storing
  <2>2. \A v \in Workers \ {w} : /\ v \in Getting(x)' <=> v \in Getting(x)
                                 /\ v \in Storing(x)' <=> v \in Storing(x)
    BY OthersStay
  <2> QED
    BY <2>1, <2>2 DEF Getting, Storing
<1> QED
  BY <1>1, SameGroups

LEMMA OneMoves ==
    ASSUME NEW S, NEW T, NEW e, IsFiniteSet(S), IsFiniteSet(T), e \in S, e \notin T
    PROVE  /\ Cardinality(S \ {e}) = Cardinality(S) - 1
           /\ Cardinality(T \cup {e}) = Cardinality(T) + 1
<1>1. Cardinality(S \ {e}) = Cardinality(S) - 1
  BY FS_RemoveElement
<1>2. Cardinality(T \cup {e}) = Cardinality(T) + 1
  BY FS_AddElement
<1> QED
  BY <1>1, <1>2

LEMMA LoadsPreserved ==
    ASSUME TypeOK, LoadsInv, [Next]_vars
    PROVE  LoadsInv'
<1>1. ASSUME NEW w \in Workers, NEW u \in Urls, Begin(w, u)
      PROVE  LoadsInv'
  <2>1. PICK label \in {"rules", "readPage"} : pc' = [pc EXCEPT ![w] = label]
    BY <1>1 DEF Begin, Go
  <2>2. pc[w] = "idle" /\ UNCHANGED <<loads, loaded>> /\ \A v \in Workers \ {w} : url'[v] = url[v]
    BY <1>1 DEF Begin, robots, TypeOK
  <2> QED
    BY <2>1, <2>2, Outside
<1>2. ASSUME NEW w \in Workers, CheckRules(w) \/ ReadLastFetch(w) \/ TestDelay(w) \/ Stamp(w)
      PROVE  LoadsInv'
  <2>1. PICK label \in Labels \ {"get", "store"} : pc' = [pc EXCEPT ![w] = label]
    BY <1>2 DEF CheckRules, ReadLastFetch, TestDelay, Stamp, Go, Labels
  <2>2. pc[w] \notin {"get", "store"} /\ UNCHANGED <<loads, loaded, url>>
    BY <1>2 DEF CheckRules, ReadLastFetch, TestDelay, Stamp, robots
  <2> QED
    BY <2>1, <2>2, Outside
<1>3. ASSUME NEW w \in Workers, CheckAllowed(w) \/ FetchPage(w)
      PROVE  LoadsInv'
  <2>1. PICK label \in {"idle", "readPage"} : pc' = [pc EXCEPT ![w] = label]
    BY <1>3 DEF CheckAllowed, FetchPage, Return, Go
  <2>2. /\ pc[w] \notin {"get", "store"} /\ UNCHANGED <<loads, loaded>>
        /\ \A v \in Workers \ {w} : url'[v] = url[v]
    BY <1>3 DEF CheckAllowed, FetchPage, Return, robots, TypeOK
  <2> QED
    BY <2>1, <2>2, Outside
<1>4. ASSUME NEW w \in Workers, LoadDomain(w)
      PROVE  LoadsInv'
  <2>1. pc[w] = "load" /\ UNCHANGED <<loads, loaded, url>>
    BY <1>4 DEF LoadDomain, robots
  <2>2. CASE Loaded(w)
    <3>1. pc' = [pc EXCEPT ![w] = "allowed"]
      BY <1>4, <2>2 DEF LoadDomain, Go
    <3> QED
      BY <2>1, <3>1, Outside
  <2>3. CASE ~Loaded(w)
    <3>1. pc' = [pc EXCEPT ![w] = "get"]
      BY <1>4, <2>3 DEF LoadDomain, Go
    <3>2. ASSUME NEW x \in Origins
          PROVE  /\ loads'[x] + Cardinality(Getting(x)') <= Cardinality(Workers)
                 /\ x \notin loaded' => loads'[x] = Cardinality(Storing(x)')
      <4>1. \A v \in Workers \ {w} : /\ v \in Getting(x)' <=> v \in Getting(x)
                                     /\ v \in Storing(x)' <=> v \in Storing(x)
        BY <2>1, <3>1, OthersStay
      <4>2. w \notin Storing(x) /\ w \notin Storing(x)' /\ w \notin Getting(x)
        BY <2>1, <3>1 DEF TypeOK, Getting, Storing
      <4>3. Storing(x)' = Storing(x)
        BY <4>1, <4>2 DEF Storing
      <4>4. CASE x # o(w)
        <5>1. w \notin Getting(x)'
          BY <2>1, <4>4 DEF Getting, o
        <5>2. Getting(x)' = Getting(x)
          BY <4>1, <4>2, <5>1 DEF Getting
        <5> QED
          BY <2>1, <4>3, <5>2 DEF LoadsInv
      <4>5. CASE x = o(w)
        <5>1. x \notin loaded /\ loads[x] = Cardinality(Storing(x))
          BY <2>3, <4>5 DEF Loaded, LoadsInv
        <5>2. /\ Getting(x)' \in SUBSET Workers /\ Storing(x)' \in SUBSET Workers
              /\ Getting(x)' \cap Storing(x)' = {}
          BY DEF Getting, Storing
        <5>3. Cardinality(Getting(x)') + Cardinality(Storing(x)') <= Cardinality(Workers)
              /\ Cardinality(Getting(x)') \in Nat /\ Cardinality(Storing(x)') \in Nat
          BY <5>2, Groups
        <5> QED
          BY <2>1, <4>3, <5>1, <5>3, GroupsOf
      <4> QED
        BY <4>4, <4>5
    <3> QED
      BY <3>2 DEF LoadsInv
  <2> QED
    BY <2>2, <2>3
<1>5. ASSUME NEW w \in Workers, GetRobots(w)
      PROVE  LoadsInv'
  <2>1. /\ pc[w] = "get" /\ UNCHANGED <<loaded, url>> /\ pc' = [pc EXCEPT ![w] = "store"]
        /\ loads' = [loads EXCEPT ![o(w)] = @ + 1]
    BY <1>5 DEF GetRobots, Go
  <2>2. ASSUME NEW x \in Origins
        PROVE  /\ loads'[x] + Cardinality(Getting(x)') <= Cardinality(Workers)
               /\ x \notin loaded' => loads'[x] = Cardinality(Storing(x)')
    <3>1. \A v \in Workers \ {w} : /\ v \in Getting(x)' <=> v \in Getting(x)
                                   /\ v \in Storing(x)' <=> v \in Storing(x)
      BY <2>1, OthersStay
    <3>2. w \notin Storing(x) /\ w \notin Getting(x)'
      BY <2>1 DEF TypeOK, Getting, Storing
    <3>3. CASE x # o(w)
      <4>1. w \notin Getting(x) /\ w \notin Storing(x)' /\ loads'[x] = loads[x]
        BY <2>1, <3>3 DEF Getting, Storing, o, TypeOK
      <4>2. Getting(x)' = Getting(x) /\ Storing(x)' = Storing(x)
        BY <3>1, <3>2, <4>1 DEF Getting, Storing
      <4> QED
        BY <2>1, <4>1, <4>2 DEF LoadsInv
    <3>4. CASE x = o(w)
      <4>1. w \in Getting(x) /\ w \in Storing(x)' /\ loads'[x] = loads[x] + 1 /\ loads[x] \in Nat
        BY <2>1, <3>4 DEF Getting, Storing, o, TypeOK
      <4>2. Getting(x)' = Getting(x) \ {w} /\ Storing(x)' = Storing(x) \cup {w}
        BY <3>1, <3>2, <4>1 DEF Getting, Storing
      <4>3. IsFiniteSet(Getting(x)) /\ IsFiniteSet(Storing(x))
        BY GroupsOf
      <4>4. PICK S, T : S = Getting(x) /\ T = Storing(x)
        OBVIOUS
      <4>5. /\ Cardinality(S \ {w}) = Cardinality(S) - 1
            /\ Cardinality(T \cup {w}) = Cardinality(T) + 1
        <5> HIDE <4>4
        <5>1. IsFiniteSet(S) /\ IsFiniteSet(T) /\ w \in S /\ w \notin T
          BY <3>2, <4>1, <4>3, <4>4
        <5> QED
          BY <5>1, OneMoves
      <4>6. /\ Cardinality(Getting(x)') = Cardinality(Getting(x)) - 1
            /\ Cardinality(Storing(x)') = Cardinality(Storing(x)) + 1
        BY <4>2, <4>4, <4>5
      <4> QED
        BY <2>1, <4>1, <4>6, GroupsOf DEF LoadsInv
    <3> QED
      BY <3>3, <3>4
  <2> QED
    BY <2>2 DEF LoadsInv
<1>6. ASSUME NEW w \in Workers, StoreRules(w)
      PROVE  LoadsInv'
  <2>1. /\ pc[w] = "store" /\ UNCHANGED <<loads, url>> /\ pc' = [pc EXCEPT ![w] = "allowed"]
        /\ loaded' = loaded \cup {o(w)}
    BY <1>6 DEF StoreRules, Marked, Go
  <2>2. ASSUME NEW x \in Origins
        PROVE  /\ loads'[x] + Cardinality(Getting(x)') <= Cardinality(Workers)
               /\ x \notin loaded' => loads'[x] = Cardinality(Storing(x)')
    <3>1. \A v \in Workers \ {w} : /\ v \in Getting(x)' <=> v \in Getting(x)
                                   /\ v \in Storing(x)' <=> v \in Storing(x)
      BY <2>1, OthersStay
    <3>2. w \notin Getting(x) /\ w \notin Getting(x)' /\ w \notin Storing(x)'
      BY <2>1 DEF TypeOK, Getting, Storing
    <3>3. Getting(x)' = Getting(x)
      BY <3>1, <3>2 DEF Getting
    <3>4. x \notin loaded' => Storing(x)' = Storing(x)
      <4>1. x \notin loaded' => w \notin Storing(x)
        BY <2>1 DEF Storing
      <4> QED
        BY <3>1, <3>2, <4>1 DEF Storing
    <3> QED
      BY <2>1, <3>3, <3>4 DEF LoadsInv
  <2> QED
    BY <2>2 DEF LoadsInv
<1>7. CASE Tick \/ UNCHANGED vars
  <2>1. UNCHANGED <<pc, url, loads, loaded>>
    BY <1>7 DEF Tick, vars, robots
  <2>2. \A x \in Origins : Getting(x)' = Getting(x) /\ Storing(x)' = Storing(x)
    BY <2>1 DEF Getting, Storing, o
  <2> QED
    BY <2>1, <2>2, SameGroups
<1> QED
  BY <1>1, <1>2, <1>3, <1>4, <1>5, <1>6, <1>7 DEF Next, Step

\* loadDomain fetches an origin's robots.txt at most once per worker, though it
\* tests the loaded flag and sets it in two critical sections.
THEOREM FewLoads == Spec => []LoadsBounded
<1>1. Init => LoadsInv
  <2>1. ASSUME Init
        PROVE  \A x \in Origins : Getting(x) = {} /\ Storing(x) = {} /\ loads[x] = 0
    BY <2>1 DEF Init, Getting, Storing
  <2>2. Cardinality({}) = 0 /\ Cardinality(Workers) \in Nat
    BY FS_EmptySet, FS_CardinalityType, PoliteFetchAssumption
  <2> QED
    BY <2>1, <2>2 DEF LoadsInv
<1>2. TypeOK /\ LoadsInv => LoadsBounded
  <2> SUFFICES ASSUME TypeOK, LoadsInv, NEW x \in Origins
               PROVE  loads[x] <= Cardinality(Workers)
    BY DEF LoadsBounded
  <2> QED
    BY GroupsOf DEF LoadsInv, TypeOK
<1> QED
  BY <1>1, <1>2, Typing, LoadsPreserved, PTL DEF Spec

----------------------------------------------------------------------------
(* robots.txt files of any length *)

Rule(Letters) == [allow : BOOLEAN, path : Seq(Letters) \ {<<>>}]
Reading(Letters) == [ours : BOOLEAN, group : Seq(Rule(Letters)), rules : Seq(Rule(Letters))]

\* What is kept of a file, whether or not it is in the open group still.
KeptBy(st) == ToSet(st.group) \cup ToSet(st.rules)

\* The nearest agent line above or at line k names us.
OursAt(file, k) ==
    \E a \in 1..k : /\ file[a].key = "user-agent" /\ NamesUs(file[a].value)
                    /\ \A j \in a+1..k : file[j].key # "user-agent"

RuleOf(line) == [allow |-> line.key = "allow", path |-> line.value]

\* Closing a group loses no rule.
LEMMA Flushed ==
    ASSUME NEW Letters, NEW st \in Reading(Letters), ~st.ours => st.group = <<>>
    PROVE  /\ FlushGroup(st) \in Reading(Letters)
           /\ ~FlushGroup(st).ours /\ FlushGroup(st).group = <<>>
           /\ ToSet(FlushGroup(st).rules) = KeptBy(st)
<1> DEFINE R == Rule(Letters)
<1>1. /\ st = [ours |-> st.ours, group |-> st.group, rules |-> st.rules]
      /\ st.ours \in BOOLEAN /\ st.group \in Seq(R) /\ st.rules \in Seq(R)
  BY DEF Reading
<1>2. ToSet(<<>>) = {} /\ <<>> \in Seq(R)
  BY EmptySeq DEF ToSet
<1>3. CASE st.ours
  <2>1. /\ st.rules \o st.group \in Seq(R)
        /\ ToSet(st.rules \o st.group) = ToSet(st.rules) \cup ToSet(st.group)
    BY <1>1, SetOfConcat
  <2>2. FlushGroup(st) = [ours |-> FALSE, group |-> <<>>, rules |-> st.rules \o st.group]
    BY <1>3 DEF FlushGroup
  <2> HIDE DEF R
  <2> QED
    BY <1>2, <2>1, <2>2 DEF Reading, KeptBy, R
<1>4. CASE ~st.ours
  <2>1. FlushGroup(st) = st /\ st.group = <<>>
    BY <1>4 DEF FlushGroup
  <2> QED
    BY <1>2, <1>4, <2>1 DEF KeptBy
<1> QED
  BY <1>3, <1>4

\* An agent line is decided by itself, any other line by the nearest above it.
LEMMA OursNext ==
    ASSUME NEW file, NEW k \in Nat \ {0}
    PROVE  OursAt(file, k) <=> IF file[k].key = "user-agent" THEN NamesUs(file[k].value)
                               ELSE OursAt(file, k - 1)
<1>1. CASE file[k].key = "user-agent"
  <2>1. ASSUME OursAt(file, k)
        PROVE  NamesUs(file[k].value)
    <3>1. PICK a \in 1..k : /\ file[a].key = "user-agent" /\ NamesUs(file[a].value)
                            /\ \A j \in a+1..k : file[j].key # "user-agent"
      BY <2>1 DEF OursAt
    <3>2. a = k \/ k \in a+1..k
      BY <3>1
    <3> QED
      BY <1>1, <3>1, <3>2
  <2>2. ASSUME NamesUs(file[k].value)
        PROVE  OursAt(file, k)
    <3>1. k \in 1..k /\ k+1..k = {}
      OBVIOUS
    <3> QED
      BY <1>1, <2>2, <3>1 DEF OursAt
  <2> QED
    BY <1>1, <2>1, <2>2
<1>2. CASE file[k].key # "user-agent"
  <2>1. ASSUME OursAt(file, k)
        PROVE  OursAt(file, k - 1)
    <3>1. PICK a \in 1..k : /\ file[a].key = "user-agent" /\ NamesUs(file[a].value)
                            /\ \A j \in a+1..k : file[j].key # "user-agent"
      BY <2>1 DEF OursAt
    <3>2. a # k
      BY <1>2, <3>1
    <3>3. a \in 1..k - 1 /\ \A j \in a+1..k - 1 : j \in a+1..k
      BY <3>2
    <3> QED
      BY <3>1, <3>3 DEF OursAt
  <2>2. ASSUME OursAt(file, k - 1)
        PROVE  OursAt(file, k)
    <3>1. PICK a \in 1..k - 1 : /\ file[a].key = "user-agent" /\ NamesUs(file[a].value)
                                /\ \A j \in a+1..k - 1 : file[j].key # "user-agent"
      BY <2>2 DEF OursAt
    <3>2. a \in 1..k /\ \A j \in a+1..k : j = k \/ j \in a+1..k - 1
      BY <3>1
    <3>3. \A j \in a+1..k : file[j].key # "user-agent"
      BY <1>2, <3>1, <3>2
    <3> QED
      BY <3>1, <3>2, <3>3 DEF OursAt
  <2> QED
    BY <1>2, <2>1, <2>2
<1> QED
  BY <1>1, <1>2

\* What has been read says which rules are in force so far.
ReadSoFar(st, file, k) ==
    /\ st.ours <=> OursAt(file, k)
    /\ ~st.ours => st.group = <<>>
    /\ KeptBy(st) = {RuleOf(file[i]) : i \in {j \in InForce(file) : j <= k}}

LEMMA InForceHere ==
    ASSUME NEW file, NEW k \in DOMAIN file, k \in Nat \ {0}
    PROVE  k \in InForce(file) <=> /\ file[k].key \in {"allow", "disallow"}
                                   /\ file[k].value # <<>> /\ OursAt(file, k)
BY DEF InForce, OursAt

\* Reading a line keeps the types.
LEMMA LineTyped ==
    ASSUME NEW Letters, NEW line \in Line(Letters), NEW st \in Reading(Letters)
    PROVE  ReadLine(st, line) \in Reading(Letters)
<1> DEFINE R == Rule(Letters)
<1>1. line.key \in STRING /\ line.value \in Seq(Letters)
  BY DEF Line
<1>2. /\ st = [ours |-> st.ours, group |-> st.group, rules |-> st.rules]
      /\ st.ours \in BOOLEAN /\ st.group \in Seq(R) /\ st.rules \in Seq(R)
  BY DEF Reading
<1>3. st.rules \o st.group \in Seq(R) /\ <<>> \in Seq(R)
  BY <1>2, ConcatProperties, EmptySeq
<1>4. FlushGroup(st) \in Reading(Letters)
  BY <1>2, <1>3 DEF FlushGroup, Reading, R
<1>5. CASE line.key = "user-agent"
  <2>1. NamesUs(line.value) \in BOOLEAN
    BY DEF NamesUs
  <2>2. ReadLine(st, line) = [FlushGroup(st) EXCEPT !.ours = NamesUs(line.value)]
    BY <1>5 DEF ReadLine
  <2> HIDE DEF R
  <2> QED
    BY <1>4, <2>1, <2>2 DEF Reading
<1>6. CASE line.key \in {"allow", "disallow"} /\ st.ours /\ line.value # <<>>
  <2>1. RuleOf(line) \in R
    BY <1>1, <1>6 DEF RuleOf, Rule, R
  <2>2. ReadLine(st, line) = [st EXCEPT !.group = Append(@, RuleOf(line))]
    BY <1>6 DEF ReadLine, RuleOf
  <2> HIDE DEF R
  <2>3. Append(st.group, RuleOf(line)) \in Seq(R)
    BY <1>2, <2>1, AppendProperties
  <2> QED
    BY <1>2, <2>2, <2>3 DEF Reading, R
<1>7. CASE /\ line.key # "user-agent"
           /\ ~(line.key \in {"allow", "disallow"} /\ st.ours /\ line.value # <<>>)
  BY <1>7 DEF ReadLine
<1> QED
  BY <1>5, <1>6, <1>7

\* Reading a line keeps just the rules that are in force.
LEMMA LineRead ==
    ASSUME NEW Letters, NEW file \in Seq(Line(Letters)), NEW k \in 1..Len(file),
           NEW st \in Reading(Letters), ReadSoFar(st, file, k - 1)
    PROVE  /\ ReadLine(st, file[k]) \in Reading(Letters)
           /\ ReadSoFar(ReadLine(st, file[k]), file, k)
<1> DEFINE R == Rule(Letters)
           line == file[k]
           next == ReadLine(st, line)
           Upto(m) == {RuleOf(file[i]) : i \in {j \in InForce(file) : j <= m}}
<1>1. /\ k \in Nat \ {0} /\ k - 1 \in Nat /\ k \in DOMAIN file
      /\ line \in Line(Letters) /\ InForce(file) \subseteq Nat
  BY LenProperties, ElementOfSeq DEF InForce
<1>2. line.key \in STRING /\ line.value \in Seq(Letters)
  BY <1>1 DEF Line
<1>3. /\ st = [ours |-> st.ours, group |-> st.group, rules |-> st.rules]
      /\ st.ours \in BOOLEAN /\ st.group \in Seq(R) /\ st.rules \in Seq(R)
  BY DEF Reading
<1>4. /\ st.ours <=> OursAt(file, k - 1)
      /\ ~st.ours => st.group = <<>>
      /\ KeptBy(st) = Upto(k - 1)
  BY DEF ReadSoFar
<1>5. Upto(k) = Upto(k - 1) \cup IF k \in InForce(file) THEN {RuleOf(line)} ELSE {}
  <2>1. \A i \in InForce(file) : i <= k <=> i <= k - 1 \/ i = k
    BY <1>1
  <2> QED
    BY <2>1
<1>6. OursAt(file, k) <=> IF line.key = "user-agent" THEN NamesUs(line.value) ELSE st.ours
  BY <1>1, <1>4, OursNext
<1>7. k \in InForce(file) <=> /\ line.key \in {"allow", "disallow"}
                              /\ line.value # <<>> /\ OursAt(file, k)
  BY <1>1, InForceHere
<1> HIDE DEF R, line, Upto
<1>8. CASE line.key = "user-agent"
  <2> DEFINE fl == FlushGroup(st)
  <2>1. /\ fl \in Reading(Letters) /\ fl.group = <<>>
        /\ ToSet(fl.rules) = KeptBy(st)
    BY <1>4, Flushed
  <2>2. next = [fl EXCEPT !.ours = NamesUs(line.value)]
    BY <1>8 DEF ReadLine
  <2>3. NamesUs(line.value) \in BOOLEAN
    BY DEF NamesUs
  <2> HIDE DEF fl, next
  <2>4. /\ fl = [ours |-> fl.ours, group |-> fl.group, rules |-> fl.rules]
        /\ fl.group \in Seq(R) /\ fl.rules \in Seq(R)
    BY <2>1 DEF Reading, R
  <2>5. /\ next \in Reading(Letters)
        /\ next.ours = NamesUs(line.value) /\ next.group = <<>> /\ next.rules = fl.rules
    BY <2>1, <2>2, <2>3, <2>4 DEF Reading, R
  <2>6. KeptBy(next) = KeptBy(st)
    <3>1. ToSet(<<>>) = {}
      BY DEF ToSet
    <3> QED
      BY <2>1, <2>5, <3>1 DEF KeptBy
  <2>7. k \notin InForce(file)
    BY <1>7, <1>8
  <2> QED
    BY <1>4, <1>5, <1>6, <1>8, <2>5, <2>6, <2>7 DEF ReadSoFar, Upto, next, line
<1>9. CASE line.key \in {"allow", "disallow"} /\ st.ours /\ line.value # <<>>
  <2>1. RuleOf(line) \in R
    BY <1>2, <1>9 DEF RuleOf, Rule, R
  <2>2. next = [st EXCEPT !.group = Append(@, RuleOf(line))]
    BY <1>9 DEF ReadLine, RuleOf
  <2>3. /\ Append(st.group, RuleOf(line)) \in Seq(R)
        /\ ToSet(Append(st.group, RuleOf(line))) = ToSet(st.group) \cup {RuleOf(line)}
    BY <1>3, <2>1, SetOfAppend
  <2> HIDE DEF next
  <2>4. /\ next \in Reading(Letters) /\ next.ours = st.ours
        /\ next.group = Append(st.group, RuleOf(line)) /\ next.rules = st.rules
    BY <1>3, <2>2, <2>3 DEF Reading, R
  <2>5. KeptBy(next) = KeptBy(st) \cup {RuleOf(line)}
    BY <2>3, <2>4 DEF KeptBy
  <2>6. k \in InForce(file) /\ line.key # "user-agent"
    BY <1>6, <1>7, <1>9
  <2> QED
    BY <1>4, <1>5, <1>6, <1>9, <2>4, <2>5, <2>6 DEF ReadSoFar, Upto, next, line
<1>10. CASE /\ line.key # "user-agent"
            /\ ~(line.key \in {"allow", "disallow"} /\ st.ours /\ line.value # <<>>)
  <2>1. next = st
    BY <1>10 DEF ReadLine
  <2>2. k \notin InForce(file)
    BY <1>6, <1>7, <1>10
  <2> QED
    BY <1>4, <1>5, <1>6, <1>10, <2>1, <2>2 DEF ReadSoFar, Upto, next, line
<1> QED
  BY <1>8, <1>9, <1>10

\* The loop over the lines of a file, one after the other.
LEMMA ReadLoop ==
    ASSUME NEW Letters, NEW file \in Seq(Line(Letters))
    PROVE  \E after \in [0..Len(file) -> Reading(Letters)] :
              /\ after[0] = NoRules
              /\ \A i \in 1..Len(file) : after[i] = ReadLine(after[i - 1], file[i])
              /\ ParseBody(file) = FlushGroup(after[Len(file)]).rules
<1> DEFINE T == Reading(Letters)
           n == Len(file)
           step == [x \in (1..n) \X T |-> ReadLine(x[2], file[x[1]])]
           Body(g) == [i \in 0..n |-> IF i = 0 THEN NoRules ELSE ReadLine(g[i - 1], file[i])]
           after == CHOOSE g : g = Body(g)
<1>1. n \in Nat /\ \A i \in 1..n : file[i] \in Line(Letters) /\ i - 1 \in 0..n
  BY LenProperties, ElementOfSeq
<1>2. NoRules \in T
  <2>1. <<>> \in Seq(Rule(Letters))
    BY EmptySeq
  <2> QED
    BY <2>1 DEF Reading, NoRules
<1>3. ASSUME NEW i \in 1..n, NEW st \in T
      PROVE  ReadLine(st, file[i]) \in T
  BY <1>1, LineTyped
<1> HIDE DEF T, n
<1>4. step \in [(1..n) \X T -> T]
  BY <1>3
<1>5. \A i \in 1..n, st \in T : step[<<i, st>>] = ReadLine(st, file[i])
  OBVIOUS
<1> HIDE DEF step
<1>6. PICK f \in [0..n -> T] : f[0] = NoRules /\ \A i \in 1..n : f[i] = step[<<i, f[i - 1]>>]
  <2>1. n \in Nat /\ step \in Steps(n, T)
    BY <1>1, <1>4 DEF Steps
  <2>2. \E f \in [0..n -> T] : Runs(f, NoRules, n, step)
    BY <1>2, <2>1, Iterates
  <2> QED
    BY <2>2 DEF Runs
<1>7. f = Body(f)
  <2>1. ASSUME NEW k \in 0..n
        PROVE  f[k] = IF k = 0 THEN NoRules ELSE ReadLine(f[k - 1], file[k])
    <3>1. CASE k = 0
      BY <1>6, <3>1
    <3>2. CASE k # 0
      <4>1. k \in 1..n /\ k - 1 \in 0..n
        BY <1>1, <3>2
      <4>2. f[k - 1] \in T
        BY <4>1
      <4>3. f[k] = ReadLine(f[k - 1], file[k])
        BY <1>5, <1>6, <4>1, <4>2
      <4> QED
        BY <3>2, <4>3
    <3> QED
      BY <3>1, <3>2
  <2> QED
    BY <2>1
<1>8. after = Body(after)
  <2>1. \E g : g = Body(g)
    BY <1>7
  <2> HIDE DEF Body
  <2> QED
    BY <2>1
<1>9. ParseBody(file) = FlushGroup(after[n]).rules
  BY DEF ParseBody, n
<1> HIDE DEF after
<1>10. /\ DOMAIN after = 0..n
       /\ \A k \in 0..n : after[k] = IF k = 0 THEN NoRules ELSE ReadLine(after[k - 1], file[k])
  BY <1>8
<1>11. after[0] = NoRules /\ \A i \in 1..n : after[i] = ReadLine(after[i - 1], file[i])
  <2>1. 0 \in 0..n /\ \A i \in 1..n : i \in 0..n /\ i # 0
    BY <1>1
  <2> QED
    BY <1>10, <2>1
<1>12. \A k \in 0..n : after[k] \in T
  <2> DEFINE S == {m \in Nat : m <= n => after[m] \in T}
  <2>1. 0 \in S
    BY <1>2, <1>11
  <2>2. ASSUME NEW m \in S
        PROVE  m + 1 \in S
    <3> SUFFICES ASSUME m + 1 <= n
                 PROVE  after[m + 1] \in T
      OBVIOUS
    <3>1. m + 1 \in 1..n /\ (m + 1) - 1 = m /\ after[m] \in T
      BY <1>1
    <3>2. after[m + 1] = ReadLine(after[m], file[m + 1])
      BY <1>11, <3>1
    <3> QED
      BY <1>3, <3>1, <3>2
  <2>3. S = Nat
    <3>1. S \in SUBSET Nat
      OBVIOUS
    <3> HIDE DEF S
    <3> QED
      BY <2>1, <2>2, <3>1, AllNumbers
  <2>4. \A k \in 0..n : k \in S /\ k <= n
    BY <1>1, <2>3
  <2> QED
    BY <2>4
<1>13. after \in [0..n -> T]
  <2>1. after = [k \in 0..n |-> after[k]]
    BY <1>8
  <2> QED
    BY <1>12, <2>1
<1> QED
  BY <1>9, <1>11, <1>13 DEF T, n

\* What parseBody keeps of a file are the rules in force in it.
LEMMA ParseKeeps ==
    ASSUME NEW Letters, NEW file \in Seq(Line(Letters))
    PROVE  /\ ParseBody(file) \in Seq(Rule(Letters))
           /\ ToSet(ParseBody(file)) = {RuleOf(file[i]) : i \in InForce(file)}
<1> DEFINE n == Len(file)
<1>1. n \in Nat /\ DOMAIN file = 1..n
  BY LenProperties
<1>2. PICK after \in [0..n -> Reading(Letters)] :
         /\ after[0] = NoRules
         /\ \A i \in 1..n : after[i] = ReadLine(after[i - 1], file[i])
         /\ ParseBody(file) = FlushGroup(after[n]).rules
  BY ReadLoop
<1>3. ReadSoFar(NoRules, file, 0)
  <2>1. KeptBy(NoRules) = {}
    BY DEF KeptBy, NoRules, ToSet
  <2>2. \A j \in InForce(file) : ~(j <= 0)
    BY <1>1 DEF InForce
  <2>3. ~OursAt(file, 0)
    BY DEF OursAt
  <2> QED
    BY <2>1, <2>2, <2>3 DEF ReadSoFar, NoRules
<1>4. ReadSoFar(after[n], file, n)
  <2> DEFINE S == {m \in Nat : m <= n => ReadSoFar(after[m], file, m)}
  <2>1. 0 \in S
    BY <1>2, <1>3
  <2>2. ASSUME NEW m \in S
        PROVE  m + 1 \in S
    <3> SUFFICES ASSUME m + 1 <= n
                 PROVE  ReadSoFar(after[m + 1], file, m + 1)
      OBVIOUS
    <3>1. m + 1 \in 1..n /\ (m + 1) - 1 = m /\ m \in 0..n /\ ReadSoFar(after[m], file, m)
      BY <1>1
    <3>2. after[m] \in Reading(Letters)
      BY <3>1
    <3>3. ReadSoFar(ReadLine(after[m], file[m + 1]), file, m + 1)
      BY <3>1, <3>2, LineRead
    <3>4. after[m + 1] = ReadLine(after[m], file[m + 1])
      BY <1>2, <3>1
    <3> QED
      BY <3>3, <3>4
  <2>3. S = Nat
    <3>1. S \in SUBSET Nat
      OBVIOUS
    <3> HIDE DEF S
    <3> QED
      BY <2>1, <2>2, <3>1, AllNumbers
  <2> QED
    BY <1>1, <2>3
<1>5. after[n] \in Reading(Letters)
  BY <1>1
<1>6. {j \in InForce(file) : j <= n} = InForce(file)
  BY <1>1 DEF InForce
<1>7. FlushGroup(after[n]) \in Reading(Letters) /\ ToSet(FlushGroup(after[n]).rules) = KeptBy(after[n])
  BY <1>4, <1>5, Flushed DEF ReadSoFar
<1>8. FlushGroup(after[n]).rules \in Seq(Rule(Letters))
  BY <1>7 DEF Reading
<1> QED
  BY <1>2, <1>4, <1>6, <1>7, <1>8 DEF ReadSoFar

Weighed == [len : Nat, allow : BOOLEAN]
Matches(rule, path) == IsPrefix(rule.path, path)

\* What was weighed so far is the length of the longest matching rule, and
\* whether one of that length allows the path.
WeighedSoFar(best, kept, path, k) ==
    /\ \A i \in 1..k : Matches(kept[i], path) => Len(kept[i].path) <= best.len
    /\ \/ best.len = 0
       \/ \E i \in 1..k : Matches(kept[i], path) /\ Len(kept[i].path) = best.len
    /\ best.allow <=> \/ best.len = 0
                      \/ \E i \in 1..k : /\ Matches(kept[i], path) /\ kept[i].allow
                                         /\ Len(kept[i].path) = best.len

LEMMA RuleTypes ==
    ASSUME NEW Letters, NEW rule \in Rule(Letters)
    PROVE  rule.allow \in BOOLEAN /\ rule.path \in Seq(Letters) /\ Len(rule.path) \in Nat \ {0}
<1>1. rule.allow \in BOOLEAN /\ rule.path \in Seq(Letters) /\ rule.path # <<>>
  BY DEF Rule
<1> QED
  BY <1>1, LenProperties, EmptySeq

LEMMA RuleWeighed ==
    ASSUME NEW Letters, NEW kept \in Seq(Rule(Letters)), NEW path, NEW k \in 1..Len(kept),
           NEW best \in Weighed, WeighedSoFar(best, kept, path, k - 1)
    PROVE  WeighedSoFar(Weigh(best, kept[k], path), kept, path, k)
<1> DEFINE n == Len(kept)
           L(i) == Len(kept[i].path)
           M(i) == Matches(kept[i], path)
           next == Weigh(best, kept[k], path)
<1>1. k \in Nat \ {0} /\ \A i \in 1..k : i \in 1..n /\ (i = k \/ i \in 1..k - 1)
  BY LenProperties
<1>2. \A i \in 1..n : kept[i].allow \in BOOLEAN /\ L(i) \in Nat \ {0}
  BY ElementOfSeq, RuleTypes
<1>3. /\ best.len \in Nat /\ best.allow \in BOOLEAN
      /\ k \in 1..n /\ k \in 1..k /\ \A i \in 1..k - 1 : i \in 1..k
  BY <1>1 DEF Weighed
<1>4. /\ \A i \in 1..k - 1 : M(i) => L(i) <= best.len
      /\ best.len = 0 \/ \E i \in 1..k - 1 : M(i) /\ L(i) = best.len
      /\ best.allow <=> best.len = 0 \/ \E i \in 1..k - 1 : M(i) /\ kept[i].allow /\ L(i) = best.len
  BY DEF WeighedSoFar
<1> SUFFICES /\ \A i \in 1..k : M(i) => L(i) <= next.len
             /\ next.len = 0 \/ \E i \in 1..k : M(i) /\ L(i) = next.len
             /\ next.allow <=> next.len = 0 \/ \E i \in 1..k : M(i) /\ kept[i].allow /\ L(i) = next.len
  BY DEF WeighedSoFar
<1>5. CASE L(k) < best.len \/ ~M(k)
  <2>1. next = best
    BY <1>5 DEF Weigh, Matches
  <2>2. M(k) => L(k) < best.len
    BY <1>5
  <2> HIDE DEF next
  <2>3. \A i \in 1..k : M(i) => L(i) <= best.len
    BY <1>1, <1>2, <1>3, <1>4, <2>2
  <2>4. \A i \in 1..k : M(i) /\ L(i) = best.len => i \in 1..k - 1
    BY <1>1, <1>2, <1>3, <2>2
  <2> HIDE DEF L, M
  <2> QED
    BY <1>3, <1>4, <2>1, <2>3, <2>4
<1>6. CASE ~(L(k) < best.len) /\ M(k)
  <2>1. next = [len |-> L(k), allow |-> kept[k].allow \/ (L(k) = best.len /\ best.allow)]
    BY <1>6 DEF Weigh, Matches
  <2>2. next.len = L(k) /\ next.allow = (kept[k].allow \/ (L(k) = best.len /\ best.allow))
    BY <2>1
  <2> HIDE DEF next, L, M
  <2>3. L(k) \in Nat \ {0} /\ L(k) >= best.len
    BY <1>2, <1>3, <1>6
  <2>4. \A i \in 1..k : M(i) => L(i) <= L(k)
    BY <1>1, <1>2, <1>3, <1>4, <2>3
  <2>5. CASE L(k) = best.len
    <3>1. (\E i \in 1..k : M(i) /\ kept[i].allow /\ L(i) = L(k))
             <=> kept[k].allow \/ \E i \in 1..k - 1 : M(i) /\ kept[i].allow /\ L(i) = L(k)
      BY <1>1, <1>3, <1>6
    <3> QED
      BY <1>3, <1>4, <1>6, <2>2, <2>3, <2>4, <2>5, <3>1
  <2>6. CASE L(k) # best.len
    <3>1. \A i \in 1..k : M(i) /\ L(i) = L(k) => i = k
      BY <1>1, <1>2, <1>3, <1>4, <2>3, <2>6
    <3>2. (\E i \in 1..k : M(i) /\ kept[i].allow /\ L(i) = L(k)) <=> kept[k].allow
      BY <1>3, <1>6, <3>1
    <3> QED
      BY <1>3, <1>6, <2>2, <2>3, <2>4, <2>6, <3>2
  <2> QED
    BY <2>5, <2>6
<1> QED
  BY <1>5, <1>6

LEMMA WeighTyped ==
    ASSUME NEW Letters, NEW rule \in Rule(Letters), NEW path, NEW best \in Weighed
    PROVE  Weigh(best, rule, path) \in Weighed
BY RuleTypes DEF Weigh, Weighed

\* The loop over the rules that were kept, one after the other.
LEMMA WeighLoop ==
    ASSUME NEW Letters, NEW kept \in Seq(Rule(Letters)), NEW path
    PROVE  \E best \in [0..Len(kept) -> Weighed] :
              /\ best[0] = [len |-> 0, allow |-> TRUE]
              /\ \A i \in 1..Len(kept) : best[i] = Weigh(best[i - 1], kept[i], path)
              /\ AllowedBy(kept, path) = best[Len(kept)].allow
<1> DEFINE n == Len(kept)
           first == [len |-> 0, allow |-> TRUE]
           step == [x \in (1..n) \X Weighed |-> Weigh(x[2], kept[x[1]], path)]
           Body(g) == [i \in 0..n |-> IF i = 0 THEN [len |-> 0, allow |-> TRUE]
                                      ELSE Weigh(g[i - 1], kept[i], path)]
           best == CHOOSE g : g = Body(g)
<1>1. n \in Nat /\ \A i \in 1..n : kept[i] \in Rule(Letters) /\ i - 1 \in 0..n
  BY LenProperties, ElementOfSeq
<1>2. first \in Weighed
  BY DEF Weighed
<1>3. ASSUME NEW i \in 1..n, NEW b \in Weighed
      PROVE  Weigh(b, kept[i], path) \in Weighed
  BY <1>1, WeighTyped
<1> HIDE DEF n
<1>4. step \in [(1..n) \X Weighed -> Weighed]
  BY <1>3
<1>5. \A i \in 1..n, b \in Weighed : step[<<i, b>>] = Weigh(b, kept[i], path)
  OBVIOUS
<1> HIDE DEF step
<1>6. PICK f \in [0..n -> Weighed] : f[0] = first /\ \A i \in 1..n : f[i] = step[<<i, f[i - 1]>>]
  <2> HIDE DEF first
  <2>1. n \in Nat /\ step \in Steps(n, Weighed)
    BY <1>1, <1>4 DEF Steps
  <2>2. \E f \in [0..n -> Weighed] : Runs(f, first, n, step)
    BY <1>2, <2>1, Iterates
  <2> QED
    BY <2>2 DEF Runs
<1>7. f = Body(f)
  <2>1. ASSUME NEW k \in 0..n
        PROVE  f[k] = IF k = 0 THEN [len |-> 0, allow |-> TRUE] ELSE Weigh(f[k - 1], kept[k], path)
    <3>1. CASE k = 0
      BY <1>6, <3>1
    <3>2. CASE k # 0
      <4>1. k \in 1..n /\ k - 1 \in 0..n
        BY <1>1, <3>2
      <4>2. f[k - 1] \in Weighed
        BY <4>1
      <4>3. f[k] = Weigh(f[k - 1], kept[k], path)
        BY <1>5, <1>6, <4>1, <4>2
      <4> QED
        BY <3>2, <4>3
    <3> QED
      BY <3>1, <3>2
  <2> QED
    BY <2>1
<1>8. best = Body(best)
  <2>1. \E g : g = Body(g)
    BY <1>7
  <2> HIDE DEF Body
  <2> QED
    BY <2>1
<1>9. AllowedBy(kept, path) = best[n].allow
  BY DEF AllowedBy, n
<1> HIDE DEF best
<1>10. /\ DOMAIN best = 0..n
       /\ \A k \in 0..n : best[k] = IF k = 0 THEN first ELSE Weigh(best[k - 1], kept[k], path)
  BY <1>8
<1> HIDE DEF first
<1>11. best[0] = first /\ \A i \in 1..n : best[i] = Weigh(best[i - 1], kept[i], path)
  <2>1. 0 \in 0..n /\ \A i \in 1..n : i \in 0..n /\ i # 0
    BY <1>1
  <2> QED
    BY <1>10, <2>1
<1>12. \A k \in 0..n : best[k] \in Weighed
  <2> DEFINE S == {m \in Nat : m <= n => best[m] \in Weighed}
  <2>1. 0 \in S
    BY <1>2, <1>11
  <2>2. ASSUME NEW m \in S
        PROVE  m + 1 \in S
    <3> SUFFICES ASSUME m + 1 <= n
                 PROVE  best[m + 1] \in Weighed
      OBVIOUS
    <3>1. m + 1 \in 1..n /\ (m + 1) - 1 = m /\ best[m] \in Weighed
      BY <1>1
    <3>2. best[m + 1] = Weigh(best[m], kept[m + 1], path)
      BY <1>11, <3>1
    <3> QED
      BY <1>3, <3>1, <3>2
  <2>3. S = Nat
    <3>1. S \in SUBSET Nat
      OBVIOUS
    <3> HIDE DEF S
    <3> QED
      BY <2>1, <2>2, <3>1, AllNumbers
  <2>4. \A k \in 0..n : k \in S /\ k <= n
    BY <1>1, <2>3
  <2> QED
    BY <2>4
<1>13. best \in [0..n -> Weighed]
  <2>1. best = [k \in 0..n |-> best[k]]
    BY <1>8
  <2> QED
    BY <1>12, <2>1
<1> QED
  BY <1>9, <1>11, <1>13 DEF n, first

\* allowed: a rule that forbids the path gives way to one as long that allows it.
LEMMA RulesDecide ==
    ASSUME NEW Letters, NEW kept \in Seq(Rule(Letters)), NEW path
    PROVE  AllowedBy(kept, path) <=>
              \A r \in ToSet(kept) : Matches(r, path) /\ ~r.allow =>
                 \E s \in ToSet(kept) : Matches(s, path) /\ s.allow /\ Len(s.path) >= Len(r.path)
<1> DEFINE n == Len(kept)
           L(i) == Len(kept[i].path)
           M(i) == Matches(kept[i], path)
<1>1. n \in Nat /\ ToSet(kept) = {kept[i] : i \in 1..n}
  BY LenProperties DEF ToSet
<1>2. PICK best \in [0..n -> Weighed] :
         /\ best[0] = [len |-> 0, allow |-> TRUE]
         /\ \A i \in 1..n : best[i] = Weigh(best[i - 1], kept[i], path)
         /\ AllowedBy(kept, path) = best[n].allow
  BY WeighLoop
<1>3. WeighedSoFar(best[n], kept, path, n)
  <2> DEFINE S == {m \in Nat : m <= n => WeighedSoFar(best[m], kept, path, m)}
  <2>1. 0 \in S
    BY <1>2 DEF WeighedSoFar
  <2>2. ASSUME NEW m \in S
        PROVE  m + 1 \in S
    <3> SUFFICES ASSUME m + 1 <= n
                 PROVE  WeighedSoFar(best[m + 1], kept, path, m + 1)
      OBVIOUS
    <3>1. /\ m + 1 \in 1..n /\ (m + 1) - 1 = m /\ m \in 0..n
          /\ WeighedSoFar(best[m], kept, path, m)
      BY <1>1
    <3>2. best[m] \in Weighed
      BY <3>1
    <3>3. WeighedSoFar(Weigh(best[m], kept[m + 1], path), kept, path, m + 1)
      BY <3>1, <3>2, RuleWeighed
    <3>4. best[m + 1] = Weigh(best[m], kept[m + 1], path)
      BY <1>2, <3>1
    <3> QED
      BY <3>3, <3>4
  <2>3. S = Nat
    <3>1. S \in SUBSET Nat
      OBVIOUS
    <3> HIDE DEF S
    <3> QED
      BY <2>1, <2>2, <3>1, AllNumbers
  <2> QED
    BY <1>1, <2>3
<1> DEFINE b == best[n]
<1>4. \A i \in 1..n : kept[i].allow \in BOOLEAN /\ L(i) \in Nat \ {0}
  BY ElementOfSeq, RuleTypes
<1>5. b.len \in Nat /\ b.allow \in BOOLEAN
  <2>1. b \in Weighed
    BY <1>1
  <2> QED
    BY <2>1 DEF Weighed
<1>6. /\ \A i \in 1..n : M(i) => L(i) <= b.len
      /\ b.len = 0 \/ \E i \in 1..n : M(i) /\ L(i) = b.len
      /\ b.allow <=> b.len = 0 \/ \E i \in 1..n : M(i) /\ kept[i].allow /\ L(i) = b.len
  BY <1>3 DEF WeighedSoFar
<1> SUFFICES b.allow <=> \A i \in 1..n : M(i) /\ ~kept[i].allow =>
                            \E j \in 1..n : M(j) /\ kept[j].allow /\ L(j) >= L(i)
  <2>1. (\A r \in ToSet(kept) : Matches(r, path) /\ ~r.allow =>
            \E s \in ToSet(kept) : Matches(s, path) /\ s.allow /\ Len(s.path) >= Len(r.path))
        <=> \A i \in 1..n : M(i) /\ ~kept[i].allow =>
               \E j \in 1..n : M(j) /\ kept[j].allow /\ L(j) >= L(i)
    BY <1>1
  <2> QED
    BY <1>2, <2>1
<1> HIDE DEF b, L, M, n
<1>7. ASSUME b.allow, NEW i \in 1..n, M(i), ~kept[i].allow
      PROVE  \E j \in 1..n : M(j) /\ kept[j].allow /\ L(j) >= L(i)
  <2>1. L(i) <= b.len /\ L(i) \in Nat \ {0}
    BY <1>4, <1>6, <1>7
  <2>2. PICK j \in 1..n : M(j) /\ kept[j].allow /\ L(j) = b.len
    BY <1>5, <1>6, <1>7, <2>1
  <2> QED
    BY <1>5, <2>1, <2>2
<1>8. ASSUME ~b.allow
      PROVE  \E i \in 1..n : /\ M(i) /\ ~kept[i].allow
                             /\ \A j \in 1..n : M(j) /\ kept[j].allow => ~(L(j) >= L(i))
  <2>1. PICK i \in 1..n : M(i) /\ L(i) = b.len
    BY <1>6, <1>8
  <2>2. ~kept[i].allow
    BY <1>6, <1>8, <2>1
  <2>3. ASSUME NEW j \in 1..n, M(j), kept[j].allow
        PROVE  ~(L(j) >= L(i))
    <3>1. L(j) <= b.len /\ L(j) # b.len /\ L(j) \in Nat
      BY <1>4, <1>6, <1>8, <2>3
    <3> QED
      BY <1>5, <2>1, <3>1
  <2> QED
    BY <2>1, <2>2, <2>3
<1> QED
  BY <1>5, <1>7, <1>8

\* What parseBody keeps of a robots.txt file and allowed decides from it is what
\* the file as a whole says, whatever the length of the file.
THEOREM RulesReadRight ==
    ASSUME NEW Letters, NEW file \in Seq(Line(Letters)), NEW path \in Seq(Letters)
    PROVE  ReadRight(file, path)
<1> DEFINE kept == ParseBody(file)
           In == InForce(file)
<1>1. kept \in Seq(Rule(Letters)) /\ ToSet(kept) = {RuleOf(file[i]) : i \in In}
  BY ParseKeeps
<1> HIDE DEF kept
<1>2. AllowedBy(kept, path) <=>
         \A r \in ToSet(kept) : Matches(r, path) /\ ~r.allow =>
            \E s \in ToSet(kept) : Matches(s, path) /\ s.allow /\ Len(s.path) >= Len(r.path)
  BY <1>1, RulesDecide
<1>3. AllowedBy(kept, path) <=>
         \A i \in In : Matches(RuleOf(file[i]), path) /\ ~RuleOf(file[i]).allow =>
            \E j \in In : /\ Matches(RuleOf(file[j]), path) /\ RuleOf(file[j]).allow
                          /\ Len(RuleOf(file[j]).path) >= Len(RuleOf(file[i]).path)
  BY <1>1, <1>2
<1>4. \A i \in In : /\ Matches(RuleOf(file[i]), path) <=> IsPrefix(file[i].value, path)
                    /\ RuleOf(file[i]).allow <=> file[i].key = "allow"
                    /\ RuleOf(file[i]).path = file[i].value
                    /\ file[i].key = "allow" <=> file[i].key # "disallow"
  BY DEF Matches, RuleOf, InForce
<1>5. Permits(file, path) <=>
         \A i \in In : IsPrefix(file[i].value, path) /\ file[i].key = "disallow" =>
            \E j \in In : /\ IsPrefix(file[j].value, path) /\ file[j].key = "allow"
                          /\ Len(file[j].value) >= Len(file[i].value)
  BY DEF Permits
<1> HIDE DEF In
<1> QED
  BY <1>3, <1>4, <1>5 DEF kept, ReadRight

----------------------------------------------------------------------------
(* The cache over the files *)

\* What a worker has fetched and what is stored for an origin is its policy as a
\* whole or nothing: policies never mix, whichever workers fetched and stored them.
WholePolicies ==
    /\ \A w \in Workers : pc[w] = "store" => got[w] \in {{}, Policy[o(w)]}
    /\ \A x \in Origins : rules[x] \in {{}, Policy[x]}

LEMMA WholePreserved ==
    ASSUME TypeOK, WholePolicies, [Next]_vars
    PROVE  WholePolicies'
<1> DEFINE Fetched == \A w \in Workers : pc'[w] = "store" => got'[w] \in {{}, Policy[o(w)']}
           Stored == \A x \in Origins : rules'[x] \in {{}, Policy[x]}
<1>1. ASSUME NEW w \in Workers, UNCHANGED <<rules, got>>,
             \A v \in Workers : pc'[v] = "store" => pc[v] = "store" /\ url'[v] = url[v]
      PROVE  Fetched /\ Stored
  BY <1>1 DEF WholePolicies, o
<1>2. ASSUME NEW w \in Workers,
             \/ \E u \in Urls : Begin(w, u)
             \/ CheckRules(w) \/ LoadDomain(w) \/ CheckAllowed(w) \/ FetchPage(w)
             \/ ReadLastFetch(w) \/ TestDelay(w) \/ Stamp(w)
      PROVE  Fetched /\ Stored
  <2>1. UNCHANGED <<rules, got>>
    BY <1>2 DEF Begin, CheckRules, LoadDomain, CheckAllowed, FetchPage, ReadLastFetch, TestDelay,
                Stamp, robots
  <2>2. /\ pc[w] # "store" /\ pc'[w] # "store"
        /\ \A v \in Workers \ {w} : pc'[v] = pc[v] /\ url'[v] = url[v]
    BY <1>2 DEF TypeOK, Begin, CheckRules, LoadDomain, CheckAllowed, FetchPage, ReadLastFetch,
                TestDelay, Stamp, Return, Go
  <2> QED
    BY <1>1, <2>1, <2>2
<1>3. ASSUME NEW w \in Workers, GetRobots(w)
      PROVE  Fetched /\ Stored
  <2>1. /\ rules' = rules /\ url' = url /\ o(w)' = o(w)
        /\ got' = [got EXCEPT ![w] = Policy[o(w)]] \/ got' = [got EXCEPT ![w] = {}]
        /\ \A v \in Workers \ {w} : pc'[v] = pc[v]
    BY <1>3 DEF GetRobots, TypeOK, Go, o
  <2> QED
    BY <2>1 DEF WholePolicies, TypeOK, o
<1>4. ASSUME NEW w \in Workers, StoreRules(w)
      PROVE  Fetched /\ Stored
  <2>1. /\ rules' = [rules EXCEPT ![o(w)] = got[w]] /\ got' = [got EXCEPT ![w] = {}]
        /\ url' = url /\ pc[w] = "store" /\ \A v \in Workers \ {w} : pc'[v] = pc[v]
    BY <1>4 DEF StoreRules, TypeOK, Go
  <2>2. got[w] \in {{}, Policy[o(w)]}
    BY <2>1 DEF WholePolicies
  <2> QED
    BY <2>1, <2>2 DEF WholePolicies, TypeOK, o
<1>5. ASSUME Tick \/ UNCHANGED vars
      PROVE  Fetched /\ Stored
  <2>1. UNCHANGED <<rules, got, pc, url>>
    BY <1>5 DEF Tick, vars, robots
  <2> QED
    BY <2>1 DEF WholePolicies, o
<1>6. Fetched /\ Stored
  <2> HIDE DEF Fetched, Stored
  <2> QED
    BY <1>2, <1>3, <1>4, <1>5 DEF Next, Step
<1> QED
  BY <1>6 DEF WholePolicies

\* The rules a domain has stored refuse just the pages that its robots.txt, read as
\* a whole, does not permit, whatever the file and whichever workers fetched it.
THEOREM FilesFollowed == Spec => []RobotsFollowed
<1>1. Init => WholePolicies
  BY DEF Init, WholePolicies
<1>2. \A x \in Origins : Policy[x] = Refused(x)
  <2>1. ASSUME NEW x \in Origins, NEW u \in Urls
        PROVE  AllowedBy(ParseBody(FileOf[x]), PathOf[u]) <=> Permits(FileOf[x], PathOf[u])
    <3>1. FileOf[x] \in Seq(Line(Alphabet)) /\ PathOf[u] \in Seq(Alphabet)
      BY RobotsFilesAssumption
    <3> QED
      BY <3>1, RulesReadRight DEF ReadRight
  <2>2. \A x \in Origins : Policy[x] = {u \in Urls : ~Permits(FileOf[x], PathOf[u])}
    BY RobotsFilesAssumption
  <2> QED
    BY <2>1, <2>2 DEF Refused
<1>3. FilesReadRight
  BY RulesReadRight, RobotsFilesAssumption DEF FilesReadRight
<1>4. WholePolicies => RobotsFollowed
  BY <1>2, <1>3 DEF WholePolicies, RobotsFollowed
<1> QED
  BY <1>1, <1>4, Typing, WholePreserved, PTL DEF Spec
=============================================================================
