--------------------------- MODULE CrawlerProofs ---------------------------
(***************************************************************************)
(* Safety of the crawl frontier for every set of URLs, pool size, cap and  *)
(* depth: typing first, then the invariants that rest on it.               *)
(***************************************************************************)
EXTENDS Crawler, FiniteSetTheorems, SequenceTheorems, TLAPS

\* What a wakeup may do to the workers: nothing, or send one sleeper back to
\* the mutex (cv_.notify_one).
LEMMA NotifyOneEffect ==
    ASSUME NEW pcs, NEW qcs \in NotifyOne(pcs)
    PROVE  qcs = pcs \/ \E w \in Workers : /\ pcs[w] = "wait"
                                           /\ qcs = [pcs EXCEPT ![w] = "lock"]
BY DEF NotifyOne

\* The invariant that every step preserves.
Finite == IsFiniteSet(queue) /\ IsFiniteSet(seenUrls)
Inv == /\ TypeOK /\ Finite /\ CountersExact /\ ExactlyOnce /\ NoLostWakeup
       /\ Lifecycle /\ Fresh /\ Indexed /\ Settled
       /\ DepthProvenance /\ ReportsAgree /\ JoinedMeansDrained

PcStates == {"absent", "lock", "wait", "exited"} \cup BusyStates

\* An accepting enqueue leaves busy workers alone, starts the pool if need be
\* and leaves some worker awake.
LEMMA AcceptWakes ==
    ASSUME TypeOK, Lifecycle, ~stop, NEW u, NEW d, NEW p, Accept(u, d, p)
    PROVE  /\ pc' \in [Workers -> PcStates]
           /\ \A w \in Workers : \/ pc'[w] = pc[w]
                                 \/ pc[w] \in {"absent", "wait"} /\ pc'[w] = "lock"
           /\ \A w \in Workers : pc'[w] \notin {"absent", "exited"}
           /\ \E w \in Workers : pc'[w] \in {"lock"} \cup BusyStates
           /\ Busy' = Busy
<1> DEFINE q == Started(pc)
<1>1. /\ q \in [Workers -> PcStates]
      /\ \A w \in Workers : q[w] = pc[w] \/ (pc[w] = "absent" /\ q[w] = "lock")
      /\ \A w \in Workers : q[w] \notin {"absent", "exited"}
  BY DEF TypeOK, Lifecycle, Started, PcStates
<1>2. pc' \in NotifyOne(q)
  BY DEF Accept
<1>3. pc' = q \/ \E w \in Workers : q[w] = "wait" /\ pc' = [q EXCEPT ![w] = "lock"]
  BY <1>2, NotifyOneEffect
<1>4. pc' = q => \A w \in Workers : q[w] # "wait"
  <2> SUFFICES ASSUME pc' = q, NEW w \in Workers, q[w] = "wait" PROVE FALSE
    OBVIOUS
  <2>1. PICK v \in Workers : q[v] = "wait" /\ pc' = [q EXCEPT ![v] = "lock"]
    BY <1>2 DEF NotifyOne
  <2>2. QED
    BY <1>1, <2>1
<1> HIDE DEF q
<1>5. /\ pc' \in [Workers -> PcStates]
      /\ \A w \in Workers : \/ pc'[w] = pc[w]
                            \/ pc[w] \in {"absent", "wait"} /\ pc'[w] = "lock"
      /\ \A w \in Workers : pc'[w] \notin {"absent", "exited"}
  BY <1>1, <1>3 DEF PcStates
<1>6. PICK v \in Workers : TRUE
  BY CrawlerAssumption
<1>7. \E w \in Workers : pc'[w] \in {"lock"} \cup BusyStates
  BY <1>1, <1>3, <1>4, <1>6 DEF PcStates
<1>8. Busy' = Busy
  BY <1>5 DEF Busy, BusyStates
<1>9. QED
  BY <1>5, <1>7, <1>8

\* What enqueue is called with when it accepts: a URL nobody saw before.
LEMMA AcceptedIsNew ==
    ASSUME NEW u, Accepts(u)
    PROVE  u \notin seenUrls /\ ~stop /\ crawled + pending < MaxPages
BY DEF Accepts

\* The number of busy workers, and what one worker more or less does to it.
LEMMA BusyCount ==
    /\ IsFiniteSet(Busy) /\ Cardinality(Busy) \in Nat
    /\ \A w \in Busy : Cardinality(Busy) > 0
<1>1. IsFiniteSet(Busy)
  BY CrawlerAssumption, FS_Subset DEF Busy
<1>2. QED
  BY <1>1, FS_CardinalityType, FS_EmptySet

\* An accepting enqueue keeps the frontier well typed.
LEMMA AcceptTypes ==
    ASSUME TypeOK, Lifecycle, ~stop,
           NEW u \in URLs, NEW d \in Nat, NEW p \in Int, Accept(u, d, p)
    PROVE  /\ queue' \subseteq Item
           /\ seenUrls' \subseteq URLs
           /\ bloom' \subseteq UNION {BloomBits[v] : v \in URLs}
           /\ pending' \in Nat /\ crawled' \in Nat /\ seq' \in Nat
           /\ running' \in BOOLEAN
<1>1. queue' \subseteq Item
  BY DEF TypeOK, Accept, Item
<1>2. bloom' \subseteq UNION {BloomBits[v] : v \in URLs}
  BY DEF TypeOK, Accept
<1>3. /\ seenUrls' \subseteq URLs
      /\ pending' \in Nat /\ crawled' \in Nat /\ seq' \in Nat
      /\ running' \in BOOLEAN
  BY DEF TypeOK, Accept
<1>4. QED
  BY <1>1, <1>2, <1>3

\* No step of the crawler leaves the type invariant.
LEMMA TypingStep == Inv /\ [Next]_vars => TypeOK'
<1> SUFFICES ASSUME Inv, [Next]_vars PROVE TypeOK'
  OBVIOUS
<1> USE DEF Inv
<1> USE CrawlerAssumption
<1>1. CASE UNCHANGED vars
  BY <1>1 DEF TypeOK, vars, frontier, local, outcome, Busy
<1>2. ASSUME NEW u \in Seeds, NEW p \in Priorities, Submit(u, p)
      PROVE  TypeOK'
  <2>1. u \in URLs /\ 0 \in Nat /\ p \in Int
    OBVIOUS
  <2>2. Accept(u, 0, p)
    BY <1>2 DEF Submit
  <2>3. QED
    BY <1>2, <2>1, <2>2, AcceptTypes, AcceptWakes, AcceptedIsNew
       DEF TypeOK, Submit, local, outcome, Busy, PcStates
<1>3. CASE SetCallbacks
  BY <1>3, SMTT(30) DEF TypeOK, SetCallbacks, frontier, local, outcome, Busy
<1>4. ASSUME NEW w \in Workers, WorkerStep(w) \/ SpuriousWakeup(w)
      PROVE  TypeOK'
  <2>1. CASE Sleep(w) \/ SpuriousWakeup(w) \/ Exit(w)
    BY <2>1 DEF TypeOK, Sleep, SpuriousWakeup, Exit, frontier, local, outcome,
                Busy, BusyStates
  <2>2. CASE Take(w)
    BY <2>2 DEF TypeOK, Take, outcome, Busy, BusyStates
  <2>3. CASE Finish(w)
    <3>1. w \in Busy
      BY <2>3 DEF Finish, Busy, BusyStates
    <3>2. pending \in Nat /\ pending > 0
      BY <3>1, BusyCount, FS_CardinalityType DEF TypeOK, CountersExact, Finite
    <3>3. QED
      BY <2>3, <3>2 DEF TypeOK, Finish, Forget, outcome, Busy, BusyStates, Outcome
  <2>4. CASE Blocked(w)
    BY <2>4 DEF TypeOK, Blocked, frontier, outcome, Busy, BusyStates, Outcome
  <2>5. CASE FetchFailed(w)
    <3>1. item[w] \in Item
      BY <2>5 DEF TypeOK, FetchFailed, Busy, BusyStates
    <3>2. fetched' \in [URLs -> Nat]
      BY <2>5, <3>1 DEF TypeOK, FetchFailed, Item
    <3>3. QED
      BY <2>5, <3>2 DEF TypeOK, FetchFailed, frontier, Busy, BusyStates, Outcome
  <2>6. CASE IndexPage(w)
    <3>1. item[w] \in Item
      BY <2>6 DEF TypeOK, IndexPage, Busy, BusyStates
    <3>2. item[w].url \in URLs /\ item[w].depth \in Nat
      BY <3>1 DEF Item
    <3>3. docs' \subseteq [url : URLs, depth : Nat]
      BY <2>6, <3>2 DEF TypeOK, IndexPage
    <3>4. fetched' \in [URLs -> Nat]
      BY <2>6, <3>2 DEF TypeOK, IndexPage
    <3>5. QED
      BY <2>6, <3>3, <3>4 DEF TypeOK, IndexPage, frontier, Busy, BusyStates, Outcome
  <2>7. CASE CopyCallback(w)
    BY <2>7 DEF TypeOK, CopyCallback, frontier, outcome, Busy, BusyStates
  <2>8. CASE InvokeCallback(w)
    <3>1. item[w] \in Item /\ item[w].url \in URLs
      BY <2>8 DEF TypeOK, InvokeCallback, Busy, BusyStates, Item
    <3>2. LinksToFollow(w) \in Seq(URLs)
      BY <3>1 DEF LinksToFollow
    <3>3. reported' \subseteq [url : URLs, kind : Outcome, by : 1..MaxCallbacks]
      BY <2>8, <3>1 DEF TypeOK, InvokeCallback
    <3>4. QED
      BY <2>8, <3>2, <3>3 DEF TypeOK, InvokeCallback, frontier, Busy, BusyStates
  <2>9. CASE FollowLink(w)
    <3>1. item[w] \in Item /\ item[w].depth \in Nat /\ links[w] \in Seq(URLs)
      BY <2>9 DEF TypeOK, FollowLink, Busy, BusyStates, Item
    <3>2. Head(links[w]) \in URLs /\ Tail(links[w]) \in Seq(URLs)
      BY <2>9, <3>1 DEF FollowLink
    <3>3. Accept(Head(links[w]), item[w].depth + 1, item[w].depth + 1)
      BY <2>9 DEF FollowLink
    <3>4. item[w].depth + 1 \in Nat /\ item[w].depth + 1 \in Int
      BY <3>1
    <3>5. QED
      BY <2>9, <3>2, <3>3, <3>4, AcceptTypes, AcceptWakes, AcceptedIsNew
         DEF TypeOK, FollowLink, outcome, Busy, PcStates
  <2>10. CASE BreakScan(w)
    BY <2>10, SMTT(30) DEF TypeOK, BreakScan, frontier, outcome, Busy
  <2>11. QED
    BY <1>4, <2>1, <2>2, <2>3, <2>4, <2>5, <2>6, <2>7, <2>8, <2>9, <2>10
       DEF WorkerStep
<1>5. ASSUME NEW s \in Stoppers, StopFlag(s) \/ StopStep(s)
      PROVE  TypeOK'
  <2>1. CASE StopFlag(s)
    BY <2>1 DEF TypeOK, StopFlag, frontier, local, outcome, Busy
  <2>2. CASE StopNotify(s)
    BY <2>2 DEF TypeOK, StopNotify, frontier, local, outcome, Busy, BusyStates
  <2>3. CASE StopJoin(s)
    BY <2>3 DEF TypeOK, StopJoin, local, outcome, Busy
  <2>4. QED
    BY <1>5, <2>1, <2>2, <2>3 DEF StopStep
<1>6. QED
  BY <1>1, <1>2, <1>3, <1>4, <1>5 DEF Next
\* The counters follow an accepted URL.
LEMMA AcceptCounts ==
    ASSUME Inv, NEW u \in URLs, NEW d \in Nat, NEW p \in Int,
           Accepts(u), Accept(u, d, p)
    PROVE  (Finite /\ CountersExact)'
<1> DEFINE i == [url |-> u, depth |-> d, priority |-> IF p < 0 THEN d ELSE p,
                 seq |-> seq]
<1>1. u \notin seenUrls /\ ~stop /\ crawled + pending < MaxPages
  BY AcceptedIsNew
<1>2. Busy' = Busy
  BY <1>1, AcceptWakes DEF Inv
<1>3. queue' = queue \cup {i} /\ seenUrls' = seenUrls \cup {u}
  BY DEF Accept
<1>4. i \notin queue
  BY <1>1 DEF Inv, ExactlyOnce, InFlightUrls, InFlight
<1>5. /\ IsFiniteSet(queue') /\ Cardinality(queue') = Cardinality(queue) + 1
      /\ IsFiniteSet(seenUrls') /\ Cardinality(seenUrls') = Cardinality(seenUrls) + 1
  BY <1>1, <1>3, <1>4, FS_AddElement DEF Inv, Finite
<1>6. /\ Cardinality(queue) \in Nat /\ Cardinality(seenUrls) \in Nat
      /\ Cardinality(Busy) \in Nat
  BY BusyCount, FS_CardinalityType DEF Inv, Finite
<1>7. pending' = pending + 1 /\ crawled' = crawled
  BY DEF Accept
<1>8. /\ pending = Cardinality(queue) + Cardinality(Busy)
      /\ crawled + pending = Cardinality(seenUrls)
      /\ pending \in Nat /\ crawled \in Nat /\ MaxPages \in Nat
  BY CrawlerAssumption DEF Inv, TypeOK, CountersExact
<1> HIDE DEF i
<1>9. CountersExact'
  BY <1>1, <1>2, <1>5, <1>6, <1>7, <1>8 DEF CountersExact
<1>10. QED
  BY <1>5, <1>9 DEF Finite

\* No step makes the counters disagree with the queue, the busy workers and
\* the accepted URLs.
LEMMA CountersStep == Inv /\ [Next]_vars => (Finite /\ CountersExact)'
<1> SUFFICES ASSUME Inv, [Next]_vars PROVE (Finite /\ CountersExact)'
  OBVIOUS
<1> USE CrawlerAssumption DEF Inv
<1>0. /\ Cardinality(queue) \in Nat /\ Cardinality(seenUrls) \in Nat
      /\ Cardinality(Busy) \in Nat
  BY BusyCount, FS_CardinalityType DEF Finite
<1>1. ASSUME UNCHANGED <<queue, seenUrls, pending, crawled>>, Busy' = Busy
      PROVE  (Finite /\ CountersExact)'
  BY <1>1 DEF Finite, CountersExact
<1>2. CASE UNCHANGED vars
  BY <1>1, <1>2 DEF vars, frontier, Busy
<1>3. ASSUME NEW u \in Seeds, NEW p \in Priorities, Submit(u, p)
      PROVE  (Finite /\ CountersExact)'
  <2>1. u \in URLs /\ 0 \in Nat /\ p \in Int
    OBVIOUS
  <2>2. QED
    BY <1>3, <2>1, AcceptCounts DEF Submit
<1>4. CASE SetCallbacks
  BY <1>1, <1>4 DEF SetCallbacks, frontier, Busy
<1>5. ASSUME NEW w \in Workers, WorkerStep(w) \/ SpuriousWakeup(w)
      PROVE  (Finite /\ CountersExact)'
  <2>1. CASE \/ Sleep(w) \/ SpuriousWakeup(w) \/ Exit(w)
             \/ Blocked(w) \/ FetchFailed(w) \/ IndexPage(w)
             \/ CopyCallback(w) \/ InvokeCallback(w) \/ BreakScan(w)
    <3>1. UNCHANGED <<queue, seenUrls, pending, crawled>>
      BY <2>1 DEF Sleep, SpuriousWakeup, Exit, Blocked, FetchFailed, IndexPage,
                  CopyCallback, InvokeCallback, BreakScan, frontier
    <3>2. Busy' = Busy
      BY <2>1 DEF Sleep, SpuriousWakeup, Exit, Blocked, FetchFailed, IndexPage,
                  CopyCallback, InvokeCallback, BreakScan, Busy, BusyStates, TypeOK
    <3>3. QED
      BY <1>1, <3>1, <3>2
  <2>2. CASE Take(w)
    <3>1. PICK i \in queue : queue' = queue \ {i}
      BY <2>2 DEF Take
    <3>2. IsFiniteSet(queue') /\ Cardinality(queue') = Cardinality(queue) - 1
      BY <3>1, FS_RemoveElement DEF Finite
    <3>3. w \notin Busy /\ Busy' = Busy \cup {w}
      BY <2>2 DEF Take, Busy, BusyStates, TypeOK
    <3>4. Cardinality(Busy') = Cardinality(Busy) + 1
      BY <3>3, BusyCount, FS_AddElement
    <3>5. UNCHANGED <<seenUrls, pending, crawled>>
      BY <2>2 DEF Take
    <3>6. QED
      BY <1>0, <3>2, <3>4, <3>5 DEF Finite, CountersExact, TypeOK
  <2>3. CASE Finish(w)
    <3>1. w \in Busy /\ Busy' = Busy \ {w}
      BY <2>3 DEF Finish, Busy, BusyStates, TypeOK
    <3>2. Cardinality(Busy') = Cardinality(Busy) - 1
      BY <3>1, BusyCount, FS_RemoveElement
    <3>3. /\ seenUrls' = seenUrls /\ queue' = queue
          /\ pending' = pending - 1 /\ crawled' = crawled + 1
      BY <2>3 DEF Finish
    <3>4. QED
      <4>1. /\ pending = Cardinality(queue) + Cardinality(Busy)
            /\ crawled + pending = Cardinality(seenUrls)
            /\ Cardinality(seenUrls) <= MaxPages
            /\ pending \in Nat /\ crawled \in Nat
        BY DEF TypeOK, CountersExact
      <4>2. /\ pending' = Cardinality(queue') + Cardinality(Busy')
            /\ crawled' + pending' = Cardinality(seenUrls')
            /\ Cardinality(seenUrls') <= MaxPages
        BY <1>0, <3>2, <3>3, <4>1, SMTT(30)
      <4>3. QED
        BY <3>3, <4>2 DEF Finite, CountersExact
  <2>4. CASE FollowLink(w)
    <3>1. item[w] \in Item /\ item[w].depth \in Nat /\ links[w] \in Seq(URLs)
      BY <2>4 DEF TypeOK, FollowLink, Busy, BusyStates, Item
    <3>2. Head(links[w]) \in URLs /\ item[w].depth + 1 \in Nat /\ item[w].depth + 1 \in Int
      BY <2>4, <3>1 DEF FollowLink
    <3>3. QED
      BY <2>4, <3>2, AcceptCounts DEF FollowLink
  <2>5. QED
    BY <1>5, <2>1, <2>2, <2>3, <2>4 DEF WorkerStep
<1>6. ASSUME NEW s \in Stoppers, StopFlag(s) \/ StopStep(s)
      PROVE  (Finite /\ CountersExact)'
  <2>1. UNCHANGED <<queue, seenUrls, pending, crawled>>
    BY <1>6 DEF StopFlag, StopStep, StopNotify, StopJoin, frontier
  <2>2. Busy' = Busy
    BY <1>6 DEF StopFlag, StopStep, StopNotify, StopJoin, Busy, BusyStates, TypeOK
  <2>3. QED
    BY <1>1, <2>1, <2>2
<1>7. QED
  BY <1>2, <1>3, <1>4, <1>5, <1>6 DEF Next
\* ExactlyOnce with its set comprehensions spelled out.
Once(q, seen, busy, it, f) ==
    /\ \A i, j \in q : i.url = j.url => i = j
    /\ \A v, w \in busy : it[v].url = it[w].url => v = w
    /\ \A i \in q, w \in busy : i.url # it[w].url
    /\ \A i \in q : i.url \in seen
    /\ \A w \in busy : it[w].url \in seen
    /\ \A u \in URLs : f[u] <= 1
    /\ \A u \in URLs : f[u] = 1 => u \in seen
    /\ \A i \in q : f[i.url] # 1

LEMMA OnceForm ==
    ASSUME TypeOK
    PROVE  ExactlyOnce <=> Once(queue, seenUrls, Busy, item, fetched)
<1>1. InFlightUrls \subseteq seenUrls <=>
          /\ \A i \in queue : i.url \in seenUrls
          /\ \A w \in Busy : item[w].url \in seenUrls
  BY DEF InFlightUrls, InFlight
<1>2. \A i \in queue : i.url \in URLs
  BY DEF TypeOK, Item
<1>3. (\A u \in URLs : fetched[u] = 1 => u \notin {i.url : i \in queue})
        <=> \A i \in queue : fetched[i.url] # 1
  BY <1>2
<1>4. QED
  BY <1>1, <1>3 DEF ExactlyOnce, Once

\* An accepted URL is new to the queue, to the busy workers and to the network.
LEMMA AcceptOnce ==
    ASSUME Inv, NEW u \in URLs, NEW d \in Nat, NEW p \in Int,
           Accepts(u), Accept(u, d, p), UNCHANGED <<item, fetched, docs>>
    PROVE  Once(queue, seenUrls, Busy, item, fetched)' /\ Fresh'
<1> DEFINE n == [url |-> u, depth |-> d, priority |-> IF p < 0 THEN d ELSE p,
                 seq |-> seq]
<1>1. u \notin seenUrls /\ ~stop
  BY AcceptedIsNew
<1>2. Busy' = Busy /\ \A w \in Workers : pc'[w] = "process" => pc[w] = "process"
  BY <1>1, AcceptWakes DEF Inv
<1>3. queue' = queue \cup {n} /\ n.url = u /\ seenUrls' = seenUrls \cup {u}
  BY DEF Accept
<1>4. Once(queue, seenUrls, Busy, item, fetched)
  BY OnceForm DEF Inv
<1>5. fetched[u] # 1
  BY <1>1, <1>4 DEF Once
<1> HIDE DEF n
<1>6. Once(queue', seenUrls', Busy, item, fetched)
  BY <1>1, <1>3, <1>4, <1>5 DEF Once
<1>7. Once(queue, seenUrls, Busy, item, fetched)'
  BY <1>2, <1>6 DEF Once
<1>8. Fresh'
  BY <1>2 DEF Inv, Fresh
<1>9. QED
  BY <1>7, <1>8

\* No step processes or fetches a page twice.
LEMMA OnceStep == Inv /\ [Next]_vars /\ TypeOK' => (ExactlyOnce /\ Fresh)'
<1> SUFFICES ASSUME Inv, [Next]_vars, TypeOK' PROVE (ExactlyOnce /\ Fresh)'
  OBVIOUS
<1> USE CrawlerAssumption DEF Inv
<1> DEFINE Goal == Once(queue, seenUrls, Busy, item, fetched)' /\ Fresh'
<1>0. Once(queue, seenUrls, Busy, item, fetched)
  BY OnceForm
<1>s. SUFFICES Goal
  BY OnceForm, PTL
<1>1. ASSUME UNCHANGED <<queue, seenUrls, item, fetched, docs>>, Busy' = Busy,
             \A w \in Workers : pc'[w] = "process" => pc[w] = "process"
      PROVE  Goal
  BY <1>0, <1>1 DEF Once, Fresh
<1>2. CASE UNCHANGED vars
  BY <1>1, <1>2 DEF vars, frontier, local, outcome, Busy
<1>3. ASSUME NEW u \in Seeds, NEW p \in Priorities, Submit(u, p)
      PROVE  Goal
  <2>1. u \in URLs /\ 0 \in Nat /\ p \in Int
    OBVIOUS
  <2>2. QED
    BY <1>3, <2>1, AcceptOnce DEF Submit, local, outcome
<1>4. CASE SetCallbacks
  BY <1>1, <1>4 DEF SetCallbacks, frontier, local, outcome, Busy
<1>5. ASSUME NEW w \in Workers, WorkerStep(w) \/ SpuriousWakeup(w)
      PROVE  Goal
  <2>1. CASE \/ Sleep(w) \/ SpuriousWakeup(w) \/ Exit(w) \/ Blocked(w)
             \/ CopyCallback(w) \/ InvokeCallback(w) \/ BreakScan(w)
    <3>1. UNCHANGED <<queue, seenUrls, item, fetched, docs>>
      BY <2>1 DEF Sleep, SpuriousWakeup, Exit, Blocked, CopyCallback,
                  InvokeCallback, BreakScan, frontier, local, outcome
    <3>2. /\ Busy' = Busy
          /\ \A v \in Workers : pc'[v] = "process" => pc[v] = "process"
      <4>1. CASE Sleep(w) \/ SpuriousWakeup(w) \/ Exit(w) \/ Blocked(w)
        BY <4>1 DEF Sleep, SpuriousWakeup, Exit, Blocked, Busy, BusyStates, TypeOK
      <4>2. CASE CopyCallback(w) \/ InvokeCallback(w)
        BY <4>2 DEF CopyCallback, InvokeCallback, Busy, BusyStates, TypeOK
      <4>3. CASE BreakScan(w)
        BY <4>3 DEF BreakScan, Busy, BusyStates, TypeOK
      <4>4. QED
        BY <2>1, <4>1, <4>2, <4>3
    <3>3. QED
      BY <1>1, <3>1, <3>2
  <2>2. CASE FetchFailed(w) \/ IndexPage(w)
    <3> DEFINE u == item[w].url
    <3>1. /\ w \in Busy /\ u \in URLs /\ fetched[u] = 0 /\ pc[w] = "process"
      BY <2>2 DEF FetchFailed, IndexPage, Fresh, Busy, BusyStates, TypeOK, Item
    <3>2. /\ UNCHANGED <<queue, seenUrls, item>>
          /\ fetched' = [fetched EXCEPT ![u] = @ + 1]
          /\ docs' \subseteq docs \cup {[url |-> u, depth |-> item[w].depth]}
      BY <2>2 DEF FetchFailed, IndexPage, frontier
    <3>3. /\ Busy' = Busy
          /\ pc' = [pc EXCEPT ![w] = "report"]
      BY <2>2 DEF FetchFailed, IndexPage, Busy, BusyStates, TypeOK
    <3>4. fetched'[u] = 1 /\ \A v \in URLs : v # u => fetched'[v] = fetched[v]
      BY <3>1, <3>2 DEF TypeOK
    <3>5. \A i \in queue : i.url # u /\ i.url \in URLs
      BY <1>0, <3>1 DEF Once, TypeOK, Item
    <3>6. Once(queue, seenUrls, Busy, item, fetched)'
      BY <1>0, <3>1, <3>2, <3>3, <3>4, <3>5 DEF Once
    <3>7. \A v \in Workers : pc'[v] = "process" => fetched'[item'[v].url] = 0
      <4> SUFFICES ASSUME NEW v \in Workers, pc'[v] = "process"
                   PROVE  fetched'[item[v].url] = 0
        BY <3>2
      <4>1. v # w /\ pc[v] = "process" /\ v \in Busy
        BY <3>1, <3>3 DEF TypeOK, Busy, BusyStates
      <4>2. item[v].url # u /\ item[v].url \in URLs
        BY <1>0, <3>1, <4>1 DEF Once, TypeOK, Item
      <4>3. QED
        BY <3>4, <4>1, <4>2 DEF Fresh
    <3>8. \A x \in docs' : fetched'[x.url] = 1
      BY <3>2, <3>4, SMTT(30) DEF Fresh, TypeOK
    <3>9. QED
      BY <3>6, <3>7, <3>8 DEF Fresh
  <2>3. CASE Take(w)
    <3>1. PICK i \in queue : queue' = queue \ {i} /\ item' = [item EXCEPT ![w] = i]
      BY <2>3 DEF Take
    <3>2. /\ UNCHANGED <<seenUrls, fetched, docs>>
          /\ pc' = [pc EXCEPT ![w] = "process"] /\ w \notin Busy
      BY <2>3 DEF Take, outcome, Busy, BusyStates
    <3>3. Busy' = Busy \cup {w}
      BY <3>2 DEF Busy, BusyStates, TypeOK
    <3>4. /\ item'[w] = i
          /\ \A v \in Busy : v # w /\ item'[v] = item[v]
      BY <3>1, <3>2 DEF TypeOK, Busy
    <3>5. Once(queue', seenUrls, Busy', item', fetched)
      BY <1>0, <3>1, <3>3, <3>4 DEF Once
    <3>6. fetched[i.url] = 0
      <4>1. i.url \in URLs
        BY <3>1 DEF TypeOK, Item
      <4>2. fetched[i.url] \in Nat /\ fetched[i.url] <= 1 /\ fetched[i.url] # 1
        BY <1>0, <3>1, <4>1 DEF Once, TypeOK
      <4>3. QED
        BY <4>2
    <3>7. Fresh'
      <4>1. \A v \in Workers : pc'[v] = "process" => fetched[item'[v].url] = 0
        <5> SUFFICES ASSUME NEW v \in Workers, pc'[v] = "process", v # w
                     PROVE  fetched[item'[v].url] = 0
          BY <3>4, <3>6
        <5>1. pc[v] = "process" /\ item'[v] = item[v]
          BY <3>1, <3>2 DEF TypeOK
        <5>2. QED
          BY <5>1 DEF Fresh
      <4>2. QED
        BY <3>2, <4>1 DEF Fresh
    <3>8. QED
      BY <3>2, <3>5, <3>7 DEF Once
  <2>4. CASE Finish(w)
    <3>1. /\ UNCHANGED <<queue, seenUrls, fetched, docs>>
          /\ pc' = [pc EXCEPT ![w] = "lock"]
          /\ item' = [item EXCEPT ![w] = NoItem]
      BY <2>4 DEF Finish, Forget, outcome
    <3>2. Busy' = Busy \ {w} /\ \A v \in Busy' : item'[v] = item[v]
      BY <3>1 DEF Busy, BusyStates, TypeOK
    <3>3. Once(queue, seenUrls, Busy, item, fetched)'
      BY <1>0, <3>1, <3>2 DEF Once
    <3>4. Fresh'
      BY <3>1 DEF Fresh, TypeOK
    <3>5. QED
      BY <3>3, <3>4
  <2>5. CASE FollowLink(w)
    <3>1. item[w] \in Item /\ item[w].depth \in Nat /\ links[w] \in Seq(URLs)
      BY <2>5 DEF TypeOK, FollowLink, Busy, BusyStates, Item
    <3>2. Head(links[w]) \in URLs /\ item[w].depth + 1 \in Nat /\ item[w].depth + 1 \in Int
      BY <2>5, <3>1 DEF FollowLink
    <3>3. QED
      BY <2>5, <3>2, AcceptOnce DEF FollowLink, outcome
  <2>6. QED
    BY <1>5, <2>1, <2>2, <2>3, <2>4, <2>5 DEF WorkerStep
<1>6. ASSUME NEW s \in Stoppers, StopFlag(s) \/ StopStep(s)
      PROVE  Goal
  <2>1. UNCHANGED <<queue, seenUrls, item, fetched, docs>>
    BY <1>6 DEF StopFlag, StopStep, StopNotify, StopJoin, frontier, local, outcome
  <2>2. /\ Busy' = Busy
        /\ \A w \in Workers : pc'[w] = "process" => pc[w] = "process"
    <3>1. CASE StopNotify(s)
      BY <3>1 DEF StopNotify, Busy, BusyStates
    <3>2. CASE pc' = pc
      BY <3>2 DEF Busy
    <3>3. QED
      BY <1>6, <3>1, <3>2 DEF StopFlag, StopStep, StopJoin
  <2>3. QED
    BY <1>1, <2>1, <2>2
<1>7. QED
  BY <1>2, <1>3, <1>4, <1>5, <1>6 DEF Next
\* No step loses a wakeup or a worker.
LEMMA WakeStep == Inv /\ [Next]_vars => (NoLostWakeup /\ Lifecycle)'
<1> SUFFICES ASSUME Inv, [Next]_vars PROVE (NoLostWakeup /\ Lifecycle)'
  OBVIOUS
<1> USE CrawlerAssumption DEF Inv
<1>1. CASE UNCHANGED vars
  BY <1>1 DEF vars, frontier, NoLostWakeup, Lifecycle, Waiting
<1>2. ASSUME NEW u, NEW d, NEW p, Accepts(u), Accept(u, d, p), UNCHANGED <<stop, spc>>
      PROVE  (NoLostWakeup /\ Lifecycle)'
  <2>1. ~stop /\ running'
    BY <1>2, AcceptedIsNew DEF Accept
  <2>2. /\ \A w \in Workers : pc'[w] \notin {"absent", "exited"}
        /\ \E w \in Workers : pc'[w] \in {"lock"} \cup BusyStates
    BY <1>2, <2>1, AcceptWakes
  <2>3. \A s \in Stoppers : spc[s] = "idle"
    BY <2>1 DEF Lifecycle
  <2>4. QED
    BY <1>2, <2>1, <2>2, <2>3 DEF NoLostWakeup, Lifecycle
<1>3. ASSUME NEW u \in Seeds, NEW p \in Priorities, Submit(u, p)
      PROVE  (NoLostWakeup /\ Lifecycle)'
  BY <1>2, <1>3 DEF Submit
<1>4. CASE SetCallbacks
  BY <1>4 DEF SetCallbacks, frontier, NoLostWakeup, Lifecycle, Waiting
<1>5. ASSUME NEW w \in Workers, WorkerStep(w) \/ SpuriousWakeup(w)
      PROVE  (NoLostWakeup /\ Lifecycle)'
  <2>1. CASE Sleep(w)
    <3>1. /\ pc' = [pc EXCEPT ![w] = "wait"] /\ pc[w] = "lock" /\ ~stop /\ queue = {}
          /\ UNCHANGED <<queue, stop, running, spc>>
      BY <2>1 DEF Sleep, frontier
    <3>2. \A s \in Stoppers : spc[s] = "idle"
      BY <3>1 DEF Lifecycle
    <3>3. QED
      BY <3>1, <3>2 DEF NoLostWakeup, Lifecycle, TypeOK
  <2>2. CASE Exit(w)
    <3>1. /\ pc' = [pc EXCEPT ![w] = "exited"] /\ pc[w] = "lock" /\ stop /\ queue = {}
          /\ UNCHANGED <<queue, stop, running, spc>>
      BY <2>2 DEF Exit, frontier
    <3>2. QED
      BY <3>1 DEF NoLostWakeup, Lifecycle, Waiting, TypeOK
  <2>3. CASE FollowLink(w)
    BY <1>2, <2>3 DEF FollowLink
  <2>4. CASE \/ SpuriousWakeup(w) \/ Take(w) \/ Finish(w) \/ Blocked(w)
             \/ FetchFailed(w) \/ IndexPage(w) \/ CopyCallback(w)
             \/ InvokeCallback(w) \/ BreakScan(w)
    <3>1. /\ UNCHANGED <<stop, running, spc>> /\ queue' \subseteq queue
          /\ pc[w] \notin {"absent", "exited"}
          /\ \E t \in {"lock"} \cup BusyStates : pc' = [pc EXCEPT ![w] = t]
      BY <2>4 DEF SpuriousWakeup, Take, Finish, Blocked, FetchFailed, IndexPage,
                  CopyCallback, InvokeCallback, BreakScan, frontier, BusyStates,
                  TypeOK
    <3>2. PICK t \in {"lock"} \cup BusyStates : pc' = [pc EXCEPT ![w] = t]
      BY <3>1
    <3>3. /\ t \notin {"absent", "exited", "wait"}
          /\ pc'[w] = t /\ \A v \in Workers : v # w => pc'[v] = pc[v]
      BY <3>2 DEF BusyStates, TypeOK
    <3>4. NoLostWakeup'
      BY <3>1, <3>2, <3>3 DEF NoLostWakeup, Waiting
    <3>5. Lifecycle'
      BY <3>1, <3>3 DEF Lifecycle
    <3>6. QED
      BY <3>4, <3>5
  <2>5. QED
    BY <1>5, <2>1, <2>2, <2>3, <2>4 DEF WorkerStep
<1>6. ASSUME NEW s \in Stoppers, StopFlag(s) \/ StopStep(s)
      PROVE  (NoLostWakeup /\ Lifecycle)'
  <2>1. CASE StopFlag(s)
    <3>1. /\ UNCHANGED <<queue, running, pc>> /\ stop' = TRUE
          /\ spc' = [spc EXCEPT ![s] = IF stop THEN "notify" ELSE "notifyJoin"]
      BY <2>1 DEF StopFlag, frontier
    <3>2. /\ spc'[s] \in {"notify", "notifyJoin"}
          /\ \A r \in Stoppers : r # s => spc'[r] = spc[r]
      BY <3>1 DEF TypeOK
    <3>3. QED
      BY <3>1, <3>2 DEF NoLostWakeup, Lifecycle, Waiting
  <2>2. CASE StopNotify(s)
    <3>1. /\ UNCHANGED <<queue, running, stop>>
          /\ pc' = [w \in Workers |-> IF pc[w] = "wait" THEN "lock" ELSE pc[w]]
          /\ spc[s] \in {"notify", "notifyJoin"}
          /\ spc' = [spc EXCEPT ![s] = IF @ = "notify" THEN "returned" ELSE "join"]
      BY <2>2 DEF StopNotify, frontier
    <3>2. spc'[s] # "idle" /\ \A r \in Stoppers : r # s => spc'[r] = spc[r]
      BY <3>1 DEF TypeOK
    <3>3. NoLostWakeup'
      BY <3>1 DEF NoLostWakeup, Waiting, BusyStates
    <3>4. Lifecycle'
      BY <3>1, <3>2 DEF Lifecycle
    <3>5. QED
      BY <3>3, <3>4
  <2>3. CASE StopJoin(s)
    <3>1. /\ UNCHANGED <<queue, stop, pc>> /\ running' = FALSE
          /\ spc[s] = "join" /\ spc' = [spc EXCEPT ![s] = "joined"]
      BY <2>3 DEF StopJoin
    <3>2. stop
      BY <3>1 DEF Lifecycle
    <3>3. spc'[s] = "joined" /\ \A r \in Stoppers : r # s => spc'[r] = spc[r]
      BY <3>1 DEF TypeOK
    <3>4. QED
      BY <3>1, <3>2, <3>3 DEF NoLostWakeup, Lifecycle, Waiting
  <2>4. QED
    BY <1>6, <2>1, <2>2, <2>3 DEF StopStep
<1>7. QED
  BY <1>1, <1>3, <1>4, <1>5, <1>6 DEF Next
----------------------------------------------------------------------------
(* The index, the depths and the reports. *)

\* A page that reaches the index was not there before: documents only come.
LEMMA DocsGrow ==
    ASSUME Inv, [Next]_vars
    PROVE  \/ docs' = docs
           \/ \E w \in Workers :
                 /\ IndexPage(w)
                 /\ docs' = docs \cup {[url |-> item[w].url, depth |-> item[w].depth]}
<1>1. ASSUME NEW w \in Workers, IndexPage(w)
      PROVE  docs' = docs \cup {[url |-> item[w].url, depth |-> item[w].depth]}
  <2>1. fetched[item[w].url] = 0
    BY <1>1 DEF IndexPage, Inv, Fresh
  <2>2. \A d \in docs : d.url # item[w].url
    BY <2>1 DEF Inv, Fresh
  <2>3. QED
    BY <1>1, <2>2 DEF IndexPage
<1>2. QED
  BY <1>1 DEF Next, WorkerStep, StopStep, vars, outcome, Submit, SetCallbacks,
       SpuriousWakeup, Sleep, Take, Exit, Finish, Blocked, FetchFailed,
       CopyCallback, InvokeCallback, FollowLink, BreakScan, StopFlag,
       StopNotify, StopJoin

\* Indexed, for one worker.
IndexedW(c, i, r, l, D) ==
    /\ c \in {"report", "call"} =>
          /\ r = "document" => [url |-> i.url, depth |-> i.depth] \in D
          /\ r # "document" => \A d \in D : d.url # i.url
          /\ r # "none"
    /\ c = "links" /\ l # <<>> =>
          /\ i.depth + 1 <= MaxDepth
          /\ [url |-> i.url, depth |-> i.depth] \in D
          /\ \A k \in 1..Len(l) :
                \E m \in 1..Len(Links[i.url]) : Links[i.url][m] = l[k]

LEMMA IndexedForm ==
    Indexed <=> \A w \in Workers : IndexedW(pc[w], item[w], result[w], links[w], docs)
BY DEF Indexed, IndexedW

\* What workers know about the index stays true.
LEMMA IndexedStep == Inv /\ [Next]_vars => Indexed'
<1> SUFFICES ASSUME Inv, [Next]_vars PROVE Indexed'
  OBVIOUS
<1> USE CrawlerAssumption DEF Inv
<1> DEFINE G(w) == IndexedW(pc'[w], item'[w], result'[w], links'[w], docs')
           Same(w) == /\ pc'[w] = pc[w] /\ item'[w] = item[w]
                      /\ result'[w] = result[w] /\ links'[w] = links[w]
           Active == {"report", "call", "links"}
<1>s. SUFFICES \A w \in Workers : G(w)
  BY DEF Indexed, IndexedW
<1>0. \A w \in Workers : IndexedW(pc[w], item[w], result[w], links[w], docs)
  BY IndexedForm
<1>1. ASSUME NEW w \in Workers, docs' = docs, pc'[w] \in Active => Same(w)
      PROVE  G(w)
  <2>1. CASE pc'[w] \in Active
    BY <1>0, <1>1, <2>1
  <2>2. CASE pc'[w] \notin Active
    BY <2>2 DEF IndexedW
  <2>3. QED
    BY <2>1, <2>2
<1>2. CASE UNCHANGED vars
  BY <1>1, <1>2 DEF vars, local, outcome
<1>3. ASSUME NEW u \in Seeds, NEW p \in Priorities, Submit(u, p)
      PROVE  \A w \in Workers : G(w)
  <2>1. Accept(u, 0, p) /\ ~stop /\ UNCHANGED <<local, outcome>>
    BY <1>3, AcceptedIsNew DEF Submit
  <2>2. \A w \in Workers : pc'[w] = pc[w] \/ pc'[w] = "lock"
    BY <2>1, AcceptWakes
  <2>3. QED
    BY <1>1, <2>1, <2>2 DEF local, outcome
<1>4. CASE SetCallbacks
  BY <1>1, <1>4 DEF SetCallbacks, local, outcome
<1>5. ASSUME NEW w \in Workers, WorkerStep(w) \/ SpuriousWakeup(w)
      PROVE  \A v \in Workers : G(v)
  <2>1. CASE \/ Sleep(w) \/ SpuriousWakeup(w) \/ Exit(w) \/ Take(w) \/ Finish(w)
    <3>1. docs' = docs /\ pc'[w] \notin Active
      BY <2>1 DEF Sleep, SpuriousWakeup, Exit, Take, Finish, outcome, TypeOK
    <3>2. \A v \in Workers : v # w => Same(v)
      BY <2>1 DEF Sleep, SpuriousWakeup, Exit, Take, Finish, Forget, local, TypeOK
    <3>3. QED
      BY <1>1, <3>1, <3>2
  <2>2. CASE Blocked(w) \/ FetchFailed(w)
    <3>1. /\ docs' = docs /\ pc[w] = "process" /\ pc'[w] = "report"
          /\ result'[w] = "error" /\ item' = item
      BY <2>2 DEF Blocked, FetchFailed, outcome, TypeOK
    <3>2. \A v \in Workers : v # w => Same(v)
      BY <2>2 DEF Blocked, FetchFailed, TypeOK
    <3>3. \A d \in docs : d.url # item[w].url
      <4>1. fetched[item[w].url] = 0
        BY <3>1 DEF Fresh
      <4>2. QED
        BY <4>1 DEF Fresh
    <3>4. G(w)
      BY <3>1, <3>3 DEF IndexedW
    <3>5. QED
      BY <1>1, <3>1, <3>2, <3>4
  <2>3. CASE IndexPage(w)
    <3> DEFINE n == [url |-> item[w].url, depth |-> item[w].depth]
    <3>1. /\ pc[w] = "process" /\ pc'[w] = "report"
          /\ result'[w] = "document" /\ item' = item
      BY <2>3 DEF IndexPage, TypeOK
    <3>2. docs' = docs \cup {n}
      <4>1. fetched[item[w].url] = 0
        BY <3>1 DEF Fresh
      <4>2. \A d \in docs : d.url # item[w].url
        BY <4>1 DEF Fresh
      <4>3. QED
        BY <2>3, <4>2 DEF IndexPage
    <3>3. \A v \in Workers : v # w => Same(v)
      BY <2>3 DEF IndexPage, TypeOK
    <3>4. G(w)
      BY <3>1, <3>2 DEF IndexedW
    <3>5. ASSUME NEW v \in Workers, v # w PROVE G(v)
      <4>1. CASE pc[v] \notin BusyStates
        BY <3>3, <3>5, <4>1 DEF IndexedW, BusyStates
      <4>2. CASE pc[v] \in BusyStates
        <5>1. item[v].url # item[w].url
          BY <3>1, <3>5, <4>2 DEF ExactlyOnce, Busy, BusyStates
        <5>2. IndexedW(pc[v], item[v], result[v], links[v], docs)
          BY <1>0
        <5>3. IndexedW(pc[v], item[v], result[v], links[v], docs \cup {n})
          BY <5>1, <5>2 DEF IndexedW
        <5>4. QED
          BY <3>2, <3>3, <3>5, <5>3
      <4>3. QED
        BY <4>1, <4>2
    <3>6. QED
      BY <3>4, <3>5
  <2>4. CASE CopyCallback(w)
    <3>1. /\ docs' = docs /\ pc[w] = "report" /\ pc'[w] = "call"
          /\ UNCHANGED <<item, result, links>>
      BY <2>4 DEF CopyCallback, outcome, TypeOK
    <3>2. \A v \in Workers : v # w => Same(v)
      BY <2>4 DEF CopyCallback, TypeOK
    <3>3. G(w)
      BY <1>0, <3>1 DEF IndexedW
    <3>4. QED
      BY <1>1, <3>1, <3>2, <3>3
  <2>5. CASE InvokeCallback(w)
    <3>1. /\ docs' = docs /\ pc[w] = "call" /\ pc'[w] = "links"
          /\ item' = item /\ links'[w] = LinksToFollow(w)
      BY <2>5 DEF InvokeCallback, TypeOK
    <3>2. \A v \in Workers : v # w => Same(v)
      BY <2>5 DEF InvokeCallback, TypeOK
    <3>3. G(w)
      <4>1. CASE LinksToFollow(w) = <<>>
        BY <3>1, <4>1 DEF IndexedW
      <4>2. CASE LinksToFollow(w) # <<>>
        <5>1. /\ result[w] = "document" /\ item[w].depth + 1 <= MaxDepth
              /\ links'[w] = Links[item[w].url]
          BY <3>1, <4>2 DEF LinksToFollow
        <5>2. [url |-> item[w].url, depth |-> item[w].depth] \in docs
          BY <1>0, <3>1, <5>1 DEF IndexedW
        <5>3. QED
          BY <3>1, <5>1, <5>2 DEF IndexedW
      <4>3. QED
        BY <4>1, <4>2
    <3>4. QED
      BY <1>1, <3>1, <3>2, <3>3
  <2>6. CASE FollowLink(w)
    <3>1. /\ docs' = docs /\ UNCHANGED <<item, result>> /\ ~stop
          /\ pc[w] = "links" /\ links[w] # <<>> /\ links' = [links EXCEPT ![w] = Tail(@)]
          /\ Accept(Head(links[w]), item[w].depth + 1, item[w].depth + 1)
      BY <2>6, AcceptedIsNew DEF FollowLink, outcome
    <3>2. \A v \in Workers : \/ pc'[v] = pc[v]
                             \/ pc'[v] = "lock" /\ pc[v] # "links"
      BY <3>1, AcceptWakes
    <3>3. links[w] \in Seq(URLs) /\ links'[w] = Tail(links[w]) /\ pc'[w] = "links"
      BY <3>1, <3>2 DEF TypeOK
    <3>4. \A k \in 1..Len(links'[w]) : /\ k + 1 \in 1..Len(links[w])
                                       /\ links'[w][k] = links[w][k + 1]
      <4>1. /\ Len(links'[w]) = Len(links[w]) - 1 /\ Len(links[w]) \in Nat
            /\ \A k \in 1..Len(links'[w]) : links'[w][k] = links[w][k + 1]
        <5>1. links[w] \in Seq(URLs) /\ links[w] # <<>>
          BY <3>1, <3>3
        <5>2. /\ Len(Tail(links[w])) = Len(links[w]) - 1
              /\ \A k \in 1..Len(Tail(links[w])) : Tail(links[w])[k] = links[w][k + 1]
          BY ONLY <5>1, HeadTailProperties
        <5>3. Len(links[w]) \in Nat
          BY <5>1
        <5>4. QED
          BY <3>3, <5>2, <5>3
      <4>2. QED
        BY <4>1
    <3>5. G(w)
      <4>1. /\ item[w].depth + 1 <= MaxDepth
            /\ [url |-> item[w].url, depth |-> item[w].depth] \in docs
            /\ \A k \in 1..Len(links[w]) :
                  \E m \in 1..Len(Links[item[w].url]) :
                      Links[item[w].url][m] = links[w][k]
        BY <1>0, <3>1 DEF IndexedW
      <4>2. \A k \in 1..Len(links'[w]) :
                \E m \in 1..Len(Links[item[w].url]) :
                    Links[item[w].url][m] = links'[w][k]
        <5>1. ASSUME NEW k \in 1..Len(links'[w])
              PROVE  \E m \in 1..Len(Links[item[w].url]) :
                         Links[item[w].url][m] = links'[w][k]
          <6>1. k + 1 \in 1..Len(links[w]) /\ links'[w][k] = links[w][k + 1]
            BY <3>4
          <6>2. PICK m \in 1..Len(Links[item[w].url]) : Links[item[w].url][m] = links[w][k + 1]
            BY <4>1, <6>1
          <6>3. QED
            BY <6>1, <6>2
        <5>2. QED
          BY <5>1
      <4>3. QED
        BY <3>1, <3>3, <4>1, <4>2 DEF IndexedW
    <3>6. \A v \in Workers : v # w => (pc'[v] \in Active => Same(v))
      BY <3>1, <3>2 DEF TypeOK
    <3>7. QED
      BY <1>1, <3>1, <3>5, <3>6
  <2>7. CASE BreakScan(w)
    <3>1. /\ docs' = docs /\ pc' = pc /\ pc[w] = "links" /\ links'[w] = <<>>
      BY <2>7 DEF BreakScan, outcome, TypeOK
    <3>2. \A v \in Workers : v # w => Same(v)
      BY <2>7 DEF BreakScan, TypeOK
    <3>3. G(w)
      BY <3>1 DEF IndexedW
    <3>4. QED
      BY <1>1, <3>1, <3>2, <3>3
  <2>8. QED
    BY <1>5, <2>1, <2>2, <2>3, <2>4, <2>5, <2>6, <2>7 DEF WorkerStep
<1>6. ASSUME NEW s \in Stoppers, StopFlag(s) \/ StopStep(s)
      PROVE  \A w \in Workers : G(w)
  <2>1. UNCHANGED <<local, outcome>>
    BY <1>6 DEF StopFlag, StopStep, StopNotify, StopJoin
  <2>2. \A w \in Workers : pc'[w] = pc[w] \/ pc'[w] = "lock"
    BY <1>6 DEF StopFlag, StopStep, StopNotify, StopJoin
  <2>3. QED
    BY <1>1, <2>1, <2>2 DEF local, outcome
<1>7. QED
  BY <1>2, <1>3, <1>4, <1>5, <1>6 DEF Next
\* Where in-flight items come from: the items in flight before the step, and
\* at most the one that enqueue accepted in it.
LEMMA InFlightStep ==
    ASSUME Inv, [Next]_vars
    PROVE  \/ InFlight' \subseteq InFlight
           \/ \E u \in Seeds, p \in Priorities :
                 /\ Submit(u, p)
                 /\ \E n \in Item : n.depth = 0 /\ InFlight' \subseteq InFlight \cup {n}
           \/ \E w \in Workers :
                 /\ FollowLink(w)
                 /\ \E n \in Item : /\ n.depth = item[w].depth + 1
                                    /\ n.url = Head(links[w])
                                    /\ InFlight' \subseteq InFlight \cup {n}
<1> USE CrawlerAssumption DEF Inv
<1>1. ASSUME queue' = queue, Busy' \subseteq Busy, \A w \in Busy' : item'[w] = item[w]
      PROVE  InFlight' \subseteq InFlight
  BY <1>1 DEF InFlight
<1>2. ASSUME NEW u \in URLs, NEW d \in Nat, NEW p \in Int, Accepts(u), Accept(u, d, p),
             item' = item
      PROVE  \E n \in Item : n.depth = d /\ n.url = u /\ InFlight' \subseteq InFlight \cup {n}
  <2> DEFINE n == [url |-> u, depth |-> d, priority |-> IF p < 0 THEN d ELSE p,
                   seq |-> seq]
  <2>1. Busy' = Busy
    BY <1>2, AcceptWakes, AcceptedIsNew
  <2>2. queue' = queue \cup {n}
    BY <1>2 DEF Accept
  <2>3. n \in Item /\ n.depth = d /\ n.url = u
    BY <1>2 DEF Item, TypeOK
  <2> HIDE DEF n
  <2>4. InFlight' \subseteq InFlight \cup {n}
    BY <1>2, <2>1, <2>2 DEF InFlight
  <2>5. QED
    BY <2>3, <2>4
<1>3. CASE UNCHANGED vars
  BY <1>1, <1>3 DEF vars, frontier, local, Busy
<1>4. ASSUME NEW u \in Seeds, NEW p \in Priorities, Submit(u, p)
      PROVE  \E n \in Item : n.depth = 0 /\ InFlight' \subseteq InFlight \cup {n}
  <2>1. u \in URLs /\ 0 \in Nat /\ p \in Int
    OBVIOUS
  <2>2. QED
    BY <1>2, <1>4, <2>1 DEF Submit, local
<1>5. CASE SetCallbacks
  BY <1>1, <1>5 DEF SetCallbacks, frontier, local, Busy
<1>6. ASSUME NEW w \in Workers, SpuriousWakeup(w) \/ WorkerStep(w), ~FollowLink(w)
      PROVE  InFlight' \subseteq InFlight
  <2>1. CASE Take(w)
    <3>1. PICK i \in queue : queue' = queue \ {i} /\ item' = [item EXCEPT ![w] = i]
      BY <2>1 DEF Take
    <3>2. Busy' = Busy \cup {w}
      BY <2>1 DEF Take, Busy, BusyStates, TypeOK
    <3>3. item'[w] = i /\ \A v \in Workers : v # w => item'[v] = item[v]
      BY <3>1 DEF TypeOK
    <3>4. \A v \in Busy' : item'[v] \in queue \cup {item[x] : x \in Busy}
      BY <3>2, <3>3 DEF Busy
    <3>5. QED
      BY <3>1, <3>4 DEF InFlight
  <2>2. CASE Finish(w)
    <3>1. /\ queue' = queue /\ pc' = [pc EXCEPT ![w] = "lock"]
          /\ item' = [item EXCEPT ![w] = NoItem]
      BY <2>2 DEF Finish, Forget
    <3>2. Busy' \subseteq Busy /\ \A v \in Busy' : item'[v] = item[v]
      BY <3>1 DEF Busy, BusyStates, TypeOK
    <3>3. QED
      BY <1>1, <3>1, <3>2
  <2>3. CASE \/ Sleep(w) \/ SpuriousWakeup(w) \/ Exit(w) \/ Blocked(w)
             \/ FetchFailed(w) \/ IndexPage(w) \/ CopyCallback(w)
             \/ InvokeCallback(w) \/ BreakScan(w)
    <3>1. UNCHANGED <<queue, item>>
      BY <2>3 DEF Sleep, SpuriousWakeup, Exit, Blocked, FetchFailed, IndexPage,
                  CopyCallback, InvokeCallback, BreakScan, frontier, local
    <3>2. Busy' = Busy
      BY <2>3 DEF Sleep, SpuriousWakeup, Exit, Blocked, FetchFailed, IndexPage,
                  CopyCallback, InvokeCallback, BreakScan, Busy, BusyStates, TypeOK
    <3>3. QED
      BY <1>1, <3>1, <3>2
  <2>4. QED
    BY <1>6, <2>1, <2>2, <2>3 DEF WorkerStep
<1>7. ASSUME NEW w \in Workers, FollowLink(w)
      PROVE  \E n \in Item : /\ n.depth = item[w].depth + 1
                             /\ n.url = Head(links[w])
                             /\ InFlight' \subseteq InFlight \cup {n}
  <2>1. item[w] \in Item /\ item[w].depth \in Nat /\ links[w] \in Seq(URLs)
    BY <1>7 DEF TypeOK, FollowLink, Busy, BusyStates, Item
  <2>2. Head(links[w]) \in URLs /\ item[w].depth + 1 \in Nat /\ item[w].depth + 1 \in Int
    BY <1>7, <2>1 DEF FollowLink
  <2>3. /\ Accepts(Head(links[w])) /\ item' = item
        /\ Accept(Head(links[w]), item[w].depth + 1, item[w].depth + 1)
    BY <1>7 DEF FollowLink
  <2> HIDE DEF Inv
  <2>4. QED
    BY <1>2, <2>2, <2>3
<1>8. ASSUME NEW s \in Stoppers, StopFlag(s) \/ StopStep(s)
      PROVE  InFlight' \subseteq InFlight
  <2>1. UNCHANGED <<queue, item>>
    BY <1>8 DEF StopFlag, StopStep, StopNotify, StopJoin, frontier, local
  <2>2. Busy' = Busy
    <3>1. CASE StopNotify(s)
      BY <3>1 DEF StopNotify, Busy, BusyStates
    <3>2. CASE pc' = pc
      BY <3>2 DEF Busy
    <3>3. QED
      BY <1>8, <3>1, <3>2 DEF StopFlag, StopStep, StopJoin
  <2>3. QED
    BY <1>1, <2>1, <2>2
<1>9. QED
  BY <1>3, <1>4, <1>5, <1>6, <1>7, <1>8 DEF Next

\* Where an item of positive depth may come from, given the index.
FoundOn(i, D) ==
    i.depth > 0 =>
        /\ i.depth <= MaxDepth
        /\ \E d \in D : /\ d.depth = i.depth - 1
                        /\ \E k \in 1..Len(Links[d.url]) : Links[d.url][k] = i.url

\* No step takes up a page that was not found at its depth.
LEMMA ProvenanceStep == Inv /\ [Next]_vars => DepthProvenance'
<1> SUFFICES ASSUME Inv, [Next]_vars PROVE DepthProvenance'
  OBVIOUS
<1> USE CrawlerAssumption DEF Inv
<1>1. \A i \in InFlight : FoundOn(i, docs)
  BY DEF DepthProvenance, FoundOn
<1>2. docs \subseteq docs'
  BY DocsGrow
<1>3. ASSUME NEW i, FoundOn(i, docs) PROVE FoundOn(i, docs')
  BY <1>2, <1>3 DEF FoundOn
<1>s. SUFFICES \A i \in InFlight' : FoundOn(i, docs')
  BY DEF DepthProvenance, FoundOn
<1>4. CASE InFlight' \subseteq InFlight
  BY <1>1, <1>3, <1>4
<1>5. ASSUME NEW n \in Item, n.depth = 0, InFlight' \subseteq InFlight \cup {n}
      PROVE  \A i \in InFlight' : FoundOn(i, docs')
  <2>1. FoundOn(n, docs')
    BY <1>5 DEF FoundOn
  <2>2. QED
    BY <1>1, <1>3, <1>5, <2>1
<1>6. ASSUME NEW w \in Workers, FollowLink(w), NEW n \in Item,
             n.depth = item[w].depth + 1, n.url = Head(links[w]),
             InFlight' \subseteq InFlight \cup {n}
      PROVE  \A i \in InFlight' : FoundOn(i, docs')
  <2>1. /\ pc[w] = "links" /\ links[w] # <<>> /\ links[w] \in Seq(URLs)
        /\ item[w] \in Item
    BY <1>6 DEF FollowLink, TypeOK, Busy, BusyStates
  <2> DEFINE x == [url |-> item[w].url, depth |-> item[w].depth]
  <2>2. /\ item[w].depth + 1 <= MaxDepth /\ x \in docs
        /\ \A k \in 1..Len(links[w]) :
              \E m \in 1..Len(Links[item[w].url]) : Links[item[w].url][m] = links[w][k]
    BY <2>1 DEF Indexed
  <2>3. 1 \in 1..Len(links[w]) /\ Head(links[w]) = links[w][1]
    BY <2>1
  <2>4. \E m \in 1..Len(Links[x.url]) : Links[x.url][m] = n.url
    BY <1>6, <2>2, <2>3
  <2>5. item[w].depth \in Nat /\ x.depth = n.depth - 1 /\ n.depth <= MaxDepth
    BY <1>6, <2>1, <2>2 DEF Item
  <2>6. FoundOn(n, docs)
    BY <2>2, <2>4, <2>5 DEF FoundOn
  <2>7. QED
    BY <1>1, <1>3, <1>6, <2>6
<1>7. QED
  BY <1>4, <1>5, <1>6, InFlightStep
\* A step reports a page at most once, and only when its fate is decided.
LEMMA ReportsStep == Inv /\ [Next]_vars /\ TypeOK' => (Settled /\ ReportsAgree)'
<1> SUFFICES ASSUME Inv, [Next]_vars, TypeOK' PROVE (Settled /\ ReportsAgree)'
  OBVIOUS
<1> USE CrawlerAssumption DEF Inv
<1>0. /\ \A r \in reported : r.url \in seenUrls /\ \A i \in queue : i.url # r.url
      /\ \A r \in reported, w \in Busy : item[w].url = r.url => pc[w] = "links"
  BY DEF Settled
<1>q. ASSUME \A r \in reported' : r.url \in seenUrls' /\ \A i \in queue' : i.url # r.url,
             \A r \in reported', w \in Busy' : item'[w].url = r.url => pc'[w] = "links"
      PROVE  Settled'
  BY <1>q DEF Settled
<1>1. ASSUME UNCHANGED <<docs, reported>>, seenUrls \subseteq seenUrls',
             \A i \in queue' : i \in queue \/ i.url \notin seenUrls,
             \A w \in Busy' :
                 \/ w \in Busy /\ item'[w] = item[w] /\ (pc[w] = "links" => pc'[w] = "links")
                 \/ item'[w] \in queue
      PROVE  (Settled /\ ReportsAgree)'
  <2>1. ReportsAgree'
    BY <1>1 DEF ReportsAgree
  <2>2. QED
    BY <1>0, <1>1, <1>q, <2>1
<1>2. ASSUME NEW u \in URLs, NEW d \in Nat, NEW p \in Int, Accepts(u), Accept(u, d, p),
             UNCHANGED <<item, docs, reported>>
      PROVE  (Settled /\ ReportsAgree)'
  <2>1. /\ Busy' = Busy /\ u \notin seenUrls /\ ~stop
        /\ \A w \in Workers : pc[w] = "links" => pc'[w] = "links"
    BY <1>2, AcceptWakes, AcceptedIsNew
  <2>2. \A i \in queue' : i \in queue \/ i.url \notin seenUrls
    BY <1>2, <2>1 DEF Accept
  <2>3. seenUrls \subseteq seenUrls'
    BY <1>2 DEF Accept
  <2>4. QED
    BY <1>1, <1>2, <2>1, <2>2, <2>3 DEF Busy
<1>3. CASE UNCHANGED vars
  BY <1>1, <1>3 DEF vars, frontier, local, outcome, Busy
<1>4. ASSUME NEW u \in Seeds, NEW p \in Priorities, Submit(u, p)
      PROVE  (Settled /\ ReportsAgree)'
  <2>1. u \in URLs /\ 0 \in Nat /\ p \in Int
    OBVIOUS
  <2>2. Accepts(u) /\ Accept(u, 0, p) /\ UNCHANGED <<item, docs, reported>>
    BY <1>4 DEF Submit, local, outcome
  <2> HIDE DEF Inv
  <2>3. QED
    BY <1>2, <2>1, <2>2
<1>5. CASE SetCallbacks
  BY <1>1, <1>5 DEF SetCallbacks, frontier, local, outcome, Busy
<1>6. ASSUME NEW w \in Workers, WorkerStep(w) \/ SpuriousWakeup(w)
      PROVE  (Settled /\ ReportsAgree)'
  <2>1. CASE Take(w)
    <3>1. PICK i \in queue : queue' = queue \ {i} /\ item' = [item EXCEPT ![w] = i]
      BY <2>1 DEF Take
    <3>2. /\ UNCHANGED <<seenUrls, docs, reported>> /\ w \notin Busy
          /\ pc' = [pc EXCEPT ![w] = "process"]
      BY <2>1 DEF Take, outcome, Busy, BusyStates
    <3>3. item'[w] = i /\ \A v \in Workers : v # w => item'[v] = item[v] /\ pc'[v] = pc[v]
      BY <3>1, <3>2 DEF TypeOK
    <3>4. \A v \in Busy' : v = w \/ v \in Busy
      BY <3>3 DEF Busy
    <3>5. \A v \in Busy' :
              \/ v \in Busy /\ item'[v] = item[v] /\ (pc[v] = "links" => pc'[v] = "links")
              \/ item'[v] \in queue
      BY <3>2, <3>3, <3>4 DEF Busy
    <3>6. QED
      BY <1>1, <3>1, <3>2, <3>5
  <2>2. CASE Finish(w)
    <3>1. /\ UNCHANGED <<queue, seenUrls, docs, reported>>
          /\ pc' = [pc EXCEPT ![w] = "lock"]
          /\ item' = [item EXCEPT ![w] = NoItem]
      BY <2>2 DEF Finish, Forget, outcome
    <3>2. \A v \in Busy' : v \in Busy /\ item'[v] = item[v] /\ pc'[v] = pc[v]
      BY <3>1 DEF Busy, BusyStates, TypeOK
    <3>3. QED
      BY <1>1, <3>1, <3>2
  <2>3. CASE \/ Sleep(w) \/ SpuriousWakeup(w) \/ Exit(w) \/ Blocked(w)
             \/ FetchFailed(w) \/ CopyCallback(w) \/ BreakScan(w)
    <3>1. UNCHANGED <<queue, seenUrls, item, docs, reported>>
      BY <2>3 DEF Sleep, SpuriousWakeup, Exit, Blocked, FetchFailed,
                  CopyCallback, BreakScan, frontier, local, outcome
    <3>2. Busy' = Busy /\ \A v \in Workers : pc[v] = "links" => pc'[v] = "links"
      BY <2>3 DEF Sleep, SpuriousWakeup, Exit, Blocked, FetchFailed,
                  CopyCallback, BreakScan, Busy, BusyStates, TypeOK
    <3>3. QED
      BY <1>1, <3>1, <3>2 DEF Busy
  <2>4. CASE IndexPage(w)
    <3>1. /\ UNCHANGED <<queue, seenUrls, item, reported>> /\ pc[w] = "process"
          /\ w \in Busy /\ pc' = [pc EXCEPT ![w] = "report"]
      BY <2>4 DEF IndexPage, frontier, Busy, BusyStates
    <3>2. Busy' = Busy /\ \A v \in Workers : pc[v] = "links" => pc'[v] = "links"
      BY <3>1 DEF Busy, BusyStates, TypeOK
    <3>3. \A r \in reported : r.url # item[w].url
      BY <1>0, <3>1
    <3>4. \A r \in reported : (\E d \in docs' : d.url = r.url)
                                <=> (\E d \in docs : d.url = r.url)
      BY <2>4, <3>3 DEF IndexPage
    <3>5. ReportsAgree'
      BY <3>1, <3>4 DEF ReportsAgree
    <3>6. Settled'
      BY <1>0, <1>q, <3>1, <3>2 DEF Busy
    <3>7. QED
      BY <3>5, <3>6
  <2>5. CASE InvokeCallback(w)
    <3> DEFINE n == [url |-> item[w].url, kind |-> result[w], by |-> held[w]]
    <3>1. /\ UNCHANGED <<queue, seenUrls, item, docs>> /\ pc[w] = "call"
          /\ w \in Busy /\ pc' = [pc EXCEPT ![w] = "links"]
          /\ reported' \subseteq reported \cup {n}
      BY <2>5 DEF InvokeCallback, frontier, Busy, BusyStates
    <3>2. Busy' = Busy /\ pc'[w] = "links" /\ \A v \in Workers : v # w => pc'[v] = pc[v]
      BY <3>1 DEF Busy, BusyStates, TypeOK
    <3>3. \A r \in reported : r.url # item[w].url
      BY <1>0, <3>1
    <3>4. /\ n.kind \in {"document", "error"}
          /\ n.kind = "document" <=> \E d \in docs : d.url = n.url
      BY <3>1 DEF Indexed, TypeOK, Outcome
    <3>5. n.url = item[w].url
      OBVIOUS
    <3> HIDE DEF n
    <3>6. ReportsAgree'
      BY <3>1, <3>3, <3>4, <3>5 DEF ReportsAgree
    <3>7. /\ item[w].url \in seenUrls /\ \A i \in queue : i.url # item[w].url
          /\ \A v \in Busy : item[v].url = item[w].url => v = w
      BY <3>1, OnceForm DEF Once
    <3>8. \A r \in reported' : r.url \in seenUrls' /\ \A i \in queue' : i.url # r.url
      BY <1>0, <3>1, <3>5, <3>7
    <3>9. \A r \in reported', v \in Busy' : item'[v].url = r.url => pc'[v] = "links"
      BY <1>0, <3>1, <3>2, <3>5, <3>7 DEF Busy
    <3>10. QED
      BY <1>q, <3>6, <3>8, <3>9
  <2>6. CASE FollowLink(w)
    <3>1. item[w] \in Item /\ item[w].depth \in Nat /\ links[w] \in Seq(URLs)
      BY <2>6 DEF TypeOK, FollowLink, Busy, BusyStates, Item
    <3>2. Head(links[w]) \in URLs /\ item[w].depth + 1 \in Nat /\ item[w].depth + 1 \in Int
      BY <2>6, <3>1 DEF FollowLink
    <3>3. /\ Accepts(Head(links[w])) /\ UNCHANGED <<item, docs, reported>>
          /\ Accept(Head(links[w]), item[w].depth + 1, item[w].depth + 1)
      BY <2>6 DEF FollowLink, outcome
    <3> HIDE DEF Inv
    <3>4. QED
      BY <1>2, <3>2, <3>3
  <2>7. QED
    BY <1>6, <2>1, <2>2, <2>3, <2>4, <2>5, <2>6 DEF WorkerStep
<1>7. ASSUME NEW s \in Stoppers, StopFlag(s) \/ StopStep(s)
      PROVE  (Settled /\ ReportsAgree)'
  <2>1. UNCHANGED <<queue, seenUrls, item, docs, reported>>
    BY <1>7 DEF StopFlag, StopStep, StopNotify, StopJoin, frontier, local, outcome
  <2>2. Busy' = Busy /\ \A v \in Workers : pc[v] = "links" => pc'[v] = "links"
    <3>1. CASE StopNotify(s)
      BY <3>1 DEF StopNotify, Busy, BusyStates
    <3>2. CASE pc' = pc
      BY <3>2 DEF Busy
    <3>3. QED
      BY <1>7, <3>1, <3>2 DEF StopFlag, StopStep, StopJoin
  <2>3. QED
    BY <1>1, <2>1, <2>2 DEF Busy
<1>8. QED
  BY <1>3, <1>4, <1>5, <1>6, <1>7 DEF Next
----------------------------------------------------------------------------
(* stop() and the invariant as a whole. *)

Joined == \E s \in Stoppers : spc[s] = "joined"

\* After the joining stop() has returned, no step moves the crawler.
LEMMA QuietStep ==
    ASSUME Inv, Joined, [Next]_vars
    PROVE  UNCHANGED <<frontier, stop, pc, local, outcome>> /\ Joined'
<1> USE DEF Inv
<1>1. /\ stop /\ ~running
      /\ \A w \in Workers : pc[w] \in {"absent", "exited"}
  BY DEF JoinedMeansDrained, Lifecycle, Joined
<1>2. CASE UNCHANGED vars
  BY <1>2 DEF vars, Joined
<1>3. \A u \in URLs : ~Accepts(u)
  BY <1>1, AcceptedIsNew
<1>4. ASSUME NEW u \in Seeds, NEW p \in Priorities, Submit(u, p) PROVE FALSE
  BY <1>1, <1>4, AcceptedIsNew DEF Submit
<1>5. CASE SetCallbacks
  BY <1>5 DEF SetCallbacks, Joined
<1>6. ASSUME NEW w \in Workers, WorkerStep(w) \/ SpuriousWakeup(w) PROVE FALSE
  BY <1>1, <1>6 DEF WorkerStep, SpuriousWakeup, Sleep, Take, Exit, Finish, Blocked,
       FetchFailed, IndexPage, CopyCallback, InvokeCallback, FollowLink, BreakScan
<1>7. ASSUME NEW s \in Stoppers, StopFlag(s) \/ StopStep(s)
      PROVE  UNCHANGED <<frontier, stop, pc, local, outcome>> /\ Joined'
  <2>1. PICK r \in Stoppers : spc[r] = "joined"
    BY DEF Joined
  <2>2. r # s
    BY <1>7, <2>1 DEF StopFlag, StopStep, StopNotify, StopJoin
  <2>3. Joined'
    BY <1>7, <2>1, <2>2 DEF StopFlag, StopStep, StopNotify, StopJoin, TypeOK, Joined
  <2>4. CASE StopFlag(s)
    BY <1>1, <2>3, <2>4 DEF StopFlag, TypeOK
  <2>5. CASE StopNotify(s)
    <3>1. pc \in [Workers -> {"absent", "exited"}]
      BY <1>1 DEF TypeOK
    <3>2. pc' = pc
      BY <2>5, <3>1 DEF StopNotify
    <3>3. QED
      BY <2>3, <2>5, <3>2 DEF StopNotify
  <2>6. CASE StopJoin(s)
    BY <1>1, <2>3, <2>6 DEF StopJoin, frontier, TypeOK
  <2>7. QED
    BY <1>7, <2>4, <2>5, <2>6 DEF StopStep
<1>8. QED
  BY <1>2, <1>4, <1>5, <1>6, <1>7 DEF Next

\* When the joining stop() returns, nothing is left to do.
LEMMA JoinStep == Inv /\ [Next]_vars => JoinedMeansDrained'
<1> SUFFICES ASSUME Inv, [Next]_vars, Joined' PROVE JoinedMeansDrained'
  BY DEF JoinedMeansDrained, Joined
<1>1. CASE Joined
  <2>1. UNCHANGED <<queue, seenUrls, pending, crawled, pc>>
    BY <1>1, QuietStep DEF frontier
  <2>2. QED
    BY <1>1, <2>1 DEF Inv, JoinedMeansDrained, Joined
<1>2. CASE ~Joined
  <2>1. PICK s \in Stoppers : StopJoin(s)
    <3>1. spc' # spc
      BY <1>2 DEF Joined
    <3>2. PICK s \in Stoppers : StopFlag(s) \/ StopStep(s)
      BY <3>1 DEF Next, vars, Submit, SetCallbacks, WorkerStep, SpuriousWakeup,
           Sleep, Take, Exit, Finish, Blocked, FetchFailed, IndexPage,
           CopyCallback, InvokeCallback, FollowLink, BreakScan
    <3>3. ~StopFlag(s) /\ ~StopNotify(s)
      BY <1>2, <3>2 DEF StopFlag, StopNotify, Joined, Inv, TypeOK
    <3>4. QED
      BY <3>2, <3>3 DEF StopStep
  <2>2. /\ UNCHANGED <<queue, seenUrls, pending, crawled, pc>>
        /\ \A w \in Workers : pc[w] \in {"absent", "exited"}
    BY <2>1 DEF StopJoin
  <2>3. queue = {} /\ Busy = {}
    BY <2>2 DEF Inv, NoLostWakeup, Busy, BusyStates
  <2>4. pending = 0 /\ crawled = Cardinality(seenUrls)
    BY <2>3, FS_EmptySet DEF Inv, CountersExact, TypeOK
  <2>5. QED
    BY <2>2, <2>3, <2>4 DEF JoinedMeansDrained
<1>3. QED
  BY <1>1, <1>2

LEMMA InvInit == Init => Inv
<1> SUFFICES ASSUME Init PROVE Inv
  OBVIOUS
<1> USE CrawlerAssumption DEF Init
<1>1. Busy = {} /\ Waiting = {}
  BY DEF Busy, BusyStates, Waiting
<1>2. TypeOK
  <2>1. links \in [Workers -> Seq(URLs)]
    OBVIOUS
  <2>2. /\ result \in [Workers -> Outcome] /\ item \in [Workers -> Item \cup {NoItem}]
        /\ held \in [Workers -> 0..MaxCallbacks] /\ callback \in 0..MaxCallbacks
    BY DEF Outcome
  <2>3. QED
    BY <1>1, <2>1, <2>2 DEF TypeOK
<1>3. Finite /\ CountersExact
  BY <1>1, FS_EmptySet DEF Finite, CountersExact
<1>4. ExactlyOnce /\ DepthProvenance
  BY <1>1 DEF ExactlyOnce, DepthProvenance, InFlightUrls, InFlight
<1>5. NoLostWakeup /\ Lifecycle /\ JoinedMeansDrained
  BY <1>1 DEF NoLostWakeup, Lifecycle, JoinedMeansDrained
<1>6. Fresh /\ Indexed /\ Settled /\ ReportsAgree
  BY <1>1 DEF Fresh, Indexed, Settled, ReportsAgree
<1>7. QED
  BY <1>2, <1>3, <1>4, <1>5, <1>6 DEF Inv

LEMMA InvNext == Inv /\ [Next]_vars => Inv'
BY TypingStep, CountersStep, OnceStep, WakeStep, IndexedStep, ProvenanceStep,
   ReportsStep, JoinStep DEF Inv

LEMMA InvAlways == Spec => []Inv
BY InvInit, InvNext, PTL DEF Spec

\* Type correctness of the crawler, for every pool, cap and link structure.
THEOREM Typing == Spec => []TypeOK
BY InvAlways, PTL DEF Inv

\* The counters are exact and the page cap holds.
THEOREM Counting == Spec => []CountersExact
BY InvAlways, PTL DEF Inv

\* A page is fetched at most once, by one worker.
THEOREM FetchedOnce == Spec => []ExactlyOnce
BY InvAlways, PTL DEF Inv

\* No wakeup is lost: queued work always has an awake worker, and a stop()
\* past its notify_all leaves nobody asleep.
THEOREM WakeupsKept == Spec => []NoLostWakeup
BY InvAlways, PTL DEF Inv

\* Depths are honest and bounded.
THEOREM Provenance == Spec => []DepthProvenance
BY InvAlways, PTL DEF Inv

\* Reports agree with the index.
THEOREM Reporting == Spec => []ReportsAgree
BY InvAlways, PTL DEF Inv

\* The joining stop() returns a drained crawler ...
THEOREM Draining == Spec => []JoinedMeansDrained
BY InvAlways, PTL DEF Inv

\* ... that never moves again.
THEOREM Quiescence == Spec => QuietAfterJoin
<1>1. Inv /\ [Next]_vars
        => [Joined => UNCHANGED <<frontier, pc, local, outcome>>]_vars
  BY QuietStep
<1>2. QED
  BY <1>1, InvAlways, PTL DEF Spec, QuietAfterJoin, Joined

\* enqueue refuses only stopped, capped or duplicate submissions, whatever the
\* Bloom filter answers.
THEOREM RefusalForCause == Spec => []RefusesOnlyForCause
<1>1. Inv => RefusesOnlyForCause
  BY CrawlerAssumption DEF Inv, TypeOK, CountersExact, RefusesOnlyForCause, Accepts
<1>2. QED
  BY <1>1, InvAlways, PTL
----------------------------------------------------------------------------
(* The crawler implements CrawlContract. *)

Done == seenUrls \ InFlightUrls

LEMMA InFlightUrlsForm ==
    InFlightUrls = {i.url : i \in queue} \cup {item[w].url : w \in Busy}
BY DEF InFlightUrls, InFlight

\* An accepting enqueue is one Admit of the contract.
LEMMA AcceptAdmits ==
    ASSUME Inv, NEW u \in URLs, NEW d \in Nat, NEW p \in Int, Accepts(u), Accept(u, d, p),
           item' = item
    PROVE  /\ u \notin seenUrls /\ ~stop /\ Cardinality(seenUrls) < MaxPages
           /\ seenUrls' = seenUrls \cup {u}
           /\ Done' = Done
<1> DEFINE n == [url |-> u, depth |-> d, priority |-> IF p < 0 THEN d ELSE p,
                 seq |-> seq]
<1>1. u \notin seenUrls /\ ~stop /\ crawled + pending < MaxPages
  BY AcceptedIsNew
<1>2. Busy' = Busy
  BY <1>1, AcceptWakes DEF Inv
<1>3. queue' = queue \cup {n} /\ n.url = u /\ seenUrls' = seenUrls \cup {u}
  BY DEF Accept
<1> HIDE DEF n
<1>4. InFlightUrls' = InFlightUrls \cup {u}
  <2>1. {i.url : i \in queue'} = {i.url : i \in queue} \cup {u}
    BY <1>3
  <2>2. {item'[w].url : w \in Busy'} = {item[w].url : w \in Busy}
    BY <1>2
  <2>3. InFlightUrls' = {i.url : i \in queue'} \cup {item'[w].url : w \in Busy'}
    BY DEF InFlightUrls, InFlight
  <2>4. QED
    BY <2>1, <2>2, <2>3, InFlightUrlsForm
<1>5. QED
  BY <1>1, <1>3, <1>4 DEF Done, Inv, CountersExact

\* A step that keeps the items in flight changes nothing the contract sees.
LEMMA RefinementStep ==
    ASSUME Inv, [Next]_vars
    PROVE  [Contract!ANext]_(Contract!avars)
<1> USE CrawlerAssumption DEF Inv
<1>1. ASSUME UNCHANGED <<queue, seenUrls, item, stop, spc>>, Busy' = Busy
      PROVE  UNCHANGED Contract!avars
  <2>1. InFlightUrls' = InFlightUrls
    BY <1>1 DEF InFlightUrls, InFlight
  <2>2. QED
    BY <1>1, <2>1 DEF Contract!avars
<1>2. CASE UNCHANGED vars
  BY <1>1, <1>2 DEF vars, frontier, local, Busy
<1>3. ASSUME NEW u \in URLs, NEW d \in Nat, NEW p \in Int, Accepts(u), Accept(u, d, p),
             UNCHANGED <<item, stop, spc>>
      PROVE  Contract!ANext
  <2> HIDE DEF Inv
  <2>1. /\ u \notin seenUrls /\ ~stop /\ Cardinality(seenUrls) < MaxPages
        /\ seenUrls' = seenUrls \cup {u} /\ Done' = Done
    BY <1>3, AcceptAdmits
  <2>2. Contract!Admit(u)
    <3>1. (seenUrls \ InFlightUrls)' = seenUrls \ InFlightUrls
      BY <2>1 DEF Done
    <3>2. stop' = stop /\ Joined' = Joined
      BY <1>3 DEF Joined
    <3>3. /\ ~stop /\ u \notin seenUrls /\ Cardinality(seenUrls) < MaxPages
          /\ seenUrls' = seenUrls \cup {u}
      BY <2>1
    <3>4. QED
      BY <3>1, <3>2, <3>3 DEF Contract!Admit, Joined, Contract!Cardinality, Cardinality
  <2>3. QED
    BY <2>2 DEF Contract!ANext
<1>4. ASSUME NEW u \in Seeds, NEW p \in Priorities, Submit(u, p)
      PROVE  Contract!ANext
  <2>1. u \in URLs /\ 0 \in Nat /\ p \in Int
    OBVIOUS
  <2>2. Accepts(u) /\ Accept(u, 0, p) /\ UNCHANGED <<item, stop, spc>>
    BY <1>4 DEF Submit, local
  <2> HIDE DEF Inv
  <2>3. QED
    BY <1>3, <2>1, <2>2
<1>5. CASE SetCallbacks
  BY <1>1, <1>5 DEF SetCallbacks, frontier, local, Busy
<1>6. ASSUME NEW w \in Workers, WorkerStep(w) \/ SpuriousWakeup(w)
      PROVE  [Contract!ANext]_(Contract!avars)
  <2>1. CASE Take(w)
    <3>1. PICK i \in queue : queue' = queue \ {i} /\ item' = [item EXCEPT ![w] = i]
      BY <2>1 DEF Take
    <3>2. /\ UNCHANGED <<seenUrls, stop, spc>> /\ w \notin Busy
          /\ Busy' = Busy \cup {w}
      BY <2>1 DEF Take, Busy, BusyStates, TypeOK
    <3>3. item'[w] = i /\ \A v \in Busy : item'[v] = item[v]
      BY <3>1, <3>2 DEF TypeOK, Busy
    <3>4. InFlight' = InFlight
      BY <3>1, <3>2, <3>3 DEF InFlight
    <3>5. InFlightUrls' = InFlightUrls
      BY <3>4 DEF InFlightUrls
    <3>6. QED
      BY <3>2, <3>5 DEF Contract!avars
  <2>2. CASE Finish(w)
    <3> DEFINE u == item[w].url
    <3>1. /\ UNCHANGED <<queue, seenUrls, stop, spc>> /\ w \in Busy
          /\ pc' = [pc EXCEPT ![w] = "lock"]
          /\ item' = [item EXCEPT ![w] = NoItem]
      BY <2>2 DEF Finish, Forget, Busy, BusyStates
    <3>2. Busy' = Busy \ {w} /\ \A v \in Busy' : item'[v] = item[v]
      BY <3>1 DEF Busy, BusyStates, TypeOK
    <3>3. /\ u \in seenUrls /\ \A i \in queue : i.url # u
          /\ \A v \in Busy : v # w => item[v].url # u
      BY <3>1, OnceForm DEF Once
    <3>4. u \in URLs /\ u \in InFlightUrls
      BY <3>1, InFlightUrlsForm DEF TypeOK, Item
    <3>5. InFlightUrls' = InFlightUrls \ {u}
      <4>1. InFlightUrls' = {i.url : i \in queue'} \cup {item'[v].url : v \in Busy'}
        BY DEF InFlightUrls, InFlight
      <4>2. {item'[v].url : v \in Busy'} = {item[v].url : v \in Busy} \ {u}
        BY <3>2, <3>3
      <4>3. {i.url : i \in queue'} = {i.url : i \in queue} \ {u}
        BY <3>1, <3>3
      <4>4. QED
        BY <4>1, <4>2, <4>3, InFlightUrlsForm
    <3>6. /\ u \in seenUrls \ Done
          /\ Done' = Done \cup {u}
      BY <3>1, <3>3, <3>4, <3>5 DEF Done
    <3>7. Contract!Complete(u)
      BY <3>1, <3>6 DEF Contract!Complete, Done
    <3>8. QED
      BY <3>4, <3>7 DEF Contract!ANext
  <2>3. CASE \/ Sleep(w) \/ SpuriousWakeup(w) \/ Exit(w) \/ Blocked(w)
             \/ FetchFailed(w) \/ IndexPage(w) \/ CopyCallback(w)
             \/ InvokeCallback(w) \/ BreakScan(w)
    <3>1. UNCHANGED <<queue, seenUrls, item, stop, spc>>
      BY <2>3 DEF Sleep, SpuriousWakeup, Exit, Blocked, FetchFailed, IndexPage,
                  CopyCallback, InvokeCallback, BreakScan, frontier, local
    <3>2. Busy' = Busy
      BY <2>3 DEF Sleep, SpuriousWakeup, Exit, Blocked, FetchFailed, IndexPage,
                  CopyCallback, InvokeCallback, BreakScan, Busy, BusyStates, TypeOK
    <3>3. QED
      BY <1>1, <3>1, <3>2
  <2>4. CASE FollowLink(w)
    <3>1. item[w] \in Item /\ item[w].depth \in Nat /\ links[w] \in Seq(URLs)
      BY <2>4 DEF TypeOK, FollowLink, Busy, BusyStates, Item
    <3>2. Head(links[w]) \in URLs /\ item[w].depth + 1 \in Nat /\ item[w].depth + 1 \in Int
      BY <2>4, <3>1 DEF FollowLink
    <3>3. /\ Accepts(Head(links[w])) /\ UNCHANGED <<item, stop, spc>>
          /\ Accept(Head(links[w]), item[w].depth + 1, item[w].depth + 1)
      BY <2>4 DEF FollowLink
    <3> HIDE DEF Inv
    <3>4. QED
      BY <1>3, <3>2, <3>3
  <2>5. QED
    BY <1>6, <2>1, <2>2, <2>3, <2>4 DEF WorkerStep
<1>7. ASSUME NEW s \in Stoppers, StopFlag(s) \/ StopStep(s)
      PROVE  [Contract!ANext]_(Contract!avars)
  <2>1. /\ UNCHANGED <<queue, seenUrls, item>> /\ Busy' = Busy
    <3>1. CASE StopNotify(s)
      BY <3>1 DEF StopNotify, Busy, BusyStates, frontier, local
    <3>2. CASE StopFlag(s)
      BY <3>2 DEF StopFlag, Busy, frontier, local
    <3>3. CASE StopJoin(s)
      BY <3>3 DEF StopJoin, Busy, local
    <3>4. QED
      BY <1>7, <3>1, <3>2, <3>3 DEF StopStep
  <2>2. InFlightUrls' = InFlightUrls
    BY <2>1 DEF InFlightUrls, InFlight
  <2>3. CASE StopFlag(s)
    <3>1. stop' = TRUE /\ Joined' = Joined
      BY <2>3 DEF StopFlag, Joined, TypeOK
    <3>2. CASE stop
      BY <2>1, <2>2, <3>1, <3>2 DEF Contract!avars, Joined, TypeOK
    <3>3. CASE ~stop
      <4>1. Contract!Close
        BY <2>1, <2>2, <3>1, <3>3 DEF Contract!Close, Joined
      <4>2. QED
        BY <4>1 DEF Contract!ANext
    <3>4. QED
      BY <3>2, <3>3
  <2>4. CASE StopNotify(s)
    <3>1. stop' = stop /\ Joined' = Joined
      BY <2>4 DEF StopNotify, Joined, TypeOK
    <3>2. QED
      BY <2>1, <2>2, <3>1 DEF Contract!avars, Joined
  <2>5. CASE StopJoin(s)
    <3>1. stop' = stop /\ stop /\ Joined'
      BY <2>5 DEF StopJoin, Joined, TypeOK, Lifecycle
    <3>2. CASE Joined
      BY <2>1, <2>2, <3>1, <3>2 DEF Contract!avars, Joined
    <3>3. CASE ~Joined
      <4>1. queue = {} /\ Busy = {}
        BY <2>5 DEF StopJoin, NoLostWakeup, Busy, BusyStates
      <4>2. InFlightUrls = {}
        BY <4>1, InFlightUrlsForm
      <4>3. Contract!Drain
        BY <2>1, <2>2, <3>1, <3>3, <4>2 DEF Contract!Drain, Joined
      <4>4. QED
        BY <4>3 DEF Contract!ANext
    <3>4. QED
      BY <3>2, <3>3
  <2>6. QED
    BY <1>7, <2>3, <2>4, <2>5 DEF StopStep
<1>8. QED
  BY <1>2, <1>4, <1>5, <1>6, <1>7 DEF Next

\* The safety part of the contract holds of the crawler: it admits new URLs
\* only while open and below the cap, completes each once, and drains before
\* the joining stop() returns.
THEOREM Refinement == Spec => ImplementsContractSafety
<1>1. Init => Contract!AInit
  BY DEF Init, Contract!AInit, InFlightUrls, InFlight
<1>2. Inv /\ [Next]_vars => [Contract!ANext]_(Contract!avars)
  BY RefinementStep
<1>3. QED
  BY <1>1, <1>2, InvAlways, PTL DEF Spec, ImplementsContractSafety, Contract!ASafety
=============================================================================
